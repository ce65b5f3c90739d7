---------------------------- MODULE DataDirectory ----------------------------
(***************************************************************************)
(* What JARVIS keeps on the machine, from the first start of this version  *)
(* to its removal: the import of a v0.1 database (legacy_migration.py,     *)
(* called by Brain.initialise), the database that is served from then on,  *)
(* and the uninstaller, which runs the application's own cleanup           *)
(* (uninstall.py, ownership.py) and sweeps up after it (jarvis.iss).       *)
(***************************************************************************)
EXTENDS Naturals, FiniteSets

CONSTANTS
  Servers,    \* server children that can be under way at once
  Keys,       \* credentials.OWNED_CREDENTIALS
  Rows,       \* rows the user makes in the current version
  MaxFaults,  \* bound: crashes, and file operations that fail
  MaxStarts   \* bound: starts of the application

VARIABLES
  legacy,    \* the v0.1 database: none, sound or damaged
  db,        \* the file at default_db_path()
  marker,    \* legacy_migration.json
  tmp,       \* the copy under way, jarvis.db.migrating
  backup,    \* a copy of the legacy file is in backups/
  folder,    \* the data folder exists
  pc,        \* where each server child is
  opened,    \* servers that hold the database open
  keys,      \* what is in the Credential Manager
  shortcut,  \* the sign-in shortcut exists
  un,        \* the uninstaller's next step
  purge,     \* the user chose to remove the data as well
  todo,      \* credentials the cleanup has not come to
  failed,    \* report.failed is not empty
  report,    \* the status in the report file
  ok,        \* UninstallCleanupSucceeded
  evidence,  \* the report or a notice was left in the data folder
  faults, starts,
  written,   \* rows the user made (history)
  saved,     \* keys the user saved (history)
  ran        \* a server ran while the uninstaller did (history)

vars == <<legacy, db, marker, tmp, backup, folder, pc, opened, keys, shortcut, un, purge,
          todo, failed, report, ok, evidence, faults, starts, written, saved, ran>>

Absent == "none"
NoDb == [is |-> Absent, rows |-> {}, schema |-> FALSE]
Db(soundness, rows, schema) == [is |-> soundness, rows |-> rows, schema |-> schema]
Old == "old"      \* what the v0.1 database holds

TypeOK ==
  /\ legacy \in {Absent, "sound", "damaged"}
  /\ db \in [is : {Absent, "sound", "damaged"}, rows : SUBSET (Rows \cup {Old}), schema : BOOLEAN]
  /\ marker \in {Absent, "no_legacy_found", "skipped_destination_has_data",
                 "skipped_invalid_legacy", "failed_copy", "failed_verification",
                 "failed_schema", "migrated"}
  /\ tmp \in {Absent, "sound", "damaged"} /\ {backup, folder, shortcut} \subseteq BOOLEAN
  /\ pc \in [Servers -> {"off", "marker", "find", "look", "check", "backup", "copy",
                         "replace", "verify", "schema", "record", "tables", "serve"}]
  /\ opened \subseteq Servers /\ keys \subseteq Keys /\ todo \subseteq Keys
  /\ un \in {Absent, "prove", "shortcut", "keys", "data", "final", "evidence", "sweep", "done"}
  /\ {purge, failed, ok, evidence, ran} \subseteq BOOLEAN
  /\ report \in {Absent, "starting", "complete", "incomplete"}
  /\ faults \in 0..MaxFaults /\ starts \in 0..MaxStarts
  /\ written \subseteq Rows /\ saved \subseteq Keys

Init ==
  /\ legacy \in {Absent, "sound", "damaged"}
  /\ db \in {NoDb, Db("sound", {}, TRUE)}
  /\ marker = Absent /\ tmp = Absent /\ backup = FALSE /\ folder = (db.is # Absent)
  /\ pc = [s \in Servers |-> "off"] /\ opened = {} /\ keys = {} /\ shortcut = FALSE
  /\ un = Absent /\ purge = FALSE /\ todo = {} /\ failed = FALSE /\ report = Absent
  /\ ok = FALSE /\ evidence = FALSE
  /\ faults = 0 /\ starts = 0 /\ written = {} /\ saved = {} /\ ran = FALSE

data    == <<db, marker, tmp, backup, folder>>
cleanup == <<un, purge, todo, failed, report, ok, evidence>>
others  == <<opened, keys, shortcut, cleanup, starts, written, saved, ran>>

Fault == faults < MaxFaults /\ faults' = faults + 1
Fine  == UNCHANGED faults
At(s, where)   == pc[s] = where
Goes(s, where) == pc' = [pc EXCEPT ![s] = where]

-----------------------------------------------------------------------------
(* migrate_if_needed *)

StartApp(s) ==
  /\ At(s, "off") /\ starts < MaxStarts /\ un # "done"
  /\ starts' = starts + 1 /\ Goes(s, "marker") /\ folder' = TRUE
  /\ ran' = (ran \/ un # Absent)
  /\ UNCHANGED <<legacy, db, marker, tmp, backup, opened, keys, shortcut, cleanup, faults,
                 written, saved>>

\* _write_marker: the decision is recorded, or it is taken again next time.
Records(status) ==
  \/ marker' = status /\ Fine
  \/ Fault /\ UNCHANGED marker

Decides(s, status) == Records(status) /\ Goes(s, "tables")

ReadMarker(s) ==
  /\ At(s, "marker") /\ Fine
  /\ Goes(s, IF marker # Absent THEN "tables" ELSE "find")
  /\ UNCHANGED <<legacy, data, others>>

\* find_legacy_db: a candidate that cannot be looked at is none.
FindLegacy(s) ==
  /\ At(s, "find")
  /\ \/ legacy # Absent /\ Goes(s, "look") /\ Fine /\ UNCHANGED marker
     \/ legacy = Absent /\ Decides(s, "no_legacy_found")
  /\ UNCHANGED <<legacy, db, tmp, backup, folder, others>>

HasUserData == db.is = "damaged" \/ db.rows # {}

\* Mutated form of LookAtDestination: a database that exists is no reason to stop.
LookAtNothing(s) ==
  /\ At(s, "look") /\ Goes(s, "check") /\ Fine
  /\ UNCHANGED <<legacy, data, others>>

LookAtDestination(s) ==
  /\ At(s, "look")
  /\ IF HasUserData THEN Decides(s, "skipped_destination_has_data")
     ELSE Goes(s, "check") /\ Fine /\ UNCHANGED marker
  /\ UNCHANGED <<legacy, db, tmp, backup, folder, others>>

CheckLegacy(s) ==
  /\ At(s, "check")
  /\ IF legacy = "sound" THEN Goes(s, "backup") /\ Fine /\ UNCHANGED marker
     ELSE Decides(s, "skipped_invalid_legacy")
  /\ UNCHANGED <<legacy, db, tmp, backup, folder, others>>

\* _backup: its failure stops nothing.
Backup(s) ==
  /\ At(s, "backup") /\ Goes(s, "copy")
  /\ \/ backup' = TRUE /\ Fine
     \/ Fault /\ UNCHANGED backup
  /\ UNCHANGED <<legacy, db, marker, tmp, folder, others>>

\* _atomic_copy: under another name first; the copy may be damaged, or not be made.
Copy(s) ==
  /\ At(s, "copy")
  /\ \/ tmp' = "sound" /\ Fine /\ Goes(s, "replace") /\ UNCHANGED marker
     \/ tmp' = "damaged" /\ Fault /\ Goes(s, "replace") /\ UNCHANGED marker
     \/ tmp' = Absent /\ marker' = "failed_copy" /\ Fault /\ Goes(s, "tables")
  /\ UNCHANGED <<legacy, db, backup, folder, others>>

\* os.replace fails while another server holds the database open.
Replace(s) ==
  /\ At(s, "replace") /\ tmp' = Absent
  /\ \/ /\ opened \ {s} = {} /\ tmp # Absent /\ Fine
        /\ db' = Db(tmp, IF tmp = "sound" THEN {Old} ELSE {}, FALSE)
        /\ Goes(s, "verify") /\ UNCHANGED marker
     \/ /\ opened \ {s} # {} \/ tmp = Absent
        /\ Fine /\ marker' = "failed_copy" /\ Goes(s, "tables") /\ UNCHANGED db
     \/ Fault /\ marker' = "failed_copy" /\ Goes(s, "tables") /\ UNCHANGED db
  /\ UNCHANGED <<legacy, backup, folder, others>>

Verify(s) ==
  /\ At(s, "verify")
  /\ \/ db.is = "sound" /\ Goes(s, "schema") /\ Fine /\ UNCHANGED <<db, marker>>
     \/ db.is # "sound" /\ db' = NoDb /\ Decides(s, "failed_verification")
     \/ /\ db.is # "sound" /\ Fault /\ marker' = "failed_verification"
        /\ Goes(s, "tables") /\ UNCHANGED db
  /\ UNCHANGED <<legacy, tmp, backup, folder, others>>

Schema(s) ==
  /\ At(s, "schema")
  /\ \/ Fine /\ db' = [db EXCEPT !.schema = TRUE] /\ Goes(s, "record") /\ UNCHANGED marker
     \/ Fault /\ marker' = "failed_schema" /\ Goes(s, "tables") /\ UNCHANGED db
  /\ UNCHANGED <<legacy, tmp, backup, folder, others>>

Record(s) ==
  /\ At(s, "record") /\ Decides(s, "migrated")
  /\ UNCHANGED <<legacy, db, tmp, backup, folder, others>>

\* create_tables(): makes the database, or completes it; it cannot do with a damaged one.
Tables(s) ==
  /\ At(s, "tables") /\ Fine
  /\ \/ db.is = Absent /\ db' = Db("sound", {}, TRUE) /\ Goes(s, "serve")
     \/ db.is = "sound" /\ db' = [db EXCEPT !.schema = TRUE] /\ Goes(s, "serve")
     \/ db.is = "damaged" /\ Goes(s, "off") /\ UNCHANGED db
  /\ UNCHANGED <<legacy, marker, tmp, backup, folder, others>>

Migration(s) ==
  \/ StartApp(s) \/ ReadMarker(s) \/ FindLegacy(s) \/ LookAtDestination(s) \/ CheckLegacy(s)
  \/ Backup(s) \/ Copy(s) \/ Replace(s) \/ Verify(s) \/ Schema(s) \/ Record(s) \/ Tables(s)

-----------------------------------------------------------------------------
(* The application in use. *)

Write(s, row) ==
  /\ At(s, "serve") /\ row \notin written
  /\ written' = written \cup {row} /\ opened' = opened \cup {s}
  /\ db' = [db EXCEPT !.rows = @ \cup {row}]
  /\ UNCHANGED <<legacy, marker, tmp, backup, folder, pc, keys, shortcut, cleanup, faults,
                 starts, saved, ran>>

SaveKey(s, k) ==
  /\ At(s, "serve") /\ k \notin saved
  /\ keys' = keys \cup {k} /\ saved' = saved \cup {k}
  /\ UNCHANGED <<legacy, data, pc, opened, shortcut, cleanup, faults, starts, written, ran>>

Enable(s) ==
  /\ At(s, "serve") /\ ~shortcut /\ shortcut' = TRUE
  /\ UNCHANGED <<legacy, data, pc, opened, keys, cleanup, faults, starts, written, saved, ran>>

\* It is closed, or it crashes, wherever it is.
Ends(s) ==
  /\ pc[s] # "off" /\ (IF At(s, "serve") THEN Fine ELSE Fault)
  /\ Goes(s, "off") /\ opened' = opened \ {s}
  /\ UNCHANGED <<legacy, data, keys, shortcut, cleanup, starts, written, saved, ran>>

-----------------------------------------------------------------------------
(* The uninstaller. *)

app == <<legacy, marker, tmp, backup, pc, opened, starts, written, saved, ran>>
Running == \E s \in Servers : pc[s] # "off"

\* The choice is made first; without the program there is nobody to clean up.
Uninstall(all) ==
  /\ un = Absent /\ purge' = all /\ report' = Absent /\ ran' = Running
  /\ \/ un' = "prove" /\ Fine
     \/ un' = "evidence" /\ Fault
  /\ UNCHANGED <<legacy, data, pc, opened, keys, shortcut, todo, failed, ok, evidence,
                 starts, written, saved>>

\* The report's file is proved writable before anything is removed.
Prove ==
  /\ un = "prove"
  /\ \/ report' = "starting" /\ un' = "shortcut" /\ Fine
     \/ Fault /\ un' = "evidence" /\ UNCHANGED report
  /\ UNCHANGED <<app, db, folder, keys, shortcut, purge, todo, failed, ok, evidence>>

RemoveShortcut ==
  /\ un = "shortcut"
  /\ \/ shortcut' = FALSE /\ Fine /\ UNCHANGED failed
     \/ shortcut /\ Fault /\ failed' = TRUE /\ UNCHANGED shortcut
  /\ IF purge THEN un' = "keys" /\ todo' = Keys ELSE un' = "final" /\ UNCHANGED todo
  /\ UNCHANGED <<app, db, folder, keys, purge, report, ok, evidence>>

\* A store that cannot be reached is a failure, and so is a key that will not go, or whose
\* removal outlives its timeout.
RemoveKey(k) ==
  /\ un = "keys" /\ k \in todo /\ todo' = todo \ {k}
  /\ \/ keys' = keys \ {k} /\ Fine /\ UNCHANGED failed
     \/ Fault /\ failed' = TRUE /\ keys' \in {keys, keys \ {k}}
  /\ UNCHANGED <<app, db, folder, shortcut, un, purge, report, ok, evidence>>

KeysDone ==
  /\ un = "keys" /\ todo = {}
  /\ un' = IF failed THEN "final" ELSE "data"
  /\ UNCHANGED <<app, db, folder, keys, shortcut, purge, todo, failed, report, ok, evidence,
                 faults>>

\* rmtree: a server's open files stop it halfway.
Wiped == db' = NoDb /\ marker' = Absent /\ tmp' = Absent /\ backup' = FALSE
RemoveData ==
  /\ un = "data" /\ un' = "final"
  /\ \/ ~Running /\ Wiped /\ folder' = FALSE /\ Fine /\ UNCHANGED failed
     \/ /\ failed' = TRUE /\ (IF Running THEN Fine ELSE Fault)
        /\ \/ Wiped /\ opened = {}
           \/ UNCHANGED <<db, marker, tmp, backup>>
        /\ UNCHANGED folder
  /\ UNCHANGED <<legacy, pc, opened, starts, written, saved, ran, keys, shortcut, purge, todo,
                 report, ok, evidence>>

\* The exit code says complete only when the report does.
Final ==
  /\ un = "final"
  /\ \/ /\ report' = (IF failed THEN "incomplete" ELSE "complete") /\ Fine
        /\ ok' = ~failed /\ un' = IF failed THEN "evidence" ELSE "sweep"
     \/ Fault /\ un' = "evidence" /\ UNCHANGED <<report, ok>>
  /\ UNCHANGED <<app, db, folder, keys, shortcut, purge, todo, failed, evidence>>

\* The cleanup process ends before it is done.
CleanupDies ==
  /\ un \in {"prove", "shortcut", "keys", "data", "final"} /\ Fault /\ un' = "evidence"
  /\ UNCHANGED <<app, db, folder, keys, shortcut, purge, todo, failed, report, ok, evidence>>

\* PreserveCleanupEvidence: the folder is made if it has gone.
KeepEvidence ==
  /\ un = "evidence" /\ un' = "sweep" /\ evidence' = TRUE /\ folder' = TRUE
  /\ UNCHANGED <<app, db, keys, shortcut, purge, todo, failed, report, ok, faults>>

\* usPostUninstall: the folder goes when everything had been asked for and had worked.
Sweep ==
  /\ un = "sweep" /\ un' = "done"
  /\ IF purge /\ ok /\ ~Running THEN folder' = FALSE /\ Wiped
     ELSE UNCHANGED <<folder, db, marker, tmp, backup>>
  /\ UNCHANGED <<legacy, pc, opened, starts, written, saved, ran, keys, shortcut, purge, todo,
                 failed, report, ok, evidence, faults>>

Uninstaller ==
  \/ \E all \in BOOLEAN : Uninstall(all)
  \/ \E k \in Keys : RemoveKey(k)
  \/ Prove \/ RemoveShortcut \/ KeysDone \/ RemoveData \/ Final \/ CleanupDies
  \/ KeepEvidence \/ Sweep

Next ==
  \/ \E s \in Servers :
       \/ Migration(s) \/ Enable(s) \/ Ends(s)
       \/ \E row \in Rows : Write(s, row)
       \/ \E k \in Keys : SaveKey(s, k)
  \/ Uninstaller

Spec == Init /\ [][Next]_vars

-----------------------------------------------------------------------------
(* Properties *)

\* "A destination that already holds user data is never overwritten": what the user made
\* is there until a removal of the data that the user chose, and an import that is recorded
\* as done has its rows there (legacy_migration.py).  Violated with two server children at
\* once: each looks at the destination before the other has written to it.
RowsAreKept ==
  ~purge =>
    /\ written \subseteq db.rows
    /\ marker = "migrated" => Old \in db.rows

\* What is served is a whole database with the current tables.
ServesAWholeDatabase ==
  \A s \in Servers : At(s, "serve") /\ ~purge => db.is = "sound" /\ db.schema

\* What the user has is kept, and what is served is whole.
DatabaseIsKept == RowsAreKept /\ ServesAWholeDatabase

\* A removal that says it is complete left nothing of what was to go, and one that is not
\* left its evidence behind (uninstall.py, jarvis.iss), for an application that does not
\* run meanwhile.
RemovalIsHonest ==
  un = "done" /\ ~ran =>
    /\ ok => ~shortcut /\ (purge => keys = {} /\ ~folder)
    /\ ~ok => evidence /\ folder
    /\ ~purge => keys = saved

\* preferences.py:96-97, "--uninstall-cleanup runs when the application has been told to
\* stop".  Violated: nothing stops it, and what it saves after the cleanup stays.
CompleteMeansComplete == un = "done" /\ ok /\ purge => keys = {}

\* The marker says what happened (last_result, for Diagnostics).  Violated: after a crash
\* between the import and its marker the import counts as the user's own data.
MarkerIsHonest == marker = "skipped_destination_has_data" => Old \notin db.rows

\* "A failure here must never stop JARVIS starting" (legacy_migration.py:47).  Violated: a
\* damaged copy that could not be removed.
AlwaysStarts ==
  [][\A s \in Servers : At(s, "tables") => pc'[s] # "off" \/ faults' # faults]_vars
=============================================================================
