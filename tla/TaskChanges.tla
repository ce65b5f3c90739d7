---------------------------- MODULE TaskChanges -----------------------------
(***************************************************************************)
(* What a coding task does to the files of its project, and what the page  *)
(* can do about it afterwards: edits with a stale-base check and a backup  *)
(* (coding/agent.py, coding/editing.py), undo (coding/undo.py), and the    *)
(* reviewed export (coding/delivery.py), with the endpoints that call them *)
(* (api/coding_routes.py).                                                 *)
(*                                                                         *)
(* Three parties work on one tree: the thread of the task, the endpoints,  *)
(* which run one after another on the event loop, and the user's editor,   *)
(* which writes between any two steps of either.  A hash stands for the    *)
(* content it is the hash of.                                              *)
(***************************************************************************)
EXTENDS Integers, Sequences

CONSTANTS
  Paths,       \* paths of the project
  Mine,        \* contents the user writes
  Theirs,      \* contents the model proposes
  Absent,      \* no file at the path
  MaxEdits,    \* bound: edits the model proposes
  MaxWrites,   \* bound: writes of the user
  MaxRequests  \* bound: requests of the page

ChangesAssumption ==
  /\ Mine \cap Theirs = {} /\ Absent \notin Mine \cup Theirs
  /\ MaxEdits \in Nat /\ MaxWrites \in Nat /\ MaxRequests \in Nat

VARIABLES
  tree,      \* the files of the project
  agent,     \* the edit the thread of the task is at
  mem,       \* files_changed of the thread's copy of the record
  disk,      \* files_changed of the record in the history file
  backup,    \* the private copies, by number
  plan,      \* the export plan in memory: the fingerprint of its paths
  zip,       \* the files in the last export
  req,       \* the request the event loop is at
  first,     \* the files before the task (history)
  taken,     \* user's bytes that JARVIS has replaced or removed (history)
  touched,   \* whether the user has written anything (history)
  report,    \* what the last undo came to (history)
  tries, writes, requests

vars == <<tree, agent, mem, disk, backup, plan, zip, req, first, taken, touched,
          report, tries, writes, requests>>

Kinds    == {"create", "update", "delete", "rename"}
Contents == Mine \cup Theirs
Files    == [Paths -> Contents \cup {Absent}]

\* An entry of files_changed.
Change == [kind : Kinds, path : Paths, dest : Paths, before : Contents \cup {Absent},
           after : Contents \cup {Absent}, id : 1..MaxEdits]

Edit == [at : {"idle", "backup", "check", "replace", "save", "ended"}, kind : Kinds,
         path : Paths \cup {Absent}, dest : Paths \cup {Absent}, new : Contents \cup {Absent},
         base : Contents \cup {Absent}, raced : BOOLEAN]

\* The fingerprint of some of the files.
Prints == UNION {[P -> Contents \cup {Absent}] : P \in SUBSET Paths}

Request == [at : {"none", "undo", "restore", "zip"}, rec : Seq(Change), prints : Prints,
            next : 0..MaxEdits, raw : Contents \cup {Absent},
            skipped : BOOLEAN, raced : BOOLEAN, calm : BOOLEAN]

Nothing == [p \in {} |-> Absent]

TypeOK ==
  /\ tree \in Files /\ first \in Files
  /\ agent \in Edit
  /\ mem \in Seq(Change) /\ disk \in Seq(Change)
  /\ Len(mem) <= tries /\ Len(disk) <= Len(mem)
  /\ backup \in [1..MaxEdits -> Contents \cup {Absent}]
  /\ plan \in Prints /\ zip \in Prints
  /\ req \in Request
  /\ taken \subseteq Paths \X Mine \X (1..MaxEdits)
  /\ touched \in BOOLEAN /\ report \in {"none", "calm", "short"}
  /\ tries \in 0..MaxEdits /\ writes \in 0..MaxWrites /\ requests \in 0..MaxRequests

Idle == [at |-> "idle", kind |-> "create", path |-> Absent, dest |-> Absent,
         new |-> Absent, base |-> Absent, raced |-> FALSE]
NoRequest == [at |-> "none", rec |-> <<>>, prints |-> Nothing, next |-> 0, raw |-> Absent,
              skipped |-> FALSE, raced |-> FALSE, calm |-> FALSE]

Init ==
  /\ tree \in [Paths -> Mine \cup {Absent}] /\ first = tree
  /\ agent = Idle
  /\ mem = <<>> /\ disk = <<>>
  /\ backup = [i \in 1..MaxEdits |-> Absent]
  /\ plan = Nothing /\ zip = Nothing /\ req = NoRequest
  /\ taken = {} /\ touched = FALSE /\ report = "none"
  /\ tries = 0 /\ writes = 0 /\ requests = 0

-----------------------------------------------------------------------------
(* The thread of the task. *)

record  == <<mem, disk>>
history == <<first, touched>>
counts  == <<tries, writes, requests>>
exports == <<plan, zip>>

Live == agent.at # "ended"

\* The user's bytes that are gone when q's content is replaced, outside a race.
Lost(q, id, raced) ==
  IF tree[q] \in Mine /\ ~raced THEN {<<q, tree[q], id>>} ELSE {}

\* Somebody writes after the edit has compared, or puts back what it is about to
\* compare with after it has made its copy.
Races(S) ==
  agent' = [agent EXCEPT !.raced =
    \/ agent.raced
    \/ agent.at = "replace" /\ {agent.path, agent.dest} \cap S # {}
    \/ agent.at = "check" /\ agent.path \in S /\ tree'[agent.path] = agent.base]

\* What a write leaves of the calm of an undo in progress.
Disturbs(S) ==
  req' = [req EXCEPT !.calm = FALSE,
                     !.raced = req.raced \/ req.at = "zip"
                               \/ (req.at = "restore" /\ S \cap {req.rec[req.next].path,
                                                                 req.rec[req.next].dest} # {})]

\* _write_file, _delete_file, _rename_file: a snapshot of the path; the model gives the
\* hash it was shown, and a deletion or a rename is bound to the snapshot itself.
Propose(kind, p, q, new) ==
  /\ agent.at = "idle" /\ tries < MaxEdits
  /\ kind # "create" => tree[p] # Absent
  /\ kind \in {"create", "update"} => q = p /\ new \in Theirs
  /\ kind = "delete" => q = p
  /\ kind \in {"delete", "rename"} => new = Absent
  /\ agent' = [at |-> IF kind = "create" THEN "check" ELSE "backup", kind |-> kind,
               path |-> p, dest |-> q, new |-> new, base |-> tree[p], raced |-> FALSE]
  /\ tries' = tries + 1
  /\ UNCHANGED <<tree, record, backup, exports, req, taken, history, report, writes, requests>>

\* undo.store_bytes(): full, unwritable or unreadable, and nothing is changed.
Backup ==
  /\ agent.at = "backup"
  /\ \/ agent' = Idle /\ UNCHANGED backup
     \/ /\ tree[agent.path] # Absent
        /\ backup' = [backup EXCEPT ![tries] = tree[agent.path]]
        /\ agent' = [agent EXCEPT !.at = "check"]
  /\ UNCHANGED <<tree, record, exports, req, taken, history, report, counts>>

\* Mutated form of MayApply: the base is not compared.
MayApplyForced(e) ==
  CASE e.kind = "create" -> tree[e.path] = Absent
    [] e.kind = "update" -> e.new # tree[e.path]
    [] e.kind = "delete" -> tree[e.path] # Absent
    [] e.kind = "rename" -> tree[e.path] # Absent /\ tree[e.dest] = Absent

\* editing.apply(), up to the write.
MayApply(e) ==
  CASE e.kind = "create" -> tree[e.path] = Absent
    [] e.kind = "update" -> tree[e.path] = e.base /\ e.new # tree[e.path]
    [] e.kind = "delete" -> tree[e.path] = e.base
    [] e.kind = "rename" -> tree[e.path] = e.base /\ tree[e.dest] = Absent

\* The edit is refused, and its backup discarded.
Refuse ==
  /\ backup' = [backup EXCEPT ![tries] = Absent]
  /\ agent' = Idle

Check ==
  /\ agent.at = "check"
  /\ IF MayApply(agent) THEN agent' = [agent EXCEPT !.at = "replace"] /\ UNCHANGED backup
                        ELSE Refuse
  /\ UNCHANGED <<tree, record, exports, req, taken, history, report, counts>>

\* The tree after an edit.
Applied(e) ==
  CASE e.kind \in {"create", "update"} -> [tree EXCEPT ![e.path] = e.new]
    [] e.kind = "delete" -> [tree EXCEPT ![e.path] = Absent]
    [] e.kind = "rename" -> [tree EXCEPT ![e.path] = Absent, ![e.dest] = tree[e.path]]

\* os.replace() or unlink(), which may fail, and the entry in files_changed.
Replace ==
  /\ agent.at = "replace"
  /\ \/ Refuse /\ UNCHANGED <<tree, mem, taken, req, report>>
     \/ /\ agent.kind \in {"delete", "rename"} => tree[agent.path] # Absent
        /\ tree' = Applied(agent)
        /\ mem' = Append(mem, [kind |-> agent.kind, path |-> agent.path, dest |-> agent.dest,
                               before |-> agent.base,
                               after |-> IF agent.kind = "rename" THEN agent.base ELSE agent.new,
                               id |-> tries])
        /\ taken' = taken \cup Lost(agent.dest, tries, agent.raced)
        /\ Disturbs({agent.path, agent.dest})
        /\ agent' = [agent EXCEPT !.at = "save"]
        /\ report' = "none"
        /\ UNCHANGED backup
  /\ UNCHANGED <<disk, exports, history, counts>>

\* loop._record_outcome(): tasks.save() writes the thread's copy.
Save ==
  /\ agent.at = "save"
  /\ disk' = mem
  /\ agent' = Idle
  /\ UNCHANGED <<tree, mem, backup, exports, req, taken, history, report, counts>>

\* The task finishes, fails or is stopped; it writes its record a last time.
Finish ==
  /\ agent.at = "idle"
  /\ disk' = mem
  /\ agent' = [agent EXCEPT !.at = "ended"]
  /\ UNCHANGED <<tree, mem, backup, exports, req, taken, history, report, counts>>

-----------------------------------------------------------------------------
(* The user's editor. *)

Write(p, c) ==
  /\ writes < MaxWrites /\ writes' = writes + 1
  /\ tree[p] # c
  /\ tree' = [tree EXCEPT ![p] = c]
  /\ Races({p})
  /\ Disturbs({p})
  /\ touched' = TRUE /\ report' = "none"
  /\ UNCHANGED <<record, backup, exports, first, taken, tries, requests>>

-----------------------------------------------------------------------------
(* POST /tasks/undo *)

MayAsk == req.at = "none" /\ requests < MaxRequests /\ requests' = requests + 1

\* tasks.get(): the record as the file has it, whether the task still runs or not.
UndoBegin ==
  /\ MayAsk
  /\ disk # <<>>
  /\ req' = [NoRequest EXCEPT !.at = "undo", !.rec = disk, !.next = Len(disk),
               !.calm = ~touched /\ agent.at \in {"idle", "ended"} /\ requests = 0
                        /\ disk = mem]
  /\ UNCHANGED <<tree, agent, record, backup, exports, taken, history, report, tries, writes>>

\* _undo_one(), up to the write: what JARVIS left is still there, and the copy is intact.
MayUndo(c) ==
  CASE c.kind = "create" -> tree[c.path] = c.after
    [] c.kind = "update" -> tree[c.path] = c.after /\ backup[c.id] = c.before
    [] c.kind = "delete" -> tree[c.path] = Absent /\ backup[c.id] = c.before
    [] c.kind = "rename" -> tree[c.path] = Absent /\ tree[c.dest] = c.after
                            /\ backup[c.id] = c.before

\* reversed(changes)
NextOf(r) == r.next - 1

UndoCheck ==
  /\ req.at = "undo" /\ req.next \in DOMAIN req.rec
  /\ LET c == req.rec[req.next]
     IN req' = IF MayUndo(c)
                 THEN [req EXCEPT !.at = "restore", !.raw = backup[c.id], !.raced = FALSE]
                 ELSE [req EXCEPT !.next = NextOf(req), !.skipped = TRUE]
  /\ UNCHANGED <<tree, agent, record, backup, exports, taken, history, report, counts>>

\* undo.discard()
Discards(c, done) ==
  backup' = IF done /\ c.kind # "create" THEN [backup EXCEPT ![c.id] = Absent] ELSE backup

\* The tree after the change is undone.
Restored(c) ==
  CASE c.kind = "create" -> [tree EXCEPT ![c.path] = Absent]
    [] c.kind \in {"update", "delete"} -> [tree EXCEPT ![c.path] = req.raw]
    [] c.kind = "rename" -> [tree EXCEPT ![c.path] = tree[c.dest], ![c.dest] = Absent]

\* atomic_write_bytes(), unlink() or os.replace(); a failure skips the change.
UndoWrite ==
  /\ req.at = "restore"
  /\ LET c == req.rec[req.next]
     IN \/ /\ Discards(c, FALSE)
           /\ req' = [req EXCEPT !.at = "undo", !.next = NextOf(req), !.skipped = TRUE,
                                 !.calm = FALSE]
           /\ UNCHANGED <<tree, agent, taken>>
        \/ /\ c.kind = "create" => tree[c.path] # Absent
           /\ c.kind = "rename" => tree[c.dest] # Absent
           /\ tree' = Restored(c)
           /\ taken' = (taken \ {<<c.path, req.raw, c.id>>}) \cup Lost(c.path, c.id, req.raced)
           /\ Discards(c, TRUE)
           /\ req' = [req EXCEPT !.at = "undo", !.next = NextOf(req)]
           /\ Races({c.path, c.dest})
  /\ UNCHANGED <<record, exports, history, report, counts>>

\* tasks.save(record): the copy that was read at the beginning is written back.
UndoEnd ==
  /\ req.at = "undo" /\ req.next \notin DOMAIN req.rec
  /\ disk' = req.rec
  /\ report' = IF ~req.calm THEN "none" ELSE IF req.skipped THEN "short" ELSE "calm"
  /\ req' = NoRequest
  /\ UNCHANGED <<tree, agent, mem, backup, exports, taken, history, counts>>

-----------------------------------------------------------------------------
(* POST /tasks/export/plan and /tasks/export *)

TaskPaths(rec) == {rec[i].path : i \in DOMAIN rec} \cup {rec[i].dest : i \in DOMAIN rec}

Fingerprint(P) == [p \in P |-> tree[p]]

PlanExport ==
  /\ MayAsk
  /\ disk # <<>>
  /\ plan' = Fingerprint(TaskPaths(disk))
  /\ UNCHANGED <<tree, agent, record, backup, zip, req, taken, history, report, tries, writes>>

\* Five minutes.
PlanExpires ==
  /\ plan # Nothing
  /\ plan' = Nothing
  /\ UNCHANGED <<tree, agent, record, backup, zip, req, taken, history, report, counts>>

\* Mutated form of StillAsReviewed: a plan that has not expired is good.
StillAsReviewed0(pl) == TRUE

\* create_export(): the fingerprint is taken again.
StillAsReviewed(pl) == Fingerprint(DOMAIN pl) = pl

ExportBegin ==
  /\ req.at = "none"
  /\ plan # Nothing
  /\ IF StillAsReviewed(plan)
       THEN req' = [NoRequest EXCEPT !.at = "zip", !.rec = disk, !.prints = plan]
       ELSE UNCHANGED req
  /\ plan' = Nothing
  /\ UNCHANGED <<tree, agent, record, backup, zip, taken, history, report, counts>>

\* The archive is written from the files as they are now, and the record saved.
ExportEnd ==
  /\ req.at = "zip"
  /\ zip' = Fingerprint(DOMAIN req.prints)
  /\ disk' = req.rec
  /\ req' = NoRequest
  /\ UNCHANGED <<tree, agent, mem, backup, plan, taken, history, report, counts>>

-----------------------------------------------------------------------------

\* DELETE /tasks/{id}, refused while the task is live: the record, its backups and
\* its exports go.
Delete ==
  /\ req.at = "none" /\ ~Live /\ disk # <<>>
  /\ disk' = <<>> /\ mem' = <<>>
  /\ backup' = [i \in 1..MaxEdits |-> Absent]
  /\ taken' = {} /\ zip' = Nothing /\ report' = "none"
  /\ UNCHANGED <<tree, agent, plan, req, history, counts>>

\* The process ends, between any two steps; what is on the disk stays.
Restart ==
  /\ Live \/ req.at # "none"
  /\ agent' = [Idle EXCEPT !.at = "ended"]
  /\ req' = NoRequest /\ plan' = Nothing
  /\ UNCHANGED <<tree, record, backup, zip, taken, history, report, counts>>

Next ==
  \/ \E kind \in Kinds, p, q \in Paths, new \in Theirs \cup {Absent} : Propose(kind, p, q, new)
  \/ Backup \/ Check \/ Replace \/ Save \/ Finish
  \/ \E p \in Paths, c \in Mine \cup {Absent} : Write(p, c)
  \/ UndoBegin \/ UndoCheck \/ UndoWrite \/ UndoEnd
  \/ PlanExport \/ PlanExpires \/ ExportBegin \/ ExportEnd
  \/ Delete \/ Restart

Spec == Init /\ [][Next]_vars

-----------------------------------------------------------------------------
(* Properties. *)

\* Bytes of the user that an edit or an undo has replaced or removed are in the private
\* backup of that edit until they are put back or the task is deleted - unless they were
\* written in the instant of the edit (Races; undo.py, "fail-closed backups";
\* editing.py, "A stale base is refused, not overwritten").
TakenIsKept == \A t \in taken : backup[t[3]] = t[2]

\* When nobody else wrote and every change is on record, the first undo skips nothing and
\* gives the files back as they were before the task, whatever chain of creations,
\* updates, deletions and renames it made (undo.py, restore_task_changes).
UndoIsComplete ==
  /\ report # "short"
  /\ report = "calm" => tree = first

\* Nothing of the user's is lost to an edit or its undo, and an undo leaves nothing out.
UndoGivesBack == TakenIsKept /\ UndoIsComplete

\* An archive holds, byte for byte, what its plan was made for, unless a file was written
\* while it was being packed (delivery.py, create_export).
ExportIsReviewed == [][zip' # zip /\ zip' # Nothing /\ ~req.raced => zip' = req.prints]_vars

\* "The plan is short-lived and is invalidated by any later edit" (delivery.py, module
\* docstring): what is exported covers every change on record when it is asked for.
ExportCoversTheTask ==
  [][zip' # zip /\ zip' # Nothing => TaskPaths(req.rec) \subseteq DOMAIN zip']_vars
=============================================================================
