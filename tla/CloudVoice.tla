----------------------------- MODULE CloudVoice -----------------------------
(***************************************************************************)
(* What is kept about the cloud voices (app/voice/engines.py and the       *)
(* endpoints of voice_routes.py), in the two places it is kept: the OpenAI *)
(* key in the operating system's store and everything else in              *)
(* preferences.json, which also holds a flag saying whether there is a     *)
(* key, because reading the status must not load it.                       *)
(*                                                                         *)
(* Every request runs in a thread of its own.  A write of the preferences  *)
(* loads the document, merges and replaces it under one lock; readers take *)
(* no lock and read once per setting.  Either file may be out of reach for *)
(* a moment, and the process may end at any step.  What the key store does *)
(* with a change is CredentialStore's; here a change is made, refused, or  *)
(* refused with the outcome unknown.                                       *)
(***************************************************************************)
EXTENDS Naturals, Sequences

CONSTANTS
  Requests,  \* threads that serve the page's requests
  MaxCalls,  \* bound: requests made
  MaxFaults  \* bound: failed reads, writes and key changes, ends of the process,
             \* and switches of privacy mode

VARIABLES
  stored,   \* an OpenAI key is in the operating system's store
  file,     \* preferences.json
  lock,     \* preferences._write_lock
  job,      \* what each thread is doing
  privacy,  \* privacy_mode.active
  calls, faults,
  doubt,    \* key and flag were changed by two requests at once, by a process that
            \* ended, or with an unknown outcome, and by nobody properly since (history)
  told      \* the last key request said that the flag could not be written (history)

vars == <<stored, file, lock, job, privacy, calls, faults, doubt, told>>

\* One name for each kind of write: the four OpenAI settings, which are saved as one,
\* are `model` and `tone`, the ElevenLabs voice is `id` and `name`.
Names  == {"flag", "engine", "tuning", "model", "tone", "id", "name"}
Values == {"default", "chosen"}
Free   == "nobody"

KeyOps == {"save", "delete"}
Ops    == KeyOps \cup {"engine", "tuning", "profile", "voice", "use"}

\* The writes a request makes, one after another.
Writes(op) ==
  CASE op \in KeyOps    -> <<{"flag"}>>
    [] op = "engine"    -> <<{"engine"}>>
    [] op = "tuning"    -> <<{"tuning"}>>
    [] op = "profile"   -> <<{"model", "tone"}>>
    [] op = "voice"     -> <<{"id"}, {"name"}>>
    [] OTHER            -> <<>>

Resting == [op |-> "none", at |-> "idle", value |-> "default", todo |-> <<>>,
            base |-> <<>>, got |-> <<>>, alone |-> FALSE, wrote |-> TRUE, sent |-> FALSE,
            said |-> "none"]

Places == {"idle", "key", "load", "replace", "undo", "private", "fetch", "read", "send",
           "sent"}
Job    == [op : Ops \cup {"none"}, at : Places, value : Values, todo : Seq(SUBSET Names),
           base : {<<>>} \cup [Names -> Values], got : Seq(Values), alone : BOOLEAN,
           wrote : BOOLEAN, sent : BOOLEAN, said : {"none", "yes", "no", "private"}]

TypeOK ==
  /\ stored \in BOOLEAN /\ privacy \in BOOLEAN /\ doubt \in BOOLEAN /\ told \in BOOLEAN
  /\ file \in [Names -> Values]
  /\ lock \in Requests \cup {Free}
  /\ job \in [Requests -> Job]
  /\ calls \in 0..MaxCalls /\ faults \in 0..MaxFaults

\* A key saved earlier, or none, and the flag as it was left.
Init ==
  /\ stored \in BOOLEAN
  /\ file = [n \in Names |-> IF n = "flag" /\ stored THEN "chosen" ELSE "default"]
  /\ lock = Free
  /\ job = [r \in Requests |-> Resting]
  /\ privacy = FALSE
  /\ calls = 0 /\ faults = 0 /\ doubt = FALSE /\ told = FALSE

-----------------------------------------------------------------------------
At(r, place) == job[r].at = place
To(r, place) == job' = [job EXCEPT ![r].at = place]

\* The answer; the thread is free again, and what it did stays readable.
Answered(r, what) == [job EXCEPT ![r].at = "idle", ![r].said = what]

Fine  == UNCHANGED faults
Fault == faults < MaxFaults /\ faults' = faults + 1

KeyJob(r) == job[r].op \in KeyOps /\ ~At(r, "idle")

\* A request of the page.  Two key requests at once are each other's company.
Call(r, op, v) ==
  LET company == op \in KeyOps /\ \E q \in Requests : KeyJob(q)
      first   == IF op \in KeyOps THEN "key" ELSE IF op = "use" THEN "private" ELSE "load"
  IN /\ At(r, "idle") /\ calls < MaxCalls /\ calls' = calls + 1
     /\ job' = [q \in Requests |->
          IF q = r
            THEN [Resting EXCEPT !.op = op, !.at = first, !.todo = Writes(op),
                    !.value = IF op = "save" THEN "chosen"
                              ELSE IF op = "delete" THEN "default" ELSE v,
                    !.alone = ~company]
            ELSE IF company /\ KeyJob(q) THEN [job[q] EXCEPT !.alone = FALSE] ELSE job[q]]
     /\ doubt' = (doubt \/ company)
     /\ UNCHANGED <<stored, file, lock, privacy, told>> /\ Fine

-----------------------------------------------------------------------------
(* The key. *)

\* set_openai_key() and clear_openai_key(): done; or refused, and nothing changed; or
\* refused without knowing what was changed.
ChangeKey(r) ==
  /\ At(r, "key")
  /\ \/ /\ stored' = (job[r].op = "save") /\ To(r, "load")
        /\ UNCHANGED doubt /\ Fine
     \/ /\ UNCHANGED stored /\ job' = Answered(r, "no")
        /\ UNCHANGED doubt /\ Fault
     \/ /\ stored' \in BOOLEAN /\ job' = Answered(r, "no")
        /\ doubt' = TRUE /\ Fault
  /\ UNCHANGED <<file, lock, privacy, calls, told>>

\* Mutated form of UndoKey: the key is kept although the flag is not.
UndoNothing(r) ==
  /\ At(r, "undo")
  /\ job' = Answered(r, "no") /\ told' = TRUE
  /\ UNCHANGED <<stored, file, lock, privacy, calls, doubt>> /\ Fine

\* The flag could not be written: the key is taken out again.  What that call answers
\* is not looked at.
UndoKey(r) ==
  /\ At(r, "undo")
  /\ job' = Answered(r, "no") /\ told' = TRUE
  /\ \/ stored' = FALSE /\ UNCHANGED doubt /\ Fine
     \/ stored' \in BOOLEAN /\ doubt' = TRUE /\ Fault
  /\ UNCHANGED <<file, lock, privacy, calls>>

-----------------------------------------------------------------------------
(* A write of the preferences. *)

\* The write is over, with or without success: what the request does next.  A key
\* request that wrote its flag with nobody in between has put key and flag right.
Wrote(r, ok) ==
  LET j    == [job[r] EXCEPT !.wrote = @ /\ ok, !.todo = Tail(@), !.base = <<>>]
      rest == j.todo # <<>>
      good == IF j.op \in {"voice", "tuning"} THEN TRUE ELSE ok
  IN /\ job' = [job EXCEPT ![r] =
          [j EXCEPT !.at = IF rest THEN "load"
                           ELSE IF j.op = "save" /\ ~ok THEN "undo" ELSE "idle",
                    !.said = IF rest \/ (j.op = "save" /\ ~ok) THEN "none"
                             ELSE IF good THEN "yes" ELSE "no"]]
     /\ told' = IF j.op \in KeyOps THEN (IF ok THEN FALSE ELSE j.op = "delete" \/ told)
                ELSE told
     /\ doubt' = IF j.op \in KeyOps /\ ok /\ j.alone THEN FALSE ELSE doubt

\* Mutated form of LoadForUpdate: the document is read before the lock is taken.
LoadUnlocked(r) ==
  /\ At(r, "load")
  /\ job' = [job EXCEPT ![r].at = "replace", ![r].base = file]
  /\ UNCHANGED <<stored, file, lock, privacy, calls, doubt, told>> /\ Fine

\* Under the lock: a document that is there and cannot be read now is left alone.
LoadForUpdate(r) ==
  /\ At(r, "load") /\ lock = Free
  /\ \/ /\ lock' = r /\ job' = [job EXCEPT ![r].at = "replace", ![r].base = file]
        /\ UNCHANGED <<doubt, told>> /\ Fine
     \/ /\ UNCHANGED lock /\ Wrote(r, FALSE) /\ Fault
  /\ UNCHANGED <<stored, file, privacy, calls>>

Merged(r) == [n \in Names |-> IF n \in Head(job[r].todo) THEN job[r].value
                              ELSE job[r].base[n]]

\* The whole document is replaced, or, when every attempt lost to a reader or the disk
\* refused, none of it.
WriteDocument(r) ==
  /\ At(r, "replace")
  /\ lock' = Free
  /\ \/ file' = Merged(r) /\ Wrote(r, TRUE) /\ Fine
     \/ UNCHANGED file /\ Wrote(r, FALSE) /\ Fault
  /\ UNCHANGED <<stored, privacy, calls>>

-----------------------------------------------------------------------------
(* A request that uses the key: a test, a check of the key, a list of voices. *)

UseAllowed(r) ==
  /\ At(r, "private")
  /\ IF privacy THEN job' = Answered(r, "private") ELSE To(r, "fetch")
  /\ UNCHANGED <<stored, file, lock, privacy, calls, doubt, told>> /\ Fine

UseKey(r) ==
  /\ At(r, "fetch")
  /\ \/ stored /\ To(r, "read") /\ Fine
     \/ ~stored /\ job' = Answered(r, "no") /\ Fine
     \/ stored /\ job' = Answered(r, "no") /\ Fault
  /\ UNCHANGED <<stored, file, lock, privacy, calls, doubt, told>>

\* One read of the file for every setting; a file that cannot be read holds nothing.
UseReads(r) ==
  /\ At(r, "read")
  /\ LET n == IF job[r].got = <<>> THEN "model" ELSE "tone"
         next(v) == job' = [job EXCEPT ![r].got = Append(@, v),
                                       ![r].at = IF n = "tone" THEN "send" ELSE "read"]
     IN \/ next(file[n]) /\ Fine
        \/ next("default") /\ Fault
  /\ UNCHANGED <<stored, file, lock, privacy, calls, doubt, told>>

\* Asked once more before the request goes out: privacy mode, and the test's own token,
\* which privacy mode and Stop set.
UseSends(r) ==
  /\ At(r, "send")
  /\ \/ privacy /\ job' = Answered(r, "private") /\ Fine
     \/ privacy /\ job' = Answered(r, "no") /\ Fine
     \/ ~privacy /\ job' = [job EXCEPT ![r].at = "sent", ![r].sent = TRUE] /\ Fine
     \/ ~privacy /\ job' = Answered(r, "no") /\ Fault
  /\ UNCHANGED <<stored, file, lock, privacy, calls, doubt, told>>

\* The answer, unless privacy mode came first; a check of the key has no token, and its
\* refusal has the words of one that sent nothing.
UseEnds(r) ==
  /\ At(r, "sent")
  /\ \/ privacy /\ job' = Answered(r, "private") /\ Fine
     \/ privacy /\ job' = Answered(r, "no") /\ Fine
     \/ ~privacy /\ job' = Answered(r, "yes") /\ Fine
     \/ ~privacy /\ job' = Answered(r, "no") /\ Fault
  /\ UNCHANGED <<stored, file, lock, privacy, calls, doubt, told>>

-----------------------------------------------------------------------------
SetPrivacy ==
  /\ privacy' = ~privacy /\ Fault
  /\ UNCHANGED <<stored, file, lock, job, calls, doubt, told>>

\* The process ends and starts again: what is on disk stays as it is.
ProcessEnds ==
  /\ \E r \in Requests : ~At(r, "idle")
  /\ doubt' = (doubt \/ \E r \in Requests : KeyJob(r))
  /\ job' = [r \in Requests |-> Resting] /\ lock' = Free /\ privacy' = FALSE
  /\ UNCHANGED <<stored, file, calls, told>> /\ Fault

Next ==
  \/ \E r \in Requests :
       \/ \E op \in Ops, v \in Values : Call(r, op, v)
       \/ ChangeKey(r) \/ UndoKey(r) \/ LoadForUpdate(r) \/ WriteDocument(r)
       \/ UseAllowed(r) \/ UseKey(r) \/ UseReads(r) \/ UseSends(r) \/ UseEnds(r)
  \/ SetPrivacy \/ ProcessEnds

Spec == Init /\ [][Next]_vars

-----------------------------------------------------------------------------
\* The write lock of preferences.py: whoever writes the file changes what it was asked to
\* change, in the file as it is at that moment, and nothing else: no write is lost by
\* another one, and none is made from a document that could not be read.
EachWriteIsItsOwn ==
  [][file' # file =>
       \E r \in Requests : At(r, "replace") /\ job'[r] # job[r] /\
         LET asked == Head(job[r].todo)
         IN \A n \in Names : file'[n] = IF n \in asked THEN job[r].value ELSE file[n]]_vars

\* engines.openai_key_configured(): while no key request is under way and none has gone
\* wrong in a way its answer could not know, no key is stored that the flag does not
\* admit to, and a flag without a key is one the user has been told about.
FlagIsHonest ==
  ~doubt /\ (\A r \in Requests : ~KeyJob(r)) =>
    /\ stored => file["flag"] = "chosen"
    /\ file["flag"] = "chosen" /\ ~stored => told

\* preferences.store_many(): the profile in the file is always one that was saved whole.
ProfileIsWhole == file["model"] = file["tone"]

\* The OpenAI endpoints and the engine's never say yes to a write that was not made.
YesMeansWritten ==
  \A r \in Requests : job[r].said = "yes" /\ job[r].op \notin {"voice", "tuning"} => job[r].wrote

\* The three together: what the Voice page reads about the OpenAI voice is so.
SettingsAreHonest == FlagIsHonest /\ ProfileIsWhole /\ YesMeansWritten

\* What the code does not keep: the flag through any order of events, the profile of one
\* request being one that was saved, an ElevenLabs voice having its own name, a refusal
\* for privacy being made before anything was sent, and "saved" meaning saved.
FlagIsAlwaysHonest ==
  (\A r \in Requests : ~KeyJob(r)) => (stored <=> file["flag"] = "chosen")
OneProfile == \A r \in Requests : job[r].sent => job[r].got[1] = job[r].got[2]
NameIsTheVoices == (\A r \in Requests : At(r, "idle")) => file["id"] = file["name"]
PrivateMeansUnsent == \A r \in Requests : job[r].said = "private" => ~job[r].sent
SavedMeansSaved == \A r \in Requests : job[r].said = "yes" => job[r].wrote
=============================================================================
