--------------------------- MODULE CredentialStore --------------------------
(***************************************************************************)
(* app/core/credentials.py: changing one named secret in the operating     *)
(* system's credential store through a backend that is slow, may refuse,   *)
(* and may refuse after it has already done part of the work.              *)
(*                                                                         *)
(* A request (_mutate_detailed) hands its write to a worker thread of its  *)
(* own and waits five seconds for it.  Whatever it hears in that time, the *)
(* worker goes on; what the request queues afterwards - putting the old    *)
(* key back, removing a leftover copy - runs behind it, after the request  *)
(* has returned.  Every backend call is serialized by _backend_lock.       *)
(*                                                                         *)
(* The backend itself is the pinned keyring's WinVault: one plain target   *)
(* for the whole service, holding one user's secret, and one compound      *)
(* target per user to which set_password first copies what it replaces.    *)
(***************************************************************************)
EXTENDS Integers, Sequences

CONSTANTS
    Users,      \* the owned credentials' user names
    Keys,       \* secrets
    NoKey,      \* no secret; as a requested value, a removal
    Unknown,    \* a baseline that could not be read
    NoEntry,    \* an empty plain target
    Requests,   \* calls of _mutate_detailed
    Wish,       \* what each request may ask for: a user and a value
    Seeds,      \* what the plain target may hold at start
    MaxFaults   \* bound: how many backend calls may refuse

Values == Keys \cup {NoKey}
Asks == [user : Users, value : Values]
Entries == [user : Users, key : Keys]

ASSUME KeysAssumption ==
    /\ NoKey \notin Keys
    /\ Unknown \notin Values
    /\ NoEntry \notin Entries
ASSUME WishAssumption ==
    /\ Wish \in [Requests -> SUBSET Asks]
    /\ Seeds \subseteq Entries \cup {NoEntry}
    /\ MaxFaults \in Nat

(* Who holds the backend's lock when nobody does. *)
Free == "free"
ASSUME FreeAssumption == Free \notin Requests

VARIABLES
    plain,      \* the backend's target "JARVIS"
    copy,       \* the backend's targets "<user>@JARVIS"
    lock,       \* who is inside the backend for more than one step
    generation, \* _mutation_generation
    desired,    \* _desired_values: the newest intent and its generation
    inflight,   \* _inflight_mutations
    pc,         \* where each request stands
    ask,        \* what it asks for
    base,       \* what it read before writing
    seen,       \* what it read after a refusal
    gen,        \* the generation it acts under
    claim,      \* whether a refused or late request still owned the intent
    primary,    \* what its first worker job came to
    outcome,    \* what it reported
    jobs,       \* the jobs queued on its executor, the running one first
    work,       \* where the running job stands
    discard,    \* the progress of its _discard_superseded
    lateDelete, \* compound deletes that timed out and will still run
    faults

backend == <<plain, copy>>
intent == <<generation, desired>>
request == <<pc, ask, base, seen, gen, claim, outcome>>
vars == <<backend, lock, intent, inflight, request, primary, jobs, work,
          discard, lateDelete, faults>>

Idle == [stage |-> "idle", gen |-> 0, value |-> NoKey]
Off == [stage |-> "off", survivor |-> NoKey]
Outcomes == {"none", "applied", "superseded_copy", "timed_out", "superseded",
             "partially_applied", "unverifiable", "backend_refused",
             "store_unreadable"}

U(q) == ask[q].user
V(q) == ask[q].value
Goto(q, place) == pc' = [pc EXCEPT ![q] = place]
Enter(u, n) == inflight' = [inflight EXCEPT ![u] = @ + n]
Return(q, result) ==
    /\ Goto(q, "done")
    /\ outcome' = [outcome EXCEPT ![q] = result]

-----------------------------------------------------------------------------
(* The backend *)

(* get_password: the plain target if it is this user's, else the copy. *)
Resolve(u) ==
    IF plain # NoEntry /\ plain.user = u THEN plain.key ELSE copy[u]

(* set_password copies whatever occupies the plain target to its owner's   *)
(* compound target and then writes; it may raise before, between or after. *)
AfterCopy == IF plain = NoEntry THEN copy ELSE [copy EXCEPT ![plain.user] = plain.key]

SetPassword(u, k) == plain' = [user |-> u, key |-> k] /\ copy' = AfterCopy

SetPasswordRaises(u, k) ==
    \/ UNCHANGED backend
    \/ UNCHANGED plain /\ copy' = AfterCopy
    \/ SetPassword(u, k)

(* delete_password removes the user's plain entry, then its compound one. *)
WithoutPlain(u) == IF plain # NoEntry /\ plain.user = u THEN NoEntry ELSE plain

DeletePassword(u) == plain' = WithoutPlain(u) /\ copy' = [copy EXCEPT ![u] = NoKey]

DeletePasswordRaises(u) ==
    \/ UNCHANGED backend
    \/ plain' = WithoutPlain(u) /\ UNCHANGED copy
    \/ DeletePassword(u)

(* _apply_value *)
Apply(u, v) == IF v = NoKey THEN DeletePassword(u) ELSE SetPassword(u, v)

ApplyRaises(u, v) ==
    IF v = NoKey THEN DeletePasswordRaises(u) ELSE SetPasswordRaises(u, v)

Fault == faults < MaxFaults /\ faults' = faults + 1
NoFault == UNCHANGED faults

(* A single call made through _run_isolated: it gets its turn when nobody  *)
(* holds the lock, and fails by raising or by timing out behind a holder.  *)
CallReturns == lock = Free /\ NoFault
CallFails == IF lock = Free THEN Fault ELSE NoFault

-----------------------------------------------------------------------------
(* Intents *)

(* _record_desired *)
RecordDesired(u, v) ==
    /\ generation' = generation + 1
    /\ desired' = [desired EXCEPT ![u] = [gen |-> generation + 1, value |-> v]]

Latest(u, g) == desired[u].gen = g

(* _cleanup_survivor: tidy up towards the newest intent. *)
CleanupSurvivor(u, g, survivor) ==
    IF Latest(u, g) THEN survivor ELSE desired[u].value

(* Mutated form of RestoreTo: every failed write is undone to absence.      *)
RestoreToAbsence(q) == NoKey

(* What a failed request wants back: the key it read, or absence. *)
RestoreTo(q) == IF V(q) = NoKey THEN NoKey ELSE base[q]

-----------------------------------------------------------------------------
Init ==
    /\ plain \in Seeds
    /\ copy = [u \in Users |-> NoKey]
    /\ lock = Free
    /\ generation = 0
    /\ desired = [u \in Users |-> [gen |-> 0, value |-> NoKey]]
    /\ inflight = [u \in Users |-> 0]
    /\ pc = [q \in Requests |-> "idle"]
    /\ ask \in {f \in [Requests -> Asks] : \A q \in Requests : f[q] \in Wish[q]}
    /\ base = [q \in Requests |-> Unknown]
    /\ seen = [q \in Requests |-> Unknown]
    /\ gen = [q \in Requests |-> 0]
    /\ claim = [q \in Requests |-> TRUE]
    /\ primary = [q \in Requests |-> "none"]
    /\ outcome = [q \in Requests |-> "none"]
    /\ jobs = [q \in Requests |-> << >>]
    /\ work = [q \in Requests |-> Idle]
    /\ discard = [q \in Requests |-> Off]
    /\ lateDelete = {}
    /\ faults = 0

-----------------------------------------------------------------------------
(* The request: _mutate_detailed *)

(* The baseline: a set that cannot learn what it replaces is not tried. *)
ReadBaseline(q) ==
    /\ pc[q] = "idle"
    /\ \/ /\ CallReturns
          /\ base' = [base EXCEPT ![q] = Resolve(U(q))]
          /\ Goto(q, "record")
          /\ UNCHANGED outcome
       \/ /\ CallFails
          /\ UNCHANGED base
          /\ IF V(q) = NoKey THEN Goto(q, "record") /\ UNCHANGED outcome
                             ELSE Return(q, "store_unreadable")
    /\ UNCHANGED <<backend, lock, intent, inflight, ask, seen, gen, claim,
                   primary, jobs, work, discard, lateDelete>>

Record(q) ==
    /\ pc[q] = "record"
    /\ RecordDesired(U(q), V(q))
    /\ gen' = [gen EXCEPT ![q] = generation + 1]
    /\ Goto(q, "submit")
    /\ UNCHANGED <<backend, lock, inflight, ask, base, seen, claim, outcome,
                   primary, jobs, work, discard, lateDelete, faults>>

Submit(q) ==
    /\ pc[q] = "submit"
    /\ Enter(U(q), 1)
    /\ jobs' = [jobs EXCEPT ![q] =
                 <<[kind |-> "write", gen |-> gen[q], value |-> V(q)]>>]
    /\ primary' = [primary EXCEPT ![q] = "pending"]
    /\ Goto(q, "wait")
    /\ UNCHANGED <<backend, lock, intent, ask, base, seen, gen, claim, outcome,
                   work, discard, lateDelete, faults>>

StartDiscard(q, survivor) ==
    discard' = [discard EXCEPT ![q] =
                 [stage |-> IF survivor = NoKey THEN "find" ELSE "check",
                  survivor |-> survivor]]

(* The write landed: the copy the backend made on the way has to go too. *)
Landed(q) ==
    /\ pc[q] = "wait"
    /\ primary[q] = "ok"
    /\ StartDiscard(q, CleanupSurvivor(U(q), gen[q], V(q)))
    /\ Goto(q, "tidy")
    /\ UNCHANGED <<backend, lock, intent, inflight, ask, base, seen, gen, claim,
                   outcome, primary, jobs, work, lateDelete, faults>>

Tidied(q) ==
    /\ pc[q] = "tidy"
    /\ discard[q].stage \in {"yes", "no"}
    /\ Return(q, IF discard[q].stage = "yes" THEN "applied" ELSE "superseded_copy")
    /\ discard' = [discard EXCEPT ![q] = Off]
    /\ UNCHANGED <<backend, lock, intent, inflight, ask, base, seen, gen, claim,
                   primary, jobs, work, lateDelete, faults>>

(* _record_desired_if_latest: a request that has been overtaken has no say. *)
RecordIfLatest(q) ==
    LET latest == Latest(U(q), gen[q])
    IN /\ claim' = [claim EXCEPT ![q] = latest]
       /\ IF latest
          THEN /\ RecordDesired(U(q), RestoreTo(q))
               /\ gen' = [gen EXCEPT ![q] = generation + 1]
          ELSE UNCHANGED <<intent, gen>>

(* Mutated form of TimeOut: the wait ends only once the backend is free. *)
TimeOutOutside(q) ==
    /\ pc[q] = "wait"
    /\ primary[q] = "pending" /\ lock # q
    /\ RecordIfLatest(q)
    /\ Goto(q, "late")
    /\ UNCHANGED <<backend, lock, inflight, ask, base, seen, outcome, primary,
                   jobs, work, discard, lateDelete, faults>>

TimeOut(q) ==
    /\ pc[q] = "wait"
    /\ primary[q] = "pending"
    /\ IF V(q) # NoKey THEN RecordIfLatest(q)
       ELSE claim' = [claim EXCEPT ![q] = FALSE] /\ UNCHANGED <<intent, gen>>
    /\ Goto(q, "late")
    /\ UNCHANGED <<backend, lock, inflight, ask, base, seen, outcome, primary,
                   jobs, work, discard, lateDelete, faults>>

(* _queue_discard, preceded by a write where the intent is still ours to   *)
(* reconcile (_queue_reconciliation).                                      *)
Queue(q, reconcile) ==
    LET job(kind) == [kind |-> kind, gen |-> gen[q], value |-> RestoreTo(q)]
        new == (IF reconcile THEN <<job("write")>> ELSE << >>) \o <<job("discard")>>
    IN /\ jobs' = [jobs EXCEPT ![q] = @ \o new]
       /\ Enter(U(q), Len(new))

GiveUpWaiting(q) ==
    /\ pc[q] = "late"
    /\ Queue(q, claim[q])
    /\ Return(q, "timed_out")
    /\ UNCHANGED <<backend, lock, intent, ask, base, seen, gen, claim, primary,
                   work, discard, lateDelete, faults>>

(* The backend raised: restate the intent, then go and look. *)
Refused(q) ==
    /\ pc[q] = "wait"
    /\ primary[q] = "raised"
    /\ RecordIfLatest(q)
    /\ Goto(q, "look")
    /\ UNCHANGED <<backend, lock, inflight, ask, base, seen, outcome, primary,
                   jobs, work, discard, lateDelete, faults>>

Look(q) ==
    /\ pc[q] = "look"
    /\ \/ /\ CallReturns
          /\ seen' = [seen EXCEPT ![q] = Resolve(U(q))]
          /\ Goto(q, "aim")
       \/ /\ CallFails
          /\ Goto(q, "judge")
          /\ UNCHANGED seen
    /\ UNCHANGED <<backend, lock, intent, inflight, ask, base, gen, claim,
                   outcome, primary, jobs, work, discard, lateDelete>>

Aim(q) ==
    /\ pc[q] = "aim"
    /\ StartDiscard(q, CleanupSurvivor(U(q), gen[q], RestoreTo(q)))
    /\ Goto(q, "judge")
    /\ UNCHANGED <<backend, lock, intent, inflight, ask, base, seen, gen, claim,
                   outcome, primary, jobs, work, lateDelete, faults>>

(* "Nothing was changed" only on what the store itself reads back. *)
ProvablyUnchanged(q) ==
    /\ discard[q].stage = "yes"
    /\ seen[q] # Unknown
    /\ base[q] = seen[q]
    /\ inflight[U(q)] = 0

Judge(q) ==
    /\ pc[q] = "judge"
    /\ discard[q].stage \in {"off", "yes", "no"}
    /\ discard' = [discard EXCEPT ![q] = Off]
    /\ IF ProvablyUnchanged(q)
       THEN Return(q, "backend_refused") /\ UNCHANGED <<jobs, inflight>>
       ELSE /\ Queue(q, claim[q])
            /\ Return(q, IF ~ claim[q] THEN "superseded"
                         ELSE IF seen[q] = Unknown THEN "unverifiable"
                         ELSE "partially_applied")
    /\ UNCHANGED <<backend, lock, intent, ask, base, seen, gen, claim, primary,
                   work, lateDelete, faults>>

-----------------------------------------------------------------------------
(* _discard_superseded, run by the request or by its worker *)

Discarded(q, stage) == discard' = [discard EXCEPT ![q].stage = stage]

DiscardLooks(q, stage, next) ==
    /\ discard[q].stage = stage
    /\ \/ CallReturns /\ Discarded(q, next)
       \/ CallFails /\ Discarded(q, "no")
    /\ UNCHANGED <<backend, lock, intent, inflight, request, primary, jobs,
                   work, lateDelete>>

(* Is the survivor what the store resolves to? *)
DiscardCheck(q) ==
    DiscardLooks(q, "check",
                 IF Resolve(U(q)) = discard[q].survivor THEN "find" ELSE "no")

(* Is there a copy under our own name? *)
DiscardFind(q) ==
    DiscardLooks(q, "find", IF copy[U(q)] = NoKey THEN "yes" ELSE "delete")

DiscardConfirm(q) ==
    DiscardLooks(q, "confirm", IF copy[U(q)] = NoKey THEN "yes" ELSE "no")

(* A delete that times out behind the lock's holder still runs later; one  *)
(* that raises has or has not deleted.                                     *)
DiscardDelete(q) ==
    LET gone == [copy EXCEPT ![U(q)] = NoKey]
    IN /\ discard[q].stage = "delete"
       /\ \/ /\ CallReturns
             /\ copy' = gone
             /\ Discarded(q, "confirm")
             /\ UNCHANGED lateDelete
          \/ /\ CallFails
             /\ Discarded(q, "no")
             /\ IF lock = Free
                THEN copy' \in {copy, gone} /\ UNCHANGED lateDelete
                ELSE lateDelete' = lateDelete \cup {U(q)} /\ UNCHANGED copy
       /\ UNCHANGED <<plain, lock, intent, inflight, request, primary, jobs, work>>

LateDelete(u) ==
    /\ u \in lateDelete
    /\ CallReturns
    /\ copy' = [copy EXCEPT ![u] = NoKey]
    /\ lateDelete' = lateDelete \ {u}
    /\ UNCHANGED <<plain, lock, intent, inflight, request, primary, jobs, work,
                   discard>>

-----------------------------------------------------------------------------
(* The worker: _mutation_worker and _discard_worker *)

Working(q, stage, g, v) ==
    work' = [work EXCEPT ![q] = [stage |-> stage, gen |-> g, value |-> v]]

Take(q) ==
    /\ jobs[q] # << >> /\ work[q].stage = "idle"
    /\ LET job == Head(jobs[q])
       IN IF job.kind = "write"
          THEN /\ lock = Free
               /\ lock' = q
               /\ Working(q, "apply", job.gen, job.value)
               /\ UNCHANGED discard
          ELSE /\ StartDiscard(q, CleanupSurvivor(U(q), job.gen, job.value))
               /\ Working(q, "discard", job.gen, job.value)
               /\ UNCHANGED lock
    /\ UNCHANGED <<backend, intent, inflight, request, primary, jobs,
                   lateDelete, faults>>

(* The running job ends: the lock is released and the executor moves on. *)
Finish(q, how) ==
    /\ work' = [work EXCEPT ![q] = Idle]
    /\ jobs' = [jobs EXCEPT ![q] = Tail(@)]
    /\ Enter(U(q), 0 - 1)
    /\ primary' = [primary EXCEPT ![q] = IF @ = "pending" THEN how ELSE @]

(* One _apply_value, the job's own or a reconciling one.  Only the first   *)
(* is left to propagate.                                                   *)
ApplySucceeds(q) ==
    /\ work[q].stage \in {"apply", "reconcile"}
    /\ Apply(U(q), work[q].value)
    /\ Working(q, "compare", work[q].gen, work[q].value)
    /\ UNCHANGED <<lock, intent, inflight, request, primary, jobs, discard,
                   lateDelete, faults>>

ApplyFails(q) ==
    /\ work[q].stage \in {"apply", "reconcile"}
    /\ Fault
    /\ ApplyRaises(U(q), work[q].value)
    /\ lock' = Free
    /\ Finish(q, IF work[q].stage = "apply" THEN "raised" ELSE "ok")
    /\ UNCHANGED <<intent, request, discard, lateDelete>>

(* Mutated form of Compare: the write is done when it has been applied. *)
CompareNothing(q) ==
    /\ work[q].stage = "compare"
    /\ Finish(q, "ok") /\ lock' = Free
    /\ UNCHANGED <<backend, intent, request, discard, lateDelete, faults>>

(* Has something newer been asked for meanwhile?  Then that, too. *)
Compare(q) ==
    LET latest == desired[U(q)]
    IN /\ work[q].stage = "compare"
       /\ IF latest.gen = work[q].gen
          THEN Finish(q, "ok") /\ lock' = Free
          ELSE /\ Working(q, "reconcile", latest.gen, latest.value)
               /\ UNCHANGED <<lock, inflight, jobs, primary>>
       /\ UNCHANGED <<backend, intent, request, discard, lateDelete, faults>>

DiscardEnds(q) ==
    /\ work[q].stage = "discard"
    /\ discard[q].stage \in {"yes", "no"}
    /\ discard' = [discard EXCEPT ![q] = Off]
    /\ Finish(q, "ok")
    /\ UNCHANGED <<backend, lock, intent, request, lateDelete, faults>>

-----------------------------------------------------------------------------
RequestStep(q) ==
    \/ Record(q) \/ Submit(q) \/ Landed(q) \/ Tidied(q)
    \/ TimeOut(q) \/ GiveUpWaiting(q) \/ Refused(q) \/ Look(q) \/ Aim(q) \/ Judge(q)

DiscardStep(q) ==
    DiscardCheck(q) \/ DiscardFind(q) \/ DiscardDelete(q) \/ DiscardConfirm(q)

WorkerStep(q) ==
    Take(q) \/ ApplySucceeds(q) \/ ApplyFails(q) \/ Compare(q) \/ DiscardEnds(q)

Next ==
    \/ \E q \in Requests : ReadBaseline(q) \/ RequestStep(q) \/ DiscardStep(q) \/ WorkerStep(q)
    \/ \E u \in Users : LateDelete(u)

Spec == Init /\ [][Next]_vars

(* A request's own thread runs, and so do the calls it has a five-second   *)
(* bound on; a worker inside the backend may stay there for ever.          *)
Fairness == \A q \in Requests : WF_vars(RequestStep(q) \/ DiscardStep(q))

FairSpec == Spec /\ Fairness

-----------------------------------------------------------------------------
(* Properties *)

Intents == [gen : Nat, value : Values]
Jobs == [kind : {"write", "discard"}, gen : Nat, value : Values]

(* Every variable holds one of the values the code gives it. *)
TypeOK ==
    /\ plain \in Entries \cup {NoEntry}
    /\ copy \in [Users -> Values]
    /\ lock \in Requests \cup {Free}
    /\ generation \in Nat
    /\ desired \in [Users -> Intents]
    /\ inflight \in [Users -> Nat]
    /\ pc \in [Requests -> {"idle", "record", "submit", "wait", "tidy", "late",
                            "look", "aim", "judge", "done"}]
    /\ ask \in [Requests -> Asks]
    /\ base \in [Requests -> Values \cup {Unknown}]
    /\ seen \in [Requests -> Values \cup {Unknown}]
    /\ gen \in [Requests -> Nat]
    /\ claim \in [Requests -> BOOLEAN]
    /\ primary \in [Requests -> {"none", "pending", "ok", "raised"}]
    /\ outcome \in [Requests -> Outcomes]
    /\ jobs \in [Requests -> Seq(Jobs)]
    /\ work \in [Requests -> [stage : {"idle", "apply", "compare", "reconcile",
                                       "discard"},
                              gen : Nat, value : Values]]
    /\ discard \in [Requests -> [stage : {"off", "check", "find", "delete",
                                          "confirm", "yes", "no"},
                                 survivor : Values]]
    /\ lateDelete \subseteq Users
    /\ faults \in 0..MaxFaults

Settled(u) ==
    /\ inflight[u] = 0
    /\ \A q \in Requests : U(q) = u => pc[q] \in {"idle", "done"}

OnlySaves(u) == \A q \in Requests : U(q) = u => V(q) # NoKey

(* However late a write lands, once everything has settled the store holds *)
(* what was asked for last - a timed-out save's own rollback included -    *)
(* provided the backend refused nothing (_mutation_worker's loop).         *)
LatestIntentWins ==
    \A u \in Users :
        Settled(u) /\ faults = 0 /\ desired[u].gen > 0
            => Resolve(u) = desired[u].value

(* Replacing a key never passes through having none: once a save has read  *)
(* a key, saves alone - refused half way, timed out, overtaken, rolled     *)
(* back or tidied up after - never leave the user without one.             *)
ReplacementNeverDestroys ==
    \A u \in Users :
        /\ OnlySaves(u)
        /\ \E q \in Requests : U(q) = u /\ base[q] \in Keys
        /\ \A q \in Requests : U(q) = u => base[q] # NoKey
        => Resolve(u) # NoKey

(* A save that reported "nothing was changed" after a refusal left no job  *)
(* behind, and its key is not, and never comes to be, in the store - save  *)
(* by another request that asked for it too, or found it and puts it back. *)
(* (A removal restates its intent before it looks: this is about saves.)   *)
UnchangedIsHonest ==
    \A q \in Requests :
        outcome[q] = "backend_refused" /\ V(q) # NoKey =>
            /\ jobs[q] = << >>
            /\ \/ Resolve(U(q)) # V(q)
               \/ V(q) = base[q]
               \/ \E p \in Requests \ {q} : U(p) = U(q) /\ V(q) \in {V(p), base[p]}

(* Once a save that kept its claim has settled without a refusal, no copy  *)
(* of a replaced secret stays in the store (_discard_superseded).          *)
NoCopyLeft ==
    \A u \in Users :
        Settled(u) /\ faults = 0 /\ lateDelete = {} => copy[u] = NoKey

(* No key is lost by a save, kept in a copy, or stored by a save that said *)
(* it was not.                                                             *)
KeysAreKept == ReplacementNeverDestroys /\ UnchangedIsHonest /\ NoCopyLeft

(* A route never waits on a backend that has blown its timeout, even one   *)
(* that never answers again.                                               *)
EveryRequestReturns ==
    \A q \in Requests : pc[q] \notin {"idle", "done"} ~> pc[q] = "done"

(* _discard_superseded's rule: deleting the copy must never be what leaves *)
(* the user with no credential.                                            *)
CopyIsNeverTheLastKey ==
    [][\A q \in Requests :
        /\ discard[q].stage = "delete" /\ discard'[q] # discard[q]
        /\ discard[q].survivor # NoKey
        => Resolve(U(q))' # NoKey]_vars
=============================================================================
