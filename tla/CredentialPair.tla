--------------------------- MODULE CredentialPair ---------------------------
(***************************************************************************)
(* The Anthropic key and what describes it, kept in two stores that no     *)
(* transaction spans: saving and removing the pair                         *)
(* (app/core/ai/credential_pair.py, api/routes.py) one change at a time    *)
(* (credential_transaction.py), reading it for a request or for Settings   *)
(* (credential_view.py), and recording that the provider rejected it       *)
(* (core/providers.py).                                                    *)
(*                                                                         *)
(* A call to the credential store is one step here: its inside is module   *)
(* CredentialStore.  Only the caller that holds the gate makes one, so the *)
(* "superseded" answers of credentials.py and the is_newest tripwires of   *)
(* credential_pair.py are out of reach and left out.                       *)
(***************************************************************************)
EXTENDS Integers

CONSTANTS
    Saves,          \* POST /settings/api-key requests
    Removals,       \* POST /settings/api-key/remove requests
    Readers,        \* threads that use the key or show its state
    Keys,
    NoKey,          \* an empty entry
    NewKey,         \* the key each save brings
    Seeds,          \* what the entry may hold to begin with
    Free,           \* the gate, held by nobody
    MaxFaults       \* bound: store calls and preference writes that fail

Requests == Saves \cup Removals
Entries == Keys \cup {NoKey}

ASSUME ProcessesAssumption ==
    /\ Saves \cap Removals = {}
    /\ Requests \cap Readers = {}
    /\ Free \notin Requests \cup Readers
ASSUME KeysAssumption ==
    /\ NoKey \notin Keys
    /\ NewKey \in [Saves -> Keys]
    /\ Seeds \subseteq Entries
ASSUME BoundAssumption == MaxFaults \in Nat

VARIABLES
    key,        \* what the credential store resolves to
    desc,       \* preferences.json: the key the Workspace ID came with, the
                \* verification state recorded for it
    gate,       \* who is alone with the pair
    revision,   \* transactions begun
    intents,    \* requests admitted
    claimed,    \* the newest intent that has claimed the pair
    pc,         \* where each request and each reader stands
    intent,     \* a request's place in the order it was admitted in
    verdict,    \* what checking a save's key came to
    previous,   \* the key a save read before it wrote
    outcome,    \* what a request is told
    note,       \* the revision a live rejection was remembered for, or -1
    cached,     \* the published snapshot
    view,       \* the snapshot each reader holds
    stray,      \* what writes that never came back may yet leave in the entry
    warned,     \* an outcome told the user that the pair is in doubt
    rejected,   \* keys the provider has turned down
    faults

stores == <<key, desc, stray, warned, faults>>
order == <<revision, intents, claimed>>
memory == <<intent, verdict, previous>>
reading == <<note, cached, view, rejected>>
vars == <<stores, gate, order, pc, memory, outcome, reading>>

Recorded == {"verified", "configured_unverified", "verification_failed"}
States == Recorded \cup {"none"}
Description == [for : Entries, state : States]
Blank == [for |-> NoKey, state |-> "none"]
View == [key : Entries, desc : Description, revision : Nat \cup {-1},
         readable : BOOLEAN, sure : BOOLEAN]
Unreadable == [key |-> NoKey, desc |-> Blank, revision |-> -1,
               readable |-> FALSE, sure |-> FALSE]

(* Where a request or a reader stands, and where it holds the gate.        *)
Holding == {"snapshot", "write", "remove", "describe", "restore", "blank",
            "release", "key", "desc", "remember", "persist"}
Places == Holding \cup {"idle", "verify", "begin", "returned",
                        "wait", "publish", "use", "look", "note"}

Outcomes == {"none", "not_worth_storing", "credential_busy",
             "credential_superseded", "credential_store_unreadable",
             "credential_store_failed", "credential_write_unconfirmed",
             "removal_unconfirmed", "rolled_back", "metadata_orphaned",
             "inconsistent", "applied"}

(* What PairOutcome.consistent says; a busy request says nothing.          *)
SaysConsistent == {"credential_superseded", "credential_store_unreadable",
                   "credential_store_failed", "credential_write_unconfirmed",
                   "rolled_back", "applied"}

(* What tells the user that something is left unestablished. *)
Doubtful == {"credential_write_unconfirmed", "removal_unconfirmed",
             "metadata_orphaned", "inconsistent"}

-----------------------------------------------------------------------------
(* Helpers *)

InDoubt == warned \/ stray # {}

(* A key beside a Workspace ID and a verdict that came with another one.   *)
Mixed(k, d) == k # NoKey /\ d.for # NoKey /\ d.for # k

At(p, place) == pc[p] = place
Goto(p, place) == pc' = [pc EXCEPT ![p] = place]

(* An outcome is decided; the gate is still held. *)
Settle(q, result) ==
    /\ Goto(q, "release")
    /\ outcome' = [outcome EXCEPT ![q] = result]
    /\ warned' = CASE result = "applied" -> FALSE
                   [] result \in Doubtful -> TRUE
                   [] OTHER -> warned

(* The change goes on. *)
Proceed(q, place) == Goto(q, place) /\ UNCHANGED <<outcome, warned>>

(* What a request asks the entry to hold. *)
Wanted(q) == IF q \in Saves THEN NewKey[q] ELSE NoKey

Fault == faults < MaxFaults /\ faults' = faults + 1

(* One detailed call to the credential store: APPLIED, after which late    *)
(* writes converge on this value (CredentialStore!LatestIntentWins);       *)
(* UNCHANGED; UNCERTAIN because the copy of what it replaced could not be  *)
(* removed; or UNCERTAIN because the call never came back, and the new     *)
(* value or the one asked back may yet land.                               *)
CallApplied(value) == key' = value /\ stray' = {} /\ UNCHANGED faults
CallUnchanged == Fault /\ UNCHANGED <<key, stray>>
CallUncertain(value, back) ==
    /\ Fault
    /\ \/ key' = value /\ UNCHANGED stray
       \/ /\ key' \in {key, value}
          /\ stray' = stray \cup {value, back}

(* preferences.store_many: the whole file is replaced, or nothing is. *)
DescWritten(d) == desc' = d /\ UNCHANGED faults
DescNotWritten == Fault /\ UNCHANGED desc

Init ==
    /\ key \in Seeds
    /\ desc = IF key = NoKey THEN Blank ELSE [for |-> key, state |-> "verified"]
    /\ gate = Free
    /\ revision = 0 /\ intents = 0 /\ claimed = 0
    /\ pc = [p \in Requests \cup Readers |-> "idle"]
    /\ intent = [q \in Requests |-> 0]
    /\ verdict = [q \in Requests |-> "none"]
    /\ previous = [q \in Requests |-> NoKey]
    /\ outcome = [q \in Requests |-> "none"]
    /\ note = -1
    /\ cached = Unreadable
    /\ view = [r \in Readers |-> Unreadable]
    /\ stray = {} /\ warned = FALSE
    /\ rejected = {}
    /\ faults = 0

-----------------------------------------------------------------------------
(* A save or a removal (set_api_key, remove_api_key) *)

(* The request takes its place in the order before anything is asked of    *)
(* Anthropic; a removal has nothing to ask.                                *)
Admit(q) ==
    /\ At(q, "idle")
    /\ intents' = intents + 1
    /\ intent' = [intent EXCEPT ![q] = intents + 1]
    /\ Goto(q, IF q \in Saves THEN "verify" ELSE "begin")
    /\ UNCHANGED <<stores, gate, revision, claimed, verdict, previous, outcome, reading>>

(* verify_anthropic_key, with nothing held: the key answered, could not be *)
(* checked, or is not worth storing.                                       *)
Verify(q) ==
    /\ At(q, "verify")
    /\ \/ /\ \E state \in {"verified", "configured_unverified"} :
                 verdict' = [verdict EXCEPT ![q] = state]
          /\ Goto(q, "begin")
          /\ UNCHANGED outcome
       \/ /\ outcome' = [outcome EXCEPT ![q] = "not_worth_storing"]
          /\ Goto(q, "returned")
          /\ UNCHANGED verdict
    /\ UNCHANGED <<stores, gate, order, intent, previous, reading>>

(* Mutated form of Claim: requests are served in the order they arrive.    *)
ClaimAnyway(q) ==
    /\ claimed' = intent[q]
    /\ Proceed(q, IF q \in Saves THEN "snapshot" ELSE "remove")

(* claim(): a request admitted later has had its turn, or this one has it. *)
Claim(q) ==
    IF intent[q] <= claimed
    THEN Settle(q, "credential_superseded") /\ UNCHANGED claimed
    ELSE /\ claimed' = intent[q]
         /\ Proceed(q, IF q \in Saves THEN "snapshot" ELSE "remove")

(* begin(): the gate, the revision it moves whatever comes of the change,  *)
(* and the claim.                                                          *)
Begin(q) ==
    /\ At(q, "begin")
    /\ gate = Free
    /\ gate' = q
    /\ revision' = revision + 1
    /\ Claim(q)
    /\ UNCHANGED <<key, desc, stray, faults, intents, memory, reading>>

(* Mutated form of Busy: a change waits for as long as it takes. *)
BusyNever(q) == FALSE /\ UNCHANGED vars

(* The wait for the gate runs out. *)
Busy(q) ==
    /\ At(q, "begin")
    /\ gate # Free
    /\ outcome' = [outcome EXCEPT ![q] = "credential_busy"]
    /\ Goto(q, "returned")
    /\ UNCHANGED <<stores, gate, order, memory, reading>>

(* stored_api_key_snapshot: without a proven previous key, no write.       *)
Snapshot(q) ==
    /\ At(q, "snapshot")
    /\ \/ /\ previous' = [previous EXCEPT ![q] = key]
          /\ Proceed(q, "write")
          /\ UNCHANGED faults
       \/ /\ Fault
          /\ Settle(q, "credential_store_unreadable")
          /\ UNCHANGED previous
    /\ UNCHANGED <<key, desc, stray, gate, order, intent, verdict, reading>>

WriteKey(q) ==
    /\ At(q, "write")
    /\ \/ CallApplied(NewKey[q]) /\ Proceed(q, "describe")
       \/ CallUnchanged /\ Settle(q, "credential_store_failed")
       \/ /\ CallUncertain(NewKey[q], previous[q])
          /\ Settle(q, "credential_write_unconfirmed")
    /\ UNCHANGED <<desc, gate, order, memory, reading>>

RemoveKey(q) ==
    /\ At(q, "remove")
    /\ \/ CallApplied(NoKey) /\ Proceed(q, "describe")
       \/ CallUnchanged /\ Settle(q, "credential_store_failed")
       \/ CallUncertain(NoKey, NoKey) /\ Settle(q, "removal_unconfirmed")
    /\ UNCHANGED <<desc, gate, order, memory, reading>>

(* _write_metadata, and with it clear_runtime_downgrade: what was noted    *)
(* was noted of the key that is gone.  A save whose metadata cannot be     *)
(* written goes on to put the previous key back; a removal reports it.     *)
Describe(q) ==
    /\ At(q, "describe")
    /\ \/ /\ DescWritten(IF q \in Saves
                         THEN [for |-> NewKey[q], state |-> verdict[q]]
                         ELSE Blank)
          /\ note' = -1
          /\ Settle(q, "applied")
       \/ /\ DescNotWritten
          /\ IF q \in Saves THEN Proceed(q, "restore")
                            ELSE Settle(q, "metadata_orphaned")
          /\ UNCHANGED note
    /\ UNCHANGED <<key, stray, gate, order, memory, cached, view, rejected>>

(* Mutated form of Restore: the previous key is not put back. *)
RestoreNothing(q) ==
    /\ At(q, "restore")
    /\ Settle(q, "rolled_back")
    /\ UNCHANGED <<key, desc, stray, faults, gate, order, memory, reading>>

(* The rollback: a write of the previous key, or a removal if there was    *)
(* none.                                                                   *)
Restore(q) ==
    /\ At(q, "restore")
    /\ \/ CallApplied(previous[q]) /\ Settle(q, "rolled_back")
       \/ /\ CallUnchanged \/ CallUncertain(previous[q], key)
          /\ Proceed(q, "blank")
    /\ UNCHANGED <<desc, gate, order, memory, reading>>

(* The orphan branch: better no description than a stranger's. *)
BlankDesc(q) ==
    /\ At(q, "blank")
    /\ \/ DescWritten(Blank) /\ Settle(q, "metadata_orphaned")
       \/ DescNotWritten /\ Settle(q, "inconsistent")
    /\ note' = -1
    /\ UNCHANGED <<key, stray, gate, order, memory, cached, view, rejected>>

Release(q) ==
    /\ At(q, "release")
    /\ gate' = Free
    /\ Goto(q, "returned")
    /\ UNCHANGED <<stores, order, memory, outcome, reading>>

(* What a store call that never came back leaves behind later. *)
StrayLands ==
    /\ key' \in stray
    /\ stray' = stray \ {key'}
    /\ UNCHANGED <<desc, warned, faults, gate, order, pc, memory, outcome, reading>>

-----------------------------------------------------------------------------
(* A reader: credential_view.current(), a provider request made with what  *)
(* it returned, and note_runtime_failure() when that is turned down        *)

asked == <<memory, outcome>>

Hold(r, v) == view' = [view EXCEPT ![r] = v]

(* The snapshot is let go, and whatever was being done with it. *)
LetGo(r) == Hold(r, Unreadable) /\ Goto(r, "idle")

(* The published snapshot is kept as what to fall back on. *)
Ask(r) ==
    /\ At(r, "idle")
    /\ Hold(r, cached)
    /\ Goto(r, "wait")
    /\ UNCHANGED <<stores, gate, order, asked, note, cached, rejected>>

(* Mutated form of EnterRead: the stores are read with nothing held. *)
EnterWithoutGate(r) ==
    /\ At(r, "wait")
    /\ Goto(r, "key")
    /\ UNCHANGED <<stores, gate, order, asked, reading>>

(* read_gate(): within the wait ... *)
EnterRead(r) ==
    /\ At(r, "wait")
    /\ gate = Free
    /\ gate' = r
    /\ Goto(r, "key")
    /\ UNCHANGED <<stores, order, asked, reading>>

(* ... or not, and the older snapshot has to do, if it is one. *)
FallBack(r) ==
    /\ At(r, "wait")
    /\ gate # Free
    /\ IF view[r].readable THEN Goto(r, "use") /\ UNCHANGED view ELSE LetGo(r)
    /\ UNCHANGED <<stores, gate, order, asked, note, cached, rejected>>

(* _build: the key; when none comes back, whether the store was reached.   *)
ReadKey(r) ==
    /\ At(r, "key")
    /\ \E k \in {key, NoKey}, readable \in BOOLEAN :
          /\ IF k = key /\ readable THEN UNCHANGED faults ELSE Fault /\ k = NoKey
          /\ Hold(r, [key |-> k, desc |-> Blank, revision |-> revision,
                      readable |-> readable, sure |-> ~ InDoubt])
    /\ Goto(r, "desc")
    /\ UNCHANGED <<key, desc, stray, warned, gate, order, asked, note, cached, rejected>>

(* The Workspace ID and the recorded state; the gate is left. *)
ReadDesc(r) ==
    /\ At(r, "desc")
    /\ Hold(r, [view[r] EXCEPT !.desc = desc])
    /\ Goto(r, "publish")
    /\ gate' = IF gate = r THEN Free ELSE gate
    /\ UNCHANGED <<stores, order, asked, note, cached, rejected>>

Publish(r) ==
    /\ At(r, "publish")
    /\ cached' = view[r]
    /\ Goto(r, "use")
    /\ UNCHANGED <<stores, gate, order, asked, note, view, rejected>>

(* The provider answers, or the view was only shown; it is let go. *)
Answered(r) ==
    /\ At(r, "use")
    /\ LetGo(r)
    /\ UNCHANGED <<stores, gate, order, asked, note, cached, rejected>>

(* The provider turns the key down. *)
Rejected(r) ==
    /\ At(r, "use")
    /\ view[r].key # NoKey
    /\ rejected' = rejected \cup {view[r].key}
    /\ Goto(r, "look")
    /\ UNCHANGED <<stores, gate, order, asked, note, cached, view>>

(* The cheap early-out of note_runtime_failure. *)
Look(r) ==
    /\ At(r, "look")
    /\ IF view[r].revision = revision THEN Goto(r, "note") /\ UNCHANGED view ELSE LetGo(r)
    /\ UNCHANGED <<stores, gate, order, asked, note, cached, rejected>>

(* Mutated form of EnterNote: the early-out is believed. *)
EnterNoteBelieving(r) ==
    /\ At(r, "note")
    /\ gate = Free
    /\ gate' = r
    /\ Goto(r, "remember")
    /\ UNCHANGED <<stores, order, asked, reading>>

(* pair_state_gate(), with the check that authorises the write inside it;  *)
(* or the wait runs out and nothing is recorded.                           *)
EnterNote(r) ==
    /\ At(r, "note")
    /\ IF gate = Free /\ view[r].revision = revision
       THEN gate' = r /\ Goto(r, "remember") /\ UNCHANGED view
       ELSE LetGo(r) /\ UNCHANGED gate
    /\ UNCHANGED <<stores, order, asked, note, cached, rejected>>

(* _remember_runtime_downgrade, before anything that can fail; a state     *)
(* that already says so is not written again.                              *)
Remember(r) ==
    /\ At(r, "remember")
    /\ note' = view[r].revision
    /\ IF desc.state = "verification_failed"
       THEN gate' = Free /\ LetGo(r)
       ELSE Goto(r, "persist") /\ UNCHANGED <<gate, view>>
    /\ UNCHANGED <<stores, order, asked, cached, rejected>>

Persist(r) ==
    /\ At(r, "persist")
    /\ \/ DescWritten([desc EXCEPT !.state = "verification_failed"])
       \/ DescNotWritten
    /\ gate' = Free
    /\ LetGo(r)
    /\ UNCHANGED <<key, stray, warned, order, asked, note, cached, rejected>>

-----------------------------------------------------------------------------
Change(q) ==
    \/ Admit(q) \/ Verify(q) \/ Begin(q) \/ Busy(q) \/ Snapshot(q)
    \/ WriteKey(q) \/ RemoveKey(q) \/ Describe(q) \/ Restore(q)
    \/ BlankDesc(q) \/ Release(q)

Read(r) ==
    \/ Ask(r) \/ EnterRead(r) \/ FallBack(r) \/ ReadKey(r) \/ ReadDesc(r)
    \/ Publish(r) \/ Answered(r)

Downgrade(r) ==
    \/ Rejected(r) \/ Look(r) \/ EnterNote(r) \/ Remember(r) \/ Persist(r)

Next ==
    \/ \E q \in Requests : Change(q)
    \/ \E r \in Readers : Read(r) \/ Downgrade(r)
    \/ StrayLands

Spec == Init /\ [][Next]_vars

(* Every thread is scheduled; no wait for the gate is unbounded. *)
Fairness ==
    /\ \A q \in Requests : WF_vars(Change(q))
    /\ \A r \in Readers : WF_vars(Read(r) \/ Downgrade(r))

FairSpec == Spec /\ Fairness

-----------------------------------------------------------------------------
(* Properties *)

(* Everyone is where the code can take them; what only a save does, and    *)
(* what only a removal; and whoever is past the gate is alone.             *)
PlacesOK ==
    /\ pc \in [Requests \cup Readers -> Places]
    /\ \A q \in Saves : pc[q] # "remove"
    /\ \A q \in Removals : pc[q] \notin {"verify", "snapshot", "write", "restore", "blank"}
    /\ \A p \in Requests \cup Readers : pc[p] \in Holding => gate = p

(* Every variable holds one of the values the code gives it.               *)
TypeOK ==
    /\ PlacesOK
    /\ key \in Entries
    /\ desc \in Description
    /\ gate \in Requests \cup Readers \cup {Free}
    /\ revision \in Nat /\ intents \in Nat /\ claimed \in Nat
    /\ intent \in [Requests -> Nat]
    /\ verdict \in [Requests -> States \ {"verification_failed"}]
    /\ previous \in [Requests -> Entries]
    /\ outcome \in [Requests -> Outcomes]
    /\ note \in Nat \cup {-1}
    /\ cached \in View
    /\ view \in [Readers -> View]
    /\ stray \subseteq Entries
    /\ warned \in BOOLEAN
    /\ rejected \subseteq Keys
    /\ faults \in 0..MaxFaults

(* What a holder of view v is told about its key (credential_state_for). *)
Reported(v) ==
    IF v.key = NoKey THEN "not_configured"
    ELSE IF note = v.revision THEN "verification_failed"
    ELSE IF v.desc.state \in Recorded THEN v.desc.state
    ELSE "configured_unverified"

(* What a reader would build now. *)
Current == [key |-> key, desc |-> desc, revision |-> revision,
            readable |-> TRUE, sure |-> ~ InDoubt]

InUse == {view[r] : r \in {s \in Readers : pc[s] \in {"publish", "use"}}}

(* What the stores and the snapshots owe to each other at every step, and  *)
(* what the properties below rest on (PairInv).                            *)

(* The description came with this key or with nothing, and says that the   *)
(* provider turned the key down only if it did.                            *)
Fits(k, d) ==
    k # NoKey => /\ d.for \in {NoKey, k}
                 /\ d.state = "verification_failed" => k \in rejected

Views == {cached} \cup {view[r] : r \in Readers}

(* A write that may still land was told of, or is about to be. *)
DoubtInv == stray # {} => warned \/ \E q \in Requests : pc[q] = "blank"

(* Between the two stores only one of them is new. *)
BetweenInv ==
    \A q \in Requests : pc[q] \in {"describe", "restore"} =>
        stray = {} /\ key = Wanted(q)

StoredInv ==
    ~ InDoubt /\ (\A q \in Requests : pc[q] \notin {"describe", "restore", "blank"})
        => Fits(key, desc)

(* The rollback has something to go back to. *)
PreviousInv ==
    \A q \in Saves :
        pc[q] \in {"write", "describe", "restore"} /\ ~ warned => Fits(previous[q], desc)

(* A snapshot is taken of one state of the pair. *)
ViewInv ==
    /\ cached.sure => Fits(cached.key, cached.desc)
    /\ \A r \in Readers : view[r].sure =>
          /\ pc[r] \in {"wait", "publish", "use"} => Fits(view[r].key, view[r].desc)
          /\ pc[r] = "desc" => Fits(view[r].key, desc)

(* The revision tells a snapshot that a change has made old from a current *)
(* one.                                                                    *)
RevisionInv ==
    \A v \in Views :
        /\ v.revision <= revision
        /\ v.sure => v.revision >= 0
        /\ v.revision = revision =>
              /\ gate \notin Requests
              /\ v.sure <=> ~ InDoubt
              /\ v.sure => v.key \in {key, NoKey}

RejectedInv ==
    \A r \in Readers :
        /\ pc[r] \in {"look", "note", "remember", "persist"} => view[r].key \in rejected
        /\ pc[r] \in {"remember", "persist"} => view[r].revision = revision

(* What is remembered of a revision is true of the key of that revision. *)
NoteInv ==
    /\ note <= revision
    /\ note = revision => gate \notin Requests /\ (~ InDoubt => key \in rejected \cup {NoKey})
    /\ \A v \in Views : v.sure /\ note = v.revision => v.key \in rejected \cup {NoKey}

PairInv ==
    /\ DoubtInv /\ BetweenInv /\ StoredInv /\ PreviousInv
    /\ ViewInv /\ RevisionInv /\ RejectedInv /\ NoteInv

(* The last request in the order of admission that was told "applied". *)
IsLatest(q) ==
    /\ outcome[q] = "applied"
    /\ \A p \in Requests : outcome[p] = "applied" => intent[p] <= intent[q]

(* Places in the order are taken once, and the change under way is the     *)
(* newest that has claimed the pair.                                       *)
OrderInv ==
    /\ \A q \in Requests :
          /\ intent[q] <= intents
          /\ \A p \in Requests \ {q} : intent[p] = intent[q] => intent[q] = 0
          /\ outcome[q] = "applied" =>
                intent[q] <= claimed /\ pc[q] \in {"release", "returned"}
          /\ pc[q] \in {"snapshot", "write", "remove", "describe", "restore", "blank"} =>
                intent[q] = claimed /\ claimed > 0

(* The key is the one the latest applied request asked for, or is about to *)
(* be again.                                                               *)
LatestInv ==
    \A q \in Requests : IsLatest(q) =>
        /\ ~ InDoubt /\ (\A p \in Requests : pc[p] \notin {"describe", "restore", "blank"})
              => key = Wanted(q)
        /\ \A p \in Saves :
              pc[p] \in {"write", "describe", "restore"} /\ ~ warned
                  => previous[p] = Wanted(q)

(* All of it: with TypeOK, an inductive invariant. *)
Owed == PairInv /\ OrderInv /\ LatestInv

(* No request goes out with one key and another key's Workspace ID, and no *)
(* page shows such a pair, whatever change is under way - unless the user  *)
(* was told that the pair is in doubt (credential_view.current, _build).   *)
ReadsNeverMixed ==
    \A v \in InUse \cup {cached} : v.sure => ~ Mixed(v.key, v.desc)

(* Once nobody is changing the pair it is the one asked for by the latest  *)
(* admitted request that was told "applied", whole, however long Anthropic *)
(* took to check each key (admit, claim).                                  *)
LatestAdmittedWins ==
    gate = Free /\ ~ InDoubt =>
        \A q \in Requests : IsLatest(q) => key = Wanted(q) /\ ~ Mixed(key, desc)

(* A key reads as rejected only if the provider did turn that key down: a  *)
(* rejection that comes back late is never held against the key that       *)
(* replaced the one it was about (note_runtime_failure).                   *)
NoFalseDowngrade ==
    \A v \in InUse \cup IF gate = Free THEN {Current} ELSE {} :
        v.sure /\ Reported(v) = "verification_failed" => v.key \in rejected

(* A failure leaves what it says it leaves: with every outcome that calls  *)
(* the two stores consistent they are, except the one for a write that was *)
(* not confirmed (PairOutcome).                                            *)
OutcomeIsHonest ==
    \A q \in Requests :
        /\ pc[q] = "release"
        /\ outcome[q] \in SaysConsistent \ {"credential_write_unconfirmed"}
        /\ ~ InDoubt
        => ~ Mixed(key, desc)

(* Nothing here waits forever: every change is served, refused or told     *)
(* that another one is running (begin, WAIT_SECONDS).                      *)
EveryChangeReturns ==
    \A q \in Requests : pc[q] # "idle" ~> pc[q] = "returned"
=============================================================================
