------------------------ MODULE CredentialPairProofs ------------------------
(***************************************************************************)
(* Proofs about CredentialPair, for any number of saves, removals and      *)
(* readers, any keys and any number of failures: the types and the gate's  *)
(* mutual exclusion; that no reader pairs a key with another key's         *)
(* settings; that a rejection is never held against a key the provider did *)
(* not turn down; and that an outcome which calls the stores consistent    *)
(* leaves them so.                                                         *)
(***************************************************************************)
EXTENDS CredentialPair, TLAPS

-----------------------------------------------------------------------------
(* Types and the gate *)

(* A snapshot that could not be taken is still a snapshot, and an emptied  *)
(* description still one (credential_view._unreadable, _write_metadata).   *)
LEMMA EmptyTypes == Unreadable \in View /\ Blank \in Description
BY DEF Unreadable, View, Blank, Description, States, Entries

(* A new process knows nothing (credential_transaction's counters).        *)
LEMMA TypeInit == Init => TypeOK
<1> SUFFICES ASSUME Init PROVE TypeOK
  OBVIOUS
<1>1. key \in Entries /\ desc \in Description
  <2>1. key \in Entries
    BY KeysAssumption DEF Init
  <2>2. [for |-> key, state |-> "verified"] \in Description
    BY <2>1 DEF Description, States, Recorded
  <2> QED BY <2>1, <2>2, EmptyTypes DEF Init
<1>2. PlacesOK
  BY DEF Init, PlacesOK, Places, Holding, Requests
<1>3. /\ verdict \in [Requests -> States \ {"verification_failed"}]
      /\ outcome \in [Requests -> Outcomes]
      /\ previous \in [Requests -> Entries]
      /\ intent \in [Requests -> Nat]
  BY DEF Init, States, Recorded, Outcomes, Entries
<1>4. cached \in View /\ view \in [Readers -> View]
  BY EmptyTypes DEF Init
<1>5. note \in Nat \cup {-1} /\ faults \in 0..MaxFaults
  BY BoundAssumption DEF Init
<1>6. gate \in Requests \cup Readers \cup {Free}
  BY DEF Init
<1> QED BY <1>1, <1>2, <1>3, <1>4, <1>5, <1>6 DEF Init, TypeOK

(* A step to a place keeps everyone where the code can take them, if a     *)
(* place past the gate is reached by whoever holds it, and nobody loses    *)
(* the gate to another.                                                    *)
LEMMA MoveType ==
    ASSUME TypeOK, NEW p \in Requests \cup Readers, NEW place \in Places,
           Goto(p, place), place \in Holding => gate' = p,
           gate # gate' => gate \in {Free, p},
           p \in Saves => place # "remove",
           p \in Removals => place \notin {"verify", "snapshot", "write", "restore", "blank"}
    PROVE  PlacesOK'
BY ProcessesAssumption DEF TypeOK, PlacesOK, Goto, Requests

(* Every outcome that is settled on is one of the outcomes (PairOutcome).  *)
LEMMA SettleType ==
    ASSUME TypeOK, NEW q \in Requests, NEW result \in Outcomes, Settle(q, result)
    PROVE  /\ Goto(q, "release")
           /\ outcome' \in [Requests -> Outcomes]
           /\ warned' \in BOOLEAN
BY DEF TypeOK, Settle

(* A store call leaves a key or nothing in the entry, whatever comes of it *)
(* (MutationResult).                                                       *)
LEMMA CallType ==
    ASSUME TypeOK, NEW value \in Entries, NEW back \in Entries,
           \/ CallApplied(value)
           \/ CallUnchanged
           \/ CallUncertain(value, back)
    PROVE  /\ key' \in Entries
           /\ stray' \subseteq Entries
           /\ faults' \in 0..MaxFaults
BY BoundAssumption DEF TypeOK, CallApplied, CallUnchanged, CallUncertain, Fault

(* A preference write replaces the description or fails (store_many).      *)
LEMMA DescType ==
    ASSUME TypeOK, NEW d \in Description, DescWritten(d) \/ DescNotWritten
    PROVE  desc' \in Description /\ faults' \in 0..MaxFaults
BY BoundAssumption DEF TypeOK, DescWritten, DescNotWritten, Fault

(* A change keeps the types and the gate, wherever it succeeds or fails    *)
(* (set_api_key, remove_api_key).                                          *)
LEMMA ChangeType ==
    ASSUME TypeOK, NEW q \in Requests, Change(q)
    PROVE  TypeOK'
<1>0. /\ q \in Requests \cup Readers
      /\ Holding \subseteq Places
      /\ {"verify", "begin", "returned"} \subseteq Places \ Holding
      /\ {"snapshot", "write", "remove", "describe", "restore", "blank", "release"}
             \subseteq Holding
      /\ q # Free
      /\ q \in Saves <=> q \notin Removals
      /\ pc[q] \in Holding => gate = q
      /\ q \in Saves => pc[q] # "remove"
      /\ q \in Removals => pc[q] \notin {"verify", "snapshot", "write", "restore", "blank"}
  BY ProcessesAssumption DEF Places, Holding, TypeOK, PlacesOK, Requests
<1>1. CASE Admit(q)
  <2>1. PlacesOK'
    BY <1>0, <1>1, MoveType DEF Admit
  <2> QED BY <1>1, <2>1 DEF Admit, TypeOK, stores, reading
<1>2. CASE Verify(q)
  <2>1. PlacesOK'
    BY <1>0, <1>2, MoveType DEF Verify
  <2>2. /\ verdict' \in [Requests -> States \ {"verification_failed"}]
        /\ outcome' \in [Requests -> Outcomes]
    BY <1>2 DEF Verify, TypeOK, States, Recorded, Outcomes
  <2> QED BY <1>2, <2>1, <2>2 DEF Verify, TypeOK, stores, order, reading
<1>3. CASE Begin(q)
  <2>1. PlacesOK'
    BY <1>0, <1>3, MoveType DEF Begin, Claim, Settle, Proceed
  <2>2. outcome' \in [Requests -> Outcomes] /\ warned' \in BOOLEAN /\ claimed' \in Nat
    BY <1>3, SettleType DEF Begin, Claim, Proceed, TypeOK, Outcomes
  <2> QED BY <1>3, <2>1, <2>2 DEF Begin, TypeOK, memory, reading
<1>4. CASE Busy(q)
  <2>1. PlacesOK'
    BY <1>0, <1>4, MoveType DEF Busy
  <2>2. outcome' \in [Requests -> Outcomes]
    BY <1>4 DEF Busy, TypeOK, Outcomes
  <2> QED BY <1>4, <2>1, <2>2 DEF Busy, TypeOK, stores, order, memory, reading
<1>5. CASE Snapshot(q)
  <2>1. PlacesOK'
    BY <1>0, <1>5, MoveType DEF Snapshot, Settle, Proceed, At
  <2>2. outcome' \in [Requests -> Outcomes] /\ warned' \in BOOLEAN
    BY <1>5, SettleType DEF Snapshot, Proceed, TypeOK, Outcomes
  <2>3. faults' \in 0..MaxFaults /\ previous' \in [Requests -> Entries]
    BY <1>5, BoundAssumption DEF Snapshot, Fault, TypeOK
  <2> QED BY <1>5, <2>1, <2>2, <2>3 DEF Snapshot, TypeOK, order, reading
<1>6. CASE WriteKey(q) \/ RemoveKey(q) \/ Restore(q)
  <2>1. PlacesOK'
    BY <1>0, <1>6, MoveType
       DEF WriteKey, RemoveKey, Restore, Settle, Proceed, At
  <2>2. outcome' \in [Requests -> Outcomes] /\ warned' \in BOOLEAN
    BY <1>6, SettleType DEF WriteKey, RemoveKey, Restore, Proceed, TypeOK, Outcomes
  <2>3. key' \in Entries /\ stray' \subseteq Entries /\ faults' \in 0..MaxFaults
    <3>1. /\ previous[q] \in Entries /\ key \in Entries /\ NoKey \in Entries
          /\ q \in Saves => NewKey[q] \in Entries
      BY KeysAssumption DEF TypeOK, Entries
    <3>2. WriteKey(q) => q \in Saves
      BY <1>0 DEF WriteKey, At
    <3> QED BY <1>6, <3>1, <3>2, CallType DEF WriteKey, RemoveKey, Restore
  <2> QED BY <1>6, <2>1, <2>2, <2>3
          DEF WriteKey, RemoveKey, Restore, TypeOK, order, memory, reading
<1>7. CASE Describe(q)
  <2>1. PlacesOK'
    BY <1>0, <1>7, MoveType DEF Describe, Settle, Proceed, At
  <2>2. outcome' \in [Requests -> Outcomes] /\ warned' \in BOOLEAN
    BY <1>7, SettleType DEF Describe, Proceed, TypeOK, Outcomes
  <2>3. desc' \in Description /\ faults' \in 0..MaxFaults
    <3> DEFINE d == IF q \in Saves THEN [for |-> NewKey[q], state |-> verdict[q]] ELSE Blank
    <3>1. d \in Description
      BY EmptyTypes, KeysAssumption DEF Description, TypeOK, Entries
    <3>2. DescWritten(d) \/ DescNotWritten
      BY <1>7 DEF Describe
    <3> HIDE DEF d
    <3> QED BY <3>1, <3>2, DescType
  <2>4. note' \in Nat \cup {-1}
    BY <1>7 DEF Describe, TypeOK
  <2> QED BY <1>7, <2>1, <2>2, <2>3, <2>4 DEF Describe, TypeOK, order, memory
<1>8. CASE BlankDesc(q)
  <2>1. PlacesOK'
    BY <1>0, <1>8, MoveType DEF BlankDesc, Settle, At
  <2>2. outcome' \in [Requests -> Outcomes] /\ warned' \in BOOLEAN
    BY <1>8, SettleType DEF BlankDesc, Outcomes
  <2>3. desc' \in Description /\ faults' \in 0..MaxFaults
    BY <1>8, DescType, EmptyTypes DEF BlankDesc
  <2> QED BY <1>8, <2>1, <2>2, <2>3 DEF BlankDesc, TypeOK, order, memory
<1>9. CASE Release(q)
  <2>1. PlacesOK'
    BY <1>0, <1>9, MoveType DEF Release, At
  <2> QED BY <1>9, <2>1 DEF Release, TypeOK, stores, order, memory, reading
<1> QED BY <1>1, <1>2, <1>3, <1>4, <1>5, <1>6, <1>7, <1>8, <1>9 DEF Change

(* A reader lets go of its snapshot, or holds a snapshot it may hold.      *)
LEMMA HoldType ==
    ASSUME TypeOK, NEW r \in Readers, NEW v \in View, Hold(r, v)
    PROVE  view' \in [Readers -> View]
BY DEF TypeOK, Hold

(* Reading and recording a rejection keep the types and the gate           *)
(* (credential_view.current, note_runtime_failure).                        *)
LEMMA ReadType ==
    ASSUME TypeOK, NEW r \in Readers, Read(r) \/ Downgrade(r)
    PROVE  TypeOK'
<1>0. /\ r \in Requests \cup Readers
      /\ {"idle", "wait", "publish", "use", "look", "note"} \subseteq Places \ Holding
      /\ {"key", "desc", "remember", "persist"} \subseteq Places \cap Holding
      /\ r # Free /\ r \notin Saves /\ r \notin Removals
      /\ pc[r] \in Holding => gate = r
      /\ view[r] \in View
  BY ProcessesAssumption DEF Places, Holding, TypeOK, PlacesOK, Requests
<1>1. CASE Ask(r)
  <2>1. PlacesOK'
    BY <1>0, <1>1, MoveType DEF Ask
  <2>2. view' \in [Readers -> View]
    BY <1>1, HoldType DEF Ask, TypeOK
  <2> QED BY <1>1, <2>1, <2>2 DEF Ask, TypeOK, stores, order, asked, memory
<1>2. CASE EnterRead(r)
  <2>1. PlacesOK'
    BY <1>0, <1>2, MoveType DEF EnterRead
  <2> QED BY <1>2, <2>1 DEF EnterRead, TypeOK, stores, order, asked, memory, reading
<1>3. CASE FallBack(r)
  <2>1. PlacesOK'
    BY <1>0, <1>3, MoveType DEF FallBack, LetGo
  <2>2. view' \in [Readers -> View]
    BY <1>3, HoldType, EmptyTypes DEF FallBack, LetGo, TypeOK
  <2> QED BY <1>3, <2>1, <2>2 DEF FallBack, TypeOK, stores, order, asked, memory
<1>4. CASE ReadKey(r)
  <2>1. PlacesOK'
    BY <1>0, <1>4, MoveType DEF ReadKey, At
  <2>2. PICK k \in {key, NoKey}, readable \in BOOLEAN :
            /\ IF k = key /\ readable THEN UNCHANGED faults ELSE Fault /\ k = NoKey
            /\ Hold(r, [key |-> k, desc |-> Blank, revision |-> revision,
                        readable |-> readable, sure |-> ~ InDoubt])
    BY <1>4 DEF ReadKey
  <2>3. [key |-> k, desc |-> Blank, revision |-> revision,
         readable |-> readable, sure |-> ~ InDoubt] \in View
    BY EmptyTypes DEF View, TypeOK, Entries, InDoubt
  <2>4. view' \in [Readers -> View]
    BY <2>2, <2>3, HoldType
  <2>5. faults' \in 0..MaxFaults
    BY <2>2, BoundAssumption DEF Fault, TypeOK
  <2> QED BY <1>4, <2>1, <2>4, <2>5 DEF ReadKey, TypeOK, order, asked, memory
<1>5. CASE ReadDesc(r)
  <2>1. PlacesOK'
    BY <1>0, <1>5, MoveType DEF ReadDesc, At
  <2>2. [view[r] EXCEPT !.desc = desc] \in View
    BY <1>0 DEF View, TypeOK
  <2>3. view' \in [Readers -> View]
    BY <1>5, <2>2, HoldType DEF ReadDesc
  <2> QED BY <1>5, <2>1, <2>3 DEF ReadDesc, TypeOK, stores, order, asked, memory
<1>6. CASE Publish(r)
  <2>1. PlacesOK'
    BY <1>0, <1>6, MoveType DEF Publish
  <2> QED BY <1>0, <1>6, <2>1 DEF Publish, TypeOK, stores, order, asked, memory
<1>7. CASE Answered(r)
  <2>1. PlacesOK'
    BY <1>0, <1>7, MoveType DEF Answered, LetGo
  <2>2. view' \in [Readers -> View]
    BY <1>7, HoldType, EmptyTypes DEF Answered, LetGo
  <2> QED BY <1>7, <2>1, <2>2 DEF Answered, TypeOK, stores, order, asked, memory
<1>8. CASE Rejected(r)
  <2>1. PlacesOK'
    BY <1>0, <1>8, MoveType DEF Rejected
  <2>2. rejected' \subseteq Keys
    BY <1>0, <1>8 DEF Rejected, TypeOK, View, Entries
  <2> QED BY <1>8, <2>1, <2>2 DEF Rejected, TypeOK, stores, order, asked, memory
<1>9. CASE Look(r)
  <2>1. PlacesOK'
    BY <1>0, <1>9, MoveType DEF Look, LetGo
  <2>2. view' \in [Readers -> View]
    BY <1>9, HoldType, EmptyTypes DEF Look, LetGo, TypeOK
  <2> QED BY <1>9, <2>1, <2>2 DEF Look, TypeOK, stores, order, asked, memory
<1>10. CASE EnterNote(r)
  <2>1. PlacesOK'
    BY <1>0, <1>10, MoveType DEF EnterNote, LetGo
  <2>2. view' \in [Readers -> View]
    BY <1>10, HoldType, EmptyTypes DEF EnterNote, LetGo, TypeOK
  <2>3. gate' \in Requests \cup Readers \cup {Free}
    BY <1>10 DEF EnterNote, TypeOK
  <2> QED BY <1>10, <2>1, <2>2, <2>3 DEF EnterNote, TypeOK, stores, order, asked, memory
<1>11. CASE Remember(r)
  <2>1. PlacesOK'
    BY <1>0, <1>11, MoveType DEF Remember, LetGo, At
  <2>2. view' \in [Readers -> View]
    BY <1>11, HoldType, EmptyTypes DEF Remember, LetGo, TypeOK
  <2>3. gate' \in Requests \cup Readers \cup {Free}
    BY <1>11 DEF Remember, TypeOK
  <2>4. note' \in Nat \cup {-1}
    BY <1>0, <1>11 DEF Remember, TypeOK, View
  <2> QED BY <1>11, <2>1, <2>2, <2>3, <2>4
          DEF Remember, TypeOK, stores, order, asked, memory
<1>12. CASE Persist(r)
  <2>1. PlacesOK'
    BY <1>0, <1>12, MoveType DEF Persist, LetGo, At
  <2>2. view' \in [Readers -> View]
    BY <1>12, HoldType, EmptyTypes DEF Persist, LetGo
  <2>3. desc' \in Description /\ faults' \in 0..MaxFaults
    <3>1. [desc EXCEPT !.state = "verification_failed"] \in Description
      BY DEF TypeOK, Description, States, Recorded
    <3> QED BY <1>12, <3>1, DescType DEF Persist
  <2> QED BY <1>12, <2>1, <2>2, <2>3 DEF Persist, TypeOK, order, asked, memory
<1> QED BY <1>1, <1>2, <1>3, <1>4, <1>5, <1>6, <1>7, <1>8, <1>9, <1>10, <1>11, <1>12
        DEF Read, Downgrade

(* What lands late is a key or nothing (credentials.py, a call that never  *)
(* came back); and nothing else changes a type.                            *)
LEMMA TypeStep == TypeOK /\ [Next]_vars => TypeOK'
<1> SUFFICES ASSUME TypeOK, [Next]_vars PROVE TypeOK'
  OBVIOUS
<1>1. CASE StrayLands
  BY <1>1 DEF StrayLands, TypeOK, PlacesOK, order, asked, memory, reading
<1>2. CASE UNCHANGED vars
  BY <1>2 DEF vars, TypeOK, PlacesOK, stores, order, memory, reading
<1> QED BY <1>1, <1>2, ChangeType, ReadType DEF Next

(* Whoever is between the gate and its release is alone there: one change, *)
(* one reading or one recorded rejection at a time (begin, read_gate,      *)
(* pair_state_gate).                                                       *)
THEOREM TypeCorrect == Spec => []TypeOK
BY TypeInit, TypeStep, PTL DEF Spec

-----------------------------------------------------------------------------
(* What the stores and the snapshots owe to each other: a change           *)

(* Nothing is stored, and no request has come.                             *)
LEMMA PairInit == Init => PairInv
<1> SUFFICES ASSUME Init PROVE PairInv
  OBVIOUS
<1>1. StoredInv
  BY DEF Init, StoredInv, Fits, Blank
<1>2. DoubtInv /\ BetweenInv /\ PreviousInv
  BY DEF Init, DoubtInv, BetweenInv, PreviousInv, Requests
<1>3. ViewInv /\ RevisionInv /\ RejectedInv /\ NoteInv
  BY DEF Init, ViewInv, RevisionInv, RejectedInv, NoteInv, Views, Unreadable
<1> QED BY <1>1, <1>2, <1>3 DEF PairInv

(* Settling an outcome keeps the gate; only "applied" takes the doubt back *)
(* (PairOutcome). Going on changes neither.                                *)
LEMMA SettleEffect ==
    ASSUME TypeOK, NEW q \in Requests, NEW result, Settle(q, result)
    PROVE  /\ Goto(q, "release") /\ pc'[q] = "release"
           /\ warned' = (result # "applied" /\ (warned \/ result \in Doubtful))
           /\ outcome'[q] = result
           /\ \A x \in Requests \ {q} : outcome'[x] = outcome[x]
<1>1. Goto(q, "release") /\ pc'[q] = "release"
  BY DEF Settle, Goto, TypeOK, PlacesOK
<1>2. outcome'[q] = result /\ \A x \in Requests \ {q} : outcome'[x] = outcome[x]
  BY DEF Settle, TypeOK
<1>3. warned' = (result # "applied" /\ (warned \/ result \in Doubtful))
  BY DEF Settle, Doubtful, TypeOK
<1> QED BY <1>1, <1>2, <1>3

(* What a request that goes on changes: its place, and no outcome.         *)
LEMMA ProceedEffect ==
    ASSUME TypeOK, NEW q \in Requests, NEW place, Proceed(q, place)
    PROVE  Goto(q, place) /\ pc'[q] = place /\ outcome' = outcome /\ warned' = warned
BY DEF Proceed, Goto, TypeOK, PlacesOK

(* Whoever has the gate has it alone (credential_transaction).             *)
LEMMA OthersOutside ==
    ASSUME TypeOK, NEW p \in Requests \cup Readers, gate = p
    PROVE  \A x \in (Requests \cup Readers) \ {p} : pc[x] \notin Holding
BY DEF TypeOK, PlacesOK

(* No snapshot is current while a change is under way, so the change       *)
(* cannot make what was read of the pair, or noted of it, untrue.          *)
LEMMA InsideChange ==
    ASSUME TypeOK, PairInv, NEW q \in Requests, gate = q, gate' = q,
           NEW place, Goto(q, place), note' \in {note, -1},
           UNCHANGED <<revision, cached, view, rejected>>
    PROVE  ViewInv' /\ RevisionInv' /\ RejectedInv' /\ NoteInv'
<1>1. /\ \A r \in Readers : pc'[r] = pc[r] /\ pc[r] \notin Holding
      /\ Views' = Views
      /\ \A v \in Views : v.revision # revision
      /\ note # revision
  BY OthersOutside, ProcessesAssumption
     DEF TypeOK, PlacesOK, PairInv, RevisionInv, NoteInv, Goto, Views, Requests
<1>2. ViewInv'
  BY <1>1 DEF PairInv, ViewInv, Fits, Holding
<1>3. RevisionInv'
  BY <1>1 DEF PairInv, RevisionInv
<1>4. RejectedInv'
  BY <1>1 DEF PairInv, RejectedInv, Holding
<1>5. NoteInv'
  <2>1. \A v \in Views : v.sure => v.revision # -1
    BY DEF PairInv, RevisionInv
  <2>2. revision \in Nat /\ note \in Nat \cup {-1}
    BY DEF TypeOK
  <2> QED BY <1>1, <2>1, <2>2 DEF PairInv, NoteInv
<1> QED BY <1>2, <1>3, <1>4, <1>5

(* What is owed holds for the request that has the gate: all others are    *)
(* outside it.                                                             *)
LEMMA OneChange ==
    ASSUME TypeOK, TypeOK', NEW q \in Requests, gate = q, gate' = q
    PROVE  /\ (stray' # {} => warned' \/ pc'[q] = "blank") => DoubtInv'
           /\ (pc'[q] \in {"describe", "restore"} =>
                  stray' = {} /\ key' = Wanted(q))
              => BetweenInv'
           /\ (~ InDoubt' /\ pc'[q] \notin {"describe", "restore", "blank"}
                  => Fits(key, desc)')
              => StoredInv'
           /\ (q \in Saves /\ pc'[q] \in {"write", "describe", "restore"} /\ ~ warned'
                  => Fits(previous[q], desc)')
              => PreviousInv'
<1>1. \A p \in Requests \ {q} : pc'[p] \notin Holding
  BY DEF TypeOK, PlacesOK
<1> QED BY <1>1 DEF DoubtInv, BetweenInv, StoredInv, PreviousInv, Holding, Requests

(* A request outside the gate leaves the pair alone.                       *)
LEMMA OutsideChange ==
    ASSUME TypeOK, PairInv, NEW q \in Requests, Admit(q) \/ Verify(q) \/ Busy(q)
    PROVE  PairInv'
<1>1. /\ UNCHANGED <<stores, gate, revision, previous, reading>>
      /\ \A x \in (Requests \cup Readers) \ {q} : pc'[x] = pc[x]
      /\ pc'[q] \in {"verify", "begin", "returned"}
      /\ pc[q] \notin Holding
  BY DEF Admit, Verify, Busy, order, memory, Goto, TypeOK, PlacesOK, At, Holding
<1>2. \A r \in Readers : pc'[r] = pc[r]
  BY <1>1, ProcessesAssumption
<1>3. DoubtInv' /\ BetweenInv' /\ StoredInv' /\ PreviousInv'
  BY <1>1 DEF PairInv, DoubtInv, BetweenInv, StoredInv, PreviousInv, InDoubt, Fits,
              stores, reading, Holding, Requests
<1>4. ViewInv' /\ RejectedInv'
  BY <1>1, <1>2 DEF PairInv, ViewInv, RejectedInv, Fits, stores, reading
<1>5. RevisionInv' /\ NoteInv'
  BY <1>1 DEF PairInv, RevisionInv, NoteInv, Views, InDoubt, stores, reading
<1> QED BY <1>3, <1>4, <1>5 DEF PairInv

(* A change makes every snapshot old, whatever comes of it (begin).        *)
LEMMA BeginPair ==
    ASSUME TypeOK, TypeOK', PairInv, NEW q \in Requests, Begin(q)
    PROVE  PairInv'
<1>1. /\ UNCHANGED <<key, desc, stray, previous, note, cached, view, rejected>>
      /\ warned' = warned
      /\ \A x \in (Requests \cup Readers) \ {q} : pc'[x] = pc[x]
      /\ pc'[q] \in {"snapshot", "remove", "release"}
      /\ pc[q] \notin Holding
      /\ gate' = q /\ revision' = revision + 1
  <2>1. ASSUME Settle(q, "credential_superseded")
        PROVE  Goto(q, "release") /\ warned' = warned
    BY <2>1, SettleEffect DEF Doubtful, TypeOK
  <2> QED BY <2>1 DEF Begin, Claim, Proceed, memory, reading, Goto, TypeOK, PlacesOK,
                      At, Holding
<1>2. \A r \in Readers : pc'[r] = pc[r] /\ pc[r] \notin Holding
  BY <1>1, ProcessesAssumption DEF TypeOK, PlacesOK, Begin, Holding, Requests
<1>3. DoubtInv' /\ BetweenInv' /\ StoredInv' /\ PreviousInv'
  BY <1>1 DEF PairInv, DoubtInv, BetweenInv, StoredInv, PreviousInv, InDoubt, Fits,
              Holding, Requests
<1>4. ViewInv' /\ RejectedInv'
  BY <1>1, <1>2 DEF PairInv, ViewInv, RejectedInv, Fits, Holding
<1>5. RevisionInv' /\ NoteInv'
  <2>1. revision \in Nat /\ note \in Nat \cup {-1}
        /\ \A v \in Views : v.revision \in Nat \cup {-1}
    BY DEF TypeOK, Views, View
  <2>2. Views' = Views
    BY <1>1 DEF Views
  <2> QED BY <1>1, <2>1, <2>2 DEF PairInv, RevisionInv, NoteInv
<1> QED BY <1>3, <1>4, <1>5 DEF PairInv

(* What each call inside the gate leaves behind, whatever comes of it.     *)
LEMMA SnapshotEffect ==
    ASSUME TypeOK, NEW q \in Requests, Snapshot(q)
    PROVE  /\ UNCHANGED <<key, desc, stray, rejected, warned>>
           /\ pc[q] = "snapshot" /\ pc'[q] \in {"write", "release"}
           /\ pc'[q] = "write" => previous'[q] = key
           /\ \A x \in Requests \ {q} : outcome'[x] = outcome[x]
           /\ outcome'[q] # "applied" \/ outcome'[q] = outcome[q]
BY SettleEffect, ProceedEffect DEF Snapshot, At, Doubtful, reading, TypeOK

(* What writing the key can come to (credential_transaction).              *)
LEMMA WriteEffect ==
    ASSUME TypeOK, NEW q \in Requests, WriteKey(q)
    PROVE  /\ UNCHANGED <<desc, previous, rejected>>
           /\ pc[q] = "write" /\ q \in Saves
           /\ \/ key' = NewKey[q] /\ stray' = {} /\ pc'[q] = "describe" /\ warned' = warned
              \/ UNCHANGED <<key, stray>> /\ pc'[q] = "release" /\ warned' = warned
              \/ pc'[q] = "release" /\ warned'
           /\ \A x \in Requests \ {q} : outcome'[x] = outcome[x]
           /\ outcome'[q] # "applied" \/ outcome'[q] = outcome[q]
<1>1. pc[q] = "write" /\ q \in Saves /\ UNCHANGED <<desc, previous, rejected>>
  BY DEF WriteKey, At, memory, reading, TypeOK, PlacesOK, Requests
<1> QED BY <1>1, SettleEffect, ProceedEffect
        DEF WriteKey, CallApplied, CallUnchanged, Doubtful, TypeOK

(* What removing the key can come to.                                      *)
LEMMA RemoveEffect ==
    ASSUME TypeOK, NEW q \in Requests, RemoveKey(q)
    PROVE  /\ UNCHANGED <<desc, previous, rejected>>
           /\ pc[q] = "remove" /\ q \notin Saves
           /\ \/ key' = NoKey /\ stray' = {} /\ pc'[q] = "describe" /\ warned' = warned
              \/ UNCHANGED <<key, stray>> /\ pc'[q] = "release" /\ warned' = warned
              \/ pc'[q] = "release" /\ warned'
           /\ \A x \in Requests \ {q} : outcome'[x] = outcome[x]
           /\ outcome'[q] # "applied" \/ outcome'[q] = outcome[q]
<1>1. pc[q] = "remove" /\ q \notin Saves /\ UNCHANGED <<desc, previous, rejected>>
  BY DEF RemoveKey, At, memory, reading, TypeOK, PlacesOK
<1>2. CASE CallApplied(NoKey) /\ Proceed(q, "describe")
  BY <1>1, <1>2, ProceedEffect DEF CallApplied
<1>3. CASE CallUnchanged /\ Settle(q, "credential_store_failed")
  BY <1>1, <1>3, SettleEffect DEF CallUnchanged, Doubtful, TypeOK
<1>4. CASE Settle(q, "removal_unconfirmed")
  BY <1>1, <1>4, SettleEffect DEF Doubtful
<1> QED BY <1>2, <1>3, <1>4 DEF RemoveKey

(* What writing the description can come to.                               *)
LEMMA DescribeEffect ==
    ASSUME TypeOK, NEW q \in Requests, Describe(q)
    PROVE  /\ UNCHANGED <<key, stray, previous, rejected>>
           /\ pc[q] = "describe"
           /\ \/ /\ desc' = IF q \in Saves THEN [for |-> NewKey[q], state |-> verdict[q]]
                                           ELSE Blank
                 /\ pc'[q] = "release" /\ ~ warned' /\ outcome'[q] = "applied"
              \/ /\ desc' = desc /\ q \in Saves
                 /\ pc'[q] = "restore" /\ warned' = warned /\ outcome'[q] = outcome[q]
              \/ pc'[q] = "release" /\ warned' /\ outcome'[q] # "applied"
           /\ \A x \in Requests \ {q} : outcome'[x] = outcome[x]
<1>1. pc[q] = "describe" /\ UNCHANGED <<key, stray, previous, rejected>>
  BY DEF Describe, At, memory
<1>2. CASE /\ desc' = IF q \in Saves THEN [for |-> NewKey[q], state |-> verdict[q]]
                                      ELSE Blank
           /\ Settle(q, "applied")
  BY <1>1, <1>2, SettleEffect
<1>3. CASE desc' = desc /\ q \in Saves /\ Proceed(q, "restore")
  BY <1>1, <1>3, ProceedEffect
<1>4. CASE Settle(q, "metadata_orphaned")
  BY <1>1, <1>4, SettleEffect DEF Doubtful
<1> QED BY <1>2, <1>3, <1>4 DEF Describe, DescWritten, DescNotWritten

(* What putting the former key back can come to.                           *)
LEMMA RestoreEffect ==
    ASSUME TypeOK, NEW q \in Requests, Restore(q)
    PROVE  /\ UNCHANGED <<desc, previous, rejected>>
           /\ pc[q] = "restore" /\ q \in Saves
           /\ \/ /\ key' = previous[q] /\ stray' = {}
                 /\ pc'[q] = "release" /\ warned' = warned
              \/ pc'[q] = "blank"
           /\ \A x \in Requests \ {q} : outcome'[x] = outcome[x]
           /\ outcome'[q] # "applied" \/ outcome'[q] = outcome[q]
<1>1. pc[q] = "restore" /\ q \in Saves /\ UNCHANGED <<desc, previous, rejected>>
  BY DEF Restore, At, memory, reading, TypeOK, PlacesOK, Requests
<1> QED BY <1>1, SettleEffect, ProceedEffect DEF Restore, CallApplied, Doubtful, TypeOK

(* What blanking the description can come to: the user is warned.          *)
LEMMA BlankEffect ==
    ASSUME TypeOK, NEW q \in Requests, BlankDesc(q)
    PROVE  /\ pc[q] = "blank" /\ pc'[q] = "release" /\ warned'
           /\ \A x \in Requests \ {q} : outcome'[x] = outcome[x]
           /\ outcome'[q] # "applied"
BY SettleEffect DEF BlankDesc, At, Doubtful

(* A change inside the gate: where a call fails, an outcome says so or the *)
(* previous key goes back; where the answers run out, the doubt is kept    *)
(* (_save, _remove).                                                       *)
LEMMA WithinPair ==
    ASSUME TypeOK, TypeOK', PairInv, NEW q \in Requests,
           \/ Snapshot(q) \/ WriteKey(q) \/ RemoveKey(q)
           \/ Describe(q) \/ Restore(q) \/ BlankDesc(q)
    PROVE  PairInv'
<1>1. /\ pc[q] \in {"snapshot", "write", "remove", "describe", "restore", "blank"}
      /\ gate = q /\ gate' = q
      /\ UNCHANGED <<revision, cached, view, rejected>>
      /\ note' \in {note, -1}
      /\ \E place : Goto(q, place)
  <2>1. pc[q] \in {"snapshot", "write", "remove", "describe", "restore", "blank"}
    BY DEF Snapshot, WriteKey, RemoveKey, Describe, Restore, BlankDesc, At
  <2>2. gate = q
    BY <2>1 DEF TypeOK, PlacesOK, Holding
  <2>3. gate' = gate /\ note' \in {note, -1} /\ UNCHANGED <<revision, cached, view, rejected>>
    BY DEF Snapshot, WriteKey, RemoveKey, Describe, Restore, BlankDesc, order, reading
  <2>4. \E place : Goto(q, place)
    BY DEF Snapshot, WriteKey, RemoveKey, Describe, Restore, BlankDesc, Settle, Proceed
  <2> QED BY <2>1, <2>2, <2>3, <2>4
<1>2. ViewInv' /\ RevisionInv' /\ RejectedInv' /\ NoteInv'
  BY <1>1, InsideChange
<1>3. /\ \A p \in Requests \ {q} : pc[p] \notin Holding
      /\ \A place : Goto(q, place) => pc'[q] = place
      /\ q \in Saves => q \notin Removals
      /\ q \in Removals => q \notin Saves
  BY <1>1, OthersOutside, ProcessesAssumption DEF Goto, TypeOK, PlacesOK, Requests
<1>4. stray # {} => warned \/ pc[q] = "blank"
  BY <1>3 DEF PairInv, DoubtInv, Holding
<1>5. CASE Snapshot(q)
  <2>1. ~ warned => Fits(key, desc)
    BY <1>3, <1>4, <1>5, SnapshotEffect DEF PairInv, StoredInv, InDoubt, Holding
  <2>2. DoubtInv' /\ BetweenInv' /\ StoredInv' /\ PreviousInv'
    BY <1>1, <1>4, <1>5, <2>1, SnapshotEffect, OneChange DEF InDoubt, Fits
  <2> QED BY <1>2, <2>2 DEF PairInv
<1>6. CASE WriteKey(q)
  <2>1. ~ warned => stray = {} /\ Fits(key, desc) /\ Fits(previous[q], desc)
    BY <1>3, <1>4, <1>6, WriteEffect DEF PairInv, StoredInv, PreviousInv, InDoubt, Holding
  <2>2. DoubtInv' /\ BetweenInv' /\ StoredInv' /\ PreviousInv'
    BY <1>1, <1>4, <1>6, <2>1, WriteEffect, OneChange DEF InDoubt, Fits, Wanted
  <2> QED BY <1>2, <2>2 DEF PairInv
<1>7. CASE RemoveKey(q)
  <2>1. ~ warned => stray = {} /\ Fits(key, desc)
    BY <1>3, <1>4, <1>7, RemoveEffect DEF PairInv, StoredInv, InDoubt, Holding
  <2>2. DoubtInv' /\ BetweenInv' /\ StoredInv' /\ PreviousInv'
    BY <1>1, <1>4, <1>7, <2>1, RemoveEffect, OneChange DEF InDoubt, Fits, Wanted
  <2> QED BY <1>2, <2>2 DEF PairInv
<1>8. CASE Describe(q)
  <2>1. stray = {} /\ key = Wanted(q)
    BY <1>8, DescribeEffect DEF PairInv, BetweenInv
  <2>2. ~ warned => Fits(previous[q], desc) \/ q \notin Saves
    BY <1>8, DescribeEffect DEF PairInv, PreviousInv
  <2>3. verdict[q] # "verification_failed"
    BY DEF TypeOK
  <2>4. pc'[q] = "release" => warned' \/ Fits(key, desc)'
    BY <1>8, <2>1, <2>3, DescribeEffect DEF Fits, Wanted
  <2>5. pc'[q] = "restore" => (~ warned' => Fits(previous[q], desc)')
    BY <1>8, <2>2, DescribeEffect DEF Fits
  <2>6. DoubtInv' /\ BetweenInv' /\ StoredInv' /\ PreviousInv'
    BY <1>1, <1>8, <2>1, <2>4, <2>5, DescribeEffect, OneChange DEF InDoubt
  <2> QED BY <1>2, <2>6 DEF PairInv
<1>9. CASE Restore(q)
  <2>1. stray = {} /\ (~ warned => Fits(previous[q], desc))
    BY <1>9, RestoreEffect DEF PairInv, BetweenInv, PreviousInv
  <2>2. DoubtInv' /\ BetweenInv' /\ StoredInv' /\ PreviousInv'
    BY <1>1, <1>9, <2>1, RestoreEffect, OneChange DEF InDoubt, Fits
  <2> QED BY <1>2, <2>2 DEF PairInv
<1>10. CASE BlankDesc(q)
  <2>1. DoubtInv' /\ BetweenInv' /\ StoredInv' /\ PreviousInv'
    BY <1>1, <1>10, BlankEffect, OneChange DEF InDoubt
  <2> QED BY <1>2, <2>1 DEF PairInv
<1> QED BY <1>5, <1>6, <1>7, <1>8, <1>9, <1>10

(* Leaving the gate changes nothing of the pair, and nothing is in doubt   *)
(* that was not before (the gate's finally).                               *)
LEMMA ReleasePair ==
    ASSUME TypeOK, PairInv, NEW q \in Requests, Release(q)
    PROVE  PairInv'
<1>1. /\ UNCHANGED <<stores, revision, previous, reading>>
      /\ \A x \in (Requests \cup Readers) \ {q} : pc'[x] = pc[x]
      /\ pc[q] = "release" /\ pc'[q] = "returned"
      /\ gate = q /\ gate' = Free
  BY DEF Release, order, memory, Goto, TypeOK, PlacesOK, At, Holding
<1>2. \A r \in Readers : pc'[r] = pc[r]
  BY <1>1, ProcessesAssumption
<1>3. DoubtInv' /\ BetweenInv' /\ StoredInv' /\ PreviousInv'
  BY <1>1 DEF PairInv, DoubtInv, BetweenInv, StoredInv, PreviousInv, InDoubt, Fits,
              stores, reading, Requests
<1>4. ViewInv' /\ RejectedInv'
  BY <1>1, <1>2 DEF PairInv, ViewInv, RejectedInv, Fits, stores, reading
<1>5. RevisionInv' /\ NoteInv'
  <2>1. Views' = Views /\ note # revision /\ \A v \in Views : v.revision # revision
    BY <1>1 DEF PairInv, RevisionInv, NoteInv, Views, reading
  <2> QED BY <1>1, <2>1 DEF PairInv, RevisionInv, NoteInv, stores, reading
<1> QED BY <1>3, <1>4, <1>5 DEF PairInv

(* A write that was given up on may land in the entry: the pair was in     *)
(* doubt before it did, and is after.                                      *)
LEMMA StrayPair ==
    ASSUME TypeOK, PairInv, StrayLands
    PROVE  PairInv'
<1>1. /\ UNCHANGED <<desc, gate, revision, pc, previous, warned, reading>>
      /\ stray # {} /\ stray' \subseteq stray
      /\ warned \/ \E q \in Requests : pc[q] = "blank"
  BY DEF StrayLands, order, memory, PairInv, DoubtInv
<1>2. gate \notin Requests => warned
  BY <1>1 DEF TypeOK, PlacesOK, Holding
<1>3. DoubtInv' /\ BetweenInv' /\ StoredInv' /\ PreviousInv'
  BY <1>1 DEF PairInv, DoubtInv, BetweenInv, StoredInv, PreviousInv, InDoubt, Fits, reading
<1>4. ViewInv' /\ RejectedInv'
  BY <1>1 DEF PairInv, ViewInv, RejectedInv, Fits, reading
<1>5. RevisionInv' /\ NoteInv'
  BY <1>1, <1>2 DEF PairInv, RevisionInv, NoteInv, Views, InDoubt, reading
<1> QED BY <1>3, <1>4, <1>5 DEF PairInv

-----------------------------------------------------------------------------
(* What the stores and the snapshots owe to each other: a reader           *)

(* A reader has no part in a change.                                       *)
LEMMA ReaderLeaves ==
    ASSUME TypeOK, NEW r \in Readers, Read(r) \/ Downgrade(r)
    PROVE  /\ UNCHANGED <<key, stray, warned, order, memory, outcome>>
           /\ \A q \in Requests : pc'[q] = pc[q]
<1>1. UNCHANGED <<key, stray, warned, order, memory, outcome>>
  BY DEF Read, Downgrade, Ask, EnterRead, FallBack, ReadKey, ReadDesc, Publish, Answered,
         Rejected, Look, EnterNote, Remember, Persist, stores, asked
<1>2. UNCHANGED pc \/ \E place : Goto(r, place)
  BY DEF Read, Downgrade, Ask, EnterRead, FallBack, ReadKey, ReadDesc, Publish, Answered,
         Rejected, Look, EnterNote, Remember, Persist, LetGo
<1>3. \A q \in Requests : pc'[q] = pc[q]
  BY <1>2, ProcessesAssumption DEF Goto, TypeOK, PlacesOK
<1> QED BY <1>1, <1>3

(* Reading disturbs no change.                                             *)
LEMMA ReaderKeeps ==
    ASSUME PairInv, UNCHANGED <<key, desc, stray, warned, previous>>,
           rejected \subseteq rejected',
           \A q \in Requests : pc'[q] = pc[q]
    PROVE  DoubtInv' /\ BetweenInv' /\ StoredInv' /\ PreviousInv'
BY DEF PairInv, DoubtInv, BetweenInv, StoredInv, PreviousInv, InDoubt, Fits, Requests

(* Everything a reader does but reading the key, remembering a rejection   *)
(* and writing it down moves a snapshot on, publishes it or lets it go.    *)
LEMMA ReaderMoves ==
    ASSUME TypeOK, TypeOK', PairInv, NEW r \in Readers,
           \/ Ask(r) \/ EnterRead(r) \/ FallBack(r) \/ ReadDesc(r) \/ Publish(r)
           \/ Answered(r) \/ Rejected(r) \/ Look(r) \/ EnterNote(r)
    PROVE  PairInv'
<1>1. /\ UNCHANGED <<stores, revision, previous, note>>
      /\ rejected \subseteq rejected'
      /\ \A x \in (Requests \cup Readers) \ {r} : pc'[x] = pc[x]
      /\ \A x \in Readers \ {r} : view'[x] = view[x]
      /\ gate' = gate \/ gate' = r \/ (gate = r /\ gate' = Free)
  BY DEF Ask, EnterRead, FallBack, ReadDesc, Publish, Answered, Rejected, Look, EnterNote,
         order, asked, memory, reading, LetGo, Hold, Goto, TypeOK, PlacesOK
<1>2. \A q \in Requests : pc'[q] = pc[q]
  BY <1>1, ProcessesAssumption
<1>3. DoubtInv' /\ BetweenInv' /\ StoredInv' /\ PreviousInv'
  BY <1>1, <1>2, ReaderKeeps DEF stores
<1>4. \A v \in Views' : \E w \in Views \cup {Unreadable} :
          v.key = w.key /\ v.revision = w.revision /\ v.sure = w.sure
  <2>1. \A x \in Readers : view[x] \in Views
    BY DEF Views
  <2>2. \E w \in Views \cup {Unreadable} :
            /\ view'[r].key = w.key
            /\ view'[r].revision = w.revision
            /\ view'[r].sure = w.sure
    BY <2>1 DEF Ask, EnterRead, FallBack, ReadDesc, Publish, Answered, Rejected, Look,
           EnterNote, asked, memory, reading, LetGo, Hold, TypeOK, View, Views
  <2>3. cached' \in Views
    BY <2>1 DEF Ask, EnterRead, FallBack, ReadDesc, Publish, Answered, Rejected, Look,
           EnterNote, asked, reading, Views
  <2> QED BY <1>1, <2>1, <2>2, <2>3 DEF Views
<1>5. RevisionInv' /\ NoteInv'
  <2>1. gate' \in Requests => gate \in Requests
    BY <1>1, ProcessesAssumption DEF Requests
  <2>2. revision \in Nat
    BY DEF TypeOK
  <2>3. \A w \in Views \cup {Unreadable} :
            /\ w.revision <= revision
            /\ w.sure => w.revision >= 0
            /\ w.revision = revision =>
                  /\ gate \notin Requests
                  /\ w.sure <=> ~ InDoubt
                  /\ w.sure => w.key \in {key, NoKey}
            /\ w.sure /\ note = w.revision => w.key \in rejected \cup {NoKey}
    BY <2>2 DEF PairInv, RevisionInv, NoteInv, Unreadable
  <2>4. RevisionInv'
    BY <1>1, <1>4, <2>1, <2>3 DEF RevisionInv, InDoubt, stores
  <2>5. NoteInv'
    BY <1>1, <1>4, <2>1, <2>3 DEF PairInv, NoteInv, InDoubt, stores
  <2> QED BY <2>4, <2>5
<1>6. ViewInv'
  <2>1. cached'.sure => Fits(cached.key, cached.desc)'
    BY DEF PairInv, ViewInv, Fits, Ask, EnterRead, FallBack, ReadDesc, Publish, Answered,
           Rejected, Look, EnterNote, asked, reading, At
  <2>2. view'[r].sure =>
          /\ pc'[r] \in {"wait", "publish", "use"} => Fits(view[r].key, view[r].desc)'
          /\ pc'[r] = "desc" => Fits(view[r].key, desc)'
    BY DEF PairInv, ViewInv, Fits, Ask, EnterRead, FallBack, ReadDesc, Publish, Answered,
           Rejected, Look, EnterNote, asked, memory, reading, At, Goto, LetGo, Hold,
           Unreadable, TypeOK, PlacesOK, View
  <2>3. \A x \in Readers \ {r} : view'[x].sure =>
          /\ pc'[x] \in {"wait", "publish", "use"} => Fits(view[x].key, view[x].desc)'
          /\ pc'[x] = "desc" => Fits(view[x].key, desc)'
    BY <1>1 DEF PairInv, ViewInv, Fits, stores
  <2> QED BY <2>1, <2>2, <2>3 DEF ViewInv
<1>7. RejectedInv'
  <2>1. /\ pc'[r] \in {"look", "note", "remember", "persist"} => view'[r].key \in rejected'
        /\ pc'[r] \in {"remember", "persist"} => view'[r].revision = revision'
    BY DEF PairInv, RejectedInv, Ask, EnterRead, FallBack, ReadDesc, Publish, Answered,
           Rejected, Look, EnterNote, asked, memory, order, reading, At, Goto, LetGo, Hold,
           TypeOK, PlacesOK
  <2> QED BY <1>1, <2>1 DEF PairInv, RejectedInv
<1> QED BY <1>3, <1>5, <1>6, <1>7 DEF PairInv

(* A snapshot says no more of the pair than holds of it while it is read   *)
(* (_build, inside read_gate).                                             *)
LEMMA ReadKeyPair ==
    ASSUME TypeOK, PairInv, NEW r \in Readers, ReadKey(r)
    PROVE  PairInv'
<1>1. /\ UNCHANGED <<key, desc, stray, warned, gate, revision, previous,
                     note, cached, rejected>>
      /\ \A x \in (Requests \cup Readers) \ {r} : pc'[x] = pc[x]
      /\ pc[r] = "key" /\ pc'[r] = "desc"
      /\ gate = r
  BY DEF ReadKey, order, asked, memory, At, Goto, TypeOK, PlacesOK, Holding
<1>2. \A q \in Requests : pc'[q] = pc[q] /\ pc[q] \notin Holding
  BY <1>1, OthersOutside, ProcessesAssumption
<1>3. PICK new :
          /\ Hold(r, new)
          /\ new.key \in {key, NoKey}
          /\ new.revision = revision
          /\ new.sure <=> ~ InDoubt
  <2>1. PICK k \in {key, NoKey}, readable \in BOOLEAN :
            Hold(r, [key |-> k, desc |-> Blank, revision |-> revision,
                     readable |-> readable, sure |-> ~ InDoubt])
    BY DEF ReadKey
  <2> DEFINE w == [key |-> k, desc |-> Blank, revision |-> revision,
                   readable |-> readable, sure |-> ~ InDoubt]
  <2>2. w.key \in {key, NoKey} /\ w.revision = revision /\ (w.sure <=> ~ InDoubt)
    OBVIOUS
  <2>3. Hold(r, w)
    BY <2>1
  <2> HIDE DEF w
  <2> QED BY <2>2, <2>3
<1>4. view'[r] = new /\ \A x \in Readers \ {r} : view'[x] = view[x]
  BY <1>3 DEF Hold, TypeOK
<1>5. Views' \subseteq Views \cup {new}
  BY <1>1, <1>4 DEF Views
<1>6. ~ InDoubt => Fits(key, desc) /\ Fits(new.key, desc)
  BY <1>2, <1>3 DEF PairInv, StoredInv, Holding, Fits
<1>7. gate \notin Requests /\ revision \in Nat
  BY <1>1, ProcessesAssumption DEF TypeOK
<1>8. DoubtInv' /\ BetweenInv' /\ StoredInv' /\ PreviousInv'
  BY <1>1, <1>2, ReaderKeeps
<1>9. ViewInv' /\ RejectedInv'
  <2>1. \A x \in Readers \ {r} : pc'[x] = pc[x] /\ view'[x] = view[x]
    BY <1>1, <1>4
  <2>2. ViewInv'
    BY <1>1, <1>3, <1>4, <1>6, <2>1 DEF PairInv, ViewInv, Fits
  <2>3. RejectedInv'
    BY <1>1, <2>1 DEF PairInv, RejectedInv
  <2> QED BY <2>2, <2>3
<1>10. RevisionInv'
  BY <1>1, <1>3, <1>5, <1>7 DEF PairInv, RevisionInv, InDoubt
<1>11. NoteInv'
  BY <1>1, <1>3, <1>5, <1>7 DEF PairInv, NoteInv, InDoubt
<1> QED BY <1>8, <1>9, <1>10, <1>11 DEF PairInv

(* A rejection is remembered of the key it was about, which is the key     *)
(* that is there (note_runtime_failure, inside pair_state_gate); and what  *)
(* is written down of it is true.                                          *)
LEMMA RecordPair ==
    ASSUME TypeOK, PairInv, NEW r \in Readers, Remember(r) \/ Persist(r)
    PROVE  PairInv'
<1>1. /\ UNCHANGED <<key, stray, warned, revision, previous, cached, rejected>>
      /\ \A x \in (Requests \cup Readers) \ {r} : pc'[x] = pc[x]
      /\ \A x \in Readers \ {r} : view'[x] = view[x]
      /\ pc[r] \in {"remember", "persist"} /\ pc'[r] \in {"persist", "idle"}
      /\ gate = r /\ gate' \in {r, Free}
      /\ note' \in {note, view[r].revision}
      /\ view'[r] = view[r] \/ (view'[r] = Unreadable /\ pc'[r] = "idle")
  BY DEF Remember, Persist, stores, order, asked, memory, At, Goto, LetGo, Hold,
         TypeOK, PlacesOK, Holding
<1>2. /\ \A q \in Requests : pc'[q] = pc[q] /\ pc[q] \notin Holding
      /\ \A x \in Readers \ {r} : pc[x] \notin Holding
      /\ gate \notin Requests /\ gate' \notin Requests
  BY <1>1, OthersOutside, ProcessesAssumption
<1>3. /\ Views' \subseteq Views \cup {Unreadable}
      /\ view[r] \in Views
      /\ revision \in Nat
  BY <1>1 DEF Views, TypeOK
<1>4. /\ view[r].revision = revision
      /\ view[r].key \in rejected
      /\ ~ InDoubt => key \in rejected
  <2>1. view[r].revision = revision /\ view[r].key \in rejected
    BY <1>1 DEF PairInv, RejectedInv
  <2>2. view[r].key # NoKey
    BY <2>1, KeysAssumption DEF TypeOK
  <2> QED BY <1>3, <2>1, <2>2 DEF PairInv, RevisionInv
<1>5. desc' = desc \/ desc' = [desc EXCEPT !.state = "verification_failed"]
  BY DEF Remember, Persist, DescWritten, DescNotWritten, stores
<1>6. desc'.for = desc.for /\ desc'.state \in {desc.state, "verification_failed"}
  BY <1>5 DEF TypeOK, Description
<1>7. ~ InDoubt => Fits(key, desc)'
  BY <1>1, <1>2, <1>4, <1>6 DEF PairInv, StoredInv, Fits, Holding
<1>8. DoubtInv' /\ BetweenInv' /\ StoredInv' /\ PreviousInv'
  BY <1>1, <1>2, <1>7, ProcessesAssumption
     DEF PairInv, DoubtInv, BetweenInv, StoredInv, PreviousInv, InDoubt, Holding, Requests
<1>9. ViewInv' /\ RejectedInv'
  <2>1. ~ Unreadable.sure
    BY DEF Unreadable
  <2> QED BY <1>1, <1>2, <1>4, <2>1
          DEF PairInv, ViewInv, RejectedInv, Fits, Holding
<1>10. RevisionInv' /\ NoteInv'
  <2>1. Unreadable.revision = -1 /\ ~ Unreadable.sure
    BY DEF Unreadable
  <2>2. RevisionInv'
    BY <1>1, <1>2, <1>3, <2>1 DEF PairInv, RevisionInv, InDoubt
  <2>3. note' <= revision /\ (note' = revision => (~ InDoubt => key \in rejected))
    BY <1>1, <1>3, <1>4 DEF PairInv, NoteInv
  <2>4. ASSUME NEW v \in Views, v.sure, note' = v.revision
        PROVE  v.key \in rejected \cup {NoKey}
    <3>1. CASE v.revision = revision
      BY <1>4, <2>4, <3>1 DEF PairInv, RevisionInv
    <3>2. CASE v.revision # revision
      BY <1>1, <1>4, <2>4, <3>2 DEF PairInv, NoteInv
    <3> QED BY <3>1, <3>2
  <2>5. NoteInv'
    BY <1>1, <1>2, <1>3, <2>1, <2>3, <2>4 DEF NoteInv, InDoubt
  <2> QED BY <2>2, <2>5
<1> QED BY <1>8, <1>9, <1>10 DEF PairInv

(* Every step keeps what the two stores owe to each other.                 *)
LEMMA PairStep == TypeOK /\ TypeOK' /\ PairInv /\ [Next]_vars => PairInv'
<1> SUFFICES ASSUME TypeOK, TypeOK', PairInv, [Next]_vars PROVE PairInv'
  OBVIOUS
<1>1. ASSUME NEW q \in Requests, Change(q) PROVE PairInv'
  BY <1>1, OutsideChange, BeginPair, WithinPair, ReleasePair DEF Change
<1>2. ASSUME NEW r \in Readers, Read(r) \/ Downgrade(r) PROVE PairInv'
  BY <1>2, ReaderMoves, ReadKeyPair, RecordPair DEF Read, Downgrade
<1>3. CASE UNCHANGED vars
  <2>1. UNCHANGED <<key, desc, gate, revision, pc, previous, note, cached, view, stray,
                    warned, rejected>>
    BY <1>3 DEF vars, stores, order, memory, reading
  <2> QED BY <2>1 DEF PairInv, DoubtInv, BetweenInv, StoredInv, PreviousInv, ViewInv,
                      RevisionInv, RejectedInv, NoteInv, InDoubt, Fits, Views
<1> QED BY <1>1, <1>2, <1>3, StrayPair DEF Next

-----------------------------------------------------------------------------
(* The order of admission *)

(* Nobody has been admitted yet.                                           *)
LEMMA OrderInit == Init => OrderInv /\ LatestInv
BY DEF Init, OrderInv, LatestInv, IsLatest, Requests

(* What a request inside the gate does to the order: nothing, until it is  *)
(* told "applied" on its way out.                                          *)
LEMMA OrderWithin ==
    ASSUME TypeOK, OrderInv, NEW q \in Requests,
           \/ Snapshot(q) \/ WriteKey(q) \/ RemoveKey(q)
           \/ Describe(q) \/ Restore(q) \/ BlankDesc(q)
    PROVE  /\ OrderInv'
           /\ outcome[q] # "applied"
           /\ \A x \in Requests \ {q} :
                 outcome'[x] = outcome[x] /\ (outcome[x] = "applied" => intent[x] < intent[q])
           /\ UNCHANGED <<intent, claimed, gate>>
           /\ pc'[q] # "release" => outcome'[q] = outcome[q]
<1>1. /\ pc[q] \in {"snapshot", "write", "remove", "describe", "restore", "blank"}
      /\ UNCHANGED <<intent, intents, claimed, gate>>
      /\ \A x \in Requests \ {q} : pc'[x] = pc[x]
  <2>1. \E place : Goto(q, place)
    BY DEF Snapshot, WriteKey, RemoveKey, Describe, Restore, BlankDesc, Settle, Proceed
  <2>2. \A x \in Requests \ {q} : pc'[x] = pc[x]
    BY <2>1 DEF Goto, TypeOK, PlacesOK
  <2> QED BY <2>2 DEF Snapshot, WriteKey, RemoveKey, Describe, Restore, BlankDesc, At,
                      order, memory
<1>2. /\ outcome[q] # "applied"
      /\ intent[q] = claimed /\ claimed > 0
  BY <1>1 DEF OrderInv
<1>3. /\ \A x \in Requests \ {q} : outcome'[x] = outcome[x]
      /\ \/ pc'[q] = "release"
         \/ /\ pc'[q] \in {"write", "describe", "restore", "blank"}
            /\ outcome'[q] = outcome[q]
  <2>1. \A result : Settle(q, result) =>
            pc'[q] = "release" /\ \A x \in Requests \ {q} : outcome'[x] = outcome[x]
    BY SettleEffect
  <2>2. \A place : Proceed(q, place) => pc'[q] = place /\ outcome' = outcome
    BY ProceedEffect
  <2> QED BY <2>1, <2>2 DEF Snapshot, WriteKey, RemoveKey, Describe, Restore, BlankDesc
<1>4. \A x \in Requests \ {q} : outcome[x] = "applied" => intent[x] < intent[q]
  BY <1>2 DEF OrderInv, TypeOK
<1>5. OrderInv'
  BY <1>1, <1>2, <1>3, <1>4 DEF OrderInv, TypeOK
<1> QED BY <1>1, <1>2, <1>3, <1>4, <1>5

(* Nobody else learns of an outcome, so the latest request told "applied"  *)
(* is the one it was.                                                      *)
LEMMA SameLatest ==
    ASSUME \A x \in Requests : outcome'[x] = "applied" <=> outcome[x] = "applied",
           \A x \in Requests : outcome[x] = "applied" => intent'[x] = intent[x]
    PROVE  \A x \in Requests : IsLatest(x)' => IsLatest(x)
BY DEF IsLatest

(* Whoever is admitted takes the next place (admit); whoever claims the    *)
(* pair is newer than all that were applied (claim).                       *)
LEMMA OrderStep ==
    ASSUME TypeOK, OrderInv, [Next]_vars
    PROVE  OrderInv'
<1>1. ASSUME NEW q \in Requests, Admit(q) PROVE OrderInv'
  <2>1. /\ intents' = intents + 1 /\ intent'[q] = intents + 1
        /\ UNCHANGED <<claimed, outcome>>
        /\ pc[q] = "idle" /\ pc'[q] \in {"verify", "begin"}
        /\ \A x \in Requests \ {q} : pc'[x] = pc[x] /\ intent'[x] = intent[x]
    BY <1>1 DEF Admit, At, Goto, TypeOK, PlacesOK
  <2> QED BY <2>1 DEF OrderInv, TypeOK
<1>2. ASSUME NEW q \in Requests, Verify(q) \/ Busy(q) \/ Release(q) PROVE OrderInv'
  <2>1. /\ UNCHANGED <<intents, intent, claimed>>
        /\ pc'[q] \in {"begin", "returned"}
        /\ pc'[q] # "returned" => outcome' = outcome
        /\ outcome'[q] = "applied" => outcome[q] = "applied" /\ pc'[q] = "returned"
        /\ \A x \in Requests \ {q} : pc'[x] = pc[x] /\ outcome'[x] = outcome[x]
    BY <1>2 DEF Verify, Busy, Release, At, Goto, TypeOK, PlacesOK, order, memory, OrderInv
  <2> QED BY <2>1 DEF OrderInv
<1>3. ASSUME NEW q \in Requests, Begin(q) PROVE OrderInv'
  <2>1. /\ UNCHANGED <<intents, intent>>
        /\ pc[q] = "begin" /\ outcome[q] # "applied"
        /\ \A x \in Requests \ {q} : pc'[x] = pc[x] /\ pc[x] \notin Holding
    <3>1. gate = Free /\ pc[q] = "begin" /\ UNCHANGED <<intents, intent>>
          /\ \E place : Goto(q, place)
      BY <1>3 DEF Begin, Claim, Settle, Proceed, At, memory
    <3> QED BY <3>1, ProcessesAssumption
            DEF OrderInv, Goto, TypeOK, PlacesOK, Requests
  <2>2. \/ /\ claimed' = claimed /\ pc'[q] = "release" /\ outcome'[q] # "applied"
           /\ \A x \in Requests \ {q} : outcome'[x] = outcome[x]
        \/ /\ claimed' = intent[q] /\ intent[q] > claimed
           /\ pc'[q] \in {"snapshot", "remove"} /\ outcome' = outcome
    <3>1. CASE Settle(q, "credential_superseded") /\ UNCHANGED claimed
      BY <3>1, SettleEffect
    <3>2. CASE /\ intent[q] > claimed /\ claimed' = intent[q]
               /\ Proceed(q, IF q \in Saves THEN "snapshot" ELSE "remove")
      BY <3>2, ProceedEffect
    <3> QED BY <1>3, <3>1, <3>2 DEF Begin, Claim, TypeOK
  <2> QED BY <2>1, <2>2 DEF OrderInv, TypeOK, Holding
<1>4. ASSUME NEW r \in Readers, Read(r) \/ Downgrade(r) PROVE OrderInv'
  <2>1. UNCHANGED <<intents, intent, claimed, outcome>>
        /\ \A q \in Requests : pc'[q] = pc[q]
    BY <1>4, ReaderLeaves DEF order, memory
  <2> QED BY <2>1 DEF OrderInv
<1>5. CASE StrayLands \/ UNCHANGED vars
  BY <1>5 DEF StrayLands, vars, order, memory, OrderInv
<1> QED BY <1>1, <1>2, <1>3, <1>4, <1>5, OrderWithin DEF Next, Change

(* A change that fails leaves the key of the latest applied request, or    *)
(* the doubt; a change that is applied becomes the latest (claim, _save).  *)
LEMMA LatestWithin ==
    ASSUME TypeOK, TypeOK', PairInv, OrderInv, LatestInv, NEW q \in Requests,
           \/ Snapshot(q) \/ WriteKey(q) \/ RemoveKey(q)
           \/ Describe(q) \/ Restore(q) \/ BlankDesc(q)
    PROVE  LatestInv'
<1>1. gate = q /\ gate' = q
  BY OrderWithin
     DEF Snapshot, WriteKey, RemoveKey, Describe, Restore, BlankDesc, At, TypeOK, PlacesOK,
         Holding
<1>2. \A p \in Requests \ {q} : pc[p] \notin Holding /\ pc'[p] \notin Holding
  BY <1>1 DEF TypeOK, PlacesOK
<1>3. stray # {} => warned \/ pc[q] = "blank"
  BY <1>2 DEF PairInv, DoubtInv, Holding
<1>4. SUFFICES ASSUME NEW x \in Requests, IsLatest(x)'
               PROVE  /\ ~ InDoubt' /\ pc'[q] \notin {"describe", "restore", "blank"}
                            => key' = Wanted(x)
                      /\ pc'[q] \in {"write", "describe", "restore"} /\ q \in Saves /\ ~ warned'
                            => previous'[q] = Wanted(x)
  BY <1>2, <1>4 DEF LatestInv, Holding, Wanted, Requests
<1>5. CASE outcome'[q] = "applied"
  <2>1. Describe(q) /\ pc'[q] = "release" /\ key' = Wanted(q)
    <3>1. outcome[q] # "applied"
      BY OrderWithin
    <3>2. Describe(q)
      BY <1>5, <3>1, SnapshotEffect, WriteEffect, RemoveEffect, RestoreEffect, BlankEffect
    <3> QED BY <1>5, <3>1, <3>2, DescribeEffect DEF PairInv, BetweenInv
  <2>2. x = q
    <3>1. intent'[q] <= intent'[x] /\ outcome'[x] = "applied"
      BY <1>4, <1>5 DEF IsLatest
    <3>2. /\ intent' = intent
          /\ \A p \in Requests \ {q} :
                outcome'[p] = outcome[p] /\ (outcome[p] = "applied" => intent[p] < intent[q])
      BY OrderWithin
    <3>3. intent[q] \in Nat /\ intent[x] \in Nat
      BY DEF TypeOK
    <3> QED BY <3>1, <3>2, <3>3
  <2> QED BY <2>1, <2>2
<1>6. CASE outcome'[q] # "applied"
  <2>1. IsLatest(x)
    BY <1>4, <1>6, OrderWithin, SameLatest
  <2>2. ~ InDoubt /\ pc[q] \notin {"describe", "restore", "blank"} => key = Wanted(x)
    BY <1>2, <2>1 DEF LatestInv, Holding
  <2>3. q \in Saves /\ pc[q] \in {"write", "describe", "restore"} /\ ~ warned
            => previous[q] = Wanted(x)
    BY <2>1 DEF LatestInv
  <2>4. CASE Snapshot(q)
    BY <1>3, <2>2, <2>4, SnapshotEffect DEF InDoubt
  <2>5. CASE WriteKey(q)
    BY <1>3, <2>2, <2>3, <2>5, WriteEffect DEF InDoubt
  <2>6. CASE RemoveKey(q)
    BY <1>3, <2>2, <2>6, RemoveEffect DEF InDoubt
  <2>7. CASE Describe(q)
    BY <1>6, <2>3, <2>7, DescribeEffect DEF InDoubt
  <2>8. CASE Restore(q)
    BY <2>3, <2>8, RestoreEffect DEF InDoubt
  <2>9. CASE BlankDesc(q)
    BY <2>9, BlankEffect DEF InDoubt
  <2> QED BY <2>4, <2>5, <2>6, <2>7, <2>8, <2>9
<1> QED BY <1>5, <1>6

(* Nothing else touches the key or what was read of it but a write that    *)
(* was given up on, and of that the user was told.                         *)
LEMMA LatestStep ==
    ASSUME TypeOK, TypeOK', PairInv, OrderInv, LatestInv, [Next]_vars
    PROVE  LatestInv'
<1>1. ASSUME NEW q \in Requests, Change(q),
             ~ (\/ Snapshot(q) \/ WriteKey(q) \/ RemoveKey(q)
                \/ Describe(q) \/ Restore(q) \/ BlankDesc(q))
      PROVE  LatestInv'
  <2>1. /\ UNCHANGED <<key, stray, previous>>
        /\ warned' = warned
        /\ \A x \in Requests : outcome'[x] = "applied" <=> outcome[x] = "applied"
        /\ \A x \in Requests : outcome[x] = "applied" => intent'[x] = intent[x]
        /\ \A x \in Requests \ {q} : pc'[x] = pc[x]
        /\ pc[q] \notin {"describe", "restore", "blank"}
        /\ pc'[q] \notin {"write", "describe", "restore", "blank"}
    <3>1. CASE Admit(q) \/ Verify(q) \/ Busy(q) \/ Release(q)
      BY <3>1 DEF Admit, Verify, Busy, Release, stores, memory, order, Goto, At, TypeOK,
                  PlacesOK, OrderInv
    <3>2. CASE Begin(q)
      <4>1. UNCHANGED <<key, stray, previous, intent>> /\ pc[q] = "begin" /\ outcome[q] # "applied"
            /\ \E place : Goto(q, place)
        BY <3>2 DEF Begin, Claim, Settle, Proceed, At, memory, OrderInv
      <4>2. \A x \in Requests \ {q} : pc'[x] = pc[x]
        BY <4>1 DEF Goto, TypeOK, PlacesOK
      <4>3. CASE Settle(q, "credential_superseded")
        BY <4>1, <4>2, <4>3, SettleEffect DEF Doubtful, TypeOK
      <4>4. CASE Proceed(q, IF q \in Saves THEN "snapshot" ELSE "remove")
        BY <4>1, <4>2, <4>4, ProceedEffect
      <4> QED BY <3>2, <4>3, <4>4 DEF Begin, Claim
    <3> QED BY <1>1, <3>1, <3>2 DEF Change
  <2> QED BY <2>1, SameLatest DEF LatestInv, InDoubt, Wanted, Requests
<1>2. ASSUME NEW r \in Readers, Read(r) \/ Downgrade(r) PROVE LatestInv'
  <2>1. UNCHANGED <<key, stray, warned, intent, previous, outcome>>
        /\ \A q \in Requests : pc'[q] = pc[q]
    BY <1>2, ReaderLeaves DEF order, memory
  <2> QED BY <2>1 DEF LatestInv, IsLatest, InDoubt, Wanted, Requests
<1>3. CASE StrayLands
  <2>1. UNCHANGED <<pc, warned, intent, previous, outcome>>
        /\ (warned \/ \E q \in Requests : pc[q] = "blank")
    BY <1>3 DEF StrayLands, order, memory, PairInv, DoubtInv
  <2> QED BY <2>1 DEF LatestInv, IsLatest, InDoubt, Wanted
<1>4. CASE UNCHANGED vars
  BY <1>4 DEF vars, stores, order, memory, LatestInv, IsLatest, InDoubt, Wanted
<1> QED BY <1>1, <1>2, <1>3, <1>4, LatestWithin DEF Next

-----------------------------------------------------------------------------
(* What follows *)

(* What the stores, the snapshots and the order of admission owe to each   *)
(* other is owed at every step of every run (credential_pair.py,           *)
(* credential_view.py, credential_transaction.py).                         *)
THEOREM Invariance == Spec => [](TypeOK /\ Owed)
<1>1. Init => TypeOK /\ Owed
  BY TypeInit, PairInit, OrderInit DEF Owed
<1>2. TypeOK /\ Owed /\ [Next]_vars => (TypeOK /\ Owed)'
  <2> SUFFICES ASSUME TypeOK, Owed, [Next]_vars PROVE (TypeOK /\ Owed)'
    OBVIOUS
  <2>1. TypeOK'
    BY TypeStep
  <2> QED BY <2>1, PairStep, OrderStep, LatestStep DEF Owed
<1> QED BY <1>1, <1>2, PTL DEF Spec

(* A key never goes out with, and is never shown beside, a Workspace ID    *)
(* that came with another one, whatever change is under way and whatever   *)
(* failed before (credential_view.current).                                *)
THEOREM ReadsWhole == Spec => []ReadsNeverMixed
<1>1. TypeOK /\ PairInv => ReadsNeverMixed
  <2> SUFFICES ASSUME PairInv, NEW v \in InUse \cup {cached}, v.sure
               PROVE  ~ Mixed(v.key, v.desc)
    BY DEF ReadsNeverMixed
  <2>1. Fits(v.key, v.desc)
    BY DEF PairInv, ViewInv, InUse
  <2> QED BY <2>1 DEF Fits, Mixed
<1> QED BY <1>1, Invariance, PTL DEF Owed

(* A rejection is never held against a key the provider did not turn down, *)
(* however late it comes back (note_runtime_failure).                      *)
THEOREM DowngradesTrue == Spec => []NoFalseDowngrade
<1>1. TypeOK /\ PairInv => NoFalseDowngrade
  <2> SUFFICES ASSUME TypeOK, PairInv
               PROVE  NoFalseDowngrade
    OBVIOUS
  <2>1. ASSUME NEW v \in InUse, v.sure, Reported(v) = "verification_failed"
        PROVE  v.key \in rejected
    <3>1. v \in Views /\ Fits(v.key, v.desc)
      BY <2>1 DEF InUse, PairInv, ViewInv, Views
    <3> QED BY <2>1, <3>1 DEF Reported, Fits, PairInv, NoteInv
  <2>2. ASSUME gate = Free, Current.sure, Reported(Current) = "verification_failed"
        PROVE  Current.key \in rejected
    <3>1. \A q \in Requests : pc[q] \notin Holding
      BY <2>2, ProcessesAssumption DEF TypeOK, PlacesOK
    <3>2. ~ InDoubt
      BY <2>2 DEF Current
    <3>3. Fits(key, desc)
      BY <3>1, <3>2 DEF PairInv, StoredInv, Holding
    <3> QED BY <2>2, <3>2, <3>3 DEF Current, Reported, Fits, PairInv, NoteInv
  <2> QED BY <2>1, <2>2 DEF NoFalseDowngrade
<1> QED BY <1>1, Invariance, PTL DEF Owed

(* An outcome that calls the two stores consistent leaves them so, unless  *)
(* a write is unconfirmed (PairOutcome).                                   *)
THEOREM OutcomesHonest == Spec => []OutcomeIsHonest
<1>1. TypeOK /\ PairInv => OutcomeIsHonest
  <2> SUFFICES ASSUME TypeOK, PairInv, NEW q \in Requests, pc[q] = "release", ~ InDoubt
               PROVE  ~ Mixed(key, desc)
    BY DEF OutcomeIsHonest
  <2>1. gate = q
    BY DEF TypeOK, PlacesOK, Holding
  <2>2. \A p \in Requests : pc[p] \notin {"describe", "restore", "blank"}
    BY <2>1, OthersOutside DEF Holding
  <2>3. Fits(key, desc)
    BY <2>2 DEF PairInv, StoredInv
  <2> QED BY <2>3 DEF Fits, Mixed
<1> QED BY <1>1, Invariance, PTL DEF Owed

(* Once nobody is changing the pair, and nothing is in doubt, it is the    *)
(* one the latest admitted request that was applied asked for, whole,      *)
(* however many changes came back before it and failed after it (admit,    *)
(* claim).                                                                 *)
THEOREM LatestWins == Spec => []LatestAdmittedWins
<1>1. TypeOK /\ PairInv /\ LatestInv => LatestAdmittedWins
  <2> SUFFICES ASSUME TypeOK, PairInv, LatestInv, gate = Free, ~ InDoubt,
                      NEW q \in Requests, IsLatest(q)
               PROVE  key = Wanted(q) /\ ~ Mixed(key, desc)
    BY DEF LatestAdmittedWins
  <2>1. \A p \in Requests : pc[p] \notin {"describe", "restore", "blank"}
    BY ProcessesAssumption DEF TypeOK, PlacesOK, Holding
  <2>2. Fits(key, desc)
    BY <2>1 DEF PairInv, StoredInv
  <2> QED BY <2>1, <2>2 DEF LatestInv, Fits, Mixed
<1> QED BY <1>1, Invariance, PTL DEF Owed
=============================================================================
