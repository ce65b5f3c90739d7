------------------------ MODULE CredentialStoreProofs -----------------------
(***************************************************************************)
(* Proofs about CredentialStore, for any number of overlapping requests,   *)
(* any secrets and any number of refused backend calls: types and the      *)
(* bookkeeping of jobs for any users, and, for one user's credential, that *)
(* the latest intent wins, that no copy of a replaced key stays, that a    *)
(* replacement never destroys the key, and that "nothing was changed" is   *)
(* true.                                                                   *)
(***************************************************************************)
EXTENDS CredentialStore, FiniteSets, FiniteSetTheorems, SequenceTheorems, TLAPS

Writing == {"apply", "compare", "reconcile"}
Stages == {"off", "check", "find", "delete", "confirm", "yes", "no"}

-----------------------------------------------------------------------------
(* Sequences of jobs *)

(* An empty list of jobs is the one without a first.                       *)
LEMMA NoJobs ==
    ASSUME NEW s \in Seq(Jobs)
    PROVE  s = << >> <=> Len(s) = 0
BY EmptySeq, LenProperties

(* An executor that ends its first job keeps the others in their order.    *)
LEMMA TailOfJobs ==
    ASSUME NEW s \in Seq(Jobs), s # << >>
    PROVE  /\ Len(s) \in Nat \ {0}
           /\ s[1] \in Jobs
           /\ Head(s) = s[1]
           /\ Tail(s) \in Seq(Jobs)
           /\ Len(Tail(s)) = Len(s) - 1
           /\ \A i \in 1..(Len(s) - 1) : Tail(s)[i] = s[i + 1]
           /\ Len(s) = 1 => Tail(s) = << >>
<1>1. Len(s) \in Nat /\ Len(s) # 0
  BY NoJobs, LenProperties
<1>2. s[1] \in Jobs
  BY <1>1, ElementOfSeq
<1>3. /\ Tail(s) \in Seq(Jobs)
      /\ Len(Tail(s)) = Len(s) - 1
      /\ \A i \in 1..Len(Tail(s)) : Tail(s)[i] = s[i + 1]
  BY HeadTailProperties
<1>4. Head(s) = s[1]
  OBVIOUS
<1>5. ASSUME Len(s) = 1 PROVE Tail(s) = << >>
  <2>1. Len(Tail(s)) = 0
    BY <1>3, <1>5
  <2> QED BY <1>3, <2>1, NoJobs
<1> QED BY <1>1, <1>2, <1>3, <1>4, <1>5

(* Queueing puts at most two jobs behind the others (ThreadPoolExecutor).  *)
LEMMA JobsQueued ==
    ASSUME NEW s \in Seq(Jobs), NEW a \in Jobs, NEW b \in Jobs
    PROVE  /\ s \o (<< >> \o <<b>>) \in Seq(Jobs)
           /\ Len(s \o (<< >> \o <<b>>)) = Len(s) + 1
           /\ \A i \in 1..Len(s) : (s \o (<< >> \o <<b>>))[i] = s[i]
           /\ (s \o (<< >> \o <<b>>))[Len(s) + 1] = b
           /\ s \o (<<a>> \o <<b>>) \in Seq(Jobs)
           /\ Len(s \o (<<a>> \o <<b>>)) = Len(s) + 2
           /\ \A i \in 1..Len(s) : (s \o (<<a>> \o <<b>>))[i] = s[i]
           /\ (s \o (<<a>> \o <<b>>))[Len(s) + 1] = a
           /\ (s \o (<<a>> \o <<b>>))[Len(s) + 2] = b
<1>1. /\ <<b>> \in Seq(Jobs) /\ << >> \o <<b>> = <<b>> /\ Len(<<b>>) = 1
      /\ <<b>>[1] = b
  OBVIOUS
<1>2. /\ <<a>> \o <<b>> \in Seq(Jobs)
      /\ Len(<<a>> \o <<b>>) = 2
      /\ (<<a>> \o <<b>>)[1] = a /\ (<<a>> \o <<b>>)[2] = b
  <2>1. <<a>> \in Seq(Jobs) /\ Len(<<a>>) = 1 /\ <<a>>[1] = a
    OBVIOUS
  <2> QED BY <1>1, <2>1, ConcatProperties
<1>3. Len(s) \in Nat
  BY LenProperties
<1> QED BY <1>1, <1>2, <1>3, ConcatProperties

-----------------------------------------------------------------------------
(* The bookkeeping: who has which jobs, who holds the lock *)

(* A save that goes on has read what it replaces.                          *)
BaseInv ==
    \A q \in Requests :
        pc[q] \notin {"idle", "done"} /\ V(q) # NoKey => base[q] # Unknown

(* A worker runs its first job, and only a writing one holds the lock.     *)
WorkInv ==
    /\ \A q \in Requests :
          /\ work[q].stage # "idle" => jobs[q] # << >>
          /\ work[q].stage = "discard" => jobs[q][1].kind = "discard"
          /\ work[q].stage \in Writing => jobs[q][1].kind = "write" /\ lock = q
    /\ lock # Free => work[lock].stage \in Writing

(* The jobs a request has queued by where it stands: its write while it    *)
(* waits, and afterwards never a write that no tidying up follows.         *)
JobsInv ==
    \A q \in Requests :
        /\ pc[q] \in {"idle", "record", "submit", "tidy", "look", "aim", "judge"}
              => jobs[q] = << >>
        /\ pc[q] \in {"wait", "late"} =>
              \/ primary[q] = "pending" /\ Len(jobs[q]) = 1 /\ jobs[q][1].kind = "write"
              \/ primary[q] \in {"ok", "raised"} /\ jobs[q] = << >>
        /\ pc[q] = "done" /\ jobs[q] # << >> => jobs[q][Len(jobs[q])].kind = "discard"
        /\ outcome[q] = "backend_refused" => pc[q] = "done" /\ jobs[q] = << >>

(* A discard is under way only for the request or the job that began it.   *)
DiscardInv ==
    \A q \in Requests :
        discard[q].stage # "off"
            => pc[q] \in {"tidy", "judge"} \/ work[q].stage = "discard"

(* _inflight_mutations counts the jobs that are queued or running.         *)
Queued(u) ==
    {x \in Requests \X Nat : U(x[1]) = u /\ x[2] \in 1..Len(jobs[x[1]])}

InflightInv ==
    \A u \in Users :
        IsFiniteSet(Queued(u)) /\ inflight[u] = Cardinality(Queued(u))

SInv == TypeOK /\ BaseInv /\ WorkInv /\ JobsInv /\ DiscardInv /\ InflightInv

(* What a failed request wants back is a value it can write.               *)
LEMMA RestoreType ==
    ASSUME TypeOK, BaseInv, NEW q \in Requests, pc[q] \notin {"idle", "done"}
    PROVE  RestoreTo(q) \in Values /\ U(q) \in Users /\ V(q) \in Values
BY DEF TypeOK, BaseInv, RestoreTo, Asks, Values, U, V

(* What Queue puts where (_queue_reconciliation, _queue_discard).          *)
LEMMA QueueShape ==
    ASSUME TypeOK, NEW q \in Requests, RestoreTo(q) \in Values,
           NEW reconcile \in BOOLEAN, Queue(q, reconcile)
    PROVE  /\ jobs' \in [Requests -> Seq(Jobs)]
           /\ \A p \in Requests : p # q => jobs'[p] = jobs[p]
           /\ \A i \in 1..Len(jobs[q]) : jobs'[q][i] = jobs[q][i]
           /\ \A i \in (Len(jobs[q]) + 1)..Len(jobs'[q]) :
                  jobs'[q][i].gen = gen[q] /\ jobs'[q][i].value = RestoreTo(q)
           /\ Len(jobs'[q]) = Len(jobs[q]) + IF reconcile THEN 2 ELSE 1
           /\ jobs'[q][Len(jobs'[q])].kind = "discard"
           /\ reconcile => jobs'[q][Len(jobs[q]) + 1].kind = "write"
           /\ inflight' = [inflight EXCEPT ![U(q)] = @ + IF reconcile THEN 2 ELSE 1]
           /\ jobs'[q] # << >>
<1> DEFINE w == [kind |-> "write", gen |-> gen[q], value |-> RestoreTo(q)]
           d == [kind |-> "discard", gen |-> gen[q], value |-> RestoreTo(q)]
<1>1. w \in Jobs /\ d \in Jobs
  BY DEF Jobs, TypeOK
<1>2. jobs[q] \in Seq(Jobs) /\ jobs \in [Requests -> Seq(Jobs)] /\ Len(jobs[q]) \in Nat
  BY LenProperties DEF TypeOK
<1>3. /\ w.gen = gen[q] /\ w.value = RestoreTo(q) /\ w.kind = "write"
      /\ d.gen = gen[q] /\ d.value = RestoreTo(q) /\ d.kind = "discard"
  OBVIOUS
<1>4. CASE reconcile
  <2>1. /\ jobs' = [jobs EXCEPT ![q] = @ \o (<<w>> \o <<d>>)]
        /\ inflight' = [inflight EXCEPT ![U(q)] = @ + Len(<<w>> \o <<d>>)]
    BY <1>4 DEF Queue, Enter
  <2>2. Len(<<w>> \o <<d>>) = 2
    BY <1>1
  <2> HIDE DEF w, d
  <2> QED BY <1>1, <1>2, <1>3, <1>4, <2>1, <2>2, JobsQueued, NoJobs
<1>5. CASE ~ reconcile
  <2>1. /\ jobs' = [jobs EXCEPT ![q] = @ \o (<< >> \o <<d>>)]
        /\ inflight' = [inflight EXCEPT ![U(q)] = @ + Len(<< >> \o <<d>>)]
    BY <1>5 DEF Queue, Enter
  <2>2. Len(<< >> \o <<d>>) = 1
    BY <1>1
  <2> HIDE DEF w, d
  <2> QED BY <1>1, <1>2, <1>3, <1>5, <2>1, <2>2, JobsQueued, NoJobs
<1> QED BY <1>4, <1>5

(* A set with one new element, and with two.                               *)
LEMMA AddOne ==
    ASSUME NEW S, NEW T, NEW x, IsFiniteSet(S), T = S \cup {x}, x \notin S
    PROVE  IsFiniteSet(T) /\ Cardinality(T) = Cardinality(S) + 1
BY FS_AddElement

LEMMA AddTwo ==
    ASSUME NEW S, NEW T, NEW x, NEW y, IsFiniteSet(S), T = (S \cup {x}) \cup {y},
           x \notin S, y \notin S \cup {x}
    PROVE  IsFiniteSet(T) /\ Cardinality(T) = Cardinality(S) + 2
<1> DEFINE R == S \cup {x}
<1>1. IsFiniteSet(R) /\ Cardinality(R) = Cardinality(S) + 1
  BY AddOne
<1>2. IsFiniteSet(T) /\ Cardinality(T) = Cardinality(R) + 1
  BY <1>1, AddOne
<1>3. Cardinality(S) \in Nat
  BY FS_CardinalityType
<1> QED BY <1>1, <1>2, <1>3

(* A job more, or two, and the count with it (_enter).                     *)
LEMMA CountUp ==
    ASSUME TypeOK, InflightInv, NEW q \in Requests, NEW n \in {1, 2},
           UNCHANGED ask,
           jobs' \in [Requests -> Seq(Jobs)],
           \A p \in Requests : p # q => jobs'[p] = jobs[p],
           Len(jobs'[q]) = Len(jobs[q]) + n,
           inflight' = [inflight EXCEPT ![U(q)] = @ + n]
    PROVE  InflightInv' /\ inflight' \in [Users -> Nat]
<1>1. Len(jobs[q]) \in Nat /\ U(q) \in Users /\ inflight \in [Users -> Nat]
  BY LenProperties DEF TypeOK, U, Asks
<1>2. \A p \in Requests : U(p)' = U(p) /\ Len(jobs[p]) \in Nat
  BY LenProperties DEF U, TypeOK
<1> DEFINE x == <<q, Len(jobs[q]) + 1>>
           y == <<q, Len(jobs[q]) + 2>>
<1>3. ASSUME NEW u \in Users, u # U(q) PROVE Queued(u)' = Queued(u)
  BY <1>2, <1>3 DEF Queued
<1>4. CASE n = 1
  <2>1. Queued(U(q))' = Queued(U(q)) \cup {x} /\ x \notin Queued(U(q))
    BY <1>1, <1>2, <1>4 DEF Queued
  <2>2. IsFiniteSet(Queued(U(q))) /\ inflight[U(q)] = Cardinality(Queued(U(q)))
    BY <1>1 DEF InflightInv
  <2> HIDE DEF x, y
  <2>3. /\ IsFiniteSet(Queued(U(q))')
        /\ Cardinality(Queued(U(q))') = Cardinality(Queued(U(q))) + 1
    BY ONLY <2>1, <2>2, AddOne
  <2> QED BY <1>1, <1>2, <1>3, <1>4, <2>2, <2>3 DEF InflightInv
<1>5. CASE n = 2
  <2>1. /\ Queued(U(q))' = (Queued(U(q)) \cup {x}) \cup {y}
        /\ x \notin Queued(U(q)) /\ y \notin Queued(U(q)) \cup {x}
    <3>1. x \notin Queued(U(q)) /\ y \notin Queued(U(q)) /\ x # y
      BY <1>1 DEF Queued
    <3>2. x \in Queued(U(q))' /\ y \in Queued(U(q))'
      BY <1>1, <1>2, <1>5 DEF Queued
    <3>0. \A p \in Requests : 1..Len(jobs[p]) \subseteq 1..Len(jobs'[p])
      <4>1. \A p \in Requests : p # q => 1..Len(jobs[p]) = 1..Len(jobs'[p])
        OBVIOUS
      <4>2. 1..Len(jobs[q]) \subseteq 1..Len(jobs'[q])
        BY <1>1
      <4> QED BY <4>1, <4>2
    <3>3. Queued(U(q)) \subseteq Queued(U(q))'
      BY <1>2, <3>0 DEF Queued
    <3>4. ASSUME NEW z \in Queued(U(q))', z \notin Queued(U(q))
          PROVE  z \in {x, y}
      <4>1. PICK p \in Requests, i \in Nat : z = <<p, i>>
        BY <3>4 DEF Queued
      <4>2. U(p) = U(q) /\ i \in 1..Len(jobs'[p])
        BY <1>2, <3>4, <4>1 DEF Queued
      <4>3. i \notin 1..Len(jobs[p])
        BY <3>4, <4>1, <4>2 DEF Queued
      <4>4. p = q
        BY <4>2, <4>3
      <4>5. i \in {Len(jobs[q]) + 1, Len(jobs[q]) + 2}
        <5>1. i \in 1..(Len(jobs[q]) + 2)
          BY <1>5, <4>2, <4>4
        <5>2. i \notin 1..Len(jobs[q])
          BY <4>3, <4>4
        <5>3. \A l \in Nat, k \in Nat :
                 k \in 1..(l + 2) /\ k \notin 1..l => k = l + 1 \/ k = l + 2
          OBVIOUS
        <5> QED BY ONLY <1>1, <5>1, <5>2, <5>3
      <4> QED BY <4>1, <4>4, <4>5
    <3> HIDE DEF x, y
    <3> QED BY <3>1, <3>2, <3>3, <3>4
  <2>2. IsFiniteSet(Queued(U(q))) /\ inflight[U(q)] = Cardinality(Queued(U(q)))
    BY <1>1 DEF InflightInv
  <2> HIDE DEF x, y
  <2>3. /\ IsFiniteSet(Queued(U(q))')
        /\ Cardinality(Queued(U(q))') = Cardinality(Queued(U(q))) + 2
    BY ONLY <2>1, <2>2, AddTwo
  <2> QED BY <1>1, <1>2, <1>3, <1>5, <2>2, <2>3 DEF InflightInv
<1> QED BY <1>4, <1>5

(* A job that ends leaves the count one less (_leave).                     *)
LEMMA CountDown ==
    ASSUME TypeOK, InflightInv, NEW q \in Requests,
           UNCHANGED ask, jobs[q] # << >>,
           jobs' = [jobs EXCEPT ![q] = Tail(@)],
           inflight' = [inflight EXCEPT ![U(q)] = @ + (0 - 1)]
    PROVE  InflightInv' /\ inflight' \in [Users -> Nat]
<1>1. /\ jobs \in [Requests -> Seq(Jobs)]
      /\ U(q) \in Users /\ inflight \in [Users -> Nat]
  BY DEF TypeOK, U, Asks
<1>2. \A p \in Requests : U(p)' = U(p) /\ Len(jobs[p]) \in Nat
  BY LenProperties DEF U, TypeOK
<1>3. Len(jobs[q]) > 0 /\ Len(jobs'[q]) = Len(jobs[q]) - 1
  BY <1>1, TailOfJobs
<1> DEFINE x == <<q, Len(jobs[q])>>
<1>4. ASSUME NEW u \in Users, u # U(q) PROVE Queued(u)' = Queued(u)
  BY <1>1, <1>2, <1>4 DEF Queued
<1>5. Queued(U(q))' = Queued(U(q)) \ {x} /\ x \in Queued(U(q))
  BY <1>1, <1>2, <1>3 DEF Queued
<1>6. IsFiniteSet(Queued(U(q))) /\ inflight[U(q)] = Cardinality(Queued(U(q)))
  BY <1>1 DEF InflightInv
<1> HIDE DEF x
<1>7. /\ IsFiniteSet(Queued(U(q))')
      /\ Cardinality(Queued(U(q))') = Cardinality(Queued(U(q))) - 1
  BY <1>5, <1>6, FS_RemoveElement
<1>8. inflight[U(q)] # 0
  BY <1>5, <1>6, FS_EmptySet
<1> QED BY <1>1, <1>2, <1>4, <1>6, <1>7, <1>8 DEF InflightInv

(* A step that touches no jobs leaves the count right.                     *)
LEMMA CountStays ==
    ASSUME InflightInv, UNCHANGED <<ask, jobs, inflight>>
    PROVE  InflightInv'
BY DEF InflightInv, Queued, U

(* No job is in flight for a user only when none is queued.                *)
LEMMA NoneInflight ==
    ASSUME TypeOK, InflightInv, NEW q \in Requests, inflight[U(q)] = 0
    PROVE  jobs[q] = << >>
<1>1. U(q) \in Users /\ Len(jobs[q]) \in Nat /\ jobs[q] \in Seq(Jobs)
  BY LenProperties DEF TypeOK, U, Asks
<1>2. Queued(U(q)) = {}
  BY <1>1, FS_EmptySet DEF InflightInv
<1>3. Len(jobs[q]) = 0
  <2> SUFFICES ASSUME Len(jobs[q]) # 0 PROVE FALSE
    OBVIOUS
  <2>1. <<q, 1>> \in Queued(U(q))
    BY <1>1 DEF Queued
  <2> QED BY <1>2, <2>1
<1> QED BY <1>1, <1>3, NoJobs

(* Nothing is queued or held to begin with.                                *)
LEMMA InitSInv == Init => SInv
<1> SUFFICES ASSUME Init PROVE SInv
  OBVIOUS
<1>1. TypeOK
  BY WishAssumption, EmptySeq
     DEF Init, TypeOK, Values, Asks, Intents, Jobs, Idle, Off, Outcomes
<1>2. BaseInv /\ WorkInv /\ JobsInv /\ DiscardInv
  BY DEF Init, BaseInv, WorkInv, JobsInv, DiscardInv, Idle, Off, Free, Writing
<1>3. \A u \in Users : Queued(u) = {}
  <2>1. \A p \in Requests : Len(jobs[p]) = 0
    BY EmptySeq DEF Init
  <2> QED BY <2>1 DEF Queued
<1>4. InflightInv
  BY <1>3, FS_EmptySet DEF Init, InflightInv
<1> QED BY <1>1, <1>2, <1>4 DEF SInv

(* A step that leaves the executors alone keeps the bookkeeping of them.   *)
LEMMA StillJobs ==
    ASSUME SInv, UNCHANGED <<ask, jobs, work, lock, inflight>>
    PROVE  WorkInv' /\ InflightInv'
BY CountStays DEF SInv, WorkInv

(* The number of refusals stays within its bound.                          *)
LEMMA FaultsType ==
    ASSUME TypeOK, NoFault \/ Fault \/ CallFails
    PROVE  faults' \in 0..MaxFaults
BY WishAssumption DEF TypeOK, NoFault, Fault, CallFails

(* The request up to its first job (_mutate_detailed).                     *)
LEMMA OpeningSInv ==
    ASSUME SInv, NEW q \in Requests, ReadBaseline(q) \/ Record(q) \/ Submit(q)
    PROVE  SInv'
<1>0. /\ TypeOK /\ U(q) \in Users /\ V(q) \in Values
      /\ pc[q] \in {"idle", "record", "submit"} /\ jobs[q] = << >>
  BY DEF SInv, TypeOK, Asks, U, V, ReadBaseline, Record, Submit, JobsInv
<1>1. CASE ReadBaseline(q)
  <2>1. Resolve(U(q)) \in Values
    BY <1>0 DEF TypeOK, Resolve, Entries, Values
  <2>2. TypeOK'
    <3>1. base' \in [Requests -> Values \cup {Unknown}]
      BY <1>0, <1>1, <2>1 DEF ReadBaseline, TypeOK
    <3>2. pc' = [pc EXCEPT ![q] = "record"] \/ pc' = [pc EXCEPT ![q] = "done"]
      BY <1>1 DEF ReadBaseline, Goto, Return
    <3>3. outcome' = outcome \/ outcome' = [outcome EXCEPT ![q] = "store_unreadable"]
      BY <1>1 DEF ReadBaseline, Return
    <3>4. faults' \in 0..MaxFaults
      BY <1>0, <1>1, FaultsType DEF ReadBaseline, CallReturns
    <3>5. UNCHANGED <<plain, copy, lock, generation, desired, inflight, ask, seen,
                      gen, claim, primary, jobs, work, discard, lateDelete>>
      BY <1>1 DEF ReadBaseline, backend, intent
    <3> QED BY <1>0, <3>1, <3>2, <3>3, <3>4, <3>5 DEF TypeOK, Outcomes
  <2>3. BaseInv'
    <3>1. base'[q] = base[q] => pc'[q] = "done" \/ V(q) = NoKey \/ base'[q] # Unknown
      BY <1>0, <1>1, <2>1, KeysAssumption
         DEF ReadBaseline, Goto, Return, TypeOK
    <3>2. base'[q] # base[q] => base'[q] # Unknown
      BY <1>0, <1>1, <2>1, KeysAssumption DEF ReadBaseline, TypeOK
    <3>3. \A p \in Requests : p # q => pc'[p] = pc[p] /\ base'[p] = base[p]
      BY <1>0, <1>1 DEF ReadBaseline, TypeOK, Goto, Return
    <3>4. \A p \in Requests : V(p)' = V(p)
      BY <1>1 DEF ReadBaseline, V
    <3> QED BY <3>1, <3>2, <3>3, <3>4 DEF SInv, BaseInv
  <2>4. JobsInv'
    BY <1>0, <1>1 DEF SInv, JobsInv, ReadBaseline, Goto, Return, TypeOK
  <2>5. DiscardInv'
    BY <1>0, <1>1 DEF SInv, DiscardInv, ReadBaseline, Goto, Return, TypeOK
  <2> QED BY <1>1, <2>2, <2>3, <2>4, <2>5, StillJobs DEF SInv, ReadBaseline
<1>2. CASE Record(q)
  <2>1. TypeOK'
    BY <1>0, <1>2 DEF Record, RecordDesired, TypeOK, Goto, Intents, backend
  <2>2. BaseInv' /\ JobsInv' /\ DiscardInv'
    BY <1>0, <1>2
       DEF SInv, BaseInv, JobsInv, DiscardInv, Record, Goto, TypeOK, V
  <2> QED BY <1>2, <2>1, <2>2, StillJobs DEF SInv, Record
<1>3. CASE Submit(q)
  <2> DEFINE s == <<[kind |-> "write", gen |-> gen[q], value |-> V(q)]>>
  <2>1. s \in Seq(Jobs) /\ Len(s) = 1 /\ s[1].kind = "write" /\ s # << >>
    <3>1. [kind |-> "write", gen |-> gen[q], value |-> V(q)] \in Jobs
      BY <1>0 DEF TypeOK, Jobs
    <3> QED BY <3>1, EmptySeq
  <2>2. /\ jobs' = [jobs EXCEPT ![q] = s]
        /\ inflight' = [inflight EXCEPT ![U(q)] = @ + 1]
        /\ pc' = [pc EXCEPT ![q] = "wait"]
        /\ primary' = [primary EXCEPT ![q] = "pending"]
        /\ UNCHANGED <<plain, copy, lock, generation, desired, ask, base, seen,
                       gen, claim, outcome, work, discard, lateDelete, faults>>
    BY <1>3 DEF Submit, Enter, Goto, backend, intent
  <2> HIDE DEF s
  <2>3. InflightInv' /\ inflight' \in [Users -> Nat]
    <3>1. Len(jobs'[q]) = Len(jobs[q]) + 1
      BY <1>0, <2>1, <2>2, EmptySeq DEF TypeOK
    <3> QED BY <1>0, <2>1, <2>2, <3>1, CountUp DEF SInv, TypeOK
  <2>4. TypeOK'
    BY <1>0, <2>1, <2>2, <2>3 DEF TypeOK
  <2>5. BaseInv' /\ DiscardInv'
    BY <1>0, <1>3, <2>2 DEF SInv, BaseInv, DiscardInv, TypeOK, V, Submit
  <2>6. WorkInv'
    <3>1. work[q].stage = "idle"
      BY <1>0 DEF SInv, WorkInv
    <3> QED BY <1>0, <2>2, <3>1 DEF SInv, WorkInv, TypeOK, Writing
  <2>7. JobsInv'
    BY <1>0, <1>3, <2>1, <2>2 DEF SInv, JobsInv, TypeOK, Submit
  <2> QED BY <2>3, <2>4, <2>5, <2>6, <2>7 DEF SInv
<1> QED BY <1>1, <1>2, <1>3

(* The newest value to tidy up towards is a value (_cleanup_survivor).     *)
LEMMA SurvivorType ==
    ASSUME TypeOK, NEW q \in Requests, NEW g, NEW v \in Values
    PROVE  CleanupSurvivor(U(q), g, v) \in Values
BY DEF TypeOK, CleanupSurvivor, U, Asks, Intents

(* Starting a discard keeps its record's type.                             *)
LEMMA DiscardType ==
    ASSUME TypeOK, NEW q \in Requests, NEW v \in Values, StartDiscard(q, v)
    PROVE  /\ discard' \in [Requests -> [stage : Stages, survivor : Values]]
           /\ \A p \in Requests : p # q => discard'[p] = discard[p]
           /\ discard'[q] = [stage |-> IF v = NoKey THEN "find" ELSE "check",
                             survivor |-> v]
BY DEF TypeOK, StartDiscard, Stages

(* Restating an intent keeps generations numbers and intents values        *)
(* (_record_desired_if_latest).                                            *)
LEMMA RecordIfLatestType ==
    ASSUME TypeOK, NEW q \in Requests, RestoreTo(q) \in Values, RecordIfLatest(q)
    PROVE  /\ claim' \in [Requests -> BOOLEAN]
           /\ generation' \in Nat
           /\ desired' \in [Users -> Intents]
           /\ gen' \in [Requests -> Nat]
<1>1. claim' \in [Requests -> BOOLEAN]
  BY DEF TypeOK, RecordIfLatest, Latest
<1>2. CASE Latest(U(q), gen[q])
  <2>1. /\ generation' = generation + 1
        /\ desired' = [desired EXCEPT ![U(q)] = [gen |-> generation + 1,
                                                value |-> RestoreTo(q)]]
        /\ gen' = [gen EXCEPT ![q] = generation + 1]
    BY <1>2 DEF RecordIfLatest, RecordDesired
  <2>2. [gen |-> generation + 1, value |-> RestoreTo(q)] \in Intents
    BY DEF TypeOK, Intents
  <2>3. desired' \in [Users -> Intents]
    BY <2>1, <2>2 DEF TypeOK
  <2>4. generation' \in Nat /\ gen' \in [Requests -> Nat]
    BY <2>1 DEF TypeOK
  <2> QED BY <1>1, <2>3, <2>4
<1>3. CASE ~ Latest(U(q), gen[q])
  <2>1. UNCHANGED <<generation, desired, gen>>
    BY <1>3 DEF RecordIfLatest, intent
  <2> QED BY <1>1, <2>1 DEF TypeOK
<1> QED BY <1>1, <1>2, <1>3

(* What a request does while it waits for its write and tidies up after.   *)
LEMMA WaitingSInv ==
    ASSUME SInv, NEW q \in Requests,
           Landed(q) \/ Tidied(q) \/ TimeOut(q) \/ Refused(q) \/ Look(q) \/ Aim(q)
    PROVE  SInv'
<1>0. /\ TypeOK /\ U(q) \in Users /\ V(q) \in Values
      /\ pc[q] \in {"wait", "tidy", "look", "aim"}
      /\ RestoreTo(q) \in Values
  BY RestoreType
     DEF SInv, TypeOK, Asks, U, V, Landed, Tidied, TimeOut, Refused, Look, Aim
<1>a. UNCHANGED <<plain, copy, lock, inflight, ask, base, primary, jobs, work,
                  lateDelete>>
  BY DEF Landed, Tidied, TimeOut, Refused, Look, Aim, backend
<1>1. CASE Landed(q)
  <2>1. /\ discard' \in [Requests -> [stage : Stages, survivor : Values]]
        /\ \A p \in Requests : p # q => discard'[p] = discard[p]
    BY <1>0, <1>1, SurvivorType, DiscardType DEF Landed
  <2>2. /\ pc[q] = "wait" /\ primary[q] = "ok"
        /\ pc' = [pc EXCEPT ![q] = "tidy"]
        /\ UNCHANGED <<generation, desired, seen, gen, claim, outcome, faults>>
    BY <1>1 DEF Landed, Goto, intent
  <2>3. TypeOK'
    BY <1>0, <1>a, <2>1, <2>2 DEF TypeOK, Stages
  <2>4. BaseInv' /\ JobsInv' /\ DiscardInv'
    BY <1>0, <1>a, <2>1, <2>2 DEF SInv, BaseInv, JobsInv, DiscardInv, TypeOK, V
  <2> QED BY <1>a, <2>3, <2>4, StillJobs DEF SInv
<1>2. CASE Tidied(q)
  <2>1. PICK result \in {"applied", "superseded_copy"} :
           outcome' = [outcome EXCEPT ![q] = result]
    BY <1>2 DEF Tidied, Return
  <2>2. /\ pc[q] = "tidy" /\ discard' = [discard EXCEPT ![q] = Off]
        /\ pc' = [pc EXCEPT ![q] = "done"]
        /\ UNCHANGED <<generation, desired, seen, gen, claim, faults>>
    BY <1>2 DEF Tidied, Return, Goto, intent
  <2>3. TypeOK'
    BY <1>0, <1>a, <2>1, <2>2 DEF TypeOK, Outcomes, Off, Values
  <2>4. BaseInv' /\ JobsInv' /\ DiscardInv'
    BY <1>0, <1>a, <2>1, <2>2
       DEF SInv, BaseInv, JobsInv, DiscardInv, TypeOK, V, Off
  <2> QED BY <1>a, <2>3, <2>4, StillJobs DEF SInv
<1>3. CASE TimeOut(q)
  <2>1. /\ claim' \in [Requests -> BOOLEAN]
        /\ generation' \in Nat
        /\ desired' \in [Users -> Intents]
        /\ gen' \in [Requests -> Nat]
    BY <1>0, <1>3, RecordIfLatestType DEF TimeOut, TypeOK, intent
  <2>2. /\ pc[q] = "wait" /\ pc' = [pc EXCEPT ![q] = "late"]
        /\ UNCHANGED <<seen, outcome, discard, faults>>
    BY <1>3 DEF TimeOut, Goto
  <2>3. TypeOK'
    BY <1>0, <1>a, <2>1, <2>2 DEF TypeOK
  <2>4. BaseInv' /\ JobsInv' /\ DiscardInv'
    BY <1>0, <1>a, <2>2 DEF SInv, BaseInv, JobsInv, DiscardInv, TypeOK, V
  <2> QED BY <1>a, <2>3, <2>4, StillJobs DEF SInv
<1>4. CASE Refused(q)
  <2>1. /\ claim' \in [Requests -> BOOLEAN]
        /\ generation' \in Nat
        /\ desired' \in [Users -> Intents]
        /\ gen' \in [Requests -> Nat]
    BY <1>0, <1>4, RecordIfLatestType DEF Refused
  <2>2. /\ pc[q] = "wait" /\ primary[q] = "raised" /\ pc' = [pc EXCEPT ![q] = "look"]
        /\ UNCHANGED <<seen, outcome, discard, faults>>
    BY <1>4 DEF Refused, Goto
  <2>3. TypeOK'
    BY <1>0, <1>a, <2>1, <2>2 DEF TypeOK
  <2>4. BaseInv' /\ JobsInv' /\ DiscardInv'
    BY <1>0, <1>a, <2>2 DEF SInv, BaseInv, JobsInv, DiscardInv, TypeOK, V
  <2> QED BY <1>a, <2>3, <2>4, StillJobs DEF SInv
<1>5. CASE Look(q)
  <2>1. Resolve(U(q)) \in Values
    BY <1>0 DEF TypeOK, Resolve, Entries, Values
  <2>2. seen' \in [Requests -> Values \cup {Unknown}] /\ faults' \in 0..MaxFaults
    <3>1. seen' = seen \/ seen' = [seen EXCEPT ![q] = Resolve(U(q))]
      BY <1>5 DEF Look
    <3>2. faults' \in 0..MaxFaults
      BY <1>0, <1>5, FaultsType DEF Look, CallReturns
    <3>3. seen' \in [Requests -> Values \cup {Unknown}]
      BY <1>0, <2>1, <3>1 DEF TypeOK
    <3> QED BY <3>2, <3>3
  <2>3. PICK place \in {"aim", "judge"} : pc' = [pc EXCEPT ![q] = place]
    BY <1>5 DEF Look, Goto
  <2>4. pc[q] = "look" /\ UNCHANGED <<generation, desired, gen, claim, outcome, discard>>
    BY <1>5 DEF Look, intent
  <2>5. TypeOK'
    BY <1>0, <1>a, <2>2, <2>3, <2>4 DEF TypeOK
  <2>6. BaseInv' /\ JobsInv' /\ DiscardInv'
    BY <1>0, <1>a, <2>3, <2>4 DEF SInv, BaseInv, JobsInv, DiscardInv, TypeOK, V
  <2> QED BY <1>a, <2>5, <2>6, StillJobs DEF SInv
<1>6. CASE Aim(q)
  <2>1. /\ discard' \in [Requests -> [stage : Stages, survivor : Values]]
        /\ \A p \in Requests : p # q => discard'[p] = discard[p]
    BY <1>0, <1>6, SurvivorType, DiscardType DEF Aim
  <2>2. /\ pc[q] = "aim" /\ pc' = [pc EXCEPT ![q] = "judge"]
        /\ UNCHANGED <<generation, desired, seen, gen, claim, outcome, faults>>
    BY <1>6 DEF Aim, Goto, intent
  <2>3. TypeOK'
    BY <1>0, <1>a, <2>1, <2>2 DEF TypeOK, Stages
  <2>4. BaseInv' /\ JobsInv' /\ DiscardInv'
    BY <1>0, <1>a, <2>1, <2>2 DEF SInv, BaseInv, JobsInv, DiscardInv, TypeOK, V
  <2> QED BY <1>a, <2>3, <2>4, StillJobs DEF SInv
<1> QED BY <1>1, <1>2, <1>3, <1>4, <1>5, <1>6

(* Queueing further jobs on the way out keeps the bookkeeping.             *)
LEMMA QueueSInv ==
    ASSUME SInv, NEW q \in Requests, NEW reconcile \in BOOLEAN, NEW result \in Outcomes,
           Queue(q, reconcile), result # "backend_refused",
           pc[q] \in {"late", "judge"},
           pc' = [pc EXCEPT ![q] = "done"],
           outcome' = [outcome EXCEPT ![q] = result],
           IF pc[q] = "late" THEN discard' = discard
           ELSE discard' = [discard EXCEPT ![q] = Off],
           UNCHANGED <<plain, copy, lock, generation, desired, ask, base, seen, gen,
                       claim, primary, work, lateDelete, faults>>
    PROVE  SInv'
<1>0. TypeOK /\ RestoreTo(q) \in Values /\ Len(jobs[q]) \in Nat
  BY RestoreType, LenProperties DEF SInv, TypeOK
<1>1. /\ jobs' \in [Requests -> Seq(Jobs)]
      /\ \A p \in Requests : p # q => jobs'[p] = jobs[p]
      /\ \A i \in 1..Len(jobs[q]) : jobs'[q][i] = jobs[q][i]
      /\ Len(jobs'[q]) = Len(jobs[q]) + IF reconcile THEN 2 ELSE 1
      /\ jobs'[q][Len(jobs'[q])].kind = "discard"
      /\ jobs'[q] # << >>
      /\ inflight' = [inflight EXCEPT ![U(q)] = @ + IF reconcile THEN 2 ELSE 1]
  BY <1>0, QueueShape
<1>2. InflightInv' /\ inflight' \in [Users -> Nat]
  BY <1>0, <1>1, CountUp DEF SInv
<1>a. /\ discard' \in [Requests -> [stage : Stages, survivor : Values]]
      /\ \A p \in Requests : p # q => discard'[p] = discard[p]
      /\ discard'[q] = IF pc[q] = "late" THEN discard[q] ELSE Off
  <2>1. /\ discard \in [Requests -> [stage : Stages, survivor : Values]]
        /\ Off \in [stage : Stages, survivor : Values]
    BY <1>0 DEF TypeOK, Off, Values, Stages
  <2>2. CASE pc[q] = "late"
    BY <2>1, <2>2
  <2>3. CASE pc[q] # "late"
    BY <2>1, <2>3
  <2> QED BY <2>2, <2>3
<1>3. TypeOK'
  BY <1>0, <1>1, <1>2, <1>a DEF TypeOK, Stages
<1>4. BaseInv' /\ DiscardInv'
  BY <1>0, <1>a DEF SInv, BaseInv, DiscardInv, TypeOK, V, Off
<1>5. WorkInv'
  <2>1. ASSUME work[q].stage # "idle" PROVE jobs'[q][1] = jobs[q][1]
    <3>1. Len(jobs[q]) # 0
      BY <1>0, <2>1, NoJobs DEF SInv, WorkInv, TypeOK
    <3>2. 1 \in 1..Len(jobs[q])
      BY <1>0, <3>1
    <3> QED BY <1>1, <3>2
  <2>2. UNCHANGED <<work, lock>>
    OBVIOUS
  <2>3. \A p \in Requests : work[p].stage # "idle" =>
            jobs'[p] # << >> /\ jobs'[p][1] = jobs[p][1]
    BY <1>1, <2>1 DEF SInv, WorkInv
  <2> QED BY <2>2, <2>3 DEF SInv, WorkInv, Writing
<1>6. JobsInv'
  BY <1>0, <1>1 DEF SInv, JobsInv, TypeOK
<1> QED BY <1>2, <1>3, <1>4, <1>5, <1>6 DEF SInv

(* A request that gives up waiting or has been refused.                    *)
LEMMA GivingUpSInv ==
    ASSUME SInv, NEW q \in Requests, GiveUpWaiting(q) \/ Judge(q)
    PROVE  SInv'
<1>1. CASE GiveUpWaiting(q)
  <2>1. claim[q] \in BOOLEAN
    BY DEF SInv, TypeOK
  <2> QED BY <1>1, <2>1, QueueSInv
          DEF GiveUpWaiting, Return, Goto, Outcomes, backend, intent
<1>2. CASE Judge(q) /\ ~ ProvablyUnchanged(q)
  <2>1. claim[q] \in BOOLEAN
    BY DEF SInv, TypeOK
  <2>2. PICK result \in {"superseded", "unverifiable", "partially_applied"} :
           outcome' = [outcome EXCEPT ![q] = result]
    BY <1>2 DEF Judge, Return
  <2> QED BY <1>2, <2>1, <2>2, QueueSInv
          DEF Judge, Return, Goto, Outcomes, backend, intent
<1>3. CASE Judge(q) /\ ProvablyUnchanged(q)
  <2>1. /\ pc[q] = "judge" /\ jobs[q] = << >>
        /\ pc' = [pc EXCEPT ![q] = "done"]
        /\ outcome' = [outcome EXCEPT ![q] = "backend_refused"]
        /\ discard' = [discard EXCEPT ![q] = Off]
        /\ UNCHANGED <<plain, copy, lock, generation, desired, inflight, ask, base,
                       seen, gen, claim, primary, jobs, work, lateDelete, faults>>
    BY <1>3 DEF Judge, Return, Goto, SInv, JobsInv, backend, intent
  <2>2. TypeOK'
    BY <2>1 DEF SInv, TypeOK, Outcomes, Off, Values
  <2>3. BaseInv' /\ JobsInv' /\ DiscardInv'
    BY <2>1 DEF SInv, BaseInv, JobsInv, DiscardInv, TypeOK, V, Off
  <2> QED BY <2>1, <2>2, <2>3, StillJobs DEF SInv
<1> QED BY <1>1, <1>2, <1>3

(* Tidying up, by a request or a worker, moves its own progress only.      *)
LEMMA DiscardShape ==
    ASSUME SInv, NEW q \in Requests, DiscardStep(q)
    PROVE  /\ \E stage \in Stages \ {"off"} :
                  discard' = [discard EXCEPT ![q].stage = stage]
           /\ discard[q].stage \in {"check", "find", "delete", "confirm"}
           /\ faults' \in 0..MaxFaults
           /\ \A u \in Users : copy'[u] \in {copy[u], NoKey}
           /\ copy' \in [Users -> Values]
           /\ lateDelete' \subseteq Users
           /\ lateDelete \subseteq lateDelete'
           /\ UNCHANGED <<plain, lock, intent, inflight, request, primary, jobs, work>>
<1>0. TypeOK /\ U(q) \in Users
  BY DEF SInv, TypeOK, U, Asks
<1>1. ASSUME NEW stage, NEW next \in Stages \ {"off"},
             stage \in {"check", "find", "confirm"}, DiscardLooks(q, stage, next)
      PROVE  /\ \E s \in Stages \ {"off"} : discard' = [discard EXCEPT ![q].stage = s]
             /\ discard[q].stage \in {"check", "find", "delete", "confirm"}
             /\ faults' \in 0..MaxFaults
             /\ UNCHANGED <<backend, lock, intent, inflight, request, primary, jobs,
                            work, lateDelete>>
  <2>1. faults' \in 0..MaxFaults
    BY <1>0, <1>1, FaultsType DEF DiscardLooks, CallReturns
  <2>2. discard' = [discard EXCEPT ![q].stage = next]
        \/ discard' = [discard EXCEPT ![q].stage = "no"]
    BY <1>1 DEF DiscardLooks, Discarded
  <2> QED BY <1>1, <2>1, <2>2 DEF DiscardLooks, Stages
<1>2. CASE DiscardCheck(q)
  <2>1. (IF Resolve(U(q)) = discard[q].survivor THEN "find" ELSE "no") \in Stages \ {"off"}
    BY DEF Stages
  <2> QED BY <1>0, <1>1, <1>2, <2>1 DEF DiscardCheck, backend, TypeOK
<1>3. CASE DiscardFind(q)
  <2>1. (IF copy[U(q)] = NoKey THEN "yes" ELSE "delete") \in Stages \ {"off"}
    BY DEF Stages
  <2> QED BY <1>0, <1>1, <1>3, <2>1 DEF DiscardFind, backend, TypeOK
<1>4. CASE DiscardConfirm(q)
  <2>1. (IF copy[U(q)] = NoKey THEN "yes" ELSE "no") \in Stages \ {"off"}
    BY DEF Stages
  <2> QED BY <1>0, <1>1, <1>4, <2>1 DEF DiscardConfirm, backend, TypeOK
<1>5. CASE DiscardDelete(q)
  <2>1. faults' \in 0..MaxFaults
    BY <1>0, <1>5, FaultsType DEF DiscardDelete, CallReturns
  <2>2. discard' = [discard EXCEPT ![q].stage = "confirm"]
        \/ discard' = [discard EXCEPT ![q].stage = "no"]
    BY <1>5 DEF DiscardDelete, Discarded
  <2>3. copy' \in {copy, [copy EXCEPT ![U(q)] = NoKey]}
    BY <1>5 DEF DiscardDelete
  <2>4. \A u \in Users : copy'[u] \in {copy[u], NoKey}
    BY <1>0, <2>3 DEF TypeOK
  <2>5. copy' \in [Users -> Values]
    BY <1>0, <2>3 DEF TypeOK, Values
  <2>6. lateDelete' \subseteq Users /\ lateDelete \subseteq lateDelete'
    BY <1>0, <1>5 DEF DiscardDelete, TypeOK
  <2>7. /\ discard[q].stage = "delete"
        /\ UNCHANGED <<plain, lock, intent, inflight, request, primary, jobs, work>>
    BY <1>5 DEF DiscardDelete
  <2> QED BY <2>1, <2>2, <2>4, <2>5, <2>6, <2>7 DEF Stages
<1> QED BY <1>2, <1>3, <1>4, <1>5 DEF DiscardStep

(* A step of tidying up keeps the bookkeeping.                             *)
LEMMA DiscardSInv ==
    ASSUME SInv, NEW q \in Requests, DiscardStep(q)
    PROVE  SInv'
<1>1. PICK stage \in Stages \ {"off"} : discard' = [discard EXCEPT ![q].stage = stage]
  BY DiscardShape
<1>2. /\ discard[q].stage \in {"check", "find", "delete", "confirm"}
      /\ faults' \in 0..MaxFaults
      /\ copy' \in [Users -> Values]
      /\ lateDelete' \subseteq Users
      /\ UNCHANGED <<plain, lock, generation, desired, inflight, pc, ask, base, seen,
                     gen, claim, outcome, primary, jobs, work>>
  BY DiscardShape DEF intent, request
<1>3. TypeOK'
  <2>1. discard' \in [Requests -> [stage : Stages, survivor : Values]]
    BY <1>1 DEF SInv, TypeOK, Stages
  <2> QED BY <1>2, <2>1 DEF SInv, TypeOK, Stages
<1>4. BaseInv' /\ JobsInv'
  BY <1>2 DEF SInv, BaseInv, JobsInv, V
<1>5. DiscardInv'
  BY <1>1, <1>2 DEF SInv, DiscardInv, TypeOK
<1> QED BY <1>2, <1>3, <1>4, <1>5, StillJobs DEF SInv

(* So does a deletion that comes late.                                     *)
LEMMA LateDeleteSInv ==
    ASSUME SInv, NEW u \in Users, LateDelete(u)
    PROVE  SInv'
<1>1. /\ copy' = [copy EXCEPT ![u] = NoKey]
      /\ lateDelete' = lateDelete \ {u}
      /\ UNCHANGED <<plain, lock, generation, desired, inflight, pc, ask, base, seen,
                     gen, claim, outcome, primary, jobs, work, discard, faults>>
  BY DEF LateDelete, CallReturns, NoFault, intent, request
<1>2. TypeOK'
  BY <1>1 DEF SInv, TypeOK, Values
<1>3. BaseInv' /\ JobsInv' /\ DiscardInv'
  BY <1>1 DEF SInv, BaseInv, JobsInv, DiscardInv, V
<1> QED BY <1>1, <1>2, <1>3, StillJobs DEF SInv

-----------------------------------------------------------------------------
(* The worker *)

(* What the end of a job changes (ThreadPoolExecutor's next).              *)
LEMMA FinishShape ==
    ASSUME SInv, NEW q \in Requests, work[q].stage # "idle",
           NEW how \in {"ok", "raised"}, Finish(q, how)
    PROVE  /\ jobs[q] # << >>
           /\ jobs' \in [Requests -> Seq(Jobs)]
           /\ \A p \in Requests : p # q => jobs'[p] = jobs[p]
           /\ Len(jobs[q]) \in Nat \ {0}
           /\ Len(jobs'[q]) = Len(jobs[q]) - 1
           /\ Len(jobs[q]) = 1 => jobs'[q] = << >>
           /\ \A i \in 1..(Len(jobs[q]) - 1) : jobs'[q][i] = jobs[q][i + 1]
           /\ jobs' = [jobs EXCEPT ![q] = Tail(@)]
           /\ inflight' = [inflight EXCEPT ![U(q)] = @ + (0 - 1)]
           /\ work' = [work EXCEPT ![q] = Idle]
           /\ primary' \in [Requests -> {"none", "pending", "ok", "raised"}]
           /\ \A p \in Requests : p # q => primary'[p] = primary[p]
           /\ primary'[q] = IF primary[q] = "pending" THEN how ELSE primary[q]
<1>1. /\ TypeOK /\ jobs[q] # << >> /\ jobs[q] \in Seq(Jobs)
      /\ jobs \in [Requests -> Seq(Jobs)]
  BY DEF SInv, WorkInv, TypeOK
<1>2. /\ work' = [work EXCEPT ![q] = Idle]
      /\ jobs' = [jobs EXCEPT ![q] = Tail(@)]
      /\ inflight' = [inflight EXCEPT ![U(q)] = @ + (0 - 1)]
      /\ primary' = [primary EXCEPT ![q] = IF @ = "pending" THEN how ELSE @]
  BY DEF Finish, Enter
<1>3. /\ jobs' \in [Requests -> Seq(Jobs)]
      /\ \A p \in Requests : p # q => jobs'[p] = jobs[p]
      /\ jobs'[q] = Tail(jobs[q])
  BY <1>1, <1>2, TailOfJobs
<1>4. /\ primary' \in [Requests -> {"none", "pending", "ok", "raised"}]
      /\ \A p \in Requests : p # q => primary'[p] = primary[p]
      /\ primary'[q] = IF primary[q] = "pending" THEN how ELSE primary[q]
  BY <1>1, <1>2 DEF TypeOK
<1> QED BY <1>1, <1>2, <1>3, <1>4, TailOfJobs

(* The end of a job, however it came, keeps the bookkeeping.               *)
LEMMA FinishSInv ==
    ASSUME SInv, NEW q \in Requests, work[q].stage # "idle",
           NEW how \in {"ok", "raised"}, Finish(q, how),
           plain' \in Entries \cup {NoEntry}, copy' \in [Users -> Values],
           faults' \in 0..MaxFaults,
           IF work[q].stage = "discard"
           THEN lock' = lock /\ discard' = [discard EXCEPT ![q] = Off]
           ELSE lock' = Free /\ discard' = discard,
           UNCHANGED <<generation, desired, ask, base, seen, gen, claim, outcome, pc,
                       lateDelete>>
    PROVE  SInv'
<1>1. /\ jobs[q] # << >>
      /\ jobs' \in [Requests -> Seq(Jobs)]
      /\ \A p \in Requests : p # q => jobs'[p] = jobs[p]
      /\ Len(jobs[q]) \in Nat \ {0}
      /\ Len(jobs'[q]) = Len(jobs[q]) - 1
      /\ Len(jobs[q]) = 1 => jobs'[q] = << >>
      /\ \A i \in 1..(Len(jobs[q]) - 1) : jobs'[q][i] = jobs[q][i + 1]
      /\ jobs' = [jobs EXCEPT ![q] = Tail(@)]
      /\ inflight' = [inflight EXCEPT ![U(q)] = @ + (0 - 1)]
      /\ work' = [work EXCEPT ![q] = Idle]
      /\ primary' \in [Requests -> {"none", "pending", "ok", "raised"}]
      /\ \A p \in Requests : p # q => primary'[p] = primary[p]
      /\ primary'[q] = IF primary[q] = "pending" THEN how ELSE primary[q]
  BY FinishShape
<1>2. InflightInv' /\ inflight' \in [Users -> Nat]
  BY <1>1, CountDown DEF SInv
<1>3. /\ discard' \in [Requests -> [stage : Stages, survivor : Values]]
      /\ \A p \in Requests : discard'[p] = discard[p] \/ discard'[p] = Off
      /\ \A p \in Requests : p # q => discard'[p] = discard[p]
      /\ work[q].stage = "discard" => discard'[q] = Off
  <2>1. /\ Off \in [stage : Stages, survivor : Values]
        /\ discard \in [Requests -> [stage : Stages, survivor : Values]]
    BY DEF Off, Stages, Values, SInv, TypeOK
  <2>2. CASE work[q].stage = "discard"
    <3>1. discard' = [discard EXCEPT ![q] = Off]
      BY <2>2
    <3> QED BY <2>1, <2>2, <3>1
  <2>3. CASE work[q].stage # "discard"
    <3>1. discard' = discard
      BY <2>3
    <3> QED BY <2>1, <2>3, <3>1
  <2> QED BY <2>2, <2>3
<1>4. TypeOK'
  <2>1. lock' \in Requests \cup {Free}
    BY DEF SInv, TypeOK
  <2>2. work' \in [Requests -> [stage : {"idle", "apply", "compare", "reconcile",
                                         "discard"},
                                gen : Nat, value : Values]]
    BY <1>1 DEF SInv, TypeOK, Idle, Values
  <2> QED BY <1>1, <1>2, <1>3, <2>1, <2>2 DEF SInv, TypeOK, Stages
<1>5. BaseInv'
  BY DEF SInv, BaseInv, V
<1>6. DiscardInv'
  <2>1. \A p \in Requests : p # q => work'[p] = work[p]
    BY <1>1 DEF SInv, TypeOK
  <2>2. Off.stage = "off"
    BY DEF Off
  <2>3. discard'[q].stage # "off" => pc[q] \in {"tidy", "judge"}
    <3>1. CASE work[q].stage = "discard"
      BY <1>3, <2>2, <3>1
    <3>2. CASE work[q].stage # "discard"
      <4>1. discard' = discard
        BY <3>2
      <4> QED BY <3>2, <4>1 DEF SInv, DiscardInv
    <3> QED BY <3>1, <3>2
  <2>4. \A p \in Requests : p # q /\ discard'[p].stage # "off"
            => pc[p] \in {"tidy", "judge"} \/ work'[p].stage = "discard"
    BY <1>3, <2>1 DEF SInv, DiscardInv
  <2> QED BY <2>3, <2>4 DEF DiscardInv
<1>7. WorkInv'
  <2>1. work'[q].stage = "idle" /\ \A p \in Requests : p # q => work'[p] = work[p]
    BY <1>1 DEF SInv, TypeOK, Idle
  <2>2. CASE work[q].stage = "discard"
    BY <1>1, <2>1, <2>2 DEF SInv, WorkInv, Writing
  <2>3. CASE work[q].stage # "discard"
    <3>1. lock = q /\ lock' = Free
      BY <2>3 DEF SInv, WorkInv, TypeOK, Writing
    <3> QED BY <1>1, <2>1, <3>1 DEF SInv, WorkInv, Writing
  <2> QED BY <2>2, <2>3
<1>8. JobsInv'
  <2>1. pc[q] \in {"wait", "late"} =>
            primary'[q] \in {"ok", "raised"} /\ jobs'[q] = << >>
    BY <1>1 DEF SInv, JobsInv
  <2>2. pc[q] = "done" /\ jobs'[q] # << >> => jobs'[q][Len(jobs'[q])].kind = "discard"
    <3> SUFFICES ASSUME pc[q] = "done", jobs'[q] # << >>
                 PROVE  jobs'[q][Len(jobs'[q])].kind = "discard"
      OBVIOUS
    <3>1. Len(jobs[q]) # 1 /\ Len(jobs'[q]) \in 1..(Len(jobs[q]) - 1)
      BY <1>1
    <3>2. jobs'[q][Len(jobs'[q])] = jobs[q][Len(jobs'[q]) + 1]
      BY <1>1, <3>1
    <3>3. Len(jobs'[q]) + 1 = Len(jobs[q])
      BY <1>1
    <3> QED BY <1>1, <3>2, <3>3 DEF SInv, JobsInv
  <2>3. pc[q] \in {"wait", "late", "done"}
    BY <1>1 DEF SInv, JobsInv, TypeOK
  <2>4. outcome[q] # "backend_refused"
    BY <1>1 DEF SInv, JobsInv
  <2> QED BY <1>1, <2>1, <2>2, <2>3, <2>4 DEF SInv, JobsInv
<1> QED BY <1>2, <1>4, <1>5, <1>6, <1>7, <1>8 DEF SInv

(* A write of the backend, complete or not, leaves entries in its targets  *)
(* (set_password, delete_password).                                        *)
LEMMA ApplyType ==
    ASSUME TypeOK, NEW u \in Users, NEW v \in Values, Apply(u, v) \/ ApplyRaises(u, v)
    PROVE  plain' \in Entries \cup {NoEntry} /\ copy' \in [Users -> Values]
<1>1. /\ AfterCopy \in [Users -> Values]
      /\ WithoutPlain(u) \in Entries \cup {NoEntry}
      /\ [copy EXCEPT ![u] = NoKey] \in [Users -> Values]
      /\ v # NoKey => [user |-> u, key |-> v] \in Entries
  BY DEF TypeOK, AfterCopy, WithoutPlain, Entries, Values
<1>2. CASE v = NoKey
  BY <1>1, <1>2 DEF Apply, ApplyRaises, DeletePassword, DeletePasswordRaises,
                    TypeOK, backend
<1>3. CASE v # NoKey
  BY <1>1, <1>3 DEF Apply, ApplyRaises, SetPassword, SetPasswordRaises,
                    TypeOK, backend
<1> QED BY <1>2, <1>3

(* A worker's steps (_mutation_worker, _discard_worker).                   *)
LEMMA WorkerSInv ==
    ASSUME SInv, NEW q \in Requests, WorkerStep(q)
    PROVE  SInv'
<1>0. /\ TypeOK /\ U(q) \in Users /\ work[q].value \in Values /\ work[q].gen \in Nat
      /\ jobs[q] \in Seq(Jobs)
  BY DEF SInv, TypeOK, U, Asks
<1>1. CASE Take(q)
  <2>1. /\ jobs[q] # << >> /\ work[q].stage = "idle"
        /\ UNCHANGED <<plain, copy, generation, desired, inflight, pc, ask, base, seen,
                       gen, claim, outcome, primary, jobs, lateDelete, faults>>
    BY <1>1 DEF Take, backend, intent, request
  <2>2. /\ Head(jobs[q]) = jobs[q][1] /\ jobs[q][1] \in Jobs
        /\ jobs[q][1].gen \in Nat /\ jobs[q][1].value \in Values
    BY <1>0, <2>1, TailOfJobs DEF Jobs
  <2>3. pc[q] \in {"wait", "late", "done"}
    BY <2>1 DEF SInv, JobsInv, TypeOK
  <2>4. CASE jobs[q][1].kind = "write"
    <3>1. /\ lock = Free /\ lock' = q /\ discard' = discard
          /\ work' = [work EXCEPT ![q] = [stage |-> "apply", gen |-> jobs[q][1].gen,
                                          value |-> jobs[q][1].value]]
      BY <1>1, <2>2, <2>4 DEF Take, Working
    <3>2. TypeOK'
      BY <1>0, <2>1, <2>2, <3>1 DEF TypeOK
    <3>3. BaseInv' /\ JobsInv' /\ InflightInv'
      BY <2>1, CountStays DEF SInv, BaseInv, JobsInv, V
    <3>4. DiscardInv'
      BY <1>0, <2>1, <3>1 DEF SInv, DiscardInv, TypeOK
    <3>5. WorkInv'
      BY <1>0, <2>1, <2>4, <3>1, FreeAssumption DEF SInv, WorkInv, TypeOK, Writing
    <3> QED BY <3>2, <3>3, <3>4, <3>5 DEF SInv
  <2>5. CASE jobs[q][1].kind # "write"
    <3>1. /\ StartDiscard(q, CleanupSurvivor(U(q), jobs[q][1].gen, jobs[q][1].value))
          /\ work' = [work EXCEPT ![q] = [stage |-> "discard", gen |-> jobs[q][1].gen,
                                          value |-> jobs[q][1].value]]
          /\ lock' = lock
      BY <1>1, <2>2, <2>5 DEF Take, Working
    <3>2. /\ discard' \in [Requests -> [stage : Stages, survivor : Values]]
          /\ \A p \in Requests : p # q => discard'[p] = discard[p]
      BY <1>0, <2>2, <3>1, SurvivorType, DiscardType
    <3>3. TypeOK'
      BY <1>0, <2>1, <2>2, <3>1, <3>2 DEF TypeOK, Stages
    <3>4. BaseInv' /\ JobsInv' /\ InflightInv'
      BY <2>1, CountStays DEF SInv, BaseInv, JobsInv, V
    <3>5. DiscardInv'
      BY <1>0, <2>1, <3>1, <3>2 DEF SInv, DiscardInv, TypeOK
    <3>6. WorkInv'
      BY <1>0, <2>1, <2>2, <2>5, <3>1 DEF SInv, WorkInv, TypeOK, Writing, Jobs
    <3> QED BY <3>3, <3>4, <3>5, <3>6 DEF SInv
  <2> QED BY <2>4, <2>5
<1>2. CASE ApplySucceeds(q)
  <2>1. /\ work[q].stage \in {"apply", "reconcile"}
        /\ work' = [work EXCEPT ![q] = [stage |-> "compare", gen |-> work[q].gen,
                                        value |-> work[q].value]]
        /\ UNCHANGED <<lock, generation, desired, inflight, pc, ask, base, seen, gen,
                       claim, outcome, primary, jobs, discard, lateDelete, faults>>
    BY <1>2 DEF ApplySucceeds, Working, intent, request
  <2>2. TypeOK'
    BY <1>0, <1>2, <2>1, ApplyType DEF ApplySucceeds, TypeOK
  <2>3. BaseInv' /\ JobsInv' /\ InflightInv'
    BY <2>1, CountStays DEF SInv, BaseInv, JobsInv, V
  <2>4. DiscardInv'
    BY <1>0, <2>1 DEF SInv, DiscardInv, TypeOK
  <2>5. WorkInv'
    BY <1>0, <2>1 DEF SInv, WorkInv, TypeOK, Writing
  <2> QED BY <2>2, <2>3, <2>4, <2>5 DEF SInv
<1>3. CASE ApplyFails(q)
  <2>1. faults' \in 0..MaxFaults
    BY <1>0, <1>3, FaultsType DEF ApplyFails
  <2>2. plain' \in Entries \cup {NoEntry} /\ copy' \in [Users -> Values]
    BY <1>0, <1>3, ApplyType DEF ApplyFails
  <2> DEFINE how == IF work[q].stage = "apply" THEN "raised" ELSE "ok"
  <2>3. how \in {"ok", "raised"} /\ Finish(q, how)
    BY <1>3 DEF ApplyFails
  <2> HIDE DEF how
  <2> QED BY <1>3, <2>1, <2>2, <2>3, FinishSInv DEF ApplyFails, intent, request
<1>4. CASE Compare(q)
  <2>1. CASE desired[U(q)].gen = work[q].gen
    BY <1>0, <1>4, <2>1, FinishSInv
       DEF Compare, TypeOK, intent, request, backend
  <2>2. CASE desired[U(q)].gen # work[q].gen
    <3>1. /\ work[q].stage = "compare"
          /\ work' = [work EXCEPT ![q] = [stage |-> "reconcile",
                                          gen |-> desired[U(q)].gen,
                                          value |-> desired[U(q)].value]]
          /\ UNCHANGED <<plain, copy, lock, generation, desired, inflight, pc, ask,
                         base, seen, gen, claim, outcome, primary, jobs, discard,
                         lateDelete, faults>>
      BY <1>4, <2>2 DEF Compare, Working, intent, request, backend
    <3>2. TypeOK'
      BY <1>0, <3>1 DEF TypeOK, Intents
    <3>3. BaseInv' /\ JobsInv' /\ InflightInv'
      BY <3>1, CountStays DEF SInv, BaseInv, JobsInv, V
    <3>4. DiscardInv'
      BY <1>0, <3>1 DEF SInv, DiscardInv, TypeOK
    <3>5. WorkInv'
      BY <1>0, <3>1 DEF SInv, WorkInv, TypeOK, Writing
    <3> QED BY <3>2, <3>3, <3>4, <3>5 DEF SInv
  <2> QED BY <2>1, <2>2
<1>5. CASE DiscardEnds(q)
  BY <1>0, <1>5, FinishSInv DEF DiscardEnds, TypeOK, intent, request, backend
<1> QED BY <1>1, <1>2, <1>3, <1>4, <1>5 DEF WorkerStep

(* Every step keeps the bookkeeping.                                       *)
LEMMA SInvStep == SInv /\ [Next]_vars => SInv'
<1> SUFFICES ASSUME SInv, [Next]_vars PROVE SInv'
  OBVIOUS
<1>1. ASSUME NEW q \in Requests, RequestStep(q) \/ ReadBaseline(q)
      PROVE  SInv'
  BY <1>1, OpeningSInv, WaitingSInv, GivingUpSInv DEF RequestStep
<1>2. CASE UNCHANGED vars
  <2>1. TypeOK'
    BY <1>2 DEF SInv, TypeOK, vars, backend, intent, request
  <2>2. BaseInv' /\ JobsInv' /\ DiscardInv'
    BY <1>2 DEF SInv, BaseInv, JobsInv, DiscardInv, V, vars, backend, intent, request
  <2> QED BY <1>2, <2>1, <2>2, StillJobs DEF SInv, vars, backend, intent, request
<1> QED BY <1>1, <1>2, DiscardSInv, WorkerSInv, LateDeleteSInv DEF Next

(* Every variable holds a value of the code, and the in-flight counter     *)
(* counts exactly the jobs that are queued or running - which is what      *)
(* "nothing was changed" is concluded from (_inflight_mutations).          *)
THEOREM Bookkeeping == Spec => []SInv
BY InitSInv, SInvStep, PTL DEF Spec

(* The types alone.                                                        *)
THEOREM TypeCorrect == Spec => []TypeOK
<1>1. SInv => TypeOK
  BY DEF SInv
<1> QED BY <1>1, Bookkeeping, PTL

-----------------------------------------------------------------------------
(* One user: whose intent is whose *)

(* The one premise of what follows.  Two users share the backend's plain   *)
(* target, and then none of it holds (README, counterexamples).            *)
OneUser == \A u, v \in Users : u = v

(* Then every request and the plain entry are that user's.                 *)
LEMMA Alone ==
    ASSUME OneUser, TypeOK, NEW u \in Users
    PROVE  /\ \A q \in Requests : U(q) = u
           /\ plain # NoEntry => plain.user = u /\ plain.key \in Keys
           /\ Resolve(u) = IF plain # NoEntry THEN plain.key ELSE copy[u]
           /\ Resolve(u) \in Values
BY DEF OneUser, TypeOK, U, Asks, Entries, Resolve, Values

(* A generation and a value that go together: the generation was given     *)
(* out, and if it is the newest the value is what is wanted.               *)
Sound(g, v, newest, wanted) ==
    /\ g \in 1..newest
    /\ \A u \in Users : wanted[u].gen = g => wanted[u].value = v

(* Whoever acts under a generation - a request, a queued job, a running    *)
(* one - acts on the value that was recorded with it.                      *)
GenInv == \A u \in Users : desired[u].gen = generation

MeaningInv ==
    \A q \in Requests :
        /\ pc[q] \in {"submit", "wait"} => Sound(gen[q], V(q), generation, desired)
        /\ pc[q] \in {"late", "look", "aim", "judge"}
              => Sound(gen[q], RestoreTo(q), generation, desired)
        /\ \A i \in 1..Len(jobs[q]) :
              Sound(jobs[q][i].gen, jobs[q][i].value, generation, desired)
        /\ work[q].stage \in Writing
              => Sound(work[q].gen, work[q].value, generation, desired)

MInv == GenInv /\ MeaningInv

(* A new intent has a generation and a value no older one is confused with *)
(* (_record_desired).                                                      *)
LEMMA NewIntent ==
    ASSUME TypeOK, OneUser, GenInv, NEW q \in Requests, NEW w \in Values,
           RecordDesired(U(q), w)
    PROVE  /\ GenInv'
           /\ generation' = generation + 1 /\ generation \in Nat
           /\ Sound(generation + 1, w, generation', desired')
           /\ \A u \in Users : desired'[u].value = w
           /\ \A g, v : Sound(g, v, generation, desired)
                            => Sound(g, v, generation', desired')
<1>1. generation' = generation + 1 /\ generation \in Nat
  BY DEF RecordDesired, TypeOK
<1>2. \A u \in Users : desired'[u].gen = generation + 1 /\ desired'[u].value = w
  BY Alone DEF RecordDesired, TypeOK
<1>3. generation + 1 \in 1..generation'
  BY <1>1
<1>4. ASSUME NEW g, NEW v, Sound(g, v, generation, desired)
      PROVE  Sound(g, v, generation', desired')
  <2>1. g \in 1..generation
    BY <1>4 DEF Sound
  <2>2. g \in 1..generation' /\ g # generation + 1
    BY <1>1, <2>1
  <2> QED BY <1>2, <2>2 DEF Sound
<1> QED BY <1>1, <1>2, <1>3, <1>4 DEF Sound, GenInv

(* Restating an intent, or finding oneself overtaken, leaves the request   *)
(* acting on what it wants back (_record_desired_if_latest).               *)
LEMMA IntentRestated ==
    ASSUME TypeOK, OneUser, GenInv, NEW q \in Requests, RestoreTo(q) \in Values,
           Sound(gen[q], V(q), generation, desired), RecordIfLatest(q)
    PROVE  /\ GenInv'
           /\ Sound(gen'[q], RestoreTo(q), generation', desired')
           /\ \A p \in Requests : p # q => gen'[p] = gen[p]
           /\ \A g, v : Sound(g, v, generation, desired)
                            => Sound(g, v, generation', desired')
<1>1. CASE Latest(U(q), gen[q])
  <2>1. RecordDesired(U(q), RestoreTo(q)) /\ gen' = [gen EXCEPT ![q] = generation + 1]
    BY <1>1 DEF RecordIfLatest
  <2>2. gen'[q] = generation + 1 /\ \A p \in Requests : p # q => gen'[p] = gen[p]
    BY <2>1 DEF TypeOK
  <2> QED BY <2>1, <2>2, NewIntent
<1>2. CASE ~ Latest(U(q), gen[q])
  <2>1. UNCHANGED <<generation, desired, gen>>
    BY <1>2 DEF RecordIfLatest, intent
  <2>2. \A u \in Users : desired[u].gen # gen[q]
    BY <1>2, Alone DEF Latest
  <2> QED BY <2>1, <2>2 DEF Sound, GenInv
<1> QED BY <1>1, <1>2

(* Nobody acts on anything to begin with.                                  *)
LEMMA InitMInv == Init => MInv
BY EmptySeq DEF Init, MInv, GenInv, MeaningInv, Idle, Writing

(* Every step keeps generations and values together.                       *)
LEMMA MInvStep ==
    ASSUME SInv, OneUser, MInv, [Next]_vars
    PROVE  MInv'
<1>0. TypeOK /\ BaseInv /\ GenInv /\ MeaningInv
  BY DEF SInv, MInv
<1>1. ASSUME NEW q \in Requests, ReadBaseline(q)
      PROVE  MInv'
  <2>1. /\ pc[q] = "idle"
        /\ \A p \in Requests : p # q => pc'[p] = pc[p] /\ base'[p] = base[p]
        /\ pc'[q] \in {"record", "done"}
        /\ UNCHANGED <<generation, desired, gen, ask, jobs, work>>
    BY <1>0, <1>1 DEF ReadBaseline, Goto, Return, TypeOK, intent
  <2> QED BY <1>0, <2>1 DEF MInv, GenInv, MeaningInv, V, RestoreTo
<1>2. ASSUME NEW q \in Requests, Record(q)
      PROVE  MInv'
  <2>1. V(q) \in Values /\ RecordDesired(U(q), V(q))
    BY <1>0, <1>2 DEF Record, TypeOK, V, Asks
  <2>2. /\ pc' = [pc EXCEPT ![q] = "submit"]
        /\ gen' = [gen EXCEPT ![q] = generation + 1]
        /\ UNCHANGED <<ask, base, jobs, work>>
    BY <1>2 DEF Record, Goto
  <2>3. /\ pc'[q] = "submit" /\ gen'[q] = generation + 1
        /\ \A p \in Requests : p # q => pc'[p] = pc[p] /\ gen'[p] = gen[p]
    BY <1>0, <2>2 DEF TypeOK
  <2>4. /\ GenInv'
        /\ Sound(generation + 1, V(q), generation', desired')
        /\ \A g, v : Sound(g, v, generation, desired)
                         => Sound(g, v, generation', desired')
    BY <1>0, <2>1, NewIntent
  <2> QED BY <1>0, <2>2, <2>3, <2>4 DEF MInv, MeaningInv, V, RestoreTo
<1>3. ASSUME NEW q \in Requests, Submit(q)
      PROVE  MInv'
  <2>1. /\ pc[q] = "submit" /\ pc'[q] = "wait"
        /\ jobs' = [jobs EXCEPT ![q] =
                       <<[kind |-> "write", gen |-> gen[q], value |-> V(q)]>>]
        /\ \A p \in Requests : p # q => pc'[p] = pc[p] /\ jobs'[p] = jobs[p]
        /\ UNCHANGED <<generation, desired, gen, ask, base, work>>
    BY <1>0, <1>3 DEF Submit, Goto, TypeOK, intent
  <2>2. Len(jobs'[q]) = 1 /\ jobs'[q][1].gen = gen[q] /\ jobs'[q][1].value = V(q)
    BY <1>0, <2>1 DEF TypeOK
  <2>3. \A i \in 1..Len(jobs'[q]) : i = 1
    BY <2>2
  <2> QED BY <1>0, <2>1, <2>2, <2>3 DEF MInv, GenInv, MeaningInv, V, RestoreTo
<1>4. ASSUME NEW q \in Requests, Landed(q) \/ Tidied(q) \/ Look(q) \/ Aim(q)
      PROVE  MInv'
  <2>1. /\ \A p \in Requests : p # q => pc'[p] = pc[p]
        /\ pc[q] = "look" => pc'[q] \in {"aim", "judge"}
        /\ pc[q] = "aim" => pc'[q] = "judge"
        /\ pc[q] \notin {"look", "aim"} => pc'[q] \in {"tidy", "done"}
        /\ UNCHANGED <<generation, desired, gen, ask, base, jobs, work>>
    BY <1>0, <1>4 DEF Landed, Tidied, Look, Aim, Goto, Return, TypeOK, intent
  <2>2. pc[q] \in {"look", "aim"} \/ pc'[q] \in {"tidy", "done"}
    BY <2>1
  <2>3. pc[q] \in {"look", "aim"} => pc'[q] \in {"aim", "judge"}
    BY <2>1
  <2> QED BY <1>0, <2>1, <2>2, <2>3 DEF MInv, GenInv, MeaningInv, V, RestoreTo
<1>5. ASSUME NEW q \in Requests, TimeOut(q) \/ Refused(q)
      PROVE  MInv'
  <2>1. /\ pc[q] = "wait" /\ pc'[q] \in {"late", "look"}
        /\ \A p \in Requests : p # q => pc'[p] = pc[p]
        /\ UNCHANGED <<ask, base, jobs, work>>
    BY <1>0, <1>5 DEF TimeOut, Refused, Goto, TypeOK
  <2>2. Sound(gen[q], V(q), generation, desired) /\ RestoreTo(q) \in Values
    BY <1>0, <2>1, RestoreType DEF MeaningInv
  <2>3. /\ GenInv'
        /\ Sound(gen'[q], RestoreTo(q), generation', desired')
        /\ \A p \in Requests : p # q => gen'[p] = gen[p]
        /\ \A g, v : Sound(g, v, generation, desired)
                         => Sound(g, v, generation', desired')
    <3>1. CASE RecordIfLatest(q)
      BY <1>0, <2>2, <3>1, IntentRestated
    <3>2. CASE V(q) = NoKey /\ UNCHANGED <<intent, gen>>
      BY <1>0, <2>2, <3>2 DEF RestoreTo, intent, GenInv
    <3> QED BY <1>5, <3>1, <3>2 DEF TimeOut, Refused
  <2> QED BY <1>0, <2>1, <2>3 DEF MInv, MeaningInv, V, RestoreTo
<1>6. ASSUME NEW q \in Requests, GiveUpWaiting(q) \/ Judge(q)
      PROVE  MInv'
  <2>1. /\ pc[q] \in {"late", "judge"} /\ pc'[q] = "done"
        /\ \A p \in Requests : p # q => pc'[p] = pc[p]
        /\ UNCHANGED <<generation, desired, gen, ask, base, work>>
    BY <1>0, <1>6 DEF GiveUpWaiting, Judge, Goto, Return, TypeOK, intent
  <2>2. Sound(gen[q], RestoreTo(q), generation, desired)
    BY <1>0, <2>1 DEF MeaningInv
  <2>3. CASE UNCHANGED jobs
    BY <1>0, <2>1, <2>3 DEF MInv, GenInv, MeaningInv, V, RestoreTo
  <2>4. CASE Queue(q, claim[q])
    <3>1. claim[q] \in BOOLEAN /\ RestoreTo(q) \in Values
      BY <1>0, <2>1, RestoreType DEF TypeOK
    <3>2. /\ \A p \in Requests : p # q => jobs'[p] = jobs[p]
          /\ \A i \in 1..Len(jobs[q]) : jobs'[q][i] = jobs[q][i]
          /\ \A i \in (Len(jobs[q]) + 1)..Len(jobs'[q]) :
                 jobs'[q][i].gen = gen[q] /\ jobs'[q][i].value = RestoreTo(q)
          /\ jobs' \in [Requests -> Seq(Jobs)]
      BY <1>0, <2>4, <3>1, QueueShape
    <3>3. Len(jobs[q]) \in Nat /\ Len(jobs'[q]) \in Nat
      BY <1>0, <3>2, LenProperties DEF TypeOK
    <3>4. ASSUME NEW i \in 1..Len(jobs'[q])
          PROVE  Sound(jobs'[q][i].gen, jobs'[q][i].value, generation, desired)
      <4>1. i \in 1..Len(jobs[q]) \/ i \in (Len(jobs[q]) + 1)..Len(jobs'[q])
        BY <3>3
      <4> QED BY <1>0, <2>2, <3>2, <4>1 DEF MeaningInv
    <3> QED BY <1>0, <2>1, <3>2, <3>4 DEF MInv, GenInv, MeaningInv, V, RestoreTo
  <2> QED BY <1>6, <2>3, <2>4 DEF GiveUpWaiting, Judge
<1>7. ASSUME NEW q \in Requests, Take(q) \/ ApplySucceeds(q)
      PROVE  MInv'
  <2>1. UNCHANGED <<generation, desired, gen, ask, base, pc, jobs>>
    BY <1>7 DEF Take, ApplySucceeds, intent, request
  <2>2. \A p \in Requests : p # q => work'[p] = work[p]
    BY <1>0, <1>7 DEF Take, ApplySucceeds, Working, TypeOK
  <2>3. work'[q].stage \in Writing
            => Sound(work'[q].gen, work'[q].value, generation, desired)
    <3>1. CASE Take(q)
      <4>1. jobs[q] # << >> /\ jobs[q] \in Seq(Jobs)
        BY <1>0, <3>1 DEF Take, TypeOK
      <4>2. Head(jobs[q]) = jobs[q][1] /\ 1 \in 1..Len(jobs[q])
        BY <4>1, TailOfJobs
      <4>3. /\ work'[q].gen = jobs[q][1].gen
            /\ work'[q].value = jobs[q][1].value
        BY <1>0, <3>1, <4>2 DEF Take, Working, TypeOK
      <4> QED BY <1>0, <4>2, <4>3 DEF MeaningInv
    <3>2. CASE ApplySucceeds(q)
      <4>1. /\ work[q].stage \in Writing
            /\ work'[q].gen = work[q].gen /\ work'[q].value = work[q].value
        BY <1>0, <3>2 DEF ApplySucceeds, Working, Writing, TypeOK
      <4> QED BY <1>0, <4>1 DEF MeaningInv
    <3> QED BY <1>7, <3>1, <3>2
  <2> QED BY <1>0, <2>1, <2>2, <2>3 DEF MInv, GenInv, MeaningInv, V, RestoreTo
<1>8. ASSUME NEW q \in Requests, ApplyFails(q) \/ Compare(q) \/ DiscardEnds(q)
      PROVE  MInv'
  <2>1. /\ UNCHANGED <<generation, desired, gen, ask, base, pc>>
        /\ work[q].stage # "idle"
    BY <1>8 DEF ApplyFails, Compare, DiscardEnds, intent, request
  <2>2. CASE \E how \in {"ok", "raised"} : Finish(q, how)
    <3>1. /\ \A p \in Requests : p # q => jobs'[p] = jobs[p]
          /\ Len(jobs[q]) \in Nat \ {0}
          /\ Len(jobs'[q]) = Len(jobs[q]) - 1
          /\ \A i \in 1..(Len(jobs[q]) - 1) : jobs'[q][i] = jobs[q][i + 1]
          /\ work' = [work EXCEPT ![q] = Idle]
      BY <2>1, <2>2, FinishShape
    <3>2. ASSUME NEW i \in 1..Len(jobs'[q])
          PROVE  Sound(jobs'[q][i].gen, jobs'[q][i].value, generation, desired)
      <4>1. i + 1 \in 1..Len(jobs[q]) /\ jobs'[q][i] = jobs[q][i + 1]
        BY <3>1
      <4> QED BY <1>0, <4>1 DEF MeaningInv
    <3>3. /\ work'[q].stage = "idle"
          /\ \A p \in Requests : p # q => work'[p] = work[p]
      BY <1>0, <3>1 DEF TypeOK, Idle
    <3> QED BY <1>0, <2>1, <3>1, <3>2, <3>3
            DEF MInv, GenInv, MeaningInv, V, RestoreTo, Writing
  <2>3. CASE /\ Compare(q) /\ UNCHANGED jobs
             /\ Working(q, "reconcile", desired[U(q)].gen, desired[U(q)].value)
    <3>1. /\ work'[q].gen = desired[U(q)].gen
          /\ work'[q].value = desired[U(q)].value
          /\ \A p \in Requests : p # q => work'[p] = work[p]
      BY <1>0, <2>3 DEF Working, TypeOK
    <3>2. U(q) \in Users /\ desired[U(q)].gen = generation /\ generation \in Nat
      BY <1>0 DEF TypeOK, U, Asks, GenInv
    <3>3. work[q].gen \in 1..generation
      BY <1>0, <2>3 DEF MeaningInv, Sound, Compare, Writing
    <3>4. Sound(desired[U(q)].gen, desired[U(q)].value, generation, desired)
      <4>1. generation \in 1..generation
        BY <3>2, <3>3
      <4> QED BY <1>0, <3>2, <4>1, Alone DEF Sound
    <3> QED BY <1>0, <2>1, <2>3, <3>1, <3>4
            DEF MInv, GenInv, MeaningInv, V, RestoreTo
  <2> QED BY <1>8, <2>2, <2>3 DEF ApplyFails, Compare, DiscardEnds
<1>9. CASE \/ \E q \in Requests : DiscardStep(q)
           \/ \E u \in Users : LateDelete(u)
           \/ UNCHANGED vars
  <2>1. UNCHANGED <<generation, desired, gen, ask, base, pc, jobs, work>>
    BY <1>9, DiscardShape DEF LateDelete, vars, intent, request
  <2> QED BY <1>0, <2>1 DEF MInv, GenInv, MeaningInv, V, RestoreTo
<1> QED BY <1>1, <1>2, <1>3, <1>4, <1>5, <1>6, <1>7, <1>8, <1>9
        DEF Next, RequestStep, WorkerStep

-----------------------------------------------------------------------------
(* The backend under one user *)

(* What the store reads back as (get_password).                            *)
Reads(entry, copies, u) == IF entry # NoEntry THEN entry.key ELSE copies[u]

(* The same before and after a step.                                       *)
LEMMA ReadsBack ==
    ASSUME OneUser, NEW u \in Users
    PROVE  /\ TypeOK => Resolve(u) = Reads(plain, copy, u)
           /\ TypeOK' => Resolve(u)' = Reads(plain', copy', u)
BY DEF OneUser, TypeOK, Entries, Resolve, Reads

(* What a write that succeeds leaves, and one that is refused may leave    *)
(* (WinVault's set_password and delete_password).                          *)
LEMMA Written ==
    ASSUME OneUser, TypeOK, NEW u \in Users, NEW v \in Values, Apply(u, v)
    PROVE  /\ Reads(plain', copy', u) = v
           /\ v # NoKey => /\ plain' # NoEntry /\ plain'.key = v
                           /\ copy'[u] = Reads(plain, copy, u)
           /\ v = NoKey => plain' = NoEntry /\ copy'[u] = NoKey
<1>1. plain # NoEntry => plain.user = u
  BY Alone
<1>2. CASE v = NoKey
  BY <1>1, <1>2 DEF Apply, DeletePassword, WithoutPlain, Reads, TypeOK
<1>3. CASE v # NoKey
  <2>1. [user |-> u, key |-> v] \in Entries
    BY <1>3 DEF Entries, Values
  <2>2. plain' = [user |-> u, key |-> v] /\ plain' # NoEntry
    BY <1>3, <2>1, KeysAssumption DEF Apply, SetPassword
  <2>3. copy'[u] = Reads(plain, copy, u)
    BY <1>1, <1>3 DEF Apply, SetPassword, AfterCopy, Reads, TypeOK
  <2> QED BY <1>3, <2>2, <2>3 DEF Reads
<1> QED BY <1>2, <1>3

(* A refused save has written its key or left the entry alone.             *)
LEMMA Refusal ==
    ASSUME OneUser, TypeOK, NEW u \in Users, NEW v \in Values, v # NoKey,
           ApplyRaises(u, v)
    PROVE  /\ plain' = plain \/ (plain' # NoEntry /\ plain'.key = v)
           /\ copy'[u] = copy[u] \/ copy'[u] = Reads(plain, copy, u)
<1>1. plain # NoEntry => plain.user = u
  BY Alone
<1>2. [user |-> u, key |-> v] \in Entries
  BY DEF Entries, Values
<1>3. AfterCopy[u] = Reads(plain, copy, u)
  BY <1>1 DEF AfterCopy, Reads, TypeOK
<1> QED BY <1>2, <1>3, KeysAssumption
        DEF ApplyRaises, SetPasswordRaises, SetPassword, backend

(* Who changes the backend: the worker inside it, or a copy's deletion     *)
(* when nobody is.                                                         *)
LEMMA BackendSteps ==
    ASSUME SInv, OneUser, NEW u \in Users, [Next]_vars
    PROVE  \/ UNCHANGED backend
           \/ \E q \in Requests : ApplySucceeds(q) \/ ApplyFails(q)
           \/ /\ lock = Free
              /\ \/ \E q \in Requests : DiscardDelete(q)
                 \/ \E w \in Users : LateDelete(w)
              /\ plain' = plain
              /\ copy'[u] = copy[u] \/ copy'[u] = NoKey
<1>1. ASSUME NEW q \in Requests, DiscardDelete(q), ~ UNCHANGED copy
      PROVE  /\ lock = Free /\ plain' = plain
             /\ copy'[u] = copy[u] \/ copy'[u] = NoKey
  BY <1>1, Alone DEF DiscardDelete, CallReturns, SInv, TypeOK
<1>2. ASSUME NEW w \in Users, LateDelete(w)
      PROVE  /\ lock = Free /\ plain' = plain
             /\ copy'[u] = copy[u] \/ copy'[u] = NoKey
  BY <1>2 DEF LateDelete, CallReturns, SInv, TypeOK
<1>3. ASSUME NEW q \in Requests, DiscardDelete(q)
      PROVE  plain' = plain
  BY <1>3 DEF DiscardDelete
<1>4. ASSUME NEW q \in Requests, ReadBaseline(q) \/ RequestStep(q)
      PROVE  UNCHANGED backend
  BY <1>4 DEF ReadBaseline, RequestStep, Record, Submit, Landed, Tidied, TimeOut,
              GiveUpWaiting, Refused, Look, Aim, Judge
<1>5. ASSUME NEW q \in Requests,
             DiscardCheck(q) \/ DiscardFind(q) \/ DiscardConfirm(q)
      PROVE  UNCHANGED backend
  BY <1>5 DEF DiscardCheck, DiscardFind, DiscardConfirm, DiscardLooks
<1>6. ASSUME NEW q \in Requests, Take(q) \/ Compare(q) \/ DiscardEnds(q)
      PROVE  UNCHANGED backend
  BY <1>6 DEF Take, Compare, DiscardEnds
<1>7. UNCHANGED vars => UNCHANGED backend
  BY DEF vars
<1> QED BY <1>1, <1>2, <1>3, <1>4, <1>5, <1>6, <1>7
        DEF Next, DiscardStep, WorkerStep, backend

(* A worker that writes holds the lock, so one write is never inside       *)
(* another (_backend_lock).                                                *)
LEMMA OneWriter ==
    ASSUME SInv, NEW p \in Requests, work[p].stage \in Writing
    PROVE  /\ lock = p /\ lock # Free
           /\ \A q \in Requests : work[q].stage \in Writing => q = p
BY FreeAssumption DEF SInv, WorkInv

-----------------------------------------------------------------------------
(* The latest intent wins *)

(* Between its write and the comparison nobody else has been in the store. *)
EffectInv ==
    \A u \in Users, q \in Requests :
        work[q].stage = "compare" => Reads(plain, copy, u) = work[q].value

(* Until the backend refuses something no request goes and looks.          *)
FaultInv ==
    faults = 0 => \A q \in Requests :
        primary[q] # "raised" /\ pc[q] \notin {"look", "aim", "judge"}

(* Until then a copy is kept behind a plain entry only, so removing it     *)
(* changes nothing that is read.                                           *)
PlainInv ==
    faults = 0 /\ plain = NoEntry => \A u \in Users : copy[u] = NoKey

(* A write is still to come, or to end.                                    *)
Pending(q) ==
    \/ pc[q] = "submit"
    \/ pc[q] = "late" /\ claim[q]
    \/ \E i \in 1..Len(jobs[q]) : jobs[q][i].kind = "write"

LatestInv ==
    faults = 0 /\ generation > 0 =>
        \A u \in Users : \/ Reads(plain, copy, u) = desired[u].value
                         \/ \E q \in Requests : Pending(q)

LInv == EffectInv /\ FaultInv /\ PlainInv /\ LatestInv

(* Nothing has been asked for to begin with.                               *)
LEMMA InitLInv == Init => LInv
BY DEF Init, LInv, EffectInv, FaultInv, PlainInv, LatestInv, Idle

(* Nobody else writes between a write and its comparison.                  *)
LEMMA EffectStep ==
    ASSUME SInv, OneUser, EffectInv, [Next]_vars
    PROVE  EffectInv'
<1> SUFFICES ASSUME NEW u \in Users, NEW q \in Requests, work'[q].stage = "compare"
             PROVE  Reads(plain', copy', u) = work'[q].value
  BY DEF EffectInv
<1>1. CASE ApplySucceeds(q)
  <2>1. /\ work'[q].value = work[q].value /\ work[q].value \in Values
        /\ Apply(U(q), work[q].value) /\ U(q) = u /\ TypeOK
    BY <1>1, Alone DEF ApplySucceeds, Working, SInv, TypeOK
  <2> QED BY <2>1, Written
<1>2. CASE ~ ApplySucceeds(q)
  <2>1. work'[q] = work[q]
    <3>1. ASSUME NEW p \in Requests, ReadBaseline(p) \/ RequestStep(p) \/ DiscardStep(p)
          PROVE  UNCHANGED work
      BY <3>1, DiscardShape
         DEF ReadBaseline, RequestStep, Record, Submit, Landed, Tidied, TimeOut,
             GiveUpWaiting, Refused, Look, Aim, Judge
    <3>2. ASSUME NEW p \in Requests, WorkerStep(p)
          PROVE  work'[q] = work[q]
      <4>1. CASE p # q
        BY <3>2, <4>1
           DEF WorkerStep, Take, ApplySucceeds, ApplyFails, Compare, DiscardEnds,
               Working, Finish, SInv, TypeOK
      <4>2. CASE p = q
        <5>1. ASSUME Take(q) PROVE work'[q].stage \in {"apply", "discard"}
          BY <5>1 DEF Take, Working, SInv, TypeOK
        <5>2. ASSUME ApplyFails(q) \/ DiscardEnds(q) PROVE work'[q].stage = "idle"
          BY <5>2 DEF ApplyFails, DiscardEnds, Finish, Idle, SInv, TypeOK
        <5>3. ASSUME Compare(q) PROVE work'[q].stage \in {"idle", "reconcile"}
          BY <5>3 DEF Compare, Finish, Working, Idle, SInv, TypeOK
        <5> QED BY <1>2, <3>2, <4>2, <5>1, <5>2, <5>3 DEF WorkerStep
      <4> QED BY <4>1, <4>2
    <3>3. \A w \in Users : LateDelete(w) => UNCHANGED work
      BY DEF LateDelete
    <3>4. UNCHANGED vars => UNCHANGED work
      BY DEF vars
    <3> QED BY <3>1, <3>2, <3>3, <3>4 DEF Next
  <2>2. work[q].stage \in Writing /\ lock # Free
    BY <2>1, OneWriter DEF Writing
  <2>3. ASSUME NEW p \in Requests, ApplySucceeds(p) \/ ApplyFails(p)
        PROVE  FALSE
    <3>1. work[p].stage \in {"apply", "reconcile"}
      BY <2>3 DEF ApplySucceeds, ApplyFails
    <3>2. p = q
      BY <2>2, <3>1, OneWriter DEF Writing
    <3> QED BY <2>1, <3>1, <3>2
  <2>4. UNCHANGED backend
    BY <2>2, <2>3, BackendSteps
  <2> QED BY <2>1, <2>4 DEF EffectInv, backend
<1> QED BY <1>1, <1>2

(* Refusals are counted, never forgotten.                                  *)
LEMMA FaultsGrow ==
    ASSUME SInv, [Next]_vars, faults' = 0
    PROVE  /\ faults = 0
           /\ \A q \in Requests : ~ ApplyFails(q)
<1>1. faults \in Nat
  BY WishAssumption DEF SInv, TypeOK
<1>2. ASSUME NEW q \in Requests, ApplyFails(q) PROVE FALSE
  BY <1>1, <1>2 DEF ApplyFails, Fault
<1>3. ASSUME NEW q \in Requests, ReadBaseline(q) \/ Look(q) \/ DiscardStep(q)
      PROVE  faults' = faults \/ faults' = faults + 1
  BY <1>3 DEF ReadBaseline, Look, DiscardStep, DiscardCheck, DiscardFind,
              DiscardConfirm, DiscardLooks, DiscardDelete, CallReturns, CallFails,
              NoFault, Fault
<1>4. ASSUME NEW q \in Requests,
             Record(q) \/ Submit(q) \/ Landed(q) \/ Tidied(q) \/ TimeOut(q)
             \/ GiveUpWaiting(q) \/ Refused(q) \/ Aim(q) \/ Judge(q)
      PROVE  faults' = faults
  BY <1>4 DEF Record, Submit, Landed, Tidied, TimeOut, GiveUpWaiting, Refused,
              Aim, Judge
<1>5. ASSUME NEW q \in Requests,
             Take(q) \/ ApplySucceeds(q) \/ Compare(q) \/ DiscardEnds(q)
      PROVE  faults' = faults
  BY <1>5 DEF Take, ApplySucceeds, Compare, DiscardEnds
<1>6. ASSUME NEW w \in Users, LateDelete(w)
      PROVE  faults' = faults
  BY <1>6 DEF LateDelete, CallReturns, NoFault
<1>7. UNCHANGED vars => faults' = faults
  BY DEF vars
<1>8. faults' = faults \/ faults' = faults + 1
  BY <1>2, <1>3, <1>4, <1>5, <1>6, <1>7 DEF Next, RequestStep, WorkerStep
<1> QED BY <1>1, <1>2, <1>8

(* A request goes and looks only after a refusal.                          *)
LEMMA FaultStep ==
    ASSUME SInv, FaultInv, [Next]_vars
    PROVE  FaultInv'
<1> SUFFICES ASSUME faults' = 0, NEW p \in Requests
             PROVE  primary'[p] # "raised" /\ pc'[p] \notin {"look", "aim", "judge"}
  BY DEF FaultInv
<1>0. /\ TypeOK
      /\ \A q \in Requests :
            /\ primary[q] # "raised" /\ pc[q] \notin {"look", "aim", "judge"}
            /\ ~ ApplyFails(q)
  BY FaultsGrow DEF FaultInv, SInv
<1>1. ASSUME NEW q \in Requests,
             ReadBaseline(q) \/ Record(q) \/ Submit(q) \/ Landed(q) \/ Tidied(q)
             \/ TimeOut(q) \/ GiveUpWaiting(q)
      PROVE  /\ pc'[p] = pc[p] \/ pc'[p] \notin {"look", "aim", "judge"}
             /\ primary'[p] = primary[p] \/ primary'[p] = "pending"
  BY <1>0, <1>1 DEF ReadBaseline, Record, Submit, Landed, Tidied, TimeOut,
                    GiveUpWaiting, Goto, Return, TypeOK
<1>2. ASSUME NEW q \in Requests, Refused(q) \/ Look(q) \/ Aim(q) \/ Judge(q)
      PROVE  FALSE
  BY <1>0, <1>2 DEF Refused, Look, Aim, Judge
<1>3. ASSUME NEW q \in Requests, Finish(q, "ok")
      PROVE  primary'[p] = primary[p] \/ primary'[p] = "ok"
  BY <1>0, <1>3 DEF Finish, TypeOK
<1>4. ASSUME NEW q \in Requests, WorkerStep(q)
      PROVE  /\ pc' = pc
             /\ primary'[p] = primary[p] \/ primary'[p] = "ok"
  BY <1>0, <1>3, <1>4
     DEF WorkerStep, Take, ApplySucceeds, Compare, DiscardEnds, request
<1>5. ASSUME NEW q \in Requests, DiscardStep(q)
      PROVE  UNCHANGED <<pc, primary>>
  BY <1>5, DiscardShape DEF request
<1>6. ASSUME NEW w \in Users, LateDelete(w)
      PROVE  UNCHANGED <<pc, primary>>
  BY <1>6 DEF LateDelete, request
<1>7. UNCHANGED vars => UNCHANGED <<pc, primary>>
  BY DEF vars, request
<1> QED BY <1>0, <1>1, <1>2, <1>4, <1>5, <1>6, <1>7 DEF Next, RequestStep

(* A copy is made only behind a new plain entry.                           *)
LEMMA PlainStep ==
    ASSUME SInv, OneUser, PlainInv, [Next]_vars
    PROVE  PlainInv'
<1> SUFFICES ASSUME faults' = 0, plain' = NoEntry, NEW u \in Users
             PROVE  copy'[u] = NoKey
  BY DEF PlainInv
<1>1. plain = NoEntry => copy[u] = NoKey
  BY FaultsGrow DEF PlainInv
<1>2. ASSUME NEW q \in Requests, ApplySucceeds(q) PROVE copy'[u] = NoKey
  <2>1. TypeOK /\ work[q].value \in Values /\ Apply(u, work[q].value)
    BY <1>2, Alone DEF ApplySucceeds, SInv, TypeOK
  <2> QED BY <2>1, Written
<1>3. CASE UNCHANGED backend
  BY <1>1, <1>3 DEF backend
<1>4. \A q \in Requests : ~ ApplyFails(q)
  BY FaultsGrow
<1> QED BY <1>1, <1>2, <1>3, <1>4, BackendSteps

(* A removed copy changes nothing that is read while nothing was refused.  *)
LEMMA ReadsStay ==
    ASSUME SInv, OneUser, PlainInv, faults = 0, [Next]_vars, NEW u \in Users,
           \A q \in Requests : ~ ApplySucceeds(q) /\ ~ ApplyFails(q)
    PROVE  Reads(plain', copy', u) = Reads(plain, copy, u)
<1>1. CASE UNCHANGED backend
  BY <1>1 DEF Reads, backend
<1>2. CASE plain' = plain /\ (copy'[u] = copy[u] \/ copy'[u] = NoKey)
  BY <1>2 DEF Reads, PlainInv
<1> QED BY <1>1, <1>2, BackendSteps

(* What can become of a request's queue of jobs.                           *)
LEMMA JobsSteps ==
    ASSUME SInv, [Next]_vars, NEW p \in Requests
    PROVE  \/ jobs'[p] = jobs[p]
           \/ Submit(p)
           \/ /\ GiveUpWaiting(p) \/ Judge(p)
              /\ Queue(p, claim[p]) /\ pc[p] \in {"late", "judge"}
           \/ ApplyFails(p)
           \/ Compare(p) /\ desired[U(p)].gen = work[p].gen
           \/ DiscardEnds(p)
<1>0. TypeOK
  BY DEF SInv
<1>1. ASSUME NEW q \in Requests, ReadBaseline(q) \/ RequestStep(q), ~ Submit(p)
      PROVE  \/ jobs'[p] = jobs[p]
             \/ /\ GiveUpWaiting(p) \/ Judge(p)
                /\ Queue(p, claim[p]) /\ pc[p] \in {"late", "judge"}
  BY <1>0, <1>1
     DEF ReadBaseline, RequestStep, Record, Submit, Landed, Tidied, TimeOut,
         GiveUpWaiting, Refused, Look, Aim, Judge, Queue, TypeOK
<1>2. ASSUME NEW q \in Requests, WorkerStep(q)
      PROVE  \/ jobs'[p] = jobs[p]
             \/ ApplyFails(p)
             \/ Compare(p) /\ desired[U(p)].gen = work[p].gen
             \/ DiscardEnds(p)
  BY <1>0, <1>2
     DEF WorkerStep, Take, ApplySucceeds, ApplyFails, Compare, DiscardEnds, Finish,
         TypeOK
<1>3. \A w \in Users : LateDelete(w) => jobs' = jobs
  BY DEF LateDelete
<1>4. UNCHANGED vars => jobs' = jobs
  BY DEF vars
<1> QED BY <1>1, <1>2, <1>3, <1>4, DiscardShape DEF Next

(* Every step that could break the newest intent's hold on the store has   *)
(* a write still to come after it.                                         *)
LEMMA LatestStep ==
    ASSUME SInv, OneUser, MInv, LInv, [Next]_vars
    PROVE  LatestInv'
<1> SUFFICES ASSUME faults' = 0, generation' > 0, NEW u \in Users,
                    \A q \in Requests : ~ Pending(q)'
             PROVE  Reads(plain', copy', u) = desired'[u].value
  BY DEF LatestInv
<1>0. /\ TypeOK /\ faults = 0 /\ \A q \in Requests : ~ ApplyFails(q)
      /\ EffectInv /\ FaultInv /\ PlainInv /\ LatestInv /\ GenInv /\ MeaningInv
  BY FaultsGrow DEF SInv, LInv, MInv
<1>1. \A q \in Requests :
         /\ pc'[q] # "submit"
         /\ ~ (pc'[q] = "late" /\ claim'[q])
         /\ \A i \in 1..Len(jobs'[q]) : jobs'[q][i].kind # "write"
  BY DEF Pending
<1>2. ASSUME NEW q \in Requests, ApplySucceeds(q) PROVE FALSE
  <2>1. jobs[q] # << >> /\ jobs[q][1].kind = "write" /\ jobs' = jobs
    BY <1>2 DEF ApplySucceeds, SInv, WorkInv, Writing
  <2>2. 1 \in 1..Len(jobs[q])
    BY <1>0, <2>1, TailOfJobs DEF TypeOK
  <2> QED BY <1>1, <2>1, <2>2
<1>3. Reads(plain', copy', u) = Reads(plain, copy, u)
  BY <1>0, <1>2, ReadsStay
<1>4. ASSUME NEW q \in Requests, Record(q) PROVE FALSE
  <2>1. pc'[q] = "submit"
    BY <1>0, <1>4 DEF Record, Goto, TypeOK
  <2> QED BY <1>1, <2>1
<1>5. ASSUME NEW q \in Requests, Submit(q) PROVE FALSE
  <2>1. jobs'[q] = <<[kind |-> "write", gen |-> gen[q], value |-> V(q)]>>
    BY <1>0, <1>5 DEF Submit, TypeOK
  <2>2. Len(jobs'[q]) = 1 /\ jobs'[q][1].kind = "write"
    BY <2>1
  <2> QED BY <1>1, <2>2
<1>6. ASSUME NEW q \in Requests, TimeOut(q), ~ UNCHANGED intent PROVE FALSE
  <2>1. pc'[q] = "late" /\ claim'[q]
    BY <1>0, <1>6 DEF TimeOut, RecordIfLatest, Goto, TypeOK, intent
  <2> QED BY <1>1, <2>1
<1>7. UNCHANGED intent
  <2>1. ASSUME NEW q \in Requests, Refused(q) PROVE FALSE
    BY <1>0, <2>1 DEF Refused, FaultInv
  <2>2. ASSUME NEW q \in Requests, ReadBaseline(q) \/ RequestStep(q)
        PROVE  UNCHANGED intent
    BY <1>4, <1>6, <2>1, <2>2
       DEF RequestStep, ReadBaseline, Submit, Landed, Tidied, GiveUpWaiting, Look,
           Aim, Judge
  <2>3. ASSUME NEW q \in Requests, WorkerStep(q) PROVE UNCHANGED intent
    BY <2>3 DEF WorkerStep, Take, ApplySucceeds, ApplyFails, Compare, DiscardEnds
  <2>4. \A w \in Users : LateDelete(w) => UNCHANGED intent
    BY DEF LateDelete
  <2>5. UNCHANGED vars => UNCHANGED intent
    BY DEF vars
  <2> QED BY <2>2, <2>3, <2>4, <2>5, DiscardShape DEF Next
<1>8. SUFFICES ASSUME NEW p \in Requests, Pending(p)
               PROVE  Reads(plain, copy, u) = desired[u].value
  BY <1>0, <1>3, <1>7 DEF LatestInv, intent
(* A write that was still to come has come to its end with this step.      *)
<1>9. CASE Compare(p) /\ desired[U(p)].gen = work[p].gen
  <2>1. Reads(plain, copy, u) = work[p].value
    BY <1>0, <1>9 DEF Compare, EffectInv
  <2>2. desired[u].value = work[p].value
    BY <1>0, <1>9, Alone DEF Compare, MeaningInv, Sound, Writing
  <2> QED BY <2>1, <2>2
<1>10. CASE ~ (Compare(p) /\ desired[U(p)].gen = work[p].gen)
  <2>1. CASE pc[p] = "submit"
    <3>1. pc'[p] = "submit" \/ Submit(p)
      <4>1. ASSUME NEW q \in Requests, ReadBaseline(q) \/ RequestStep(q)
            PROVE  pc'[p] = "submit" \/ Submit(p)
        BY <1>0, <2>1, <4>1
           DEF ReadBaseline, RequestStep, Record, Submit, Landed, Tidied, TimeOut,
               GiveUpWaiting, Refused, Look, Aim, Judge, Goto, Return, TypeOK
      <4>2. ASSUME NEW q \in Requests, WorkerStep(q) PROVE pc' = pc
        BY <4>2 DEF WorkerStep, Take, ApplySucceeds, ApplyFails, Compare, DiscardEnds,
                    request
      <4>3. ASSUME NEW q \in Requests, DiscardStep(q) PROVE pc' = pc
        BY <4>3, DiscardShape DEF request
      <4>4. \A w \in Users : LateDelete(w) => pc' = pc
        BY DEF LateDelete, request
      <4>5. UNCHANGED vars => pc' = pc
        BY DEF vars, request
      <4> QED BY <2>1, <4>1, <4>2, <4>3, <4>4, <4>5 DEF Next
    <3> QED BY <1>1, <1>5, <3>1
  <2>2. CASE pc[p] = "late" /\ claim[p]
    <3>1. (pc'[p] = "late" /\ claim'[p]) \/ GiveUpWaiting(p)
      <4>1. ASSUME NEW q \in Requests, ReadBaseline(q) \/ RequestStep(q)
            PROVE  (pc'[p] = "late" /\ claim'[p]) \/ GiveUpWaiting(p)
        BY <1>0, <2>2, <4>1
           DEF ReadBaseline, RequestStep, Record, Submit, Landed, Tidied, TimeOut,
               GiveUpWaiting, Refused, Look, Aim, Judge, Goto, Return, TypeOK,
               RecordIfLatest
      <4>2. ASSUME NEW q \in Requests, WorkerStep(q) PROVE UNCHANGED <<pc, claim>>
        BY <4>2 DEF WorkerStep, Take, ApplySucceeds, ApplyFails, Compare, DiscardEnds,
                    request
      <4>3. ASSUME NEW q \in Requests, DiscardStep(q) PROVE UNCHANGED <<pc, claim>>
        BY <4>3, DiscardShape DEF request
      <4>4. \A w \in Users : LateDelete(w) => UNCHANGED <<pc, claim>>
        BY DEF LateDelete, request
      <4>5. UNCHANGED vars => UNCHANGED <<pc, claim>>
        BY DEF vars, request
      <4> QED BY <2>2, <4>1, <4>2, <4>3, <4>4, <4>5 DEF Next
    <3>2. ASSUME GiveUpWaiting(p) PROVE FALSE
      <4>1. Queue(p, TRUE)
        BY <2>2, <3>2 DEF GiveUpWaiting
      <4>2. RestoreTo(p) \in Values /\ TRUE \in BOOLEAN
        BY <1>0, <2>2, RestoreType DEF SInv
      <4>3. /\ jobs'[p][Len(jobs[p]) + 1].kind = "write"
            /\ Len(jobs'[p]) = Len(jobs[p]) + 2
        BY <1>0, <4>1, <4>2, QueueShape
      <4>4. Len(jobs[p]) \in Nat
        BY <1>0, LenProperties DEF TypeOK
      <4>5. Len(jobs[p]) + 1 \in 1..Len(jobs'[p])
        BY <4>3, <4>4
      <4> QED BY <1>1, <4>3, <4>5
    <3> QED BY <1>1, <3>1, <3>2
  <2>3. ASSUME NEW i \in 1..Len(jobs[p]), jobs[p][i].kind = "write"
        PROVE  FALSE
    <3>0. Len(jobs[p]) \in Nat /\ jobs[p] \in Seq(Jobs) /\ jobs[p] # << >>
      BY <1>0, <2>3, LenProperties, NoJobs DEF TypeOK
    <3>1. CASE jobs'[p] = jobs[p]
      BY <1>1, <2>3, <3>1
    <3>2. CASE Submit(p)
      BY <1>0, <3>0, <3>2 DEF Submit, SInv, JobsInv
    <3>3. CASE Queue(p, claim[p]) /\ pc[p] \in {"late", "judge"}
      <4>1. RestoreTo(p) \in Values /\ claim[p] \in BOOLEAN
        BY <1>0, <3>3, RestoreType DEF SInv, TypeOK
      <4>2. /\ jobs'[p][i] = jobs[p][i]
            /\ Len(jobs'[p]) = Len(jobs[p]) + IF claim[p] THEN 2 ELSE 1
        BY <1>0, <3>3, <4>1, QueueShape
      <4>3. \/ Len(jobs'[p]) = Len(jobs[p]) + 1
            \/ Len(jobs'[p]) = Len(jobs[p]) + 2
        BY <4>2
      <4>4. i \in 1..Len(jobs'[p])
        BY <2>3, <3>0, <4>3
      <4> QED BY <1>1, <2>3, <4>2, <4>4
    <3>4. CASE DiscardEnds(p)
      <4>1. /\ work[p].stage = "discard" /\ Finish(p, "ok")
            /\ jobs[p][1].kind = "discard"
        BY <3>4 DEF DiscardEnds, SInv, WorkInv
      <4>2. /\ Len(jobs'[p]) = Len(jobs[p]) - 1
            /\ \A k \in 1..(Len(jobs[p]) - 1) : jobs'[p][k] = jobs[p][k + 1]
        BY <4>1, FinishShape
      <4>3. i - 1 \in 1..(Len(jobs[p]) - 1) /\ (i - 1) + 1 = i
        BY <2>3, <3>0, <4>1
      <4>4. jobs'[p][i - 1] = jobs[p][i] /\ i - 1 \in 1..Len(jobs'[p])
        BY <4>2, <4>3
      <4> QED BY <1>1, <2>3, <4>4
    <3> QED BY <1>0, <1>10, <3>1, <3>2, <3>3, <3>4, JobsSteps
  <2> QED BY <1>8, <2>1, <2>2, <2>3 DEF Pending
<1> QED BY <1>9, <1>10

(* The four together.                                                      *)
LEMMA LInvStep ==
    ASSUME OneUser, SInv, MInv, LInv, [Next]_vars
    PROVE  LInv'
BY EffectStep, FaultStep, PlainStep, LatestStep DEF LInv

(* However late a write lands, once everything has settled the store holds *)
(* what was asked for last, a timed-out save's own rollback included,      *)
(* provided the backend refused nothing (_mutation_worker's loop).         *)
THEOREM TheLatestIntentWins ==
    ASSUME OneUser
    PROVE  Spec => []LatestIntentWins
<1>1. SInv /\ MInv /\ LInv => LatestIntentWins
  <2> SUFFICES ASSUME SInv, MInv, LInv, NEW u \in Users,
                      Settled(u), faults = 0, desired[u].gen > 0
               PROVE  Resolve(u) = desired[u].value
    BY DEF LatestIntentWins
  <2>0. TypeOK /\ InflightInv
    BY DEF SInv
  <2>1. ASSUME NEW q \in Requests, Pending(q) PROVE FALSE
    <3>1. inflight[U(q)] = 0 /\ pc[q] \in {"idle", "done"}
      BY <2>0, Alone DEF Settled
    <3>2. jobs[q] = << >>
      BY <2>0, <3>1, NoneInflight
    <3>3. Len(jobs[q]) = 0
      BY <2>0, <3>2, NoJobs DEF TypeOK
    <3> QED BY <2>1, <3>1, <3>3 DEF Pending
  <2>2. generation > 0
    BY DEF MInv, GenInv
  <2>3. Reads(plain, copy, u) = desired[u].value
    BY <2>1, <2>2 DEF LInv, LatestInv
  <2> QED BY <2>0, <2>3, ReadsBack
<1>2. Init => MInv /\ LInv
  BY InitMInv, InitLInv
<1>3. SInv /\ MInv /\ LInv /\ [Next]_vars => MInv' /\ LInv'
  BY MInvStep, LInvStep
<1> QED BY <1>1, <1>2, <1>3, Bookkeeping, PTL DEF Spec

-----------------------------------------------------------------------------
(* No copy of a replaced key stays *)

(* A tidying up is certain to follow what the request has under way.       *)
Follows(q) ==
    \/ pc[q] \in {"submit", "wait", "late"}
    \/ \E i \in 2..Len(jobs[q]) : jobs[q][i].kind = "discard"

(* Somebody is going to remove the copy: a tidying up follows, or is due,  *)
(* or is under way and has not found a reason to leave the copy alone.     *)
Tidier(q, u) ==
    \/ Follows(q)
    \/ jobs[q] # << >> /\ jobs[q][1].kind = "discard" /\ work[q].stage = "idle"
    \/ discard[q].stage \in {"find", "delete"}
    \/ discard[q].stage = "check" /\ discard[q].survivor = Reads(plain, copy, u)

CopyInv ==
    \A u \in Users :
        faults = 0 /\ copy[u] # NoKey /\ lateDelete = {} => \E q \in Requests : Tidier(q, u)

(* No write is queued without a tidying up behind it.                      *)
LEMMA PendingFollows ==
    ASSUME SInv, NEW q \in Requests, Pending(q)
    PROVE  Follows(q)
<1>0. Len(jobs[q]) \in Nat /\ jobs[q] \in Seq(Jobs)
  BY LenProperties DEF SInv, TypeOK
<1>1. ASSUME NEW i \in 1..Len(jobs[q]), jobs[q][i].kind = "write",
             pc[q] \notin {"submit", "wait", "late"}
      PROVE  \E k \in 2..Len(jobs[q]) : jobs[q][k].kind = "discard"
  <2>1. jobs[q] # << >>
    BY <1>0, <1>1, NoJobs
  <2>2. jobs[q][Len(jobs[q])].kind = "discard"
    BY <1>1, <2>1 DEF SInv, JobsInv, TypeOK
  <2>3. Len(jobs[q]) \in 2..Len(jobs[q])
    BY <1>0, <1>1, <2>2
  <2> QED BY <2>2, <2>3
<1> QED BY <1>1 DEF Pending, Follows

(* Whoever is inside the backend has one to follow, too.                   *)
LEMMA WriterFollows ==
    ASSUME SInv, lock # Free
    PROVE  \E q \in Requests : Follows(q)
<1>1. lock \in Requests /\ work[lock].stage \in Writing
  BY DEF SInv, TypeOK, WorkInv
<1>2. jobs[lock] # << >> /\ jobs[lock][1].kind = "write" /\ jobs[lock] \in Seq(Jobs)
  BY <1>1 DEF SInv, WorkInv, TypeOK, Writing
<1>3. 1 \in 1..Len(jobs[lock])
  BY <1>2, TailOfJobs
<1>4. Pending(lock)
  BY <1>2, <1>3 DEF Pending
<1> QED BY <1>1, <1>4, PendingFollows

(* Every step that leaves a copy leaves somebody to remove it.             *)
LEMMA CopyStep ==
    ASSUME SInv, OneUser, MInv, LInv, CopyInv, [Next]_vars
    PROVE  CopyInv'
<1> SUFFICES ASSUME faults' = 0, NEW u \in Users, copy'[u] # NoKey, lateDelete' = {},
                    \A q \in Requests : ~ Tidier(q, u)'
             PROVE  FALSE
  BY DEF CopyInv
<1>0. /\ TypeOK /\ faults = 0 /\ \A q \in Requests : ~ ApplyFails(q)
      /\ EffectInv /\ FaultInv /\ PlainInv /\ LatestInv /\ GenInv /\ MeaningInv
  BY FaultsGrow DEF SInv, LInv, MInv
<1>1. \A q \in Requests :
         /\ pc'[q] \notin {"submit", "wait", "late"}
         /\ \A i \in 2..Len(jobs'[q]) : jobs'[q][i].kind # "discard"
         /\ ~ (jobs'[q] # << >> /\ jobs'[q][1].kind = "discard"
                  /\ work'[q].stage = "idle")
         /\ discard'[q].stage \notin {"find", "delete"}
         /\ ~ (discard'[q].stage = "check"
                  /\ discard'[q].survivor = Reads(plain', copy', u))
  BY DEF Tidier, Follows
<1>2. ASSUME NEW q \in Requests, Follows(q), pc'[q] = pc[q], jobs'[q] = jobs[q]
      PROVE  FALSE
  BY <1>1, <1>2 DEF Follows
<1>3. ASSUME NEW q \in Requests, ApplySucceeds(q) PROVE FALSE
  <2>1. UNCHANGED <<pc, jobs>> /\ lock # Free
    BY <1>3, OneWriter DEF ApplySucceeds, request, Writing
  <2> QED BY <1>2, <2>1, WriterFollows
<1>4. /\ Reads(plain', copy', u) = Reads(plain, copy, u)
      /\ copy[u] # NoKey
  <2>1. copy'[u] = copy[u] \/ copy'[u] = NoKey
    BY <1>0, <1>3, BackendSteps DEF backend
  <2> QED BY <1>0, <1>3, <2>1, ReadsStay
<1>5. lateDelete = {}
  <2>1. ASSUME NEW w \in Users, LateDelete(w) PROVE FALSE
    BY <1>0, <2>1 DEF LateDelete, TypeOK, OneUser
  <2>2. ASSUME NEW q \in Requests, ReadBaseline(q) \/ RequestStep(q) \/ WorkerStep(q)
        PROVE  lateDelete' = lateDelete
    BY <2>2
       DEF ReadBaseline, RequestStep, Record, Submit, Landed, Tidied, TimeOut,
           GiveUpWaiting, Refused, Look, Aim, Judge, WorkerStep, Take, ApplySucceeds,
           ApplyFails, Compare, DiscardEnds
  <2>3. UNCHANGED vars => lateDelete' = lateDelete
    BY DEF vars
  <2> QED BY <2>1, <2>2, <2>3, DiscardShape DEF Next
<1>6. PICK p \in Requests : Tidier(p, u)
  BY <1>0, <1>4, <1>5 DEF CopyInv
(* A discard begins with the newest intent, which the store holds, unless  *)
(* a write, with another discard behind it, is still to come.              *)
<1>7. ASSUME NEW q \in Requests, NEW g, NEW v, Sound(g, v, generation, desired),
             discard'[q] = [stage |-> IF CleanupSurvivor(U(q), g, v) = NoKey
                                      THEN "find" ELSE "check",
                            survivor |-> CleanupSurvivor(U(q), g, v)],
             \A r \in Requests : Pending(r) => pc'[r] = pc[r] /\ jobs'[r] = jobs[r]
      PROVE  FALSE
  <2>1. CleanupSurvivor(U(q), g, v) = desired[u].value
    BY <1>0, <1>7, Alone DEF CleanupSurvivor, Latest, Sound
  <2>2. discard'[q].stage = "check" /\ discard'[q].survivor = desired[u].value
    BY <1>1, <1>7, <2>1
  <2>3. generation > 0
    <3>1. g \in 1..generation /\ generation \in Nat
      BY <1>0, <1>7 DEF Sound, TypeOK
    <3> QED BY <3>1
  <2>4. \E r \in Requests : Pending(r)
    BY <1>0, <1>1, <1>4, <2>2, <2>3 DEF LatestInv
  <2> QED BY <1>2, <1>7, <2>4, PendingFollows
<1>8. ASSUME NEW q \in Requests, Landed(q) PROVE FALSE
  <2>1. /\ pc[q] = "wait" /\ jobs[q] = << >>
        /\ UNCHANGED jobs
        /\ \A r \in Requests : r # q => pc'[r] = pc[r]
    BY <1>0, <1>8 DEF Landed, Goto, TypeOK, SInv, JobsInv
  <2>2. ~ Pending(q)
    <3>1. Len(jobs[q]) = 0
      BY <1>0, <2>1, NoJobs DEF TypeOK
    <3> QED BY <2>1, <3>1 DEF Pending
  <2>3. Sound(gen[q], V(q), generation, desired) /\ V(q) \in Values
    BY <1>0, <2>1 DEF MeaningInv, TypeOK, V, Asks
  <2>4. discard'[q] = [stage |-> IF CleanupSurvivor(U(q), gen[q], V(q)) = NoKey
                                 THEN "find" ELSE "check",
                       survivor |-> CleanupSurvivor(U(q), gen[q], V(q))]
    BY <1>0, <1>8, <2>3, SurvivorType, DiscardType DEF Landed
  <2> QED BY <1>7, <2>1, <2>2, <2>3, <2>4
<1>9. ASSUME NEW q \in Requests, Take(q), jobs[q][1].kind = "discard" PROVE FALSE
  <2>1. jobs[q] # << >> /\ jobs[q] \in Seq(Jobs) /\ UNCHANGED <<pc, jobs>>
    BY <1>0, <1>9 DEF Take, TypeOK, request
  <2>2. Head(jobs[q]) = jobs[q][1] /\ 1 \in 1..Len(jobs[q]) /\ jobs[q][1] \in Jobs
    BY <2>1, TailOfJobs
  <2>3. Sound(jobs[q][1].gen, jobs[q][1].value, generation, desired)
    BY <1>0, <2>2 DEF MeaningInv
  <2>4. StartDiscard(q, CleanupSurvivor(U(q), jobs[q][1].gen, jobs[q][1].value))
    BY <1>9, <2>2 DEF Take
  <2>5. jobs[q][1].value \in Values
    BY <2>2 DEF Jobs
  <2>6. discard'[q] =
           [stage |-> IF CleanupSurvivor(U(q), jobs[q][1].gen, jobs[q][1].value) = NoKey
                      THEN "find" ELSE "check",
            survivor |-> CleanupSurvivor(U(q), jobs[q][1].gen, jobs[q][1].value)]
    BY <1>0, <2>4, <2>5, SurvivorType, DiscardType
  <2> QED BY <1>7, <2>1, <2>3, <2>6
<1>10. Len(jobs[p]) \in Nat /\ jobs[p] \in Seq(Jobs)
  BY <1>0, LenProperties DEF TypeOK
(* A queue that ends a job still has the tidying up behind it.             *)
<1>11. ASSUME work[p].stage # "idle", Finish(p, "ok"),
              NEW i \in 2..Len(jobs[p]), jobs[p][i].kind = "discard"
       PROVE  FALSE
  <2>1. /\ Len(jobs'[p]) = Len(jobs[p]) - 1
        /\ \A k \in 1..(Len(jobs[p]) - 1) : jobs'[p][k] = jobs[p][k + 1]
        /\ work' = [work EXCEPT ![p] = Idle] /\ jobs' \in [Requests -> Seq(Jobs)]
    BY <1>11, FinishShape
  <2>2. i - 1 \in 1..(Len(jobs[p]) - 1) /\ (i - 1) + 1 = i
    BY <1>10
  <2>3. jobs'[p][i - 1].kind = "discard"
    BY <1>11, <2>1, <2>2
  <2>4. i - 1 = 1
    <3>1. i - 1 \notin 2..Len(jobs'[p])
      BY <1>1, <2>3
    <3> QED BY <2>1, <2>2, <3>1
  <2>5. work'[p].stage = "idle"
    BY <1>0, <2>1 DEF TypeOK, Idle
  <2>6. jobs'[p] # << >>
    <3>1. Len(jobs'[p]) # 0
      BY <1>10, <2>1, <2>2
    <3> QED BY <2>1, <3>1, NoJobs
  <2> QED BY <1>1, <2>3, <2>4, <2>5, <2>6
(* One that is given more keeps what it had.                               *)
<1>12. ASSUME Queue(p, claim[p]), pc[p] \in {"late", "judge"},
              GiveUpWaiting(p) \/ Judge(p)
       PROVE  FALSE
  <2>1. RestoreTo(p) \in Values /\ claim[p] \in BOOLEAN
    BY <1>0, <1>12, RestoreType DEF SInv, TypeOK
  <2>2. /\ \A k \in 1..Len(jobs[p]) : jobs'[p][k] = jobs[p][k]
        /\ Len(jobs'[p]) = Len(jobs[p]) + IF claim[p] THEN 2 ELSE 1
        /\ jobs'[p][Len(jobs'[p])].kind = "discard"
        /\ jobs'[p] # << >>
    BY <1>0, <1>12, <2>1, QueueShape
  <2>3. \/ Len(jobs'[p]) = Len(jobs[p]) + 1
        \/ Len(jobs'[p]) = Len(jobs[p]) + 2
    BY <2>2
  <2>4. Len(jobs'[p]) = 1
    <3>1. Len(jobs'[p]) \notin 2..Len(jobs'[p])
      BY <1>1, <2>2
    <3>2. \A l \in Nat, n \in Nat : n = l + 1 \/ n = l + 2 => n = 1 \/ n \in 2..n
      OBVIOUS
    <3>3. Len(jobs'[p]) \in Nat
      BY <1>10, <2>3
    <3> QED BY ONLY <1>10, <2>3, <3>1, <3>2, <3>3
  <2>5. jobs[p] = << >>
    <3>1. Len(jobs[p]) = 0
      BY <1>10, <2>3, <2>4
    <3> QED BY <1>10, <3>1, NoJobs
  <2>6. work'[p].stage = "idle"
    <3>1. work[p].stage = "idle" /\ work' = work
      BY <1>12, <2>5 DEF SInv, WorkInv, GiveUpWaiting, Judge
    <3> QED BY <3>1
  <2> QED BY <1>1, <2>2, <2>4, <2>6
<1>13. CASE jobs'[p] = jobs[p]
  <2>1. CASE pc[p] \in {"submit", "wait", "late"}
    <3>1. ASSUME NEW q \in Requests, ReadBaseline(q) \/ RequestStep(q)
          PROVE  \/ pc'[p] \in {"submit", "wait", "late"}
                 \/ Landed(p) \/ GiveUpWaiting(p)
      BY <1>0, <2>1, <3>1
         DEF ReadBaseline, RequestStep, Record, Submit, Landed, Tidied, TimeOut,
             GiveUpWaiting, Refused, Look, Aim, Judge, Goto, Return, TypeOK, FaultInv
    <3>2. ASSUME NEW q \in Requests, WorkerStep(q) \/ DiscardStep(q)
          PROVE  pc' = pc
      BY <3>2, DiscardShape
         DEF WorkerStep, Take, ApplySucceeds, ApplyFails, Compare, DiscardEnds, request
    <3>3. \A w \in Users : LateDelete(w) => pc' = pc
      BY DEF LateDelete, request
    <3>4. UNCHANGED vars => pc' = pc
      BY DEF vars, request
    <3>5. ASSUME GiveUpWaiting(p) PROVE FALSE
      BY <1>12, <3>5 DEF GiveUpWaiting
    <3>6. pc'[p] \in {"submit", "wait", "late"}
      BY <1>8, <2>1, <3>1, <3>2, <3>3, <3>4, <3>5 DEF Next
    <3> QED BY <1>1, <3>6
  <2>2. CASE \E i \in 2..Len(jobs[p]) : jobs[p][i].kind = "discard"
    BY <1>1, <1>13, <2>2
  <2>3. CASE jobs[p] # << >> /\ jobs[p][1].kind = "discard" /\ work[p].stage = "idle"
    <3>1. work'[p] # work[p]
      BY <1>1, <1>13, <2>3
    <3>2. ASSUME NEW q \in Requests, WorkerStep(q)
          PROVE  Take(p)
      BY <1>0, <2>3, <3>1, <3>2
         DEF WorkerStep, Take, ApplySucceeds, ApplyFails, Compare, DiscardEnds,
             Working, Finish, TypeOK
    <3>3. ASSUME NEW q \in Requests, ReadBaseline(q) \/ RequestStep(q) \/ DiscardStep(q)
          PROVE  work' = work
      BY <3>3, DiscardShape
         DEF ReadBaseline, RequestStep, Record, Submit, Landed, Tidied, TimeOut,
             GiveUpWaiting, Refused, Look, Aim, Judge
    <3>4. \A w \in Users : LateDelete(w) => work' = work
      BY DEF LateDelete
    <3>5. UNCHANGED vars => work' = work
      BY DEF vars
    <3> QED BY <1>9, <2>3, <3>1, <3>2, <3>3, <3>4, <3>5 DEF Next
  <2>4. CASE \/ discard[p].stage \in {"find", "delete"}
             \/ discard[p].stage = "check" /\ discard[p].survivor = Reads(plain, copy, u)
    <3>0. U(p) = u /\ Resolve(u) = Reads(plain, copy, u)
      BY <1>0, Alone, ReadsBack
    <3>1. discard'[p] # discard[p]
      BY <1>1, <1>4, <2>4
    <3>2. ASSUME NEW q \in Requests, DiscardStep(q)
          PROVE  FALSE
      <4>1. q = p
        BY <1>0, <3>1, <3>2, DiscardShape DEF TypeOK
      <4>2. UNCHANGED <<pc, jobs>>
        BY <3>2, DiscardShape DEF request
      <4>3. lock = Free
        BY <1>2, <4>2, WriterFollows
      <4>4. ~ CallFails
        BY <1>0, <4>3 DEF CallFails, Fault
      <4>5. CASE DiscardCheck(p)
        <5>1. discard[p].stage = "check" /\ discard' = [discard EXCEPT ![p].stage = "find"]
          BY <2>4, <3>0, <4>4, <4>5 DEF DiscardCheck, DiscardLooks, Discarded
        <5> QED BY <1>0, <1>1, <5>1 DEF TypeOK
      <4>6. CASE DiscardFind(p)
        <5>1. discard' = [discard EXCEPT ![p].stage = "delete"]
          BY <1>4, <3>0, <4>4, <4>6 DEF DiscardFind, DiscardLooks, Discarded
        <5> QED BY <1>0, <1>1, <5>1 DEF TypeOK
      <4>7. CASE DiscardDelete(p)
        BY <1>0, <3>0, <4>4, <4>7 DEF DiscardDelete, TypeOK
      <4>8. CASE DiscardConfirm(p)
        BY <2>4, <4>8 DEF DiscardConfirm, DiscardLooks
      <4> QED BY <3>2, <4>1, <4>5, <4>6, <4>7, <4>8 DEF DiscardStep
    <3>3. ASSUME NEW q \in Requests, ReadBaseline(q) \/ RequestStep(q)
          PROVE  FALSE
      BY <1>0, <1>8, <2>4, <3>1, <3>3
         DEF ReadBaseline, RequestStep, Record, Submit, Tidied, TimeOut,
             GiveUpWaiting, Refused, Look, Aim, Judge, TypeOK, FaultInv
    <3>4. ASSUME NEW q \in Requests, Take(q)
          PROVE  FALSE
      <4>1. Head(jobs[q]) = jobs[q][1] /\ jobs[q][1] \in Jobs
        BY <1>0, <3>4, TailOfJobs DEF Take, TypeOK
      <4>2. jobs[q][1].kind = "write" \/ jobs[q][1].kind = "discard"
        BY <4>1 DEF Jobs
      <4> QED BY <1>9, <3>1, <3>4, <4>1, <4>2 DEF Take
    <3>5. ASSUME NEW q \in Requests, DiscardEnds(q)
          PROVE  FALSE
      BY <1>0, <2>4, <3>1, <3>5 DEF DiscardEnds, TypeOK
    <3>6. ASSUME NEW q \in Requests, WorkerStep(q)
          PROVE  FALSE
      BY <1>0, <3>1, <3>4, <3>5, <3>6
         DEF WorkerStep, ApplySucceeds, Compare
    <3>7. \A w \in Users : LateDelete(w) => discard' = discard
      BY DEF LateDelete
    <3>8. UNCHANGED vars => discard' = discard
      BY DEF vars
    <3> QED BY <3>1, <3>2, <3>3, <3>6, <3>7, <3>8 DEF Next
  <2> QED BY <1>6, <2>1, <2>2, <2>3, <2>4 DEF Tidier, Follows
<1>14. CASE Submit(p)
  <2>1. pc'[p] = "wait"
    BY <1>0, <1>14 DEF Submit, Goto, TypeOK
  <2> QED BY <1>1, <2>1
<1>15. CASE \/ Compare(p) /\ desired[U(p)].gen = work[p].gen
            \/ DiscardEnds(p)
  <2>1. /\ Finish(p, "ok") /\ work[p].stage # "idle" /\ pc' = pc
        /\ discard[p].stage \in {"off", "yes", "no"} \/ pc[p] \in {"tidy", "judge"}
    BY <1>0, <1>15 DEF Compare, DiscardEnds, SInv, DiscardInv, TypeOK, request
  <2>2. pc[p] \notin {"tidy", "judge"}
    BY <2>1 DEF SInv, WorkInv, JobsInv
  <2>3. ~ Follows(p)
    BY <1>1, <1>11, <2>1 DEF Follows
  <2> QED BY <1>6, <2>1, <2>2, <2>3 DEF Tidier
<1> QED BY <1>0, <1>12, <1>13, <1>14, <1>15, JobsSteps

(* Once everything about a credential has settled and nothing was refused, *)
(* no copy of a replaced secret stays in the store (_discard_superseded).  *)
THEOREM NoCopyStays ==
    ASSUME OneUser
    PROVE  Spec => []NoCopyLeft
<1>1. SInv /\ CopyInv => NoCopyLeft
  <2> SUFFICES ASSUME SInv, CopyInv, NEW u \in Users, Settled(u), faults = 0,
                      lateDelete = {}, copy[u] # NoKey
               PROVE  FALSE
    BY DEF NoCopyLeft
  <2>0. TypeOK /\ InflightInv
    BY DEF SInv
  <2>1. PICK q \in Requests : Tidier(q, u)
    BY DEF CopyInv
  <2>2. inflight[U(q)] = 0 /\ pc[q] \in {"idle", "done"}
    BY <2>0, Alone DEF Settled
  <2>3. jobs[q] = << >> /\ Len(jobs[q]) = 0
    BY <2>0, <2>2, NoneInflight, NoJobs DEF TypeOK
  <2>4. work[q].stage = "idle" /\ discard[q].stage = "off"
    BY <2>2, <2>3 DEF SInv, WorkInv, DiscardInv
  <2> QED BY <2>1, <2>2, <2>3, <2>4 DEF Tidier, Follows
<1>2. Init => MInv /\ LInv /\ CopyInv
  BY InitMInv, InitLInv DEF Init, CopyInv
<1>3. SInv /\ MInv /\ LInv /\ CopyInv /\ [Next]_vars => MInv' /\ LInv' /\ CopyInv'
  BY MInvStep, LInvStep, CopyStep
<1> QED BY <1>1, <1>2, <1>3, Bookkeeping, PTL DEF Spec

-----------------------------------------------------------------------------
(* Which values a step can bring into play *)

(* A request reads its baseline once, and looks again once at most.        *)
UnreadInv ==
    \A q \in Requests :
        /\ pc[q] = "idle" => base[q] = Unknown
        /\ pc[q] \notin {"aim", "judge", "done"} => seen[q] = Unknown

(* No request has read anything to begin with.                             *)
LEMMA InitUnread == Init => UnreadInv
BY DEF Init, UnreadInv

(* The baseline changes only by being read.                                *)
LEMMA BaseSteps ==
    ASSUME SInv, UnreadInv, [Next]_vars
    PROVE  /\ ask' = ask
           /\ UnreadInv'
           /\ \A p \in Requests :
                 \/ base'[p] = base[p]
                 \/ /\ base[p] = Unknown /\ base'[p] = Resolve(U(p))
                    /\ backend' = backend
<1>0. TypeOK
  BY DEF SInv
<1>1. ASSUME NEW q \in Requests, ReadBaseline(q)
      PROVE  /\ ask' = ask
             /\ UnreadInv'
             /\ \A p \in Requests :
                   \/ base'[p] = base[p]
                   \/ /\ base[p] = Unknown /\ base'[p] = Resolve(U(p))
                      /\ backend' = backend
  <2>1. /\ pc[q] = "idle" /\ pc'[q] # "idle" /\ base[q] = Unknown
        /\ \A p \in Requests : p # q => pc'[p] = pc[p]
        /\ ask' = ask /\ backend' = backend /\ seen' = seen
    BY <1>0, <1>1 DEF ReadBaseline, Goto, Return, UnreadInv, TypeOK
  <2>2. base' = base \/ base' = [base EXCEPT ![q] = Resolve(U(q))]
    BY <1>1 DEF ReadBaseline
  <2>3. \A p \in Requests : p # q => base'[p] = base[p]
    BY <1>0, <2>2 DEF TypeOK
  <2>4. base'[q] = base[q] \/ base'[q] = Resolve(U(q))
    BY <1>0, <2>2 DEF TypeOK
  <2> QED BY <2>1, <2>3, <2>4 DEF UnreadInv
<1>2. ASSUME NEW q \in Requests, RequestStep(q)
      PROVE  /\ ask' = ask /\ base' = base
             /\ UnreadInv'
  <2>1. ask' = ask /\ base' = base
    BY <1>2
       DEF RequestStep, Record, Submit, Landed, Tidied, TimeOut, GiveUpWaiting,
           Refused, Look, Aim, Judge
  <2>2. \A p \in Requests : p # q => pc'[p] = pc[p] /\ seen'[p] = seen[p]
    BY <1>0, <1>2
       DEF RequestStep, Record, Submit, Landed, Tidied, TimeOut, GiveUpWaiting,
           Refused, Look, Aim, Judge, Goto, Return, TypeOK
  <2>3. CASE Record(q) \/ Submit(q) \/ Landed(q) \/ TimeOut(q) \/ Refused(q)
    <3>1. /\ pc[q] \in {"record", "submit", "wait"}
          /\ pc'[q] \in {"submit", "wait", "tidy", "late", "look"}
          /\ seen' = seen
      BY <1>0, <2>3 DEF Record, Submit, Landed, TimeOut, Refused, Goto, TypeOK
    <3> QED BY <2>1, <2>2, <3>1 DEF UnreadInv
  <2>4. CASE Tidied(q) \/ GiveUpWaiting(q) \/ Look(q) \/ Aim(q) \/ Judge(q)
    <3>1. pc'[q] \in {"aim", "judge", "done"}
      BY <1>0, <2>4 DEF Tidied, GiveUpWaiting, Look, Aim, Judge, Goto, Return, TypeOK
    <3> QED BY <2>1, <2>2, <3>1 DEF UnreadInv
  <2> QED BY <1>2, <2>1, <2>3, <2>4 DEF RequestStep
<1>3. ASSUME NEW q \in Requests, WorkerStep(q) \/ DiscardStep(q)
      PROVE  ask' = ask /\ base' = base /\ pc' = pc /\ seen' = seen
  BY <1>3, DiscardShape
     DEF WorkerStep, Take, ApplySucceeds, ApplyFails, Compare, DiscardEnds, request
<1>4. \A w \in Users : LateDelete(w) => ask' = ask /\ base' = base /\ pc' = pc /\ seen' = seen
  BY DEF LateDelete, request
<1>5. UNCHANGED vars => ask' = ask /\ base' = base /\ pc' = pc /\ seen' = seen
  BY DEF vars, request
<1> QED BY <1>1, <1>2, <1>3, <1>4, <1>5 DEF Next, UnreadInv

(* A new intent is what a request asks for, or what one that failed and    *)
(* was still the newest wants back.                                        *)
LEMMA IntentSteps ==
    ASSUME SInv, OneUser, [Next]_vars, NEW u \in Users
    PROVE  \/ UNCHANGED intent
           \/ \E q \in Requests : Record(q) /\ desired'[u].value = V(q)
           \/ \E q \in Requests :
                 /\ TimeOut(q) \/ Refused(q)
                 /\ pc[q] = "wait"
                 /\ desired'[u].value = RestoreTo(q)
<1>0. TypeOK
  BY DEF SInv
<1>1. ASSUME NEW q \in Requests, Record(q) PROVE desired'[u].value = V(q)
  BY <1>0, <1>1, Alone DEF Record, RecordDesired, TypeOK
<1>2. ASSUME NEW q \in Requests, TimeOut(q) \/ Refused(q)
      PROVE  \/ UNCHANGED intent
             \/ pc[q] = "wait" /\ desired'[u].value = RestoreTo(q)
  <2>1. CASE UNCHANGED intent
    BY <2>1
  <2>2. CASE RecordDesired(U(q), RestoreTo(q))
    BY <1>0, <1>2, <2>2, Alone DEF RecordDesired, TypeOK, TimeOut, Refused
  <2> QED BY <1>2, <2>1, <2>2 DEF TimeOut, Refused, RecordIfLatest, intent
<1>3. ASSUME NEW q \in Requests,
             ReadBaseline(q) \/ Submit(q) \/ Landed(q) \/ Tidied(q)
             \/ GiveUpWaiting(q) \/ Look(q) \/ Aim(q) \/ Judge(q)
      PROVE  UNCHANGED intent
  BY <1>3 DEF ReadBaseline, Submit, Landed, Tidied, GiveUpWaiting, Look, Aim, Judge
<1>4. ASSUME NEW q \in Requests, WorkerStep(q) \/ DiscardStep(q)
      PROVE  UNCHANGED intent
  BY <1>4, DiscardShape
     DEF WorkerStep, Take, ApplySucceeds, ApplyFails, Compare, DiscardEnds
<1>5. \A w \in Users : LateDelete(w) => UNCHANGED intent
  BY DEF LateDelete
<1>6. UNCHANGED vars => UNCHANGED intent
  BY DEF vars
<1> QED BY <1>1, <1>2, <1>3, <1>4, <1>5, <1>6 DEF Next, RequestStep

(* A queued job carries its request's wish or what it wants back.          *)
LEMMA JobValues ==
    ASSUME SInv, [Next]_vars, NEW p \in Requests, NEW i \in 1..Len(jobs'[p])
    PROVE  \/ \E k \in 1..Len(jobs[p]) : jobs'[p][i] = jobs[p][k]
           \/ jobs'[p][i].value = V(p)
           \/ jobs'[p][i].value = RestoreTo(p) /\ pc[p] \in {"late", "judge"}
<1>0. TypeOK /\ Len(jobs[p]) \in Nat
  BY LenProperties DEF SInv, TypeOK
<1>1. CASE jobs'[p] = jobs[p]
  BY <1>1
<1>2. CASE Submit(p)
  <2>1. jobs'[p] = <<[kind |-> "write", gen |-> gen[p], value |-> V(p)]>>
    BY <1>0, <1>2 DEF Submit, TypeOK
  <2>2. i = 1
    BY <2>1
  <2> QED BY <2>1, <2>2
<1>3. CASE Queue(p, claim[p]) /\ pc[p] \in {"late", "judge"}
  <2>1. RestoreTo(p) \in Values /\ claim[p] \in BOOLEAN
    BY <1>0, <1>3, RestoreType DEF SInv, TypeOK
  <2>2. /\ \A k \in 1..Len(jobs[p]) : jobs'[p][k] = jobs[p][k]
        /\ \A k \in (Len(jobs[p]) + 1)..Len(jobs'[p]) :
               jobs'[p][k].value = RestoreTo(p)
    BY <1>0, <1>3, <2>1, QueueShape
  <2>3. i \in 1..Len(jobs[p]) \/ i \in (Len(jobs[p]) + 1)..Len(jobs'[p])
    BY <1>0
  <2> QED BY <1>3, <2>2, <2>3
<1>4. ASSUME NEW how \in {"ok", "raised"}, Finish(p, how), work[p].stage # "idle"
      PROVE  \E k \in 1..Len(jobs[p]) : jobs'[p][i] = jobs[p][k]
  <2>1. /\ Len(jobs'[p]) = Len(jobs[p]) - 1
        /\ \A k \in 1..(Len(jobs[p]) - 1) : jobs'[p][k] = jobs[p][k + 1]
    BY <1>4, FinishShape
  <2>2. i + 1 \in 1..Len(jobs[p]) /\ jobs'[p][i] = jobs[p][i + 1]
    BY <1>0, <2>1
  <2> QED BY <2>2
<1>5. CASE \/ ApplyFails(p)
           \/ Compare(p) /\ desired[U(p)].gen = work[p].gen
           \/ DiscardEnds(p)
  <2>1. work[p].stage # "idle" /\ (Finish(p, "ok") \/ Finish(p, "raised"))
    BY <1>5 DEF ApplyFails, Compare, DiscardEnds
  <2> QED BY <1>4, <2>1
<1> QED BY <1>1, <1>2, <1>3, <1>5, JobsSteps

(* A worker writes the value of the job it has taken, or the newest one.   *)
LEMMA WorkValues ==
    ASSUME SInv, OneUser, [Next]_vars, NEW u \in Users, NEW p \in Requests,
           work'[p].stage \in Writing
    PROVE  \/ work[p].stage \in Writing /\ work'[p].value = work[p].value
           \/ /\ jobs[p] # << >> /\ 1 \in 1..Len(jobs[p])
              /\ work'[p].value = jobs[p][1].value
           \/ Compare(p) /\ work'[p].value = desired[u].value
<1>0. TypeOK /\ U(p) = u
  BY Alone DEF SInv
<1>1. ASSUME NEW q \in Requests, ReadBaseline(q) \/ RequestStep(q) \/ DiscardStep(q)
      PROVE  work' = work
  BY <1>1, DiscardShape
     DEF ReadBaseline, RequestStep, Record, Submit, Landed, Tidied, TimeOut,
         GiveUpWaiting, Refused, Look, Aim, Judge
<1>2. ASSUME NEW q \in Requests, WorkerStep(q), q # p
      PROVE  work'[p] = work[p]
  BY <1>0, <1>2
     DEF WorkerStep, Take, ApplySucceeds, ApplyFails, Compare, DiscardEnds, Working,
         Finish, TypeOK
<1>3. ASSUME ApplyFails(p) \/ DiscardEnds(p) PROVE FALSE
  BY <1>0, <1>3 DEF ApplyFails, DiscardEnds, Finish, Idle, Writing, TypeOK
<1>4. ASSUME Take(p)
      PROVE  /\ jobs[p] # << >> /\ 1 \in 1..Len(jobs[p])
             /\ work'[p].value = jobs[p][1].value
  <2>1. jobs[p] # << >> /\ jobs[p] \in Seq(Jobs)
    BY <1>0, <1>4 DEF Take, TypeOK
  <2>2. Head(jobs[p]) = jobs[p][1] /\ 1 \in 1..Len(jobs[p])
    BY <2>1, TailOfJobs
  <2>3. work'[p].value = jobs[p][1].value
    BY <1>0, <1>4, <2>2 DEF Take, Working, TypeOK
  <2> QED BY <2>1, <2>2, <2>3
<1>5. ASSUME ApplySucceeds(p)
      PROVE  work[p].stage \in Writing /\ work'[p].value = work[p].value
  BY <1>0, <1>5 DEF ApplySucceeds, Working, Writing, TypeOK
<1>6. ASSUME Compare(p)
      PROVE  work'[p].value = desired[u].value
  BY <1>0, <1>6 DEF Compare, Working, Finish, Idle, Writing, TypeOK
<1>7. \A w \in Users : LateDelete(w) => work' = work
  BY DEF LateDelete
<1>8. UNCHANGED vars => work' = work
  BY DEF vars
<1> QED BY <1>1, <1>2, <1>3, <1>4, <1>5, <1>6, <1>7, <1>8 DEF Next, WorkerStep

(* Whether a backend call succeeds or is refused, it brings no other value *)
(* into the store than its own.                                            *)
LEMMA Stored ==
    ASSUME OneUser, TypeOK, NEW u \in Users, NEW v \in Values,
           Apply(u, v) \/ ApplyRaises(u, v)
    PROVE  /\ \/ plain' = plain
              \/ plain' = NoEntry /\ v = NoKey
              \/ plain' # NoEntry /\ plain'.key = v /\ v # NoKey
           /\ copy'[u] \in {copy[u], NoKey, Reads(plain, copy, u)}
           /\ v # NoKey => copy'[u] \in {copy[u], Reads(plain, copy, u)}
<1>1. CASE v # NoKey
  BY <1>1, Written, Refusal
<1>2. CASE v = NoKey
  <2>1. WithoutPlain(u) = NoEntry \/ WithoutPlain(u) = plain
    BY DEF WithoutPlain
  <2>2. [copy EXCEPT ![u] = NoKey][u] = NoKey
    BY DEF TypeOK
  <2> QED BY <1>2, <2>1, <2>2
          DEF Apply, ApplyRaises, DeletePassword, DeletePasswordRaises, backend
<1> QED BY <1>1, <1>2

-----------------------------------------------------------------------------
(* A replacement never destroys the key *)

(* Every request saves, and none has found the user without a key.         *)
NoneMissing == \A q \in Requests : V(q) # NoKey /\ base[q] # NoKey

(* Then nobody is out to remove anything, and once a key has been read     *)
(* there is a plain entry for good.                                        *)
KeyInv ==
    NoneMissing =>
        /\ generation > 0 => \A u \in Users : desired[u].value # NoKey
        /\ \A q \in Requests :
              /\ work[q].stage \in Writing => work[q].value # NoKey
              /\ \A i \in 1..Len(jobs[q]) : jobs[q][i].value # NoKey
              /\ base[q] \in Keys => plain # NoEntry
        /\ plain = NoEntry => \A u \in Users : copy[u] = NoKey

(* No request has found a key to begin with.                               *)
LEMMA InitKeyInv == Init => KeyInv
<1> SUFFICES ASSUME Init PROVE KeyInv
  OBVIOUS
<1>1. \A q \in Requests : Len(jobs[q]) = 0
  BY EmptySeq DEF Init
<1> QED BY <1>1, KeysAssumption DEF Init, KeyInv, Writing, Idle, Values

(* Among saves alone, every step leaves the key in place.                  *)
LEMMA KeyStep ==
    ASSUME SInv, OneUser, MInv, UnreadInv, KeyInv, [Next]_vars
    PROVE  KeyInv'
<1> SUFFICES ASSUME NoneMissing' PROVE KeyInv'
  BY DEF KeyInv
<1>0. TypeOK /\ GenInv /\ MeaningInv /\ BaseInv /\ JobsInv
  BY DEF SInv, MInv
<1>1. /\ \A q \in Requests : V(q) # NoKey /\ base[q] # NoKey /\ base'[q] # NoKey
      /\ NoneMissing
  BY BaseSteps, KeysAssumption DEF NoneMissing, V, Values
<1>2. /\ generation > 0 => \A u \in Users : desired[u].value # NoKey
      /\ \A q \in Requests :
            /\ work[q].stage \in Writing => work[q].value # NoKey
            /\ \A i \in 1..Len(jobs[q]) : jobs[q][i].value # NoKey
            /\ base[q] \in Keys => plain # NoEntry
      /\ plain = NoEntry => \A u \in Users : copy[u] = NoKey
  BY <1>1 DEF KeyInv
<1>3. \A q \in Requests : RestoreTo(q) # NoKey
  BY <1>1 DEF RestoreTo
<1>4. generation' > 0 => \A u \in Users : desired'[u].value # NoKey
  BY <1>1, <1>2, <1>3, IntentSteps DEF intent
<1>5. \A q \in Requests : \A i \in 1..Len(jobs'[q]) : jobs'[q][i].value # NoKey
  BY <1>1, <1>2, <1>3, JobValues
<1>6. ASSUME NEW q \in Requests, work'[q].stage \in Writing
      PROVE  work'[q].value # NoKey
  <2>1. PICK u \in Users : u = U(q)
    BY <1>0 DEF TypeOK, U, Asks
  <2>2. Compare(q) => generation > 0
    <3>1. Compare(q) => work[q].gen \in 1..generation /\ generation \in Nat
      BY <1>0 DEF Compare, MeaningInv, Sound, Writing, TypeOK
    <3> QED BY <3>1
  <2> QED BY <1>2, <1>6, <2>2, WorkValues
(* The entry never goes: there is no removal.                              *)
<1>7. /\ plain # NoEntry => plain' # NoEntry
      /\ plain' = NoEntry => \A u \in Users : copy'[u] = NoKey
  <2> SUFFICES ASSUME NEW u \in Users
               PROVE  /\ plain # NoEntry => plain' # NoEntry
                      /\ plain' = NoEntry => copy'[u] = NoKey
    BY DEF TypeOK, Entries, OneUser, SInv
  <2>1. ASSUME NEW q \in Requests, ApplySucceeds(q) \/ ApplyFails(q)
        PROVE  /\ plain # NoEntry => plain' # NoEntry
               /\ plain' = NoEntry => copy'[u] = NoKey
    <3>1. /\ Apply(u, work[q].value) \/ ApplyRaises(u, work[q].value)
          /\ work[q].value \in Values /\ work[q].value # NoKey
      BY <1>0, <1>2, <2>1, Alone DEF ApplySucceeds, ApplyFails, TypeOK, Writing
    <3>2. /\ plain' = plain \/ plain' # NoEntry
          /\ copy'[u] \in {copy[u], Reads(plain, copy, u)}
      BY <1>0, <3>1, Stored
    <3> QED BY <1>2, <3>2 DEF Reads
  <2>2. CASE plain' = plain /\ (copy'[u] = copy[u] \/ copy'[u] = NoKey)
    BY <1>2, <2>2
  <2> QED BY <2>1, <2>2, BackendSteps DEF backend
<1>8. ASSUME NEW q \in Requests, base'[q] \in Keys PROVE plain' # NoEntry
  <2>1. CASE base'[q] = base[q]
    BY <1>2, <1>7, <1>8, <2>1
  <2>2. CASE base'[q] = Resolve(U(q)) /\ backend' = backend
    <3>1. U(q) \in Users /\ NoKey \notin Keys
      BY <1>0, KeysAssumption DEF TypeOK, U, Asks
    <3>2. Resolve(U(q)) = Reads(plain, copy, U(q))
      BY <1>0, <3>1, ReadsBack
    <3> QED BY <1>2, <1>8, <2>2, <3>1, <3>2 DEF Reads, backend
  <2> QED BY <2>1, <2>2, BaseSteps
<1> QED BY <1>4, <1>5, <1>6, <1>7, <1>8 DEF KeyInv

-----------------------------------------------------------------------------
(* "Nothing was changed" is true *)

(* Another request asked for the same key or found it in the store, or the *)
(* key is the one that was there.                                          *)
Excused(q) ==
    \/ V(q) = base[q]
    \/ \E p \in Requests \ {q} : V(q) \in {V(p), base[p]}

(* A request that has looked after its refusal and found what was there    *)
(* before, and has not since come to another conclusion.                   *)
Looked(q) ==
    \/ pc[q] \in {"aim", "judge"} /\ seen[q] = base[q] /\ seen[q] # Unknown
    \/ outcome[q] = "backend_refused"

(* It has seen that no copy of its key is left either.                     *)
Cleared(q) ==
    \/ discard[q].stage = "yes" /\ pc[q] = "judge"
    \/ outcome[q] = "backend_refused"

(* A key only one request knows of is queued by that request alone, is     *)
(* wanted only until the request looks, and once it has looked is neither  *)
(* in the store nor on its way there.                                      *)
ForeignInv ==
    \A q \in Requests : V(q) # NoKey /\ ~ Excused(q) =>
        /\ \A p \in Requests \ {q} : \A i \in 1..Len(jobs[p]) : jobs[p][i].value # V(q)
        /\ \A u \in Users : desired[u].value = V(q) =>
              /\ gen[q] = desired[u].gen
              /\ pc[q] \in {"submit", "wait", "tidy", "done"}
              /\ outcome[q] # "backend_refused"
        /\ Looked(q) =>
              /\ plain # NoEntry => plain.key # V(q)
              /\ \A p \in Requests : work[p].stage \in Writing => work[p].value # V(q)
              /\ Cleared(q) => \A u \in Users : copy[u] # V(q)

(* No request has looked to begin with.                                    *)
LEMMA InitForeignInv == Init => ForeignInv
<1> SUFFICES ASSUME Init PROVE ForeignInv
  OBVIOUS
<1>1. \A q \in Requests : Len(jobs[q]) = 0
  BY EmptySeq DEF Init
<1> QED BY <1>1 DEF Init, ForeignInv, Looked

(* A tidying up ends well only on having found no copy.                    *)
LEMMA FoundNone ==
    ASSUME SInv, NEW q \in Requests, DiscardStep(q), discard'[q].stage = "yes"
    PROVE  backend' = backend /\ copy[U(q)] = NoKey
<1>0. discard \in [Requests -> [stage : Stages, survivor : Values]]
  BY DEF SInv, TypeOK, Stages
<1>1. CASE DiscardCheck(q)
  BY <1>0, <1>1 DEF DiscardCheck, DiscardLooks, Discarded
<1>2. CASE DiscardFind(q)
  BY <1>0, <1>2 DEF DiscardFind, DiscardLooks, Discarded
<1>3. CASE DiscardDelete(q)
  BY <1>0, <1>3 DEF DiscardDelete, Discarded
<1>4. CASE DiscardConfirm(q)
  BY <1>0, <1>4 DEF DiscardConfirm, DiscardLooks, Discarded
<1> QED BY <1>1, <1>2, <1>3, <1>4 DEF DiscardStep

(* What it takes to have looked, and to have found the copies gone.        *)
LEMMA LookSteps ==
    ASSUME SInv, UnreadInv, [Next]_vars, NEW q \in Requests
    PROVE  /\ Looked(q)' =>
                 \/ Looked(q)
                 \/ /\ Resolve(U(q)) = base[q] /\ base[q] # Unknown
                    /\ lock = Free /\ backend' = backend /\ work' = work
                    /\ ~ Cleared(q)'
           /\ Looked(q) /\ Cleared(q)' =>
                 \/ Cleared(q)
                 \/ backend' = backend /\ copy[U(q)] = NoKey
<1>0. /\ TypeOK /\ JobsInv /\ DiscardInv /\ WorkInv
      /\ discard \in [Requests -> [stage : Stages, survivor : Values]]
  BY DEF SInv, TypeOK, Stages
<1>1. ASSUME pc'[q] = pc[q], outcome'[q] = outcome[q], seen'[q] = seen[q],
             base'[q] = base[q], discard'[q].stage \in {discard[q].stage, "off", "find", "check"}
      PROVE  (Looked(q)' => Looked(q)) /\ (Cleared(q)' => Cleared(q))
  BY <1>1 DEF Looked, Cleared
<1>2. ASSUME NEW p \in Requests, p # q,
             ReadBaseline(p) \/ RequestStep(p) \/ DiscardStep(p) \/ WorkerStep(p)
      PROVE  /\ pc'[q] = pc[q] /\ outcome'[q] = outcome[q]
             /\ seen'[q] = seen[q] /\ base'[q] = base[q] /\ discard'[q] = discard[q]
  <2>0. CASE ReadBaseline(p)
    BY <1>0, <1>2, <2>0 DEF ReadBaseline, Goto, Return, TypeOK
  <2>1. CASE RequestStep(p)
    BY <1>0, <1>2, <2>1
       DEF RequestStep, Record, Submit, Landed, Tidied, TimeOut, GiveUpWaiting,
           Refused, Look, Aim, Judge, Goto, Return, StartDiscard, TypeOK
  <2>2. CASE DiscardStep(p)
    BY <1>0, <1>2, <2>2, DiscardShape DEF request
  <2>3. CASE WorkerStep(p)
    BY <1>0, <1>2, <2>3
       DEF WorkerStep, Take, ApplySucceeds, ApplyFails, Compare, DiscardEnds,
           StartDiscard, request
  <2> QED BY <1>2, <2>0, <2>1, <2>2, <2>3
<1>3. CASE \/ ReadBaseline(q) \/ Record(q) \/ Submit(q) \/ Landed(q) \/ Tidied(q)
           \/ TimeOut(q) \/ GiveUpWaiting(q) \/ Refused(q)
  <2>1. /\ pc'[q] \in {"record", "submit", "wait", "tidy", "late", "look", "done"}
        /\ outcome'[q] = outcome[q] \/ outcome'[q] # "backend_refused"
    BY <1>0, <1>3
       DEF ReadBaseline, Record, Submit, Landed, Tidied, TimeOut, GiveUpWaiting,
           Refused, Goto, Return, TypeOK
  <2> QED BY <2>1 DEF Looked, Cleared
<1>4. CASE Look(q)
  <2>1. /\ pc[q] = "look" /\ seen[q] = Unknown /\ outcome[q] # "backend_refused"
        /\ work[q].stage # "discard"
    BY <1>0, <1>4 DEF Look, UnreadInv, JobsInv, WorkInv
  <2>2. discard[q].stage = "off" /\ ~ Looked(q)
    BY <1>0, <2>1 DEF DiscardInv, Looked
  <2>3. /\ UNCHANGED <<backend, work, base, outcome, discard>>
        /\ \/ lock = Free /\ seen'[q] = Resolve(U(q))
           \/ seen'[q] = Unknown
    BY <1>0, <1>4, <2>1 DEF Look, CallReturns, TypeOK
  <2> QED BY <2>1, <2>2, <2>3 DEF Looked, Cleared, backend
<1>5. CASE Aim(q)
  <2>1. /\ pc[q] = "aim" /\ outcome[q] # "backend_refused"
        /\ discard'[q].stage \in {"find", "check"}
        /\ UNCHANGED <<base, seen, outcome>>
    BY <1>0, <1>5 DEF Aim, StartDiscard, JobsInv, TypeOK
  <2> QED BY <2>1 DEF Looked, Cleared
<1>6. CASE Judge(q)
  <2>1. pc[q] = "judge" /\ pc'[q] = "done" /\ outcome[q] # "backend_refused"
    BY <1>0, <1>6 DEF Judge, Return, Goto, JobsInv, TypeOK
  <2>2. CASE ProvablyUnchanged(q)
    BY <2>1, <2>2 DEF ProvablyUnchanged, Looked, Cleared
  <2>3. CASE ~ ProvablyUnchanged(q)
    <3>1. outcome'[q] # "backend_refused"
      BY <1>0, <1>6, <2>3 DEF Judge, Return, TypeOK
    <3> QED BY <2>1, <3>1 DEF Looked, Cleared
  <2> QED BY <2>2, <2>3
<1>7. CASE DiscardStep(q)
  <2>1. UNCHANGED <<pc, outcome, seen, base>>
    BY <1>7, DiscardShape DEF request
  <2> QED BY <1>7, <2>1, FoundNone DEF Looked, Cleared
<1>8. CASE WorkerStep(q)
  <2>1. /\ UNCHANGED <<pc, outcome, seen, base>>
        /\ discard'[q].stage \in {discard[q].stage, "off", "find", "check"}
    BY <1>0, <1>8
       DEF WorkerStep, Take, ApplySucceeds, ApplyFails, Compare, DiscardEnds,
           StartDiscard, Off, request
  <2> QED BY <1>1, <2>1
<1>9. CASE (\E w \in Users : LateDelete(w)) \/ UNCHANGED vars
  <2>1. UNCHANGED <<pc, outcome, seen, base, discard>>
    BY <1>9 DEF LateDelete, vars, request
  <2> QED BY <1>1, <2>1
<1>10. ASSUME NEW p \in Requests,
              ReadBaseline(p) \/ RequestStep(p) \/ DiscardStep(p) \/ WorkerStep(p)
       PROVE  /\ Looked(q)' =>
                    \/ Looked(q)
                    \/ /\ Resolve(U(q)) = base[q] /\ base[q] # Unknown
                       /\ lock = Free /\ backend' = backend /\ work' = work
                       /\ ~ Cleared(q)'
              /\ Looked(q) /\ Cleared(q)' =>
                    \/ Cleared(q)
                    \/ backend' = backend /\ copy[U(q)] = NoKey
  <2>1. CASE p # q
    BY <1>1, <1>2, <1>10, <2>1
  <2>2. CASE p = q
    BY <1>3, <1>4, <1>5, <1>6, <1>7, <1>8, <1>10, <2>2 DEF RequestStep
  <2> QED BY <2>1, <2>2
<1> QED BY <1>9, <1>10 DEF Next

(* Every step keeps a key its request gave up out of the store.            *)
LEMMA ForeignStep ==
    ASSUME SInv, OneUser, UnreadInv, ForeignInv, [Next]_vars
    PROVE  ForeignInv'
<1>0. TypeOK /\ JobsInv
  BY DEF SInv
<1> SUFFICES ASSUME NEW q \in Requests, V(q)' # NoKey, ~ Excused(q)'
             PROVE
        /\ \A p \in Requests \ {q} : \A i \in 1..Len(jobs'[p]) : jobs'[p][i].value # V(q)
        /\ \A u \in Users : desired'[u].value = V(q) =>
              /\ gen'[q] = desired'[u].gen
              /\ pc'[q] \in {"submit", "wait", "tidy", "done"}
              /\ outcome'[q] # "backend_refused"
        /\ Looked(q)' =>
              /\ plain' # NoEntry => plain'.key # V(q)
              /\ \A p \in Requests : work'[p].stage \in Writing => work'[p].value # V(q)
              /\ Cleared(q)' => \A u \in Users : copy'[u] # V(q)
  BY BaseSteps DEF ForeignInv, V
<1>1. /\ V(q) # NoKey /\ V(q) \in Values /\ ~ Excused(q)
      /\ \A p \in Requests : base[p] # V(q)
      /\ \A p \in Requests : RestoreTo(p) # V(q)
      /\ \A p \in Requests : V(p) = V(q) => p = q
  <2>1. ask' = ask /\ \A p \in Requests : base'[p] = base[p] \/ base[p] = Unknown
    BY BaseSteps
  <2>2. V(q) # NoKey /\ V(q) \in Values /\ V(q) # Unknown
    BY <1>0, <2>1, KeysAssumption DEF V, TypeOK, Asks
  <2>3. \A p \in Requests : base'[p] # V(q)
    BY <2>1 DEF Excused, V
  <2>4. \A p \in Requests : base[p] # V(q)
    BY <2>1, <2>2, <2>3
  <2>5. \A p \in Requests : V(p) = V(q) => p = q
    BY <2>1 DEF Excused, V
  <2>6. \A p \in Requests : RestoreTo(p) # V(q)
    BY <2>2, <2>4 DEF RestoreTo
  <2>7. ~ Excused(q)
    BY <2>4, <2>5 DEF Excused
  <2> QED BY <2>2, <2>4, <2>5, <2>6, <2>7
<1>2. /\ \A p \in Requests \ {q} : \A i \in 1..Len(jobs[p]) : jobs[p][i].value # V(q)
      /\ \A u \in Users : desired[u].value = V(q) =>
            /\ gen[q] = desired[u].gen
            /\ pc[q] \in {"submit", "wait", "tidy", "done"}
            /\ outcome[q] # "backend_refused"
      /\ Looked(q) =>
            /\ plain # NoEntry => plain.key # V(q)
            /\ \A p \in Requests : work[p].stage \in Writing => work[p].value # V(q)
            /\ Cleared(q) => \A u \in Users : copy[u] # V(q)
  BY <1>1 DEF ForeignInv
<1>3. ASSUME NEW p \in Requests \ {q}, NEW i \in 1..Len(jobs'[p])
      PROVE  jobs'[p][i].value # V(q)
  BY <1>1, <1>2, JobValues
<1>4. ASSUME NEW u \in Users, desired'[u].value = V(q)
      PROVE  /\ gen'[q] = desired'[u].gen
             /\ pc'[q] \in {"submit", "wait", "tidy", "done"}
             /\ outcome'[q] # "backend_refused"
  <2>1. CASE UNCHANGED intent
    <3>1. /\ gen[q] = desired[u].gen /\ desired' = desired
          /\ pc[q] \in {"submit", "wait", "tidy", "done"}
          /\ outcome[q] # "backend_refused" /\ U(q) = u
      BY <1>0, <1>2, <1>4, <2>1, Alone DEF intent
    <3>2. ASSUME NEW p \in Requests, ReadBaseline(p) \/ RequestStep(p)
          PROVE  /\ gen'[q] = gen[q]
                 /\ pc'[q] \in {"submit", "wait", "tidy", "done"}
                 /\ outcome'[q] # "backend_refused"
      <4>1. ~ RecordDesired(U(p), V(p)) /\ ~ RecordDesired(U(p), RestoreTo(p))
        BY <1>0, <2>1 DEF RecordDesired, intent, TypeOK
      <4>2. gen' = gen
        BY <3>2, <4>1
           DEF ReadBaseline, RequestStep, Record, Submit, Landed, Tidied, TimeOut,
               GiveUpWaiting, Refused, Look, Aim, Judge, RecordIfLatest
      <4>3. ASSUME p = q PROVE ~ TimeOut(p) /\ ~ Refused(p)
        BY <1>1, <3>1, <4>1, <4>3 DEF TimeOut, Refused, RecordIfLatest, Latest
      <4>4. CASE p # q
        BY <1>0, <3>1, <3>2, <4>2, <4>4
           DEF ReadBaseline, RequestStep, Record, Submit, Landed, Tidied, TimeOut,
               GiveUpWaiting, Refused, Look, Aim, Judge, Goto, Return, TypeOK
      <4>5. CASE p = q
        BY <1>0, <3>1, <3>2, <4>1, <4>2, <4>3, <4>5
           DEF ReadBaseline, RequestStep, Record, Submit, Landed, Tidied,
               GiveUpWaiting, Look, Aim, Judge, Goto, Return, TypeOK
      <4> QED BY <4>4, <4>5
    <3>3. ASSUME NEW p \in Requests, WorkerStep(p) \/ DiscardStep(p)
          PROVE  UNCHANGED <<gen, pc, outcome>>
      BY <3>3, DiscardShape
         DEF WorkerStep, Take, ApplySucceeds, ApplyFails, Compare, DiscardEnds, request
    <3>4. \A w \in Users : LateDelete(w) => UNCHANGED <<gen, pc, outcome>>
      BY DEF LateDelete, request
    <3>5. UNCHANGED vars => UNCHANGED <<gen, pc, outcome>>
      BY DEF vars, request
    <3> QED BY <3>1, <3>2, <3>3, <3>4, <3>5 DEF Next
  <2>2. CASE \E p \in Requests : Record(p) /\ desired'[u].value = V(p)
    <3>1. Record(q)
      BY <1>1, <1>4, <2>2
    <3>2. /\ pc[q] = "record" /\ pc'[q] = "submit" /\ outcome'[q] = outcome[q]
          /\ gen'[q] = generation + 1 /\ desired'[u].gen = generation + 1
      BY <1>0, <3>1, Alone DEF Record, RecordDesired, Goto, TypeOK
    <3> QED BY <1>0, <3>2 DEF JobsInv
  <2>3. CASE \E p \in Requests : desired'[u].value = RestoreTo(p)
    BY <1>1, <1>4, <2>3
  <2> QED BY <2>1, <2>2, <2>3, IntentSteps
<1>5. ASSUME Looked(q)'
      PROVE  /\ plain' # NoEntry => plain'.key # V(q)
             /\ \A p \in Requests : work'[p].stage \in Writing => work'[p].value # V(q)
             /\ Cleared(q)' => \A u \in Users : copy'[u] # V(q)
  <2>0. PICK u \in Users : u = U(q)
    BY <1>0 DEF TypeOK, U, Asks
  <2>1. CASE ~ Looked(q)
    <3>1. /\ Resolve(u) = base[q] /\ lock = Free
          /\ backend' = backend /\ work' = work /\ ~ Cleared(q)'
      BY <1>5, <2>0, <2>1, LookSteps
    <3>2. plain # NoEntry => plain.key # V(q)
      BY <1>0, <1>1, <3>1, Alone
    <3>3. \A p \in Requests : work[p].stage \notin Writing
      BY <3>1, OneWriter
    <3> QED BY <3>1, <3>2, <3>3 DEF backend
  <2>2. CASE Looked(q)
    <3>0. /\ plain # NoEntry => plain.key # V(q)
          /\ \A p \in Requests : work[p].stage \in Writing => work[p].value # V(q)
          /\ Cleared(q) => copy[u] # V(q)
          /\ desired[u].value # V(q)
          /\ jobs[q] = << >>
      BY <1>0, <1>2, <2>2 DEF Looked, JobsInv
    <3>1. /\ plain' # NoEntry => plain'.key # V(q)
          /\ copy[u] # V(q) => copy'[u] # V(q)
      <4>1. ASSUME NEW p \in Requests, ApplySucceeds(p) \/ ApplyFails(p)
            PROVE  /\ plain' # NoEntry => plain'.key # V(q)
                   /\ copy[u] # V(q) => copy'[u] # V(q)
        <5>1. /\ Apply(u, work[p].value) \/ ApplyRaises(u, work[p].value)
              /\ work[p].value \in Values /\ work[p].value # V(q)
          BY <1>0, <3>0, <4>1, Alone DEF ApplySucceeds, ApplyFails, TypeOK, Writing
        <5>2. /\ \/ plain' = plain
                 \/ plain' = NoEntry
                 \/ plain' # NoEntry /\ plain'.key = work[p].value
              /\ copy'[u] \in {copy[u], NoKey, Reads(plain, copy, u)}
          BY <1>0, <5>1, Stored
        <5> QED BY <1>1, <3>0, <5>1, <5>2 DEF Reads
      <4> QED BY <1>1, <3>0, <4>1, BackendSteps DEF backend
    <3>2. ASSUME NEW p \in Requests, work'[p].stage \in Writing
          PROVE  work'[p].value # V(q)
      <4>1. jobs[p] # << >> => p # q
        BY <3>0
      <4> QED BY <1>2, <3>0, <3>2, <4>1, WorkValues
    <3>3. ASSUME Cleared(q)', NEW w \in Users
          PROVE  copy'[w] # V(q)
      <4>1. w = u
        BY DEF OneUser
      <4>2. CASE Cleared(q)
        BY <3>0, <3>1, <4>1, <4>2
      <4>3. CASE backend' = backend /\ copy[u] = NoKey
        BY <1>1, <4>1, <4>3 DEF backend
      <4> QED BY <2>0, <2>2, <3>3, <4>2, <4>3, LookSteps
    <3> QED BY <3>1, <3>2, <3>3
  <2> QED BY <2>1, <2>2
<1> QED BY <1>3, <1>4, <1>5

(* No key is lost by a save - refused half way, timed out, overtaken,      *)
(* rolled back or tidied up after; none is kept in a copy once everything  *)
(* has settled; and none is stored by a save that said "nothing was        *)
(* changed" (_mutate_detailed).                                            *)
THEOREM TheKeysAreKept ==
    ASSUME OneUser
    PROVE  Spec => []KeysAreKept
<1>1. SInv /\ KeyInv => ReplacementNeverDestroys
  <2> SUFFICES ASSUME SInv, KeyInv, NEW u \in Users, OnlySaves(u),
                      NEW q \in Requests, base[q] \in Keys,
                      \A p \in Requests : U(p) = u => base[p] # NoKey
               PROVE  Resolve(u) # NoKey
    BY DEF ReplacementNeverDestroys
  <2>1. TypeOK /\ NoneMissing
    BY Alone DEF SInv, NoneMissing, OnlySaves
  <2>2. plain # NoEntry
    BY <2>1 DEF KeyInv
  <2> QED BY <2>1, <2>2, Alone, KeysAssumption
<1>2. SInv /\ ForeignInv => UnchangedIsHonest
  <2> SUFFICES ASSUME SInv, ForeignInv, NEW q \in Requests,
                      outcome[q] = "backend_refused", V(q) # NoKey
               PROVE  /\ jobs[q] = << >>
                      /\ \/ Resolve(U(q)) # V(q)
                         \/ V(q) = base[q]
                         \/ \E p \in Requests \ {q} :
                                U(p) = U(q) /\ V(q) \in {V(p), base[p]}
    BY DEF UnchangedIsHonest
  <2>1. jobs[q] = << >> /\ TypeOK
    BY DEF SInv, JobsInv
  <2>2. CASE Excused(q)
    <3>1. \A p \in Requests : U(p) = U(q)
      BY <2>1 DEF OneUser, TypeOK, U, Asks
    <3> QED BY <2>1, <2>2, <3>1 DEF Excused
  <2>3. CASE ~ Excused(q)
    <3>1. U(q) \in Users
      BY <2>1 DEF TypeOK, U, Asks
    <3>2. /\ plain # NoEntry => plain.key # V(q)
          /\ copy[U(q)] # V(q)
      BY <2>3, <3>1 DEF ForeignInv, Looked, Cleared
    <3> QED BY <2>1, <3>1, <3>2, Alone
  <2> QED BY <2>2, <2>3
<1>3. Init => UnreadInv /\ KeyInv /\ ForeignInv /\ MInv
  BY InitUnread, InitKeyInv, InitForeignInv, InitMInv
<1>4. SInv /\ MInv /\ UnreadInv /\ KeyInv /\ ForeignInv /\ [Next]_vars
          => MInv' /\ UnreadInv' /\ KeyInv' /\ ForeignInv'
  BY MInvStep, BaseSteps, KeyStep, ForeignStep
<1>5. Spec => []NoCopyLeft
  BY NoCopyStays
<1>6. ReplacementNeverDestroys /\ UnchangedIsHonest /\ NoCopyLeft => KeysAreKept
  BY DEF KeysAreKept
<1> QED BY <1>1, <1>2, <1>3, <1>4, <1>5, <1>6, Bookkeeping, PTL DEF Spec
=============================================================================
