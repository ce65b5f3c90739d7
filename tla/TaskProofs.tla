------------------------------ MODULE TaskProofs ------------------------------
(***************************************************************************)
(* Proofs about what a coding task does.  Its commands: the policy         *)
(* (CommandPolicy), for any words, projects, plans and edits, that what is *)
(* refused stays refused with further words, that what a project declares  *)
(* needs an approval and is declared once, and that what runs by an        *)
(* approval is what the user has seen (the inductive invariant is IInv);   *)
(* the stops (CommandTree), for any number of processes and failures, that *)
(* a stop forgets nothing it was shown (TreeInv).  Then its edits, undo    *)
(* and export (TaskChanges; GInv and UInv), its preview (Preview; PInv)    *)
(* and the browser check of it (BrowserCheck; QInv).  Each part ends in a  *)
(* theorem about the behaviours of its run, MCCommands and MCTaskWork.     *)
(***************************************************************************)
EXTENDS Integers, MCCommands, MCTaskWork, FiniteSetTheorems, SequenceTheorems, TLAPS

-----------------------------------------------------------------------------
(* What is refused *)

LEMMA GitRefusalStands ==
  ASSUME NEW rest \in Seq(Words), NEW w \in Words, GitRefused(rest)
  PROVE  GitRefused(Append(rest, w))
<1> DEFINE more == Append(rest, w)
<1>1. /\ more \in Seq(Words) /\ Len(more) = Len(rest) + 1
      /\ \A n \in 1 .. Len(rest) : more[n] = rest[n]
      /\ rest # <<>> /\ Len(rest) \in Nat /\ Len(rest) > 0
  BY EmptySeq, LenProperties DEF GitRefused
<1>2. more # <<>> /\ more[1] = rest[1] /\ (Len(rest) > 1 => more[2] = rest[2])
  BY <1>1
<1> HIDE DEF more
<1>3. CASE rest[1] \in GitBlocked
  BY <1>2, <1>3 DEF GitRefused
<1>4. CASE rest[1] = "remote" /\ Len(rest) > 1 /\ rest[2] \in RemoteMutations
  BY <1>1, <1>2, <1>4 DEF GitRefused
<1>5. CASE rest[1] = "branch" /\ \E n \in 2 .. Len(rest) : rest[n] \in BranchDestructive
  <2>1. PICK n \in 2 .. Len(rest) : rest[n] \in BranchDestructive
    BY <1>5
  <2>2. n \in 2 .. Len(more) /\ more[n] \in BranchDestructive
    BY <1>1, <2>1
  <2> QED BY <1>2, <1>5, <2>2 DEF GitRefused
<1>6. \/ rest[1] \in GitBlocked
      \/ rest[1] = "remote" /\ Len(rest) > 1 /\ rest[2] \in RemoteMutations
      \/ rest[1] = "branch" /\ \E n \in 2 .. Len(rest) : rest[n] \in BranchDestructive
  BY DEF GitRefused
<1> QED BY <1>3, <1>4, <1>5, <1>6

(* No further word turns a refusal into anything else, whatever the word   *)
(* (classify, _classify_git).                                              *)
THEOREM RefusalsStand ==
  ASSUME NEW argv \in Seq(Words), NEW w \in Words, argv # <<>>, Refused(argv)
  PROVE  Refused(Append(argv, w))
<1> DEFINE more == Append(argv, w)
<1>1. /\ more \in Seq(Words) /\ Len(more) = Len(argv) + 1
      /\ \A n \in 1 .. Len(argv) : more[n] = argv[n]
      /\ Len(argv) \in Nat /\ Len(argv) > 0
  BY EmptySeq, LenProperties
<1>2. more # <<>> /\ more[1] = argv[1] /\ DOMAIN argv = 1 .. Len(argv)
      /\ DOMAIN more = 1 .. Len(more)
  BY <1>1
<1>3. Tail(argv) \in Seq(Words) /\ Tail(more) = Append(Tail(argv), w)
  BY <1>1
<1> HIDE DEF more
<1>4. CASE \E n \in DOMAIN argv : argv[n] \in Shellish
  <2>1. \E n \in DOMAIN more : more[n] \in Shellish
    BY <1>1, <1>2, <1>4
  <2> QED BY <2>1 DEF Refused, more
<1>5. CASE argv[1] = "" \/ Stem(argv[1]) \in BlockedPrograms \/ argv[1] \in Paths
  BY <1>2, <1>5 DEF Refused, more
<1>6. CASE Stem(argv[1]) = "git" /\ GitRefused(Tail(argv))
  <2>1. GitRefused(Tail(more))
    BY <1>3, <1>6, GitRefusalStands
  <2> QED BY <1>2, <1>6, <2>1 DEF Refused, more
<1> QED BY <1>4, <1>5, <1>6 DEF Refused

(* So it is for the commands that are proposed.                            *)
THEOREM TheRefusalStands == RefusalStands
  BY PolicyAssumption, RefusalsStand DEF RefusalStands

-----------------------------------------------------------------------------
(* What is declared *)

(* The names of two intents are different names, and none begins a tool.   *)
LEMMA CandidatesDiffer ==
  ASSUME NEW i \in Intents, NEW j \in Intents, i # j,
         NEW n \in DOMAIN Candidates[i], NEW m \in DOMAIN Candidates[j]
  PROVE  Candidates[i][n] # Candidates[j][m]
  BY SMTT(60) DEF Intents, Candidates

LEMMA FewHaveLeast ==
  ASSUME NEW S, S \subseteq 1 .. 5, S # {}
  PROVE  \E n \in S : \A m \in S : n <= m
<1>1. CASE 1 \in S
  BY <1>1
<1>2. CASE 1 \notin S /\ 2 \in S
  BY <1>2
<1>3. CASE 1 \notin S /\ 2 \notin S /\ 3 \in S
  BY <1>3
<1>4. CASE 1 \notin S /\ 2 \notin S /\ 3 \notin S /\ 4 \in S
  BY <1>4
<1>5. CASE 1 \notin S /\ 2 \notin S /\ 3 \notin S /\ 4 \notin S
  <2>1. PICK x \in S : TRUE
    OBVIOUS
  <2>2. \A y \in S : y = 5
    BY <1>5
  <2> QED BY <2>1, <2>2
<1> QED BY <1>1, <1>2, <1>3, <1>4, <1>5

LEMMA FewCandidates ==
  ASSUME NEW i \in Intents
  PROVE  DOMAIN Candidates[i] \subseteq 1 .. 5
  BY DEF Intents, Candidates

(* A declared script is one of the names its intent goes by.               *)
LEMMA ScriptIsNamed ==
  ASSUME NEW p, NEW i \in FromNode(p)
  PROVE  \E n \in DOMAIN Candidates[i] : ScriptOf(p, i) = Candidates[i][n]
<1>1. i \in Intents /\ Named(p, i) # {} /\ Named(p, i) \subseteq DOMAIN Candidates[i]
  BY DEF FromNode, Named
<1>2. Named(p, i) \subseteq 1 .. 5
  BY <1>1, FewCandidates
<1>3. PICK n \in Named(p, i) : \A m \in Named(p, i) : n <= m
  BY <1>1, <1>2, FewHaveLeast
<1>5. (CHOOSE k \in Named(p, i) : \A other \in Named(p, i) : k <= other) \in Named(p, i)
  BY <1>3
<1> QED BY <1>1, <1>5 DEF ScriptOf

LEMMA ThreeWords ==
  ASSUME NEW a, NEW b, NEW c
  PROVE  Append(<<a, b>>, c) = <<a, b, c>>
<1>1. <<a, b>> \in Seq({a, b, c}) /\ <<a, b, c>> \in Seq({a, b, c})
  OBVIOUS
<1>2. Append(<<a, b>>, c) \in Seq({a, b, c}) /\ Len(Append(<<a, b>>, c)) = 3
  BY <1>1
<1>3. \A n \in 1 .. 3 : Append(<<a, b>>, c)[n] = <<a, b, c>>[n]
  BY <1>1
<1> QED BY <1>1, <1>2, <1>3, SeqEqual

LEMMA OfThree ==
  ASSUME NEW f, NEW a, NEW b, NEW c, f = <<a, b, c>>
  PROVE  f # <<>> /\ f[1] = a /\ f[3] = c /\ \A n \in DOMAIN f : f[n] \in {a, b, c}
  OBVIOUS

(* What the first word of a declared command may be.                       *)
LEMMA PrefixIsTwo ==
  ASSUME NEW p
  PROVE  \E m \in NodeManagers : RunPrefix(p) = <<m, "run">>
  BY DEF RunPrefix, NodeManagers

LEMMA DeclaredFromNode ==
  ASSUME NEW p, NEW i \in FromNode(p)
  PROVE  LET argv == Declared(p)[i].argv
         IN  \E m \in NodeManagers, n \in DOMAIN Candidates[i] :
               /\ argv # <<>> /\ argv[1] = m /\ argv[3] = Candidates[i][n]
               /\ \A k \in DOMAIN argv : argv[k] \in {m, "run", Candidates[i][n]}
<1>1. PICK m \in NodeManagers : RunPrefix(p) = <<m, "run">>
  BY PrefixIsTwo
<1>2. PICK n \in DOMAIN Candidates[i] : ScriptOf(p, i) = Candidates[i][n]
  BY ScriptIsNamed
<1> DEFINE argv == Declared(p)[i].argv
           last == Candidates[i][n]
<1>3. argv = Append(RunPrefix(p), ScriptOf(p, i))
  BY DEF Declared
<1> HIDE DEF argv, last
<1>4. argv = Append(<<m, "run">>, last)
  BY <1>1, <1>2, <1>3 DEF last
<1>5. argv = <<m, "run", last>>
  BY <1>4, ThreeWords
<1>6. /\ argv # <<>> /\ argv[1] = m /\ argv[3] = last
      /\ \A k \in DOMAIN argv : argv[k] \in {m, "run", last}
  BY <1>5, OfThree
<1> QED BY <1>6 DEF argv, last

LEMMA DeclaredFromPython ==
  ASSUME NEW p, NEW i \in DOMAIN Declared(p), i \notin FromNode(p)
  PROVE  /\ i \in DOMAIN PythonRuns
         /\ Declared(p)[i].argv = PythonRuns[i]
  BY DEF Declared, FromPython

LEMMA PythonRunsDiffer ==
  /\ \A i \in DOMAIN PythonRuns :
       /\ PythonRuns[i] # <<>> /\ DOMAIN PythonRuns[i] \subseteq Nat
       /\ 1 \in DOMAIN PythonRuns[i] /\ PythonRuns[i][1] = "python"
       /\ \A j \in DOMAIN PythonRuns : PythonRuns[i] = PythonRuns[j] => i = j
  BY DEF PythonRuns

LEMMA NodeManagersKnown ==
  /\ NodeManagers \subseteq KnownToolchain \ {"git", "", "python"}
  /\ "python" \in KnownToolchain \ {"git", ""}
  /\ KnownToolchain \cap BlockedPrograms = {}
  BY DEF NodeManagers, KnownToolchain, BlockedPrograms

(* Each declaration is of one intent.                                      *)
LEMMA DeclaredOnce ==
  ASSUME NEW p, NEW i \in DOMAIN Declared(p), NEW j \in DOMAIN Declared(p),
         Declared(p)[i].argv = Declared(p)[j].argv
  PROVE  i = j
<1>1. ASSUME NEW a \in FromNode(p), NEW b \in DOMAIN Declared(p), b \notin FromNode(p)
      PROVE  Declared(p)[a].argv # Declared(p)[b].argv
  <2>1. PICK m \in NodeManagers, n \in DOMAIN Candidates[a] :
          Declared(p)[a].argv[1] = m
    BY DeclaredFromNode
  <2>2. m # "python"
    BY NodeManagersKnown
  <2>3. b \in DOMAIN PythonRuns /\ Declared(p)[b].argv = PythonRuns[b]
    BY <1>1, DeclaredFromPython
  <2>4. Declared(p)[b].argv[1] = "python"
    BY <2>3, PythonRunsDiffer
  <2> QED BY <2>1, <2>2, <2>4
<1>2. CASE i \in FromNode(p) /\ j \in FromNode(p)
  <2>1. PICK m \in NodeManagers, n \in DOMAIN Candidates[i] :
          Declared(p)[i].argv[3] = Candidates[i][n]
    BY <1>2, DeclaredFromNode
  <2>2. PICK k \in NodeManagers, l \in DOMAIN Candidates[j] :
          Declared(p)[j].argv[3] = Candidates[j][l]
    BY <1>2, DeclaredFromNode
  <2>3. Candidates[i][n] = Candidates[j][l]
    BY <2>1, <2>2
  <2>4. i \in Intents /\ j \in Intents
    BY <1>2 DEF FromNode
  <2> QED BY <2>3, <2>4, CandidatesDiffer
<1>3. CASE i \notin FromNode(p) /\ j \notin FromNode(p)
  BY <1>3, DeclaredFromPython, PythonRunsDiffer
<1> QED BY <1>1, <1>2, <1>3

(* And nothing that is declared is refused, or runs without a question.    *)
LEMMA DeclaredIsAsked ==
  ASSUME NEW p \in Projects, NEW i \in DOMAIN Declared(p)
  PROVE  Tier(Declared(p)[i].argv, Declared(p)) = "approval"
<1> DEFINE argv == Declared(p)[i].argv
<1>1. /\ argv # <<>> /\ argv[1] \in KnownToolchain \ {"git", ""}
      /\ \A n \in DOMAIN argv : argv[n] \notin Shellish
  <2>1. CASE i \in FromNode(p)
    <3>1. PICK m \in NodeManagers, n \in DOMAIN Candidates[i] :
            /\ argv # <<>> /\ argv[1] = m
            /\ \A k \in DOMAIN argv : argv[k] \in {m, "run", Candidates[i][n]}
      BY <2>1, DeclaredFromNode
    <3>2. m \notin Shellish /\ "run" \notin Shellish /\ Candidates[i][n] \notin Shellish
      BY <2>1, PolicyAssumption DEF FromNode
    <3> QED BY <3>1, <3>2, NodeManagersKnown
  <2>2. CASE i \notin FromNode(p)
    <3>1. i \in DOMAIN PythonRuns /\ argv = PythonRuns[i]
      BY <2>2, DeclaredFromPython
    <3> QED BY <3>1, PythonRunsDiffer, NodeManagersKnown, PolicyAssumption
  <2> QED BY <2>1, <2>2
<1>2. i \in Declaring(argv, Declared(p))
  BY DEF Declaring
<1> HIDE DEF argv
<1>3. Stem(argv[1]) = argv[1] /\ argv[1] \notin Paths
  BY <1>1, PolicyAssumption DEF Stem
<1>4. ~ Refused(argv)
  BY <1>1, <1>3, NodeManagersKnown DEF Refused
<1>5. ~ Reads(argv, Declared(p))
  BY <1>1, <1>2, <1>3 DEF Reads
<1> QED BY <1>4, <1>5 DEF Tier, argv

(* A declaration is evidence, not permission: it has to be approved, and   *)
(* the request names the one script that is meant (classify,               *)
(* project_commands).                                                      *)
THEOREM TheDeclarationsAsk == DeclarationsAsk
<1> SUFFICES ASSUME NEW p \in Projects, NEW i \in DOMAIN Declared(p)
             PROVE  /\ Tier(Declared(p)[i].argv, Declared(p)) = "approval"
                    /\ Declaring(Declared(p)[i].argv, Declared(p)) = {i}
  BY DEF DeclarationsAsk
<1>1. Tier(Declared(p)[i].argv, Declared(p)) = "approval"
  BY DeclaredIsAsked
<1>2. Declaring(Declared(p)[i].argv, Declared(p)) = {i}
  BY DeclaredOnce DEF Declaring
<1> QED BY <1>1, <1>2

-----------------------------------------------------------------------------
(* What runs *)

(* The request that a key stands for: a key says all that is shown.        *)
RequestOf(key) ==
  [kind |-> "request", argv |-> key.argv, entry |-> key.entry,
   says |-> Says(key.argv, key.entry)]

AsksFor(asks) ==
  /\ asks.kind \in {"none", "asks"}
  /\ asks.kind = "none" <=> asks = None
  /\ asks # None => asks.request = RequestOf(asks.key) /\ asks.what \in Commands \cup Previews

JobInv ==
  /\ job = [at |-> job.at, what |-> job.what, seen |-> job.seen, key |-> job.key,
            asks |-> job.asks]
  /\ job.at \in {"idle", "execute", "end"} /\ (job.at = "idle" => job = Idle)
  /\ job.at # "idle" => job.what \in Commands \cup Previews
  /\ AsksFor(job.asks)

(* An approval is only there while the thread it was given to is at work,  *)
(* and that thread remembers what the user saw when he gave it.            *)
TokenInv ==
  /\ job.at = "idle" => tokens = {}
  /\ tokens \subseteq {job.key}
  /\ tokens # {} => job.seen = RequestOf(job.key)

PlanInv ==
  /\ plans = [n \in 1 .. MaxPlans |-> plans[n]]
  /\ \A n \in 1 .. MaxPlans :
       /\ plans[n].kind \in {"none", "plan"}
       /\ plans[n] # None => plans[n].request = RequestOf(plans[n].key)

RanInv == ran.kind \in {"none", "ran"} /\ RunsAsReviewed

IInv ==
  /\ project \in Projects /\ edits \in 0 .. MaxEdits
  /\ AsksFor(pending) /\ JobInv /\ TokenInv /\ PlanInv /\ RanInv

LEMMA KeySaysAll ==
  ASSUME NEW argv, NEW declared
  PROVE  Request(argv, declared) = RequestOf(Key(argv, declared))
  BY DEF Request, Key, RequestOf

LEMMA NoneIsNone == None.kind = "none" /\ \A r : r.kind # "none" => r # None
  BY DEF None

THEOREM PolicyStarts == Init => IInv
<1> SUFFICES ASSUME Init PROVE IInv
  OBVIOUS
<1>1. AsksFor(pending) /\ JobInv /\ TokenInv
  BY NoneIsNone DEF Init, AsksFor, JobInv, TokenInv, Idle
<1>2. PlanInv /\ RanInv
  BY NoneIsNone DEF Init, PlanInv, RanInv, RunsAsReviewed
<1> QED BY <1>1, <1>2, PolicyBounds DEF Init, IInv

(* What is started by an approval, or without one if it may be.            *)
LEMMA StartedAsReviewed ==
  ASSUME NEW argv, NEW declared, NEW seen, Started(argv, declared, seen),
         \/ Tier(argv, declared) = "auto"
         \/ Tier(argv, declared) = "approval" /\ seen = Request(argv, declared)
  PROVE  RanInv'
<1>1. /\ ran'.kind = "ran" /\ ran'.tier = Tier(argv, declared)
      /\ ran'.now = Request(argv, declared) /\ ran'.seen = seen
  BY DEF Started
<1> QED BY <1>1 DEF RanInv, RunsAsReviewed

LEMMA RanStays == IInv /\ UNCHANGED ran => RanInv'
  BY DEF IInv, RanInv, RunsAsReviewed

LEMMA PlansStay == IInv /\ UNCHANGED plans => PlanInv'
  BY DEF IInv, PlanInv

LEMMA ProposeStep ==
  ASSUME IInv, NEW what \in Commands \cup Previews, Propose(what)
  PROVE  IInv'
<1>1. /\ job.at = "idle" /\ job = Idle /\ tokens = {}
      /\ job' = [Idle EXCEPT !.at = "execute", !.what = what]
  BY DEF Propose, IInv, TokenInv, Idle
<1>2. job' = [at |-> "execute", what |-> what, seen |-> None, key |-> None, asks |-> None]
  BY <1>1 DEF Idle
<1>3. JobInv'
  BY <1>2, NoneIsNone DEF JobInv, AsksFor
<1>4. TokenInv' /\ AsksFor(pending)'
  BY <1>1, <1>2 DEF TokenInv, Propose, IInv, AsksFor
<1> QED BY <1>3, <1>4, RanStays, PlansStay DEF IInv, Propose

(* Through leaves the thread with what it asks for.                        *)
LEMMA ThroughKeepsJob ==
  ASSUME IInv, NEW asks, AsksFor(asks), job.at = "execute", Through(asks)
  PROVE  JobInv' /\ job'.at = "end" /\ job'.key = job.key /\ job'.seen = job.seen
<1>1. job' = [at |-> "end", what |-> job.what, seen |-> job.seen, key |-> job.key,
              asks |-> asks]
  BY DEF Through, IInv, JobInv
<1>2. job.what \in Commands \cup Previews
  BY DEF IInv, JobInv
<1> QED BY <1>1, <1>2 DEF JobInv, AsksFor

LEMMA NothingIsAsked == AsksFor(None)
  BY NoneIsNone DEF AsksFor

LEMMA AskOrRunStep ==
  ASSUME IInv, NEW argv, NEW declared, job.at = "execute",
         Tier(argv, declared) = "approval", AskOrRun(argv, declared)
  PROVE  JobInv' /\ TokenInv' /\ RanInv'
<1> DEFINE key == Key(argv, declared)
<1>0. job.what \in Commands \cup Previews
  BY DEF IInv, JobInv
<1>1. CASE /\ key \in tokens /\ tokens' = tokens \ {key}
           /\ Started(argv, declared, job.seen) /\ Through(None)
  <2>1. key = job.key /\ job.seen = RequestOf(key)
    BY <1>1 DEF IInv, TokenInv
  <2>2. RanInv'
    BY <1>1, <2>1, KeySaysAll, StartedAsReviewed
  <2>3. JobInv' /\ job'.at = "end" /\ job'.key = job.key /\ job'.seen = job.seen
    BY <1>1, NothingIsAsked, ThroughKeepsJob
  <2>4. TokenInv'
    BY <1>1, <2>1, <2>3 DEF IInv, TokenInv
  <2> QED BY <2>2, <2>3, <2>4
<1>2. CASE /\ UNCHANGED <<tokens, ran>>
           /\ Through([kind |-> "asks", what |-> job.what, key |-> key,
                       request |-> Request(argv, declared)])
  <2> DEFINE asks == [kind |-> "asks", what |-> job.what, key |-> key,
                      request |-> Request(argv, declared)]
  <2>1. asks.kind = "asks" /\ asks.request = RequestOf(asks.key) /\ asks.what = job.what
    BY KeySaysAll
  <2>2. AsksFor(asks)
    <3> HIDE DEF asks
    <3> QED BY <1>0, <2>1, NoneIsNone DEF AsksFor
  <2>3. JobInv' /\ job'.at = "end" /\ job'.key = job.key /\ job'.seen = job.seen
    BY <1>2, <2>2, ThroughKeepsJob
  <2>4. TokenInv'
    BY <1>2, <2>3 DEF IInv, TokenInv
  <2> QED BY <1>2, <2>3, <2>4, RanStays
<1> QED BY <1>1, <1>2 DEF AskOrRun

LEMMA ExecuteStep == IInv /\ Execute => IInv'
<1> SUFFICES ASSUME IInv, Execute PROVE IInv'
  OBVIOUS
<1> DEFINE declared == Declared(project)
           argv == job.what.argv
           script == job.what.script
<1>1. /\ job.at = "execute" /\ UNCHANGED <<project, pending, plans, edits>>
      /\ project \in Projects
  BY DEF Execute, IInv
<1>2. SUFFICES JobInv' /\ TokenInv' /\ RanInv'
  BY <1>1, <1>2, PlansStay DEF IInv, AsksFor
<1>3. CASE RefuseIt
  <2>1. JobInv' /\ job'.at = "end" /\ job'.key = job.key /\ job'.seen = job.seen
    BY <1>1, <1>3, NothingIsAsked, ThroughKeepsJob DEF RefuseIt
  <2>2. TokenInv' /\ RanInv'
    BY <1>3, <2>1, RanStays DEF RefuseIt, IInv, TokenInv
  <2> QED BY <2>1, <2>2
<1>4. CASE /\ Tier(argv, declared) = "auto"
           /\ Started(argv, declared, job.seen) /\ Through(None) /\ UNCHANGED tokens
  <2>1. JobInv' /\ job'.at = "end" /\ job'.key = job.key /\ job'.seen = job.seen
    BY <1>1, <1>4, NothingIsAsked, ThroughKeepsJob
  <2>2. TokenInv'
    BY <1>4, <2>1 DEF IInv, TokenInv
  <2>3. RanInv'
    BY <1>4, StartedAsReviewed
  <2> QED BY <2>1, <2>2, <2>3
<1>5. CASE Tier(argv, declared) = "approval" /\ AskOrRun(argv, declared)
  BY <1>1, <1>5, AskOrRunStep
<1>6. CASE script \in DOMAIN declared /\ AskOrRun(declared[script].argv, declared)
  <2>1. Tier(declared[script].argv, declared) = "approval"
    BY <1>1, <1>6, DeclaredIsAsked
  <2> QED BY <1>1, <1>6, <2>1, AskOrRunStep
<1> QED BY <1>3, <1>4, <1>5, <1>6 DEF Execute

LEMMA LeaveStep == IInv /\ Leave => IInv'
<1> SUFFICES ASSUME IInv, Leave PROVE IInv'
  OBVIOUS
<1>1. /\ job' = Idle /\ pending' = job.asks /\ tokens' = {}
      /\ UNCHANGED <<project, plans, edits, ran>>
  BY DEF Leave, IInv, TokenInv
<1>2. JobInv' /\ TokenInv'
  BY <1>1, NothingIsAsked DEF JobInv, TokenInv, Idle, AsksFor
<1>3. AsksFor(pending)'
  BY <1>1 DEF IInv, JobInv, AsksFor
<1> QED BY <1>1, <1>2, <1>3, RanStays, PlansStay DEF IInv

LEMMA DecideStep ==
  ASSUME IInv, NEW granted \in BOOLEAN, Decide(granted)
  PROVE  IInv'
<1>1. /\ job = Idle /\ job.at = "idle" /\ tokens = {} /\ pending # None /\ pending' = None
      /\ UNCHANGED <<project, plans, edits, ran>>
  BY DEF Decide, IInv, TokenInv, Idle
<1>2. AsksFor(pending)'
  BY <1>1, NothingIsAsked DEF AsksFor
<1>3. CASE granted
  <2>1. /\ tokens' = {pending.key}
        /\ job' = [at |-> "execute", what |-> pending.what, seen |-> pending.request,
                   key |-> pending.key, asks |-> None]
    BY <1>1, <1>3 DEF Decide
  <2>2. pending.request = RequestOf(pending.key) /\ pending.what \in Commands \cup Previews
    BY <1>1 DEF IInv, AsksFor
  <2>3. JobInv'
    BY <2>1, <2>2, NothingIsAsked DEF JobInv, AsksFor
  <2>4. TokenInv'
    BY <2>1, <2>2 DEF TokenInv
  <2> QED BY <1>1, <1>2, <2>3, <2>4, RanStays, PlansStay DEF IInv
<1>4. CASE ~ granted
  <2>1. UNCHANGED <<tokens, job>>
    BY <1>4 DEF Decide
  <2>2. JobInv' /\ TokenInv'
    BY <2>1 DEF IInv, JobInv, TokenInv, AsksFor
  <2> QED BY <1>1, <1>2, <2>2, RanStays, PlansStay DEF IInv
<1> QED BY <1>3, <1>4

(* Where the thread, its approvals and what waits are left alone.          *)
Aside == UNCHANGED <<tokens, pending, job>>

LEMMA AsideKeeps == IInv /\ Aside => AsksFor(pending)' /\ JobInv' /\ TokenInv'
  BY DEF Aside, IInv, JobInv, TokenInv, AsksFor

LEMMA PlanPreviewStep ==
  ASSUME IInv, NEW n \in 1 .. MaxPlans, NEW i \in Intents, PlanPreview(n, i)
  PROVE  IInv'
<1> DEFINE declared == Declared(project)
           plan == [kind |-> "plan", script |-> i, key |-> Key(declared[i].argv, declared),
                    request |-> Request(declared[i].argv, declared)]
<1>1. /\ Aside /\ UNCHANGED <<project, edits, ran>>
      /\ plans' = [plans EXCEPT ![n] = plan]
  BY DEF PlanPreview, Aside
<1>2. plan.kind = "plan" /\ plan.request = RequestOf(plan.key)
  BY KeySaysAll
<1> HIDE DEF plan
<1>3. PlanInv'
  BY <1>1, <1>2 DEF IInv, PlanInv
<1> QED BY <1>1, <1>3, AsideKeeps, RanStays DEF IInv

LEMMA PlanTaken ==
  ASSUME IInv, NEW n \in 1 .. MaxPlans, plans' = [plans EXCEPT ![n] = None]
  PROVE  PlanInv'
  BY NoneIsNone DEF IInv, PlanInv

LEMMA StartPreviewStep ==
  ASSUME IInv, NEW n \in 1 .. MaxPlans, StartPreview(n)
  PROVE  IInv'
<1> DEFINE declared == Declared(project)
           plan == plans[n]
           argv == declared[plan.script].argv
<1>1. /\ Aside /\ UNCHANGED <<project, edits>> /\ plan # None
      /\ plans' = [plans EXCEPT ![n] = None]
  BY DEF StartPreview, Aside
<1>2. RanInv'
  <2>1. CASE /\ plan.script \in DOMAIN declared /\ Key(argv, declared) = plan.key
             /\ Started(argv, declared, plan.request)
    <3>1. plan.request = Request(argv, declared)
      BY <1>1, <2>1, KeySaysAll DEF IInv, PlanInv
    <3>2. Tier(argv, declared) = "approval"
      BY <2>1, DeclaredIsAsked DEF IInv
    <3> QED BY <2>1, <3>1, <3>2, StartedAsReviewed
  <2>2. CASE UNCHANGED ran
    BY <2>2, RanStays
  <2> QED BY <2>1, <2>2 DEF StartPreview
<1> QED BY <1>1, <1>2, PlanTaken, AsideKeeps DEF IInv

(* The inductive invariant: every step keeps it.                           *)
THEOREM PolicyStepKeeps == IInv /\ [Next]_vars => IInv'
<1> SUFFICES ASSUME IInv, [Next]_vars PROVE IInv'
  OBVIOUS
<1>1. CASE \E what \in Commands \cup Previews : Propose(what)
  BY <1>1, ProposeStep
<1>2. CASE Execute
  BY <1>2, ExecuteStep
<1>3. CASE Leave
  BY <1>3, LeaveStep
<1>4. CASE \E granted \in BOOLEAN : Decide(granted)
  BY <1>4, DecideStep
<1>5. CASE \E n \in 1 .. MaxPlans : PlanGoes(n)
  <2>1. PICK n \in 1 .. MaxPlans : PlanGoes(n)
    BY <1>5
  <2>2. PlanInv'
    BY <2>1, PlanTaken DEF PlanGoes
  <2> QED BY <2>1, <2>2, AsideKeeps, RanStays DEF PlanGoes, Aside, IInv
<1>6. CASE \E n \in 1 .. MaxPlans : StartPreview(n)
  BY <1>6, StartPreviewStep
<1>7. CASE \E n \in 1 .. MaxPlans, i \in Intents : PlanPreview(n, i)
  BY <1>7, PlanPreviewStep
<1>8. CASE \E p \in Projects : Edit(p)
  <2>1. project' \in Projects /\ edits' \in 0 .. MaxEdits
    BY <1>8, PolicyBounds DEF Edit, IInv
  <2>2. Aside /\ UNCHANGED <<plans, ran>>
    BY <1>8 DEF Edit, Aside
  <2> QED BY <2>1, <2>2, AsideKeeps, RanStays, PlansStay DEF IInv
<1>9. CASE UNCHANGED vars
  <2>1. Aside /\ UNCHANGED <<project, plans, edits, ran>>
    BY <1>9 DEF vars, Aside
  <2> QED BY <2>1, AsideKeeps, RanStays, PlansStay DEF IInv
<1> QED BY <1>1, <1>2, <1>3, <1>4, <1>5, <1>6, <1>7, <1>8, <1>9 DEF Next

THEOREM PolicyBookkeeping == Spec => []IInv
  BY PolicyStarts, PolicyStepKeeps, PTL DEF Spec

(* What the user is asked about he has seen, in the words and with the     *)
(* declaration that are there when it is started, and what is refused is   *)
(* never started (execute_proposal, approve, start_preview).               *)
THEOREM WhatRunsWasReviewed == Spec => []RunsAsReviewed
<1>1. IInv => RunsAsReviewed
  BY DEF IInv, RanInv
<1> QED BY <1>1, PolicyBookkeeping, PTL

(* The variables keep their types.                                         *)
THEOREM PolicyTypes == Spec => []TypeOK
<1>1. IInv => TypeOK
  BY NoneIsNone DEF IInv, JobInv, PlanInv, RanInv, AsksFor, TypeOK, Idle
<1> QED BY <1>1, PolicyBookkeeping, PTL

-----------------------------------------------------------------------------
(* The processes of a command *)

(* The processes of some identities.                                       *)
ProcsOf(ids) == {i.proc : i \in ids}

TreeTypes ==
  /\ births \in Nat /\ alive \subseteq 1 .. births /\ births <= MaxProcs
  /\ root \in 0 .. births
  /\ own \subseteq Tree!Identities /\ captured \subseteq Tree!Identities
  /\ at \in [Tree!Callers -> Tree!Places]
  /\ targets \in [Tree!Callers -> SUBSET Tree!Identities]
  /\ live \in [Tree!Callers -> SUBSET Tree!Procs]
  /\ unknown \in [Tree!Callers -> SUBSET Tree!Procs]
  /\ promised \in [Tree!Callers -> SUBSET (1 .. births)]

(* What was shown is remembered, and nothing is shown before it is born.   *)
KnownInv ==
  /\ shown \subseteq ProcsOf(captured \cup own) /\ shown \subseteq 1 .. births
  /\ at["run"] \in {"idle", "identify"} => own = {}

(* A stop has what it was shown among what it still works on.              *)
StopOf(k) ==
  /\ at[k] \in {"expand", "resolve"} => promised[k] \cap alive \subseteq ProcsOf(targets[k])
  /\ at[k] \in {"grace", "last"} => promised[k] \cap alive \subseteq live[k] \cup unknown[k]
  /\ at[k] \in {"gather", "expand", "resolve", "grace", "last"} => cancelled

(* A command that ended by itself is gone, and is not signalled later.     *)
EndInv ==
  /\ signalled # {} => cancelled
  /\ at["run"] # "over" => outcome = "none"
  /\ at["run"] = "join" /\ ~timedOut /\ ~cancelled => root \notin alive
  /\ outcome = "ok" => root \notin alive /\ root \notin signalled

TreeInv ==
  /\ TreeTypes /\ KnownInv /\ EndInv /\ forgotten = {}
  /\ \A k \in Tree!Callers : StopOf(k)

LEMMA ProcsOfUnion ==
  ASSUME NEW S, NEW T
  PROVE  ProcsOf(S \cup T) = ProcsOf(S) \cup ProcsOf(T)
  BY DEF ProcsOf

LEMMA BelowLives == \A b : Tree!Below(b) \subseteq alive
  BY DEF Tree!Below

LEMMA SeenIsBelow ==
  ASSUME NEW below \in SUBSET Tree!Procs, NEW ids \in Tree!Seen(below)
  PROVE  ids \subseteq Tree!Identities /\ ProcsOf(ids) \subseteq below
  BY DEF Tree!Seen, Tree!Identities, ProcsOf


LEMMA TreeStarts == Tree!Init => TreeInv
<1> SUFFICES ASSUME Tree!Init PROVE TreeInv
  OBVIOUS
<1>1. TreeTypes
  BY CommandBounds DEF Tree!Init, TreeTypes, Tree!Places
<1>2. KnownInv /\ EndInv /\ forgotten = {} /\ \A k \in Tree!Callers : StopOf(k)
  BY DEF Tree!Init, KnownInv, EndInv, StopOf
<1> QED BY <1>1, <1>2 DEF TreeInv

(* A process comes up: nobody has been shown it yet.                       *)
LEMMA BornKeeps ==
  ASSUME TreeInv, NEW by, NEW p, Tree!Born(by, p),
         UNCHANGED <<own, captured, cancelled, shown, targets, live, unknown, promised,
                     forgotten, signalled, timedOut>>,
         \/ UNCHANGED <<root, at, outcome>>
         \/ /\ root' = births + 1 /\ UNCHANGED outcome
            /\ at["run"] = "idle" /\ at' = [at EXCEPT !["run"] = "identify"]
  PROVE  TreeInv'
<1>1. births' = births + 1 /\ alive' = alive \cup {births + 1} /\ births < MaxProcs
  BY DEF Tree!Born
<1>2. births' \in Nat /\ births' <= MaxProcs /\ 1 .. births \subseteq 1 .. births'
      /\ births + 1 \in 1 .. births' /\ births + 1 \notin 1 .. births
  BY <1>1, CommandBounds DEF TreeInv, TreeTypes
<1>3. at' \in [Tree!Callers -> Tree!Places] /\ root' \in 0 .. births'
  BY <1>1, <1>2 DEF TreeInv, TreeTypes, Tree!Places
<1>4. TreeTypes'
  BY <1>1, <1>2, <1>3 DEF TreeInv, TreeTypes
<1>5. KnownInv'
  BY <1>2 DEF TreeInv, TreeTypes, KnownInv, Tree!Callers
<1>6. EndInv'
  BY <1>1 DEF TreeInv, TreeTypes, EndInv, Tree!Callers
<1>7. ASSUME NEW k \in Tree!Callers PROVE StopOf(k)'
  <2>1. promised'[k] \cap alive' = promised[k] \cap alive
    BY <1>1, <1>2 DEF TreeInv, TreeTypes
  <2>2. at'[k] = at[k] \/ at'[k] = "identify"
    BY DEF TreeInv, TreeTypes
  <2> QED BY <2>1, <2>2 DEF TreeInv, StopOf
<1> QED BY <1>4, <1>5, <1>6, <1>7 DEF TreeInv

LEMMA ExitKeeps == TreeInv /\ Tree!Exit => TreeInv'
<1> SUFFICES ASSUME TreeInv, Tree!Exit PROVE TreeInv'
  OBVIOUS
<1>1. /\ alive' \subseteq alive /\ births' = births
      /\ UNCHANGED <<root, own, captured, cancelled, shown, at, targets, live, unknown,
                     promised, forgotten, signalled, timedOut, outcome>>
  BY DEF Tree!Exit, Tree!handle, Tree!cleanup, Tree!ending
<1>2. TreeTypes'
  BY <1>1 DEF TreeInv, TreeTypes
<1>3. KnownInv' /\ EndInv' /\ forgotten' = {}
  BY <1>1 DEF TreeInv, KnownInv, EndInv
<1>4. \A k \in Tree!Callers : StopOf(k)'
  BY <1>1 DEF TreeInv, StopOf
<1> QED BY <1>2, <1>3, <1>4 DEF TreeInv

LEMMA SpawnKeeps == TreeInv /\ Tree!Spawn => TreeInv'
<1> SUFFICES ASSUME TreeInv, Tree!Spawn PROVE TreeInv'
  OBVIOUS
<1>1. PICK by, p : Tree!Born(by, p)
  BY DEF Tree!Spawn
<1>2. UNCHANGED <<root, own, captured, cancelled, shown, at, targets, live, unknown,
                  promised, forgotten, signalled, timedOut, outcome>>
  BY DEF Tree!Spawn, Tree!handle, Tree!cleanup, Tree!ending
<1> QED BY <1>1, <1>2, BornKeeps

LEMMA StartKeeps == TreeInv /\ Tree!Start => TreeInv'
<1> SUFFICES ASSUME TreeInv, Tree!Start PROVE TreeInv'
  OBVIOUS
<1>1. UNCHANGED <<own, captured, cancelled, shown, timedOut, targets, live, unknown,
                  promised, forgotten, signalled>> /\ at["run"] = "idle"
  BY DEF Tree!Start, Tree!Go, Tree!cleanup, Tree!ending
<1>2. CASE Tree!Born(0, births + 1) /\ root' = births + 1 /\ UNCHANGED outcome
           /\ at' = [at EXCEPT !["run"] = "identify"]
  BY <1>1, <1>2, BornKeeps
<1>3. CASE /\ at' = [at EXCEPT !["run"] = "over"] /\ outcome' = "failed"
           /\ UNCHANGED <<alive, births, root>>
  <2>1. TreeTypes'
    BY <1>1, <1>3 DEF TreeInv, TreeTypes, Tree!Places
  <2>2. KnownInv' /\ EndInv' /\ forgotten' = {}
    BY <1>1, <1>3 DEF TreeInv, TreeTypes, KnownInv, EndInv, Tree!Callers
  <2>3. \A k \in Tree!Callers : StopOf(k)'
    BY <1>1, <1>3 DEF TreeInv, TreeTypes, StopOf
  <2> QED BY <2>1, <2>2, <2>3 DEF TreeInv
<1> QED BY <1>2, <1>3 DEF Tree!Start, Tree!Go, Tree!machine, Tree!ending

(* A caller that moves from one place to another outside a stop's work.    *)
Elsewhere == {"identify", "born", "loop", "over", "stop"}

LEMMA MoveKeeps ==
  ASSUME TreeInv, NEW k \in Tree!Callers, NEW to \in Elsewhere,
         at' = [at EXCEPT ![k] = to], k = "run" => at[k] \notin {"idle", "over"},
         UNCHANGED <<alive, births, root, targets, live, unknown, promised, forgotten,
                     signalled, timedOut, cancelled>>,
         outcome' = outcome, own' \cup captured' \subseteq Tree!Identities,
         KnownInv'
  PROVE  TreeInv'
<1>1. TreeTypes'
  BY DEF TreeInv, TreeTypes, Tree!Places, Elsewhere
<1>2. EndInv'
  BY DEF TreeInv, TreeTypes, EndInv, Tree!Callers, Elsewhere
<1>3. \A c \in Tree!Callers : StopOf(c)'
  BY DEF TreeInv, TreeTypes, StopOf, Elsewhere
<1> QED BY <1>1, <1>2, <1>3 DEF TreeInv

LEMMA RecaptureKeeps ==
  ASSUME TreeInv, Tree!Recapture
  PROVE  /\ captured' \subseteq Tree!Identities
         /\ shown' \subseteq ProcsOf(captured' \cup own) /\ shown' \subseteq 1 .. births
<1>1. PICK ids \in Tree!Seen(Tree!Below(root)) :
        captured' = captured \cup ids /\ shown' = shown \cup ProcsOf(ids)
  BY DEF Tree!Recapture, ProcsOf
<1>2. Tree!Below(root) \subseteq alive /\ alive \subseteq Tree!Procs /\ alive \subseteq 1 .. births
  BY BelowLives, CommandBounds DEF TreeInv, TreeTypes, Tree!Procs
<1>3. ids \subseteq Tree!Identities /\ ProcsOf(ids) \subseteq 1 .. births
  BY <1>2, SeenIsBelow
<1>4. captured' \cup own = (captured \cup own) \cup ids
  BY <1>1
<1>5. ProcsOf(captured' \cup own) = ProcsOf(captured \cup own) \cup ProcsOf(ids)
  BY <1>4, ProcsOfUnion
<1> QED BY <1>1, <1>3, <1>5 DEF TreeInv, TreeTypes, KnownInv

LEMMA IdentifyKeeps == TreeInv /\ Tree!Identify => TreeInv'
<1> SUFFICES ASSUME TreeInv, Tree!Identify PROVE TreeInv'
  OBVIOUS
<1>1. /\ at["run"] = "identify" /\ at' = [at EXCEPT !["run"] = "born"]
      /\ UNCHANGED <<alive, births, root, captured, cancelled, targets, live, unknown,
                     promised, forgotten, signalled, timedOut, outcome>>
  BY DEF Tree!Identify, Tree!Go, Tree!machine, Tree!cleanup, Tree!ending
<1>2. own' \subseteq Tree!Identities /\ KnownInv'
  <2>1. CASE root \in alive
    <3>1. PICK d \in BOOLEAN : own' = {[proc |-> root, dated |-> d]}
      BY <2>1 DEF Tree!Identify
    <3>2. shown' = shown \cup {root} /\ ProcsOf(own') = {root} /\ root \in 1 .. births
      BY <2>1, <3>1 DEF Tree!Identify, ProcsOf, TreeInv, TreeTypes
    <3>3. root \in Tree!Procs
      BY <3>2, CommandBounds DEF TreeInv, TreeTypes, Tree!Procs
    <3>4. own' \subseteq Tree!Identities
      BY <3>1, <3>3 DEF Tree!Identities
    <3>5. ProcsOf(captured \cup own) = ProcsOf(captured)
      BY <1>1, ProcsOfUnion DEF TreeInv, KnownInv, ProcsOf
    <3>6. shown' \subseteq ProcsOf(captured' \cup own')
      BY <1>1, <3>2, <3>5, ProcsOfUnion DEF TreeInv, KnownInv
    <3>7. shown' \subseteq 1 .. births' /\ at'["run"] = "born"
      BY <1>1, <3>2 DEF TreeInv, TreeTypes, KnownInv, Tree!Callers
    <3> QED BY <3>4, <3>6, <3>7 DEF KnownInv
  <2>2. CASE root \notin alive
    BY <1>1, <2>2 DEF Tree!Identify, TreeInv, TreeTypes, KnownInv
  <2> QED BY <2>1, <2>2
<1>3. captured' \subseteq Tree!Identities /\ "run" \in Tree!Callers /\ "born" \in Elsewhere
  BY <1>1 DEF TreeInv, TreeTypes, Tree!Callers, Elsewhere
<1> QED BY <1>1, <1>2, <1>3, MoveKeeps

LEMMA WatchKeeps == TreeInv /\ Tree!Watch => TreeInv'
<1> SUFFICES ASSUME TreeInv, Tree!Watch PROVE TreeInv'
  OBVIOUS
<1>1. /\ at["run"] \in {"born", "loop"} /\ at' = [at EXCEPT !["run"] = "loop"]
      /\ Tree!Recapture
      /\ UNCHANGED <<alive, births, root, own, cancelled, targets, live, unknown,
                     promised, forgotten, signalled, timedOut, outcome>>
  BY DEF Tree!Watch, Tree!machine, Tree!cleanup, Tree!ending
<1>2. at'["run"] = "loop"
  BY <1>1 DEF TreeInv, TreeTypes, Tree!Callers
<1>3. KnownInv' /\ own' \cup captured' \subseteq Tree!Identities
  BY <1>1, <1>2, RecaptureKeeps DEF KnownInv, TreeInv, TreeTypes
<1>4. "run" \in Tree!Callers /\ "loop" \in Elsewhere
  BY DEF Tree!Callers, Elsewhere
<1> QED BY <1>1, <1>3, <1>4, MoveKeeps

LEMMA LeaveKeeps == TreeInv /\ Tree!Leave => TreeInv'
<1> SUFFICES ASSUME TreeInv, Tree!Leave PROVE TreeInv'
  OBVIOUS
<1> DEFINE to == IF timedOut' \/ cancelled THEN "stop" ELSE "join"
<1>1. /\ at["run"] = "loop" /\ at' = [at EXCEPT !["run"] = to]
      /\ UNCHANGED <<alive, births, root, own, captured, cancelled, shown, targets, live,
                     unknown, promised, forgotten, signalled, outcome>>
      /\ root \notin alive \/ cancelled \/ timedOut'
  BY DEF Tree!Leave, Tree!Go, Tree!machine, Tree!handle, Tree!cleanup
<1>2. TreeTypes'
  BY <1>1 DEF TreeInv, TreeTypes, Tree!Places
<1>3. at'["run"] = to /\ \A k \in Tree!Callers : at'[k] = at[k] \/ at'[k] \in {"stop", "join"}
  BY <1>1 DEF TreeInv, TreeTypes, Tree!Callers
<1>4. at'["run"] \in {"stop", "join"}
  BY <1>3
<1>5. KnownInv'
  BY <1>1, <1>4 DEF TreeInv, KnownInv
<1>6. at'["run"] = "join" => ~timedOut' /\ ~cancelled
  BY <1>3
<1>7. outcome = "none"
  BY <1>1 DEF TreeInv, EndInv
<1>8. EndInv'
  BY <1>1, <1>4, <1>6, <1>7 DEF TreeInv, EndInv
<1>9. \A k \in Tree!Callers : StopOf(k)'
  BY <1>1, <1>3 DEF TreeInv, TreeTypes, StopOf
<1> QED BY <1>1, <1>2, <1>5, <1>8, <1>9 DEF TreeInv

LEMMA ReturnedKeeps == TreeInv /\ Tree!Returned => TreeInv'
<1> SUFFICES ASSUME TreeInv, Tree!Returned PROVE TreeInv'
  OBVIOUS
<1>1. /\ at["run"] = "join" /\ at' = [at EXCEPT !["run"] = "over"]
      /\ UNCHANGED <<alive, births, root, own, captured, cancelled, shown, targets, live,
                     unknown, promised, forgotten, signalled, timedOut>>
      /\ outcome' = "ok" => ~timedOut /\ ~cancelled
  BY DEF Tree!Returned, Tree!Go, Tree!machine, Tree!cleanup
<1>2. TreeTypes'
  BY <1>1 DEF TreeInv, TreeTypes, Tree!Places
<1>3. at'["run"] = "over" /\ \A k \in Tree!Callers : at'[k] = at[k] \/ at'[k] = "over"
  BY <1>1 DEF TreeInv, TreeTypes, Tree!Callers
<1>4. KnownInv' /\ EndInv'
  BY <1>1, <1>3 DEF TreeInv, KnownInv, EndInv
<1>5. \A k \in Tree!Callers : StopOf(k)'
  BY <1>1, <1>3 DEF TreeInv, TreeTypes, StopOf
<1> QED BY <1>1, <1>2, <1>4, <1>5 DEF TreeInv

LEMMA TakeHandleKeeps == TreeInv /\ Tree!TakeHandle => TreeInv'
<1> SUFFICES ASSUME TreeInv, Tree!TakeHandle PROVE TreeInv'
  OBVIOUS
<1>1. /\ at' = [at EXCEPT !["other"] = "stop"]
      /\ UNCHANGED <<alive, births, root, own, captured, cancelled, shown, targets, live,
                     unknown, promised, forgotten, signalled, timedOut, outcome>>
  BY DEF Tree!TakeHandle, Tree!Go, Tree!machine, Tree!cleanup, Tree!ending
<1>2. KnownInv' /\ own' \cup captured' \subseteq Tree!Identities
  BY <1>1 DEF TreeInv, TreeTypes, KnownInv, Tree!Callers
<1>3. "other" \in Tree!Callers /\ "stop" \in Elsewhere
  BY DEF Tree!Callers, Elsewhere
<1> QED BY <1>1, <1>2, <1>3, MoveKeeps

-----------------------------------------------------------------------------
(* A stop *)

(* What a step of a stop, of caller k, leaves alone and what it keeps.     *)
Stepped(k, to) ==
  /\ at[k] \in {"stop", "gather", "expand", "resolve", "grace", "last"}
  /\ to \in {"gather", "expand", "resolve", "grace", "last", "join", "over"}
  /\ to = "join" => k = "run"
  /\ to = "over" => k = "other"
  /\ at' = [at EXCEPT ![k] = to]
  /\ UNCHANGED <<alive, births, root, own, timedOut, outcome>>
  /\ cancelled' /\ captured' \subseteq Tree!Identities /\ KnownInv' /\ forgotten' = {}
  /\ signalled' \subseteq signalled \cup alive
  /\ \A c \in Tree!Callers : c # k =>
       /\ targets'[c] = targets[c] /\ live'[c] = live[c] /\ unknown'[c] = unknown[c]
       /\ promised'[c] = promised[c]
  /\ targets' \in [Tree!Callers -> SUBSET Tree!Identities]
  /\ live' \in [Tree!Callers -> SUBSET Tree!Procs]
  /\ unknown' \in [Tree!Callers -> SUBSET Tree!Procs]
  /\ promised' \in [Tree!Callers -> SUBSET (1 .. births)]
  /\ to \in {"expand", "resolve"} => promised'[k] \cap alive \subseteq ProcsOf(targets'[k])
  /\ to \in {"grace", "last"} => promised'[k] \cap alive \subseteq live'[k] \cup unknown'[k]

LEMMA StopStepKeeps ==
  ASSUME TreeInv, NEW k \in Tree!Callers, NEW to, Stepped(k, to)
  PROVE  TreeInv'
<1>1. TreeTypes'
  BY DEF TreeInv, TreeTypes, Stepped, Tree!Places
<1>2. at'[k] = to /\ \A c \in Tree!Callers : c # k => at'[c] = at[c]
  BY DEF TreeInv, TreeTypes, Stepped
<1>3. EndInv'
  BY <1>2 DEF TreeInv, TreeTypes, EndInv, Stepped, Tree!Callers
<1>4. ASSUME NEW c \in Tree!Callers PROVE StopOf(c)'
  <2>1. CASE c = k
    BY <1>2, <2>1 DEF StopOf, Stepped
  <2>2. CASE c # k
    BY <1>2, <2>2 DEF TreeInv, StopOf, Stepped
  <2> QED BY <2>1, <2>2
<1> QED BY <1>1, <1>3, <1>4 DEF TreeInv, Stepped

LEMMA CancelKeeps ==
  ASSUME TreeInv, NEW k \in Tree!Callers, Tree!Cancel(k)
  PROVE  TreeInv'
<1>1. /\ at[k] = "stop" /\ at' = [at EXCEPT ![k] = "gather"] /\ cancelled'
      /\ UNCHANGED <<alive, births, root, own, targets, live, unknown, promised, forgotten,
                     signalled, timedOut, outcome>>
  BY DEF Tree!Cancel, Tree!Go, Tree!machine, Tree!cleanup, Tree!ending
<1>2. /\ captured' \subseteq Tree!Identities
      /\ shown' \subseteq ProcsOf(captured' \cup own) /\ shown' \subseteq 1 .. births
  <2>1. CASE root = 0
    BY <2>1 DEF Tree!Cancel, TreeInv, TreeTypes, KnownInv
  <2>2. CASE root # 0
    BY <2>2, RecaptureKeeps DEF Tree!Cancel
  <2> QED BY <2>1, <2>2
<1>3. at'["run"] \in {at["run"], "gather"}
  BY <1>1 DEF TreeInv, TreeTypes, Tree!Callers
<1>4. KnownInv'
  BY <1>1, <1>2, <1>3 DEF TreeInv, KnownInv
<1>5. Stepped(k, "gather")
  BY <1>1, <1>2, <1>4 DEF TreeInv, TreeTypes, Stepped
<1> QED BY <1>5, StopStepKeeps

(* In its work on what it was shown, a stop leaves what the handle knows.  *)
Works(k, from, to) ==
  /\ at[k] = from /\ at' = [at EXCEPT ![k] = to]
  /\ UNCHANGED <<alive, births, root, own, captured, cancelled, shown, timedOut, outcome>>

(* What its work makes of its targets, of what lives, what it cannot       *)
(* verify and what it was shown.                                           *)
Does(k, to, T, L, U, P) ==
  /\ to \in {"expand", "resolve", "grace", "last", "join", "over"}
  /\ to = "join" => k = "run"
  /\ to = "over" => k = "other"
  /\ forgotten' = {} /\ signalled' \subseteq signalled \cup alive
  /\ T \subseteq Tree!Identities /\ targets' = [targets EXCEPT ![k] = T]
  /\ L \subseteq Tree!Procs /\ live' = [live EXCEPT ![k] = L]
  /\ U \subseteq Tree!Procs /\ unknown' = [unknown EXCEPT ![k] = U]
  /\ P \subseteq 1 .. births /\ promised' = [promised EXCEPT ![k] = P]
  /\ to \in {"expand", "resolve"} => P \cap alive \subseteq ProcsOf(T)
  /\ to \in {"grace", "last"} => P \cap alive \subseteq L \cup U

LEMMA WorkKeeps ==
  ASSUME TreeInv, NEW k \in Tree!Callers,
         NEW from \in {"gather", "expand", "resolve", "grace", "last"},
         NEW to, Works(k, from, to),
         NEW T, NEW L, NEW U, NEW P, Does(k, to, T, L, U, P)
  PROVE  TreeInv'
<1>1. /\ targets' \in [Tree!Callers -> SUBSET Tree!Identities] /\ targets'[k] = T
      /\ live' \in [Tree!Callers -> SUBSET Tree!Procs] /\ live'[k] = L
      /\ unknown' \in [Tree!Callers -> SUBSET Tree!Procs] /\ unknown'[k] = U
      /\ promised' \in [Tree!Callers -> SUBSET (1 .. births)] /\ promised'[k] = P
  BY DEF TreeInv, TreeTypes, Does
<1>2. \A c \in Tree!Callers : c # k =>
        /\ targets'[c] = targets[c] /\ live'[c] = live[c] /\ unknown'[c] = unknown[c]
        /\ promised'[c] = promised[c]
  BY DEF TreeInv, TreeTypes, Does
<1>3. cancelled' /\ captured' \subseteq Tree!Identities
  BY DEF TreeInv, TreeTypes, StopOf, Works
<1>4. at'["run"] \in {at["run"], to}
  BY DEF TreeInv, TreeTypes, Works, Tree!Callers
<1>5. KnownInv'
  <2>1. to \notin {"idle", "identify"}
    BY DEF Does
  <2> QED BY <1>4, <2>1 DEF TreeInv, KnownInv, Works
<1>6. /\ to \in {"gather", "expand", "resolve", "grace", "last", "join", "over"}
      /\ to = "join" => k = "run"
      /\ to = "over" => k = "other"
      /\ forgotten' = {} /\ signalled' \subseteq signalled \cup alive
      /\ to \in {"expand", "resolve"} => promised'[k] \cap alive \subseteq ProcsOf(targets'[k])
      /\ to \in {"grace", "last"} => promised'[k] \cap alive \subseteq live'[k] \cup unknown'[k]
  BY <1>1 DEF Does
<1>7. Stepped(k, to)
  BY <1>1, <1>2, <1>3, <1>5, <1>6 DEF Works, Stepped
<1> QED BY <1>7, StopStepKeeps

LEMMA GatherKeeps ==
  ASSUME TreeInv, NEW k \in Tree!Callers, Tree!Gather(k)
  PROVE  TreeInv'
<1>1. Works(k, "gather", "expand")
  BY DEF Tree!Gather, Tree!Go, Works, Tree!machine, Tree!handle, Tree!ending
<1>2. /\ targets' = [targets EXCEPT ![k] = captured \cup own]
      /\ promised' = [promised EXCEPT ![k] = shown]
      /\ live' = [live EXCEPT ![k] = live[k]] /\ unknown' = [unknown EXCEPT ![k] = unknown[k]]
      /\ forgotten' = {} /\ signalled' = signalled
  BY DEF Tree!Gather, TreeInv, TreeTypes
<1>3. /\ captured \cup own \in SUBSET Tree!Identities /\ shown \in SUBSET (1 .. births)
      /\ shown \cap alive \subseteq ProcsOf(captured \cup own)
      /\ live[k] \in SUBSET Tree!Procs /\ unknown[k] \in SUBSET Tree!Procs
  BY DEF TreeInv, TreeTypes, KnownInv
<1>4. Does(k, "expand", captured \cup own, live[k], unknown[k], shown)
  BY <1>2, <1>3 DEF Does
<1> QED BY <1>1, <1>4, WorkKeeps

LEMMA ExpandKeeps ==
  ASSUME TreeInv, NEW k \in Tree!Callers, Tree!Expand(k)
  PROVE  TreeInv'
<1>1. Works(k, "expand", "resolve")
  BY DEF Tree!Expand, Tree!Go, Works, Tree!machine, Tree!handle, Tree!ending
<1> DEFINE below == UNION {Tree!Below(b) : b \in
                      {c \in alive : pid[c] \in Tree!PidsOf(targets[k])}}
           new == {b \in below : pid[b] \notin Tree!PidsOf(targets[k])}
<1>2. new \subseteq alive
  BY BelowLives
<1>3. \E ids \in Tree!Seen(new) :
        /\ targets' = [targets EXCEPT ![k] = targets[k] \cup ids]
        /\ promised' = [promised EXCEPT ![k] = promised[k] \cup ProcsOf(ids)]
  BY DEF Tree!Expand, ProcsOf
<1> HIDE DEF new
<1>4. PICK ids \in Tree!Seen(new) :
        /\ targets' = [targets EXCEPT ![k] = targets[k] \cup ids]
        /\ promised' = [promised EXCEPT ![k] = promised[k] \cup ProcsOf(ids)]
  BY <1>3
<1>5. /\ live' = [live EXCEPT ![k] = live[k]] /\ unknown' = [unknown EXCEPT ![k] = unknown[k]]
      /\ forgotten' = {} /\ signalled' = signalled
  BY DEF Tree!Expand, TreeInv, TreeTypes
<1>6. new \subseteq Tree!Procs /\ new \subseteq 1 .. births
  BY <1>2, CommandBounds DEF TreeInv, TreeTypes, Tree!Procs
<1>7. ids \subseteq Tree!Identities /\ ProcsOf(ids) \subseteq 1 .. births
  BY <1>6, SeenIsBelow
<1>8. /\ targets[k] \cup ids \in SUBSET Tree!Identities
      /\ promised[k] \cup ProcsOf(ids) \in SUBSET (1 .. births)
      /\ live[k] \in SUBSET Tree!Procs /\ unknown[k] \in SUBSET Tree!Procs
  BY <1>7 DEF TreeInv, TreeTypes
<1>9. (promised[k] \cup ProcsOf(ids)) \cap alive \subseteq ProcsOf(targets[k] \cup ids)
  BY <1>1, ProcsOfUnion DEF TreeInv, StopOf, Works
<1>10. Does(k, "resolve", targets[k] \cup ids, live[k], unknown[k],
            promised[k] \cup ProcsOf(ids))
  BY <1>4, <1>5, <1>8, <1>9 DEF Does
<1> QED BY <1>1, <1>10, WorkKeeps

LEMMA ResolveKeeps ==
  ASSUME TreeInv, NEW k \in Tree!Callers, Tree!Resolve(k)
  PROVE  TreeInv'
<1> DEFINE proved == {i \in targets[k] : Tree!Proves(i)}
           unsure == {i \in targets[k] : Tree!Hidden(i)}
<1>1. PICK refused \in SUBSET proved :
        /\ Works(k, "resolve", "grace")
        /\ live' = [live EXCEPT ![k] = ProcsOf(proved \ refused)]
        /\ unknown' = [unknown EXCEPT ![k] = ProcsOf(unsure \cup refused)]
        /\ signalled' = signalled \cup ProcsOf(proved \ refused)
        /\ targets' = [targets EXCEPT ![k] = {}]
        /\ UNCHANGED <<promised, forgotten>>
  BY DEF Tree!Resolve, Tree!Go, Works, Tree!machine, Tree!handle, Tree!ending, ProcsOf
<1> DEFINE mine == proved \ refused
           doubted == unsure \cup refused
<1>2. /\ targets[k] \subseteq Tree!Identities
      /\ promised' = [promised EXCEPT ![k] = promised[k]] /\ promised[k] \in SUBSET (1 .. births)
      /\ forgotten' = {}
  BY <1>1 DEF TreeInv, TreeTypes
<1>3. ProcsOf(mine) \in SUBSET Tree!Procs /\ ProcsOf(doubted) \in SUBSET Tree!Procs
      /\ ProcsOf(mine) \subseteq alive
  BY <1>2 DEF ProcsOf, Tree!Identities, Tree!Proves
<1>4. ASSUME NEW i \in targets[k], i.proc \in alive
      PROVE  i \in mine \cup doubted
  <2>1. i.dated \in BOOLEAN
    BY <1>2 DEF Tree!Identities
  <2> QED BY <1>4, <2>1 DEF Tree!Proves, Tree!Hidden
<1>5. promised[k] \cap alive \subseteq ProcsOf(targets[k])
  BY <1>1 DEF TreeInv, StopOf, Works
<1>6. promised[k] \cap alive \subseteq ProcsOf(mine) \cup ProcsOf(doubted)
  BY <1>4, <1>5 DEF ProcsOf
<1>7. Does(k, "grace", {}, ProcsOf(mine), ProcsOf(doubted), promised[k])
  <2>1. signalled' = signalled \cup ProcsOf(mine) /\ targets' = [targets EXCEPT ![k] = {}]
        /\ live' = [live EXCEPT ![k] = ProcsOf(mine)]
        /\ unknown' = [unknown EXCEPT ![k] = ProcsOf(doubted)]
    BY <1>1
  <2> HIDE DEF mine, doubted
  <2> QED BY <1>2, <1>3, <1>6, <2>1 DEF Does
<1> QED BY <1>1, <1>7, WorkKeeps

LEMMA SettledKeepsTheLiving ==
  ASSUME NEW k, NEW rest, Tree!Settled(k, rest)
  PROVE  live[k] \cap alive \subseteq rest /\ rest \subseteq live[k]
  BY DEF Tree!Settled

LEMMA KillKeeps ==
  ASSUME TreeInv, NEW k \in Tree!Callers, Tree!Kill(k)
  PROVE  TreeInv'
<1>1. PICK rest \in SUBSET live[k] :
        /\ Works(k, "grace", "last") /\ Tree!Settled(k, rest)
        /\ live' = [live EXCEPT ![k] = rest] /\ signalled' = signalled \cup (rest \cap alive)
        /\ UNCHANGED <<targets, unknown, promised, forgotten>>
  BY DEF Tree!Kill, Tree!Go, Works, Tree!machine, Tree!handle, Tree!ending
<1>2. /\ targets' = [targets EXCEPT ![k] = targets[k]] /\ targets[k] \in SUBSET Tree!Identities
      /\ unknown' = [unknown EXCEPT ![k] = unknown[k]] /\ unknown[k] \in SUBSET Tree!Procs
      /\ promised' = [promised EXCEPT ![k] = promised[k]] /\ promised[k] \in SUBSET (1 .. births)
      /\ rest \in SUBSET Tree!Procs /\ forgotten' = {}
  BY <1>1 DEF TreeInv, TreeTypes
<1>3. promised[k] \cap alive \subseteq rest \cup unknown[k]
  BY <1>1, SettledKeepsTheLiving DEF TreeInv, StopOf, Works
<1>4. Does(k, "last", targets[k], rest, unknown[k], promised[k])
  BY <1>1, <1>2, <1>3 DEF Does
<1> QED BY <1>1, <1>4, WorkKeeps

LEMMA ReportKeeps ==
  ASSUME TreeInv, NEW k \in Tree!Callers, Tree!Report(k)
  PROVE  TreeInv'
<1> DEFINE to == IF k = "run" THEN "join" ELSE "over"
<1>1. PICK rest \in SUBSET live[k] :
        Tree!Settled(k, rest) /\ Tree!Return(k, "last", rest \cup unknown[k])
  BY DEF Tree!Report
<1>2. /\ Works(k, "last", to) /\ UNCHANGED <<targets, signalled>>
      /\ forgotten' = forgotten \cup ((promised[k] \cap alive) \ (rest \cup unknown[k]))
      /\ live' = [live EXCEPT ![k] = {}] /\ unknown' = [unknown EXCEPT ![k] = {}]
      /\ promised' = [promised EXCEPT ![k] = {}]
  BY <1>1 DEF Tree!Report, Tree!Return, Tree!Go, Works, Tree!machine, Tree!handle, Tree!ending
<1>3. promised[k] \cap alive \subseteq rest \cup unknown[k]
  BY <1>1, <1>2, SettledKeepsTheLiving DEF TreeInv, StopOf, Works
<1>4. /\ forgotten' = {} /\ targets[k] \in SUBSET Tree!Identities
      /\ targets' = [targets EXCEPT ![k] = targets[k]]
  BY <1>2, <1>3 DEF TreeInv, TreeTypes
<1>5. /\ to \in {"expand", "resolve", "grace", "last", "join", "over"}
      /\ to = "join" => k = "run"
      /\ to = "over" => k = "other"
  BY DEF Tree!Callers
<1>6. Does(k, to, targets[k], {}, {}, {})
  <2> HIDE DEF to
  <2> QED BY <1>2, <1>4, <1>5 DEF Does
<1> QED BY <1>2, <1>6, WorkKeeps

(* The inductive invariant: every step keeps it.                           *)
THEOREM TreeStepKeeps == TreeInv /\ [Tree!Next]_(Tree!vars) => TreeInv'
<1> SUFFICES ASSUME TreeInv, [Tree!Next]_(Tree!vars) PROVE TreeInv'
  OBVIOUS
<1>1. CASE Tree!Spawn \/ Tree!Exit
  BY <1>1, SpawnKeeps, ExitKeeps
<1>2. CASE Tree!Start \/ Tree!Identify \/ Tree!Watch \/ Tree!Leave \/ Tree!Returned
  BY <1>2, StartKeeps, IdentifyKeeps, WatchKeeps, LeaveKeeps, ReturnedKeeps
<1>3. CASE Tree!TakeHandle
  BY <1>3, TakeHandleKeeps
<1>4. CASE \E k \in Tree!Callers : Tree!StopStep(k)
  BY <1>4, CancelKeeps, GatherKeeps, ExpandKeeps, ResolveKeeps, KillKeeps, ReportKeeps
     DEF Tree!StopStep
<1>5. CASE UNCHANGED Tree!vars
  <2>1. UNCHANGED <<alive, births, root, own, captured, cancelled, shown, at, targets, live,
                    unknown, promised, forgotten, signalled, timedOut, outcome>>
    BY <1>5 DEF Tree!vars, Tree!machine, Tree!handle, Tree!cleanup, Tree!ending
  <2>2. TreeTypes' /\ KnownInv' /\ EndInv' /\ forgotten' = {}
    BY <2>1 DEF TreeInv, TreeTypes, KnownInv, EndInv
  <2>3. \A k \in Tree!Callers : StopOf(k)'
    BY <2>1 DEF TreeInv, StopOf
  <2> QED BY <2>2, <2>3 DEF TreeInv
<1> QED BY <1>1, <1>2, <1>3, <1>4, <1>5 DEF Tree!Next

THEOREM TreeBookkeeping == Tree!Spec => []TreeInv
  BY TreeStarts, TreeStepKeeps, PTL DEF Tree!Spec

(* A stop that returns has ended all that it was shown, or says what it    *)
(* left, and no command that was sent a signal is called a success         *)
(* (terminate_identities, CommandHandle.stop, run).                        *)
THEOREM EveryStopIsThorough == Tree!Spec => []StopsAreThorough
<1>1. TreeInv => StopsAreThorough
  BY DEF TreeInv, EndInv, StopsAreThorough, Tree!StopsAreThorough
<1> QED BY <1>1, TreeBookkeeping, PTL

-----------------------------------------------------------------------------
(* The two together *)

(* What the run checks on a small instance, for every value of the         *)
(* constants.                                                              *)
THEOREM TheCommandsAreHonest == CommandSpec => []RunsAsReviewed /\ []StopsAreThorough
<1>1. CommandInit => Init /\ Tree!Init
  BY DEF CommandInit
<1>2. [CommandNext]_<<part, vars, treeVars>> => [Next]_vars /\ [Tree!Next]_(Tree!vars)
  <2>1. UNCHANGED treeVars => UNCHANGED Tree!vars
    BY DEF treeVars, Tree!vars, Tree!machine, Tree!handle, Tree!cleanup, Tree!ending
  <2> QED BY <2>1 DEF CommandNext
<1>3. CommandSpec => Spec /\ Tree!Spec
  BY <1>1, <1>2, PTL DEF CommandSpec, Spec, Tree!Spec
<1> QED BY <1>3, WhatRunsWasReviewed, EveryStopIsThorough, PTL

-----------------------------------------------------------------------------
(***************************************************************************)
(* What a task does to the project and shows of it (MCTaskWork).           *)
(***************************************************************************)

(* The changes of a task: what is recorded of them, and what their copies hold. *)

CopyTypes ==
  /\ tree \in Work!Files /\ first \in [FilePaths -> Mine \cup {Absent}]
  /\ backup \in [1..TaskEdits -> Work!Contents \cup {Absent}]
  /\ taken \subseteq FilePaths \X Mine \X (1..TaskEdits)
RecordTypes ==
  /\ mem \in Seq(Work!Change) /\ disk \in Seq(Work!Change)
  /\ Len(mem) <= tries /\ Len(disk) <= Len(mem) /\ Len(request.rec) <= Len(mem)
AgentType == agent \in Work!Edit
RequestType == request \in Work!Request
PrintTypes == exportPlan \in Work!Prints /\ zip \in Work!Prints
ReportTypes ==
  /\ touched \in BOOLEAN /\ report \in {"none", "calm", "short"}
CountTypes ==
  /\ tries \in 0..TaskEdits /\ writes \in 0..MaxWrites /\ requests \in 0..MaxRequests

GTyped == CopyTypes /\ RecordTypes /\ AgentType /\ RequestType /\ PrintTypes /\ ReportTypes /\ CountTypes

\* The numbers that entries of the record may have: the edit under way has the newest.
Used == IF agent.at \in {"backup", "check", "replace"} THEN tries - 1 ELSE tries

In(c, rec) == \E i \in DOMAIN rec : rec[i] = c
Logged(c)  == In(c, mem) \/ In(c, disk) \/ In(c, request.rec)

\* What is true of every entry on any record, and of every copy of the user's bytes.
EntryOK(c) ==
  /\ c.id <= Used
  /\ c.kind \in {"create", "update"} => c.after \in Theirs
  /\ c.kind # "create" => c.before # Absent
  /\ \A t \in taken : t[3] = c.id => c.kind \in {"update", "delete"} /\ c.path = t[1]
EntriesOK == \A c \in Work!Change : Logged(c) => EntryOK(c)
CopiesOK  == \A t \in taken : t[3] <= Used /\ backup[t[3]] = t[2]
LenOK == Len(mem) <= Used
InOrder(rec) == \A i, j \in DOMAIN rec : i < j => rec[i].id < rec[j].id

\* The edit under way: what it is bound to, and what its copy is of.
EditOK ==
  agent.at \in {"backup", "check", "replace"} =>
    /\ tries >= 1 /\ agent.path \in FilePaths /\ agent.dest \in FilePaths
    /\ agent.kind = "create" => agent.at # "backup"
    /\ agent.kind # "create" => agent.base # Absent
    /\ agent.kind \in {"create", "update"} => agent.new \in Theirs
    /\ agent.kind # "rename" => agent.dest = agent.path
    /\ agent.kind \in {"delete", "rename"} => agent.new = Absent
BoundOK ==
  /\ agent.at = "check" /\ agent.kind # "create" /\ ~agent.raced /\ tree[agent.path] = agent.base
       => backup[tries] = agent.base
  /\ agent.at = "replace" /\ ~agent.raced =>
       Work!MayApply(agent) /\ (agent.kind # "create" => backup[tries] = agent.base)

\* The request under way.
UndoOK ==
  /\ request.at = "none" => request.rec = <<>>
  /\ request.at \in {"undo", "restore"} => request.next \in 0..Len(request.rec)
  /\ request.at = "restore" =>
       /\ request.next \in DOMAIN request.rec
       /\ request.raw = backup[request.rec[request.next].id]
       /\ ~request.raced => tree[request.rec[request.next].path] \notin Mine
ZipOK == request.at = "zip" /\ ~request.raced => Work!Fingerprint(DOMAIN request.prints) = request.prints

GInv == /\ Work!ChangesAssumption /\ GTyped /\ EntriesOK /\ CopiesOK /\ LenOK /\ InOrder(mem)
        /\ EditOK /\ BoundOK /\ UndoOK /\ ZipOK

-----------------------------------------------------------------------------
(* The first undo, when nobody else writes. *)

\* One change, from what the files were to what they are.
Follows(c, a, b) ==
  CASE c.kind = "create" -> a[c.path] = Absent /\ b = [a EXCEPT ![c.path] = c.after]
    [] c.kind = "update" -> a[c.path] = c.before /\ b = [a EXCEPT ![c.path] = c.after]
    [] c.kind = "delete" -> a[c.path] = c.before /\ b = [a EXCEPT ![c.path] = Absent]
    [] c.kind = "rename" -> /\ a[c.path] = c.before /\ a[c.dest] = Absent /\ c.after = c.before
                            /\ b = [a EXCEPT ![c.path] = Absent, ![c.dest] = c.before]

\* The files after each of the changes on record.
Story(h, rec) ==
  /\ h \in [0..Len(rec) -> Work!Files] /\ h[0] = first
  /\ \A i \in DOMAIN rec : Follows(rec[i], h[i - 1], h[i])
Kept(rec, n) == \A i \in 1..n : rec[i].kind # "create" => backup[rec[i].id] = rec[i].before

Alone == requests = 0 /\ ~touched
AloneOK ==
  /\ requests = 0 => exportPlan = Work!Nothing /\ request.at = "none"
  /\ Alone => ~agent.raced
  /\ Alone => \/ /\ \E h : Story(h, mem) /\ h[Len(mem)] = tree
                 /\ Kept(mem, Len(mem))
              \/ agent.at = "ended" /\ disk = <<>>
CalmOK ==
  request.at \in {"undo", "restore"} /\ request.calm =>
    /\ ~request.skipped /\ mem = request.rec /\ disk = request.rec
    /\ \E h : Story(h, request.rec) /\ h[request.next] = tree
    /\ Kept(request.rec, request.next)
    /\ \A i \in DOMAIN request.rec :
         i > request.next /\ request.rec[i].kind # "create" => backup[request.rec[i].id] = Absent
ReportOK ==
  /\ report # "short"
  /\ report = "calm" =>
       /\ tree = first /\ request.at # "restore"
       /\ \A c \in Work!Change : Logged(c) /\ c.kind # "create" => backup[c.id] = Absent

UInv == GInv /\ AloneOK /\ CalmOK /\ ReportOK

LEMMA EditParts ==
  ASSUME NEW e \in Work!Edit
  PROVE  /\ e.at \in {"idle", "backup", "check", "replace", "save", "ended"} /\ e.kind \in Work!Kinds
         /\ e.path \in FilePaths \cup {Absent} /\ e.dest \in FilePaths \cup {Absent}
         /\ e.new \in Work!Contents \cup {Absent} /\ e.base \in Work!Contents \cup {Absent}
BY DEF Work!Edit

LEMMA EditAt ==
  ASSUME AgentType, NEW w \in {"idle", "backup", "check", "replace", "save", "ended"}
  PROVE  LET e == [agent EXCEPT !.at = w]
         IN /\ e \in Work!Edit /\ e.at = w /\ e.kind = agent.kind /\ e.path = agent.path
            /\ e.dest = agent.dest /\ e.new = agent.new /\ e.base = agent.base /\ e.raced = agent.raced
BY DEF AgentType, Work!Edit

LEMMA IdleEdit == Work!Idle \in Work!Edit /\ Work!Idle.at = "idle" /\ [Work!Idle EXCEPT !.at = "ended"] \in Work!Edit
                  /\ [Work!Idle EXCEPT !.at = "ended"].at = "ended" /\ Work!Idle.raced = FALSE
                  /\ [Work!Idle EXCEPT !.at = "ended"].raced = FALSE
BY DEF Work!Idle, Work!Edit, Work!Kinds

LEMMA RacesParts ==
  ASSUME AgentType, NEW S, Work!Races(S)
  PROVE  /\ agent' \in Work!Edit /\ agent'.at = agent.at /\ agent'.kind = agent.kind /\ agent'.path = agent.path
         /\ agent'.dest = agent.dest /\ agent'.new = agent.new /\ agent'.base = agent.base
         /\ ~agent'.raced => /\ ~agent.raced
                             /\ agent.at = "replace" => {agent.path, agent.dest} \cap S = {}
                             /\ agent.at = "check" /\ agent.path \in S => tree'[agent.path] # agent.base
<1> DEFINE b == \/ agent.raced
                \/ agent.at = "replace" /\ {agent.path, agent.dest} \cap S # {}
                \/ agent.at = "check" /\ agent.path \in S /\ tree'[agent.path] = agent.base
<1>1. agent' = [agent EXCEPT !.raced = b] BY DEF Work!Races
<1>2. b \in BOOLEAN OBVIOUS
<1>3. /\ agent' \in Work!Edit /\ agent'.at = agent.at /\ agent'.kind = agent.kind /\ agent'.path = agent.path
      /\ agent'.dest = agent.dest /\ agent'.new = agent.new /\ agent'.base = agent.base
      /\ agent'.raced = b
  <2> HIDE DEF b
  <2> QED BY <1>1, <1>2 DEF AgentType, Work!Edit
<1>4. ~agent'.raced => ~b BY <1>3
<1> QED BY <1>3, <1>4

LEMMA RequestParts ==
  ASSUME NEW r \in Work!Request
  PROVE  /\ r.at \in {"none", "undo", "restore", "zip"} /\ r.rec \in Seq(Work!Change) /\ r.prints \in Work!Prints
         /\ r.next \in 0..TaskEdits /\ r.raw \in Work!Contents \cup {Absent}
BY DEF Work!Request

LEMMA DisturbsParts ==
  ASSUME RequestType, NEW S, Work!Disturbs(S)
  PROVE  /\ request' \in Work!Request /\ request'.at = request.at /\ request'.rec = request.rec /\ request'.prints = request.prints
         /\ request'.next = request.next /\ request'.raw = request.raw /\ ~request'.calm
         /\ ~request'.raced => /\ ~request.raced /\ request.at # "zip"
                               /\ request.at = "restore" => S \cap {request.rec[request.next].path, request.rec[request.next].dest} = {}
<1> DEFINE b == request.raced \/ request.at = "zip"
                 \/ (request.at = "restore" /\ S \cap {request.rec[request.next].path, request.rec[request.next].dest} # {})
<1>1. request' = [request EXCEPT !.calm = FALSE, !.raced = b] BY DEF Work!Disturbs
<1>2. b \in BOOLEAN BY DEF RequestType, Work!Request
<1>3. /\ request' \in Work!Request /\ request'.at = request.at /\ request'.rec = request.rec /\ request'.prints = request.prints
      /\ request'.next = request.next /\ request'.raw = request.raw /\ request'.calm = FALSE
      /\ request'.raced = b
  <2> HIDE DEF b
  <2> QED BY <1>1, <1>2 DEF RequestType, Work!Request
<1>4. ~request'.raced => ~b BY <1>3
<1> QED BY <1>3, <1>4

LEMMA NothingPrints == Work!Nothing \in Work!Prints
<1>1. Work!Nothing \in [{} -> Work!Contents \cup {Absent}] BY DEF Work!Nothing
<1> QED BY <1>1 DEF Work!Prints

LEMMA Printed ==
  ASSUME CopyTypes, NEW P, P \subseteq FilePaths
  PROVE  Work!Fingerprint(P) \in Work!Prints /\ DOMAIN Work!Fingerprint(P) = P
<1>1. Work!Fingerprint(P) \in [P -> Work!Contents \cup {Absent}] BY DEF Work!Fingerprint,
  CopyTypes, Work!Files
<1> QED BY <1>1 DEF Work!Prints

LEMMA PrintsPaths == ASSUME NEW f \in Work!Prints PROVE DOMAIN f \subseteq FilePaths
BY DEF Work!Prints

LEMMA NoRequestIs ==
  ASSUME Work!ChangesAssumption
  PROVE  /\ Work!NoRequest \in Work!Request /\ Work!NoRequest.at = "none" /\ Work!NoRequest.rec = <<>> /\ Work!NoRequest.calm = FALSE
         /\ Work!NoRequest.next = 0 /\ Work!NoRequest.raced = FALSE /\ Work!NoRequest.skipped = FALSE
<1>1. <<>> \in Seq(Work!Change) /\ 0 \in 0..TaskEdits BY DEF Work!ChangesAssumption
<1> QED BY <1>1, NothingPrints DEF Work!NoRequest, Work!Request

\* What a written change is.
LEMMA ChangeParts ==
  ASSUME NEW c \in Work!Change
  PROVE  /\ c.kind \in Work!Kinds /\ c.path \in FilePaths /\ c.dest \in FilePaths /\ c.id \in 1..TaskEdits
         /\ c.before \in Work!Contents \cup {Absent} /\ c.after \in Work!Contents \cup {Absent}
BY DEF Work!Change

LEMMA EntryOf ==
  ASSUME NEW rec \in Seq(Work!Change), NEW i \in DOMAIN rec
  PROVE  rec[i] \in Work!Change /\ i \in 1..Len(rec) /\ In(rec[i], rec)
BY DEF In

LEMMA LoggedIs ==
  ASSUME GTyped, NEW c, Logged(c)
  PROVE  c \in Work!Change
BY EntryOf, RequestParts DEF GTyped, RecordTypes, RequestType, Logged, In

LEMMA PathsOf ==
  ASSUME NEW rec \in Seq(Work!Change)
  PROVE  Work!TaskPaths(rec) \subseteq FilePaths
BY EntryOf, ChangeParts DEF Work!TaskPaths

\* Entries stay right when none is new, none of the user's bytes are, and numbers go on.
LEMMA SameEntries ==
  ASSUME GInv, \A c : Logged(c)' => Logged(c), taken' \subseteq taken, CountTypes', Used <= Used'
  PROVE  EntriesOK'
<1> SUFFICES ASSUME NEW c \in Work!Change, Logged(c)' PROVE EntryOK(c)' BY DEF EntriesOK
<1>1. EntryOK(c) /\ c.id \in Nat BY ChangeParts DEF GInv, EntriesOK
<1>2. Used \in Int /\ Used' \in Int BY DEF GInv, GTyped, CountTypes, Used
<1> QED BY <1>1, <1>2 DEF EntryOK

\* The change that an undo is about to write back.
LEMMA RestoreOf ==
  ASSUME GInv, request.at = "restore"
  PROVE  LET c == request.rec[request.next]
         IN c \in Work!Change /\ Logged(c) /\ c.id \in 1..TaskEdits /\ c.id <= Used
<1>1. request.next \in DOMAIN request.rec /\ request.rec \in Seq(Work!Change)
  BY RequestParts DEF GInv, UndoOK, GTyped, RequestType
<1>2. request.rec[request.next] \in Work!Change /\ Logged(request.rec[request.next]) BY <1>1, EntryOf DEF Logged
<1> QED BY <1>2, ChangeParts DEF GInv, EntriesOK, EntryOK

-----------------------------------------------------------------------------
(* The thread of the task. *)

LEMMA EditProposed ==
  ASSUME GInv, NEW kind \in Work!Kinds, NEW p \in FilePaths, NEW q \in FilePaths, NEW new \in Theirs \cup {Absent},
         Work!Propose(kind, p, q, new)
  PROVE  GInv'
<1> USE DEF GInv
<1>0. GTyped /\ tries \in 0..TaskEdits /\ agent.at = "idle" BY DEF Work!Propose, GTyped, CountTypes
<1>1. /\ UNCHANGED <<tree, mem, disk, backup, exportPlan, zip, request, taken, first, touched, report, writes, requests>>
      /\ tries' = tries + 1 /\ tries < TaskEdits
  BY DEF Work!Propose, Work!record, Work!exports, Work!history
<1>2. /\ agent' \in Work!Edit /\ agent'.at = (IF kind = "create" THEN "check" ELSE "backup") /\ agent'.kind = kind
      /\ agent'.path = p /\ agent'.dest = q /\ agent'.new = new /\ agent'.base = tree[p]
  <2>1. tree[p] \in Work!Contents \cup {Absent} BY <1>0 DEF GTyped, CopyTypes, Work!Files
  <2>2. new \in Work!Contents \cup {Absent} BY DEF Work!Contents
  <2> QED BY <2>1, <2>2 DEF Work!Propose, Work!Edit
<1>3. GTyped'
  <2>1. RecordTypes' BY <1>0, <1>1 DEF GTyped, RecordTypes, Work!ChangesAssumption
  <2>2. CountTypes' BY <1>0, <1>1 DEF GTyped, CountTypes, Work!ChangesAssumption
  <2> QED BY <1>0, <1>1, <1>2, <2>1, <2>2
       DEF GTyped, CopyTypes, AgentType, RequestType, PrintTypes, ReportTypes
<1>4. Used' = Used BY <1>0, <1>1, <1>2 DEF Used, GTyped, CountTypes
<1>5. \A c : Logged(c)' <=> Logged(c) BY <1>1 DEF Logged, In
<1>6. EntriesOK' /\ CopiesOK' /\ LenOK' /\ InOrder(mem)'
  BY <1>1, <1>4, <1>5 DEF EntriesOK, EntryOK, CopiesOK, LenOK, InOrder
<1>7. EditOK'
  BY <1>0, <1>1, <1>2 DEF EditOK, Work!Propose, Work!Kinds
<1>8. BoundOK' BY <1>2 DEF BoundOK
<1>9. UndoOK' /\ ZipOK' BY <1>1 DEF UndoOK, ZipOK, Work!Fingerprint
<1> QED BY <1>3, <1>6, <1>7, <1>8, <1>9 DEF Work!ChangesAssumption
\* The edit gives up, or its copy is made, or it has compared.
LEMMA BackupStep == ASSUME GInv, Work!Backup PROVE GInv'
<1> USE DEF GInv
<1>0. GTyped /\ agent.at = "backup" /\ tries \in 1..TaskEdits /\ agent.path \in FilePaths
  BY DEF Work!Backup, GTyped, CountTypes, EditOK
<1>1. UNCHANGED <<tree, mem, disk, exportPlan, zip, request, taken, first, touched, report, tries, writes, requests>>
  BY DEF Work!Backup, Work!record, Work!exports, Work!history, Work!counts
<1>2. \/ agent' = Work!Idle /\ backup' = backup
      \/ /\ tree[agent.path] # Absent
         /\ backup' = [backup EXCEPT ![tries] = tree[agent.path]]
         /\ agent' = [agent EXCEPT !.at = "check"]
  BY DEF Work!Backup
<1>3. backup' \in [1..TaskEdits -> Work!Contents \cup {Absent}] /\ (\A i \in 1..TaskEdits : i # tries => backup'[i] = backup[i])
  BY <1>0, <1>2 DEF GTyped, CopyTypes, Work!Files
<1>4. agent' \in Work!Edit BY <1>0, <1>2, IdleEdit, EditAt DEF GTyped
<1>5. GTyped' BY <1>0, <1>1, <1>3, <1>4
  DEF GTyped, CopyTypes, RecordTypes, AgentType, RequestType, PrintTypes, ReportTypes, CountTypes
<1>6. Used = tries - 1 /\ Used' \in {tries - 1, tries}
  BY <1>0, <1>1 DEF Used
<1>7. \A c : Logged(c)' <=> Logged(c) BY <1>1 DEF Logged, In
<1>8. EntriesOK' BY <1>0, <1>1, <1>5, <1>6, <1>7, SameEntries DEF GTyped
<1>9. CopiesOK'
  <2>1. ASSUME NEW t \in taken PROVE t[3] <= Used' /\ backup'[t[3]] = t[2]
    <3>1. t[3] \in 1..TaskEdits /\ t[3] <= Used /\ backup[t[3]] = t[2] BY <1>0 DEF CopiesOK,
      GTyped, CopyTypes
    <3> QED BY <1>0, <1>3, <1>6, <3>1
  <2> QED BY <1>1, <2>1 DEF CopiesOK
<1>10. InOrder(mem)' /\ LenOK' BY <1>0, <1>1, <1>6 DEF InOrder, LenOK, GTyped, RecordTypes
<1>11. EditOK' /\ BoundOK'
  <2>1. CASE agent' = Work!Idle BY <2>1, IdleEdit DEF EditOK, BoundOK
  <2>2. CASE backup' = [backup EXCEPT ![tries] = tree[agent.path]] /\ agent' = [agent EXCEPT !.at = "check"]
    <3>1. /\ agent'.at = "check" /\ agent'.kind = agent.kind /\ agent'.path = agent.path
          /\ agent'.dest = agent.dest /\ agent'.new = agent.new /\ agent'.base = agent.base /\ agent'.raced = agent.raced
      BY <1>0, <2>2, EditAt DEF GTyped
    <3>2. backup'[tries] = tree[agent.path] BY <1>0, <2>2 DEF GTyped, CopyTypes
    <3> QED BY <1>0, <1>1, <3>1, <3>2 DEF EditOK, BoundOK
  <2> QED BY <1>2, <2>1, <2>2
<1>12. UndoOK'
  <2>1. ASSUME request.at = "restore" PROVE backup'[request.rec[request.next].id] = backup[request.rec[request.next].id]
    BY <1>0, <1>3, <1>6, <2>1, RestoreOf
  <2> QED BY <1>1, <2>1 DEF UndoOK
<1>13. ZipOK' BY <1>1 DEF ZipOK, Work!Fingerprint
<1> QED BY <1>5, <1>8, <1>9, <1>10, <1>11, <1>12, <1>13 DEF Work!ChangesAssumption

LEMMA RefuseStep ==
  ASSUME GInv, Work!Refuse, agent.at \in {"check", "replace"},
         UNCHANGED <<tree, mem, disk, exportPlan, zip, request, taken, first, touched, report, tries, writes, requests>>
  PROVE  GInv'
<1> USE DEF GInv
<1>0. GTyped /\ tries \in 1..TaskEdits /\ agent.path \in FilePaths
  BY DEF GTyped, CountTypes, EditOK
<1>1. agent' = Work!Idle /\ backup' = [backup EXCEPT ![tries] = Absent] BY DEF Work!Refuse
<1>3. backup' \in [1..TaskEdits -> Work!Contents \cup {Absent}] /\ (\A i \in 1..TaskEdits : i # tries => backup'[i] = backup[i])
  BY <1>0, <1>1 DEF GTyped, CopyTypes
<1>5. GTyped' BY <1>0, <1>1, <1>3, IdleEdit
  DEF GTyped, CopyTypes, RecordTypes, AgentType, RequestType, PrintTypes, ReportTypes, CountTypes
<1>6. Used = tries - 1 /\ Used' = tries
  BY <1>0, <1>1, IdleEdit DEF Used
<1>7. \A c : Logged(c)' <=> Logged(c) BY DEF Logged, In
<1>8. EntriesOK' BY <1>0, <1>5, <1>6, <1>7, SameEntries DEF GTyped
<1>9. CopiesOK'
  <2>1. ASSUME NEW t \in taken PROVE t[3] <= Used' /\ backup'[t[3]] = t[2]
    <3>1. t[3] \in 1..TaskEdits /\ t[3] <= Used /\ backup[t[3]] = t[2] BY <1>0 DEF CopiesOK,
      GTyped, CopyTypes
    <3> QED BY <1>0, <1>3, <1>6, <3>1
  <2> QED BY <2>1 DEF CopiesOK
<1>10. InOrder(mem)' /\ LenOK' BY <1>0, <1>6 DEF InOrder, LenOK, GTyped, RecordTypes
<1>11. EditOK' /\ BoundOK' BY <1>1, IdleEdit DEF EditOK, BoundOK
<1>12. UndoOK'
  <2>1. request.at = "restore" => backup'[request.rec[request.next].id] = backup[request.rec[request.next].id]
    BY <1>0, <1>3, <1>6, RestoreOf
  <2> QED BY <2>1 DEF UndoOK
<1>13. ZipOK' BY DEF ZipOK, Work!Fingerprint
<1> QED BY <1>5, <1>8, <1>9, <1>10, <1>11, <1>12, <1>13 DEF Work!ChangesAssumption

LEMMA CheckStep == ASSUME GInv, Work!Check PROVE GInv'
<1> USE DEF GInv
<1>0. GTyped /\ agent.at = "check" /\ tries \in 1..TaskEdits
  BY DEF Work!Check, GTyped, CountTypes, EditOK
<1>1. UNCHANGED <<tree, mem, disk, exportPlan, zip, request, taken, first, touched, report, tries, writes, requests>>
  BY DEF Work!Check, Work!record, Work!exports, Work!history, Work!counts
<1>2. CASE Work!MayApply(agent) /\ agent' = [agent EXCEPT !.at = "replace"] /\ UNCHANGED backup
  <2>1. /\ agent' \in Work!Edit /\ agent'.at = "replace" /\ agent'.kind = agent.kind /\ agent'.path = agent.path
        /\ agent'.dest = agent.dest /\ agent'.new = agent.new /\ agent'.base = agent.base /\ agent'.raced = agent.raced
    BY <1>0, <1>2, EditAt DEF GTyped
  <2>2. GTyped' BY <1>0, <1>1, <1>2, <2>1
    DEF GTyped, CopyTypes, RecordTypes, AgentType, RequestType, PrintTypes, ReportTypes, CountTypes
  <2>3. Used' = Used BY <1>0, <1>1, <2>1 DEF Used
  <2>4. \A c : Logged(c)' <=> Logged(c) BY <1>1 DEF Logged, In
  <2>5. EntriesOK' /\ CopiesOK' /\ LenOK' /\ InOrder(mem)'
    BY <1>1, <1>2, <2>3, <2>4 DEF EntriesOK, EntryOK, CopiesOK, LenOK, InOrder
  <2>6. EditOK' BY <1>0, <1>1, <2>1 DEF EditOK
  <2>7. Work!MayApply(agent)' BY <1>1, <1>2, <2>1 DEF Work!MayApply
  <2>8. agent.kind # "create" => tree[agent.path] = agent.base
    <3>1. agent.kind \in Work!Kinds BY <1>0, EditParts DEF GTyped, AgentType
    <3> QED BY <1>2, <3>1 DEF Work!MayApply, Work!Kinds
  <2>9. BoundOK' BY <1>0, <1>1, <1>2, <2>1, <2>7, <2>8 DEF BoundOK
  <2>10. UndoOK' /\ ZipOK' BY <1>1, <1>2 DEF UndoOK, ZipOK, Work!Fingerprint
  <2> QED BY <2>2, <2>5, <2>6, <2>9, <2>10 DEF Work!ChangesAssumption
<1>3. CASE Work!Refuse BY <1>0, <1>1, <1>3, RefuseStep
<1> QED BY <1>2, <1>3 DEF Work!Check

LEMMA SaveSteps == ASSUME GInv, Work!Save \/ Work!Finish PROVE GInv'
<1> USE DEF GInv
<1>0. GTyped /\ agent.at \notin {"backup", "check", "replace"} BY DEF Work!Save, Work!Finish
<1>1. UNCHANGED <<tree, mem, backup, exportPlan, zip, request, taken, first, touched, report, tries, writes, requests>>
      /\ disk' = mem
  BY DEF Work!Save, Work!Finish, Work!record, Work!exports, Work!history, Work!counts
<1>2. agent' \in Work!Edit /\ agent'.at \in {"idle", "ended"}
  BY <1>0, IdleEdit, EditAt DEF Work!Save, Work!Finish, GTyped
<1>3. GTyped'
  <2>1. Len(mem) \in Nat BY <1>0 DEF GTyped, RecordTypes
  <2> QED BY <1>0, <1>1, <1>2, <2>1
        DEF GTyped, CopyTypes, RecordTypes, AgentType, RequestType, PrintTypes, ReportTypes,
          CountTypes
<1>4. Used' = Used BY <1>0, <1>1, <1>2 DEF Used
<1>5. \A c : Logged(c)' => Logged(c) BY <1>1 DEF Logged, In
<1>6. EntriesOK' /\ CopiesOK' /\ LenOK' /\ InOrder(mem)'
  BY <1>1, <1>4, <1>5 DEF EntriesOK, EntryOK, CopiesOK, LenOK, InOrder
<1>7. EditOK' /\ BoundOK' BY <1>2 DEF EditOK, BoundOK
<1>8. UndoOK' /\ ZipOK' BY <1>1 DEF UndoOK, ZipOK, Work!Fingerprint
<1> QED BY <1>3, <1>6, <1>7, <1>8 DEF Work!ChangesAssumption

\* The edit is written: nothing has come between it and what it compared with, or it has
\* been raced.
LEMMA ReplaceStep ==
  ASSUME GInv, agent.at = "replace", tree' = Work!Applied(agent),
         mem' = Append(mem, [kind |-> agent.kind, path |-> agent.path, dest |-> agent.dest,
                             before |-> agent.base,
                             after |-> IF agent.kind = "rename" THEN agent.base ELSE agent.new,
                             id |-> tries]),
         taken' = taken \cup Work!Lost(agent.dest, tries, agent.raced),
         Work!Disturbs({agent.path, agent.dest}), agent' = [agent EXCEPT !.at = "save"],
         report' = "none", UNCHANGED <<backup, disk, exportPlan, zip, first, touched, tries, writes, requests>>
  PROVE  GInv'
<1> DEFINE n == [kind |-> agent.kind, path |-> agent.path, dest |-> agent.dest,
                 before |-> agent.base,
                 after |-> IF agent.kind = "rename" THEN agent.base ELSE agent.new, id |-> tries]
<1> USE DEF GInv
<1>0. /\ GTyped /\ tries \in 1..TaskEdits /\ agent.path \in FilePaths /\ agent.dest \in FilePaths
      /\ agent.kind \in Work!Kinds /\ agent.new \in Work!Contents \cup {Absent} /\ agent.base \in Work!Contents \cup {Absent}
  BY EditParts DEF GTyped, CountTypes, EditOK, AgentType
<1>1. n \in Work!Change BY <1>0 DEF Work!Change
<1>2. n.id = tries /\ n.kind = agent.kind /\ n.path = agent.path /\ n.before = agent.base
      /\ (agent.kind # "rename" => n.after = agent.new) OBVIOUS
<1> HIDE DEF n
<1>3. mem' = Append(mem, n) BY DEF n
<1>4. /\ agent' \in Work!Edit /\ agent'.at = "save" BY <1>0, EditAt DEF GTyped
<1>5. tree' \in Work!Files /\ \A p \in FilePaths : p \notin {agent.path, agent.dest} => tree'[p] = tree[p]
  <2>1. tree[agent.path] \in Work!Contents \cup {Absent} BY <1>0 DEF GTyped, CopyTypes, Work!Files
  <2> QED BY <1>0, <2>1 DEF Work!Applied, GTyped, CopyTypes, Work!Files, Work!Kinds
<1>6. Used = tries - 1 /\ Used' = tries BY <1>0, <1>4 DEF Used
<1>7. ~agent.raced => Work!MayApply(agent) /\ (agent.kind # "create" => backup[tries] = agent.base)
  BY DEF BoundOK
<1>8. \A t \in taken' : \/ t \in taken
                        \/ /\ t = <<agent.path, tree[agent.path], tries>> /\ tree[agent.path] \in Mine
                           /\ agent.kind \in {"update", "delete"} /\ backup[tries] = tree[agent.path]
  <2> SUFFICES ASSUME NEW t \in Work!Lost(agent.dest, tries, agent.raced)
               PROVE  /\ t = <<agent.path, tree[agent.path], tries>> /\ tree[agent.path] \in Mine
                      /\ agent.kind \in {"update", "delete"} /\ backup[tries] = tree[agent.path]
    OBVIOUS
  <2>1. tree[agent.dest] \in Mine /\ ~agent.raced /\ t = <<agent.dest, tree[agent.dest], tries>> BY DEF Work!Lost
  <2>2. Work!MayApply(agent) /\ (agent.kind # "create" => backup[tries] = agent.base) BY <1>7, <2>1
  <2>3. agent.kind # "rename" => agent.dest = agent.path BY DEF EditOK
  <2>4. tree[agent.dest] # Absent BY <2>1 DEF Work!ChangesAssumption
  <2> QED BY <1>0, <2>1, <2>2, <2>3, <2>4 DEF Work!MayApply, Work!Kinds
<1>9. GTyped'
  <2>1. taken' \subseteq FilePaths \X Mine \X (1..TaskEdits)
    BY <1>0, <1>8 DEF GTyped, CopyTypes
  <2>2. mem' \in Seq(Work!Change) /\ Len(mem') = Len(mem) + 1 BY <1>0, <1>1, <1>3 DEF GTyped,
    RecordTypes
  <2>3. Len(mem) <= tries - 1 BY <1>6 DEF LenOK
  <2>4. RecordTypes' 
    <3>1. request'.rec = request.rec BY <1>0, DisturbsParts DEF GTyped
    <3>2. Len(request.rec) \in Nat /\ Len(disk) \in Nat /\ Len(mem) \in Nat
      BY <1>0, RequestParts DEF GTyped, RecordTypes, RequestType
    <3> QED BY <1>0, <2>2, <2>3, <3>1, <3>2 DEF GTyped, RecordTypes
  <2>5. RequestType' BY <1>0, DisturbsParts DEF GTyped, RequestType
  <2> QED BY <1>0, <1>4, <1>5, <2>1, <2>4, <2>5
        DEF GTyped, CopyTypes, AgentType, PrintTypes, ReportTypes, CountTypes
<1>10. \A c : Logged(c)' => Logged(c) \/ c = n
  <2>1. \A c : In(c, mem') => In(c, mem) \/ c = n BY <1>0, <1>1, <1>3 DEF In, GTyped, RecordTypes
  <2>2. request'.rec = request.rec BY <1>0, DisturbsParts DEF GTyped
  <2>3. \A c : In(c, request'.rec) => In(c, request.rec) BY <2>2
  <2>4. \A c : In(c, disk') => In(c, disk) OBVIOUS
  <2> QED BY <2>1, <2>3, <2>4 DEF Logged
<1>11. EntriesOK'
  <2> SUFFICES ASSUME NEW c \in Work!Change, Logged(c)' PROVE EntryOK(c)' BY DEF EntriesOK
  <2>1. CASE Logged(c)
    <3>1. EntryOK(c) /\ c.id \in 1..TaskEdits BY <2>1, ChangeParts DEF EntriesOK
    <3>2. c.id <= tries - 1 BY <3>1, <1>6 DEF EntryOK
    <3>3. \A t \in taken' : t[3] = c.id => t \in taken BY <1>0, <1>8, <3>1, <3>2
    <3> QED BY <1>0, <1>6, <3>1, <3>2, <3>3 DEF EntryOK
  <2>2. CASE c = n
    <3>1. \A t \in taken : t[3] # tries
      <4> SUFFICES ASSUME NEW t \in taken, t[3] = tries PROVE FALSE OBVIOUS
      <4>1. t[3] <= tries - 1 BY <1>6 DEF CopiesOK
      <4> QED BY <1>0, <4>1
    <3>2. \A t \in taken' : t[3] = n.id => n.kind \in {"update", "delete"} /\ n.path = t[1]
      BY <1>2, <1>8, <3>1
    <3>3. n.kind \in {"create", "update"} => n.after \in Theirs BY <1>2 DEF EditOK
    <3>4. n.kind # "create" => n.before # Absent BY <1>2 DEF EditOK
    <3>5. n.id <= Used' BY <1>0, <1>2, <1>6
    <3> QED BY <2>2, <3>2, <3>3, <3>4, <3>5 DEF EntryOK
  <2> QED BY <1>10, <2>1, <2>2
<1>12. CopiesOK'
  <2> SUFFICES ASSUME NEW t \in taken' PROVE t[3] <= Used' /\ backup[t[3]] = t[2] BY DEF CopiesOK
  <2>1. CASE t \in taken
    <3>1. t[3] <= tries - 1 /\ backup[t[3]] = t[2] /\ t[3] \in 1..TaskEdits
      BY <2>1, <1>0, <1>6 DEF CopiesOK, GTyped, CopyTypes
    <3> QED BY <1>0, <1>6, <3>1
  <2> QED BY <1>0, <1>6, <1>8, <2>1
<1>13. InOrder(mem)'
  <2>1. \A i \in DOMAIN mem : mem[i].id <= tries - 1 /\ mem[i].id \in 1..TaskEdits
    <3> SUFFICES ASSUME NEW i \in DOMAIN mem PROVE mem[i].id <= tries - 1 /\ mem[i].id \in 1..TaskEdits OBVIOUS
    <3>1. mem[i] \in Work!Change /\ Logged(mem[i]) BY <1>0, EntryOf DEF GTyped, RecordTypes, Logged
    <3> QED BY <1>6, <3>1, ChangeParts DEF EntriesOK, EntryOK
  <2>2. Len(mem) \in Nat /\ DOMAIN mem = 1..Len(mem) /\ DOMAIN mem' = 1..(Len(mem) + 1)
        /\ (\A i \in 1..Len(mem) : mem'[i] = mem[i]) /\ mem'[Len(mem) + 1] = n
    BY <1>0, <1>1, <1>3 DEF GTyped, RecordTypes
  <2> SUFFICES ASSUME NEW i \in DOMAIN mem', NEW j \in DOMAIN mem', i < j PROVE mem'[i].id < mem'[j].id
    BY DEF InOrder
  <2>3. i \in 1..Len(mem) /\ mem'[i] = mem[i] BY <2>2
  <2>4. CASE j \in 1..Len(mem) BY <2>2, <2>3, <2>4 DEF InOrder
  <2>5. CASE j = Len(mem) + 1 BY <1>0, <1>2, <2>1, <2>2, <2>3, <2>5
  <2> QED BY <2>2, <2>4, <2>5
<1>14. EditOK' /\ BoundOK' /\ LenOK'
  <2>1. Len(mem') = Len(mem) + 1 /\ Len(mem) \in Nat BY <1>0, <1>1, <1>3 DEF GTyped, RecordTypes
  <2> QED BY <1>0, <1>4, <1>6, <2>1 DEF EditOK, BoundOK, LenOK
<1>15. UndoOK' /\ ZipOK'
  <2>1. /\ request'.at = request.at /\ request'.rec = request.rec /\ request'.prints = request.prints
        /\ request'.next = request.next /\ request'.raw = request.raw
        /\ ~request'.raced => /\ ~request.raced /\ request.at # "zip"
                              /\ request.at = "restore" => {agent.path, agent.dest} \cap {request.rec[request.next].path, request.rec[request.next].dest} = {}
    BY <1>0, DisturbsParts DEF GTyped
  <2>2. request.at = "restore" => request.rec[request.next].path \in FilePaths BY RestoreOf, ChangeParts
  <2> QED BY <1>5, <2>1, <2>2 DEF UndoOK, ZipOK
<1> QED BY <1>9, <1>11, <1>12, <1>13, <1>14, <1>15 DEF Work!ChangesAssumption

LEMMA ReplaceSteps == ASSUME GInv, Work!Replace PROVE GInv'
<1>1. agent.at = "replace" /\ UNCHANGED <<disk, exportPlan, zip, first, touched, tries, writes, requests>>
  BY DEF Work!Replace, Work!exports, Work!history, Work!counts
<1>2. CASE Work!Refuse /\ UNCHANGED <<tree, mem, taken, request, report>> BY <1>1, <1>2, RefuseStep
<1>3. CASE ~(Work!Refuse /\ UNCHANGED <<tree, mem, taken, request, report>>) BY <1>1, <1>3, ReplaceStep DEF Work!Replace
<1> QED BY <1>2, <1>3

-----------------------------------------------------------------------------
(* The user's editor, and the undo. *)

\* Whoever writes marks the edit that it races with, and the copy of that edit stands.
LEMMA BoundKept ==
  ASSUME GInv, NEW S, Work!Races(S), UNCHANGED tries, \A p \in FilePaths : p \notin S => tree'[p] = tree[p],
         agent.at \in {"check", "replace"} => backup'[tries] = backup[tries]
  PROVE  EditOK' /\ BoundOK'
<1> USE DEF GInv
<1>0. AgentType BY DEF GTyped
<1>1. /\ agent'.at = agent.at /\ agent'.kind = agent.kind /\ agent'.path = agent.path
      /\ agent'.dest = agent.dest /\ agent'.new = agent.new /\ agent'.base = agent.base
      /\ ~agent'.raced => /\ ~agent.raced
                          /\ agent.at = "replace" => {agent.path, agent.dest} \cap S = {}
                          /\ agent.at = "check" /\ agent.path \in S => tree'[agent.path] # agent.base
  BY <1>0, RacesParts
<1>2. EditOK' BY <1>1 DEF EditOK
<1>3. agent.at \in {"check", "replace"} => agent.path \in FilePaths /\ agent.dest \in FilePaths BY DEF EditOK
<1>4. agent.at = "replace" /\ ~agent'.raced => Work!MayApply(agent)'
  BY <1>1, <1>3 DEF Work!MayApply, BoundOK
<1>5. BoundOK' BY <1>1, <1>3, <1>4 DEF BoundOK
<1> QED BY <1>2, <1>5

LEMMA WriteStep == ASSUME GInv, NEW p \in FilePaths, NEW c \in Mine \cup {Absent}, Work!Write(p, c) PROVE GInv'
<1> USE DEF GInv
<1>0. GTyped /\ c \in Work!Contents \cup {Absent} BY DEF Work!Contents
<1>1. /\ tree' = [tree EXCEPT ![p] = c] /\ Work!Races({p}) /\ Work!Disturbs({p}) /\ touched' = TRUE /\ report' = "none"
      /\ UNCHANGED <<mem, disk, backup, exportPlan, zip, first, taken, tries, requests>>
      /\ writes' \in 0..MaxWrites
  BY <1>0 DEF Work!Write, Work!record, Work!exports, GTyped, CountTypes, Work!ChangesAssumption
<1>2. /\ request' \in Work!Request /\ request'.at = request.at /\ request'.rec = request.rec /\ request'.prints = request.prints
      /\ request'.next = request.next /\ request'.raw = request.raw
      /\ ~request'.raced => /\ ~request.raced /\ request.at # "zip"
                            /\ request.at = "restore" => {p} \cap {request.rec[request.next].path, request.rec[request.next].dest} = {}
  BY <1>0, <1>1, DisturbsParts DEF GTyped
<1>3. agent' \in Work!Edit /\ agent'.at = agent.at BY <1>0, <1>1, RacesParts DEF GTyped
<1>4. tree' \in Work!Files /\ \A q \in FilePaths : q # p => tree'[q] = tree[q] BY <1>0, <1>1 DEF GTyped, CopyTypes, Work!Files
<1>5. GTyped' BY <1>0, <1>1, <1>2, <1>3, <1>4
  DEF GTyped, CopyTypes, RecordTypes, AgentType, RequestType, PrintTypes, ReportTypes, CountTypes
<1>6. Used' = Used BY <1>1, <1>3 DEF Used
<1>7. \A e : Logged(e)' <=> Logged(e) BY <1>1, <1>2 DEF Logged, In
<1>8. EntriesOK' /\ CopiesOK' /\ LenOK' /\ InOrder(mem)'
  BY <1>1, <1>6, <1>7 DEF EntriesOK, EntryOK, CopiesOK, LenOK, InOrder
<1>9. EditOK' /\ BoundOK' BY <1>1, <1>4, BoundKept
<1>10. UndoOK' /\ ZipOK'
  <2>1. request.at = "restore" => request.rec[request.next].path \in FilePaths BY RestoreOf, ChangeParts
  <2> QED BY <1>1, <1>2, <1>4, <2>1 DEF UndoOK, ZipOK
<1> QED BY <1>5, <1>8, <1>9, <1>10 DEF Work!ChangesAssumption

\* A step of a request that leaves the files, the copies and the edit alone.
LEMMA QuietStep ==
  ASSUME GInv, UNCHANGED <<tree, agent, mem, backup, taken, first, touched, tries, writes>>,
         RecordTypes', RequestType', PrintTypes', ReportTypes', CountTypes', UndoOK', ZipOK',
         \A c : Logged(c)' => Logged(c)
  PROVE  GInv'
<1> USE DEF GInv
<1>1. GTyped' BY DEF GTyped, CopyTypes, AgentType
<1>2. Used' = Used BY DEF Used
<1>3. EntriesOK' /\ CopiesOK' /\ LenOK' /\ InOrder(mem)' BY <1>2 DEF EntriesOK, EntryOK,
  CopiesOK, LenOK, InOrder
<1>4. EditOK' /\ BoundOK' BY DEF EditOK, BoundOK, Work!MayApply
<1> QED BY <1>1, <1>3, <1>4 DEF Work!ChangesAssumption

LEMMA UndoBeginStep == ASSUME GInv, Work!UndoBegin PROVE GInv'
<1> DEFINE b == ~touched /\ agent.at \in {"idle", "ended"} /\ requests = 0 /\ disk = mem
<1> USE DEF GInv
<1>0. GTyped /\ disk \in Seq(Work!Change) /\ Len(disk) \in Nat /\ Len(disk) <= TaskEdits /\ Len(disk) <= Len(mem)
  BY DEF GTyped, RecordTypes, CountTypes, Work!ChangesAssumption
<1>1. UNCHANGED <<tree, agent, mem, disk, backup, exportPlan, zip, taken, first, touched, report, tries, writes>>
      /\ requests' = requests + 1 /\ requests < MaxRequests
  BY DEF Work!UndoBegin, Work!MayAsk, Work!record, Work!exports, Work!history
<1>2. b \in BOOLEAN /\ request' = [Work!NoRequest EXCEPT !.at = "undo", !.rec = disk, !.next = Len(disk), !.calm = b]
  BY DEF Work!UndoBegin
<1> HIDE DEF b
<1>3. request' \in Work!Request /\ request'.at = "undo" /\ request'.rec = disk /\ request'.next = Len(disk)
      /\ request'.calm = b /\ request'.skipped = FALSE
  <2>1. Len(disk) \in 0..TaskEdits BY <1>0 DEF Work!ChangesAssumption
  <2>2. request' = [at |-> "undo", rec |-> disk, prints |-> Work!Nothing, next |-> Len(disk), raw |-> Absent,
                skipped |-> FALSE, raced |-> FALSE, calm |-> b]
    BY <1>2 DEF Work!NoRequest
  <2>3. b \in BOOLEAN BY <1>2
  <2>4. request' \in Work!Request BY <1>0, <2>1, <2>2, <2>3, NothingPrints, Zenon DEF Work!Request
  <2> QED BY <2>2, <2>4
<1>4. CountTypes' /\ RecordTypes' /\ RequestType' /\ PrintTypes' /\ ReportTypes'
  BY <1>0, <1>1, <1>3
  DEF GTyped, CountTypes, RecordTypes, RequestType, PrintTypes, ReportTypes, Work!ChangesAssumption
<1>5. UndoOK' /\ ZipOK' BY <1>0, <1>3 DEF UndoOK, ZipOK
<1>6. \A c : Logged(c)' => Logged(c) BY <1>1, <1>3 DEF Logged, In
<1> QED BY <1>1, <1>4, <1>5, <1>6, QuietStep

LEMMA UndoCheckStep == ASSUME GInv, Work!UndoCheck PROVE GInv'
<1> DEFINE c == request.rec[request.next]
<1> USE DEF GInv
<1>0. GTyped /\ request.rec \in Seq(Work!Change) /\ request.at = "undo" /\ request.next \in DOMAIN request.rec /\ request.next \in 0..TaskEdits
  BY RequestParts DEF GTyped, RequestType, Work!UndoCheck
<1>1. UNCHANGED <<tree, agent, mem, disk, backup, exportPlan, zip, taken, first, touched, report, tries, writes, requests>>
  BY DEF Work!UndoCheck, Work!record, Work!exports, Work!history, Work!counts
<1>2. c \in Work!Change /\ c.kind \in Work!Kinds /\ c.path \in FilePaths /\ c.id \in 1..TaskEdits /\ EntryOK(c)
  BY <1>0, EntryOf, ChangeParts DEF EntriesOK, Logged
<1>3. backup[c.id] \in Work!Contents \cup {Absent} BY <1>0, <1>2 DEF GTyped, CopyTypes
<1>4. \/ Work!MayUndo(c) /\ request' = [request EXCEPT !.at = "restore", !.raw = backup[c.id], !.raced = FALSE]
      \/ request' = [request EXCEPT !.next = Work!NextOf(request), !.skipped = TRUE]
  BY DEF Work!UndoCheck
<1> HIDE DEF c
<1>5. Work!NextOf(request) \in 0..TaskEdits /\ Work!NextOf(request) \in 0..Len(request.rec) BY <1>0 DEF Work!NextOf, Work!ChangesAssumption
<1>6. request' \in Work!Request /\ request'.rec = request.rec
  BY <1>0, <1>3, <1>4, <1>5 DEF GTyped, RequestType, Work!Request
<1>7. UndoOK' /\ ZipOK'
  <2>1. CASE Work!MayUndo(c) /\ request' = [request EXCEPT !.at = "restore", !.raw = backup[c.id], !.raced = FALSE]
    <3>1. /\ request'.at = "restore" /\ request'.next = request.next /\ request'.raw = backup[c.id]
      BY <1>0, <2>1 DEF GTyped, RequestType, Work!Request
    <3>2. tree[c.path] \notin Mine BY <1>2, <2>1 DEF Work!MayUndo, EntryOK, Work!Kinds,
      Work!ChangesAssumption
    <3>3. request'.rec[request'.next] = c BY <1>6, <3>1 DEF c
    <3> QED BY <1>0, <1>1, <1>6, <3>1, <3>2, <3>3 DEF UndoOK, ZipOK
  <2>2. CASE request' = [request EXCEPT !.next = Work!NextOf(request), !.skipped = TRUE]
    <3>1. request'.at = "undo" /\ request'.next = Work!NextOf(request) BY <1>0, <2>2 DEF GTyped,
      RequestType, Work!Request
    <3> QED BY <1>5, <1>6, <3>1 DEF UndoOK, ZipOK
  <2> QED BY <1>4, <2>1, <2>2
<1>8. \A e : Logged(e)' => Logged(e) BY <1>1, <1>6 DEF Logged, In
<1>9. RecordTypes' /\ RequestType' /\ PrintTypes' /\ ReportTypes' /\ CountTypes'
  BY <1>0, <1>1, <1>6 DEF GTyped, RecordTypes, RequestType, PrintTypes, ReportTypes, CountTypes
<1> QED BY <1>1, <1>7, <1>8, <1>9, QuietStep

\* A change that is put back takes the user's bytes out of the private copies, and only there.
LEMMA RestoreStep ==
  ASSUME GInv, request.at = "restore", NEW c, c = request.rec[request.next], tree' = Work!Restored(c),
         taken' = (taken \ {<<c.path, request.raw, c.id>>}) \cup Work!Lost(c.path, c.id, request.raced),
         Work!Discards(c, TRUE), request' = [request EXCEPT !.at = "undo", !.next = Work!NextOf(request)],
         Work!Races({c.path, c.dest}),
         UNCHANGED <<mem, disk, exportPlan, zip, first, touched, report, tries, writes, requests>>
  PROVE  GInv'
<1> USE DEF GInv
<1>0. /\ GTyped /\ c \in Work!Change /\ Logged(c) /\ EntryOK(c) /\ c.id \in 1..TaskEdits /\ c.id <= Used
      /\ c.kind \in Work!Kinds /\ c.path \in FilePaths /\ c.dest \in FilePaths
  BY RestoreOf, ChangeParts DEF EntriesOK
<1>1. request.rec \in Seq(Work!Change) /\ request.next \in DOMAIN request.rec /\ request.next \in 0..TaskEdits
      /\ request.raw = backup[c.id] /\ request.raw \in Work!Contents \cup {Absent}
      /\ (~request.raced => tree[c.path] \notin Mine)
  BY RequestParts DEF GTyped, RequestType, UndoOK
<1>2. taken' = taken \ {<<c.path, request.raw, c.id>>} BY <1>1 DEF Work!Lost
<1>3. tree' \in Work!Files /\ \A p \in FilePaths : p \notin {c.path, c.dest} => tree'[p] = tree[p]
  <2>1. tree[c.dest] \in Work!Contents \cup {Absent} BY <1>0 DEF GTyped, CopyTypes, Work!Files
  <2> QED BY <1>0, <1>1, <2>1 DEF Work!Restored, Work!Kinds, GTyped, CopyTypes, Work!Files
<1>4. backup' \in [1..TaskEdits -> Work!Contents \cup {Absent}] /\ (\A i \in 1..TaskEdits : i # c.id => backup'[i] = backup[i])
  BY <1>0 DEF Work!Discards, GTyped, CopyTypes
<1>5. Work!NextOf(request) \in 0..TaskEdits /\ Work!NextOf(request) \in 0..Len(request.rec) BY <1>1 DEF Work!NextOf, Work!ChangesAssumption
<1>6. request' \in Work!Request /\ request'.rec = request.rec /\ request'.at = "undo" /\ request'.next = Work!NextOf(request)
  BY <1>0, <1>5 DEF GTyped, RequestType, Work!Request
<1>7. agent' \in Work!Edit /\ agent'.at = agent.at BY <1>0, RacesParts DEF GTyped
<1>8. GTyped' BY <1>0, <1>2, <1>3, <1>4, <1>6, <1>7
  DEF GTyped, CopyTypes, RecordTypes, AgentType, RequestType, PrintTypes, ReportTypes, CountTypes
<1>9. Used' = Used BY <1>7 DEF Used
<1>10. \A e : Logged(e)' <=> Logged(e) BY <1>6 DEF Logged, In
<1>11. EntriesOK' /\ LenOK' /\ InOrder(mem)'
  BY <1>2, <1>9, <1>10 DEF EntriesOK, EntryOK, LenOK, InOrder
<1>12. CopiesOK'
  <2> SUFFICES ASSUME NEW t \in taken' PROVE t[3] <= Used /\ backup'[t[3]] = t[2] BY <1>9
     DEF CopiesOK
  <2>1. t \in taken /\ t # <<c.path, request.raw, c.id>> /\ t \in FilePaths \X Mine \X (1..TaskEdits)
    BY <1>0, <1>2 DEF GTyped, CopyTypes
  <2>2. t[3] <= Used /\ backup[t[3]] = t[2] BY <2>1 DEF CopiesOK
  <2>3. t[3] # c.id
    <3> SUFFICES ASSUME t[3] = c.id PROVE FALSE OBVIOUS
    <3>1. c.path = t[1] BY <1>0, <2>1 DEF EntryOK
    <3> QED BY <1>1, <2>1, <2>2, <3>1
  <2> QED BY <1>4, <2>1, <2>2, <2>3
<1>13. EditOK' /\ BoundOK'
  <2>1. agent.at \in {"check", "replace"} => backup'[tries] = backup[tries]
    <3>1. agent.at \in {"check", "replace"} => tries \in 1..TaskEdits /\ Used = tries - 1
      BY <1>0 DEF GTyped, CountTypes, EditOK, Used
    <3> QED BY <1>0, <1>4, <3>1
  <2> QED BY <1>3, <2>1, BoundKept
<1>14. UndoOK' /\ ZipOK' BY <1>5, <1>6 DEF UndoOK, ZipOK
<1> QED BY <1>8, <1>11, <1>12, <1>13, <1>14 DEF Work!ChangesAssumption

LEMMA UndoWriteStep == ASSUME GInv, Work!UndoWrite PROVE GInv'
<1> DEFINE c == request.rec[request.next]
<1> USE DEF GInv
<1>0. GTyped /\ request.at = "restore" /\ request.rec \in Seq(Work!Change) /\ request.next \in DOMAIN request.rec /\ request.next \in 0..TaskEdits
  BY RequestParts DEF GTyped, RequestType, Work!UndoWrite, UndoOK
<1>1. UNCHANGED <<mem, disk, exportPlan, zip, first, touched, report, tries, writes, requests>>
  BY DEF Work!UndoWrite, Work!record, Work!exports, Work!history, Work!counts
<1>2. CASE /\ Work!Discards(c, FALSE)
           /\ request' = [request EXCEPT !.at = "undo", !.next = Work!NextOf(request), !.skipped = TRUE, !.calm = FALSE]
           /\ UNCHANGED <<tree, agent, taken>>
  <2>1. UNCHANGED backup BY <1>2 DEF Work!Discards
  <2>2. Work!NextOf(request) \in 0..TaskEdits /\ Work!NextOf(request) \in 0..Len(request.rec) BY <1>0 DEF Work!NextOf, Work!ChangesAssumption
  <2>3. request' \in Work!Request /\ request'.rec = request.rec /\ request'.at = "undo" /\ request'.next = Work!NextOf(request)
    BY <1>0, <1>2, <2>2 DEF GTyped, RequestType, Work!Request
  <2>4. UndoOK' /\ ZipOK' BY <2>2, <2>3 DEF UndoOK, ZipOK
  <2>5. \A e : Logged(e)' => Logged(e) BY <1>1, <2>3 DEF Logged, In
  <2>6. RecordTypes' /\ RequestType' /\ PrintTypes' /\ ReportTypes' /\ CountTypes'
    BY <1>0, <1>1, <2>3 DEF GTyped, RecordTypes, RequestType, PrintTypes, ReportTypes, CountTypes
  <2> QED BY <1>1, <1>2, <2>1, <2>4, <2>5, <2>6, QuietStep
<1>3. CASE /\ tree' = Work!Restored(c)
           /\ taken' = (taken \ {<<c.path, request.raw, c.id>>}) \cup Work!Lost(c.path, c.id, request.raced)
           /\ Work!Discards(c, TRUE)
           /\ request' = [request EXCEPT !.at = "undo", !.next = Work!NextOf(request)]
           /\ Work!Races({c.path, c.dest})
  BY <1>0, <1>1, <1>3, RestoreStep
<1> QED BY <1>2, <1>3 DEF Work!UndoWrite

LEMMA UndoEndStep == ASSUME GInv, Work!UndoEnd PROVE GInv'
<1> USE DEF GInv
<1>0. GTyped /\ request.rec \in Seq(Work!Change) BY RequestParts DEF GTyped, RequestType
<1>1. /\ UNCHANGED <<tree, agent, mem, backup, exportPlan, zip, taken, first, touched, tries, writes, requests>>
      /\ disk' = request.rec /\ request' = Work!NoRequest
      /\ report' = (IF ~request.calm THEN "none" ELSE IF request.skipped THEN "short" ELSE "calm")
  BY DEF Work!UndoEnd, Work!exports, Work!history, Work!counts
<1>2. Work!NoRequest \in Work!Request /\ Work!NoRequest.at = "none" /\ Work!NoRequest.rec = <<>> BY NoRequestIs
<1>3. RecordTypes' /\ RequestType' /\ PrintTypes' /\ CountTypes'
  <2>1. Len(mem) \in Nat BY <1>0 DEF GTyped, RecordTypes
  <2> QED BY <1>0, <1>1, <1>2, <2>1 DEF GTyped, RecordTypes, RequestType, PrintTypes, CountTypes
<1>4. ReportTypes' BY <1>0, <1>1 DEF GTyped, ReportTypes
<1>5. UndoOK' /\ ZipOK' BY <1>1, <1>2 DEF UndoOK, ZipOK
<1>6. \A e : Logged(e)' => Logged(e) BY <1>1, <1>2 DEF Logged, In
<1> QED BY <1>1, <1>3, <1>4, <1>5, <1>6, QuietStep

-----------------------------------------------------------------------------
(* The export, the deletion of the task and the end of the process. *)

LEMMA PlanSteps == ASSUME GInv, Work!PlanExport \/ Work!PlanExpires PROVE GInv'
<1> USE DEF GInv
<1>0. GTyped BY DEF GTyped
<1>1. UNCHANGED <<tree, agent, mem, disk, backup, zip, request, taken, first, touched, report, tries, writes>>
  BY DEF Work!PlanExport, Work!PlanExpires, Work!record, Work!exports, Work!history, Work!counts
<1>2. requests' \in 0..MaxRequests
  BY <1>0 DEF Work!PlanExport, Work!PlanExpires, Work!MayAsk, Work!counts, GTyped, CountTypes,
     Work!ChangesAssumption
<1>3. exportPlan' \in Work!Prints
  BY <1>0, NothingPrints, Printed, PathsOf DEF Work!PlanExport, Work!PlanExpires, GTyped,
     RecordTypes
<1>4. RecordTypes' /\ RequestType' /\ PrintTypes' /\ ReportTypes' /\ CountTypes'
  BY <1>0, <1>1, <1>2, <1>3 DEF GTyped, RecordTypes, RequestType, PrintTypes, ReportTypes,
     CountTypes
<1>5. UndoOK' /\ ZipOK' BY <1>1 DEF UndoOK, ZipOK, Work!Fingerprint
<1>6. \A e : Logged(e)' => Logged(e) BY <1>1 DEF Logged, In
<1> QED BY <1>1, <1>4, <1>5, <1>6, QuietStep

LEMMA ExportSteps == ASSUME GInv, Work!ExportBegin \/ Work!ExportEnd PROVE GInv'
<1> USE DEF GInv
<1>0. GTyped /\ Len(mem) \in Nat /\ Len(disk) \in Nat /\ request.rec \in Seq(Work!Change) /\ request.prints \in Work!Prints
  BY RequestParts DEF GTyped, RecordTypes, RequestType
<1>1. UNCHANGED <<tree, agent, mem, backup, taken, first, touched, report, tries, writes, requests>>
  BY DEF Work!ExportBegin, Work!ExportEnd, Work!record, Work!history, Work!counts
<1>2. CASE Work!ExportBegin /\ Work!StillAsReviewed(exportPlan) /\ request' = [Work!NoRequest EXCEPT !.at = "zip", !.rec = disk, !.prints = exportPlan]
  <2>1. UNCHANGED <<disk, zip>> /\ exportPlan' = Work!Nothing BY <1>2 DEF Work!ExportBegin,
    Work!record
  <2>2. request' \in Work!Request /\ request'.at = "zip" /\ request'.rec = disk /\ request'.prints = exportPlan
    BY <1>0, <1>2, NoRequestIs DEF GTyped, RecordTypes, PrintTypes, Work!Request, Work!NoRequest
  <2>3. RecordTypes' /\ RequestType' /\ PrintTypes' /\ ReportTypes' /\ CountTypes'
    BY <1>0, <1>1, <2>1, <2>2, NothingPrints
    DEF GTyped, RecordTypes, RequestType, PrintTypes, ReportTypes, CountTypes
  <2>4. UndoOK' /\ ZipOK' BY <1>1, <1>2, <2>2 DEF UndoOK, ZipOK, Work!StillAsReviewed,
    Work!Fingerprint
  <2>5. \A e : Logged(e)' => Logged(e) BY <1>1, <2>1, <2>2 DEF Logged, In
  <2> QED BY <1>1, <2>3, <2>4, <2>5, QuietStep
<1>3. CASE Work!ExportBegin /\ UNCHANGED request
  <2>1. UNCHANGED <<disk, zip>> /\ exportPlan' = Work!Nothing BY <1>3 DEF Work!ExportBegin,
    Work!record
  <2>2. RecordTypes' /\ RequestType' /\ PrintTypes' /\ ReportTypes' /\ CountTypes'
    BY <1>0, <1>1, <1>3, <2>1, NothingPrints
    DEF GTyped, RecordTypes, RequestType, PrintTypes, ReportTypes, CountTypes
  <2>3. UndoOK' /\ ZipOK' BY <1>1, <1>3 DEF UndoOK, ZipOK, Work!Fingerprint
  <2>4. \A e : Logged(e)' => Logged(e) BY <1>1, <1>3, <2>1 DEF Logged, In
  <2> QED BY <1>1, <2>2, <2>3, <2>4, QuietStep
<1>4. CASE Work!ExportEnd
  <2>1. zip' = Work!Fingerprint(DOMAIN request.prints) /\ disk' = request.rec /\ request' = Work!NoRequest /\ UNCHANGED exportPlan
    BY <1>4 DEF Work!ExportEnd
  <2>2. zip' \in Work!Prints BY <1>0, <2>1, Printed, PrintsPaths DEF GTyped
  <2>3. Work!NoRequest \in Work!Request /\ Work!NoRequest.at = "none" /\ Work!NoRequest.rec = <<>> BY NoRequestIs
  <2>4. RecordTypes' /\ RequestType' /\ PrintTypes' /\ ReportTypes' /\ CountTypes'
    BY <1>0, <1>1, <2>1, <2>2, <2>3
    DEF GTyped, RecordTypes, RequestType, PrintTypes, ReportTypes, CountTypes
  <2>5. UndoOK' /\ ZipOK' BY <2>1, <2>3 DEF UndoOK, ZipOK
  <2>6. \A e : Logged(e)' => Logged(e) BY <1>1, <2>1, <2>3 DEF Logged, In
  <2> QED BY <1>1, <2>4, <2>5, <2>6, QuietStep
<1> QED BY <1>2, <1>3, <1>4 DEF Work!ExportBegin

LEMMA DeleteStep == ASSUME GInv, Work!Delete PROVE GInv'
<1> USE DEF GInv
<1>0. GTyped /\ request.rec = <<>> /\ request.at = "none" /\ agent.at = "ended" /\ tries \in Nat
  BY DEF Work!Delete, Work!Live, UndoOK, GTyped, CountTypes
<1>1. /\ UNCHANGED <<tree, agent, exportPlan, request, first, touched, tries, writes, requests>>
      /\ disk' = <<>> /\ mem' = <<>> /\ backup' = [i \in 1..TaskEdits |-> Absent]
      /\ taken' = {} /\ zip' = Work!Nothing /\ report' = "none"
  BY DEF Work!Delete, Work!history, Work!counts
<1>2. GTyped'
  <2>1. CopyTypes' BY <1>0, <1>1 DEF GTyped, CopyTypes
  <2>2. RecordTypes' BY <1>0, <1>1 DEF RecordTypes
  <2> QED BY <1>0, <1>1, <2>1, <2>2, NothingPrints
        DEF GTyped, AgentType, RequestType, PrintTypes, ReportTypes, CountTypes
<1>3. \A c : ~Logged(c)' BY <1>0, <1>1 DEF Logged, In
<1>4. EntriesOK' /\ CopiesOK' /\ InOrder(mem)' BY <1>1, <1>3 DEF EntriesOK, CopiesOK, InOrder
<1>5. LenOK' /\ EditOK' /\ BoundOK' BY <1>0, <1>1 DEF LenOK, Used, EditOK, BoundOK
<1>6. UndoOK' /\ ZipOK' BY <1>0, <1>1 DEF UndoOK, ZipOK
<1> QED BY <1>2, <1>4, <1>5, <1>6 DEF Work!ChangesAssumption

LEMMA RestartStep == ASSUME GInv, Work!Restart PROVE GInv'
<1> USE DEF GInv
<1>0. GTyped /\ tries \in Nat /\ Len(mem) \in Nat BY DEF GTyped, CountTypes, RecordTypes
<1>1. /\ UNCHANGED <<tree, mem, disk, backup, zip, taken, first, touched, report, tries, writes, requests>>
      /\ request' = Work!NoRequest /\ exportPlan' = Work!Nothing /\ agent' \in Work!Edit /\ agent'.at = "ended"
  BY IdleEdit DEF Work!Restart, Work!record, Work!history, Work!counts
<1>2. Work!NoRequest \in Work!Request /\ Work!NoRequest.at = "none" /\ Work!NoRequest.rec = <<>> BY NoRequestIs
<1>3. GTyped' BY <1>0, <1>1, <1>2, NothingPrints
  DEF GTyped, CopyTypes, RecordTypes, AgentType, RequestType, PrintTypes, ReportTypes, CountTypes
<1>4. Used \in Int /\ Used <= Used' /\ Used' = tries BY <1>0, <1>1 DEF Used
<1>5. \A c : Logged(c)' => Logged(c) BY <1>1, <1>2 DEF Logged, In
<1>6. EntriesOK' BY <1>1, <1>3, <1>4, <1>5, SameEntries DEF GTyped
<1>7. CopiesOK'
  <2> SUFFICES ASSUME NEW t \in taken PROVE t[3] <= Used' /\ backup[t[3]] = t[2] BY <1>1
     DEF CopiesOK
  <2>1. t[3] \in 1..TaskEdits /\ t[3] <= Used /\ backup[t[3]] = t[2] BY <1>0 DEF CopiesOK,
    GTyped, CopyTypes
  <2> QED BY <1>4, <2>1, <1>0
<1>8. LenOK' /\ InOrder(mem)' BY <1>0, <1>1, <1>4 DEF LenOK, InOrder
<1>9. EditOK' /\ BoundOK' BY <1>1 DEF EditOK, BoundOK
<1>10. UndoOK' /\ ZipOK' BY <1>1, <1>2 DEF UndoOK, ZipOK
<1> QED BY <1>3, <1>6, <1>7, <1>8, <1>9, <1>10 DEF Work!ChangesAssumption

LEMMA GInit == ASSUME Work!ChangesAssumption, Work!Init PROVE GInv
<1>1. CopyTypes BY DEF Work!Init, CopyTypes, Work!Files, Work!Contents
<1>2. Work!NoRequest \in Work!Request /\ Work!NoRequest.at = "none" /\ Work!NoRequest.rec = <<>> BY NoRequestIs
<1>3. RecordTypes /\ CountTypes BY <1>2 DEF Work!Init, RecordTypes, CountTypes,
  Work!ChangesAssumption
<1>4. GTyped BY <1>1, <1>2, <1>3, NothingPrints, IdleEdit
  DEF Work!Init, GTyped, AgentType, RequestType, PrintTypes, ReportTypes
<1>5. \A c : ~Logged(c) BY <1>2 DEF Work!Init, Logged, In
<1>6. EntriesOK /\ CopiesOK /\ InOrder(mem) BY <1>5 DEF Work!Init, EntriesOK, CopiesOK, InOrder
<1>7. LenOK /\ EditOK /\ BoundOK BY IdleEdit DEF Work!Init, LenOK, Used, EditOK, BoundOK
<1>8. UndoOK /\ ZipOK BY <1>2 DEF Work!Init, UndoOK, ZipOK
<1> QED BY <1>4, <1>6, <1>7, <1>8 DEF GInv

LEMMA GQuiet == ASSUME GInv, UNCHANGED Work!vars PROVE GInv'
<1>1. UNCHANGED <<tree, agent, mem, disk, backup, exportPlan, zip, request, first, taken, touched, report, tries, writes, requests>>
  BY DEF Work!vars
<1>2. \A e : Logged(e)' => Logged(e) BY <1>1 DEF Logged, In
<1>3. RecordTypes' /\ RequestType' /\ PrintTypes' /\ ReportTypes' /\ CountTypes' /\ UndoOK' /\ ZipOK'
  BY <1>1 DEF GInv, GTyped, RecordTypes, RequestType, PrintTypes, ReportTypes, CountTypes,
     UndoOK, ZipOK, Work!Fingerprint
<1> QED BY <1>1, <1>2, <1>3, QuietStep

LEMMA GNext == GInv /\ [Work!Next]_(Work!vars) => GInv'
<1> SUFFICES ASSUME GInv, [Work!Next]_(Work!vars) PROVE GInv' OBVIOUS
<1>1. CASE UNCHANGED Work!vars BY <1>1, GQuiet
<1>2. CASE \E kind \in Work!Kinds, p, q \in FilePaths, new \in Theirs \cup {Absent} : Work!Propose(kind, p, q, new)
  BY <1>2, EditProposed
<1>3. CASE Work!Backup \/ Work!Check \/ Work!Replace BY <1>3, BackupStep, CheckStep, ReplaceSteps
<1>4. CASE Work!Save \/ Work!Finish BY <1>4, SaveSteps
<1>5. CASE \E p \in FilePaths, c \in Mine \cup {Absent} : Work!Write(p, c) BY <1>5, WriteStep
<1>6. CASE Work!UndoBegin \/ Work!UndoCheck \/ Work!UndoWrite \/ Work!UndoEnd
  BY <1>6, UndoBeginStep, UndoCheckStep, UndoWriteStep, UndoEndStep
<1>7. CASE Work!PlanExport \/ Work!PlanExpires BY <1>7, PlanSteps
<1>8. CASE Work!ExportBegin \/ Work!ExportEnd BY <1>8, ExportSteps
<1>9. CASE Work!Delete \/ Work!Restart BY <1>9, DeleteStep, RestartStep
<1> QED BY <1>1, <1>2, <1>3, <1>4, <1>5, <1>6, <1>7, <1>8, <1>9 DEF Work!Next

\* The inductive invariant of the edits: each entry of a record has a number of its own, its
\* copy holds what the user had there, and an edit or an undo under way is bound to what it
\* has read (coding/editing.py, coding/undo.py).
THEOREM ChangesBookkeeping == Work!Spec => []GInv
<1>1. Work!Init => GInv BY GInit, WorkAssumption
<1> QED BY <1>1, GNext, PTL DEF Work!Spec

\* Every variable of the edits, the undo and the export keeps its type
\* (coding/editing.py, coding/undo.py, coding/delivery.py).
THEOREM ChangesTypes == Work!Spec => []Work!TypeOK
<1>1. GInv => Work!TypeOK
  <2> SUFFICES ASSUME GInv PROVE Work!TypeOK OBVIOUS
  <2>1. GTyped BY DEF GInv
  <2>2. first \in Work!Files BY <2>1 DEF GTyped, CopyTypes, Work!Files, Work!Contents
  <2>3. Len(mem) <= tries
    <3>1. Len(mem) \in Nat /\ tries \in Nat /\ Len(mem) <= Used BY <2>1 DEF GInv, LenOK, GTyped,
      RecordTypes, CountTypes
    <3> QED BY <3>1 DEF Used
  <2> QED BY <2>1, <2>2, <2>3
        DEF Work!TypeOK, GTyped, CopyTypes, RecordTypes, AgentType, RequestType, PrintTypes,
          ReportTypes, CountTypes
<1> QED BY <1>1, ChangesBookkeeping, PTL

\* Bytes of the user that an edit or an undo has replaced or removed are in the private
\* backup of that edit until they are put back or the task is deleted, unless they were
\* written in the instant of the edit (coding/undo.py, coding/editing.py).
THEOREM BackupsKeepTheBytes == Work!Spec => []Work!TakenIsKept
<1>1. GInv => Work!TakenIsKept BY DEF GInv, CopiesOK, Work!TakenIsKept
<1> QED BY <1>1, ChangesBookkeeping, PTL

\* An archive holds, byte for byte, what its plan was made for, unless a file was written
\* while it was being packed (coding/delivery.py, create_export).
THEOREM ArchivesAreReviewed == Work!Spec => ExportIsReviewed
<1> DEFINE Reviewed == zip' # zip /\ zip' # Work!Nothing /\ ~request.raced => zip' = request.prints
<1>1. GInv /\ [Work!Next]_(Work!vars) => [Reviewed]_(Work!vars)
  <2> SUFFICES ASSUME GInv, Work!Next, zip' # zip, zip' # Work!Nothing, ~request.raced PROVE zip' = request.prints
    BY DEF Work!vars
  <2>1. CASE Work!ExportEnd BY <2>1 DEF Work!ExportEnd, GInv, ZipOK
  <2>2. CASE Work!Delete BY <2>2 DEF Work!Delete
  <2>3. CASE ~Work!ExportEnd /\ ~Work!Delete
    BY <2>3 DEF Work!Next, Work!Propose, Work!Backup, Work!Check, Work!Replace, Work!Save,
       Work!Finish, Work!Write, Work!UndoBegin, Work!UndoCheck, Work!UndoWrite,
                Work!UndoEnd, Work!PlanExport, Work!PlanExpires, Work!ExportBegin, Work!Restart, Work!exports
  <2> QED BY <2>1, <2>2, <2>3
<1> QED BY <1>1, ChangesBookkeeping, PTL DEF Work!Spec, ExportIsReviewed, Work!ExportIsReviewed

-----------------------------------------------------------------------------
(* The first undo. *)

LEMMA RecordOf ==
  ASSUME GInv
  PROVE  /\ \A i \in DOMAIN mem : mem[i] \in Work!Change /\ Logged(mem[i]) /\ mem[i].id \in 1..TaskEdits
         /\ \A i \in DOMAIN request.rec : request.rec[i] \in Work!Change /\ Logged(request.rec[i]) /\ request.rec[i].id \in 1..TaskEdits
         /\ Len(mem) \in Nat /\ DOMAIN mem = 1..Len(mem)
         /\ Len(request.rec) \in Nat /\ DOMAIN request.rec = 1..Len(request.rec)
         /\ mem \in Seq(Work!Change) /\ request.rec \in Seq(Work!Change)
<1>1. mem \in Seq(Work!Change) /\ request.rec \in Seq(Work!Change) BY RequestParts DEF GInv,
  GTyped, RecordTypes, RequestType
<1> QED BY <1>1, EntryOf, ChangeParts DEF Logged

\* A step that leaves the files, the record in memory, the request and the copies of what is
\* on record alone.
LEMMA UndoKept ==
  ASSUME UInv, UNCHANGED <<tree, mem, first, touched, report, request, requests>>,
         \A c \in Work!Change : Logged(c) => backup'[c.id] = backup[c.id],
         disk' \in {disk, mem}, exportPlan' \in {exportPlan, Work!Nothing},
         ~agent'.raced \/ agent'.raced = agent.raced,
         agent.at = "ended" => agent'.at = "ended" /\ disk' = disk
  PROVE  AloneOK' /\ CalmOK' /\ ReportOK'
<1> USE DEF UInv
<1>0. GInv OBVIOUS
<1>1. \A n : (n \in Int /\ n <= Len(mem) /\ Kept(mem, n)) => Kept(mem, n)'
  BY <1>0, RecordOf DEF Kept
<1>2. \A n : (n \in Int /\ n <= Len(request.rec) /\ Kept(request.rec, n)) => Kept(request.rec, n)'
  BY <1>0, RecordOf DEF Kept
<1>3. \A h, rec : Story(h, rec)' <=> Story(h, rec) BY DEF Story
<1>4. AloneOK'
  <2>1. (requests = 0 => exportPlan = Work!Nothing /\ request.at = "none")' BY DEF AloneOK
  <2>2. (Alone => ~agent.raced)' BY DEF AloneOK, Alone
  <2> SUFFICES ASSUME Alone
               PROVE  (\/ (\E h : Story(h, mem) /\ h[Len(mem)] = tree) /\ Kept(mem, Len(mem))
                       \/ agent.at = "ended" /\ disk = <<>>)'
    BY <2>1, <2>2 DEF AloneOK, Alone
  <2>3. CASE agent.at = "ended" /\ disk = <<>> BY <2>3
  <2>4. CASE (\E h : Story(h, mem) /\ h[Len(mem)] = tree) /\ Kept(mem, Len(mem))
    <3>1. Len(mem) \in Int BY <1>0, RecordOf
    <3> QED BY <1>1, <1>3, <2>4, <3>1
  <2> QED BY <2>3, <2>4 DEF AloneOK
<1>5. CalmOK'
  <2> SUFFICES ASSUME request.at \in {"undo", "restore"}, request.calm
               PROVE  (/\ ~request.skipped /\ mem = request.rec /\ disk = request.rec
                       /\ \E h : Story(h, request.rec) /\ h[request.next] = tree
                       /\ Kept(request.rec, request.next)
                       /\ \A i \in DOMAIN request.rec :
                            i > request.next /\ request.rec[i].kind # "create" => backup[request.rec[i].id] = Absent)'
    BY DEF CalmOK
  <2>1. ~request.skipped /\ mem = request.rec /\ disk' = request.rec /\ Kept(request.rec, request.next)
        /\ (\E h : Story(h, request.rec) /\ h[request.next] = tree) BY DEF CalmOK
  <2>2. request.next \in Int /\ request.next <= Len(request.rec) BY <1>0, RecordOf DEF GInv, UndoOK
  <2>3. Kept(request.rec, request.next)' BY <1>2, <2>1, <2>2
  <2>4. \A i \in DOMAIN request.rec :
          i > request.next /\ request.rec[i].kind # "create" => backup'[request.rec[i].id] = Absent
    BY <1>0, RecordOf DEF CalmOK
  <2> QED BY <1>3, <2>1, <2>3, <2>4
<1>6. ReportOK'
  <2>1. \A c : Logged(c)' => Logged(c) BY DEF Logged, In
  <2> QED BY <2>1 DEF ReportOK
<1> QED BY <1>4, <1>5, <1>6

LEMMA ThreadKeepsUndo ==
  ASSUME UInv,
         \/ \E kind \in Work!Kinds, p, q \in FilePaths, new \in Theirs \cup {Absent} : Work!Propose(kind, p, q, new)
         \/ Work!Backup \/ Work!Check \/ Work!Save \/ Work!Finish \/ Work!PlanExpires
         \/ agent.at = "replace" /\ Work!Refuse
            /\ UNCHANGED <<tree, mem, disk, exportPlan, request, first, touched, report, requests>>
  PROVE  AloneOK' /\ CalmOK' /\ ReportOK'
<1>0. GInv /\ GTyped BY DEF UInv, GInv
<1>1. UNCHANGED <<tree, mem, first, touched, report, request, requests>>
  BY DEF Work!Propose, Work!Backup, Work!Check, Work!Save, Work!Finish, Work!PlanExpires,
     Work!record, Work!history, Work!counts
<1>2. disk' \in {disk, mem} /\ exportPlan' \in {exportPlan, Work!Nothing}
  BY DEF Work!Propose, Work!Backup, Work!Check, Work!Save, Work!Finish, Work!PlanExpires,
     Work!record, Work!exports
<1>3. agent.at = "ended" => agent' = agent /\ disk' = disk
  BY DEF Work!Propose, Work!Backup, Work!Check, Work!Save, Work!Finish, Work!PlanExpires,
     Work!record
<1>4. ~agent'.raced \/ agent'.raced = agent.raced
  <2>1. CASE \E kind \in Work!Kinds, p, q \in FilePaths, new \in Theirs \cup {Absent} : Work!Propose(kind, p, q, new)
    <3>1. agent'.raced = FALSE BY <2>1 DEF Work!Propose
    <3> QED BY <3>1
  <2>2. CASE agent' = Work!Idle BY <2>2, IdleEdit
  <2>3. CASE agent' = agent BY <2>3
  <2>4. CASE \E w \in {"idle", "backup", "check", "replace", "save", "ended"} : agent' = [agent EXCEPT !.at = w]
    BY <1>0, <2>4, EditAt DEF GTyped
  <2> QED BY <2>1, <2>2, <2>3, <2>4 DEF Work!Backup, Work!Check, Work!Save, Work!Finish,
    Work!PlanExpires, Work!Refuse
<1>5. \A c \in Work!Change : Logged(c) => backup'[c.id] = backup[c.id]
  <2> SUFFICES ASSUME NEW c \in Work!Change, Logged(c) PROVE backup'[c.id] = backup[c.id] OBVIOUS
  <2>1. c.id \in 1..TaskEdits /\ c.id <= Used BY <1>0, ChangeParts DEF GInv, EntriesOK, EntryOK
  <2>2. CASE UNCHANGED backup BY <2>2
  <2>3. CASE /\ agent.at \in {"backup", "check", "replace"}
             /\ \E v : backup' = [backup EXCEPT ![tries] = v]
    <3>1. tries \in 1..TaskEdits /\ Used = tries - 1 BY <1>0, <2>3 DEF GInv, EditOK, GTyped,
      CountTypes, Used
    <3> QED BY <1>0, <2>1, <2>3, <3>1 DEF GTyped, CopyTypes
  <2> QED BY <2>2, <2>3 DEF Work!Propose, Work!Backup, Work!Check, Work!Save, Work!Finish,
    Work!PlanExpires, Work!Refuse
<1> QED BY <1>1, <1>2, <1>3, <1>4, <1>5, UndoKept

\* An edit that nobody raced adds one change to the story.
LEMMA ReplaceKeepsUndo ==
  ASSUME UInv, Work!Replace, GInv'
  PROVE  AloneOK' /\ CalmOK' /\ ReportOK'
<1> DEFINE n == [kind |-> agent.kind, path |-> agent.path, dest |-> agent.dest,
                 before |-> agent.base,
                 after |-> IF agent.kind = "rename" THEN agent.base ELSE agent.new, id |-> tries]
<1>0. GInv /\ GTyped /\ agent.at = "replace" BY DEF UInv, GInv, Work!Replace
<1>1. UNCHANGED <<disk, exportPlan, first, touched, requests>> BY DEF Work!Replace, Work!exports,
  Work!history, Work!counts
<1>2. CASE Work!Refuse /\ UNCHANGED <<tree, mem, taken, request, report>> BY <1>0, <1>1, <1>2, ThreadKeepsUndo
<1>3. CASE /\ tree' = Work!Applied(agent) /\ mem' = Append(mem, n) /\ Work!Disturbs({agent.path, agent.dest})
           /\ agent' = [agent EXCEPT !.at = "save"] /\ report' = "none" /\ UNCHANGED backup
  <2>1. agent'.raced = agent.raced BY <1>0, <1>3, EditAt DEF GTyped
  <2>2. ~request'.calm /\ request'.at = request.at BY <1>0, <1>3, DisturbsParts DEF GTyped
  <2>3. CalmOK' /\ ReportOK' BY <1>3, <2>2 DEF CalmOK, ReportOK
  <2>4. (requests = 0 => exportPlan = Work!Nothing /\ request.at = "none")' /\ (Alone => ~agent.raced)'
    BY <1>1, <2>1, <2>2 DEF UInv, AloneOK, Alone
  <2>5. ASSUME Alone PROVE ((\E h : Story(h, mem) /\ h[Len(mem)] = tree) /\ Kept(mem, Len(mem)))'
    <3>1. ~agent.raced /\ Kept(mem, Len(mem)) BY <1>0, <2>5 DEF UInv, AloneOK
    <3>2. PICK h : Story(h, mem) /\ h[Len(mem)] = tree BY <1>0, <2>5 DEF UInv, AloneOK
    <3>3. Work!MayApply(agent) /\ (agent.kind # "create" => backup[tries] = agent.base)
      BY <1>0, <3>1 DEF GInv, BoundOK
    <3>4. /\ agent.kind \in Work!Kinds /\ agent.path \in FilePaths /\ agent.dest \in FilePaths /\ tries \in 1..TaskEdits
          /\ agent.new \in Work!Contents \cup {Absent} /\ agent.base \in Work!Contents \cup {Absent}
          /\ agent.kind \in {"delete", "rename"} => agent.new = Absent
      BY <1>0, EditParts DEF GInv, GTyped, EditOK, AgentType, CountTypes
    <3>5. n \in Work!Change BY <3>4 DEF Work!Change
    <3>6. n.kind = agent.kind /\ n.path = agent.path /\ n.dest = agent.dest /\ n.before = agent.base /\ n.id = tries
          /\ n.after = (IF agent.kind = "rename" THEN agent.base ELSE agent.new) OBVIOUS
    <3> HIDE DEF n
    <3>7. Follows(n, tree, tree') BY <1>3, <3>3, <3>4, <3>6 DEF Follows, Work!MayApply,
      Work!Applied, Work!Kinds
    <3>8. mem \in Seq(Work!Change) /\ Len(mem) \in Nat /\ DOMAIN mem = 1..Len(mem) BY <1>0, RecordOf
    <3>9. /\ mem' \in Seq(Work!Change) /\ Len(mem') = Len(mem) + 1 /\ DOMAIN mem' = 1..(Len(mem) + 1)
          /\ (\A i \in 1..Len(mem) : mem'[i] = mem[i]) /\ mem'[Len(mem) + 1] = n
      BY <1>3, <3>5, <3>8
    <3>10. tree' \in Work!Files BY DEF GInv, GTyped, CopyTypes
    <3>11. PICK g \in [0..(Len(mem) + 1) -> Work!Files] :
             g[0] = first /\ g[Len(mem) + 1] = tree' /\ (\A i \in 0..Len(mem) : g[i] = h[i])
      <4> DEFINE gg == [i \in 0..(Len(mem) + 1) |-> IF i <= Len(mem) THEN h[i] ELSE tree']
      <4>1. gg \in [0..(Len(mem) + 1) -> Work!Files] BY <3>2, <3>8, <3>10 DEF Story
      <4>2. gg[0] = first /\ gg[Len(mem) + 1] = tree' /\ (\A i \in 0..Len(mem) : gg[i] = h[i])
        BY <3>2, <3>8 DEF Story
      <4> QED BY <4>1, <4>2
    <3>12. \A i \in 1..(Len(mem) + 1) : Follows(mem'[i], g[i - 1], g[i])
      <4> SUFFICES ASSUME NEW i \in 1..(Len(mem) + 1) PROVE Follows(mem'[i], g[i - 1], g[i]) OBVIOUS
      <4>1. CASE i \in 1..Len(mem)
        <5>1. mem'[i] = mem[i] /\ g[i] = h[i] BY <3>9, <3>11, <4>1
        <5>2. g[i - 1] = h[i - 1] BY <3>8, <3>11, <4>1
        <5>3. Follows(mem[i], h[i - 1], h[i]) BY <3>2, <3>8, <4>1 DEF Story
        <5> QED BY <5>1, <5>2, <5>3
      <4>2. CASE i = Len(mem) + 1
        <5>1. g[i - 1] = tree /\ g[i] = tree' /\ mem'[i] = n BY <3>2, <3>8, <3>9, <3>11, <4>2
        <5> QED BY <3>7, <5>1
      <4> QED BY <3>8, <4>1, <4>2
    <3>13. Story(g, mem)' BY <1>1, <3>9, <3>11, <3>12 DEF Story
    <3>14. g[Len(mem')] = tree' BY <3>9, <3>11
    <3>15. Kept(mem, Len(mem))' BY <1>3, <3>1, <3>3, <3>6, <3>8, <3>9 DEF Kept
    <3> QED BY <3>13, <3>14, <3>15
  <2> QED BY <1>1, <2>3, <2>4, <2>5 DEF AloneOK, Alone
<1> QED BY <1>2, <1>3 DEF Work!Replace

LEMMA WriteKeepsUndo ==
  ASSUME UInv, NEW p \in FilePaths, NEW c \in Mine \cup {Absent}, Work!Write(p, c)
  PROVE  AloneOK' /\ CalmOK' /\ ReportOK'
<1>1. touched' = TRUE /\ report' = "none" /\ UNCHANGED <<exportPlan, requests>> /\ Work!Disturbs({p}) BY DEF Work!Write, Work!exports
<1>2. ~request'.calm /\ request'.at = request.at BY <1>1, DisturbsParts DEF UInv, GInv, GTyped
<1> QED BY <1>1, <1>2 DEF UInv, AloneOK, Alone, CalmOK, ReportOK

-----------------------------------------------------------------------------
(* The requests. *)

\* Every request but the first comes after one.
LEMMA AskedBefore ==
  ASSUME UInv, requests' \in Nat, requests' >= requests, requests = 0 => requests' # 0
  PROVE  AloneOK'
<1>1. requests \in Nat BY DEF UInv, GInv, GTyped, CountTypes
<1> QED BY <1>1 DEF AloneOK, Alone

LEMMA BeginKeepsUndo == ASSUME UInv, Work!UndoBegin PROVE AloneOK' /\ CalmOK' /\ ReportOK'
<1> DEFINE b == ~touched /\ agent.at \in {"idle", "ended"} /\ requests = 0 /\ disk = mem
<1>0. GInv /\ GTyped /\ requests \in Nat BY DEF UInv, GInv, GTyped, CountTypes
<1>1. UNCHANGED <<tree, agent, mem, disk, backup, exportPlan, first, touched, report>> /\ requests' = requests + 1
      /\ disk # <<>>
  BY DEF Work!UndoBegin, Work!MayAsk, Work!record, Work!exports, Work!history
<1>2. request' = [Work!NoRequest EXCEPT !.at = "undo", !.rec = disk, !.next = Len(disk), !.calm = b] BY DEF Work!UndoBegin
<1>3. request'.at = "undo" /\ request'.rec = disk /\ request'.next = Len(disk) /\ request'.calm = b /\ request'.skipped = FALSE
  <2> HIDE DEF b
  <2> QED BY <1>2 DEF Work!NoRequest
<1>4. AloneOK' BY <1>0, <1>1, AskedBefore
<1>5. CalmOK'
  <2> SUFFICES ASSUME b
               PROVE  (/\ mem = request.rec /\ disk = request.rec
                       /\ \E h : Story(h, request.rec) /\ h[request.next] = tree
                       /\ Kept(request.rec, request.next)
                       /\ \A i \in DOMAIN request.rec :
                            i > request.next /\ request.rec[i].kind # "create" => backup[request.rec[i].id] = Absent)'
    BY <1>3 DEF CalmOK
  <2>1. (\E h : Story(h, mem) /\ h[Len(mem)] = tree) /\ Kept(mem, Len(mem))
    BY <1>1 DEF UInv, AloneOK, Alone
  <2>2. \A h : Story(h, mem)' <=> Story(h, mem) BY <1>1 DEF Story
  <2>3. Kept(mem, Len(mem))' BY <1>1, <2>1 DEF Kept
  <2>4. request'.rec = mem /\ request'.next = Len(mem) /\ mem' = mem /\ disk' = mem BY <1>1, <1>3
  <2>5. Len(mem) \in Nat /\ DOMAIN mem = 1..Len(mem) BY <1>0, RecordOf
  <2> QED BY <1>1, <2>1, <2>2, <2>3, <2>4, <2>5 DEF Kept, Story
<1>6. ReportOK'
  <2>1. \A c : Logged(c)' => Logged(c) BY <1>1, <1>3 DEF Logged, In
  <2> QED BY <1>1, <1>3, <2>1 DEF UInv, ReportOK
<1> QED BY <1>4, <1>5, <1>6

\* A calm undo never finds a change that it may not undo, and one that has been done leaves
\* nothing that another may.
LEMMA CheckKeepsUndo == ASSUME UInv, Work!UndoCheck PROVE AloneOK' /\ CalmOK' /\ ReportOK'
<1> DEFINE c == request.rec[request.next]
<1>0. GInv /\ GTyped /\ requests \in Nat /\ request.at = "undo" /\ request.next \in DOMAIN request.rec
  BY DEF UInv, GInv, GTyped, CountTypes, Work!UndoCheck
<1>1. UNCHANGED <<tree, agent, mem, disk, backup, exportPlan, first, touched, report, requests>>
  BY DEF Work!UndoCheck, Work!record, Work!exports, Work!history, Work!counts
<1>2. c \in Work!Change /\ Logged(c) /\ EntryOK(c) /\ c.id \in 1..TaskEdits /\ c.kind \in Work!Kinds
      /\ c.path \in FilePaths /\ c.dest \in FilePaths
  BY <1>0, RecordOf, ChangeParts DEF GInv, EntriesOK
<1>3. AloneOK' BY <1>0, <1>1, AskedBefore DEF UInv, AloneOK
<1>4. \/ Work!MayUndo(c) /\ request' = [request EXCEPT !.at = "restore", !.raw = backup[c.id], !.raced = FALSE]
      \/ ~Work!MayUndo(c) /\ request' = [request EXCEPT !.next = Work!NextOf(request), !.skipped = TRUE]
  BY DEF Work!UndoCheck
<1> HIDE DEF c
<1>5. request'.rec = request.rec /\ request'.calm = request.calm
  BY <1>0, <1>4 DEF GTyped, RequestType, Work!Request
<1>6. report = "calm" => ~Work!MayUndo(c)
  <2> SUFFICES ASSUME report = "calm", Work!MayUndo(c) PROVE FALSE OBVIOUS
  <2>1. tree = first /\ (c.kind # "create" => backup[c.id] = Absent) BY <1>2 DEF UInv, ReportOK
  <2>2. tree[c.path] \notin Theirs BY <1>0, <1>2, <2>1 DEF GInv, GTyped, CopyTypes,
    Work!ChangesAssumption
  <2> QED BY <1>2, <2>1, <2>2 DEF Work!MayUndo, EntryOK, Work!Kinds
<1>7. ReportOK'
  <2>1. \A e : Logged(e)' => Logged(e) BY <1>1, <1>5 DEF Logged, In
  <2>2. report = "calm" => request'.at = "undo" BY <1>0, <1>4, <1>6 DEF GTyped, RequestType,
    Work!Request
  <2> QED BY <1>1, <2>1, <2>2 DEF UInv, ReportOK
<1>8. CalmOK'
  <2> SUFFICES ASSUME request.calm PROVE CalmOK' BY <1>5 DEF CalmOK
  <2>1. ~request.skipped /\ mem = request.rec /\ disk = request.rec /\ Kept(request.rec, request.next)
        /\ (\A i \in DOMAIN request.rec : i > request.next /\ request.rec[i].kind # "create" => backup[request.rec[i].id] = Absent)
    BY <1>0 DEF UInv, CalmOK
  <2>2. PICK h : Story(h, request.rec) /\ h[request.next] = tree BY <1>0 DEF UInv, CalmOK
  <2>3. Follows(c, h[request.next - 1], tree) /\ h[request.next - 1] \in Work!Files
    BY <1>0, <2>2, RecordOf DEF Story, c
  <2>4. c.kind # "create" => backup[c.id] = c.before BY <1>0, <2>1, RecordOf DEF Kept, c
  <2>5. Work!MayUndo(c) BY <1>0, <1>2, <2>3, <2>4 DEF Follows, Work!MayUndo, EntryOK, Work!Kinds,
    Work!Files, GTyped, CopyTypes
  <2>6. request' = [request EXCEPT !.at = "restore", !.raw = backup[c.id], !.raced = FALSE] BY <1>4, <2>5
  <2>7. request'.at = "restore" /\ request'.next = request.next /\ request'.skipped = request.skipped
    BY <1>0, <2>6 DEF GTyped, RequestType, Work!Request
  <2>8. Story(h, request.rec)' /\ h[request'.next] = tree' /\ Kept(request.rec, request.next)'
    BY <1>1, <1>5, <2>1, <2>2, <2>7 DEF Story, Kept
  <2> QED BY <1>1, <1>5, <2>1, <2>7, <2>8 DEF CalmOK
<1> QED BY <1>3, <1>7, <1>8

LEMMA UndoWriteKeepsUndo == ASSUME UInv, Work!UndoWrite PROVE AloneOK' /\ CalmOK' /\ ReportOK'
<1> DEFINE c == request.rec[request.next]
<1>0. GInv /\ GTyped /\ requests \in Nat /\ request.at = "restore" /\ request.next \in DOMAIN request.rec
      /\ request.raw = backup[c.id]
  BY DEF UInv, GInv, GTyped, CountTypes, Work!UndoWrite, UndoOK
<1>1. UNCHANGED <<mem, disk, exportPlan, first, touched, report, requests>>
  BY DEF Work!UndoWrite, Work!record, Work!exports, Work!history, Work!counts
<1>2. c \in Work!Change /\ Logged(c) /\ EntryOK(c) /\ c.id \in 1..TaskEdits /\ c.kind \in Work!Kinds
      /\ c.path \in FilePaths /\ c.dest \in FilePaths
  BY <1>0, RecordOf, ChangeParts DEF GInv, EntriesOK
<1>3. AloneOK' BY <1>0, <1>1, AskedBefore DEF UInv, AloneOK
<1>4. ReportOK' BY <1>0, <1>1 DEF UInv, ReportOK
<1>5. \/ request' = [request EXCEPT !.at = "undo", !.next = Work!NextOf(request), !.skipped = TRUE, !.calm = FALSE]
      \/ /\ request' = [request EXCEPT !.at = "undo", !.next = Work!NextOf(request)]
         /\ tree' = Work!Restored(c) /\ Work!Discards(c, TRUE)
  BY DEF Work!UndoWrite
<1>6. CalmOK'
  <2>1. CASE request' = [request EXCEPT !.at = "undo", !.next = Work!NextOf(request), !.skipped = TRUE, !.calm = FALSE]
    <3>1. request'.calm = FALSE BY <1>0, <2>1 DEF GTyped, RequestType, Work!Request
    <3> QED BY <3>1 DEF CalmOK
  <2>2. CASE request' = [request EXCEPT !.at = "undo", !.next = Work!NextOf(request)] /\ tree' = Work!Restored(c) /\ Work!Discards(c, TRUE)
    <3>1. request'.at = "undo" /\ request'.next = request.next - 1 /\ request'.rec = request.rec /\ request'.calm = request.calm
          /\ request'.skipped = request.skipped
      BY <1>0, <2>2 DEF GTyped, RequestType, Work!Request, Work!NextOf
    <3> SUFFICES ASSUME request.calm PROVE CalmOK' BY <3>1 DEF CalmOK
    <3>2. ~request.skipped /\ mem = request.rec /\ disk = request.rec /\ Kept(request.rec, request.next)
          /\ (\A i \in DOMAIN request.rec : i > request.next /\ request.rec[i].kind # "create" => backup[request.rec[i].id] = Absent)
      BY <1>0 DEF UInv, CalmOK
    <3>3. PICK h : Story(h, request.rec) /\ h[request.next] = tree BY <1>0 DEF UInv, CalmOK
    <3>4. Len(request.rec) \in Nat /\ DOMAIN request.rec = 1..Len(request.rec) /\ request.next \in 1..Len(request.rec) BY <1>0, RecordOf
    <3>5. Follows(c, h[request.next - 1], tree) /\ h[request.next - 1] \in Work!Files BY <3>3, <3>4 DEF Story
    <3>6. c.kind # "create" => backup[c.id] = c.before BY <3>2, <3>4 DEF Kept
    <3>7. tree' = h[request.next - 1]
      <4> HIDE DEF c
      <4>1. tree \in Work!Files BY <1>0 DEF GTyped, CopyTypes
      <4>2. PICK a \in Work!Files : a = h[request.next - 1] BY <3>5
      <4>3. Follows(c, a, tree) BY <3>5, <4>2
      <4>4. c.kind # "create" => request.raw = c.before BY <1>0, <3>6
      <4>5. CASE c.kind = "create" BY <1>2, <2>2, <4>1, <4>2, <4>3, <4>5 DEF Follows,
        Work!Restored, Work!Files
      <4>6. CASE c.kind = "update" BY <1>2, <2>2, <4>1, <4>2, <4>3, <4>4, <4>6 DEF Follows,
        Work!Restored, Work!Files
      <4>7. CASE c.kind = "delete" BY <1>2, <2>2, <4>1, <4>2, <4>3, <4>4, <4>7 DEF Follows,
        Work!Restored, Work!Files
      <4>8. CASE c.kind = "rename"
        <5>1. tree' = [tree EXCEPT ![c.path] = tree[c.dest], ![c.dest] = Absent] BY <2>2, <4>8 DEF Work!Restored
        <5>2. a[c.path] = c.before /\ a[c.dest] = Absent
              /\ tree = [a EXCEPT ![c.path] = Absent, ![c.dest] = c.before]
          BY <4>3, <4>8 DEF Follows
        <5>3. c.before # Absent BY <1>2, <4>8 DEF EntryOK
        <5> QED BY <1>2, <4>1, <4>2, <5>1, <5>2, <5>3 DEF Work!Files
      <4> QED BY <1>2, <4>5, <4>6, <4>7, <4>8 DEF Work!Kinds
    <3>8. \A i \in 1..TaskEdits : /\ i # c.id => backup'[i] = backup[i]
                                  /\ backup'[i] \in {backup[i], Absent}
                                  /\ i = c.id /\ c.kind # "create" => backup'[i] = Absent
      <4> HIDE DEF c
      <4> QED BY <1>0, <1>2, <2>2 DEF Work!Discards, GTyped, CopyTypes
    <3>9. Kept(request.rec, request.next)'
      <4> SUFFICES ASSUME NEW i \in 1..(request.next - 1), request.rec[i].kind # "create"
                   PROVE  backup'[request.rec[i].id] = request.rec[i].before
        BY <3>1 DEF Kept
      <4>1. i \in 1..request.next /\ i \in DOMAIN request.rec /\ i < request.next BY <3>4
      <4>2. request.rec[i].id \in 1..TaskEdits BY <1>0, <4>1, RecordOf
      <4>3. request.rec[i].id < c.id BY <1>0, <3>2, <4>1 DEF GInv, InOrder
      <4> QED BY <1>2, <3>2, <3>8, <4>1, <4>2, <4>3 DEF Kept
    <3>10. \A i \in DOMAIN request.rec :
             i > request.next - 1 /\ request.rec[i].kind # "create" => backup'[request.rec[i].id] = Absent
      <4> SUFFICES ASSUME NEW i \in DOMAIN request.rec, i > request.next - 1, request.rec[i].kind # "create"
                   PROVE  backup'[request.rec[i].id] = Absent
        OBVIOUS
      <4>1. request.rec[i].id \in 1..TaskEdits BY <1>0, RecordOf
      <4>2. CASE i = request.next BY <1>2, <3>8, <4>2
      <4>3. CASE i > request.next BY <3>2, <3>8, <4>1, <4>3
      <4> QED BY <3>4, <4>2, <4>3
    <3>11. Story(h, request.rec)' BY <1>1, <3>1, <3>3 DEF Story
    <3> QED BY <1>1, <3>1, <3>2, <3>7, <3>9, <3>10, <3>11 DEF CalmOK
  <2> QED BY <1>5, <2>1, <2>2
<1> QED BY <1>3, <1>4, <1>6

LEMMA EndKeepsUndo == ASSUME UInv, Work!UndoEnd PROVE AloneOK' /\ CalmOK' /\ ReportOK'
<1>0. GInv /\ GTyped /\ requests \in Nat /\ request.at = "undo" /\ request.next \notin DOMAIN request.rec
  BY DEF UInv, GInv, GTyped, CountTypes, Work!UndoEnd
<1>1. /\ UNCHANGED <<tree, agent, mem, backup, exportPlan, first, touched, requests>>
      /\ disk' = request.rec /\ request' = Work!NoRequest
      /\ report' = (IF ~request.calm THEN "none" ELSE IF request.skipped THEN "short" ELSE "calm")
  BY DEF Work!UndoEnd, Work!exports, Work!history, Work!counts
<1>2. Work!NoRequest.at = "none" /\ Work!NoRequest.rec = <<>> BY <1>0, NoRequestIs DEF GInv
<1>3. AloneOK' BY <1>0, <1>1, AskedBefore DEF UInv, AloneOK
<1>4. CalmOK' BY <1>1, <1>2 DEF CalmOK
<1>5. ReportOK'
  <2>1. CASE ~request.calm BY <1>1, <2>1 DEF ReportOK
  <2>2. CASE request.calm
    <3>1. ~request.skipped /\ mem = request.rec
          /\ (\A i \in DOMAIN request.rec : i > request.next /\ request.rec[i].kind # "create" => backup[request.rec[i].id] = Absent)
      BY <1>0, <2>2 DEF UInv, CalmOK
    <3>2. request.next = 0 BY <1>0, RecordOf DEF GInv, UndoOK
    <3>3. tree = first BY <1>0, <2>2, <3>2 DEF UInv, CalmOK, Story
    <3>4. \A c \in Work!Change : Logged(c)' /\ c.kind # "create" => backup[c.id] = Absent
      <4> SUFFICES ASSUME NEW c \in Work!Change, Logged(c)', c.kind # "create" PROVE backup[c.id] = Absent OBVIOUS
      <4>1. PICK i \in DOMAIN request.rec : request.rec[i] = c BY <1>1, <1>2, <3>1 DEF Logged, In
      <4>2. i > request.next BY <1>0, <3>2, RecordOf
      <4> QED BY <3>1, <4>1, <4>2
    <3> QED BY <1>1, <1>2, <2>2, <3>1, <3>3, <3>4 DEF ReportOK
  <2> QED BY <2>1, <2>2
<1> QED BY <1>3, <1>4, <1>5

LEMMA OthersKeepUndo ==
  ASSUME UInv, Work!PlanExport \/ Work!ExportBegin \/ Work!ExportEnd \/ Work!Delete \/ Work!Restart
  PROVE  AloneOK' /\ CalmOK' /\ ReportOK'
<1>0. GInv /\ GTyped /\ requests \in Nat BY DEF UInv, GInv, GTyped, CountTypes
<1>1. Work!NoRequest.at = "none" /\ Work!NoRequest.rec = <<>> BY <1>0, NoRequestIs DEF GInv
<1>2. UNCHANGED <<tree, first, touched>> /\ requests' \in {requests, requests + 1}
  BY DEF Work!PlanExport, Work!ExportBegin, Work!ExportEnd, Work!Delete, Work!Restart,
     Work!MayAsk, Work!history, Work!counts
<1>3. CASE Work!PlanExport \/ Work!ExportBegin \/ Work!ExportEnd
  <2>1. requests = 0 => requests' # 0
    BY <1>0, <1>3 DEF UInv, AloneOK, Work!PlanExport, Work!ExportBegin, Work!ExportEnd, Work!MayAsk
  <2>2. AloneOK' BY <1>0, <1>2, <2>1, AskedBefore
  <2>3. request'.at \in {"none", "zip"} /\ request.at \in {"none", "zip"}
        /\ (request' = request \/ request' = Work!NoRequest \/ request'.rec = disk)
    BY <1>1, <1>3 DEF Work!PlanExport, Work!ExportBegin, Work!ExportEnd, Work!MayAsk, Work!NoRequest
  <2>4. UNCHANGED <<mem, backup, report>> /\ disk' \in {disk, request.rec}
    BY <1>3 DEF Work!PlanExport, Work!ExportBegin, Work!ExportEnd, Work!record
  <2>5. \A c : Logged(c)' => Logged(c) BY <1>1, <2>3, <2>4 DEF Logged, In
  <2>6. CalmOK' BY <2>3 DEF CalmOK
  <2>7. ReportOK' BY <1>2, <2>3, <2>4, <2>5 DEF UInv, ReportOK
  <2> QED BY <2>2, <2>6, <2>7
<1>4. CASE Work!Delete
  <2>1. request.at = "none" /\ agent.at = "ended" /\ UNCHANGED <<agent, exportPlan, request, requests>>
        /\ disk' = <<>> /\ report' = "none"
    BY <1>4 DEF Work!Delete, Work!Live, Work!counts
  <2> QED BY <1>2, <2>1 DEF UInv, AloneOK, Alone, CalmOK, ReportOK
<1>5. CASE Work!Restart
  <2>1. UNCHANGED <<mem, disk, backup, report, requests>> /\ agent'.at = "ended" /\ ~agent'.raced
        /\ request' = Work!NoRequest /\ exportPlan' = Work!Nothing
    BY <1>5, IdleEdit DEF Work!Restart, Work!record, Work!counts
  <2>2. \A c : Logged(c)' => Logged(c) BY <1>1, <2>1 DEF Logged, In
  <2>3. (\A h : Story(h, mem)' <=> Story(h, mem)) /\ (Kept(mem, Len(mem))' <=> Kept(mem, Len(mem)))
    BY <1>2, <2>1 DEF Story, Kept
  <2>4. AloneOK' BY <1>1, <1>2, <2>1, <2>3 DEF UInv, AloneOK, Alone
  <2>5. CalmOK' BY <1>1, <2>1 DEF CalmOK
  <2>6. ReportOK' BY <1>1, <1>2, <2>1, <2>2 DEF UInv, ReportOK
  <2> QED BY <2>4, <2>5, <2>6
<1> QED BY <1>3, <1>4, <1>5

LEMMA UInit == ASSUME Work!ChangesAssumption, Work!Init PROVE UInv
<1>1. GInv BY GInit
<1>2. Work!NoRequest.at = "none" /\ Work!NoRequest.rec = <<>> BY NoRequestIs
<1>3. AloneOK
  <2>1. mem = <<>> /\ first = tree /\ tree \in Work!Files BY <1>1 DEF Work!Init, GInv, GTyped,
    CopyTypes
  <2>2. Story([i \in 0..0 |-> tree], mem) BY <2>1 DEF Story
  <2>3. [i \in 0..0 |-> tree][Len(mem)] = tree BY <2>1
  <2>4. Kept(mem, Len(mem)) BY <2>1 DEF Kept
  <2>5. ~agent.raced BY IdleEdit DEF Work!Init
  <2> QED BY <1>2, <2>2, <2>3, <2>4, <2>5 DEF Work!Init, AloneOK, Alone
<1> QED BY <1>1, <1>2, <1>3 DEF Work!Init, UInv, CalmOK, ReportOK

LEMMA UNext == UInv /\ [Work!Next]_(Work!vars) => UInv'
<1> SUFFICES ASSUME UInv, [Work!Next]_(Work!vars) PROVE UInv' OBVIOUS
<1>0. GInv' BY GNext DEF UInv
<1> SUFFICES AloneOK' /\ CalmOK' /\ ReportOK' BY <1>0 DEF UInv
<1>1. CASE UNCHANGED Work!vars BY <1>1, UndoKept DEF Work!vars
<1>2. CASE (\E kind \in Work!Kinds, p, q \in FilePaths, new \in Theirs \cup {Absent} : Work!Propose(kind, p, q, new))
           \/ Work!Backup \/ Work!Check \/ Work!Save \/ Work!Finish \/ Work!PlanExpires
  BY <1>2, ThreadKeepsUndo
<1>3. CASE Work!Replace BY <1>0, <1>3, ReplaceKeepsUndo
<1>4. CASE \E p \in FilePaths, c \in Mine \cup {Absent} : Work!Write(p, c) BY <1>4, WriteKeepsUndo
<1>5. CASE Work!UndoBegin \/ Work!UndoCheck \/ Work!UndoWrite \/ Work!UndoEnd
  BY <1>5, BeginKeepsUndo, CheckKeepsUndo, UndoWriteKeepsUndo, EndKeepsUndo
<1>6. CASE Work!PlanExport \/ Work!ExportBegin \/ Work!ExportEnd \/ Work!Delete \/ Work!Restart BY <1>6, OthersKeepUndo
<1> QED BY <1>1, <1>2, <1>3, <1>4, <1>5, <1>6 DEF Work!Next

\* Nothing of the user's is lost to an edit or its undo, and the first undo, when nobody else
\* wrote and every change is on record, leaves nothing out: it gives back the files as they
\* were before the task, whatever the task did to them (coding/undo.py, restore_task_changes).
THEOREM UndoGivesAllBack == Work!Spec => []UndoGivesBack
<1>1. Work!Init => UInv BY UInit, WorkAssumption
<1>2. UInv => UndoGivesBack
  BY DEF UInv, GInv, CopiesOK, ReportOK, UndoGivesBack, Work!UndoGivesBack, Work!TakenIsKept, Work!UndoIsComplete
<1> QED BY <1>1, <1>2, UNext, PTL DEF Work!Spec

-----------------------------------------------------------------------------
(* The preview: its types, and who may still take it away. *)

Places == {"idle", "look", "take", "end", "owner", "start", "spawned", "wait", "probe",
           "verify", "launch", "open", "report"}
Nexts  == {"idle", "start", "probe", "launch", "owner"}
Spots  == {v \in [at : Places, p : Procs \cup {Pre!None}, port : Pre!Ports \cup {0}, then : Nexts] :
             v.at = "spawned" => v.p \in Procs}
Shows  == [running : BOOLEAN, port : Pre!Ports \cup {0}, pid : Procs \cup {Pre!None},
           page : Procs \cup {Pre!None}]

MachineTypes ==
  /\ life \in [Procs -> Pre!Lives] /\ portOf \in [Procs -> Pre!Ports \cup {0}]
  /\ squat \subseteq Pre!Ports
SessionTypes ==
  /\ handle \in Procs \cup {Pre!None} /\ timer \in Procs \cup {Pre!None}
  /\ armed \subseteq Procs /\ aged \subseteq Procs /\ ledger \subseteq Procs
ShownTypes == state \in Shows
SpotTypes  == threads \in [Pre!Threads -> Spots]
CheckingTypes == check \in [of : Procs \cup {Pre!None}, saw : Procs \cup {Pre!None, "stranger"}]
BoundTypes == cancel \in BOOLEAN /\ strangers \in 0..WorkFaults /\ reads \in 0..MaxReads

PTyped == MachineTypes /\ SessionTypes /\ ShownTypes /\ SpotTypes /\ CheckingTypes /\ BoundTypes

\* A check that has proved a process is still under way.
Checks == \/ threads["task"].at \in {"launch", "open", "report"}
          \/ threads["task"].at \in {"look", "take", "end"} /\ threads["task"].then = "launch"

\* What a session holds is what its state is about, or the state is blank; and nobody puts
\* another preview there before a check has reported.
OfOne ==
  /\ handle # Pre!None /\ state.pid # Pre!None => state.pid = handle
  /\ check.of # Pre!None => Checks /\ (state.pid # Pre!None => state.pid = check.of)

PInv == PreviewAssumption /\ PTyped /\ OfOne /\ Pre!FindingsBelong /\ Pre!LifetimeIsWatched

LEMMA AtSpot == ASSUME NEW w \in Places \ {"spawned"} PROVE Pre!At(w) \in Spots /\ Pre!At(w).at = w
BY DEF Pre!At, Spots, Nexts, Pre!Ports

LEMMA SpotGoes ==
  ASSUME SpotTypes, NEW t \in Pre!Threads, NEW w \in Places \ {"spawned"}
  PROVE  [threads EXCEPT ![t].at = w] \in [Pre!Threads -> Spots]
BY DEF SpotTypes, Spots

LEMMA SpotIs ==
  ASSUME SpotTypes, NEW t \in Pre!Threads, NEW v \in Spots
  PROVE  [threads EXCEPT ![t] = v] \in [Pre!Threads -> Spots]
BY DEF SpotTypes

\* A step that leaves handles, timers and findings, moves no thread out of "take" and no
\* check out of its stages, keeps what is said of them.
LEMMA Quiet ==
  ASSUME PInv, UNCHANGED <<handle, armed>>, check'.of \in {check.of, Pre!None},
         state'.pid = state.pid, state'.page = state.page,
         \A p \in Procs : threads[p].at = "take" => threads'[p].at = "take",
         check.of # Pre!None /\ check'.of # Pre!None => Checks'
  PROVE  OfOne' /\ Pre!FindingsBelong' /\ Pre!LifetimeIsWatched'
BY DEF PInv, OfOne, Pre!FindingsBelong, Pre!LifetimeIsWatched, PTyped, SessionTypes

LEMMA Strangers == PreviewAssumption => \A p \in Procs : p # "task" /\ p # "loop" /\ p # Pre!None
BY DEF PreviewAssumption, Pre!None

LEMMA RunningSet ==
  ASSUME ShownTypes, NEW b \in BOOLEAN
  PROVE  LET s == [state EXCEPT !.running = b]
         IN s \in Shows /\ s.pid = state.pid /\ s.page = state.page
BY DEF ShownTypes, Shows

\* Reading the state: nothing of it changes but whether the preview runs.
LEMMA RefreshStep ==
  ASSUME PInv, NEW t \in {"task", "loop"}, NEW then \in Nexts, Pre!Refresh(t, then)
  PROVE  /\ UNCHANGED <<Pre!world, Pre!session, aged>> /\ threads' \in [Pre!Threads -> Spots]
         /\ \A u \in Pre!Threads : u # t => threads'[u] = threads[u]
         /\ threads'[t].at = then \/ (threads'[t].at \in {"take", "look"} /\ threads'[t].then = then)
         /\ state' \in Shows /\ state'.pid = state.pid /\ state'.page = state.page
         /\ ledger' \subseteq Procs
<1>0. PTyped /\ t \in Pre!Threads BY DEF PInv, Pre!Threads
<1> USE <1>0
<1>1. CASE state.pid # Pre!None /\ state.pid \in aged
  <2>1. Pre!At("take") \in Spots BY AtSpot DEF Places
  <2>2. [Pre!At("take") EXCEPT !.then = then] \in Spots /\ Pre!At("take").at = "take"
    BY <2>1, AtSpot DEF Spots, Places
  <2>3. threads' = [threads EXCEPT ![t] = [Pre!At("take") EXCEPT !.then = then]] /\ UNCHANGED <<state, ledger>>
    BY <1>1 DEF Pre!Refresh
  <2> QED BY <2>2, <2>3, SpotIs DEF Pre!Refresh, PTyped, SpotTypes, ShownTypes,
    SessionTypes, Spots
<1>2. CASE ~(state.pid # Pre!None /\ state.pid \in aged) /\ (handle = Pre!None \/ ~Pre!Alive(handle))
  <2>1. /\ state' = [state EXCEPT !.running = FALSE] /\ ledger' = ledger \ {handle}
        /\ threads' = [threads EXCEPT ![t] = Pre!At(then)]
    BY <1>2 DEF Pre!Refresh
  <2>2. Pre!At(then) \in Spots /\ Pre!At(then).at = then BY AtSpot DEF Places, Nexts
  <2> QED BY <2>1, <2>2, SpotIs, RunningSet DEF Pre!Refresh, PTyped, SpotTypes, SessionTypes
<1>3. CASE ~(state.pid # Pre!None /\ state.pid \in aged) /\ ~(handle = Pre!None \/ ~Pre!Alive(handle))
  <2>1. /\ threads' = [threads EXCEPT ![t] = [at |-> "look", p |-> handle, port |-> state.port, then |-> then]]
        /\ UNCHANGED <<state, ledger>>
    BY <1>3 DEF Pre!Refresh
  <2>2. [at |-> "look", p |-> handle, port |-> state.port, then |-> then] \in Spots
    BY DEF PTyped, SessionTypes, ShownTypes, Shows, Spots, Places
  <2> QED BY <2>1, <2>2, SpotIs DEF Pre!Refresh, PTyped, SpotTypes, ShownTypes, SessionTypes
<1> QED BY <1>1, <1>2, <1>3

LEMMA ReadSteps ==
  ASSUME PInv, Pre!StartPreview \/ Pre!CheckPreview \/ Pre!LoopReads
  PROVE  PInv'
<1> USE DEF PInv
<1>1. PICK t \in {"task", "loop"}, then \in Nexts :
        /\ Pre!Refresh(t, then) /\ threads[t].at = "idle" /\ UNCHANGED <<cancel, strangers, check>>
        /\ reads' = reads \/ (reads < MaxReads /\ reads' = reads + 1)
  BY DEF Pre!StartPreview, Pre!CheckPreview, Pre!LoopReads, Pre!Begins,
     Pre!bounds, Pre!Is, Nexts
<1>2. /\ UNCHANGED <<Pre!world, Pre!session, aged>> /\ threads' \in [Pre!Threads -> Spots]
      /\ \A u \in Pre!Threads : u # t => threads'[u] = threads[u]
      /\ state' \in Shows /\ state'.pid = state.pid /\ state'.page = state.page
      /\ ledger' \subseteq Procs
  BY <1>1, RefreshStep
<1>3. PTyped' 
  BY <1>1, <1>2, PreviewAssumption
  DEF PTyped, MachineTypes, SessionTypes, ShownTypes, SpotTypes, CheckingTypes, BoundTypes,
    Pre!world, Pre!session
<1>4. \A p \in Procs : threads'[p] = threads[p] BY <1>1, <1>2, Strangers DEF Pre!Threads
<1>5. check.of # Pre!None => Checks'
  <2>1. check.of # Pre!None => t # "task" BY <1>1 DEF OfOne, Checks
  <2> QED BY <1>2, <2>1 DEF OfOne, Checks, Pre!Threads
<1> QED BY <1>1, <1>2, <1>3, <1>4, <1>5, Quiet DEF Pre!session, PreviewAssumption

LEMMA ListenerVerified == ASSUME PInv, Pre!Verify PROVE PInv'
<1> USE DEF PInv
<1>1. CASE /\ check' = [of |-> handle, saw |-> Pre!None] /\ handle # Pre!None /\ Pre!Refresh("task", "launch")
  <2>1. /\ UNCHANGED <<Pre!world, Pre!session, aged>> /\ threads' \in [Pre!Threads -> Spots]
        /\ \A u \in Pre!Threads : u # "task" => threads'[u] = threads[u]
        /\ Checks'
        /\ state' \in Shows /\ state'.pid = state.pid /\ state'.page = state.page
        /\ ledger' \subseteq Procs
    BY <1>1, RefreshStep DEF Nexts, Checks
  <2>2. PTyped'
    BY <1>1, <2>1 DEF Pre!Verify, PTyped, MachineTypes, SessionTypes, ShownTypes, SpotTypes,
       CheckingTypes, BoundTypes, Pre!world, Pre!session
  <2>3. \A p \in Procs : threads'[p] = threads[p] BY <2>1, Strangers DEF Pre!Threads
  <2>4. check'.of = handle BY <1>1
  <2>5. OfOne' /\ Pre!FindingsBelong' BY <2>1, <2>4 DEF OfOne, Pre!FindingsBelong,
    Pre!session
  <2>6. Pre!LifetimeIsWatched' BY <2>1, <2>3 DEF Pre!LifetimeIsWatched,
    Pre!session, PTyped, SessionTypes
  <2> QED BY <2>2, <2>5, <2>6
<1>2. CASE /\ threads' = [threads EXCEPT !["task"] = Pre!At("idle")]
           /\ UNCHANGED <<Pre!world, Pre!session, aged, ledger, state, check>>
  <2>1. PTyped'
    <3>1. threads' \in [Pre!Threads -> Spots] BY <1>2, SpotIs, AtSpot DEF Places,
      Pre!Threads, PTyped
    <3> QED BY <1>2, <3>1 DEF Pre!Verify, PTyped, MachineTypes, SessionTypes, ShownTypes,
      SpotTypes, CheckingTypes, BoundTypes, Pre!world, Pre!session
  <2>2. \A p \in Procs : threads'[p] = threads[p] BY <1>2, Strangers DEF Pre!Threads,
    PTyped, SpotTypes
  <2>3. check.of = Pre!None BY DEF Pre!Verify, OfOne, Checks, Pre!Is
  <2> QED BY <1>2, <2>1, <2>2, <2>3, Quiet DEF Pre!session
<1> QED BY <1>1, <1>2 DEF Pre!Verify

LEMMA LookStep == ASSUME PInv, NEW t \in Pre!Threads, Pre!Look(t) PROVE PInv'
<1> USE DEF PInv
<1>0. PTyped OBVIOUS
<1>1. PICK w \in {"take", threads[t].then} :
         threads' = [threads EXCEPT ![t].at = w] /\ (w = "take" => UNCHANGED state \/ threads[t].then = "take")
         /\ (UNCHANGED state \/ \E b \in BOOLEAN : state' = [state EXCEPT !.running = b])
  BY DEF Pre!Look, Pre!Goes
<1>2. /\ state' \in Shows /\ state'.pid = state.pid /\ state'.page = state.page
  BY <1>0, <1>1, RunningSet DEF PTyped, ShownTypes
<1>3. w \in Places \ {"spawned"} /\ threads[t] \in Spots BY <1>0, <1>1 DEF PTyped, SpotTypes,
  Spots, Places, Nexts
<1>4. threads' \in [Pre!Threads -> Spots] BY <1>0, <1>1, <1>3, SpotGoes DEF PTyped
<1>5. PTyped'
  BY <1>2, <1>4 DEF Pre!Look, PTyped, MachineTypes, SessionTypes, ShownTypes, SpotTypes,
     CheckingTypes, BoundTypes, Pre!world, Pre!session, Pre!bounds
<1>6. \A p \in Procs : threads[p].at = "take" => threads'[p].at = "take"
  BY <1>0, <1>1 DEF Pre!Look, Pre!Is, Pre!Threads, PTyped, SpotTypes, Spots
<1>7. Checks => Checks'
  BY <1>0, <1>1 DEF Pre!Look, Pre!Is, Pre!Threads, Checks, PTyped, SpotTypes, Spots
<1> QED BY <1>2, <1>5, <1>6, <1>7, Quiet DEF Pre!Look, Pre!session, Pre!bounds, OfOne

LEMMA TakeStep == ASSUME PInv, NEW t \in Pre!Threads, Pre!Take(t) PROVE PInv'
<1> USE DEF PInv
<1>0. PTyped OBVIOUS
<1>1. threads' \in [Pre!Threads -> Spots] /\ (Checks => Checks')
  <2>1. threads[t] \in Spots /\ handle \in Procs \cup {Pre!None} BY <1>0 DEF PTyped,
    SpotTypes, SessionTypes
  <2>2. [[threads[t] EXCEPT !.at = "end"] EXCEPT !.p = handle] \in Spots BY <2>1 DEF Spots, Places
  <2>3. threads' = [threads EXCEPT ![t] = [[threads[t] EXCEPT !.at = "end"] EXCEPT !.p = handle]]
    BY <1>0 DEF Pre!Take, PTyped, SpotTypes
  <2> QED BY <1>0, <2>2, <2>3, SpotIs DEF Pre!Take, Pre!Is, Checks, PTyped, SpotTypes,
    Spots, Pre!Threads
<1>2. PTyped'
  BY <1>1 DEF Pre!Take, PTyped, MachineTypes, SessionTypes, ShownTypes, SpotTypes,
     CheckingTypes, BoundTypes, Pre!world, Pre!session, Pre!bounds
<1>3. handle' = Pre!None /\ UNCHANGED <<state, check>> BY DEF Pre!Take, Pre!bounds
<1> QED BY <1>1, <1>2, <1>3 DEF OfOne, Pre!FindingsBelong, Pre!LifetimeIsWatched

LEMMA BlankShown == Pre!Blank \in Shows /\ Pre!Blank.pid = Pre!None /\ Pre!Blank.page = Pre!None /\ Pre!Blank.port = 0
BY DEF Pre!Blank, Shows, Pre!Ports

LEMMA EndStep == ASSUME PInv, NEW t \in Pre!Threads, Pre!EndTaken(t) PROVE PInv'
<1> USE DEF PInv
<1>0. PTyped OBVIOUS
<1>1. threads[t] \in Spots /\ threads[t].then \in Places \ {"spawned"} BY <1>0 DEF PTyped,
  SpotTypes, Spots, Nexts, Places
<1>2. threads' \in [Pre!Threads -> Spots] BY <1>0, <1>1, SpotGoes DEF Pre!EndTaken,
  Pre!Goes, PTyped
<1>3. life' \in [Procs -> Pre!Lives] BY <1>0 DEF Pre!EndTaken, PTyped, MachineTypes,
  Pre!Lives
<1>4. PTyped'
  BY <1>2, <1>3, BlankShown DEF Pre!EndTaken, PTyped, MachineTypes, SessionTypes,
     ShownTypes, SpotTypes, CheckingTypes, BoundTypes, Pre!session, Pre!bounds
<1>5. Checks => Checks'
  BY <1>0 DEF Pre!EndTaken, Pre!Goes, Pre!Is, Checks, PTyped, SpotTypes, Spots,
     Pre!Threads
<1>6. \A p \in Procs : threads[p].at = "take" => threads'[p].at = "take"
  BY <1>0 DEF Pre!EndTaken, Pre!Goes, Pre!Is, Pre!Threads, PTyped, SpotTypes,
     Spots
<1>7. state'.pid = Pre!None /\ UNCHANGED <<handle, armed, check>> BY BlankShown
   DEF Pre!EndTaken, Pre!session, Pre!bounds
<1> QED BY <1>4, <1>5, <1>6, <1>7 DEF OfOne, Pre!FindingsBelong, Pre!LifetimeIsWatched,
  PTyped, SessionTypes

\* A step of the task's thread that only moves it on.
LEMMA TaskMoves ==
  ASSUME PInv, NEW v \in Spots, threads' = [threads EXCEPT !["task"] = v],
         check.of = Pre!None \/ check'.of = Pre!None
           \/ v.at \in {"launch", "open", "report"} \/ (v.at \in {"look", "take", "end"} /\ v.then = "launch"),
         UNCHANGED <<handle, armed>>, check'.of \in {check.of, Pre!None},
         state'.pid = state.pid, state'.page = state.page
  PROVE  threads' \in [Pre!Threads -> Spots] /\ OfOne' /\ Pre!FindingsBelong' /\ Pre!LifetimeIsWatched'
<1>0. PTyped /\ "task" \in Pre!Threads BY DEF PInv, Pre!Threads
<1>1. threads' \in [Pre!Threads -> Spots] BY <1>0, SpotIs DEF PTyped
<1>2. \A p \in Procs : threads'[p] = threads[p] BY <1>0, Strangers DEF PInv, Pre!Threads,
  PTyped, SpotTypes
<1>3. threads'["task"] = v BY <1>0 DEF PTyped, SpotTypes
<1>4. check.of # Pre!None /\ check'.of # Pre!None => Checks' BY <1>3 DEF Checks
<1> QED BY <1>1, <1>2, <1>4, Quiet

LEMMA TaskGoes ==
  ASSUME PInv, NEW w \in Places \ {"spawned"}
  PROVE  /\ [threads["task"] EXCEPT !.at = w] \in Spots /\ [threads["task"] EXCEPT !.at = w].at = w
         /\ [threads EXCEPT !["task"].at = w] = [threads EXCEPT !["task"] = [threads["task"] EXCEPT !.at = w]]
         /\ Pre!At(w) \in Spots /\ Pre!At(w).at = w
         /\ \A port \in Pre!Ports \cup {0} : [Pre!At(w) EXCEPT !.port = port] \in Spots
                                     /\ [Pre!At(w) EXCEPT !.port = port].at = w
<1>1. threads["task"] \in Spots /\ threads \in [Pre!Threads -> Spots] /\ "task" \in Pre!Threads
  BY DEF PInv, PTyped, SpotTypes, Pre!Threads
<1>2. Pre!At(w) \in Spots /\ Pre!At(w).at = w BY AtSpot
<1> QED BY <1>1, <1>2 DEF Spots

LEMMA SpawnedAt ==
  ASSUME NEW p \in Procs
  PROVE  [Pre!At("spawned") EXCEPT !.p = p] \in Spots /\ [Pre!At("spawned") EXCEPT !.p = p].at = "spawned"
BY DEF Pre!At, Spots, Places, Nexts, Pre!Ports

LEMMA NoCheck ==
  ASSUME PInv, threads["task"].at \notin {"launch", "open", "report", "look", "take", "end"}
  PROVE  check.of = Pre!None
BY DEF PInv, OfOne, Checks

LEMMA SpawnStep == ASSUME PInv, Pre!Spawn PROVE PInv'
<1> USE DEF PInv
<1>0. PTyped /\ check.of = Pre!None BY NoCheck DEF Pre!Spawn, Pre!Is
<1>1. "idle" \in Places \ {"spawned"} BY DEF Places
<1>2. CASE Pre!Goes("task", "idle") /\ UNCHANGED <<life, portOf, ledger, state>>
  <2>1. threads' \in [Pre!Threads -> Spots] /\ OfOne' /\ Pre!FindingsBelong' /\ Pre!LifetimeIsWatched'
    BY <1>0, <1>1, <1>2, TaskGoes, TaskMoves DEF Pre!Goes, Pre!Spawn, Pre!session,
       Pre!bounds
  <2> QED BY <1>0, <1>2, <2>1
       DEF Pre!Spawn, PTyped, MachineTypes, SessionTypes, ShownTypes, SpotTypes,
         CheckingTypes, BoundTypes, Pre!session, Pre!bounds
<1>3. CASE state' = Pre!Blank /\ Pre!Goes("task", "idle") /\ UNCHANGED <<life, portOf, ledger>>
  <2>0. threads' = [threads EXCEPT !["task"] = [threads["task"] EXCEPT !.at = "idle"]] BY <1>1, <1>3, TaskGoes DEF Pre!Goes
  <2>1. threads' \in [Pre!Threads -> Spots] BY <1>0, <1>1, <2>0, TaskGoes, SpotIs
     DEF Pre!Threads, PTyped
  <2>2. \A p \in Procs : threads'[p] = threads[p] BY <1>0, <2>0, Strangers DEF Pre!Threads,
    PTyped, SpotTypes
  <2>3. state'.pid = Pre!None /\ state' \in Shows BY <1>3, BlankShown
  <2>4. PTyped' BY <1>0, <1>3, <2>1, <2>3
         DEF Pre!Spawn, PTyped, MachineTypes, SessionTypes, ShownTypes, SpotTypes,
           CheckingTypes, BoundTypes, Pre!session, Pre!bounds
  <2> QED BY <1>0, <2>2, <2>3, <2>4 DEF Pre!Spawn, Pre!session, Pre!bounds, OfOne,
    Pre!FindingsBelong, Pre!LifetimeIsWatched, PTyped, SessionTypes
<1>4. ASSUME NEW p \in Procs, Pre!FreePorts # {},
             portOf' = [portOf EXCEPT ![p] = CHOOSE n \in Pre!FreePorts : \A m \in Pre!FreePorts : n <= m],
             life' = [life EXCEPT ![p] = "mute"], ledger' = ledger \cup {p},
             threads' = [threads EXCEPT !["task"] = [Pre!At("spawned") EXCEPT !.p = p]], UNCHANGED state
      PROVE PInv'
  <2>1. threads' \in [Pre!Threads -> Spots] /\ OfOne' /\ Pre!FindingsBelong' /\ Pre!LifetimeIsWatched'
    BY <1>0, <1>4, SpawnedAt, TaskMoves DEF Pre!Spawn, Pre!session, Pre!bounds
  <2>2. (CHOOSE n \in Pre!FreePorts : \A m \in Pre!FreePorts : n <= m) \in Pre!Ports
    <3>1. Pre!FreePorts \subseteq {1, 2} /\ Pre!FreePorts \subseteq Pre!Ports BY DEF Pre!FreePorts, Pre!Ports
    <3>2. \E n \in Pre!FreePorts : \A m \in Pre!FreePorts : n <= m
      <4>1. CASE 1 \in Pre!FreePorts BY <3>1, <4>1
      <4>2. CASE 1 \notin Pre!FreePorts BY <1>4, <3>1, <4>2
      <4> QED BY <4>1, <4>2
    <3>3. (CHOOSE n \in Pre!FreePorts : \A m \in Pre!FreePorts : n <= m) \in Pre!FreePorts BY <3>2, Zenon
    <3> QED BY <3>1, <3>3, Zenon
  <2>3. MachineTypes' BY <1>0, <1>4, <2>2 DEF Pre!Spawn, PTyped, MachineTypes, Pre!Lives
  <2> QED BY <1>0, <1>4, <2>1, <2>3
       DEF Pre!Spawn, PTyped, SessionTypes, ShownTypes, SpotTypes, CheckingTypes,
         BoundTypes, Pre!session, Pre!bounds
<1> QED BY <1>2, <1>3, <1>4 DEF Pre!Spawn

LEMMA AdoptStep == ASSUME PInv, Pre!Adopt PROVE PInv'
<1> USE DEF PInv
<1>0. PTyped /\ check.of = Pre!None BY NoCheck DEF Pre!Adopt, Pre!Is
<1> DEFINE p == threads["task"].p
<1>1. p \in Procs /\ p # Pre!None /\ portOf[p] \in Pre!Ports \cup {0}
  BY <1>0, Strangers DEF Pre!Adopt, Pre!Is, PTyped, SpotTypes, Pre!Threads, Spots,
     MachineTypes
<1>2. Pre!Begun(p) \in Shows /\ Pre!Begun(p).pid = p /\ Pre!Begun(p).page = Pre!None
  BY <1>1, BlankShown DEF Pre!Begun, Shows, Pre!Blank
<1>3. /\ handle' = p /\ timer' = p /\ armed' = armed \cup {p} /\ state' = Pre!Begun(p)
      /\ UNCHANGED <<Pre!world, aged, ledger, Pre!bounds>>
      /\ threads' = [threads EXCEPT !["task"] = [threads["task"] EXCEPT !.at = "wait"]]
  BY <1>0 DEF Pre!Adopt, Pre!Goes, PTyped, SpotTypes
<1>4. threads' \in [Pre!Threads -> Spots]
  BY <1>0, <1>3, TaskGoes, SpotIs DEF Places, Pre!Threads, PTyped
<1>5. PTyped' BY <1>0, <1>1, <1>2, <1>3, <1>4
       DEF PTyped, MachineTypes, SessionTypes, ShownTypes, SpotTypes, CheckingTypes, BoundTypes,
         Pre!bounds, Pre!world
<1>6. OfOne' /\ Pre!FindingsBelong' /\ Pre!LifetimeIsWatched'
  BY <1>0, <1>1, <1>2, <1>3 DEF OfOne, Pre!FindingsBelong, Pre!LifetimeIsWatched,
     Pre!bounds
<1> QED BY <1>5, <1>6

LEMMA WaitStep == ASSUME PInv, Pre!Wait PROVE PInv'
<1> USE DEF PInv
<1>0. PTyped /\ check.of = Pre!None BY NoCheck DEF Pre!Wait, Pre!Is
<1>1. {"take", "idle"} \subseteq Places \ {"spawned"} BY DEF Places
<1>2. PICK w \in {"take", "idle"} : threads' = [threads EXCEPT !["task"] = Pre!At(w)]
        /\ (UNCHANGED state \/ state' = [state EXCEPT !.running = TRUE])
  BY DEF Pre!Wait
<1>3. state' \in Shows /\ state'.pid = state.pid /\ state'.page = state.page
  BY <1>0, <1>2, RunningSet DEF PTyped, ShownTypes
<1>4. UNCHANGED <<Pre!world, Pre!session, aged, ledger, Pre!bounds>> BY
   DEF Pre!Wait
<1>5. threads' \in [Pre!Threads -> Spots] /\ OfOne' /\ Pre!FindingsBelong' /\ Pre!LifetimeIsWatched'
  BY <1>0, <1>1, <1>2, <1>3, <1>4, TaskGoes, TaskMoves DEF Pre!session, Pre!bounds
<1> QED BY <1>0, <1>3, <1>4, <1>5
  DEF PTyped, MachineTypes, SessionTypes, ShownTypes, SpotTypes, CheckingTypes, BoundTypes,
    Pre!session, Pre!bounds, Pre!world

LEMMA ProbeStep == ASSUME PInv, Pre!Probe PROVE PInv'
<1> USE DEF PInv
<1>0. PTyped /\ check.of = Pre!None BY NoCheck DEF Pre!Probe, Pre!Is
<1>1. {"verify", "idle"} \subseteq Places \ {"spawned"} BY DEF Places
<1>2. PICK v \in {[threads["task"] EXCEPT !.at = "verify"], Pre!At("idle")} : threads' = [threads EXCEPT !["task"] = v]
  BY <1>1, TaskGoes DEF Pre!Probe, Pre!Goes
<1>3. v \in Spots BY <1>1, <1>2, TaskGoes
<1>4. UNCHANGED <<Pre!world, Pre!session, aged, ledger, state, Pre!bounds>> BY DEF Pre!Probe
<1>5. threads' \in [Pre!Threads -> Spots] /\ OfOne' /\ Pre!FindingsBelong' /\ Pre!LifetimeIsWatched'
  BY <1>0, <1>2, <1>3, <1>4, TaskMoves DEF Pre!session, Pre!bounds
<1> QED BY <1>0, <1>4, <1>5
  DEF PTyped, MachineTypes, SessionTypes, ShownTypes, SpotTypes, CheckingTypes, BoundTypes,
    Pre!session, Pre!bounds, Pre!world

LEMMA BrowserLaunched == ASSUME PInv, Pre!Launch PROVE PInv'
<1> USE DEF PInv
<1>0. PTyped OBVIOUS
<1>1. {"open", "idle"} \subseteq Places \ {"spawned"} BY DEF Places
<1>2. UNCHANGED <<Pre!world, Pre!session, aged, ledger, state, cancel, strangers, reads>> BY DEF Pre!Launch
<1>3. CASE UNCHANGED check /\ threads' = [threads EXCEPT !["task"] = [Pre!At("open") EXCEPT !.port = state.port]]
  <2>1. state.port \in Pre!Ports \cup {0} BY <1>0 DEF PTyped, ShownTypes, Shows
  <2>2. threads' \in [Pre!Threads -> Spots] /\ OfOne' /\ Pre!FindingsBelong' /\ Pre!LifetimeIsWatched'
    BY <1>0, <1>1, <1>2, <1>3, <2>1, TaskGoes, TaskMoves DEF Pre!session
  <2> QED BY <1>0, <1>2, <1>3, <2>2
    DEF PTyped, MachineTypes, SessionTypes, ShownTypes, SpotTypes, CheckingTypes, BoundTypes,
      Pre!session, Pre!world
<1>4. CASE threads' = [threads EXCEPT !["task"] = Pre!At("idle")] /\ check' = [of |-> Pre!None, saw |-> Pre!None]
  <2>1. threads' \in [Pre!Threads -> Spots] /\ OfOne' /\ Pre!FindingsBelong' /\ Pre!LifetimeIsWatched'
    BY <1>0, <1>1, <1>2, <1>4, TaskGoes, TaskMoves DEF Pre!session
  <2> QED BY <1>0, <1>2, <1>4, <2>1
    DEF PTyped, MachineTypes, SessionTypes, ShownTypes, SpotTypes, CheckingTypes, BoundTypes,
      Pre!session, Pre!world
<1> QED BY <1>3, <1>4 DEF Pre!Launch

LEMMA OpenStep == ASSUME PInv, Pre!Open PROVE PInv'
<1> USE DEF PInv
<1>0. PTyped OBVIOUS
<1>1. Pre!Answerer(threads["task"].port) \in Procs \cup {Pre!None, "stranger"}
  <2> DEFINE L == Pre!Listeners(threads["task"].port)
  <2>1. L \subseteq Procs \cup {"stranger"} BY DEF Pre!Listeners
  <2>2. L # {} => (CHOOSE who \in L : TRUE) \in L OBVIOUS
  <2> QED BY <2>1, <2>2 DEF Pre!Answerer
<1>2. check' \in [of : Procs \cup {Pre!None}, saw : Procs \cup {Pre!None, "stranger"}] /\ check'.of = check.of
  BY <1>0, <1>1 DEF Pre!Open, PTyped, CheckingTypes
<1>3. PICK v \in Spots : v.at = "report" /\ threads' = [threads EXCEPT !["task"] = v]
  BY TaskGoes DEF Pre!Open, Pre!Goes, Places
<1>4. UNCHANGED <<Pre!world, Pre!session, aged, ledger, state, cancel, strangers, reads>> BY DEF Pre!Open
<1>5. threads' \in [Pre!Threads -> Spots] /\ OfOne' /\ Pre!FindingsBelong' /\ Pre!LifetimeIsWatched'
  BY <1>2, <1>3, <1>4, TaskMoves DEF Pre!session
<1> QED BY <1>0, <1>2, <1>4, <1>5
  DEF PTyped, MachineTypes, SessionTypes, ShownTypes, SpotTypes, CheckingTypes, BoundTypes,
    Pre!session, Pre!world

LEMMA ReportStep == ASSUME PInv, Pre!Report PROVE PInv'
<1> USE DEF PInv
<1>0. PTyped OBVIOUS
<1>1. state' \in Shows /\ state'.pid = state.pid /\ state'.page = check.of
  BY <1>0 DEF Pre!Report, PTyped, ShownTypes, Shows, CheckingTypes
<1>2. UNCHANGED <<Pre!world, Pre!session, aged, ledger, cancel, strangers, reads>>
      /\ check' = [of |-> Pre!None, saw |-> Pre!None] /\ threads' = [threads EXCEPT !["task"] = Pre!At("idle")]
  BY DEF Pre!Report
<1>3. threads' \in [Pre!Threads -> Spots] BY <1>0, <1>2, AtSpot, SpotIs
   DEF Pre!Threads, Places, PTyped
<1>4. \A p \in Procs : threads'[p] = threads[p] BY <1>0, <1>2, Strangers DEF Pre!Threads,
  PTyped, SpotTypes
<1>5. PTyped' BY <1>0, <1>1, <1>2, <1>3
  DEF PTyped, MachineTypes, SessionTypes, ShownTypes, SpotTypes, CheckingTypes, BoundTypes,
    Pre!session, Pre!world
<1>6. OfOne' /\ Pre!FindingsBelong' BY <1>1, <1>2 DEF OfOne, Pre!FindingsBelong,
  Pre!session
<1>7. Pre!LifetimeIsWatched' BY <1>0, <1>2, <1>4 DEF Pre!LifetimeIsWatched,
  Pre!session, PTyped, SessionTypes
<1> QED BY <1>5, <1>6, <1>7

\* The event loop's stop, the user's, and what the ledger still has.
LEMMA StopSteps == ASSUME PInv, Pre!StopPreview \/ Pre!LoopStops \/ Pre!StopOwner PROVE PInv'
<1> USE DEF PInv
<1>0. PTyped OBVIOUS
<1>1. CASE Pre!StopPreview
  <2>0. check.of = Pre!None BY <1>1, NoCheck DEF Pre!StopPreview, Pre!Begins,
    Pre!Is
  <2>1. UNCHANGED <<Pre!world, Pre!session, aged, ledger, state, Pre!bounds>>
        /\ threads' = [threads EXCEPT !["task"] = [threads["task"] EXCEPT !.at = "take"]]
    BY <1>1, TaskGoes DEF Pre!StopPreview, Pre!Begins, Pre!Goes, Places
  <2>2. threads' \in [Pre!Threads -> Spots] /\ OfOne' /\ Pre!FindingsBelong' /\ Pre!LifetimeIsWatched'
    BY <2>0, <2>1, TaskGoes, TaskMoves DEF Pre!session, Pre!bounds, Places
  <2> QED BY <1>0, <2>1, <2>2
    DEF PTyped, MachineTypes, SessionTypes, ShownTypes, SpotTypes, CheckingTypes, BoundTypes,
      Pre!session, Pre!bounds, Pre!world
<1>2. CASE Pre!LoopStops \/ Pre!StopOwner
  <2>1. PICK v \in {[Pre!At("take") EXCEPT !.then = "owner"], Pre!At("idle")} : threads' = [threads EXCEPT !["loop"] = v]
    BY <1>2 DEF Pre!LoopStops, Pre!StopOwner
  <2>2. v \in Spots
    <3>1. Pre!At("take") \in Spots /\ Pre!At("idle") \in Spots BY AtSpot DEF Places
    <3>2. [Pre!At("take") EXCEPT !.then = "owner"] \in Spots BY <3>1 DEF Spots, Nexts
    <3> QED BY <2>1, <3>1, <3>2
  <2>3. threads' \in [Pre!Threads -> Spots] BY <1>0, <2>1, <2>2, SpotIs
     DEF Pre!Threads, PTyped
  <2>4. threads'["task"] = threads["task"] /\ \A p \in Procs : threads'[p] = threads[p]
    BY <1>0, <2>1, Strangers DEF Pre!Threads, PTyped, SpotTypes
  <2>5. UNCHANGED <<Pre!session, aged, state, check, portOf, squat, strangers>>
        /\ (ledger' = ledger \/ ledger' = {})
        /\ (life' = life \/ life' = [p \in Procs |-> IF p \in ledger THEN "dead" ELSE life[p]])
    BY <1>2 DEF Pre!LoopStops, Pre!StopOwner, Pre!world, Pre!bounds
  <2>6. BoundTypes'
    <3>1. CASE Pre!LoopStops BY <1>0, <3>1 DEF Pre!LoopStops, PTyped, BoundTypes,
      PreviewAssumption
    <3>2. CASE Pre!StopOwner BY <1>0, <3>2 DEF Pre!StopOwner, PTyped, BoundTypes,
      Pre!bounds
    <3> QED BY <1>2, <3>1, <3>2
  <2>7. MachineTypes'
    <3>1. life' \in [Procs -> Pre!Lives] BY <1>0, <2>5 DEF PTyped, MachineTypes, Pre!Lives
    <3> QED BY <1>0, <2>5, <3>1 DEF PTyped, MachineTypes
  <2>8. PTyped' BY <1>0, <2>3, <2>5, <2>6, <2>7
    DEF PTyped, SessionTypes, ShownTypes, SpotTypes, CheckingTypes, Pre!session
  <2>9. check.of # Pre!None => Checks' BY <2>4 DEF Checks, OfOne
  <2> QED BY <2>4, <2>5, <2>8, <2>9, Quiet DEF Pre!session
<1> QED BY <1>1, <1>2

LEMMA ExpireStep == ASSUME PInv, NEW p \in Procs, Pre!Expire(p) PROVE PInv'
<1> USE DEF PInv
<1>0. PTyped OBVIOUS
<1>1. /\ armed' = armed \ {p} /\ threads' = [threads EXCEPT ![p].at = "take"]
      /\ UNCHANGED <<Pre!world, handle, timer, aged, ledger, state, Pre!bounds>>
  BY DEF Pre!Expire, Pre!Goes
<1>2. threads' \in [Pre!Threads -> Spots] BY <1>0, <1>1, SpotGoes DEF Places,
  Pre!Threads, PTyped
<1>3. /\ threads'[p].at = "take" /\ threads'["task"] = threads["task"]
      /\ \A q \in Procs : q # p => threads'[q] = threads[q]
  BY <1>0, <1>1, Strangers DEF Pre!Threads, PTyped, SpotTypes, Spots
<1>4. PTyped' BY <1>0, <1>1, <1>2
  DEF PTyped, MachineTypes, SessionTypes, ShownTypes, SpotTypes, CheckingTypes, BoundTypes,
    Pre!bounds, Pre!world
<1>5. OfOne' /\ Pre!FindingsBelong' BY <1>1, <1>3 DEF OfOne, Pre!FindingsBelong,
  Checks, Pre!bounds
<1>6. Pre!LifetimeIsWatched' BY <1>0, <1>1, <1>3 DEF Pre!LifetimeIsWatched, PTyped,
  SessionTypes
<1> QED BY <1>4, <1>5, <1>6

LEMMA WorldSteps ==
  ASSUME PInv, (\E p \in Procs : Pre!TimePasses(p) \/ Pre!ServerDoes(p)) \/ (\E port \in Pre!Ports : Pre!Stranger(port))
  PROVE  PInv'
<1> USE DEF PInv
<1>0. PTyped OBVIOUS
<1>1. UNCHANGED <<handle, timer, armed, ledger, state, threads, check, portOf, cancel, reads>>
  BY DEF Pre!TimePasses, Pre!ServerDoes, Pre!Stranger, Pre!session,
     Pre!bounds, Pre!world
<1>2. OfOne' /\ Pre!FindingsBelong' /\ Pre!LifetimeIsWatched' BY <1>1, Quiet DEF OfOne,
  Checks
<1>3. MachineTypes'
  <2>1. life' \in [Procs -> Pre!Lives]
    BY <1>0 DEF Pre!TimePasses, Pre!ServerDoes, Pre!Stranger, PTyped,
       MachineTypes, Pre!Lives, Pre!world
  <2>2. squat' \subseteq Pre!Ports BY <1>0 DEF Pre!TimePasses, Pre!ServerDoes,
    Pre!Stranger, PTyped, MachineTypes, Pre!world
  <2> QED BY <1>0, <1>1, <2>1, <2>2 DEF PTyped, MachineTypes
<1>4. aged' \subseteq Procs
  BY <1>0 DEF Pre!TimePasses, Pre!ServerDoes, Pre!Stranger, PTyped, SessionTypes
<1>5. strangers' \in 0..WorkFaults
  <2>1. strangers' = strangers \/ (strangers < WorkFaults /\ strangers' = strangers + 1)
    BY DEF Pre!TimePasses, Pre!ServerDoes, Pre!Stranger, Pre!bounds
  <2> QED BY <1>0, <2>1 DEF PTyped, BoundTypes, PreviewAssumption
<1> QED BY <1>0, <1>1, <1>2, <1>3, <1>4, <1>5
     DEF PTyped, SessionTypes, ShownTypes, SpotTypes, CheckingTypes, BoundTypes

LEMMA PreviewInit == PreviewAssumption /\ Pre!Init => PInv
<1> SUFFICES ASSUME PreviewAssumption, Pre!Init PROVE PInv OBVIOUS
<1>1. threads \in [Pre!Threads -> Spots] /\ threads["task"].at = "idle"
  BY AtSpot DEF Pre!Init, Places, Pre!Threads
<1>2. PTyped
  <2>1. MachineTypes BY DEF Pre!Init, MachineTypes, Pre!Lives
  <2>2. SessionTypes BY DEF Pre!Init, SessionTypes
  <2>3. ShownTypes /\ SpotTypes BY <1>1, BlankShown DEF Pre!Init, ShownTypes, SpotTypes
  <2>4. CheckingTypes BY DEF Pre!Init, CheckingTypes
  <2>5. cancel \in BOOLEAN BY DEF Pre!Init
  <2>6. BoundTypes BY <2>5 DEF Pre!Init, BoundTypes, PreviewAssumption
  <2> QED BY <2>1, <2>2, <2>3, <2>4, <2>6 DEF PTyped
<1> QED BY <1>2, BlankShown DEF Pre!Init, PInv, OfOne, Pre!FindingsBelong,
  Pre!LifetimeIsWatched

LEMMA PreviewNext == PInv /\ [Pre!Next]_(Pre!vars) => PInv'
<1> SUFFICES ASSUME PInv, [Pre!Next]_(Pre!vars) PROVE PInv' OBVIOUS
<1>1. CASE Pre!TaskThread
  BY <1>1, ReadSteps, StopSteps, SpawnStep, AdoptStep, WaitStep, ProbeStep, ListenerVerified, BrowserLaunched, OpenStep,
     ReportStep DEF Pre!TaskThread
<1>2. CASE Pre!LoopReads \/ Pre!LoopStops \/ Pre!StopOwner BY <1>2, ReadSteps, StopSteps
<1>3. ASSUME NEW t \in Pre!Threads, Pre!Look(t) \/ Pre!Take(t) \/ Pre!EndTaken(t) PROVE PInv'
  BY <1>3, LookStep, TakeStep, EndStep
<1>4. ASSUME NEW p \in Procs, Pre!Expire(p) PROVE PInv' BY <1>4, ExpireStep
<1>5. CASE (\E p \in Procs : Pre!TimePasses(p) \/ Pre!ServerDoes(p)) \/ (\E port \in Pre!Ports : Pre!Stranger(port))
  BY <1>5, WorldSteps
<1>6. CASE UNCHANGED Pre!vars
  BY <1>6 DEF Pre!vars, PInv, PTyped, MachineTypes, SessionTypes, ShownTypes, SpotTypes,
     CheckingTypes, BoundTypes,
              OfOne, Checks, Pre!FindingsBelong, Pre!LifetimeIsWatched
<1> QED BY <1>1, <1>2, <1>3, <1>4, <1>5, <1>6 DEF Pre!Next

\* The inductive invariant of the preview: a session's handle and its state are about one
\* process or the state is blank, a finding belongs to that process, and nothing is held that
\* neither a timer nor a thread will take away (preview.py).
THEOREM PreviewBookkeeping == Pre!Spec => []PInv
<1>1. Pre!Init => PInv BY PreviewInit, PreviewAssumption
<1> QED BY <1>1, PreviewNext, PTL DEF Pre!Spec

\* Every variable of the preview keeps its type, for any processes, faults and reads
\* (preview.py).
THEOREM PreviewTypes == Pre!Spec => []Pre!TypeOK
<1>1. PInv => Pre!TypeOK
  BY DEF PInv, PTyped, MachineTypes, SessionTypes, ShownTypes, SpotTypes, CheckingTypes,
     BoundTypes, Spots, Shows, Nexts,
         Places, Pre!TypeOK
<1> QED BY <1>1, PreviewBookkeeping, PTL

\* Whatever process the session holds, its timer or a thread that is about to take it away
\* is there; and what the state shows of a page was found in the process it is about.
THEOREM PreviewIsWatched == Pre!Spec => []PreviewIsAccountedFor
<1>1. PInv => PreviewIsAccountedFor
  BY DEF PInv, PreviewIsAccountedFor, Pre!PreviewIsAccountedFor
<1> QED BY <1>1, PreviewBookkeeping, PTL

-----------------------------------------------------------------------------
(* The browser check: what is decided when, and what runs while it is. *)

BrowserTypes ==
  /\ browser \in {QA!None, "running", "dead"}
  /\ kid \in [Kids -> {"unborn", "running", "dead"}] /\ family \subseteq Kids
  /\ said \subseteq Kids \cup {QA!Root} /\ young \subseteq Kids
PageTypes ==
  /\ tab \in {"blank", "page", "error"}
  /\ defects \in [QA!Probes -> 0..1] /\ counted \in 0..MaxErrors
Counts == [QA!Probes \cup {"errors"} -> 0..MaxErrors + 2]
MarkTypes ==
  /\ profile \in BOOLEAN /\ left \in BOOLEAN /\ pressed \in BOOLEAN /\ late \in BOOLEAN
  /\ opened \in BOOLEAN /\ ended \in BOOLEAN
  /\ known \in BOOLEAN /\ broke \in BOOLEAN /\ unread \in BOOLEAN
VerdictTypes ==
  /\ stage \in QA!StageSet /\ found \in Counts
  /\ result \in QA!QaState \cup {QA!None} /\ told \in QA!QaState \cup {QA!None}
  /\ mishaps \in 0..MaxMishaps

QTyped == BrowserTypes /\ PageTypes /\ MarkTypes /\ VerdictTypes

\* Nothing is decided before the end, and what was counted is not counted again.
Decides ==
  /\ stage \notin QA!Closing => result = QA!None /\ ~opened
  /\ QA!VerdictIsEarned

\* Every child that no look showed came after the last look, or the look failed.
NobodyOverlooked ==
  QA!Looked => \A k \in Kids : kid[k] = "running" =>
                 k \in family \/ ended \/ unread \/ broke \/ k \in young

\* Once the targets have been dealt with, those that still run are in the report.
SurvivorsAreSaid ==
  stage \in {"remove", "done"} =>
    /\ QA!Live /\ known => QA!Root \in said \/ broke
    /\ \A k \in family : kid[k] = "running" => k \in said \/ broke

\* What the browser started is known to the clean-up.
Tidies ==
  /\ stage \in {"verify", "launch"} => browser = QA!None
  /\ browser = QA!None => ~known /\ \A k \in Kids : kid[k] = "unborn"
  /\ browser = "dead" => ended \/ QA!Looked
  /\ \A k \in family : kid[k] # "unborn"
  /\ NobodyOverlooked /\ SurvivorsAreSaid

QInv == CheckAssumption /\ QTyped /\ Decides /\ Tidies

LEMMA Order ==
  /\ QA!StageSet = {"verify", "launch", "endpoint", "attach", "viewport", "navigate", "landed",
                    "facts", "access", "overflow", "count", "cleanup", "expand", "resolve",
                    "kill", "remove", "done"}
  /\ QA!After("verify") = "launch" /\ QA!After("launch") = "endpoint" /\ QA!After("endpoint") = "attach"
  /\ QA!After("attach") = "viewport" /\ QA!After("viewport") = "navigate" /\ QA!After("navigate") = "landed"
  /\ QA!After("landed") = "facts" /\ QA!After("facts") = "access" /\ QA!After("access") = "overflow"
  /\ QA!After("overflow") = "count"
<1>1. DOMAIN QA!Stages = 1..17 BY DEF QA!Stages
<1>2. QA!StageSet = {"verify", "launch", "endpoint", "attach", "viewport", "navigate", "landed",
                     "facts", "access", "overflow", "count", "cleanup", "expand", "resolve",
                     "kill", "remove", "done"}
  BY <1>1 DEF QA!StageSet, QA!Stages
<1>3. ASSUME NEW i \in 1..16 PROVE QA!After(QA!Stages[i]) = QA!Stages[i + 1]
  <2>1. \A j \in DOMAIN QA!Stages : QA!Stages[j] = QA!Stages[i] => j = i BY <1>1 DEF QA!Stages
  <2>2. i \in DOMAIN QA!Stages BY <1>1
  <2>3. (CHOOSE j \in DOMAIN QA!Stages : QA!Stages[j] = QA!Stages[i]) = i BY <2>1, <2>2
  <2> QED BY <2>3 DEF QA!After
<1>4. QA!After(QA!Stages[1]) = QA!Stages[2] /\ QA!After(QA!Stages[2]) = QA!Stages[3] /\ QA!After(QA!Stages[3]) = QA!Stages[4]
      /\ QA!After(QA!Stages[4]) = QA!Stages[5] /\ QA!After(QA!Stages[5]) = QA!Stages[6] /\ QA!After(QA!Stages[6]) = QA!Stages[7]
      /\ QA!After(QA!Stages[7]) = QA!Stages[8] /\ QA!After(QA!Stages[8]) = QA!Stages[9] /\ QA!After(QA!Stages[9]) = QA!Stages[10]
      /\ QA!After(QA!Stages[10]) = QA!Stages[11]
  BY <1>3
<1> QED BY <1>2, <1>4 DEF QA!Stages

\* The check goes on, or ends with a verdict that says what happened.
Onward ==
  \/ stage' = QA!After(stage) /\ result' = result
  \/ stage' = "cleanup" /\ result' \in {"engine_unavailable", "failed", "timed_out"}
  \/ stage' = "cleanup" /\ result' = "cancelled" /\ pressed
  \/ stage' = "cleanup" /\ result' = "blocked" /\ (left' = TRUE \/ tab' = "error")

FaultsMove == mishaps' = mishaps \/ (mishaps < MaxMishaps /\ mishaps' = mishaps + 1)

Middle == {"endpoint", "attach", "viewport", "navigate", "landed", "facts", "access", "overflow"}

LEMMA OnwardStep ==
  ASSUME QInv, stage \in Middle, Onward,
         UNCHANGED <<browser, kid, known, said, broke, ended, unread, young, pressed, opened>>,
         family' = family \/ family' = family \cup QA!Born(Kids),
         found'["errors"] = found["errors"]
  PROVE  Decides' /\ Tidies' /\ stage' \in QA!StageSet /\ result' \in QA!QaState \cup {QA!None}
<1> USE DEF QInv, Middle
<1>1. stage' \in {"attach", "viewport", "navigate", "landed", "facts", "access", "overflow", "count", "cleanup"}
  BY Order DEF Onward
<1>2. result = QA!None /\ ~opened /\ found["errors"] = QA!Unknown
  BY DEF Decides, QA!VerdictIsEarned, QA!Closing
<1>3. result' \in {QA!None, "engine_unavailable", "failed", "timed_out", "cancelled", "blocked"}
      /\ (result' = "cancelled" => pressed) /\ (result' = "blocked" => left' = TRUE \/ tab' = "error")
      /\ (stage' # "cleanup" => result' = QA!None)
  BY <1>1, <1>2, Order DEF Onward, QA!None
<1>4. Decides' BY <1>1, <1>2, <1>3 DEF Decides, QA!VerdictIsEarned, QA!Closing, QA!None
<1>5. \A k \in family' : kid'[k] # "unborn" BY DEF Tidies, QA!Born
<1>6. ~QA!Looked /\ ~QA!Looked' /\ stage' \notin {"remove", "done"} BY <1>1 DEF QA!Looked
<1>7. Tidies' BY <1>1, <1>5, <1>6 DEF Tidies, NobodyOverlooked, SurvivorsAreSaid
<1> QED BY <1>1, <1>3, <1>4, <1>7, Order DEF QA!QaState, QA!None

LEMMA Broken == ASSUME QInv, stage \in Middle, QA!Breaks PROVE Onward /\ FaultsMove
BY DEF QA!Breaks, QA!Ends, QA!Fault, QA!Fine, Onward, FaultsMove

LEMMA OnGuard == ASSUME QInv, stage \in Middle, QA!Guarded PROVE Onward
BY DEF QA!Guarded, QA!Ends, QA!Goes, Onward

LEMMA CountsFaults ==
  ASSUME QInv, FaultsMove
  PROVE  mishaps' \in 0..MaxMishaps
BY DEF QInv, QTyped, VerdictTypes, CheckAssumption, FaultsMove

LEMMA MiddleSteps ==
  ASSUME QInv, QA!Endpoint \/ QA!Attach \/ QA!Navigate \/ QA!Landed \/ QA!Probe
  PROVE  QInv'
<1> USE DEF QInv
<1>0. QTyped /\ stage \in Middle BY DEF QA!Endpoint, QA!Attach, QA!Navigate,
  QA!Landed, QA!Probe, Middle, QA!Probes
<1>1. FaultsMove
  BY <1>0, Broken DEF QA!Endpoint, QA!Attach, QA!Navigate, QA!Landed,
     QA!Probe, QA!Shown, QA!Unshown, QA!Fine, QA!Fault, FaultsMove
<1>2. Onward
  <2>1. CASE QA!Endpoint BY <2>1 DEF QA!Endpoint, QA!Ends, QA!Goes, Onward
  <2>2. CASE QA!Attach BY <1>0, <2>2, Broken, OnGuard DEF QA!Attach, QA!Goes, Onward
  <2>3. CASE QA!Navigate BY <1>0, <2>3, Broken, OnGuard DEF QA!Navigate, QA!Ends,
    Onward
  <2>4. CASE QA!Landed
    <3>1. CASE QA!Guarded BY <1>0, <3>1, OnGuard
    <3>2. CASE tab = "error" /\ QA!Ends("blocked") BY <2>4, <3>2 DEF QA!Landed, QA!Ends, Onward
    <3>3. CASE QA!Ends("blocked") /\ left' = TRUE BY <3>3 DEF QA!Ends, Onward
    <3>4. CASE QA!Breaks BY <1>0, <3>4, Broken
    <3> QED BY <2>4, <3>1, <3>2, <3>3, <3>4 DEF QA!Landed
  <2>5. CASE QA!Probe BY <1>0, <2>5, Broken, OnGuard DEF QA!Probe
  <2> QED BY <2>1, <2>2, <2>3, <2>4, <2>5
<1>3. UNCHANGED <<browser, kid, known, said, broke, profile, ended, unread, young, pressed, late,
                  told, opened, counted>>
  BY DEF QA!Endpoint, QA!Attach, QA!Navigate, QA!Landed, QA!Probe,
     QA!browser, QA!report, QA!looks, QA!page, QA!caller
<1>4. PageTypes'
  <2>1. CASE QA!Navigate
    <3>1. tab' \in {"blank", "page", "error"} /\ defects' \in [QA!Probes -> 0..1]
      BY <1>0, <2>1 DEF QA!Navigate, QTyped, PageTypes
    <3> QED BY <1>0, <1>3, <3>1 DEF QTyped, PageTypes
  <2>2. ASSUME ~QA!Navigate PROVE UNCHANGED <<tab, defects>>
    BY <2>2 DEF QA!Endpoint, QA!Attach, QA!Landed, QA!Probe, QA!page
  <2> QED BY <1>0, <1>3, <2>1, <2>2 DEF QTyped, PageTypes
<1>5. left' \in BOOLEAN
  <2>1. left \in BOOLEAN BY <1>0 DEF QTyped, MarkTypes
  <2>2. left' = left \/ left' = TRUE
    BY DEF QA!Endpoint, QA!Attach, QA!Navigate, QA!Landed, QA!Probe, QA!page
  <2> QED BY <2>1, <2>2
<1>6. found' \in Counts /\ found'["errors"] = found["errors"]
  <2>1. CASE UNCHANGED found BY <1>0, <2>1 DEF QTyped, VerdictTypes
  <2>2. ASSUME stage \in QA!Probes, NEW n \in 0..MaxErrors + 2, found' = [found EXCEPT ![stage] = n]
        PROVE  found' \in Counts /\ found'["errors"] = found["errors"]
    BY <1>0, <2>2 DEF QTyped, VerdictTypes, Counts, QA!Probes
  <2>3. stage \in QA!Probes => QA!Sees(stage) \in 0..MaxErrors + 2 /\ QA!Nothing(stage) \in 0..MaxErrors + 2
    <3>1. 0 \in 0..MaxErrors + 2 /\ 1 \in 0..MaxErrors + 2 /\ MaxErrors + 2 \in 0..MaxErrors + 2
      BY DEF CheckAssumption
    <3> QED BY <1>0, <3>1 DEF QA!Sees, QA!Nothing, QA!Unknown, QTyped, PageTypes
  <2>4. UNCHANGED found \/ (stage \in QA!Probes /\ \E n \in {QA!Sees(stage), QA!Nothing(stage)} : found' = [found EXCEPT ![stage] = n])
    BY DEF QA!Endpoint, QA!Attach, QA!Navigate, QA!Landed, QA!Probe
  <2> QED BY <2>1, <2>2, <2>3, <2>4
<1>7. family' = family \/ family' = family \cup QA!Born(Kids)
  BY DEF QA!Endpoint, QA!Attach, QA!Navigate, QA!Landed, QA!Probe, QA!Shown, QA!Unshown,
     QA!browser
<1>8. family' \subseteq Kids BY <1>0, <1>7 DEF QA!Born, QTyped, BrowserTypes
<1>9. Decides' /\ Tidies' /\ stage' \in QA!StageSet /\ result' \in QA!QaState \cup {QA!None}
  BY <1>0, <1>2, <1>3, <1>6, <1>7, OnwardStep
<1>10. BrowserTypes' /\ VerdictTypes'
  BY <1>0, <1>1, <1>3, <1>6, <1>8, <1>9, CountsFaults DEF QTyped, BrowserTypes, VerdictTypes
<1>11. MarkTypes' BY <1>0, <1>3, <1>5 DEF QTyped, MarkTypes
<1> QED BY <1>4, <1>9, <1>10, <1>11 DEF QTyped

\* A check that ends before it has a browser has nobody to look for.
LEMMA EndsEarly ==
  ASSUME QInv, browser = QA!None,
         UNCHANGED <<browser, kid, known, family, said, broke, ended, unread, young>>,
         stage' \in {"launch", "cleanup", "done"}
  PROVE  Tidies'
<1> USE DEF QInv
<1>1. ~known /\ \A k \in Kids : kid[k] = "unborn" BY DEF Tidies
<1>2. family \subseteq Kids BY DEF QTyped, BrowserTypes
<1> QED BY <1>1, <1>2 DEF Tidies, NobodyOverlooked, SurvivorsAreSaid, QA!Live, QA!None, QA!Looked

LEMMA VerifyStage == ASSUME QInv, QA!Verify PROVE QInv'
<1> USE DEF QInv
<1>0. QTyped /\ result = QA!None /\ ~opened /\ browser = QA!None /\ stage = "verify" /\ found["errors"] = QA!Unknown
  BY DEF QA!Verify, Decides, Tidies, QA!VerdictIsEarned, QA!Closing
<1>1. UNCHANGED <<browser, kid, known, family, said, broke, profile, ended, unread, young, tab, defects,
                  counted, left, pressed, late, found, opened, mishaps>>
  BY DEF QA!Verify, QA!browser, QA!report, QA!looks, QA!page, QA!Fine
<1>2. \/ stage' = "done" /\ told' = result' /\ result' \in {"preview_unavailable", "engine_unavailable", "blocked"}
      \/ stage' = "done" /\ told' = result' /\ result' = "cancelled" /\ pressed
      \/ stage' = "launch" /\ result' = result /\ told' = told
  BY <1>0, Order DEF QA!Verify, QA!Goes
<1>3. QTyped'
  BY <1>0, <1>1, <1>2, Order DEF QTyped, BrowserTypes, PageTypes, MarkTypes, VerdictTypes,
     QA!QaState
<1>4. Decides' BY <1>0, <1>1, <1>2 DEF Decides, QA!VerdictIsEarned, QA!Closing, QA!None
<1>5. Tidies' BY <1>0, <1>1, <1>2, EndsEarly
<1> QED BY <1>3, <1>4, <1>5

LEMMA LaunchStage == ASSUME QInv, QA!Launch \/ QA!NeverLaunches PROVE QInv'
<1> USE DEF QInv
<1>0. QTyped /\ result = QA!None /\ ~opened /\ stage = "launch" /\ browser = QA!None /\ found["errors"] = QA!Unknown
  BY DEF QA!Launch, QA!NeverLaunches, Decides, Tidies, QA!VerdictIsEarned, QA!Closing
<1>1. UNCHANGED <<kid, family, said, broke, ended, unread, young, tab, defects, counted, left, pressed,
                  late, found, opened>>
  BY DEF QA!Launch, QA!NeverLaunches, QA!report, QA!looks, QA!page, QA!caller
<1>2. \/ stage' = "endpoint" /\ result' = result /\ browser' = "running"
      \/ /\ stage' \in {"cleanup", "done"} /\ result' \in {"engine_unavailable", "failed"}
         /\ browser' = browser /\ known' = known
  BY <1>0, Order DEF QA!Launch, QA!NeverLaunches, QA!Goes, QA!Ends
<1>3. told' \in {told, "failed"} /\ FaultsMove
  BY DEF QA!Launch, QA!NeverLaunches, QA!Tells, QA!caller, QA!Fault, QA!Fine, FaultsMove
<1>4. profile' \in BOOLEAN /\ known' \in BOOLEAN
  <2>1. known \in BOOLEAN BY <1>0 DEF QTyped, MarkTypes
  <2>2. known' = known \/ known' = TRUE \/ known' = FALSE BY DEF QA!Launch, QA!NeverLaunches
  <2>3. profile' = TRUE \/ profile' \in BOOLEAN BY DEF QA!Launch, QA!NeverLaunches
  <2> QED BY <2>1, <2>2, <2>3
<1>5. MarkTypes' BY <1>0, <1>1, <1>4 DEF QTyped, MarkTypes
<1>6. BrowserTypes' /\ PageTypes' /\ VerdictTypes'
  BY <1>0, <1>1, <1>2, <1>3, Order, CountsFaults DEF QTyped, BrowserTypes, PageTypes, VerdictTypes,
     QA!QaState
<1>7. Decides' BY <1>0, <1>1, <1>2 DEF Decides, QA!VerdictIsEarned, QA!Closing, QA!None
<1>8. Tidies'
  <2>1. CASE stage' = "endpoint" /\ browser' = "running"
    BY <1>1, <2>1 DEF Tidies, NobodyOverlooked, SurvivorsAreSaid, QA!Looked, QA!None
  <2>2. CASE stage' \in {"cleanup", "done"} /\ browser' = browser /\ known' = known
    BY <1>0, <1>1, <2>2, EndsEarly
  <2> QED BY <1>2, <2>1, <2>2
<1> QED BY <1>5, <1>6, <1>7, <1>8 DEF QTyped

LEMMA CountStep == ASSUME QInv, QA!Count PROVE QInv'
<1> USE DEF QInv
<1>0. QTyped /\ result = QA!None /\ stage = "count" BY DEF QA!Count, Decides, QA!Closing
<1>1. UNCHANGED <<browser, kid, known, family, said, broke, profile, ended, unread, young, tab, defects,
                  counted, left, pressed, late, told, mishaps>>
      /\ opened' = TRUE /\ stage' = "cleanup" /\ result' = (IF QA!ProblemCount = 0 THEN "passed" ELSE "failed")
      /\ found' = [found EXCEPT !["errors"] = counted]
  BY DEF QA!Count, QA!browser, QA!report, QA!looks, QA!page, QA!caller, QA!Ends, QA!Fine
<1>2. found' \in Counts /\ found'["errors"] = counted /\ (\A p \in QA!Probes : found'[p] = found[p])
      /\ counted \in Nat /\ counted # QA!Unknown
  BY <1>0, <1>1 DEF QTyped, PageTypes, VerdictTypes, Counts, QA!Probes, QA!Unknown,
     CheckAssumption
<1>3. QA!ProblemCount = 0 => counted = 0 /\ \A p \in QA!Probes : found[p] \in {0, QA!Unknown}
  <2>1. \A p \in QA!Probes : found[p] \in Nat BY <1>0, CheckAssumption DEF QTyped,
    VerdictTypes, Counts
  <2>2. \A p \in QA!Probes : QA!Number(found[p]) \in Nat /\ (QA!Number(found[p]) = 0 => found[p] \in {0, QA!Unknown})
    BY <2>1 DEF QA!Number
  <2> QED BY <1>2, <2>2 DEF QA!ProblemCount, QA!Probes
<1>4. opened' \in BOOLEAN BY <1>1
<1>5. QTyped'
  BY <1>0, <1>1, <1>2, <1>4, Order DEF QTyped, BrowserTypes, PageTypes, MarkTypes, VerdictTypes,
     QA!QaState
<1>6. Decides' BY <1>0, <1>1, <1>2, <1>3 DEF Decides, QA!VerdictIsEarned, QA!Closing, QA!None,
  QA!Unknown
<1>7. Tidies' BY <1>0, <1>1 DEF Tidies, NobodyOverlooked, SurvivorsAreSaid, QA!Looked
<1> QED BY <1>5, <1>6, <1>7

\* What every step of the clean-up leaves alone, and what it may do.
CleanupFrame ==
  /\ UNCHANGED <<known, ended, young, tab, defects, counted, left, pressed, late, found, opened, result>>
  /\ stage \in QA!Closing /\ stage' \in QA!Closing \ {"cleanup"}
  /\ browser' = browser \/ (browser = "running" /\ browser' = "dead")
  /\ told' \in {told, result} /\ FaultsMove
  /\ unread' \in {unread, TRUE, FALSE} /\ broke' \in {broke, TRUE} /\ profile' \in {profile, TRUE, FALSE}

LEMMA CleanupFrames ==
  ASSUME QInv, QA!Cleanup \/ QA!Expand \/ QA!Resolve \/ QA!Kill \/ QA!RemoveProfile
  PROVE  CleanupFrame
<1> USE DEF QA!closing, QA!report, QA!looks, QA!page, QA!Fine, QA!Fault, QA!Closing, FaultsMove
<1>1. CASE QA!Cleanup BY <1>1 DEF QA!Cleanup, QA!Shown, QA!Unshown, CleanupFrame
<1>2. CASE QA!Expand BY <1>2 DEF QA!Expand, QA!Shown, QA!Unshown, QA!Raises, CleanupFrame
<1>3. CASE QA!Resolve BY <1>3 DEF QA!Resolve, CleanupFrame
<1>4. CASE QA!Kill BY <1>4 DEF QA!Kill, QA!EndOf, QA!Raises, QA!Live, CleanupFrame
<1>5. CASE QA!RemoveProfile BY <1>5 DEF QA!RemoveProfile, QA!Tells, CleanupFrame
<1> QED BY <1>1, <1>2, <1>3, <1>4, <1>5

\* The types and the verdict are the frame's; the rest is the step's own.
LEMMA CleanupKeeps ==
  ASSUME QInv, CleanupFrame,
         kid' \in [Kids -> {"unborn", "running", "dead"}], family' \subseteq Kids,
         said' \subseteq Kids \cup {QA!Root}, Tidies'
  PROVE  QInv'
<1> USE DEF QInv, CleanupFrame
<1>1. QTyped OBVIOUS
<1>2. VerdictTypes'
  <2>1. stage' \in QA!StageSet BY Order DEF QA!Closing
  <2> QED BY <1>1, <2>1, CountsFaults DEF QTyped, VerdictTypes
<1>3. BrowserTypes' BY <1>1 DEF QTyped, BrowserTypes
<1>4. PageTypes' BY <1>1 DEF QTyped, PageTypes
<1>5. MarkTypes'
  <2>1. unread' \in BOOLEAN /\ broke' \in BOOLEAN /\ profile' \in BOOLEAN
    <3>1. unread \in BOOLEAN /\ broke \in BOOLEAN /\ profile \in BOOLEAN BY <1>1 DEF QTyped, MarkTypes
    <3> QED BY <3>1
  <2> QED BY <1>1, <2>1 DEF QTyped, MarkTypes
<1>6. Decides' BY <1>1 DEF Decides, QA!VerdictIsEarned, QTyped, BrowserTypes, QA!None
<1> QED BY <1>2, <1>3, <1>4, <1>5, <1>6 DEF QTyped

\* A look shows every child that runs, unless it failed or the browser had ended.
LEMMA LastLook ==
  ASSUME QInv, ~QA!Looked, (QA!Shown /\ unread' = FALSE) \/ (QA!Unshown /\ unread' = TRUE),
         UNCHANGED <<browser, kid>>
  PROVE  /\ family' \subseteq Kids /\ family \subseteq family'
         /\ \A k \in family' : kid'[k] # "unborn"
         /\ \A k \in Kids : kid[k] = "running" => k \in family' \/ ended \/ unread'
<1> USE DEF QInv
<1>1. QTyped OBVIOUS
<1>2. family' = family \/ family' = family \cup QA!Born(Kids) BY DEF QA!Shown, QA!Unshown
<1>3. family' \subseteq Kids /\ family \subseteq family' /\ \A k \in family' : kid'[k] # "unborn"
  BY <1>1, <1>2 DEF QA!Born, Tidies, QTyped, BrowserTypes
<1>4. ASSUME NEW k \in Kids, kid[k] = "running" PROVE k \in family' \/ ended \/ unread'
  <2>1. CASE QA!Live BY <1>4, <2>1 DEF QA!Shown, QA!Born
  <2>2. CASE browser = QA!None BY <1>4, <2>2 DEF Tidies
  <2>3. CASE browser = "dead" BY <2>3 DEF Tidies
  <2> QED BY <1>1, <2>1, <2>2, <2>3 DEF QTyped, BrowserTypes, QA!Live
<1> QED BY <1>3, <1>4

LEMMA CaptureStep == ASSUME QInv, QA!Cleanup PROVE QInv'
<1> USE DEF QInv
<1>1. CleanupFrame BY CleanupFrames
<1>2. stage = "cleanup" /\ stage' = "expand" /\ ~QA!Looked
      /\ UNCHANGED <<browser, kid, known, said, broke, ended, young>>
  BY DEF QA!Cleanup, QA!Looked, QA!report
<1>3. /\ family' \subseteq Kids /\ family \subseteq family'
      /\ \A k \in family' : kid'[k] # "unborn"
      /\ \A k \in Kids : kid[k] = "running" => k \in family' \/ ended \/ unread'
  BY <1>2, LastLook DEF QA!Cleanup
<1>4. Tidies' BY <1>2, <1>3 DEF Tidies, NobodyOverlooked, SurvivorsAreSaid, QA!Looked
<1> QED BY <1>1, <1>2, <1>3, <1>4, CleanupKeeps DEF QTyped, BrowserTypes

LEMMA ExpandStep == ASSUME QInv, QA!Expand PROVE QInv'
<1> USE DEF QInv
<1>0. QTyped OBVIOUS
<1>1. CleanupFrame BY CleanupFrames
<1>2. stage = "expand" /\ UNCHANGED <<browser, kid, known, ended, young>> BY DEF QA!Expand
<1>3. CASE QA!Targets = {} /\ stage' = "remove" /\ UNCHANGED <<family, said, broke, unread>>
  <2>1. ~known /\ family = {} BY <1>3 DEF QA!Targets
  <2>2. Tidies' BY <1>2, <1>3, <2>1 DEF Tidies, NobodyOverlooked, SurvivorsAreSaid, QA!Looked
  <2> QED BY <1>0, <1>1, <1>2, <1>3, <2>2, CleanupKeeps DEF QTyped, BrowserTypes
<1>4. CASE known /\ stage' = "resolve" /\ UNCHANGED <<said, broke>>
           /\ ((QA!Shown /\ unread' = FALSE) \/ (QA!Unshown /\ unread' = TRUE))
  <2>1. ~QA!Looked BY <1>2, <1>4 DEF QA!Looked
  <2>2. /\ family' \subseteq Kids /\ family \subseteq family'
        /\ \A k \in family' : kid'[k] # "unborn"
        /\ \A k \in Kids : kid[k] = "running" => k \in family' \/ ended \/ unread'
    BY <1>2, <1>4, <2>1, LastLook
  <2>3. Tidies' BY <1>2, <1>4, <2>1, <2>2 DEF Tidies, NobodyOverlooked, SurvivorsAreSaid, QA!Looked
  <2> QED BY <1>0, <1>1, <1>2, <1>4, <2>2, <2>3, CleanupKeeps DEF QTyped, BrowserTypes
<1>5. CASE ~known /\ stage' = "resolve" /\ UNCHANGED <<family, said, broke, unread>>
  <2>1. Tidies' BY <1>2, <1>5 DEF Tidies, NobodyOverlooked, SurvivorsAreSaid, QA!Looked
  <2> QED BY <1>0, <1>1, <1>2, <1>5, <2>1, CleanupKeeps DEF QTyped, BrowserTypes
<1>6. CASE QA!Raises /\ UNCHANGED <<family, unread>>
  <2>1. broke' = TRUE /\ said' = {} /\ stage' = "remove" BY <1>6 DEF QA!Raises
  <2>2. Tidies' BY <1>2, <1>6, <2>1 DEF Tidies, NobodyOverlooked, SurvivorsAreSaid, QA!Looked
  <2> QED BY <1>0, <1>1, <1>2, <1>6, <2>1, <2>2, CleanupKeeps DEF QTyped, BrowserTypes
<1> QED BY <1>3, <1>4, <1>5, <1>6 DEF QA!Expand, QA!report

LEMMA ResolveStep == ASSUME QInv, QA!Resolve PROVE QInv'
<1> USE DEF QInv
<1>0. QTyped OBVIOUS
<1>1. CleanupFrame BY CleanupFrames
<1>2. stage = "resolve" /\ stage' = "kill"
      /\ UNCHANGED <<browser, kid, known, family, broke, ended, unread, young>>
  BY DEF QA!Resolve, QA!looks
<1>3. said' \subseteq Kids \cup {QA!Root}
  BY <1>0 DEF QA!Resolve, QA!Targets, QTyped, BrowserTypes
<1>4. Tidies' BY <1>2 DEF Tidies, NobodyOverlooked, SurvivorsAreSaid, QA!Looked
<1> QED BY <1>0, <1>1, <1>2, <1>3, <1>4, CleanupKeeps DEF QTyped, BrowserTypes

\* Whom the termination passed over is in the report, or it raised.
LEMMA KillStep == ASSUME QInv, QA!Kill PROVE QInv'
<1> USE DEF QInv
<1>0. QTyped OBVIOUS
<1>1. CleanupFrame BY CleanupFrames
<1>2. stage = "kill" /\ stage' = "remove" /\ UNCHANGED <<known, family, ended, unread, young>>
  BY DEF QA!Kill, QA!Raises, QA!looks
<1>3. PICK dying : QA!EndOf(dying) /\ (broke' = TRUE \/ QA!Targets \ dying \subseteq said')
  <2>1. CASE QA!EndOf(QA!Targets \ said) /\ UNCHANGED QA!report BY <2>1 DEF QA!report
  <2>2. ASSUME NEW unseen \in SUBSET (QA!Targets \ said), NEW lasting \in {unseen, {}},
               said' = said \cup unseen, QA!EndOf(QA!Targets \ (said \cup lasting))
        PROVE  \E dying : QA!EndOf(dying) /\ QA!Targets \ dying \subseteq said'
    BY <2>2
  <2>3. CASE QA!Raises /\ \E lasting \in SUBSET (QA!Targets \ said) : QA!EndOf(QA!Targets \ (said \cup lasting))
    BY <2>3 DEF QA!Raises
  <2> QED BY <2>1, <2>2, <2>3 DEF QA!Kill
<1>4. said' \subseteq Kids \cup {QA!Root}
  BY <1>0 DEF QA!Kill, QA!Raises, QA!report, QA!Targets, QTyped, BrowserTypes
<1>5. kid' = [k \in Kids |-> IF k \in dying /\ kid[k] = "running" THEN "dead" ELSE kid[k]]
      /\ browser' = (IF QA!Root \in dying /\ QA!Live THEN "dead" ELSE browser)
  BY <1>3 DEF QA!EndOf
<1>6. kid' \in [Kids -> {"unborn", "running", "dead"}] BY <1>0, <1>5 DEF QTyped, BrowserTypes
<1>7. \A k \in Kids : /\ kid'[k] = "running" => kid[k] = "running" /\ k \notin dying
                      /\ kid'[k] = "unborn" <=> kid[k] = "unborn"
  BY <1>0, <1>5 DEF QTyped, BrowserTypes
<1>8. SurvivorsAreSaid'
  <2>1. ASSUME QA!Live', known PROVE QA!Root \in said' \/ broke'
    <3>1. QA!Root \notin dying BY <1>5, <2>1 DEF QA!Live
    <3>2. QA!Root \in QA!Targets BY <2>1 DEF QA!Targets
    <3> QED BY <1>3, <3>1, <3>2
  <2>2. ASSUME NEW k \in family, kid'[k] = "running" PROVE k \in said' \/ broke'
    <3>1. k \notin dying /\ k \in QA!Targets BY <1>0, <1>7, <2>2 DEF QA!Targets, QTyped, BrowserTypes
    <3> QED BY <1>3, <3>1
  <2> QED BY <1>2, <2>1, <2>2 DEF SurvivorsAreSaid
<1>9. Tidies'
  <2>1. family \subseteq Kids BY <1>0 DEF QTyped, BrowserTypes
  <2>2. NobodyOverlooked'
    <3>1. broke => broke' BY <1>1 DEF CleanupFrame
    <3> QED BY <1>2, <1>7, <3>1 DEF Tidies, NobodyOverlooked, QA!Looked
  <2> QED BY <1>2, <1>5, <1>7, <1>8, <2>1, <2>2 DEF Tidies, QA!Looked, QA!None, QA!Live
<1> QED BY <1>1, <1>2, <1>0, <1>4, <1>6, <1>9, CleanupKeeps DEF QTyped, BrowserTypes

LEMMA RemoveStep == ASSUME QInv, QA!RemoveProfile PROVE QInv'
<1> USE DEF QInv
<1>0. QTyped OBVIOUS
<1>1. CleanupFrame BY CleanupFrames
<1>2. stage = "remove" /\ stage' = "done"
      /\ UNCHANGED <<browser, kid, known, family, said, broke, ended, unread, young>>
  BY DEF QA!RemoveProfile, QA!looks, QA!report
<1>3. Tidies' BY <1>2 DEF Tidies, NobodyOverlooked, SurvivorsAreSaid, QA!Looked, QA!Live
<1> QED BY <1>0, <1>1, <1>2, <1>3, CleanupKeeps DEF QTyped, BrowserTypes

LEMMA PageSteps == ASSUME QInv, QA!PageReports \/ QA!PageLeaves \/ QA!Redirected PROVE QInv'
<1> USE DEF QInv
<1>0. QTyped /\ stage \notin QA!Closing
  BY DEF QA!PageReports, QA!PageLeaves, QA!Redirected, QA!Closing
<1>1. UNCHANGED <<browser, kid, known, family, said, broke, profile, ended, unread, young, stage, defects,
                  pressed, late, told, found, opened, result>>
      /\ (left' = left \/ left' = TRUE) /\ tab' \in {tab, "page", "blank", "error"}
      /\ (counted' = counted \/ (counted < MaxErrors /\ counted' = counted + 1))
      /\ FaultsMove
  BY DEF QA!PageReports, QA!PageLeaves, QA!Redirected, QA!browser, QA!report, QA!looks,
     QA!caller, QA!Fault, FaultsMove
<1>2. left' \in BOOLEAN
  <2>1. left \in BOOLEAN BY <1>0 DEF QTyped, MarkTypes
  <2> QED BY <1>1, <2>1
<1>3. PageTypes' BY <1>0, <1>1, CheckAssumption DEF QTyped, PageTypes
<1>4. MarkTypes' BY <1>0, <1>1, <1>2 DEF QTyped, MarkTypes
<1>5. BrowserTypes' /\ VerdictTypes'
  BY <1>0, <1>1, CountsFaults DEF QTyped, BrowserTypes, VerdictTypes
<1>6. Decides' BY <1>0, <1>1 DEF Decides, QA!VerdictIsEarned, QA!None
<1>7. Tidies' BY <1>1 DEF Tidies, NobodyOverlooked, SurvivorsAreSaid, QA!Looked, QA!Live
<1> QED BY <1>3, <1>4, <1>5, <1>6, <1>7 DEF QTyped

LEMMA BrowserSteps == ASSUME QInv, QA!BrowserEnds \/ (\E k \in Kids : QA!BrowserStarts(k)) PROVE QInv'
<1> USE DEF QInv
<1>0. QTyped OBVIOUS
<1>1. UNCHANGED <<known, family, said, broke, profile, unread, stage, tab, defects, counted, left, pressed,
                  late, told, found, opened, result>>
      /\ FaultsMove
  BY DEF QA!BrowserEnds, QA!BrowserStarts, QA!report, QA!page, QA!caller, QA!Fine,
     QA!Fault, FaultsMove
<1>2. \/ browser = "running" /\ browser' = "dead" /\ ended' = (ended \/ ~QA!Looked) /\ UNCHANGED <<kid, young>>
      \/ /\ browser = "dead" /\ UNCHANGED <<browser, ended, young>>
         /\ \E k \in Kids : kid' = [kid EXCEPT ![k] = "dead"] /\ kid[k] = "running"
      \/ /\ browser = "running" /\ UNCHANGED <<browser, ended>>
         /\ \E k \in Kids : /\ kid' = [kid EXCEPT ![k] = "running"] /\ kid[k] = "unborn"
                            /\ young' = IF QA!Looked THEN young \cup {k} ELSE young
  BY DEF QA!BrowserEnds, QA!BrowserStarts, QA!Live
<1>3. ended' \in BOOLEAN
  <2>1. ended \in BOOLEAN BY <1>0 DEF QTyped, MarkTypes
  <2> QED BY <1>2, <2>1
<1>4. BrowserTypes' BY <1>0, <1>1, <1>2 DEF QTyped, BrowserTypes
<1>5. MarkTypes' BY <1>0, <1>1, <1>3 DEF QTyped, MarkTypes
<1>6. PageTypes' /\ VerdictTypes' BY <1>0, <1>1, CountsFaults DEF QTyped, PageTypes, VerdictTypes
<1>7. Decides' BY <1>1, <1>2 DEF Decides, QA!VerdictIsEarned, QA!None
<1>8. Tidies'
  <2>0. QA!Looked' <=> QA!Looked BY <1>1 DEF QA!Looked
  <2>1. CASE browser = "running" /\ browser' = "dead" /\ ended' = (ended \/ ~QA!Looked) /\ UNCHANGED <<kid, young>>
    BY <1>0, <1>1, <2>0, <2>1 DEF Tidies, NobodyOverlooked, SurvivorsAreSaid, QA!Live, QA!None
  <2>2. ASSUME browser = "dead", UNCHANGED <<browser, ended, young>>, NEW k \in Kids,
               kid' = [kid EXCEPT ![k] = "dead"], kid[k] = "running"
        PROVE  Tidies'
    <3>1. \A j \in Kids : (kid'[j] = "running" => kid[j] = "running") /\ (kid'[j] = "unborn" => kid[j] = "unborn")
      BY <1>0, <2>2 DEF QTyped, BrowserTypes
    <3> QED BY <1>0, <1>1, <2>0, <2>2, <3>1 DEF Tidies, NobodyOverlooked, SurvivorsAreSaid, QA!Live, QA!None,
      QTyped, BrowserTypes
  <2>3. ASSUME browser = "running", UNCHANGED <<browser, ended>>, NEW k \in Kids,
               kid' = [kid EXCEPT ![k] = "running"], kid[k] = "unborn",
               young' = IF QA!Looked THEN young \cup {k} ELSE young
        PROVE  Tidies'
    <3>1. k \notin family BY <2>3 DEF Tidies
    <3>2. \A j \in Kids : j # k => kid'[j] = kid[j] BY <1>0, <2>3 DEF QTyped, BrowserTypes
    <3>3. NobodyOverlooked' BY <1>1, <2>0, <2>3, <3>2 DEF Tidies, NobodyOverlooked
    <3>4. SurvivorsAreSaid' /\ \A j \in family' : kid'[j] # "unborn"
      BY <1>0, <1>1, <2>3, <3>1, <3>2 DEF Tidies, SurvivorsAreSaid, QA!Live, QTyped, BrowserTypes
    <3> QED BY <1>1, <2>0, <2>3, <3>3, <3>4 DEF Tidies, QA!None
  <2> QED BY <1>2, <2>1, <2>2, <2>3
<1> QED BY <1>4, <1>5, <1>6, <1>7, <1>8 DEF QTyped

LEMMA CallerSteps == ASSUME QInv, QA!Cancel \/ QA!BudgetEnds \/ QA!JoinEnds PROVE QInv'
<1> USE DEF QInv
<1>0. QTyped OBVIOUS
<1>1. UNCHANGED <<browser, kid, known, family, said, broke, profile, ended, unread, young, stage, tab, defects,
                  counted, left, found, opened, result>>
      /\ FaultsMove /\ told' \in {told, "timed_out"}
  BY DEF QA!Cancel, QA!BudgetEnds, QA!JoinEnds, QA!browser, QA!report, QA!looks, QA!page,
     QA!Fault, FaultsMove
<1>10. (pressed' = pressed \/ pressed' = TRUE) /\ (late' = late \/ late' = TRUE)
  BY DEF QA!Cancel, QA!BudgetEnds, QA!JoinEnds
<1>2. pressed' \in BOOLEAN /\ late' \in BOOLEAN
  <2>1. pressed \in BOOLEAN /\ late \in BOOLEAN BY <1>0 DEF QTyped, MarkTypes
  <2> QED BY <1>10, <2>1
<1>3. QTyped' BY <1>0, <1>1, <1>2, CountsFaults DEF QTyped, BrowserTypes, PageTypes, MarkTypes,
  VerdictTypes, QA!QaState
<1>4. Decides' BY <1>1, <1>10 DEF Decides, QA!VerdictIsEarned
<1>5. Tidies' BY <1>1 DEF Tidies, NobodyOverlooked, SurvivorsAreSaid, QA!Looked, QA!Live
<1> QED BY <1>3, <1>4, <1>5

LEMMA CheckInit == CheckAssumption /\ QA!Init => QInv
<1> SUFFICES ASSUME CheckAssumption, QA!Init PROVE QInv OBVIOUS
<1>1. found \in Counts /\ found["errors"] = QA!Unknown BY DEF QA!Init, Counts,
  QA!Unknown, CheckAssumption
<1>2. MarkTypes
  <2>1. /\ profile = FALSE /\ left = FALSE /\ pressed = FALSE /\ late = FALSE /\ opened = FALSE /\ ended = FALSE
        /\ known = FALSE /\ broke = FALSE /\ unread = FALSE
    BY DEF QA!Init
  <2> QED BY <2>1 DEF MarkTypes
<1>3. QTyped
  BY <1>1, <1>2, Order DEF QA!Init, QTyped, BrowserTypes, PageTypes, VerdictTypes,
     CheckAssumption, QA!None
<1>4. Decides /\ Tidies BY <1>1 DEF QA!Init, Decides, Tidies, QA!VerdictIsEarned, QA!Looked,
  NobodyOverlooked, SurvivorsAreSaid, QA!None
<1> QED BY <1>3, <1>4 DEF QInv

LEMMA CheckNext == QInv /\ [QA!Next]_(QA!vars) => QInv'
<1> SUFFICES ASSUME QInv, [QA!Next]_(QA!vars) PROVE QInv' OBVIOUS
<1>1. CASE QA!Steps
  BY <1>1, VerifyStage, LaunchStage, MiddleSteps, CountStep, CaptureStep, ExpandStep, ResolveStep,
     KillStep, RemoveStep DEF QA!Steps
<1>2. CASE UNCHANGED QA!vars
  BY <1>2 DEF QA!vars, QInv, QTyped, BrowserTypes, PageTypes, MarkTypes, VerdictTypes,
     Decides, Tidies, NobodyOverlooked, SurvivorsAreSaid, QA!Looked, QA!Live, QA!VerdictIsEarned
<1> QED BY <1>1, <1>2, PageSteps, BrowserSteps, CallerSteps DEF QA!Next

\* The inductive invariant of the browser check: nothing is decided before the clean-up,
\* what was counted is not counted again, the clean-up knows whom the last look showed,
\* and once it has dealt with them the report has those that still run (browser_qa.py).
THEOREM CheckBookkeeping == QA!Spec => []QInv
<1>1. QA!Init => QInv BY CheckInit, CheckAssumption
<1> QED BY <1>1, CheckNext, PTL DEF QA!Spec

\* Every variable of the browser check keeps its type, for any number of child processes,
\* errors and faults (browser_qa.py).
THEOREM CheckTypesHold == QA!Spec => []QA!TypeOK
<1>1. QInv => QA!TypeOK
  BY DEF QInv, QTyped, BrowserTypes, PageTypes, MarkTypes, VerdictTypes, Counts, QA!TypeOK
<1> QED BY <1>1, CheckBookkeeping, PTL

\* A check says only what happened, for any number of the browser's processes, of the
\* page's errors and of things that go wrong; and whoever still runs when it is over is in
\* its cleanup report, or was never shown to it, whatever goes wrong in the clean-up
\* itself (browser_qa.py, process_tree.py).
THEOREM CheckStaysHonest == QA!Spec => []CheckIsHonest
<1>1. QInv => QA!VerdictIsEarned BY DEF QInv, Decides
<1>2. ASSUME QInv, stage = "done"
      PROVE  /\ QA!Live /\ known => QA!Root \in said \/ broke
             /\ \A k \in Kids : kid[k] = "running" =>
                  \/ k \in said \/ broke
                  \/ k \notin family /\ (ended \/ unread \/ k \in young)
  <2>1. QA!Looked BY <1>2 DEF QA!Looked
  <2> QED BY <1>2, <2>1 DEF QInv, Tidies, NobodyOverlooked, SurvivorsAreSaid
<1>3. QInv => QA!LeftoversAreReported BY <1>2 DEF QA!LeftoversAreReported
<1>4. QInv => CheckIsHonest BY <1>1, <1>3 DEF CheckIsHonest, QA!CheckIsHonest
<1> QED BY <1>4, CheckBookkeeping, PTL

-----------------------------------------------------------------------------
(* The changes, the preview and the browser check together. *)

\* What the run of a task's work checks on a small instance, for every value of the
\* constants and every behaviour of it.
THEOREM TheTaskWorkIsHonest ==
  WorkSpec =>
    []UndoGivesBack /\ ExportIsReviewed /\ []PreviewIsAccountedFor /\ []CheckIsHonest
<1>1. WorkInit => Work!Init /\ Pre!Init /\ QA!Init
  BY DEF WorkInit
<1>2. [WorkNext]_<<workPart, changeVars, previewVars, qaVars>> =>
        [Work!Next]_(Work!vars) /\ [Pre!Next]_(Pre!vars) /\ [QA!Next]_(QA!vars)
  <2>1. UNCHANGED previewVars => UNCHANGED Pre!vars BY DEF previewVars, Pre!vars
  <2>2. UNCHANGED qaVars => UNCHANGED QA!vars BY DEF qaVars, QA!vars
  <2>3. UNCHANGED changeVars => UNCHANGED Work!vars BY DEF changeVars, Work!vars
  <2> QED BY <2>1, <2>2, <2>3 DEF WorkNext
<1>3. WorkSpec => Work!Spec /\ Pre!Spec /\ QA!Spec
  BY <1>1, <1>2, PTL DEF WorkSpec, Work!Spec, Pre!Spec, QA!Spec
<1> QED BY <1>3, UndoGivesAllBack, ArchivesAreReviewed, PreviewIsWatched, CheckStaysHonest, PTL
=============================================================================
