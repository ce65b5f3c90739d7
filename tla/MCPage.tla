-------------------------------- MODULE MCPage --------------------------------
(* What the dashboard page shows while the server works, on a small instance:   *)
(* the chat (Chat) and the line that says what JARVIS is doing (EventStream).   *)
(* They share no variable, so a behaviour here is a behaviour of one of them    *)
(* while the other stays at its start: `part` says which, and the fairness of   *)
(* each holds where it is the one that runs.                                    *)
EXTENDS Chat

CONSTANTS
  Targets, NoState, MaxLog, MaxEvents, MaxLosses, MaxRestarts

VARIABLES
  part,
  rt, log, nextSeq, pub, conn, wire, gets, page, raced, spent

eventVars == <<rt, log, nextSeq, pub, conn, wire, gets, page, raced, spent>>
pageVars  == <<part, vars, eventVars>>

Events == INSTANCE EventStream

ASSUME StatesAssumption ==
  Targets \subseteq Events!RuntimeStates /\ NoState \notin Events!RuntimeStates
ASSUME EventBounds ==
  MaxLog \in Nat \ {0} /\ {MaxEvents, MaxLosses, MaxRestarts} \subseteq Nat

PageInit ==
  /\ part \in {"chat", "events"} /\ Init /\ Events!Init

PageNext ==
  /\ UNCHANGED part
  /\ \/ part = "chat" /\ Next /\ UNCHANGED eventVars
     \/ part = "events" /\ Events!Next /\ UNCHANGED vars

\* The fairness of Chat!Spec and of EventStream!FairSpec.
ChatFairness == \A r \in Turns : WF_vars(part = "chat" /\ Runs(r))

EventFairness ==
  /\ WF_eventVars(part = "events" /\ Events!Connection)
  /\ WF_eventVars(part = "events" /\ Events!PageTurns)

PageSpec == PageInit /\ [][PageNext]_pageVars /\ ChatFairness /\ EventFairness

\* The state line is current or says that it is not, and what is on its way to the page
\* is what it missed, as far as the order in which threads publish allows.
StreamIsHonest == Events!StreamIsHonest

\* A page that lost its stream shows a state again.
DropsHeal == Events!DropsHeal
=============================================================================
