------------------------------ MODULE MCStartup ------------------------------
(* The program around its server, on a small instance: the launcher with its    *)
(* children (Launcher), and what JARVIS keeps on the machine from the first     *)
(* start to the removal (DataDirectory), in which a start is one step.  They    *)
(* share no variable, so a behaviour here is a behaviour of one of them while   *)
(* the other stays at its start: `part` says which.                             *)
EXTENDS Launcher, TLC

CONSTANTS Servers, Keys, Rows, MaxBreaks, MaxStarts

VARIABLES
  part,
  legacy, db, decided, tmp, backup, folder, at, opened, keys, shortcut, un, purge, todo,
  failed, report, ok, evidence, breaks, starts, written, saved, ran

dataVars == <<legacy, db, decided, tmp, backup, folder, at, opened, keys, shortcut, un,
              purge, todo, failed, report, ok, evidence, breaks, starts, written, saved, ran>>

Data == INSTANCE DataDirectory WITH
          marker <- decided, pc <- at, faults <- breaks, MaxFaults <- MaxBreaks

ASSUME DataAssumption ==
  MaxBreaks \in Nat /\ MaxStarts \in Nat /\ Data!Old \notin Rows

StartupInit ==
  /\ part \in {"launcher", "data"} /\ Init /\ Data!Init
  /\ part = "launcher" => legacy = "none" /\ ~folder

StartupNext ==
  /\ UNCHANGED part
  /\ \/ part = "launcher" /\ Next /\ UNCHANGED dataVars
     \/ part = "data" /\ Data!Next /\ UNCHANGED vars

StartupSpec == StartupInit /\ [][StartupNext]_<<part, vars, dataVars>>

\* What the user has is kept over an import of a v0.1 database, and what is served is
\* whole; a removal that says it is complete was, and one that was not left its evidence.
DataIsKept == Data!DatabaseIsKept /\ Data!RemovalIsHonest
=============================================================================
