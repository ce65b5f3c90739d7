--------------------------- MODULE LauncherProofs ---------------------------
(***************************************************************************)
(* Proofs about the program around its server.  For any number of          *)
(* launches, children, windows, clicks and faults: that no launch lets go  *)
(* of a server child that runs, that readiness is only said of what was    *)
(* proved for that very child, and that a window that took the quit        *)
(* command leaves no helper behind.  For any credentials, rows, faults and *)
(* starts: that a removal says it is complete only when it was, and that   *)
(* what the user has is kept over the import of a v0.1 database.           *)
(***************************************************************************)
EXTENDS MCStartup, SequenceTheorems, TLAPS

-----------------------------------------------------------------------------
(* The inductive invariant, part by part *)

(* What a launch holds: the server child it spawned last, and of whose     *)
(* readiness it recorded nothing that was not proved for that child.       *)
ServerOf(l) ==
  /\ server[l] # 0 => srv[server[l]].own = l /\ srv[server[l]].page \subseteq shown[l]
  /\ Main(l) \in {"start", "stale", "probe", "acquire", "serve", "unlock", "left", "exited"}
       => server[l] = 0
  /\ Main(l) \in {"health", "ending", "portwait"} => server[l] # 0
  /\ Main(l) = "portwait" => srv[server[l]].st \in {"stuck", "gone"}
  /\ Main(l) \notin {"health", "crashed"} => facts[l] \subseteq shown[l]

(* A child that runs is held by the launch that spawned it, or outlived it. *)
RunsOf(i) ==
  srv[i].st \in {"starting", "serving"} =>
    server[srv[i].own] = i \/ Main(srv[i].own) = "crashed"

ServerInv ==
  /\ \A l \in Parents : ServerOf(l)
  /\ \A i \in DOMAIN srv : RunsOf(i)

(* A thread has a window object in hand exactly while it opens or stops    *)
(* it, and that object is its own launch's.                                *)
Handling == {"spawn", "accept", "await", "stopping"}

ThreadOf(l, t) ==
  /\ obj[<<l, t>>] # 0 <=> pc[<<l, t>>] \in Handling
  /\ obj[<<l, t>>] # 0 => win[obj[<<l, t>>]].own = l

(* The attention thread runs only beside a main thread that has finished   *)
(* its launch and has not ended.                                           *)
LaunchOf(l) ==
  /\ window[l] # 0 => win[window[l]].own = l
  /\ Main(l) \in {"start", "stale", "probe"} \cup EndPlaces => pc[<<l, "attention">>] = "off"
  /\ why[l] = "launch" => pc[<<l, "attention">>] = "off"
  /\ Main(l) = "opened" => why[l] = "launch"

(* What is known of a window's helper process once somebody has begun to   *)
(* stop the window.                                                        *)
WindowOf(w) ==
  /\ win[w].chan = "closed" => win[w].st \notin {"running", "ready"} /\ win[w].helper # "seen"
  /\ win[w].st = "stuck" => win[w].chan = "closed" /\ win[w].helper \notin {"unseen", "late"}
  /\ win[w].asked => \/ BeingStopped(w) \/ win[w].chan = "closed"
                     \/ Main(win[w].own) \in EndPlaces
  /\ win[w].asked /\ win[w].helper = "unseen" =>
       win[w].chan # "closed" /\ Main(win[w].own) \in EndPlaces
  /\ win[w].helper # "harmed"

ThreadInv == \A l \in Parents : LaunchOf(l) /\ \A t \in Threads : ThreadOf(l, t)
WindowInv == \A w \in DOMAIN win : WindowOf(w)

LInv == TypeOK /\ ServerInv /\ ThreadInv /\ WindowInv

-----------------------------------------------------------------------------
(* Types *)

PlaceTypes ==
  /\ lock \in Parents \cup {None} /\ marker \in BOOLEAN
  /\ pc \in [Parents \X Threads -> Places]
  /\ why \in [Parents -> Purposes]
  /\ clicks \in 0..MaxClicks /\ faults \in 0..MaxFaults /\ helpers \in 0..MaxHelpers

ServerTypes ==
  /\ srv \in Seq(Server) /\ Len(srv) <= MaxServers
  /\ port \in 0..Len(srv)
  /\ server \in [Parents -> 0..Len(srv)]
  /\ facts \in [Parents -> SUBSET Facts] /\ shown \in [Parents -> SUBSET Facts]

WindowTypes ==
  /\ win \in Seq(Window) /\ Len(win) <= MaxWindows
  /\ obj \in [Parents \X Threads -> 0..Len(win)]
  /\ after \in [Parents \X Threads -> {"new", "back", "down"}]
  /\ window \in [Parents -> 0..Len(win)]

(* The types are those of three groups of variables.                       *)
LEMMA TypesAre == TypeOK <=> PlaceTypes /\ ServerTypes /\ WindowTypes
BY DEF TypeOK, PlaceTypes, ServerTypes, WindowTypes

(* The server children are numbered from 1, and each has an owner.         *)
LEMMA ServerFacts ==
  ASSUME ServerTypes
  PROVE  /\ Len(srv) \in Nat /\ DOMAIN srv = 1..Len(srv)
         /\ \A i \in DOMAIN srv :
              /\ srv[i] \in Server /\ srv[i].own \in Parents
              /\ srv[i].st \in ServerStates /\ srv[i].page \subseteq Facts
         /\ \A l \in Parents : server[l] # 0 => server[l] \in DOMAIN srv
         /\ port # 0 => port \in DOMAIN srv
<1>1. srv \in Seq(Server)
  BY DEF ServerTypes
<1>2. Len(srv) \in Nat /\ DOMAIN srv = 1..Len(srv)
  BY <1>1, LenProperties
<1>3. \A i \in DOMAIN srv : srv[i] \in Server
  BY <1>1, <1>2, ElementOfSeq
<1>4. \A l \in Parents : server[l] \in 0..Len(srv)
  BY DEF ServerTypes
<1>5. port \in 0..Len(srv)
  BY DEF ServerTypes
<1> QED BY <1>2, <1>3, <1>4, <1>5 DEF Server

(* The window objects are numbered from 1, and each has an owner.          *)
LEMMA Windows ==
  ASSUME WindowTypes
  PROVE  /\ Len(win) \in Nat /\ DOMAIN win = 1..Len(win)
         /\ \A w \in DOMAIN win :
              /\ win[w] \in Window /\ win[w].own \in Parents
              /\ win[w].st \in WindowStates /\ win[w].chan \in Channels
              /\ win[w].helper \in HelperStates
         /\ \A l \in Parents : window[l] # 0 => window[l] \in DOMAIN win
         /\ \A q \in Parents \X Threads : obj[q] # 0 => obj[q] \in DOMAIN win
<1>1. win \in Seq(Window)
  BY DEF WindowTypes
<1>2. Len(win) \in Nat /\ DOMAIN win = 1..Len(win)
  BY <1>1, LenProperties
<1>3. \A w \in DOMAIN win : win[w] \in Window
  BY <1>1, <1>2, ElementOfSeq
<1>4. \A l \in Parents : window[l] \in 0..Len(win)
  BY DEF WindowTypes
<1>5. \A q \in Parents \X Threads : obj[q] \in 0..Len(win)
  BY DEF WindowTypes
<1> QED BY <1>2, <1>3, <1>4, <1>5 DEF Window

(* One entry of a table changes, or one is added at its end.               *)
LEMMA EntryChanged ==
  ASSUME NEW S, NEW s \in Seq(S), NEW i \in DOMAIN s, NEW e \in S
  PROVE  /\ [s EXCEPT ![i] = e] \in Seq(S)
         /\ Len([s EXCEPT ![i] = e]) = Len(s)
         /\ DOMAIN [s EXCEPT ![i] = e] = DOMAIN s
         /\ [s EXCEPT ![i] = e][i] = e
         /\ \A j \in DOMAIN s : j # i => [s EXCEPT ![i] = e][j] = s[j]
<1>1. DOMAIN s = 1..Len(s)
  BY LenProperties
<1> QED BY <1>1, ExceptSeq

(* One entry is added at the end of a table.                               *)
LEMMA EntryAdded ==
  ASSUME NEW S, NEW s \in Seq(S), NEW e \in S
  PROVE  /\ Append(s, e) \in Seq(S)
         /\ Len(s) \in Nat /\ Len(Append(s, e)) = Len(s) + 1
         /\ DOMAIN s = 1..Len(s)
         /\ DOMAIN Append(s, e) = DOMAIN s \cup {Len(s) + 1}
         /\ Len(s) + 1 \notin DOMAIN s
         /\ Append(s, e)[Len(s) + 1] = e
         /\ \A j \in DOMAIN s : Append(s, e)[j] = s[j]
<1>1. /\ Append(s, e) \in Seq(S) /\ Len(s) \in Nat /\ Len(Append(s, e)) = Len(s) + 1
      /\ DOMAIN s = 1..Len(s)
      /\ Append(s, e)[Len(s) + 1] = e
      /\ \A j \in 1..Len(s) : Append(s, e)[j] = s[j]
  BY AppendProperties, LenProperties
<1>2. DOMAIN Append(s, e) = 1..(Len(s) + 1)
  BY <1>1, LenProperties
<1> QED BY <1>1, <1>2

(* A thread goes somewhere, and the others stay.                           *)
LEMMA Goes ==
  ASSUME PlaceTypes, NEW l \in Parents, NEW t \in Threads, NEW place \in Places,
         Go(l, t, place)
  PROVE  /\ pc' \in [Parents \X Threads -> Places]
         /\ pc'[<<l, t>>] = place
         /\ \A k \in Parents, u \in Threads :
              k # l \/ u # t => pc'[<<k, u>>] = pc[<<k, u>>]
         /\ \A k \in Parents : k # l => Main(k)' = Main(k)
         /\ t = "main" => Main(l)' = place
         /\ t # "main" => Main(l)' = Main(l)
<1>1. pc' = [pc EXCEPT ![<<l, t>>] = place] /\ pc \in [Parents \X Threads -> Places]
  BY DEF Go, PlaceTypes
<1>2. <<l, t>> \in Parents \X Threads
  OBVIOUS
<1>3. pc' \in [Parents \X Threads -> Places] /\ pc'[<<l, t>>] = place
  BY <1>1, <1>2
<1>4. \A k \in Parents, u \in Threads : k # l \/ u # t => pc'[<<k, u>>] = pc[<<k, u>>]
  BY <1>1
<1>5. "main" \in Threads
  BY DEF Threads
<1> QED BY <1>3, <1>4, <1>5 DEF Main

-----------------------------------------------------------------------------
(* The start *)

(* No launch has begun.                                                    *)
LEMMA InitLInv == Init => LInv
<1> SUFFICES ASSUME Init PROVE LInv
  OBVIOUS
<1>1. /\ srv = << >> /\ DOMAIN srv = {} /\ Len(srv) = 0 /\ srv \in Seq(Server)
      /\ win = << >> /\ DOMAIN win = {} /\ Len(win) = 0 /\ win \in Seq(Window)
  <2>1. DOMAIN << >> = {} /\ Len(<< >>) = 0
    OBVIOUS
  <2>2. << >> \in Seq(Server) /\ << >> \in Seq(Window)
    OBVIOUS
  <2> QED BY <2>1, <2>2 DEF Init
<1>2. PlaceTypes
  <2>1. pc \in [Parents \X Threads -> Places]
    BY DEF Init, Places, MainPlaces
  <2>2. lock \in Parents \cup {None} /\ marker \in BOOLEAN /\ why \in [Parents -> Purposes]
    BY DEF Init, Purposes
  <2>3. clicks \in 0..MaxClicks /\ faults \in 0..MaxFaults /\ helpers \in 0..MaxHelpers
    BY LauncherAssumption DEF Init
  <2> QED BY <2>1, <2>2, <2>3 DEF PlaceTypes
<1>3. ServerTypes
  BY <1>1, LauncherAssumption DEF Init, ServerTypes
<1>4. WindowTypes
  BY <1>1, LauncherAssumption DEF Init, WindowTypes
<1>5. /\ \A l \in Parents : /\ pc[<<l, "main">>] = "start" /\ why[l] = "launch"
                            /\ pc[<<l, "attention">>] = "off"
      /\ \A l \in Parents, t \in Threads : pc[<<l, t>>] \notin Handling /\ obj[<<l, t>>] = 0
      /\ \A l \in Parents : server[l] = 0 /\ window[l] = 0 /\ facts[l] = {} /\ shown[l] = {}
  BY DEF Init, Threads, Handling
<1>6. ServerInv
  BY <1>1, <1>5 DEF ServerInv, ServerOf, Main
<1>7. ThreadInv
  BY <1>5 DEF ThreadInv, ThreadOf, LaunchOf, Main
<1>8. WindowInv
  BY <1>1 DEF WindowInv
<1> QED BY <1>2, <1>3, <1>4, <1>6, <1>7, <1>8, TypesAre DEF LInv

-----------------------------------------------------------------------------
(* What steps leave alone *)

(* The server children and what their launches know of them stay, and each *)
(* main thread goes where that is allowed.                                 *)
Moves(l) ==
  \/ Main(l)' = Main(l)
  \/ /\ Main(l) # "crashed"
     /\ Main(l) # "health" \/ Main(l)' = "crashed"
     /\ Main(l)' \in {"start", "stale", "probe", "acquire", "serve", "unlock", "left",
                      "exited"} => server[l] = 0
     /\ Main(l)' = "ending" => server[l] # 0
     /\ Main(l)' \notin {"health", "portwait"}

(* A step that only moves main threads so keeps what is known of servers.  *)
LEMMA ServersKept ==
  ASSUME ServerTypes, ServerInv, UNCHANGED <<srv, server, facts, shown>>,
         \A l \in Parents : Moves(l)
  PROVE  ServerInv'
<1>1. ASSUME NEW l \in Parents PROVE ServerOf(l)'
  <2>1. ServerOf(l) /\ Moves(l)
    BY DEF ServerInv
  <2>2. CASE Main(l)' = Main(l)
    BY <2>1, <2>2 DEF ServerOf
  <2>3. CASE Main(l)' # Main(l)
    BY <2>1, <2>3 DEF ServerOf, Moves
  <2> QED BY <2>2, <2>3
<1>2. ASSUME NEW i \in DOMAIN srv PROVE RunsOf(i)'
  <2>1. RunsOf(i) /\ srv[i].own \in Parents
    BY ServerFacts DEF ServerInv
  <2>2. Main(srv[i].own) = "crashed" => Main(srv[i].own)' = "crashed"
    BY <2>1 DEF Moves
  <2> QED BY <2>1, <2>2 DEF RunsOf
<1> QED BY <1>1, <1>2 DEF ServerInv

(* No window is in the hands of another thread than before, and no main    *)
(* thread that has ended comes back.                                       *)
LEMMA WindowsKept ==
  ASSUME PlaceTypes, WindowTypes, ThreadInv, WindowInv, UNCHANGED <<win, window, obj>>,
         \A l \in Parents, t \in Threads :
           \/ pc'[<<l, t>>] = pc[<<l, t>>]
           \/ pc[<<l, t>>] \notin Handling /\ pc'[<<l, t>>] \notin Handling,
         \A l \in Parents :
           /\ Main(l) \in EndPlaces => Main(l)' \in EndPlaces
           /\ Main(l)' \in {"start", "stale", "probe"} \cup EndPlaces
                => pc'[<<l, "attention">>] = "off"
           /\ why'[l] = "launch" => pc'[<<l, "attention">>] = "off"
           /\ Main(l)' = "opened" => why'[l] = "launch"
  PROVE  ThreadInv' /\ WindowInv'
<1>1. ThreadInv'
  <2>1. ASSUME NEW l \in Parents PROVE LaunchOf(l)'
    BY DEF ThreadInv, LaunchOf
  <2>2. ASSUME NEW l \in Parents, NEW t \in Threads PROVE ThreadOf(l, t)'
    <3>1. ThreadOf(l, t)
      BY DEF ThreadInv
    <3> QED BY <3>1 DEF ThreadOf
  <2> QED BY <2>1, <2>2 DEF ThreadInv
<1>2. \A w \in DOMAIN win : BeingStopped(w)' <=> BeingStopped(w)
  <2>1. \A q \in Parents \X Threads : pc'[q] = "stopping" <=> pc[q] = "stopping"
    <3> SUFFICES ASSUME NEW l \in Parents, NEW t \in Threads
                 PROVE  pc'[<<l, t>>] = "stopping" <=> pc[<<l, t>>] = "stopping"
      OBVIOUS
    <3> QED BY DEF Handling
  <2> QED BY <2>1 DEF BeingStopped
<1>3. WindowInv'
  <2> SUFFICES ASSUME NEW w \in DOMAIN win PROVE WindowOf(w)'
    BY DEF WindowInv
  <2>1. WindowOf(w) /\ win[w].own \in Parents
    BY Windows DEF WindowInv
  <2>2. Main(win[w].own) \in EndPlaces => Main(win[w].own)' \in EndPlaces
    BY <2>1
  <2>3. (BeingStopped(w)' <=> BeingStopped(w)) /\ win'[w] = win[w]
    BY <1>2
  <2> QED BY <2>1, <2>2, <2>3 DEF WindowOf
<1> QED BY <1>1, <1>3

(* One main thread moves, and touches no window.                           *)
LEMMA MainMoves ==
  ASSUME PlaceTypes, WindowTypes, ThreadInv, WindowInv, UNCHANGED <<win, window, obj>>,
         NEW l \in Parents, NEW place \in Places \ Handling, Go(l, "main", place),
         Main(l) \notin Handling \cup EndPlaces, place # "opened",
         \A k \in Parents : why'[k] = why[k] \/ (k = l /\ why'[k] # "launch"),
         place \in {"start", "stale", "probe"} \cup EndPlaces =>
           Main(l) \in {"start", "stale", "probe"}
  PROVE  ThreadInv' /\ WindowInv'
<1>1. {"main", "attention"} = Threads
  BY DEF Threads
<1>2. /\ \A k \in Parents, u \in Threads :
           k # l \/ u # "main" => pc'[<<k, u>>] = pc[<<k, u>>]
      /\ \A k \in Parents : k # l => Main(k)' = Main(k)
      /\ Main(l)' = place /\ pc'[<<l, "main">>] = place
  BY <1>1, Goes
<1>3. \A k \in Parents, u \in Threads :
           \/ pc'[<<k, u>>] = pc[<<k, u>>]
           \/ pc[<<k, u>>] \notin Handling /\ pc'[<<k, u>>] \notin Handling
  BY <1>2 DEF Main
<1>4. \A k \in Parents : pc'[<<k, "attention">>] = pc[<<k, "attention">>]
  BY <1>1, <1>2
<1>5. ASSUME NEW k \in Parents
      PROVE  /\ Main(k) \in EndPlaces => Main(k)' \in EndPlaces
             /\ Main(k)' \in {"start", "stale", "probe"} \cup EndPlaces
                  => pc'[<<k, "attention">>] = "off"
             /\ why'[k] = "launch" => pc'[<<k, "attention">>] = "off"
             /\ Main(k)' = "opened" => why'[k] = "launch"
  <2>1. /\ LaunchOf(k) /\ pc'[<<k, "attention">>] = pc[<<k, "attention">>]
        /\ why'[k] = why[k] \/ (k = l /\ why'[k] # "launch")
    BY <1>4 DEF ThreadInv
  <2>2. CASE k = l
    BY <1>2, <2>1, <2>2 DEF LaunchOf
  <2>3. CASE k # l
    <3>1. Main(k)' = Main(k) /\ why'[k] = why[k]
      BY <1>2, <2>1, <2>3
    <3> QED BY <2>1, <3>1 DEF LaunchOf
  <2> QED BY <2>2, <2>3
<1> QED BY <1>3, <1>5, WindowsKept

-----------------------------------------------------------------------------
(* Steps of a main thread that change no child *)

(* A step of one main thread that touches no child keeps the invariant.    *)
LEMMA MainStep ==
  ASSUME LInv, NEW l \in Parents, NEW place \in Places \ Handling, Go(l, "main", place),
         Main(l) \notin Handling \cup EndPlaces, Moves(l),
         place \in {"start", "stale", "probe"} \cup EndPlaces =>
           Main(l) \in {"start", "stale", "probe"},
         lock' \in Parents \cup {None}, marker' \in BOOLEAN,
         why' \in [Parents -> Purposes], clicks' \in 0..MaxClicks, place # "opened",
         \A k \in Parents : why'[k] = why[k] \/ (k = l /\ why'[k] # "launch"),
         UNCHANGED <<srv, port, server, facts, shown, win, window, obj, after, faults,
                     helpers>>
  PROVE  LInv'
<1>1. PlaceTypes /\ ServerTypes /\ WindowTypes /\ ServerInv /\ ThreadInv /\ WindowInv
  BY TypesAre DEF LInv
<1>2. "main" \in Threads
  BY DEF Threads
<1>3. /\ pc' \in [Parents \X Threads -> Places]
      /\ \A k \in Parents : k # l => Main(k)' = Main(k)
  BY <1>1, <1>2, Goes
<1>4. PlaceTypes'
  BY <1>1, <1>3 DEF PlaceTypes
<1>5. ServerTypes' /\ WindowTypes'
  BY <1>1 DEF ServerTypes, WindowTypes
<1>6. TypeOK'
  BY <1>4, <1>5, TypesAre DEF TypeOK, PlaceTypes, ServerTypes, WindowTypes
<1>7. ServerInv'
  <2>1. \A k \in Parents : Moves(k)
    BY <1>3 DEF Moves
  <2> QED BY <1>1, <2>1, ServersKept
<1>8. ThreadInv' /\ WindowInv'
  BY <1>1, MainMoves
<1> QED BY <1>6, <1>7, <1>8 DEF LInv

(* What the main thread's move is, for the conditions of MainStep.         *)
LEMMA MainGoes ==
  ASSUME LInv, NEW l \in Parents, NEW place \in Places, Go(l, "main", place)
  PROVE  Main(l)' = place
<1>1. PlaceTypes /\ "main" \in Threads
  BY TypesAre DEF LInv, Threads
<1> QED BY <1>1, Goes

(* The lock file is read, cleared, or written, and the port is probed.     *)
LEMMA LockSteps ==
  ASSUME LInv, NEW l \in Parents,
         ReadLock(l) \/ ClearStale(l) \/ ProbePort(l) \/ AcquireLock(l)
  PROVE  LInv'
<1>1. /\ UNCHANGED <<srv, port, server, facts, shown, win, window, obj, after, why,
                     clicks, faults, helpers>>
      /\ lock' \in {lock, None, l} /\ marker' \in BOOLEAN
  BY TypesAre
     DEF ReadLock, ClearStale, ProbePort, AcquireLock, session, bounds, shared, LInv,
         PlaceTypes
<1>2. PICK place \in {"left", "stale", "probe", "acquire", "serve"} :
        /\ Go(l, "main", place)
        /\ Main(l) \in {"start", "stale", "probe", "acquire"}
        /\ place \in {"left", "stale", "probe"} => Main(l) \in {"start", "stale", "probe"}
  <2>1. CASE ReadLock(l)
    BY <2>1 DEF ReadLock
  <2>2. CASE ClearStale(l)
    BY <2>2 DEF ClearStale
  <2>3. CASE ProbePort(l)
    BY <2>3 DEF ProbePort
  <2>4. CASE AcquireLock(l)
    BY <2>4 DEF AcquireLock
  <2> QED BY <2>1, <2>2, <2>3, <2>4
<1>3. place \in Places \ Handling /\ Main(l) \notin Handling \cup EndPlaces
  BY <1>2 DEF Places, MainPlaces, EndPlaces, Handling
<1>4. Main(l)' = place
  BY <1>2, <1>3, MainGoes
<1>5. server[l] = 0
  BY <1>2 DEF LInv, ServerInv, ServerOf
<1>6. Moves(l)
  BY <1>2, <1>4, <1>5 DEF Moves
<1>7. /\ lock \in Parents \cup {None} /\ why \in [Parents -> Purposes]
      /\ clicks \in 0..MaxClicks
  BY TypesAre DEF LInv, PlaceTypes
<1>8. place \in {"start", "stale", "probe"} \cup EndPlaces =>
        Main(l) \in {"start", "stale", "probe"}
  BY <1>2 DEF EndPlaces
<1>9. place # "opened" /\ \A k \in Parents : why'[k] = why[k]
  BY <1>1, <1>2
<1> QED BY <1>1, <1>2, <1>3, <1>6, <1>7, <1>8, <1>9, MainStep

(* There is nothing to stop, or terminate() is called; or the tray menu    *)
(* asks for the window.                                                    *)
LEMMA AskSteps ==
  ASSUME LInv, NEW l \in Parents, AskServer(l) \/ ClickOpen(l)
  PROVE  LInv'
<1>1. /\ UNCHANGED <<srv, port, server, facts, shown, win, window, obj, after, lock,
                     marker, faults, helpers>>
      /\ lock \in Parents \cup {None} /\ marker \in BOOLEAN
  BY TypesAre DEF AskServer, ClickOpen, session, bounds, shared, LInv, PlaceTypes
<1>2. /\ why' \in [Parents -> Purposes] /\ clicks' \in 0..MaxClicks
      /\ \A k \in Parents : why'[k] = why[k] \/ (k = l /\ why'[k] # "launch")
  <2>1. why \in [Parents -> Purposes] /\ clicks \in 0..MaxClicks
    BY TypesAre DEF LInv, PlaceTypes
  <2>2. "open" \in Purposes
    BY DEF Purposes
  <2>3. why' = why \/ why' = [why EXCEPT ![l] = "open"]
    BY DEF AskServer, ClickOpen
  <2>4. clicks' = clicks \/ (clicks < MaxClicks /\ clicks' = clicks + 1)
    <3>1. CASE AskServer(l)
      BY <3>1 DEF AskServer, bounds, shared, session
    <3>2. CASE ClickOpen(l)
      BY <3>2 DEF ClickOpen
    <3> QED BY <3>1, <3>2
  <2> QED BY <2>1, <2>2, <2>3, <2>4, LauncherAssumption
<1>3. PICK place \in {"serve", "unlock", "ending", "look"} :
        /\ Go(l, "main", place)
        /\ Main(l) \in {"down", "tray"}
        /\ place \in {"serve", "unlock"} => server[l] = 0
        /\ place = "ending" => server[l] # 0
  <2>1. CASE AskServer(l)
    BY <2>1 DEF AskServer
  <2>2. CASE ClickOpen(l)
    BY <2>2 DEF ClickOpen
  <2> QED BY <2>1, <2>2
<1>4. place \in Places \ Handling /\ Main(l) \notin Handling \cup EndPlaces
  BY <1>3 DEF Places, MainPlaces, WindowPlaces, EndPlaces, Handling
<1>5. Main(l)' = place
  BY <1>3, <1>4, MainGoes
<1>6. Moves(l)
  BY <1>3, <1>5 DEF Moves
<1>7. place \notin {"start", "stale", "probe"} \cup EndPlaces
  BY <1>3 DEF EndPlaces
<1>8. place # "opened"
  BY <1>3
<1> QED BY <1>1, <1>2, <1>3, <1>4, <1>6, <1>7, <1>8, MainStep

-----------------------------------------------------------------------------
(* Steps that change a server child *)

(* What remains of the invariant is the other half's.                      *)
LEMMA ServerStepDone ==
  ASSUME LInv, PlaceTypes', ServerTypes', ServerInv', ThreadInv', WindowInv',
         UNCHANGED <<win, window, obj, after>>
  PROVE  LInv'
<1>1. WindowTypes'
  BY TypesAre DEF LInv, WindowTypes
<1> QED BY <1>1 DEF LInv, TypeOK, PlaceTypes, ServerTypes, WindowTypes

(* A new child of this launch, and nothing is proved for it yet.           *)
LEMMA SpawnServerStep ==
  ASSUME LInv, NEW l \in Parents, SpawnServer(l)
  PROVE  LInv'
<1> DEFINE e == [own |-> l, st |-> "starting", page |-> {}]
           n == Len(srv) + 1
<1>1. /\ Main(l) = "serve" /\ Len(srv) < MaxServers /\ srv' = Append(srv, e)
      /\ server' = [server EXCEPT ![l] = n] /\ shown' = [shown EXCEPT ![l] = {}]
      /\ Go(l, "main", "health")
      /\ UNCHANGED <<lock, marker, port, win, why, obj, after, window, facts, clicks,
                     faults, helpers>>
  BY DEF SpawnServer, shared, bounds
<1>2. PlaceTypes /\ ServerTypes /\ WindowTypes /\ ServerInv /\ ThreadInv /\ WindowInv
  BY TypesAre DEF LInv
<1>3. "main" \in Threads /\ "health" \in Places \ Handling
      /\ "health" \notin {"start", "stale", "probe"} \cup EndPlaces
      /\ Main(l) \notin Handling \cup EndPlaces
  BY <1>1 DEF Threads, Places, MainPlaces, Handling, EndPlaces
<1>4. /\ pc' \in [Parents \X Threads -> Places]
      /\ \A k \in Parents : k # l => Main(k)' = Main(k)
      /\ Main(l)' = "health"
  BY <1>1, <1>2, <1>3, Goes
<1>5. PlaceTypes'
  BY <1>1, <1>2, <1>4 DEF PlaceTypes
<1>6. ThreadInv' /\ WindowInv'
  BY <1>1, <1>2, <1>3, MainMoves
<1>7. e \in Server
  BY DEF Server, ServerStates
<1>8. /\ srv' \in Seq(Server) /\ Len(srv) \in Nat /\ Len(srv') = n
      /\ DOMAIN srv = 1..Len(srv) /\ DOMAIN srv' = DOMAIN srv \cup {n}
      /\ n \notin DOMAIN srv
      /\ srv'[n] = e /\ \A j \in DOMAIN srv : srv'[j] = srv[j]
  BY <1>1, <1>2, <1>7, EntryAdded DEF ServerTypes
<1>9. /\ server' \in [Parents -> 0..Len(srv')] /\ server'[l] = n /\ shown'[l] = {}
      /\ \A k \in Parents : k # l => server'[k] = server[k] /\ shown'[k] = shown[k]
      /\ shown' \in [Parents -> SUBSET Facts]
  BY <1>1, <1>2, <1>8 DEF ServerTypes
<1>10. ServerTypes'
  BY <1>1, <1>2, <1>8, <1>9, LauncherAssumption DEF ServerTypes
<1>11. ServerInv'
  <2>1. ASSUME NEW k \in Parents, k # l PROVE ServerOf(k)'
    <3>1. ServerOf(k) /\ (server[k] # 0 => server[k] \in DOMAIN srv)
      BY <1>2, ServerFacts DEF ServerInv
    <3> QED BY <1>1, <1>4, <1>8, <1>9, <2>1, <3>1 DEF ServerOf
  <2>2. ServerOf(l)'
    <3>1. srv'[server'[l]] = e /\ server'[l] # 0
      BY <1>8, <1>9
    <3> QED BY <1>4, <1>9, <3>1 DEF ServerOf
  <2>3. ASSUME NEW i \in DOMAIN srv PROVE RunsOf(i)'
    <3>1. RunsOf(i) /\ srv[i].own \in Parents
      BY <1>2, ServerFacts DEF ServerInv
    <3>2. server[l] = 0
      BY <1>1, <1>2 DEF ServerInv, ServerOf
    <3>3. i # 0
      BY <1>8
    <3> QED BY <1>1, <1>4, <1>8, <1>9, <3>1, <3>2, <3>3 DEF RunsOf
  <2>4. ASSUME NEW i, i = n PROVE RunsOf(i)'
    BY <1>8, <1>9, <2>4 DEF RunsOf
  <2> QED BY <1>8, <2>1, <2>2, <2>3, <2>4 DEF ServerInv
<1> QED BY <1>1, <1>5, <1>6, <1>10, <1>11, ServerStepDone

-----------------------------------------------------------------------------
(* What a launch publishes of its server child *)

(* A publication reaches the publisher's own child or nobody.              *)
LEMMA PublishedServers ==
  ASSUME ServerTypes, NEW l \in Parents, NEW F \in SUBSET Facts, srv' = Published(l, F)
  PROVE  /\ srv' \in Seq(Server) /\ Len(srv') = Len(srv) /\ DOMAIN srv' = DOMAIN srv
         /\ \A i \in DOMAIN srv :
              /\ srv'[i].own = srv[i].own /\ srv'[i].st = srv[i].st
              /\ srv'[i].page = srv[i].page \/ (i = server[l] /\ srv'[i].page = F)
<1>1. CASE Answers /\ port = server[l]
  <2>1. port \in DOMAIN srv /\ srv[port] \in Server
    BY <1>1, ServerFacts DEF Answers
  <2>2. srv' = [srv EXCEPT ![port] = [srv[port] EXCEPT !.page = F]]
    BY <1>1 DEF Published
  <2>3. [srv[port] EXCEPT !.page = F] \in Server
    BY <2>1 DEF Server
  <2>4. srv \in Seq(Server)
    BY DEF ServerTypes
  <2>5. /\ srv' \in Seq(Server) /\ Len(srv') = Len(srv) /\ DOMAIN srv' = DOMAIN srv
        /\ srv'[port] = [srv[port] EXCEPT !.page = F]
        /\ \A j \in DOMAIN srv : j # port => srv'[j] = srv[j]
    BY <2>1, <2>2, <2>3, <2>4, EntryChanged
  <2>6. /\ srv'[port].own = srv[port].own /\ srv'[port].st = srv[port].st
        /\ srv'[port].page = F
    BY <2>1, <2>5 DEF Server
  <2>7. ASSUME NEW i \in DOMAIN srv
        PROVE  /\ srv'[i].own = srv[i].own /\ srv'[i].st = srv[i].st
               /\ srv'[i].page = srv[i].page \/ (i = server[l] /\ srv'[i].page = F)
    <3>1. CASE i = port
      BY <1>1, <2>6, <3>1
    <3>2. CASE i # port
      BY <2>5, <3>2
    <3> QED BY <3>1, <3>2
  <2> QED BY <2>5, <2>7
<1>2. CASE ~(Answers /\ port = server[l])
  <2>1. srv' = srv
    BY <1>2 DEF Published
  <2>2. srv \in Seq(Server)
    BY DEF ServerTypes
  <2>3. \A i \in DOMAIN srv : /\ srv'[i].own = srv[i].own /\ srv'[i].st = srv[i].st
                              /\ srv'[i].page = srv[i].page
    BY <2>1
  <2> QED BY <2>1, <2>2, <2>3
<1> QED BY <1>1, <1>2

(* Nothing is published or kept but what was proved for this child.        *)
LEMMA PublishKeeps ==
  ASSUME ServerTypes, ServerInv, NEW l \in Parents, NEW F \in SUBSET Facts,
         srv' = Published(l, F), server' = server, port' = port,
         facts' \in [Parents -> SUBSET Facts], shown' \in [Parents -> SUBSET Facts],
         \A k \in Parents \ {l} : facts'[k] = facts[k] /\ shown'[k] = shown[k],
         facts'[l] \subseteq shown'[l], shown[l] \subseteq shown'[l], F \subseteq shown'[l],
         \A k \in Parents \ {l} : Main(k)' = Main(k),
         Main(l) # "crashed",
         Main(l)' \notin {"start", "stale", "probe", "acquire", "serve", "unlock", "left",
                          "exited", "health", "ending", "portwait"}
  PROVE  ServerTypes' /\ ServerInv'
<1>1. /\ srv' \in Seq(Server) /\ Len(srv') = Len(srv) /\ DOMAIN srv' = DOMAIN srv
      /\ \A i \in DOMAIN srv :
           /\ srv'[i].own = srv[i].own /\ srv'[i].st = srv[i].st
           /\ srv'[i].page = srv[i].page \/ (i = server[l] /\ srv'[i].page = F)
  BY PublishedServers
<1>2. ServerTypes'
  BY <1>1 DEF ServerTypes
<1>3. ASSUME NEW k \in Parents PROVE ServerOf(k)'
  <2>1. ServerOf(k) /\ (server[k] # 0 => server[k] \in DOMAIN srv)
    BY ServerFacts DEF ServerInv
  <2>2. CASE k = l
    <3>1. server[l] # 0 => srv'[server[l]].page \subseteq shown'[l]
      BY <1>1, <2>1, <2>2 DEF ServerOf
    <3> QED BY <1>1, <2>1, <2>2, <3>1 DEF ServerOf
  <2>3. CASE k # l
    <3>1. server[k] # 0 => server[k] # server[l]
      BY <2>1, <2>3 DEF ServerInv, ServerOf
    <3>2. Main(k)' = Main(k) /\ facts'[k] = facts[k] /\ shown'[k] = shown[k]
      BY <2>3
    <3> QED BY <1>1, <2>1, <3>1, <3>2 DEF ServerOf
  <2> QED BY <2>2, <2>3
<1>4. ASSUME NEW i \in DOMAIN srv PROVE RunsOf(i)'
  <2>1. RunsOf(i) /\ srv[i].own \in Parents
    BY ServerFacts DEF ServerInv
  <2>2. \A k \in Parents : Main(k) = "crashed" => Main(k)' = "crashed"
    OBVIOUS
  <2> QED BY <1>1, <2>1, <2>2 DEF RunsOf
<1> QED BY <1>1, <1>2, <1>3, <1>4 DEF ServerInv

(* The child answers, or the time is over: either way what a former child  *)
(* had proved is forgotten.                                                *)
LEMMA HealthSteps ==
  ASSUME LInv, NEW l \in Parents, Healthy(l) \/ Unhealthy(l)
  PROVE  LInv'
<1>1. /\ Main(l) = "health"
      /\ UNCHANGED <<lock, marker, port, win, obj, after, server, window, clicks, faults,
                     helpers>>
  BY DEF Healthy, Unhealthy, shared, bounds
<1>2. PlaceTypes /\ ServerTypes /\ WindowTypes /\ ServerInv /\ ThreadInv /\ WindowInv
  BY TypesAre DEF LInv
<1>3. PICK place \in {"new", "down", "tray"} :
        /\ Go(l, "main", place)
        /\ why' = why \/ why' = [why EXCEPT ![l] = "quit"]
  <2>1. CASE Healthy(l)
    BY <2>1 DEF Healthy
  <2>2. CASE Unhealthy(l)
    <3>1. CASE why[l] = "launch"
      BY <2>2, <3>1 DEF Unhealthy
    <3>2. CASE why[l] # "launch"
      BY <2>2, <3>2 DEF Unhealthy
    <3> QED BY <3>1, <3>2
  <2> QED BY <2>1, <2>2
<1>4. /\ place \in Places \ Handling /\ "main" \in Threads
      /\ place \notin {"start", "stale", "probe"} \cup EndPlaces
      /\ Main(l) \notin Handling \cup EndPlaces
  BY <1>1, <1>3 DEF Threads, Places, MainPlaces, WindowPlaces, Handling, EndPlaces
<1>5. /\ pc' \in [Parents \X Threads -> Places]
      /\ \A k \in Parents : k # l => Main(k)' = Main(k)
      /\ Main(l)' = place
  BY <1>2, <1>3, <1>4, Goes
<1>6. PlaceTypes'
  <2>1. "quit" \in Purposes
    BY DEF Purposes
  <2>2. why' \in [Parents -> Purposes]
    BY <1>2, <1>3, <2>1 DEF PlaceTypes
  <2> QED BY <1>1, <1>2, <1>5, <2>2 DEF PlaceTypes
<1>7. ThreadInv' /\ WindowInv'
  <2>1. place # "opened"
    BY <1>3
  <2>2. \A k \in Parents : why'[k] = why[k] \/ (k = l /\ why'[k] # "launch")
    BY <1>2, <1>3 DEF PlaceTypes
  <2> QED BY <1>1, <1>2, <1>3, <1>4, <2>1, <2>2, MainMoves
<1>8. PICK F \in SUBSET {"server"} :
        /\ srv' = Published(l, F) /\ facts' = [facts EXCEPT ![l] = F]
        /\ shown' = [shown EXCEPT ![l] = @ \cup F]
  <2>1. shown' = shown => shown' = [shown EXCEPT ![l] = @ \cup {}]
    BY <1>2 DEF ServerTypes
  <2>2. CASE Healthy(l)
    BY <2>2 DEF Healthy
  <2>3. CASE Unhealthy(l)
    <3>1. srv' = Published(l, {}) /\ facts' = [facts EXCEPT ![l] = {}] /\ shown' = shown
      BY <2>3 DEF Unhealthy
    <3> QED BY <2>1, <3>1
  <2> QED BY <2>2, <2>3
<1>9. F \in SUBSET Facts
  BY <1>8 DEF Facts
<1>10. /\ facts' \in [Parents -> SUBSET Facts] /\ shown' \in [Parents -> SUBSET Facts]
       /\ facts'[l] = F /\ shown'[l] = shown[l] \cup F
       /\ \A k \in Parents \ {l} : facts'[k] = facts[k] /\ shown'[k] = shown[k]
  BY <1>2, <1>8, <1>9 DEF ServerTypes
<1>11. ServerTypes' /\ ServerInv'
  <2>1. Main(l)' \notin {"start", "stale", "probe", "acquire", "serve", "unlock", "left",
                         "exited", "health", "ending", "portwait"}
    BY <1>3, <1>5
  <2>2. /\ facts'[l] \subseteq shown'[l] /\ shown[l] \subseteq shown'[l]
        /\ F \subseteq shown'[l]
    BY <1>10
  <2> QED BY <1>1, <1>2, <1>5, <1>8, <1>9, <1>10, <2>1, <2>2, PublishKeeps
<1> QED BY <1>1, <1>6, <1>7, <1>11, ServerStepDone

(* The tray is listening.                                                  *)
LEMMA TrayReadyStep ==
  ASSUME LInv, NEW l \in Parents, TrayReady(l)
  PROVE  LInv'
<1>1. /\ Main(l) = "loop" /\ Go(l, "main", "tray")
      /\ facts' = [facts EXCEPT ![l] = @ \cup {"tray"}]
      /\ shown' = [shown EXCEPT ![l] = @ \cup {"tray"}]
      /\ srv' = Published(l, facts[l] \cup {"tray"})
      /\ UNCHANGED <<lock, marker, port, win, why, obj, after, server, window, clicks,
                     faults, helpers>>
  BY DEF TrayReady, shared, bounds
<1>2. PlaceTypes /\ ServerTypes /\ WindowTypes /\ ServerInv /\ ThreadInv /\ WindowInv
  BY TypesAre DEF LInv
<1>3. /\ "tray" \in Places \ Handling /\ "main" \in Threads
      /\ "tray" \notin {"start", "stale", "probe"} \cup EndPlaces
      /\ Main(l) \notin Handling \cup EndPlaces
  BY <1>1 DEF Threads, Places, MainPlaces, Handling, EndPlaces
<1>4. /\ pc' \in [Parents \X Threads -> Places]
      /\ \A k \in Parents : k # l => Main(k)' = Main(k)
      /\ Main(l)' = "tray"
  BY <1>1, <1>2, <1>3, Goes
<1>5. PlaceTypes'
  BY <1>1, <1>2, <1>4 DEF PlaceTypes
<1>6. ThreadInv' /\ WindowInv'
  BY <1>1, <1>2, <1>3, MainMoves
<1>7. facts[l] \cup {"tray"} \in SUBSET Facts /\ facts[l] \subseteq shown[l]
  BY <1>1, <1>2 DEF ServerTypes, Facts, ServerInv, ServerOf
<1>8. /\ facts' \in [Parents -> SUBSET Facts] /\ shown' \in [Parents -> SUBSET Facts]
      /\ facts'[l] = facts[l] \cup {"tray"} /\ shown'[l] = shown[l] \cup {"tray"}
      /\ \A k \in Parents \ {l} : facts'[k] = facts[k] /\ shown'[k] = shown[k]
  BY <1>1, <1>2 DEF ServerTypes, Facts
<1>9. ServerTypes' /\ ServerInv'
  <2>1. Main(l)' \notin {"start", "stale", "probe", "acquire", "serve", "unlock", "left",
                         "exited", "health", "ending", "portwait"}
    BY <1>4
  <2>2. /\ facts'[l] \subseteq shown'[l] /\ shown[l] \subseteq shown'[l]
        /\ facts[l] \cup {"tray"} \subseteq shown'[l]
    BY <1>7, <1>8
  <2> QED BY <1>1, <1>2, <1>4, <1>7, <1>8, <2>1, <2>2, PublishKeeps
<1> QED BY <1>1, <1>5, <1>6, <1>9, ServerStepDone

(* The window is asked for a pong; then both threads run.                  *)
LEMMA FinishLaunchStep ==
  ASSUME LInv, NEW l \in Parents, FinishLaunch(l)
  PROVE  LInv'
<1>1. PICK pong \in {{"window"}, {}} :
        /\ facts' = [facts EXCEPT ![l] = (@ \ {"window"}) \cup pong \cup {"parent"}]
        /\ shown' = [shown EXCEPT ![l] = @ \cup pong \cup {"parent"}]
        /\ srv' = Published(l, (facts[l] \ {"window"}) \cup pong \cup {"parent"})
  BY DEF FinishLaunch
<1>2. /\ Main(l) = "opened"
      /\ pc' = [pc EXCEPT ![<<l, "main">>] = "loop", ![<<l, "attention">>] = "waiting"]
      /\ why' = [why EXCEPT ![l] = "open"]
      /\ UNCHANGED <<lock, marker, port, win, obj, after, server, window, clicks,
                     faults, helpers>>
  BY DEF FinishLaunch, shared, bounds
<1>3. PlaceTypes /\ ServerTypes /\ WindowTypes /\ ServerInv /\ ThreadInv /\ WindowInv
  BY TypesAre DEF LInv
<1>4. Threads = {"main", "attention"} /\ "loop" \in Places /\ "waiting" \in Places
  BY DEF Threads, Places, MainPlaces
<1>5. /\ pc' \in [Parents \X Threads -> Places]
      /\ \A k \in Parents : k # l => Main(k)' = Main(k)
      /\ \A k \in Parents \ {l}, t \in Threads : pc'[<<k, t>>] = pc[<<k, t>>]
      /\ pc'[<<l, "main">>] = "loop" /\ pc'[<<l, "attention">>] = "waiting"
  <2>1. pc \in [Parents \X Threads -> Places]
    BY <1>3 DEF PlaceTypes
  <2> QED BY <1>2, <1>4, <2>1 DEF Main
<1>6. PlaceTypes'
  <2>1. why' \in [Parents -> Purposes]
    BY <1>2, <1>3 DEF PlaceTypes, Purposes
  <2> QED BY <1>2, <1>3, <1>5, <2>1 DEF PlaceTypes
<1>7. (facts[l] \ {"window"}) \cup pong \cup {"parent"} \in SUBSET Facts
  BY <1>1, <1>3 DEF ServerTypes, Facts
<1>8. facts[l] \subseteq shown[l]
  BY <1>2, <1>3 DEF ServerInv, ServerOf
<1>9. /\ facts' \in [Parents -> SUBSET Facts] /\ shown' \in [Parents -> SUBSET Facts]
      /\ facts'[l] = (facts[l] \ {"window"}) \cup pong \cup {"parent"}
      /\ shown'[l] = shown[l] \cup pong \cup {"parent"}
      /\ \A k \in Parents \ {l} : facts'[k] = facts[k] /\ shown'[k] = shown[k]
  <2>1. pong \subseteq Facts /\ "parent" \in Facts
    BY DEF Facts
  <2>2. facts \in [Parents -> SUBSET Facts] /\ shown \in [Parents -> SUBSET Facts]
    BY <1>3 DEF ServerTypes
  <2> QED BY <1>1, <2>1, <2>2
<1>10. ServerTypes' /\ ServerInv'
  <2>1. Main(l)' \notin {"start", "stale", "probe", "acquire", "serve", "unlock", "left",
                         "exited", "health", "ending", "portwait"}
    BY <1>5 DEF Main
  <2>2. /\ facts'[l] \subseteq shown'[l] /\ shown[l] \subseteq shown'[l]
        /\ (facts[l] \ {"window"}) \cup pong \cup {"parent"} \subseteq shown'[l]
    BY <1>8, <1>9
  <2> QED BY <1>1, <1>2, <1>3, <1>5, <1>7, <1>9, <2>1, <2>2, PublishKeeps
<1>11. ThreadInv' /\ WindowInv'
  <2>1. why[l] = "launch" /\ pc[<<l, "attention">>] = "off"
    BY <1>2, <1>3 DEF ThreadInv, LaunchOf
  <2>2. \A k \in Parents, t \in Threads :
           \/ pc'[<<k, t>>] = pc[<<k, t>>]
           \/ pc[<<k, t>>] \notin Handling /\ pc'[<<k, t>>] \notin Handling
    BY <1>2, <1>4, <1>5, <2>1 DEF Handling, Main
  <2>3. /\ Main(l)' = "loop" /\ why'[l] = "open"
        /\ \A k \in Parents : k # l => why'[k] = why[k]
    BY <1>2, <1>3, <1>5 DEF Main, PlaceTypes
  <2>4. ASSUME NEW k \in Parents
        PROVE  /\ Main(k) \in EndPlaces => Main(k)' \in EndPlaces
               /\ Main(k)' \in {"start", "stale", "probe"} \cup EndPlaces
                    => pc'[<<k, "attention">>] = "off"
               /\ why'[k] = "launch" => pc'[<<k, "attention">>] = "off"
               /\ Main(k)' = "opened" => why'[k] = "launch"
    <3>1. CASE k = l
      BY <1>2, <2>3, <3>1 DEF EndPlaces
    <3>2. CASE k # l
      <4>1. /\ LaunchOf(k) /\ pc'[<<k, "attention">>] = pc[<<k, "attention">>]
            /\ Main(k)' = Main(k) /\ why'[k] = why[k]
        BY <1>3, <1>4, <1>5, <2>3, <3>2 DEF ThreadInv
      <4> QED BY <4>1 DEF LaunchOf
    <3> QED BY <3>1, <3>2
  <2> QED BY <1>2, <1>3, <2>2, <2>4, WindowsKept
<1> QED BY <1>2, <1>6, <1>10, <1>11, ServerStepDone

-----------------------------------------------------------------------------
(* The end of a server child *)

(* One child is somewhere else in its life; whose it is stays.             *)
LEMMA LifeChanged ==
  ASSUME ServerTypes, NEW i \in DOMAIN srv, NEW st \in ServerStates,
         srv' = [srv EXCEPT ![i].st = st]
  PROVE  /\ srv' \in Seq(Server) /\ Len(srv') = Len(srv) /\ DOMAIN srv' = DOMAIN srv
         /\ \A j \in DOMAIN srv : srv'[j].own = srv[j].own /\ srv'[j].page = srv[j].page
         /\ srv'[i].st = st
         /\ \A j \in DOMAIN srv : j # i => srv'[j].st = srv[j].st
<1> DEFINE e == [srv[i] EXCEPT !.st = st]
<1>1. srv \in Seq(Server) /\ srv[i] \in Server
  BY ServerFacts DEF ServerTypes
<1>2. e \in Server /\ e.own = srv[i].own /\ e.page = srv[i].page /\ e.st = st
  BY <1>1 DEF Server
<1>3. srv' = [srv EXCEPT ![i] = e]
  OBVIOUS
<1> HIDE DEF e
<1>4. /\ srv' \in Seq(Server) /\ Len(srv') = Len(srv) /\ DOMAIN srv' = DOMAIN srv
      /\ srv'[i] = e /\ \A j \in DOMAIN srv : j # i => srv'[j] = srv[j]
  BY <1>1, <1>2, <1>3, EntryChanged
<1> QED BY <1>2, <1>4

(* Nobody comes back to life, and the launch that stops its child knows    *)
(* how that ended.                                                         *)
LEMMA LivesKept ==
  ASSUME ServerTypes, ServerInv, UNCHANGED <<server, facts, shown>>,
         DOMAIN srv' = DOMAIN srv,
         \A j \in DOMAIN srv :
           /\ srv'[j].own = srv[j].own /\ srv'[j].page = srv[j].page
           /\ srv'[j].st \in {"starting", "serving"} => srv[j].st \in {"starting", "serving"}
           /\ srv[j].st \in {"stuck", "gone"} => srv'[j].st \in {"stuck", "gone"},
         \A k \in Parents :
           \/ Main(k)' = Main(k)
           \/ /\ Main(k) = "ending" /\ Main(k)' = "portwait"
              /\ srv'[server[k]].st \in {"stuck", "gone"}
  PROVE  ServerInv'
<1>1. ASSUME NEW k \in Parents PROVE ServerOf(k)'
  <2>1. ServerOf(k) /\ (server[k] # 0 => server[k] \in DOMAIN srv)
    BY ServerFacts DEF ServerInv
  <2>2. CASE Main(k)' = Main(k)
    <3>1. server[k] # 0 => /\ srv'[server[k]].own = k
                           /\ srv'[server[k]].page \subseteq shown'[k]
      BY <2>1 DEF ServerOf
    <3>2. Main(k)' = "portwait" => srv'[server'[k]].st \in {"stuck", "gone"}
      BY <2>1, <2>2 DEF ServerOf
    <3> QED BY <2>1, <2>2, <3>1, <3>2 DEF ServerOf
  <2>3. CASE /\ Main(k) = "ending" /\ Main(k)' = "portwait"
             /\ srv'[server[k]].st \in {"stuck", "gone"}
    <3>1. server[k] # 0 => /\ srv'[server[k]].own = k
                           /\ srv'[server[k]].page \subseteq shown'[k]
      BY <2>1 DEF ServerOf
    <3> QED BY <2>1, <2>3, <3>1 DEF ServerOf
  <2> QED BY <2>2, <2>3
<1>2. ASSUME NEW j \in DOMAIN srv PROVE RunsOf(j)'
  <2>1. RunsOf(j) /\ srv[j].own \in Parents
    BY ServerFacts DEF ServerInv
  <2>2. \A k \in Parents : Main(k) = "crashed" => Main(k)' = "crashed"
    OBVIOUS
  <2> QED BY <2>1, <2>2 DEF RunsOf
<1> QED BY <1>1, <1>2 DEF ServerInv

(* terminate(), and kill() after it: the child has gone or survives both.  *)
LEMMA ServerStoppedStep ==
  ASSUME LInv, NEW l \in Parents, ServerStopped(l)
  PROVE  LInv'
<1> DEFINE i == server[l]
<1>1. /\ Main(l) = "ending" /\ Go(l, "main", "portwait")
      /\ UNCHANGED <<lock, marker, port, win, why, obj, after, window, server, facts,
                     shown, clicks, helpers>>
  BY DEF ServerStopped, shared, session
<1>2. PlaceTypes /\ ServerTypes /\ WindowTypes /\ ServerInv /\ ThreadInv /\ WindowInv
  BY TypesAre DEF LInv
<1>3. PICK st \in {"gone", "stuck"} :
        /\ srv' = [srv EXCEPT ![i].st = st]
        /\ faults' = faults \/ (faults < MaxFaults /\ faults' = faults + 1)
  BY DEF ServerStopped
<1>4. /\ "portwait" \in Places \ Handling /\ "main" \in Threads
      /\ "portwait" \notin {"start", "stale", "probe"} \cup EndPlaces
      /\ Main(l) \notin Handling \cup EndPlaces
  BY <1>1 DEF Threads, Places, MainPlaces, Handling, EndPlaces
<1>5. /\ pc' \in [Parents \X Threads -> Places]
      /\ \A k \in Parents : k # l => Main(k)' = Main(k)
      /\ Main(l)' = "portwait"
  BY <1>1, <1>2, <1>4, Goes
<1>6. PlaceTypes'
  <2>1. faults' \in 0..MaxFaults
    BY <1>2, <1>3, LauncherAssumption DEF PlaceTypes
  <2> QED BY <1>1, <1>2, <1>5, <2>1 DEF PlaceTypes
<1>7. ThreadInv' /\ WindowInv'
  BY <1>1, <1>2, <1>4, MainMoves
<1>8. i \in DOMAIN srv
  BY <1>1, <1>2, ServerFacts DEF ServerInv, ServerOf
<1>9. /\ srv' \in Seq(Server) /\ Len(srv') = Len(srv) /\ DOMAIN srv' = DOMAIN srv
      /\ \A j \in DOMAIN srv : srv'[j].own = srv[j].own /\ srv'[j].page = srv[j].page
      /\ srv'[i].st = st
      /\ \A j \in DOMAIN srv : j # i => srv'[j].st = srv[j].st
  <2>1. st \in ServerStates
    BY DEF ServerStates
  <2> QED BY <1>2, <1>3, <1>8, <2>1, LifeChanged
<1>10. ServerTypes'
  BY <1>1, <1>2, <1>9 DEF ServerTypes
<1>11. ServerInv'
  <2>1. \A j \in DOMAIN srv :
           /\ srv'[j].st \in {"starting", "serving"} => srv[j].st \in {"starting", "serving"}
           /\ srv[j].st \in {"stuck", "gone"} => srv'[j].st \in {"stuck", "gone"}
    BY <1>9
  <2> QED BY <1>1, <1>2, <1>5, <1>9, <2>1, LivesKept
<1> QED BY <1>1, <1>6, <1>7, <1>10, <1>11, ServerStepDone

(* The launch lets go of a child that runs no more.                        *)
LEMMA PortWaitedStep ==
  ASSUME LInv, NEW l \in Parents, PortWaited(l)
  PROVE  LInv'
<1>1. /\ Main(l) = "portwait" /\ server' = [server EXCEPT ![l] = 0]
      /\ UNCHANGED <<lock, marker, port, srv, win, why, obj, after, window, facts, shown,
                     clicks, faults, helpers>>
  BY DEF PortWaited, shared, bounds
<1>2. PlaceTypes /\ ServerTypes /\ WindowTypes /\ ServerInv /\ ThreadInv /\ WindowInv
  BY TypesAre DEF LInv
<1>3. PICK place \in {"serve", "unlock", "tray"} : Go(l, "main", place)
  BY DEF PortWaited
<1>4. /\ place \in Places \ Handling /\ "main" \in Threads /\ place # "opened"
      /\ place \notin {"start", "stale", "probe"} \cup EndPlaces
      /\ Main(l) \notin Handling \cup EndPlaces
  BY <1>1, <1>3 DEF Threads, Places, MainPlaces, Handling, EndPlaces
<1>5. /\ pc' \in [Parents \X Threads -> Places]
      /\ \A k \in Parents : k # l => Main(k)' = Main(k)
      /\ Main(l)' = place
  BY <1>2, <1>3, <1>4, Goes
<1>6. PlaceTypes'
  BY <1>1, <1>2, <1>5 DEF PlaceTypes
<1>7. ThreadInv' /\ WindowInv'
  BY <1>1, <1>2, <1>3, <1>4, MainMoves
<1>8. /\ server' \in [Parents -> 0..Len(srv)] /\ server'[l] = 0
      /\ \A k \in Parents : k # l => server'[k] = server[k]
  BY <1>1, <1>2, ServerFacts DEF ServerTypes
<1>9. ServerTypes'
  BY <1>1, <1>2, <1>8 DEF ServerTypes
<1>10. ServerInv'
  <2>1. ASSUME NEW k \in Parents PROVE ServerOf(k)'
    <3>1. ServerOf(k)
      BY <1>2 DEF ServerInv
    <3>2. CASE k = l
      BY <1>1, <1>3, <1>5, <1>8, <3>1, <3>2 DEF ServerOf
    <3>3. CASE k # l
      <4>1. Main(k)' = Main(k) /\ server'[k] = server[k]
        BY <1>5, <1>8, <3>3
      <4> QED BY <1>1, <3>1, <4>1 DEF ServerOf
    <3> QED BY <3>2, <3>3
  <2>2. ASSUME NEW j \in DOMAIN srv PROVE RunsOf(j)'
    <3>1. RunsOf(j) /\ srv[j].own \in Parents
      BY <1>2, ServerFacts DEF ServerInv
    <3>2. CASE srv[j].own = l
      <4>1. server[l] = j => srv[j].st \notin {"starting", "serving"}
        BY <1>1, <1>2 DEF ServerInv, ServerOf
      <4> QED BY <1>1, <3>1, <3>2, <4>1 DEF RunsOf
    <3>3. CASE srv[j].own # l
      <4>1. \A k \in Parents : k # l => Main(k)' = Main(k) /\ server'[k] = server[k]
        BY <1>5, <1>8
      <4> QED BY <1>1, <3>1, <3>3, <4>1 DEF RunsOf
    <3> QED BY <3>2, <3>3
  <2> QED BY <1>1, <2>1, <2>2 DEF ServerInv
<1> QED BY <1>1, <1>6, <1>7, <1>9, <1>10, ServerStepDone

(* The child binds the port or exits, or dies; its socket goes after it.   *)
LEMMA ChildSteps ==
  ASSUME LInv, (\E i \in 1..Len(srv) : ServerStep(i)) \/ PortReleased
  PROVE  LInv'
<1>1. /\ UNCHANGED <<lock, marker, win, pc, why, obj, after, window, server, facts, shown,
                     clicks, helpers>>
      /\ faults' = faults \/ (faults < MaxFaults /\ faults' = faults + 1)
  <2>1. ASSUME NEW i \in 1..Len(srv), Bind(i)
        PROVE  /\ UNCHANGED <<lock, marker, win, pc, why, obj, after, window, server,
                              facts, shown, clicks, helpers>>
               /\ faults' = faults
    BY <2>1 DEF Bind, shared, session, bounds
  <2>2. ASSUME NEW i \in 1..Len(srv), ServerDies(i)
        PROVE  /\ UNCHANGED <<lock, marker, win, pc, why, obj, after, window, server,
                              facts, shown, clicks, helpers>>
               /\ faults < MaxFaults /\ faults' = faults + 1
    BY <2>2 DEF ServerDies, shared, session
  <2>3. ASSUME PortReleased
        PROVE  /\ UNCHANGED <<lock, marker, win, pc, why, obj, after, window, server,
                              facts, shown, clicks, helpers>>
               /\ faults' = faults
    BY <2>3 DEF PortReleased, shared, session, bounds
  <2> QED BY <2>1, <2>2, <2>3 DEF ServerStep
<1>2. PlaceTypes /\ ServerTypes /\ WindowTypes /\ ServerInv /\ ThreadInv /\ WindowInv
  BY TypesAre DEF LInv
<1>3. PlaceTypes'
  <2>1. faults' \in 0..MaxFaults
    BY <1>1, <1>2, LauncherAssumption DEF PlaceTypes
  <2> QED BY <1>1, <1>2, <2>1 DEF PlaceTypes
<1>4. ThreadInv' /\ WindowInv'
  <2>1. \A k \in Parents : Main(k)' = Main(k)
    BY <1>1 DEF Main
  <2>2. \A k \in Parents : LaunchOf(k)
    BY <1>2 DEF ThreadInv
  <2>3. ASSUME NEW k \in Parents
        PROVE  /\ Main(k) \in EndPlaces => Main(k)' \in EndPlaces
               /\ Main(k)' \in {"start", "stale", "probe"} \cup EndPlaces
                    => pc'[<<k, "attention">>] = "off"
               /\ why'[k] = "launch" => pc'[<<k, "attention">>] = "off"
               /\ Main(k)' = "opened" => why'[k] = "launch"
    BY <1>1, <2>1, <2>2 DEF LaunchOf
  <2> QED BY <1>1, <1>2, <2>3, WindowsKept
<1>5. ServerTypes' /\ ServerInv'
  <2>1. \A k \in Parents : Main(k)' = Main(k)
    BY <1>1 DEF Main
  <2>2. ASSUME NEW i \in DOMAIN srv, NEW st \in {"serving", "gone"},
               srv' = [srv EXCEPT ![i].st = st], srv[i].st \in {"starting", "serving"},
               port' \in {port, i}
        PROVE  ServerTypes' /\ ServerInv'
    <3>1. /\ srv' \in Seq(Server) /\ Len(srv') = Len(srv) /\ DOMAIN srv' = DOMAIN srv
          /\ \A j \in DOMAIN srv : srv'[j].own = srv[j].own /\ srv'[j].page = srv[j].page
          /\ srv'[i].st = st
          /\ \A j \in DOMAIN srv : j # i => srv'[j].st = srv[j].st
      <4>1. st \in ServerStates
        BY DEF ServerStates
      <4> QED BY <1>2, <2>2, <4>1, LifeChanged
    <3>2. ServerTypes'
      BY <1>1, <1>2, <2>2, <3>1, ServerFacts DEF ServerTypes
    <3>3. \A j \in DOMAIN srv :
           /\ srv'[j].st \in {"starting", "serving"} => srv[j].st \in {"starting", "serving"}
           /\ srv[j].st \in {"stuck", "gone"} => srv'[j].st \in {"stuck", "gone"}
      BY <2>2, <3>1
    <3>4. ServerInv'
      BY <1>1, <1>2, <2>1, <3>1, <3>3, LivesKept
    <3> QED BY <3>2, <3>4
  <2>3. ASSUME NEW i \in 1..Len(srv), ServerStep(i) PROVE ServerTypes' /\ ServerInv'
    <3>1. i \in DOMAIN srv
      BY <1>2, ServerFacts
    <3>2. PICK st \in {"serving", "gone"} :
            /\ srv' = [srv EXCEPT ![i].st = st] /\ srv[i].st \in {"starting", "serving"}
            /\ port' \in {port, i}
      <4>1. CASE Bind(i)
        <5>1. CASE port = 0
          BY <4>1, <5>1 DEF Bind
        <5>2. CASE port # 0
          BY <4>1, <5>2 DEF Bind
        <5> QED BY <5>1, <5>2
      <4>2. CASE ServerDies(i)
        BY <4>2 DEF ServerDies
      <4> QED BY <2>3, <4>1, <4>2 DEF ServerStep
    <3> QED BY <2>2, <3>1, <3>2
  <2>4. CASE PortReleased
    <3>1. srv' = srv /\ port' = 0
      BY <2>4 DEF PortReleased
    <3>2. ServerTypes'
      BY <1>1, <1>2, <3>1, ServerFacts DEF ServerTypes
    <3>3. ServerInv'
      BY <1>1, <1>2, <2>1, <3>1, LivesKept
    <3> QED BY <3>2, <3>3
  <2> QED BY <2>3, <2>4
<1> QED BY <1>1, <1>3, <1>4, <1>5, ServerStepDone

-----------------------------------------------------------------------------
(* Steps of a thread that opens or stops a window *)

(* What remains of the invariant is the other half's.                      *)
LEMMA WindowStepDone ==
  ASSUME LInv, PlaceTypes', WindowTypes', ThreadInv', WindowInv',
         UNCHANGED <<srv, port, server, facts, shown>>, \A l \in Parents : Moves(l)
  PROVE  LInv'
<1>1. ServerTypes /\ ServerInv
  BY TypesAre DEF LInv
<1>2. ServerTypes'
  BY <1>1 DEF ServerTypes
<1>3. ServerInv'
  BY <1>1, ServersKept
<1> QED BY <1>2, <1>3 DEF LInv, TypeOK, PlaceTypes, ServerTypes, WindowTypes

(* Where a thread may be that is not at the start or the end of its life.  *)
Active == WindowPlaces \cup {"tray", "waiting"}
Onward == WindowPlaces \cup {"opened", "tray", "down", "waiting"}

(* A thread in the middle of its life goes to another place of it, and no  *)
(* main thread reports a launch that has ended.                            *)
LEMMA ThreadGoes ==
  ASSUME PlaceTypes, ThreadInv, NEW l \in Parents, NEW t \in Threads,
         NEW place \in Onward, Go(l, t, place), pc[<<l, t>>] \in Active,
         \A k \in Parents : why'[k] = why[k] \/ (k = l /\ t = "main" /\ why'[k] # "launch"),
         place = "opened" => t # "main" \/ why'[l] = "launch"
  PROVE  /\ pc' \in [Parents \X Threads -> Places] /\ pc'[<<l, t>>] = place
         /\ \A k \in Parents, u \in Threads :
              k # l \/ u # t => pc'[<<k, u>>] = pc[<<k, u>>]
         /\ \A k \in Parents : Moves(k) /\ (Main(k) \in EndPlaces <=> Main(k)' \in EndPlaces)
         /\ Main(l) \notin EndPlaces
         /\ \A k \in Parents :
              /\ Main(k)' \in {"start", "stale", "probe"} \cup EndPlaces
                   => pc'[<<k, "attention">>] = "off"
              /\ why'[k] = "launch" => pc'[<<k, "attention">>] = "off"
              /\ Main(k)' = "opened" => why'[k] = "launch"
<1>0. place \in Places
  BY DEF Onward, Places, MainPlaces
<1>1. Threads = {"main", "attention"}
  BY DEF Threads
<1>2. /\ pc' \in [Parents \X Threads -> Places] /\ pc'[<<l, t>>] = place
      /\ \A k \in Parents, u \in Threads :
           k # l \/ u # t => pc'[<<k, u>>] = pc[<<k, u>>]
      /\ \A k \in Parents : k # l => Main(k)' = Main(k)
      /\ t = "main" => Main(l)' = place
      /\ t # "main" => Main(l)' = Main(l)
  BY <1>0, Goes
<1>3. LaunchOf(l)
  BY DEF ThreadInv
<1>4. /\ t = "main" => Main(l) \in Active
      /\ t = "attention" => pc[<<l, "attention">>] # "off"
  BY DEF Main, Active, WindowPlaces
<1>5. place \notin EndPlaces \cup {"off", "start", "stale", "probe", "acquire", "serve",
                                   "unlock", "health", "ending", "portwait"}
  BY DEF Onward, WindowPlaces, EndPlaces
<1>6. t = "attention" => /\ Main(l) \notin {"start", "stale", "probe"} \cup EndPlaces
                         /\ why[l] # "launch"
  BY <1>3, <1>4 DEF LaunchOf
<1>7. t = "main" => Main(l) \notin {"start", "stale", "probe", "health"} \cup EndPlaces
  BY <1>4 DEF Active, WindowPlaces, EndPlaces
<1>8. Main(l) \notin EndPlaces /\ Main(l)' \notin EndPlaces
  BY <1>1, <1>2, <1>5, <1>6, <1>7
<1>9. \A k \in Parents : Main(k) \in EndPlaces <=> Main(k)' \in EndPlaces
  BY <1>2, <1>8
<1>10. ASSUME NEW k \in Parents PROVE Moves(k)
  <2>1. CASE Main(k)' = Main(k)
    BY <2>1 DEF Moves
  <2>2. CASE Main(k)' # Main(k)
    <3>1. k = l /\ t = "main" /\ Main(l)' = place
      BY <1>1, <1>2, <2>2
    <3>2. Main(l) # "crashed"
      BY <1>8 DEF EndPlaces
    <3>3. Moves(l)
      BY <1>5, <1>7, <3>1, <3>2 DEF Moves, EndPlaces
    <3> QED BY <3>1, <3>3
  <2> QED BY <2>1, <2>2
<1>11. ASSUME NEW k \in Parents
       PROVE  /\ Main(k)' \in {"start", "stale", "probe"} \cup EndPlaces
                   => pc'[<<k, "attention">>] = "off"
              /\ why'[k] = "launch" => pc'[<<k, "attention">>] = "off"
              /\ Main(k)' = "opened" => why'[k] = "launch"
  <2>1. LaunchOf(k)
    BY DEF ThreadInv
  <2>2. CASE k # l
    <3>1. /\ pc'[<<k, "attention">>] = pc[<<k, "attention">>] /\ Main(k)' = Main(k)
          /\ why'[k] = why[k]
      BY <1>1, <1>2, <2>2
    <3> QED BY <2>1, <3>1 DEF LaunchOf
  <2>3. CASE k = l /\ t = "main"
    <3>1. pc'[<<l, "attention">>] = pc[<<l, "attention">>] /\ Main(l)' = place
      BY <1>1, <1>2, <2>3
    <3>2. Main(l)' \notin {"start", "stale", "probe"} \cup EndPlaces
      BY <1>5, <3>1
    <3>3. why'[l] = "launch" => pc'[<<l, "attention">>] = "off"
      BY <2>3, <3>1, <1>3 DEF LaunchOf
    <3> QED BY <2>3, <3>1, <3>2, <3>3
  <2>4. CASE k = l /\ t = "attention"
    <3>1. Main(l)' = Main(l) /\ why'[l] = why[l]
      BY <1>2, <2>4
    <3> QED BY <1>3, <1>6, <2>4, <3>1 DEF LaunchOf
  <2> QED BY <1>1, <2>2, <2>3, <2>4
<1> QED BY <1>2, <1>8, <1>9, <1>10, <1>11

(* The threads that did not move keep their windows.                       *)
LEMMA OneThread ==
  ASSUME WindowTypes, ThreadInv, NEW l \in Parents, NEW t \in Threads,
         \A k \in Parents, u \in Threads :
           k # l \/ u # t => pc'[<<k, u>>] = pc[<<k, u>>] /\ obj'[<<k, u>>] = obj[<<k, u>>],
         \A v \in DOMAIN win : win'[v].own = win[v].own,
         \A k \in Parents : k # l => window'[k] = window[k],
         window'[l] # 0 => win'[window'[l]].own = l,
         \A k \in Parents :
              /\ Main(k)' \in {"start", "stale", "probe"} \cup EndPlaces
                   => pc'[<<k, "attention">>] = "off"
              /\ why'[k] = "launch" => pc'[<<k, "attention">>] = "off"
              /\ Main(k)' = "opened" => why'[k] = "launch",
         obj'[<<l, t>>] # 0 <=> pc'[<<l, t>>] \in Handling,
         obj'[<<l, t>>] # 0 => win'[obj'[<<l, t>>]].own = l
  PROVE  ThreadInv'
<1>1. ASSUME NEW k \in Parents PROVE LaunchOf(k)'
  <2>1. LaunchOf(k) /\ (window[k] # 0 => window[k] \in DOMAIN win)
    BY Windows DEF ThreadInv
  <2>2. window'[k] # 0 => win'[window'[k]].own = k
    BY <2>1 DEF LaunchOf
  <2> QED BY <2>2 DEF LaunchOf
<1>2. ASSUME NEW k \in Parents, NEW u \in Threads PROVE ThreadOf(k, u)'
  <2>1. ThreadOf(k, u) /\ (obj[<<k, u>>] # 0 => obj[<<k, u>>] \in DOMAIN win)
    BY Windows DEF ThreadInv
  <2>2. CASE k = l /\ u = t
    BY <2>2 DEF ThreadOf
  <2>3. CASE k # l \/ u # t
    BY <2>1, <2>3 DEF ThreadOf
  <2> QED BY <2>2, <2>3
<1> QED BY <1>1, <1>2 DEF ThreadInv

(* The other windows are stopped by whom they were stopped.                *)
LEMMA OneStop ==
  ASSUME NEW l \in Parents, NEW t \in Threads, NEW v,
         \A k \in Parents, u \in Threads :
           k # l \/ u # t => pc'[<<k, u>>] = pc[<<k, u>>] /\ obj'[<<k, u>>] = obj[<<k, u>>],
         pc[<<l, t>>] = "stopping" => obj[<<l, t>>] # v,
         pc'[<<l, t>>] = "stopping" => obj'[<<l, t>>] # v
  PROVE  BeingStopped(v)' <=> BeingStopped(v)
<1>1. ASSUME NEW k \in Parents, NEW u \in Threads
      PROVE  pc'[<<k, u>>] = "stopping" /\ obj'[<<k, u>>] = v
               <=> pc[<<k, u>>] = "stopping" /\ obj[<<k, u>>] = v
  OBVIOUS
<1>2. \A q \in Parents \X Threads :
        pc'[q] = "stopping" /\ obj'[q] = v <=> pc[q] = "stopping" /\ obj[q] = v
  BY <1>1
<1> QED BY <1>2 DEF BeingStopped

(* Only the window that changed has to be looked at again.                 *)
LEMMA OneWindow ==
  ASSUME WindowTypes, WindowInv, NEW w \in DOMAIN win, DOMAIN win' = DOMAIN win,
         \A v \in DOMAIN win : v # w => win'[v] = win[v],
         \A v \in DOMAIN win : v # w => (BeingStopped(v)' <=> BeingStopped(v)),
         \A k \in Parents : Main(k) \in EndPlaces <=> Main(k)' \in EndPlaces,
         WindowOf(w)'
  PROVE  WindowInv'
<1> SUFFICES ASSUME NEW v \in DOMAIN win, v # w PROVE WindowOf(v)'
  BY DEF WindowInv
<1>1. WindowOf(v) /\ win[v].own \in Parents /\ win'[v] = win[v]
  BY Windows DEF WindowInv
<1>2. (Main(win[v].own) \in EndPlaces <=> Main(win[v].own)' \in EndPlaces)
  BY <1>1
<1>3. BeingStopped(v)' <=> BeingStopped(v)
  OBVIOUS
<1> QED BY <1>1, <1>2, <1>3 DEF WindowOf

(* A thread's step changes nothing but the windows and where it is.        *)
LEMMA ThreadStepDone ==
  ASSUME LInv, pc' \in [Parents \X Threads -> Places], WindowTypes', ThreadInv', WindowInv',
         \A k \in Parents : Moves(k), why' \in [Parents -> Purposes],
         clicks' \in 0..MaxClicks,
         UNCHANGED <<lock, marker, port, srv, server, facts, shown, faults, helpers>>
  PROVE  LInv'
<1>1. PlaceTypes'
  BY TypesAre DEF LInv, PlaceTypes
<1> QED BY <1>1, WindowStepDone

(* A thread that begins to stop a window has looked for what is to be      *)
(* cleaned up after it.                                                    *)
LEMMA BeginStopStep ==
  ASSUME LInv, NEW l \in Parents, NEW t \in Threads, NEW w \in DOMAIN win,
         NEW next \in {"new", "back", "down"}, NEW seen \in {"seen", "blind"},
         BeginStop(l, t, w, next, seen), win[w].own = l, window' = window,
         pc[<<l, t>>] \in Active \ {"stopping"},
         \A k \in Parents : why'[k] = why[k] \/ (k = l /\ t = "main" /\ why'[k] # "launch"),
         why' \in [Parents -> Purposes], clicks' \in 0..MaxClicks,
         UNCHANGED <<lock, marker, port, srv, server, facts, shown, faults, helpers>>
  PROVE  LInv'
<1>0. PlaceTypes /\ WindowTypes /\ ThreadInv /\ WindowInv
  BY TypesAre DEF LInv
<1> USE <1>0
<1> DEFINE e == [win[w] EXCEPT
                   !.asked = win[w].asked \/ Shows(w),
                   !.helper = IF win[w].st \in Live THEN Captured(win[w].helper, seen)
                                                   ELSE win[w].helper]
<1>1. /\ obj' = [obj EXCEPT ![<<l, t>>] = w] /\ after' = [after EXCEPT ![<<l, t>>] = next]
      /\ Go(l, t, "stopping") /\ win' = [win EXCEPT ![w] = e]
  BY DEF BeginStop
<1>2. /\ win[w] \in Window /\ win[w].own \in Parents /\ win[w].helper \in HelperStates
      /\ win[w].st \in WindowStates /\ win \in Seq(Window)
  BY Windows DEF WindowTypes
<1>3. /\ e.own = l /\ e.st = win[w].st /\ e.chan = win[w].chan
      /\ e.asked = (win[w].asked \/ Shows(w))
      /\ e.helper = IF win[w].st \in Live THEN Captured(win[w].helper, seen)
                                           ELSE win[w].helper
  BY <1>2 DEF Window
<1>4. e \in Window
  <2>1. (win[w].asked \/ Shows(w)) \in BOOLEAN
    BY <1>2 DEF Window
  <2>2. (IF win[w].st \in Live THEN Captured(win[w].helper, seen) ELSE win[w].helper)
          \in HelperStates
    BY <1>2 DEF Captured, HelperStates
  <2> QED BY <1>2, <2>1, <2>2 DEF Window
<1> HIDE DEF e
<1>5. /\ win' \in Seq(Window) /\ Len(win') = Len(win) /\ DOMAIN win' = DOMAIN win
      /\ win'[w] = e /\ \A v \in DOMAIN win : v # w => win'[v] = win[v]
  BY <1>1, <1>2, <1>4, EntryChanged
<1>6. "stopping" \in Onward /\ "stopping" # "opened" /\ "stopping" \in Handling
  BY DEF Onward, WindowPlaces, Handling
<1>7. /\ pc' \in [Parents \X Threads -> Places] /\ pc'[<<l, t>>] = "stopping"
      /\ \A k \in Parents, u \in Threads :
           k # l \/ u # t => pc'[<<k, u>>] = pc[<<k, u>>]
      /\ \A k \in Parents : Moves(k) /\ (Main(k) \in EndPlaces <=> Main(k)' \in EndPlaces)
      /\ Main(l) \notin EndPlaces
      /\ \A k \in Parents :
           /\ Main(k)' \in {"start", "stale", "probe"} \cup EndPlaces
                => pc'[<<k, "attention">>] = "off"
           /\ why'[k] = "launch" => pc'[<<k, "attention">>] = "off"
           /\ Main(k)' = "opened" => why'[k] = "launch"
  <2>1. pc[<<l, t>>] \in Active
    OBVIOUS
  <2> QED BY <1>1, <1>6, <2>1, ThreadGoes
<1>8. /\ obj' \in [Parents \X Threads -> 0..Len(win)] /\ obj'[<<l, t>>] = w
      /\ \A k \in Parents, u \in Threads : k # l \/ u # t => obj'[<<k, u>>] = obj[<<k, u>>]
      /\ w # 0
  <2>1. obj \in [Parents \X Threads -> 0..Len(win)] /\ w \in 1..Len(win)
    BY Windows DEF WindowTypes
  <2>2. w \in 0..Len(win) /\ w # 0
    BY <2>1, Windows
  <2> QED BY <1>1, <2>1, <2>2
<1>9. WindowTypes'
  <2>1. after' \in [Parents \X Threads -> {"new", "back", "down"}]
    BY <1>1 DEF WindowTypes
  <2> QED BY <1>5, <1>8, <2>1 DEF WindowTypes
<1>10. ThreadInv'
  <2>1. \A v \in DOMAIN win : win'[v].own = win[v].own
    BY <1>3, <1>5
  <2>2. window'[l] # 0 => win'[window'[l]].own = l
    BY <2>1, Windows DEF ThreadInv, LaunchOf
  <2>3. obj'[<<l, t>>] # 0 <=> pc'[<<l, t>>] \in Handling
    BY <1>6, <1>7, <1>8
  <2>4. win'[obj'[<<l, t>>]].own = l
    BY <1>3, <1>5, <1>8
  <2> QED BY <1>7, <1>8, <2>1, <2>2, <2>3, <2>4, OneThread
<1>11. \A v \in DOMAIN win : v # w => (BeingStopped(v)' <=> BeingStopped(v))
  BY <1>7, <1>8, OneStop
<1>12. BeingStopped(w)'
  <2>1. <<l, t>> \in Parents \X Threads
    OBVIOUS
  <2> QED BY <1>7, <1>8, <2>1 DEF BeingStopped
<1>13. WindowOf(w)'
  <2>1. WindowOf(w)
    BY DEF WindowInv
  <2>2. /\ win'[w].own = l /\ win'[w].st = win[w].st /\ win'[w].chan = win[w].chan
        /\ win'[w].asked = (win[w].asked \/ Shows(w))
    BY <1>3, <1>5
  <2>3. win'[w].helper = IF win[w].st \in Live THEN Captured(win[w].helper, seen)
                                               ELSE win[w].helper
    BY <1>3, <1>5
  <2>4. win[w].st \in Live => win'[w].helper # "unseen"
    BY <2>3 DEF Captured
  <2>5. win[w].chan = "closed" => win'[w].helper = win[w].helper
    <3>1. win[w].chan = "closed" /\ win[w].st \in Live => win[w].st = "stuck"
      BY <2>1 DEF WindowOf, Live
    <3> QED BY <2>1, <2>3, <3>1 DEF WindowOf, Captured
  <2>6. Shows(w) => win[w].st \in Live
    BY DEF Shows, Live
  <2>7. win[w].asked => win'[w].helper # "unseen"
    <3>1. win[w].asked => win[w].helper # "unseen"
      BY <1>7, <2>1 DEF WindowOf
    <3> QED BY <2>3, <2>4, <3>1
  <2>8. win'[w].helper # "harmed"
    BY <2>1, <2>3 DEF WindowOf, Captured
  <2> QED BY <1>12, <2>1, <2>2, <2>4, <2>5, <2>6, <2>7, <2>8 DEF WindowOf
<1>14. WindowInv'
  BY <1>5, <1>7, <1>11, <1>13, OneWindow
<1> QED BY <1>7, <1>9, <1>10, <1>14, ThreadStepDone

(* A thread is done with its window, and changes nothing of it.            *)
LEMMA ReturnKeeps ==
  ASSUME PlaceTypes, WindowTypes, ThreadInv, WindowInv,
         NEW l \in Parents, NEW t \in Threads, Return(l, t),
         UNCHANGED <<win, after, why>>, window' \in {window, [window EXCEPT ![l] = 0]},
         pc[<<l, t>>] \in Active \ {"stopping"}
  PROVE  /\ pc' \in [Parents \X Threads -> Places]
         /\ WindowTypes' /\ ThreadInv' /\ WindowInv' /\ \A k \in Parents : Moves(k)
<1>1. Go(l, t, Back(l, t)) /\ obj' = [obj EXCEPT ![<<l, t>>] = 0]
  BY DEF Return
<1>2. /\ Back(l, t) \in Onward \ (Handling \cup {"stopping"})
      /\ Back(l, t) = "opened" => t # "main" \/ why'[l] = "launch"
  BY DEF Back, Onward, Handling, WindowPlaces
<1>3. /\ pc' \in [Parents \X Threads -> Places] /\ pc'[<<l, t>>] = Back(l, t)
      /\ \A k \in Parents, u \in Threads :
           k # l \/ u # t => pc'[<<k, u>>] = pc[<<k, u>>]
      /\ \A k \in Parents : Moves(k) /\ (Main(k) \in EndPlaces <=> Main(k)' \in EndPlaces)
      /\ \A k \in Parents :
           /\ Main(k)' \in {"start", "stale", "probe"} \cup EndPlaces
                => pc'[<<k, "attention">>] = "off"
           /\ why'[k] = "launch" => pc'[<<k, "attention">>] = "off"
           /\ Main(k)' = "opened" => why'[k] = "launch"
  <2>1. pc[<<l, t>>] \in Active
    OBVIOUS
  <2>2. Back(l, t) \in Onward
    BY <1>2
  <2>3. \A k \in Parents :
          why'[k] = why[k] \/ (k = l /\ t = "main" /\ why'[k] # "launch")
    OBVIOUS
  <2> QED BY <1>1, <1>2, <2>1, <2>2, <2>3, ThreadGoes
<1>4. /\ obj' \in [Parents \X Threads -> 0..Len(win)] /\ obj'[<<l, t>>] = 0
      /\ \A k \in Parents, u \in Threads : k # l \/ u # t => obj'[<<k, u>>] = obj[<<k, u>>]
  <2>1. obj \in [Parents \X Threads -> 0..Len(win)] /\ 0 \in 0..Len(win)
    BY Windows DEF WindowTypes
  <2> QED BY <1>1, <2>1
<1>5. /\ window' \in [Parents -> 0..Len(win)]
      /\ \A k \in Parents : window'[k] = window[k] \/ window'[k] = 0
      /\ \A k \in Parents : k # l => window'[k] = window[k]
  <2>1. window \in [Parents -> 0..Len(win)] /\ 0 \in 0..Len(win)
    BY Windows DEF WindowTypes
  <2>2. CASE window' = window
    BY <2>1, <2>2
  <2>3. CASE window' = [window EXCEPT ![l] = 0]
    BY <2>1, <2>3
  <2> QED BY <2>2, <2>3
<1>6. WindowTypes'
  BY <1>4, <1>5 DEF WindowTypes
<1>7. ThreadInv'
  <2>1. window'[l] # 0 => win'[window'[l]].own = l
    BY <1>5 DEF ThreadInv, LaunchOf
  <2>2. obj'[<<l, t>>] # 0 <=> pc'[<<l, t>>] \in Handling
    BY <1>2, <1>3, <1>4
  <2> QED BY <1>3, <1>4, <1>5, <2>1, <2>2, OneThread
<1>8. \A v \in DOMAIN win : BeingStopped(v)' <=> BeingStopped(v)
  <2>1. pc'[<<l, t>>] # "stopping" /\ pc[<<l, t>>] # "stopping"
    BY <1>2, <1>3
  <2> QED BY <1>3, <1>4, <2>1, OneStop
<1>9. WindowInv'
  <2> SUFFICES ASSUME NEW v \in DOMAIN win PROVE WindowOf(v)'
    BY DEF WindowInv
  <2>1. WindowOf(v) /\ win[v].own \in Parents
    BY Windows DEF WindowInv
  <2>2. Main(win[v].own) \in EndPlaces <=> Main(win[v].own)' \in EndPlaces
    BY <1>3, <2>1
  <2>3. BeingStopped(v)' <=> BeingStopped(v)
    BY <1>8
  <2> QED BY <2>1, <2>2, <2>3 DEF WindowOf
<1> QED BY <1>3, <1>6, <1>7, <1>9

(* One window object has changed.                                          *)
LEMMA WindowChanged ==
  ASSUME WindowTypes, NEW w \in DOMAIN win, NEW e \in Window, win' = [win EXCEPT ![w] = e]
  PROVE  /\ win' \in Seq(Window) /\ Len(win') = Len(win) /\ DOMAIN win' = DOMAIN win
         /\ win'[w] = e /\ \A v \in DOMAIN win : v # w => win'[v] = win[v]
<1>1. win \in Seq(Window)
  BY DEF WindowTypes
<1> QED BY <1>1, EntryChanged

(* A thread goes on with the one window it has in hand.                    *)
LEMMA HandlingKeeps ==
  ASSUME PlaceTypes, WindowTypes, ThreadInv, WindowInv,
         NEW l \in Parents, NEW t \in Threads,
         NEW place \in Handling \ {"stopping"}, Go(l, t, place),
         pc[<<l, t>>] \in Handling \ {"stopping"}, UNCHANGED <<obj, after, window, why>>,
         NEW e \in Window, win' = [win EXCEPT ![obj[<<l, t>>]] = e], e.own = l,
         WindowOf(obj[<<l, t>>]),
         e.asked = win[obj[<<l, t>>]].asked, e.helper = win[obj[<<l, t>>]].helper,
         e.chan # "closed", win[obj[<<l, t>>]].chan # "closed", e.st # "stuck"
  PROVE  /\ pc' \in [Parents \X Threads -> Places]
         /\ WindowTypes' /\ ThreadInv' /\ WindowInv' /\ \A k \in Parents : Moves(k)
<1>1. place \in Onward /\ place # "opened" /\ pc[<<l, t>>] \in Active
  BY DEF Onward, Active, WindowPlaces, Handling
<1>2. /\ pc' \in [Parents \X Threads -> Places] /\ pc'[<<l, t>>] = place
      /\ \A k \in Parents, u \in Threads :
           k # l \/ u # t => pc'[<<k, u>>] = pc[<<k, u>>]
      /\ \A k \in Parents : Moves(k) /\ (Main(k) \in EndPlaces <=> Main(k)' \in EndPlaces)
      /\ \A k \in Parents :
           /\ Main(k)' \in {"start", "stale", "probe"} \cup EndPlaces
                => pc'[<<k, "attention">>] = "off"
           /\ why'[k] = "launch" => pc'[<<k, "attention">>] = "off"
           /\ Main(k)' = "opened" => why'[k] = "launch"
  BY <1>1, ThreadGoes
<1>3. PICK w \in DOMAIN win : w = obj[<<l, t>>] /\ w # 0 /\ win[w].own = l
  <2>1. ThreadOf(l, t)
    BY DEF ThreadInv
  <2> QED BY <2>1, Windows DEF ThreadOf
<1>4. /\ win' \in Seq(Window) /\ Len(win') = Len(win) /\ DOMAIN win' = DOMAIN win
      /\ win'[w] = e /\ \A v \in DOMAIN win : v # w => win'[v] = win[v]
  <2>1. win' = [win EXCEPT ![w] = e]
    BY <1>3
  <2> QED BY <2>1, WindowChanged
<1>5. WindowTypes'
  BY <1>4 DEF WindowTypes
<1>6. ThreadInv'
  <2>1. \A v \in DOMAIN win : win'[v].own = win[v].own
    BY <1>3, <1>4
  <2>2. window'[l] # 0 => win'[window'[l]].own = l
    BY <2>1, Windows DEF ThreadInv, LaunchOf
  <2>3. obj'[<<l, t>>] # 0 <=> pc'[<<l, t>>] \in Handling
    BY <1>2, <1>3
  <2>4. win'[obj'[<<l, t>>]].own = l
    BY <1>3, <1>4
  <2> QED BY <1>2, <2>1, <2>2, <2>3, <2>4, OneThread
<1>7. \A v \in DOMAIN win : BeingStopped(v)' <=> BeingStopped(v)
  <2>1. pc'[<<l, t>>] # "stopping" /\ pc[<<l, t>>] # "stopping"
    BY <1>2
  <2> QED BY <1>2, <2>1, OneStop
<1>8. WindowOf(w)'
  <2>1. WindowOf(w)
    BY <1>3
  <2>2. /\ win'[w].own = l /\ win'[w].asked = win[w].asked
        /\ win'[w].helper = win[w].helper /\ win'[w].chan # "closed"
        /\ win'[w].st # "stuck" /\ win[w].chan # "closed"
    BY <1>3, <1>4
  <2>3. BeingStopped(w)' <=> BeingStopped(w)
    BY <1>7
  <2>4. Main(l) \in EndPlaces <=> Main(l)' \in EndPlaces
    BY <1>2
  <2> QED BY <1>3, <2>1, <2>2, <2>3, <2>4 DEF WindowOf
<1>9. WindowInv'
  BY <1>2, <1>4, <1>7, <1>8, OneWindow
<1> QED BY <1>2, <1>5, <1>6, <1>9

(* A new object takes the place of the launch's former one.                *)
LEMMA NewWindowStep ==
  ASSUME LInv, NEW l \in Parents, NEW t \in Threads, NewWindow(l, t)
  PROVE  LInv'
<1> DEFINE e == [own |-> l, st |-> "none", chan |-> "open", asked |-> FALSE,
                 helper |-> "none"]
           n == Len(win) + 1
<1>1. /\ UNCHANGED <<lock, marker, port, srv, why, after, server, facts, shown, clicks,
                     faults, helpers>>
      /\ pc[<<l, t>>] = "new"
  BY DEF NewWindow, shared, session, bounds
<1>2. PlaceTypes /\ ServerTypes /\ WindowTypes /\ ServerInv /\ ThreadInv /\ WindowInv
  BY TypesAre DEF LInv
<1>3. pc[<<l, t>>] \in Active \ {"stopping"} /\ pc[<<l, t>>] \notin Handling
  BY <1>1 DEF Active, WindowPlaces, Handling
<1>4. CASE window' = [window EXCEPT ![l] = 0] /\ Return(l, t) /\ win' = win
  <2>1. /\ pc' \in [Parents \X Threads -> Places]
        /\ WindowTypes' /\ ThreadInv' /\ WindowInv' /\ \A k \in Parents : Moves(k)
    BY <1>1, <1>2, <1>3, <1>4, ReturnKeeps
  <2>2. PlaceTypes'
    BY <1>1, <1>2, <2>1 DEF PlaceTypes
  <2> QED BY <1>1, <2>1, <2>2, WindowStepDone
<1>5. CASE /\ Len(win) < MaxWindows /\ win' = Append(win, e)
           /\ window' = [window EXCEPT ![l] = n]
           /\ obj' = [obj EXCEPT ![<<l, t>>] = n] /\ Go(l, t, "spawn")
  <2>1. "spawn" \in Onward /\ "spawn" # "opened" /\ "spawn" \in Handling
    BY DEF Onward, WindowPlaces, Handling
  <2>2. /\ pc' \in [Parents \X Threads -> Places] /\ pc'[<<l, t>>] = "spawn"
        /\ \A k \in Parents, u \in Threads :
             k # l \/ u # t => pc'[<<k, u>>] = pc[<<k, u>>]
        /\ \A k \in Parents : Moves(k) /\ (Main(k) \in EndPlaces <=> Main(k)' \in EndPlaces)
        /\ \A k \in Parents :
             /\ Main(k)' \in {"start", "stale", "probe"} \cup EndPlaces
                  => pc'[<<k, "attention">>] = "off"
             /\ why'[k] = "launch" => pc'[<<k, "attention">>] = "off"
             /\ Main(k)' = "opened" => why'[k] = "launch"
    BY <1>1, <1>2, <1>3, <1>5, <2>1, ThreadGoes
  <2>3. e \in Window
    BY DEF Window, WindowStates, Channels, HelperStates
  <2>4. /\ win' \in Seq(Window) /\ Len(win) \in Nat /\ Len(win') = n
        /\ DOMAIN win = 1..Len(win) /\ DOMAIN win' = DOMAIN win \cup {n}
        /\ n \notin DOMAIN win
        /\ win'[n] = e /\ \A v \in DOMAIN win : win'[v] = win[v]
    BY <1>2, <1>5, <2>3, EntryAdded DEF WindowTypes
  <2>5. /\ obj' \in [Parents \X Threads -> 0..Len(win')] /\ obj'[<<l, t>>] = n
        /\ \A k \in Parents, u \in Threads :
             k # l \/ u # t => obj'[<<k, u>>] = obj[<<k, u>>]
    <3>1. n \in 0..n /\ 0..Len(win) \subseteq 0..n
      BY <2>4
    <3>2. obj \in [Parents \X Threads -> 0..Len(win)]
      BY <1>2 DEF WindowTypes
    <3>3. obj \in [Parents \X Threads -> 0..n]
      BY <3>1, <3>2
    <3> QED BY <1>5, <2>4, <3>1, <3>3
  <2>6. /\ window' \in [Parents -> 0..Len(win')] /\ window'[l] = n
        /\ \A k \in Parents : k # l => window'[k] = window[k]
    <3>1. n \in 0..n /\ 0..Len(win) \subseteq 0..n
      BY <2>4
    <3>2. window \in [Parents -> 0..Len(win)]
      BY <1>2 DEF WindowTypes
    <3>3. window \in [Parents -> 0..n]
      BY <3>1, <3>2
    <3> QED BY <1>5, <2>4, <3>1, <3>3
  <2>7. WindowTypes'
    BY <1>1, <1>2, <1>5, <2>4, <2>5, <2>6, LauncherAssumption DEF WindowTypes
  <2>8. ThreadInv'
    <3>1. obj'[<<l, t>>] # 0 <=> pc'[<<l, t>>] \in Handling
      BY <2>1, <2>2, <2>4, <2>5
    <3>2. win'[obj'[<<l, t>>]].own = l /\ win'[window'[l]].own = l
      BY <2>4, <2>5, <2>6
    <3>3. \A k \in Parents, u \in Threads :
            k # l \/ u # t => pc'[<<k, u>>] = pc[<<k, u>>] /\ obj'[<<k, u>>] = obj[<<k, u>>]
      BY <2>2, <2>5
    <3>4. \A v \in DOMAIN win : win'[v].own = win[v].own
      BY <2>4
    <3> HIDE DEF e, n
    <3> QED BY <1>2, <2>2, <2>6, <3>1, <3>2, <3>3, <3>4, OneThread
  <2>9. \A v \in DOMAIN win : BeingStopped(v)' <=> BeingStopped(v)
    <3>1. pc'[<<l, t>>] # "stopping" /\ pc[<<l, t>>] # "stopping"
      BY <1>1, <2>2
    <3> QED BY <2>2, <2>5, <3>1, OneStop
  <2>10. WindowInv'
    <3>1. ASSUME NEW v \in DOMAIN win PROVE WindowOf(v)'
      <4>1. WindowOf(v) /\ win[v].own \in Parents /\ win'[v] = win[v]
        BY <1>2, <2>4, Windows DEF WindowInv
      <4>2. Main(win[v].own) \in EndPlaces <=> Main(win[v].own)' \in EndPlaces
        BY <2>2, <4>1
      <4>3. BeingStopped(v)' <=> BeingStopped(v)
        BY <2>9
      <4> QED BY <4>1, <4>2, <4>3 DEF WindowOf
    <3>2. ASSUME NEW v, v = n PROVE WindowOf(v)'
      <4>1. /\ win'[v].chan = "open" /\ win'[v].st = "none" /\ win'[v].asked = FALSE
            /\ win'[v].helper = "none"
        BY <2>4, <3>2
      <4> QED BY <4>1 DEF WindowOf
    <3> QED BY <2>4, <3>1, <3>2 DEF WindowInv
  <2>11. PlaceTypes'
    BY <1>1, <1>2, <2>2 DEF PlaceTypes
  <2> QED BY <1>1, <2>2, <2>7, <2>8, <2>10, <2>11, WindowStepDone
<1> QED BY <1>4, <1>5 DEF NewWindow


(* The window a thread has in hand.                                        *)
LEMMA InHand ==
  ASSUME LInv, NEW l \in Parents, NEW t \in Threads, pc[<<l, t>>] \in Handling
  PROVE  /\ obj[<<l, t>>] \in DOMAIN win /\ obj[<<l, t>>] # 0
         /\ win[obj[<<l, t>>]] \in Window /\ win[obj[<<l, t>>]].own = l
         /\ WindowOf(obj[<<l, t>>])
<1>1. WindowTypes /\ ThreadOf(l, t) /\ WindowInv
  BY TypesAre DEF LInv, ThreadInv
<1>2. obj[<<l, t>>] # 0 /\ win[obj[<<l, t>>]].own = l
  BY <1>1 DEF ThreadOf
<1>3. obj[<<l, t>>] \in DOMAIN win
  BY <1>1, <1>2, Windows
<1> QED BY <1>1, <1>2, <1>3, Windows DEF WindowInv

(* A thread is done with its window.                                       *)
LEMMA ReturnStep ==
  ASSUME LInv, NEW l \in Parents, NEW t \in Threads, Return(l, t),
         UNCHANGED <<win, after, why>>, window' \in {window, [window EXCEPT ![l] = 0]},
         pc[<<l, t>>] \in Active \ {"stopping"},
         UNCHANGED <<lock, marker, port, srv, server, facts, shown, clicks, faults, helpers>>
  PROVE  LInv'
<1>1. PlaceTypes /\ WindowTypes /\ ThreadInv /\ WindowInv
  BY TypesAre DEF LInv
<1>2. /\ pc' \in [Parents \X Threads -> Places]
      /\ WindowTypes' /\ ThreadInv' /\ WindowInv' /\ \A k \in Parents : Moves(k)
  BY <1>1, ReturnKeeps
<1>3. why' \in [Parents -> Purposes] /\ clicks' \in 0..MaxClicks
  BY <1>1 DEF PlaceTypes
<1> QED BY <1>2, <1>3, ThreadStepDone

(* A thread goes on to handle its window, and the invariant is kept.       *)
LEMMA HandlingStep ==
  ASSUME LInv, NEW l \in Parents, NEW t \in Threads,
         NEW place \in Handling \ {"stopping"}, Go(l, t, place),
         pc[<<l, t>>] \in Handling \ {"stopping"}, UNCHANGED <<obj, after, window, why>>,
         NEW e \in Window, win' = [win EXCEPT ![obj[<<l, t>>]] = e], e.own = l,
         e.asked = win[obj[<<l, t>>]].asked, e.helper = win[obj[<<l, t>>]].helper,
         e.chan # "closed", win[obj[<<l, t>>]].chan # "closed", e.st # "stuck",
         UNCHANGED <<lock, marker, port, srv, server, facts, shown, clicks, faults, helpers>>
  PROVE  LInv'
<1>1. PlaceTypes /\ WindowTypes /\ ThreadInv /\ WindowInv /\ WindowOf(obj[<<l, t>>])
  BY InHand, TypesAre DEF LInv
<1>2. /\ pc' \in [Parents \X Threads -> Places]
      /\ WindowTypes' /\ ThreadInv' /\ WindowInv' /\ \A k \in Parents : Moves(k)
  BY <1>1, HandlingKeeps
<1>3. why' \in [Parents -> Purposes] /\ clicks' \in 0..MaxClicks
  BY <1>1 DEF PlaceTypes
<1> QED BY <1>2, <1>3, ThreadStepDone

(* A window that shows itself is kept, and any other is stopped.           *)
LEMMA LookStep ==
  ASSUME LInv, NEW l \in Parents, NEW t \in Threads, LookAtWindow(l, t)
  PROVE  LInv'
<1> DEFINE w == window[l]
<1>1. /\ pc[<<l, t>>] = "look"
      /\ UNCHANGED <<lock, marker, port, srv, why, window, server, facts, shown, clicks,
                     faults, helpers>>
  BY DEF LookAtWindow, shared, session, bounds
<1>2. PlaceTypes /\ WindowTypes /\ ThreadInv /\ WindowInv
  BY TypesAre DEF LInv
<1>3. /\ pc[<<l, t>>] \in Active \ {"stopping"} /\ pc[<<l, t>>] \notin Handling
      /\ why' \in [Parents -> Purposes] /\ clicks' \in 0..MaxClicks
  BY <1>1, <1>2 DEF Active, WindowPlaces, Handling, PlaceTypes
<1>4. w # 0 => w \in DOMAIN win /\ win[w].own = l
  BY <1>2, Windows DEF ThreadInv, LaunchOf
<1>5. CASE Go(l, t, "new") /\ UNCHANGED <<win, obj, after>>
  <2>1. "new" \in Onward /\ "new" # "opened" /\ "new" \notin Handling
    BY DEF Onward, WindowPlaces, Handling
  <2>2. /\ pc' \in [Parents \X Threads -> Places] /\ pc'[<<l, t>>] = "new"
        /\ \A k \in Parents, u \in Threads :
             k # l \/ u # t => pc'[<<k, u>>] = pc[<<k, u>>]
        /\ \A k \in Parents : Moves(k) /\ (Main(k) \in EndPlaces <=> Main(k)' \in EndPlaces)
        /\ \A k \in Parents :
             /\ Main(k)' \in {"start", "stale", "probe"} \cup EndPlaces
                  => pc'[<<k, "attention">>] = "off"
             /\ why'[k] = "launch" => pc'[<<k, "attention">>] = "off"
             /\ Main(k)' = "opened" => why'[k] = "launch"
    BY <1>1, <1>2, <1>3, <1>5, <2>1, ThreadGoes
  <2>3. \A k \in Parents, u \in Threads :
           \/ pc'[<<k, u>>] = pc[<<k, u>>]
           \/ pc[<<k, u>>] \notin Handling /\ pc'[<<k, u>>] \notin Handling
    BY <1>3, <2>1, <2>2
  <2>4. ThreadInv' /\ WindowInv'
    BY <1>1, <1>2, <1>5, <2>2, <2>3, WindowsKept
  <2>5. WindowTypes'
    BY <1>1, <1>2, <1>5 DEF WindowTypes
  <2> QED BY <1>1, <1>3, <2>2, <2>4, <2>5, ThreadStepDone
<1>6. CASE Return(l, t) /\ UNCHANGED <<win, after>>
  BY <1>1, <1>3, <1>6, ReturnStep
<1>7. ASSUME w # 0, NEW seen \in {"seen", "blind"}, BeginStop(l, t, w, "new", seen)
      PROVE  LInv'
  <2>1. \A k \in Parents :
          why'[k] = why[k] \/ (k = l /\ t = "main" /\ why'[k] # "launch")
    BY <1>1
  <2>2. w \in DOMAIN win /\ win[w].own = l
    BY <1>4, <1>7
  <2>3. "new" \in {"new", "back", "down"}
    OBVIOUS
  <2> HIDE DEF w
  <2> QED BY <1>1, <1>3, <1>7, <2>1, <2>2, <2>3, BeginStopStep
<1> QED BY <1>5, <1>6, <1>7 DEF LookAtWindow

(* The channel is given to the child, if it has not been closed.           *)
LEMMA SpawnWindowStep ==
  ASSUME LInv, NEW l \in Parents, NEW t \in Threads, SpawnWindow(l, t)
  PROVE  LInv'
<1> DEFINE w == obj[<<l, t>>]
           e == [win[w] EXCEPT !.st = "running"]
<1>1. /\ pc[<<l, t>>] = "spawn"
      /\ UNCHANGED <<lock, marker, port, srv, why, after, server, facts, shown, clicks,
                     faults, helpers>>
  BY DEF SpawnWindow, shared, session, bounds
<1>2. /\ pc[<<l, t>>] \in Active \ {"stopping"} /\ pc[<<l, t>>] \in Handling \ {"stopping"}
      /\ "accept" \in Handling \ {"stopping"}
  BY <1>1 DEF Active, WindowPlaces, Handling
<1>3. w \in DOMAIN win /\ win[w] \in Window /\ win[w].own = l
  BY <1>2, InHand
<1>4. CASE /\ win[w].chan = "open" /\ win' = [win EXCEPT ![w].st = "running"]
           /\ Go(l, t, "accept") /\ UNCHANGED <<obj, window>>
  <2>1. /\ e \in Window /\ e.own = l /\ e.asked = win[w].asked /\ e.helper = win[w].helper
        /\ e.chan = "open" /\ e.st = "running"
    BY <1>3, <1>4 DEF Window, WindowStates
  <2>2. win' = [win EXCEPT ![w] = e]
    BY <1>4
  <2>3. e.chan # "closed" /\ win[w].chan # "closed" /\ e.st # "stuck"
    BY <1>4, <2>1
  <2> HIDE DEF e
  <2> QED BY <1>1, <1>2, <1>4, <2>1, <2>2, <2>3, HandlingStep
<1>5. CASE window' = [window EXCEPT ![l] = 0] /\ Return(l, t) /\ UNCHANGED win
  BY <1>1, <1>2, <1>5, ReturnStep
<1> QED BY <1>4, <1>5 DEF SpawnWindow

(* The child authenticates, or does not in time, or the other thread has   *)
(* closed the channel.                                                     *)
LEMMA AcceptStep ==
  ASSUME LInv, NEW l \in Parents, NEW t \in Threads, Accept(l, t) \/ AwaitReady(l, t)
  PROVE  LInv'
<1> DEFINE w == obj[<<l, t>>]
           e == [win[w] EXCEPT !.chan = "up"]
<1>1. /\ pc[<<l, t>>] \in {"accept", "await"}
      /\ UNCHANGED <<lock, marker, port, srv, why, window, server, facts, shown, clicks,
                     faults, helpers>>
  BY DEF Accept, AwaitReady, shared, session, bounds
<1>2. /\ pc[<<l, t>>] \in Active \ {"stopping"} /\ pc[<<l, t>>] \in Handling \ {"stopping"}
      /\ "await" \in Handling \ {"stopping"}
  BY <1>1 DEF Active, WindowPlaces, Handling
<1>3. w \in DOMAIN win /\ win[w] \in Window /\ win[w].own = l
  BY <1>2, InHand
<1>4. CASE /\ win[w].chan = "open" /\ win[w].st = "running"
           /\ win' = [win EXCEPT ![w].chan = "up"]
           /\ Go(l, t, "await") /\ UNCHANGED <<obj, after>>
  <2>1. /\ e \in Window /\ e.own = l /\ e.asked = win[w].asked /\ e.helper = win[w].helper
        /\ e.chan = "up" /\ e.st = "running"
    BY <1>3, <1>4 DEF Window, Channels
  <2>2. win' = [win EXCEPT ![w] = e]
    BY <1>4
  <2>3. e.chan # "closed" /\ win[w].chan # "closed" /\ e.st # "stuck"
    BY <1>4, <2>1
  <2> HIDE DEF e
  <2> QED BY <1>1, <1>2, <1>4, <2>1, <2>2, <2>3, HandlingStep
<1>5. CASE Return(l, t) /\ UNCHANGED <<win, after>>
  BY <1>1, <1>2, <1>5, ReturnStep
<1>6. ASSUME NEW seen \in {"seen", "blind"}, BeginStop(l, t, w, "back", seen) PROVE LInv'
  <2>1. \A k \in Parents :
          why'[k] = why[k] \/ (k = l /\ t = "main" /\ why'[k] # "launch")
    BY <1>1
  <2>2. why' \in [Parents -> Purposes] /\ clicks' \in 0..MaxClicks
    BY <1>1, TypesAre DEF LInv, PlaceTypes
  <2>3. "back" \in {"new", "back", "down"}
    OBVIOUS
  <2> HIDE DEF w
  <2> QED BY <1>1, <1>2, <1>3, <1>6, <2>1, <2>2, <2>3, BeginStopStep
<1> QED BY <1>4, <1>5, <1>6 DEF Accept, AwaitReady

-----------------------------------------------------------------------------
(* Steps that change a window and move no thread *)

(* A change of one window that keeps to what is known of windows.          *)
LEMMA WindowChangedStep ==
  ASSUME LInv, NEW w \in DOMAIN win, NEW e \in Window, win' = [win EXCEPT ![w] = e],
         e.own = win[w].own, faults' \in 0..MaxFaults, helpers' \in 0..MaxHelpers,
         e.chan = win[w].chan, e.asked = win[w].asked,
         e.chan = "closed" => e.st \notin {"running", "ready"} /\ e.helper # "seen",
         e.st = "stuck" => e.chan = "closed" /\ e.helper \notin {"unseen", "late"},
         e.asked /\ e.helper = "unseen" =>
           e.chan # "closed" /\ Main(win[w].own) \in EndPlaces,
         e.helper # "harmed",
         UNCHANGED <<lock, marker, port, srv, pc, why, obj, after, window, server, facts,
                     shown, clicks>>
  PROVE  LInv'
<1>1. PlaceTypes /\ ServerTypes /\ WindowTypes /\ ServerInv /\ ThreadInv /\ WindowInv
  BY TypesAre DEF LInv
<1>2. /\ win' \in Seq(Window) /\ Len(win') = Len(win) /\ DOMAIN win' = DOMAIN win
      /\ win'[w] = e /\ \A v \in DOMAIN win : v # w => win'[v] = win[v]
  BY <1>1, WindowChanged
<1>3. PlaceTypes' /\ WindowTypes'
  BY <1>1, <1>2 DEF PlaceTypes, WindowTypes
<1>4. \A k \in Parents : Main(k)' = Main(k)
  BY DEF Main
<1>5. \A v \in DOMAIN win : BeingStopped(v)' <=> BeingStopped(v)
  BY DEF BeingStopped
<1>6. \A v \in DOMAIN win : win'[v].own = win[v].own
  BY <1>2
<1>7. ThreadInv'
  <2>1. ASSUME NEW k \in Parents PROVE LaunchOf(k)'
    <3>1. LaunchOf(k) /\ (window[k] # 0 => window[k] \in DOMAIN win)
      BY <1>1, Windows DEF ThreadInv
    <3>2. window'[k] # 0 => win'[window'[k]].own = k
      BY <1>6, <3>1 DEF LaunchOf
    <3> QED BY <1>4, <3>1, <3>2 DEF LaunchOf
  <2>2. ASSUME NEW k \in Parents, NEW u \in Threads PROVE ThreadOf(k, u)'
    <3>1. ThreadOf(k, u) /\ (obj[<<k, u>>] # 0 => obj[<<k, u>>] \in DOMAIN win)
      BY <1>1, Windows DEF ThreadInv
    <3>2. obj'[<<k, u>>] # 0 => win'[obj'[<<k, u>>]].own = k
      BY <1>6, <3>1 DEF ThreadOf
    <3> QED BY <3>1, <3>2 DEF ThreadOf
  <2> QED BY <2>1, <2>2 DEF ThreadInv
<1>8. WindowOf(w)'
  <2>1. WindowOf(w) /\ win[w].own \in Parents
    BY <1>1, Windows DEF WindowInv
  <2>2. win'[w] = e /\ (BeingStopped(w)' <=> BeingStopped(w))
    BY <1>2, <1>5
  <2>3. Main(win[w].own)' = Main(win[w].own)
    BY <2>2 DEF Main
  <2> QED BY <2>1, <2>2, <2>3 DEF WindowOf
<1>9. WindowInv'
  <2>1. \A k \in Parents : Main(k) \in EndPlaces <=> Main(k)' \in EndPlaces
    BY <1>4
  <2> QED BY <1>1, <1>2, <1>5, <1>8, <2>1, OneWindow
<1>10. \A k \in Parents : Moves(k)
  BY <1>4 DEF Moves
<1> QED BY <1>3, <1>7, <1>9, <1>10, WindowStepDone

(* While it waits, stop() looks again for what is to be cleaned up.        *)
LEMMA CaptureStep ==
  ASSUME LInv, NEW l \in Parents, NEW t \in Threads, CaptureAgain(l, t)
  PROVE  LInv'
<1> DEFINE w == obj[<<l, t>>]
<1>1. /\ pc[<<l, t>>] = "stopping"
      /\ win[w].st \in Live /\ win[w].helper \in {"unseen", "late"}
      /\ UNCHANGED <<lock, marker, port, srv, pc, why, obj, after, window, server, facts,
                     shown, clicks, faults, helpers>>
  BY DEF CaptureAgain, shared, session, bounds
<1>2. PICK seen \in {"seen", "blind"} : win' = [win EXCEPT ![w].helper = seen]
  BY DEF CaptureAgain
<1> DEFINE e == [win[w] EXCEPT !.helper = seen]
<1>3. w \in DOMAIN win /\ win[w] \in Window /\ WindowOf(w)
  BY <1>1, InHand DEF Handling
<1>4. /\ e \in Window /\ e.own = win[w].own /\ e.asked = win[w].asked
      /\ e.chan = win[w].chan /\ e.st = win[w].st /\ e.helper = seen
  BY <1>3 DEF Window, HelperStates
<1>5. win[w].chan # "closed" /\ win[w].st # "stuck"
  BY <1>1, <1>3 DEF WindowOf, Live
<1>6. win' = [win EXCEPT ![w] = e]
  BY <1>2
<1>7. faults' \in 0..MaxFaults /\ helpers' \in 0..MaxHelpers
  BY <1>1, TypesAre DEF LInv, PlaceTypes
<1>8. /\ e.chan # "closed" /\ e.st # "stuck" /\ e.helper # "unseen" /\ e.helper # "harmed"
  BY <1>4, <1>5
<1> HIDE DEF e, w
<1> QED BY <1>1, <1>3, <1>4, <1>6, <1>7, <1>8, WindowChangedStep

(* The window child is ready, quits, dies, starts a helper, or its helper  *)
(* ends.                                                                   *)
LEMMA ChildOfWindowSteps ==
  ASSUME LInv, NEW w \in 1..Len(win), WindowStep(w)
  PROVE  LInv'
<1>1. /\ UNCHANGED <<lock, marker, port, srv, pc, why, obj, after, window, server, facts,
                     shown, clicks>>
      /\ faults' \in 0..MaxFaults /\ helpers' \in 0..MaxHelpers
  <2>1. faults \in 0..MaxFaults /\ helpers \in 0..MaxHelpers
    BY TypesAre DEF LInv, PlaceTypes
  <2>2. CASE WindowReady(w) \/ WindowQuits(w) \/ HelperEnds(w)
    BY <2>1, <2>2 DEF WindowReady, WindowQuits, HelperEnds, shared, session, bounds
  <2>3. CASE WindowDies(w)
    BY <2>1, <2>3, LauncherAssumption DEF WindowDies, shared, session
  <2>4. CASE HelperBorn(w)
    BY <2>1, <2>4, LauncherAssumption DEF HelperBorn, shared, session
  <2> QED BY <2>2, <2>3, <2>4 DEF WindowStep
<1>2. WindowTypes /\ w \in DOMAIN win /\ win[w] \in Window /\ WindowOf(w)
  BY Windows, TypesAre DEF LInv, WindowInv
<1>3. ASSUME NEW st \in {"ready", "gone"}, win' = [win EXCEPT ![w].st = st],
             win[w].chan = "closed" => st # "ready"
      PROVE  LInv'
  <2> DEFINE e == [win[w] EXCEPT !.st = st]
  <2>1. /\ e \in Window /\ e.own = win[w].own /\ e.asked = win[w].asked
        /\ e.chan = win[w].chan /\ e.st = st /\ e.helper = win[w].helper
    BY <1>2 DEF Window, WindowStates
  <2>2. win' = [win EXCEPT ![w] = e]
    BY <1>3
  <2>3. /\ e.chan = "closed" => e.st \notin {"running", "ready"} /\ e.helper # "seen"
        /\ e.st # "stuck" /\ e.helper # "harmed"
        /\ e.asked /\ e.helper = "unseen" =>
             e.chan # "closed" /\ Main(win[w].own) \in EndPlaces
    BY <1>2, <1>3, <2>1 DEF WindowOf
  <2> HIDE DEF e
  <2> QED BY <1>1, <1>2, <2>1, <2>2, <2>3, WindowChangedStep
<1>4. ASSUME NEW h \in {"unseen", "late", "gone", "reused"},
             win' = [win EXCEPT ![w].helper = h], win[w].st # "stuck",
             win[w].asked /\ h = "unseen" =>
               win[w].chan # "closed" /\ Main(win[w].own) \in EndPlaces
      PROVE  LInv'
  <2> DEFINE e == [win[w] EXCEPT !.helper = h]
  <2>1. /\ e \in Window /\ e.own = win[w].own /\ e.asked = win[w].asked
        /\ e.chan = win[w].chan /\ e.st = win[w].st /\ e.helper = h
    BY <1>2 DEF Window, HelperStates
  <2>2. win' = [win EXCEPT ![w] = e]
    BY <1>4
  <2>3. /\ e.chan = "closed" => e.st \notin {"running", "ready"} /\ e.helper # "seen"
        /\ e.st # "stuck" /\ e.helper # "harmed"
        /\ e.asked /\ e.helper = "unseen" =>
             e.chan # "closed" /\ Main(win[w].own) \in EndPlaces
    BY <1>2, <1>4, <2>1 DEF WindowOf
  <2> HIDE DEF e
  <2> QED BY <1>1, <1>2, <2>1, <2>2, <2>3, WindowChangedStep
<1>5. CASE WindowReady(w)
  BY <1>3, <1>5 DEF WindowReady
<1>6. CASE WindowQuits(w)
  BY <1>3, <1>6 DEF WindowQuits
<1>7. CASE WindowDies(w)
  BY <1>3, <1>7 DEF WindowDies
<1>8. CASE HelperBorn(w)
  <2>1. win[w].st \in {"running", "ready"}
    BY <1>8 DEF HelperBorn
  <2>2. win[w].chan # "closed" /\ win[w].st # "stuck"
    BY <1>2, <2>1 DEF WindowOf
  <2>3. CASE BeingStopped(w)
    <3>1. win' = [win EXCEPT ![w].helper = "late"]
      BY <1>8, <2>3 DEF HelperBorn
    <3> QED BY <1>4, <2>2, <3>1
  <2>4. CASE ~BeingStopped(w)
    <3>1. win' = [win EXCEPT ![w].helper = "unseen"]
      BY <1>8, <2>4 DEF HelperBorn
    <3>2. win[w].asked => win[w].chan # "closed" /\ Main(win[w].own) \in EndPlaces
      BY <1>2, <2>2, <2>4 DEF WindowOf
    <3> QED BY <1>4, <2>2, <3>1, <3>2
  <2> QED BY <2>3, <2>4
<1>9. CASE HelperEnds(w)
  <2>1. win[w].helper = "seen"
    BY <1>9 DEF HelperEnds
  <2>2. win[w].st # "stuck"
    BY <1>2, <2>1 DEF WindowOf
  <2> QED BY <1>4, <1>9, <2>2 DEF HelperEnds
<1> QED BY <1>5, <1>6, <1>7, <1>8, <1>9 DEF WindowStep

-----------------------------------------------------------------------------
(* The window has been stopped *)

(* Its leftovers are cleaned up before the channel is closed.              *)
LEMMA StopDoneStep ==
  ASSUME LInv, NEW l \in Parents, NEW t \in Threads, StopDone(l, t)
  PROVE  LInv'
<1> DEFINE w == obj[<<l, t>>]
           h == IF win[w].st \in Live THEN Captured(win[w].helper, "seen") ELSE win[w].helper
           place == IF after[<<l, t>>] = "back" THEN Back(l, t) ELSE after[<<l, t>>]
<1>1. /\ pc[<<l, t>>] = "stopping"
      /\ window' = [window EXCEPT ![l] = 0] /\ Go(l, t, place)
      /\ obj' = [obj EXCEPT ![<<l, t>>] = 0] /\ after' = [after EXCEPT ![<<l, t>>] = "new"]
      /\ UNCHANGED <<lock, marker, port, srv, why, server, facts, shown, clicks, helpers>>
  BY DEF StopDone, shared, session
<1>2. PlaceTypes /\ ServerTypes /\ WindowTypes /\ ServerInv /\ ThreadInv /\ WindowInv
  BY TypesAre DEF LInv
<1>3. w \in DOMAIN win /\ w # 0 /\ win[w] \in Window /\ win[w].own = l /\ WindowOf(w)
  BY <1>1, InHand DEF Handling
<1>4. PICK st \in {"none", "gone", "stuck"} :
        /\ win' = [win EXCEPT ![w] = [win[w] EXCEPT !.chan = "closed", !.helper = Cleaned(h),
                                                    !.st = st]]
        /\ st = "stuck" => win[w].st \in Live
        /\ faults' = faults \/ (faults < MaxFaults /\ faults' = faults + 1)
  <2> DEFINE shut == [win[w] EXCEPT !.chan = "closed", !.helper = Cleaned(h)]
  <2>1. CASE /\ win' = [win EXCEPT ![w] = [shut EXCEPT
                          !.st = IF win[w].st = "none" THEN "none" ELSE "gone"]]
             /\ UNCHANGED faults
    BY <2>1
  <2>2. CASE /\ win[w].st \in {"running", "ready"} /\ faults < MaxFaults
             /\ faults' = faults + 1 /\ win' = [win EXCEPT ![w] = [shut EXCEPT !.st = "stuck"]]
    BY <2>2 DEF Live
  <2>3. CASE win[w].st = "stuck" /\ win' = [win EXCEPT ![w] = shut] /\ UNCHANGED faults
    <3>1. shut = [shut EXCEPT !.st = "stuck"]
      BY <1>3, <2>3 DEF Window
    <3> QED BY <2>3, <3>1 DEF Live
  <2> QED BY <2>1, <2>2, <2>3 DEF StopDone
<1> DEFINE e == [win[w] EXCEPT !.chan = "closed", !.helper = Cleaned(h), !.st = st]
<1>5. h \in HelperStates /\ Cleaned(h) \in HelperStates /\ Cleaned(h) # "seen"
  BY <1>3 DEF Window, Captured, Cleaned, HelperStates
<1>6. /\ e \in Window /\ e.own = l /\ e.asked = win[w].asked /\ e.chan = "closed"
      /\ e.st = st /\ e.helper = Cleaned(h)
  BY <1>3, <1>5 DEF Window, WindowStates, Channels
<1>7. win' = [win EXCEPT ![w] = e]
  BY <1>4
<1>8. /\ win' \in Seq(Window) /\ Len(win') = Len(win) /\ DOMAIN win' = DOMAIN win
      /\ win'[w] = e /\ \A v \in DOMAIN win : v # w => win'[v] = win[v]
  <2> HIDE DEF e, w
  <2> QED BY <1>2, <1>3, <1>6, <1>7, WindowChanged
<1>9. place \in Onward \ Handling /\ (place = "opened" => t # "main" \/ why'[l] = "launch")
  <2>1. after[<<l, t>>] \in {"new", "back", "down"}
    BY <1>2 DEF WindowTypes
  <2> QED BY <1>1, <2>1 DEF Back, Onward, WindowPlaces, Handling
<1>10. pc[<<l, t>>] \in Active
  BY <1>1 DEF Active, WindowPlaces
<1>11. /\ pc' \in [Parents \X Threads -> Places] /\ pc'[<<l, t>>] = place
       /\ \A k \in Parents, u \in Threads :
            k # l \/ u # t => pc'[<<k, u>>] = pc[<<k, u>>]
       /\ \A k \in Parents : Moves(k) /\ (Main(k) \in EndPlaces <=> Main(k)' \in EndPlaces)
       /\ Main(l) \notin EndPlaces
       /\ \A k \in Parents :
            /\ Main(k)' \in {"start", "stale", "probe"} \cup EndPlaces
                 => pc'[<<k, "attention">>] = "off"
            /\ why'[k] = "launch" => pc'[<<k, "attention">>] = "off"
            /\ Main(k)' = "opened" => why'[k] = "launch"
  <2>1. \A k \in Parents :
          why'[k] = why[k] \/ (k = l /\ t = "main" /\ why'[k] # "launch")
    BY <1>1
  <2>2. place \in Onward
    BY <1>9
  <2> HIDE DEF place
  <2> QED BY <1>1, <1>2, <1>9, <1>10, <2>1, <2>2, ThreadGoes
<1>12. /\ obj' \in [Parents \X Threads -> 0..Len(win)] /\ obj'[<<l, t>>] = 0
       /\ \A k \in Parents, u \in Threads : k # l \/ u # t => obj'[<<k, u>>] = obj[<<k, u>>]
       /\ window' \in [Parents -> 0..Len(win)] /\ window'[l] = 0
       /\ \A k \in Parents : k # l => window'[k] = window[k]
       /\ after' \in [Parents \X Threads -> {"new", "back", "down"}]
  <2>1. /\ obj \in [Parents \X Threads -> 0..Len(win)] /\ 0 \in 0..Len(win)
        /\ window \in [Parents -> 0..Len(win)]
        /\ after \in [Parents \X Threads -> {"new", "back", "down"}]
    BY <1>2, Windows DEF WindowTypes
  <2> QED BY <1>1, <2>1
<1>13. WindowTypes'
  BY <1>2, <1>8, <1>12 DEF WindowTypes
<1>14. PlaceTypes'
  <2>1. faults' \in 0..MaxFaults
    BY <1>2, <1>4, LauncherAssumption DEF PlaceTypes
  <2> QED BY <1>1, <1>2, <1>11, <2>1 DEF PlaceTypes
<1>15. ThreadInv'
  <2>1. \A k \in Parents, u \in Threads :
          k # l \/ u # t => pc'[<<k, u>>] = pc[<<k, u>>] /\ obj'[<<k, u>>] = obj[<<k, u>>]
    BY <1>11, <1>12
  <2>2. \A v \in DOMAIN win : win'[v].own = win[v].own
    BY <1>3, <1>6, <1>8
  <2>3. obj'[<<l, t>>] # 0 <=> pc'[<<l, t>>] \in Handling
    BY <1>9, <1>11, <1>12
  <2> HIDE DEF w, h, e, place
  <2> QED BY <1>2, <1>11, <1>12, <2>1, <2>2, <2>3, OneThread
<1>16. \A v \in DOMAIN win : v # w => (BeingStopped(v)' <=> BeingStopped(v))
  <2>1. \A k \in Parents, u \in Threads :
          k # l \/ u # t => pc'[<<k, u>>] = pc[<<k, u>>] /\ obj'[<<k, u>>] = obj[<<k, u>>]
    BY <1>11, <1>12
  <2>2. pc'[<<l, t>>] # "stopping"
    BY <1>9, <1>11 DEF Handling
  <2> QED BY <2>1, <2>2, OneStop
<1>17. ASSUME NEW v, v = w PROVE WindowOf(v)'
  <2>1. /\ win'[v].own = l /\ win'[v].asked = win[v].asked /\ win'[v].chan = "closed"
        /\ win'[v].st = st /\ win'[v].helper = Cleaned(h)
    BY <1>6, <1>8, <1>17
  <2>2. win'[v].st = "stuck" => win'[v].helper \notin {"unseen", "late"}
    BY <1>4, <2>1, <1>17 DEF Captured, Cleaned
  <2>3. win'[v].asked /\ win'[v].helper = "unseen" => FALSE
    <3>1. win'[v].helper = "unseen" => win[v].helper = "unseen"
      BY <2>1, <1>17 DEF Captured, Cleaned
    <3>2. win[v].asked => win[v].helper # "unseen"
      BY <1>3, <1>11, <1>17 DEF WindowOf
    <3> QED BY <2>1, <3>1, <3>2
  <2>4. win'[v].helper # "harmed"
    BY <1>3, <2>1, <1>17 DEF WindowOf, Captured, Cleaned
  <2> QED BY <1>5, <2>1, <2>2, <2>3, <2>4 DEF WindowOf
<1>18. WindowInv'
  <2>1. PICK v \in DOMAIN win : v = w
    BY <1>3
  <2> HIDE DEF w
  <2> QED BY <1>2, <1>8, <1>11, <1>16, <1>17, <2>1, OneWindow
<1> QED BY <1>1, <1>11, <1>13, <1>14, <1>15, <1>18, WindowStepDone

-----------------------------------------------------------------------------
(* Restart and Quit, a request to be shown, and the end of a launch *)

(* The window goes first, if there is one.                                 *)
LEMMA TrayStep ==
  ASSUME LInv, NEW l \in Parents, ClickRestart(l) \/ Quit(l)
  PROVE  LInv'
<1>1. PICK purpose \in {"restart", "quit"} : WindowFirst(l, purpose)
  BY DEF ClickRestart, Quit
<1>2. /\ Main(l) = "tray"
      /\ clicks' = clicks \/ (clicks < MaxClicks /\ clicks' = clicks + 1)
  BY DEF ClickRestart, Quit
<1>3. /\ why' = [why EXCEPT ![l] = purpose]
      /\ UNCHANGED <<lock, marker, port, srv, window, server, facts, shown, faults, helpers>>
  BY <1>1 DEF WindowFirst, shared, session
<1>4. PlaceTypes /\ WindowTypes /\ ThreadInv /\ "main" \in Threads
  BY TypesAre DEF LInv, Threads
<1>5. /\ why' \in [Parents -> Purposes] /\ clicks' \in 0..MaxClicks
      /\ \A k \in Parents : why'[k] = why[k] \/ (k = l /\ why'[k] # "launch")
  <2>1. purpose \in Purposes
    BY DEF Purposes
  <2>2. clicks' \in 0..MaxClicks
    BY <1>2, <1>4, LauncherAssumption DEF PlaceTypes
  <2> QED BY <1>3, <1>4, <2>1, <2>2 DEF PlaceTypes
<1>6. CASE window[l] = 0
  <2>1. Go(l, "main", "down") /\ UNCHANGED <<win, obj, after>>
    BY <1>1, <1>6 DEF WindowFirst
  <2>2. /\ "down" \in Places \ Handling /\ "down" # "opened"
        /\ "down" \notin {"start", "stale", "probe"} \cup EndPlaces
        /\ Main(l) \notin Handling \cup EndPlaces
    BY <1>2 DEF Places, MainPlaces, Handling, EndPlaces
  <2>3. Main(l)' = "down"
    BY <2>1, <2>2, MainGoes
  <2>4. Moves(l)
    BY <1>2, <2>3 DEF Moves
  <2>5. lock' \in Parents \cup {None} /\ marker' \in BOOLEAN
    BY <1>3, <1>4 DEF PlaceTypes
  <2> QED BY <1>3, <1>5, <2>1, <2>2, <2>4, <2>5, MainStep
<1>7. CASE window[l] # 0
  <2>1. PICK seen \in {"seen", "blind"} : BeginStop(l, "main", window[l], "down", seen)
    BY <1>1, <1>7 DEF WindowFirst
  <2>2. PICK w \in DOMAIN win : w = window[l] /\ win[w].own = l
    BY <1>4, <1>7, Windows DEF ThreadInv, LaunchOf
  <2>3. pc[<<l, "main">>] \in Active \ {"stopping"}
    BY <1>2 DEF Main, Active
  <2>4. BeginStop(l, "main", w, "down", seen)
    BY <2>1, <2>2
  <2>5. "down" \in {"new", "back", "down"}
    OBVIOUS
  <2> QED BY <1>3, <1>4, <1>5, <2>2, <2>3, <2>4, <2>5, BeginStopStep
<1> QED BY <1>6, <1>7

(* The attention thread takes the marker.                                  *)
LEMMA ConsumeStep ==
  ASSUME LInv, NEW l \in Parents, Consume(l)
  PROVE  LInv'
<1>1. /\ pc[<<l, "attention">>] = "waiting" /\ marker' = FALSE
      /\ UNCHANGED <<lock, port, srv, win, why, obj, after, window, server, facts, shown,
                     clicks, faults, helpers>>
  BY DEF Consume, session, bounds
<1>2. PICK place \in {"look", "waiting"} : Go(l, "attention", place)
  BY DEF Consume
<1>3. PlaceTypes /\ WindowTypes /\ ThreadInv /\ WindowInv /\ "attention" \in Threads
  BY TypesAre DEF LInv, Threads
<1>4. /\ place \in Onward \ Handling /\ place # "opened" /\ pc[<<l, "attention">>] \in Active
      /\ pc[<<l, "attention">>] \notin Handling
  BY <1>1, <1>2 DEF Onward, Active, WindowPlaces, Handling
<1>5. /\ pc' \in [Parents \X Threads -> Places] /\ pc'[<<l, "attention">>] = place
      /\ \A k \in Parents, u \in Threads :
           k # l \/ u # "attention" => pc'[<<k, u>>] = pc[<<k, u>>]
      /\ \A k \in Parents : Moves(k) /\ (Main(k) \in EndPlaces <=> Main(k)' \in EndPlaces)
      /\ \A k \in Parents :
           /\ Main(k)' \in {"start", "stale", "probe"} \cup EndPlaces
                => pc'[<<k, "attention">>] = "off"
           /\ why'[k] = "launch" => pc'[<<k, "attention">>] = "off"
           /\ Main(k)' = "opened" => why'[k] = "launch"
  BY <1>1, <1>2, <1>3, <1>4, ThreadGoes
<1>6. ThreadInv' /\ WindowInv'
  <2>1. \A k \in Parents, u \in Threads :
           \/ pc'[<<k, u>>] = pc[<<k, u>>]
           \/ pc[<<k, u>>] \notin Handling /\ pc'[<<k, u>>] \notin Handling
    BY <1>4, <1>5
  <2> QED BY <1>1, <1>3, <1>5, <2>1, WindowsKept
<1>7. PlaceTypes' /\ WindowTypes'
  BY <1>1, <1>3, <1>5 DEF PlaceTypes, WindowTypes
<1> QED BY <1>1, <1>5, <1>6, <1>7, WindowStepDone

(* A launch that ends takes its threads with it, and leaves its windows as *)
(* they are.                                                               *)
LEMMA EndStep ==
  ASSUME LInv, NEW l \in Parents, Exit(l) \/ ParentDies(l)
  PROVE  LInv'
<1>1. PICK place \in {"exited", "crashed"} :
        /\ Ended(l, place)
        /\ place = "exited" => Main(l) = "unlock"
        /\ Main(l) \notin EndPlaces
  <2>1. CASE Exit(l)
    BY <2>1 DEF Exit, EndPlaces
  <2>2. CASE ParentDies(l)
    BY <2>2 DEF ParentDies
  <2> QED BY <2>1, <2>2
<1>2. /\ UNCHANGED <<marker, port, srv, win, why, window, server, facts, shown, clicks,
                     helpers>>
      /\ lock' \in {lock, None}
      /\ faults' = faults \/ (faults < MaxFaults /\ faults' = faults + 1)
  <2>1. CASE Exit(l)
    BY <2>1 DEF Exit, session, bounds
  <2>2. CASE ParentDies(l)
    BY <2>2 DEF ParentDies, session, shared
  <2> QED BY <2>1, <2>2
<1>3. PlaceTypes /\ ServerTypes /\ WindowTypes /\ ServerInv /\ ThreadInv /\ WindowInv
  BY TypesAre DEF LInv
<1>4. /\ Threads = {"main", "attention"} /\ place \in Places /\ "off" \in Places
      /\ place \in EndPlaces \ Handling /\ "off" \notin Handling
  BY <1>1 DEF Threads, Places, EndPlaces, Handling
<1>5. /\ pc' \in [Parents \X Threads -> Places]
      /\ pc'[<<l, "main">>] = place /\ pc'[<<l, "attention">>] = "off"
      /\ \A k \in Parents, u \in Threads : k # l => pc'[<<k, u>>] = pc[<<k, u>>]
      /\ \A k \in Parents : k # l => Main(k)' = Main(k)
      /\ Main(l)' = place
  <2>1. /\ pc \in [Parents \X Threads -> Places]
        /\ pc' = [pc EXCEPT ![<<l, "main">>] = place, ![<<l, "attention">>] = "off"]
    BY <1>1, <1>3 DEF Ended, PlaceTypes
  <2> QED BY <1>4, <2>1 DEF Main
<1>6. /\ obj' \in [Parents \X Threads -> 0..Len(win)]
      /\ \A u \in Threads : obj'[<<l, u>>] = 0
      /\ \A k \in Parents, u \in Threads : k # l => obj'[<<k, u>>] = obj[<<k, u>>]
      /\ after' \in [Parents \X Threads -> {"new", "back", "down"}]
  <2>1. /\ obj \in [Parents \X Threads -> 0..Len(win)] /\ 0 \in 0..Len(win)
        /\ after \in [Parents \X Threads -> {"new", "back", "down"}]
    BY <1>3, Windows DEF WindowTypes
  <2>2. /\ obj' = [p \in Parents \X Threads |-> IF p[1] = l THEN 0 ELSE obj[p]]
        /\ after' = [p \in Parents \X Threads |-> IF p[1] = l THEN "new" ELSE after[p]]
    BY <1>1, <2>1 DEF Ended
  <2> QED BY <2>1, <2>2
<1>7. PlaceTypes' /\ WindowTypes'
  <2>1. faults' \in 0..MaxFaults
    BY <1>2, <1>3, LauncherAssumption DEF PlaceTypes
  <2> QED BY <1>2, <1>3, <1>5, <1>6, <2>1 DEF PlaceTypes, WindowTypes
<1>8. \A k \in Parents : Moves(k)
  <2>1. Moves(l)
    <3>1. place = "exited" => server[l] = 0
      BY <1>1, <1>3 DEF ServerInv, ServerOf
    <3>2. Main(l) # "crashed" /\ (Main(l) = "health" => place = "crashed")
      BY <1>1 DEF EndPlaces
    <3> QED BY <1>1, <1>5, <3>1, <3>2 DEF Moves
  <2>2. ASSUME NEW k \in Parents, k # l PROVE Moves(k)
    BY <1>5, <2>2 DEF Moves
  <2> QED BY <2>1, <2>2
<1>9. ThreadInv'
  <2>1. ASSUME NEW k \in Parents PROVE LaunchOf(k)'
    <3>1. LaunchOf(k)
      BY <1>3 DEF ThreadInv
    <3>2. CASE k = l
      BY <1>2, <1>4, <1>5, <3>1, <3>2 DEF LaunchOf, EndPlaces
    <3>3. CASE k # l
      <4>1. pc'[<<k, "attention">>] = pc[<<k, "attention">>] /\ Main(k)' = Main(k)
        BY <1>4, <1>5, <3>3
      <4> QED BY <1>2, <3>1, <4>1 DEF LaunchOf
    <3> QED BY <3>2, <3>3
  <2>2. ASSUME NEW k \in Parents, NEW u \in Threads PROVE ThreadOf(k, u)'
    <3>1. ThreadOf(k, u)
      BY <1>3 DEF ThreadInv
    <3>2. CASE k = l
      <4>1. obj'[<<l, u>>] = 0 /\ pc'[<<l, u>>] \notin Handling
        BY <1>4, <1>5, <1>6
      <4> QED BY <3>2, <4>1 DEF ThreadOf
    <3>3. CASE k # l
      <4>1. pc'[<<k, u>>] = pc[<<k, u>>] /\ obj'[<<k, u>>] = obj[<<k, u>>]
        BY <1>5, <1>6, <3>3
      <4> QED BY <1>2, <3>1, <4>1 DEF ThreadOf
    <3> QED BY <3>2, <3>3
  <2> QED BY <2>1, <2>2 DEF ThreadInv
<1>10. WindowInv'
  <2> SUFFICES ASSUME NEW w \in DOMAIN win PROVE WindowOf(w)'
    BY <1>2 DEF WindowInv
  <2>1. WindowOf(w) /\ win[w].own \in Parents /\ w # 0 /\ win' = win
    BY <1>2, <1>3, Windows DEF WindowInv
  <2>2. \A k \in Parents : Main(k) \in EndPlaces => Main(k)' \in EndPlaces
    BY <1>1, <1>5
  <2>3. CASE win[w].own = l
    <3>1. Main(win[w].own)' \in EndPlaces
      BY <1>4, <1>5, <2>1, <2>3 DEF Main
    <3> QED BY <2>1, <3>1 DEF WindowOf
  <2>4. CASE win[w].own # l
    <3>1. BeingStopped(w) => BeingStopped(w)'
      <4> SUFFICES ASSUME NEW k \in Parents, NEW u \in Threads,
                          pc[<<k, u>>] = "stopping", obj[<<k, u>>] = w
                   PROVE  BeingStopped(w)'
        BY DEF BeingStopped
      <4>1. win[w].own = k
        BY <1>3, <2>1 DEF ThreadInv, ThreadOf
      <4>2. pc'[<<k, u>>] = "stopping" /\ obj'[<<k, u>>] = w
        BY <1>5, <1>6, <2>4, <4>1
      <4>3. <<k, u>> \in Parents \X Threads
        OBVIOUS
      <4> QED BY <4>2, <4>3 DEF BeingStopped
    <3>2. Main(win[w].own) \in EndPlaces => Main(win[w].own)' \in EndPlaces
      BY <2>1, <2>2
    <3> QED BY <2>1, <3>1, <3>2 DEF WindowOf
  <2> QED BY <2>3, <2>4
<1> QED BY <1>2, <1>7, <1>8, <1>9, <1>10, WindowStepDone

-----------------------------------------------------------------------------
(* The theorems *)

(* Every step keeps the invariant.                                         *)
LEMMA LInvStep ==
  ASSUME LInv, [Next]_vars
  PROVE  LInv'
<1>1. ASSUME NEW l \in Parents, NEW t \in Threads, OpensWindow(l, t) \/ StopsWindow(l, t)
      PROVE  LInv'
  BY <1>1, LookStep, NewWindowStep, SpawnWindowStep, AcceptStep, CaptureStep, StopDoneStep
     DEF OpensWindow, StopsWindow
<1>2. ASSUME NEW l \in Parents, ParentStep(l) PROVE LInv'
  <2>1. CASE \E t \in Threads : OpensWindow(l, t) \/ StopsWindow(l, t)
    BY <1>1, <2>1
  <2>2. CASE ReadLock(l) \/ ClearStale(l) \/ ProbePort(l) \/ AcquireLock(l)
    BY <2>2, LockSteps
  <2>3. CASE SpawnServer(l) \/ Healthy(l) \/ Unhealthy(l) \/ ServerStopped(l) \/ PortWaited(l)
    BY <2>3, SpawnServerStep, HealthSteps, ServerStoppedStep, PortWaitedStep
  <2>4. CASE AskServer(l) \/ ClickOpen(l)
    BY <2>4, AskSteps
  <2>5. CASE FinishLaunch(l) \/ TrayReady(l)
    BY <2>5, FinishLaunchStep, TrayReadyStep
  <2>6. CASE ClickRestart(l) \/ Quit(l)
    BY <2>6, TrayStep
  <2>7. CASE Exit(l) \/ Consume(l)
    BY <2>7, EndStep, ConsumeStep
  <2> QED BY <1>2, <2>1, <2>2, <2>3, <2>4, <2>5, <2>6, <2>7 DEF ParentStep
<1>3. ASSUME NEW l \in Parents, ParentDies(l) PROVE LInv'
  BY <1>3, EndStep
<1>4. ASSUME NEW w \in 1..Len(win), WindowStep(w) PROVE LInv'
  BY <1>4, ChildOfWindowSteps
<1>5. CASE (\E i \in 1..Len(srv) : ServerStep(i)) \/ PortReleased
  BY <1>5, ChildSteps
<1>6. CASE UNCHANGED vars
  <2>1. UNCHANGED <<lock, marker, port, srv, win, pc, why, obj, after, server, window, facts,
                    shown, clicks, faults, helpers>>
    BY <1>6 DEF vars
  <2>2. PlaceTypes' /\ WindowTypes'
    BY <2>1, TypesAre DEF LInv, PlaceTypes, WindowTypes
  <2>3. ThreadInv'
    BY <2>1 DEF LInv, ThreadInv, ThreadOf, LaunchOf, Main
  <2>4. WindowInv'
    BY <2>1 DEF LInv, WindowInv, WindowOf, Main, BeingStopped
  <2>5. \A k \in Parents : Moves(k)
    BY <2>1 DEF Moves, Main
  <2> QED BY <2>1, <2>2, <2>3, <2>4, <2>5, WindowStepDone
<1> QED BY <1>2, <1>3, <1>4, <1>5, <1>6 DEF Next

(* What every launch, server child and window keeps to, in whatever order  *)
(* clicks, crashes, restarts and requests to be shown come.                *)
THEOREM Bookkeeping == Spec => []LInv
<1>1. Init => LInv
  BY InitLInv
<1>2. LInv /\ [Next]_vars => LInv'
  BY LInvStep
<1> QED BY <1>1, <1>2, PTL DEF Spec

(* The program state never leaves its types.                               *)
THEOREM TypeCorrect == Spec => []TypeOK
<1>1. LInv => TypeOK
  BY DEF LInv
<1> QED BY <1>1, Bookkeeping, PTL

(* No start, failed start, restart or quit lets go of a server child that  *)
(* runs, and ready is only said of what was proved for that very child     *)
(* (gui.py: start_server, restart, quit, _new_ready_publisher).            *)
THEOREM NoServerIsLost == Spec => []ServerIsAccountedFor
<1>1. LInv => NoOrphanServer
  <2> SUFFICES ASSUME LInv, NEW i \in 1..Len(srv), srv[i].st \in {"starting", "serving"}
               PROVE  Holds(srv[i].own, i) \/ Main(srv[i].own) = "crashed"
    BY DEF NoOrphanServer
  <2>1. i \in DOMAIN srv /\ i # 0 /\ srv[i].own \in Parents
    BY ServerFacts, TypesAre DEF LInv
  <2>2. server[srv[i].own] = i \/ Main(srv[i].own) = "crashed"
    BY <2>1 DEF LInv, ServerInv, RunsOf
  <2>3. Main(srv[i].own) \in {"left", "exited"} => server[srv[i].own] = 0
    BY <2>1 DEF LInv, ServerInv, ServerOf
  <2> QED BY <2>1, <2>2, <2>3 DEF Holds
<1>2. LInv => ReadyMeansProved
  <2> SUFFICES ASSUME LInv, Answers, srv[port].page = Facts, server[srv[port].own] = port
               PROVE  shown[srv[port].own] = Facts
    BY DEF ReadyMeansProved
  <2>1. /\ port \in DOMAIN srv /\ port # 0 /\ srv[port].own \in Parents
        /\ shown \in [Parents -> SUBSET Facts]
    BY ServerFacts, TypesAre DEF LInv, Answers, ServerTypes
  <2>2. srv[port].page \subseteq shown[srv[port].own]
    BY <2>1 DEF LInv, ServerInv, ServerOf
  <2> QED BY <2>1, <2>2
<1>3. LInv => ServerIsAccountedFor
  BY <1>1, <1>2 DEF ServerIsAccountedFor
<1> QED BY <1>3, Bookkeeping, PTL

(* A window that took the quit command and has been stopped leaves no      *)
(* helper behind that could be identified when it was asked, and no        *)
(* stranger that got its number is harmed (window_process.stop).           *)
THEOREM HelpersAreCleanedUp == Spec => []CleanStop
<1>1. LInv => CleanStop
  <2> SUFFICES ASSUME LInv, NEW w \in 1..Len(win)
               PROVE  /\ win[w].asked /\ win[w].chan = "closed" /\ ~BeingStopped(w)
                           => win[w].helper \notin {"unseen", "seen"}
                      /\ win[w].helper # "harmed"
    BY DEF CleanStop
  <2>1. WindowOf(w)
    BY Windows, TypesAre DEF LInv, WindowInv
  <2> QED BY <2>1 DEF WindowOf
<1> QED BY <1>1, Bookkeeping, PTL

-----------------------------------------------------------------------------
(* What JARVIS keeps on the machine. *)

Soundness == {Data!Absent, "sound", "damaged"}
Databases == [is : Soundness, rows : SUBSET (Rows \cup {Data!Old}), schema : BOOLEAN]
Markers == {Data!Absent, "no_legacy_found", "skipped_destination_has_data",
            "skipped_invalid_legacy", "failed_copy", "failed_verification",
            "failed_schema", "migrated"}
Importing == {"find", "look", "check", "backup", "copy", "replace", "verify", "schema", "record"}

\* The types, those of the database, those of the application's use and those of its
\* removal.
FileTypes ==
  /\ legacy \in Soundness /\ db \in Databases /\ decided \in Markers /\ tmp \in Soundness
  /\ backup \in BOOLEAN /\ folder \in BOOLEAN

UseTypes ==
  /\ at \in [Servers -> Importing \cup {"off", "marker", "tables", "serve"}]
  /\ opened \subseteq Servers /\ keys \subseteq Keys /\ shortcut \in BOOLEAN
  /\ breaks \in 0..MaxBreaks /\ starts \in 0..MaxStarts
  /\ written \subseteq Rows /\ saved \subseteq Keys

RemovalTypes ==
  /\ un \in {Data!Absent, "prove", "shortcut", "keys", "data", "final", "evidence", "sweep", "done"}
  /\ todo \subseteq Keys /\ report \in {Data!Absent, "starting", "complete", "incomplete"}
  /\ purge \in BOOLEAN /\ failed \in BOOLEAN /\ ok \in BOOLEAN
  /\ evidence \in BOOLEAN /\ ran \in BOOLEAN

DTyped == FileTypes /\ UseTypes /\ RemovalTypes

\* How far the cleanup is, for an application that does not run meanwhile.
CleanupInv ==
  /\ ok => un \in {"sweep", "done"}
  /\ un \in {"keys", "data", "final"} /\ ~failed /\ ~ran => ~shortcut
  /\ un = "keys" /\ ~failed /\ ~ran => keys \subseteq todo
  /\ un = "data" => ~failed
  /\ un = "data" /\ ~ran => keys = {}
  /\ un = "final" /\ purge /\ ~failed /\ ~ran => keys = {} /\ ~folder
  /\ un \in {"sweep", "done"} /\ ok /\ ~ran => ~shortcut /\ (purge => keys = {})
  /\ un = "done" /\ ok /\ purge /\ ~ran => ~folder
  /\ un \in {"sweep", "done"} /\ ~ok => evidence
  /\ un \in {"sweep", "done"} /\ ~ok /\ ~ran => folder

\* The data goes only where the user asked for it, and no server runs unseen.
AppInv ==
  /\ un = Data!Absent => ~purge /\ ~failed /\ ~ok
  /\ un \in {"keys", "data"} => purge
  /\ ~purge => keys = saved
  /\ un # Data!Absent /\ ~ran => \A s \in Servers : at[s] = "off"

\* How far the import is, until the data is to go: what there was at the look stays so.
ImportInv ==
  ~purge =>
    /\ Data!RowsAreKept
    /\ db.is = Data!Absent => db.rows = {}
    /\ \A s \in Servers :
         /\ at[s] \in Importing => decided = Data!Absent
         /\ at[s] \in {"check", "backup", "copy", "replace"} => db.is # "damaged" /\ db.rows = {}
         /\ at[s] = "verify" => written = {} /\ (db.is = "sound" => Data!Old \in db.rows)
         /\ at[s] = "schema" => db.is = "sound" /\ written = {} /\ Data!Old \in db.rows
         /\ at[s] = "record" => db.is = "sound" /\ db.schema /\ Data!Old \in db.rows
         /\ at[s] = "serve" => db.is = "sound" /\ db.schema

RInv == DTyped /\ AppInv /\ CleanupInv

-----------------------------------------------------------------------------

LEMMA DTypedIsTypeOK == DTyped => Data!TypeOK
<1> SUFFICES ASSUME DTyped PROVE Data!TypeOK OBVIOUS
<1>1. {backup, folder, shortcut} \subseteq BOOLEAN BY DEF DTyped, FileTypes, UseTypes
<1>2. {purge, failed, ok, evidence, ran} \subseteq BOOLEAN BY DEF DTyped, RemovalTypes
<1> QED BY <1>1, <1>2 DEF DTyped, FileTypes, UseTypes, RemovalTypes, Data!TypeOK, Soundness,
          Databases, Markers, Importing

\* The databases that are put in place of another, and what create_tables makes of one.
LEMMA DbParts ==
  /\ Data!NoDb \in Databases /\ Data!NoDb.is = Data!Absent /\ Data!NoDb.rows = {}
  /\ LET d == Data!Db("sound", {}, TRUE)
     IN d \in Databases /\ d.is = "sound" /\ d.rows = {} /\ d.schema = TRUE
  /\ LET d == Data!Db("sound", {Data!Old}, FALSE)
     IN d \in Databases /\ d.is = "sound" /\ d.rows = {Data!Old}
  /\ LET d == Data!Db("damaged", {}, FALSE)
     IN d \in Databases /\ d.is = "damaged" /\ d.rows = {}
BY DEF Data!NoDb, Data!Db, Databases, Soundness, Data!Absent

LEMMA DbCompleted ==
  ASSUME NEW d \in Databases
  PROVE  LET e == [d EXCEPT !.schema = TRUE]
         IN e \in Databases /\ e.is = d.is /\ e.rows = d.rows /\ e.schema = TRUE
BY DEF Databases

LEMMA DataInit == Data!Init => RInv /\ ImportInv
<1> SUFFICES ASSUME Data!Init PROVE RInv /\ ImportInv OBVIOUS
<1>1. folder = (db.is # Data!Absent) BY DEF Data!Init
<1>2. folder \in BOOLEAN BY <1>1
<1>0. db \in Databases BY DbParts DEF Data!Init
<1>3. DTyped
  <2>1. FileTypes BY <1>0, <1>2 DEF Data!Init, FileTypes, Soundness, Markers, Data!Absent
  <2>2. UseTypes
    <3>1. shortcut \in BOOLEAN BY DEF Data!Init
    <3>2. 0 \in 0..MaxBreaks /\ 0 \in 0..MaxStarts BY DataAssumption
    <3>3. at \in [Servers -> Importing \cup {"off", "marker", "tables", "serve"}] BY DEF Data!Init
    <3> QED BY <3>1, <3>2, <3>3 DEF Data!Init, UseTypes
  <2>3. RemovalTypes BY DEF Data!Init, RemovalTypes, Data!Absent
  <2> QED BY <2>1, <2>2, <2>3 DEF DTyped
<1>4. AppInv /\ CleanupInv BY DEF Data!Init, AppInv, CleanupInv, Data!Absent
<1>5. ImportInv BY DEF Data!Init, ImportInv, Data!RowsAreKept, Data!Absent, Data!NoDb, Data!Db, Importing
<1> QED BY <1>3, <1>4, <1>5 DEF RInv

LEMMA MigrationTypes ==
  ASSUME DTyped, NEW s \in Servers, Data!Migration(s)
  PROVE  DTyped'
<1> USE DataAssumption DEF DTyped, FileTypes, UseTypes, RemovalTypes, Data!Fault, Data!Fine, Data!At, Data!Goes, Importing
<1>1. CASE Data!StartApp(s)
  <2>1. ran' \in BOOLEAN BY <1>1 DEF Data!StartApp
  <2> QED BY <1>1, <2>1 DEF Data!StartApp, Data!cleanup
<1>2. CASE Data!ReadMarker(s) BY <1>2 DEF Data!ReadMarker, Data!data, Data!others, Data!cleanup
<1>3. CASE Data!FindLegacy(s) BY <1>3 DEF Data!FindLegacy, Data!Decides, Data!Records, Data!others, Data!cleanup, Markers
<1>4. CASE Data!LookAtDestination(s) BY <1>4 DEF Data!LookAtDestination, Data!Decides, Data!Records, Data!others, Data!cleanup, Markers
<1>5. CASE Data!CheckLegacy(s) BY <1>5 DEF Data!CheckLegacy, Data!Decides, Data!Records, Data!others, Data!cleanup, Markers
<1>6. CASE Data!Backup(s)
  <2>1. backup' \in BOOLEAN BY <1>6 DEF Data!Backup
  <2> QED BY <1>6, <2>1 DEF Data!Backup, Data!others, Data!cleanup
<1>7. CASE Data!Copy(s) BY <1>7 DEF Data!Copy, Data!others, Data!cleanup, Markers, Soundness
<1>8. CASE Data!Replace(s)
  <2>1. db' \in Databases
    <3>1. CASE tmp = "sound" BY <1>8, <3>1, DbParts DEF Data!Replace
    <3>2. CASE tmp = "damaged" BY <1>8, <3>2, DbParts DEF Data!Replace
    <3>3. CASE tmp = Data!Absent BY <1>8, <3>3 DEF Data!Replace
    <3> QED BY <3>1, <3>2, <3>3 DEF Soundness
  <2>2. decided' \in Markers /\ tmp' \in Soundness BY <1>8 DEF Data!Replace, Markers, Soundness
  <2>3. UseTypes'
    <3>1. at' \in [Servers -> Importing \cup {"off", "marker", "tables", "serve"}]
      BY <1>8 DEF Data!Replace
    <3>2. Data!Fine \/ Data!Fault BY <1>8, Zenon DEF Data!Replace
    <3>3. breaks' \in 0..MaxBreaks BY <3>2
    <3> QED BY <1>8, <3>1, <3>3 DEF Data!Replace, Data!others
  <2>4. RemovalTypes' BY <1>8 DEF Data!Replace, Data!others, Data!cleanup
  <2> QED BY <1>8, <2>1, <2>2, <2>3, <2>4 DEF Data!Replace
<1>9. CASE Data!Verify(s) BY <1>9, DbParts DEF Data!Verify, Data!Decides, Data!Records, Data!others, Data!cleanup, Markers
<1>10. CASE Data!Schema(s)
  <2>1. db' \in Databases BY <1>10, DbCompleted DEF Data!Schema
  <2> QED BY <1>10, <2>1 DEF Data!Schema, Data!others, Data!cleanup, Markers
<1>11. CASE Data!Record(s) BY <1>11 DEF Data!Record, Data!Decides, Data!Records, Data!others, Data!cleanup, Markers
<1>12. CASE Data!Tables(s)
  <2>1. db' \in Databases BY <1>12, DbParts, DbCompleted DEF Data!Tables
  <2>2. UseTypes' BY <1>12 DEF Data!Tables, Data!others
  <2>3. RemovalTypes' BY <1>12 DEF Data!Tables, Data!others, Data!cleanup
  <2> QED BY <1>12, <2>1, <2>2, <2>3 DEF Data!Tables
<1> QED BY <1>1, <1>2, <1>3, <1>4, <1>5, <1>6, <1>7, <1>8, <1>9, <1>10, <1>11, <1>12 DEF Data!Migration

LEMMA UseTypesStep ==
  ASSUME DTyped, NEW s \in Servers,
         Data!Enable(s) \/ Data!Ends(s) \/ (\E row \in Rows : Data!Write(s, row)) \/ (\E k \in Keys : Data!SaveKey(s, k))
  PROVE  DTyped'
<1> USE DataAssumption DEF DTyped, FileTypes, UseTypes, RemovalTypes, Data!Fault, Data!Fine, Data!At, Data!Goes, Importing
<1>1. CASE Data!Enable(s) BY <1>1 DEF Data!Enable, Data!data, Data!cleanup
<1>2. CASE Data!Ends(s) BY <1>2 DEF Data!Ends, Data!data, Data!cleanup
<1>3. ASSUME NEW row \in Rows, Data!Write(s, row) PROVE DTyped' BY <1>3 DEF Data!Write, Data!cleanup, Databases
<1>4. ASSUME NEW k \in Keys, Data!SaveKey(s, k) PROVE DTyped' BY <1>4 DEF Data!SaveKey, Data!data, Data!cleanup
<1> QED BY <1>1, <1>2, <1>3, <1>4

LEMMA RemovalTypesStep ==
  ASSUME DTyped, Data!Uninstaller
  PROVE  DTyped'
<1> USE DataAssumption DEF DTyped, FileTypes, UseTypes, RemovalTypes, Data!Fault, Data!Fine, Importing
<1>1. ASSUME NEW all \in BOOLEAN, Data!Uninstall(all) PROVE DTyped'
  <2>1. ran' \in BOOLEAN BY <1>1 DEF Data!Uninstall, Data!Running
  <2> QED BY <1>1, <2>1 DEF Data!Uninstall, Data!data
<1>2. ASSUME NEW k \in Keys, Data!RemoveKey(k) PROVE DTyped'
  <2>1. failed' \in BOOLEAN BY <1>2 DEF Data!RemoveKey
  <2>2. keys' \subseteq Keys /\ todo' \subseteq Keys BY <1>2 DEF Data!RemoveKey
  <2> QED BY <1>2, <2>1, <2>2 DEF Data!RemoveKey, Data!app
<1>3. CASE Data!Prove BY <1>3 DEF Data!Prove, Data!app
<1>4. CASE Data!RemoveShortcut
  <2>1. failed' \in BOOLEAN /\ shortcut' \in BOOLEAN BY <1>4 DEF Data!RemoveShortcut
  <2> QED BY <1>4, <2>1 DEF Data!RemoveShortcut, Data!app
<1>5. CASE Data!KeysDone BY <1>5 DEF Data!KeysDone, Data!app
<1>6. CASE Data!RemoveData
  <2>1. failed' \in BOOLEAN /\ folder' \in BOOLEAN /\ backup' \in BOOLEAN
    BY <1>6 DEF Data!RemoveData, Data!Wiped
  <2>2. db' \in Databases BY <1>6, DbParts DEF Data!RemoveData, Data!Wiped
  <2> QED BY <1>6, <2>1, <2>2 DEF Data!RemoveData, Data!Wiped, Markers, Soundness
<1>7. CASE Data!Final
  <2>1. ok' \in BOOLEAN BY <1>7 DEF Data!Final
  <2> QED BY <1>7, <2>1 DEF Data!Final, Data!app
<1>8. CASE Data!CleanupDies BY <1>8 DEF Data!CleanupDies, Data!app
<1>9. CASE Data!KeepEvidence BY <1>9 DEF Data!KeepEvidence, Data!app
<1>10. CASE Data!Sweep
  <2>1. folder' \in BOOLEAN /\ backup' \in BOOLEAN BY <1>10 DEF Data!Sweep, Data!Wiped
  <2>2. db' \in Databases BY <1>10, DbParts DEF Data!Sweep, Data!Wiped
  <2> QED BY <1>10, <2>1, <2>2 DEF Data!Sweep, Data!Wiped, Markers, Soundness
<1> QED BY <1>1, <1>2, <1>3, <1>4, <1>5, <1>6, <1>7, <1>8, <1>9, <1>10 DEF Data!Uninstaller

LEMMA DataTypesStep ==
  ASSUME DTyped, [Data!Next]_(Data!vars)
  PROVE  DTyped'
<1>1. ASSUME NEW s \in Servers, Data!Migration(s) PROVE DTyped' BY <1>1, MigrationTypes
<1>2. ASSUME NEW s \in Servers, Data!Enable(s) \/ Data!Ends(s) \/ (\E row \in Rows : Data!Write(s, row))
                                \/ (\E k \in Keys : Data!SaveKey(s, k))
      PROVE DTyped'
  BY <1>2, UseTypesStep
<1>3. CASE Data!Uninstaller BY <1>3, RemovalTypesStep
<1>4. CASE UNCHANGED Data!vars BY <1>4 DEF Data!vars, DTyped, FileTypes, UseTypes, RemovalTypes
<1> QED BY <1>1, <1>2, <1>3, <1>4 DEF Data!Next

\* A server that is under way is seen: either the uninstaller has not begun, or it does not
\* matter to what its cleanup claims.
LEMMA SeenServer ==
  ASSUME RInv, NEW s \in Servers, at[s] # "off"
  PROVE  un = Data!Absent \/ ran
BY DEF RInv, AppInv

LEMMA MovesAreSeen ==
  ASSUME RInv, NEW s \in Servers, at[s] # "off",
         UNCHANGED <<folder, keys, shortcut, Data!cleanup, saved, ran>>,
         NEW where, Data!Goes(s, where)
  PROVE  AppInv' /\ CleanupInv'
<1>1. un = Data!Absent \/ ran BY SeenServer
<1>2. UNCHANGED <<folder, keys, shortcut, un, purge, todo, failed, report, ok, evidence, saved, ran>>
  BY DEF Data!cleanup
<1>3. AppInv' BY <1>1, <1>2 DEF AppInv, RInv
<1>4. CleanupInv' BY <1>2 DEF CleanupInv, RInv
<1> QED BY <1>3, <1>4

LEMMA ServersAreSeen ==
  ASSUME RInv, NEW s \in Servers,
         \/ Data!Migration(s) \/ Data!Enable(s) \/ Data!Ends(s)
         \/ \E row \in Rows : Data!Write(s, row)
         \/ \E k \in Keys : Data!SaveKey(s, k)
  PROVE  AppInv' /\ CleanupInv'
<1> DEFINE Unseen == /\ at[s] # "off" /\ UNCHANGED <<folder, keys, shortcut, Data!cleanup, saved, ran>>
                    /\ \E where : Data!Goes(s, where)
<1>0. ASSUME Unseen PROVE AppInv' /\ CleanupInv' BY <1>0, MovesAreSeen
<1>1. CASE Data!StartApp(s)
  <2>1. UNCHANGED <<keys, shortcut, un, purge, todo, failed, report, ok, evidence, saved>>
    BY <1>1 DEF Data!StartApp, Data!cleanup
  <2>2. un = Data!Absent \/ ran' BY <1>1 DEF Data!StartApp
  <2>3. ran => ran' BY <1>1 DEF Data!StartApp
  <2>4. AppInv' BY <2>1, <2>2 DEF AppInv, RInv
  <2>5. CASE un = Data!Absent BY <2>1, <2>5 DEF CleanupInv, RInv, AppInv, Data!Absent
  <2>6. CASE ran' BY <2>1, <2>4, <2>6 DEF CleanupInv, RInv
  <2> QED BY <2>2, <2>4, <2>5, <2>6
<1>2. CASE Data!ReadMarker(s)
  <2> Unseen BY <1>2 DEF Data!ReadMarker, Data!data, Data!others, Data!At, Data!Goes
  <2> QED BY <1>0
<1>3. CASE Data!FindLegacy(s)
  <2> Unseen BY <1>3 DEF Data!FindLegacy, Data!others, Data!At, Data!Goes, Data!Decides
  <2> QED BY <1>0
<1>4. CASE Data!LookAtDestination(s)
  <2> Unseen BY <1>4 DEF Data!LookAtDestination, Data!others, Data!At, Data!Goes, Data!Decides
  <2> QED BY <1>0
<1>5. CASE Data!CheckLegacy(s)
  <2> Unseen BY <1>5 DEF Data!CheckLegacy, Data!others, Data!At, Data!Goes, Data!Decides
  <2> QED BY <1>0
<1>6. CASE Data!Backup(s)
  <2> Unseen BY <1>6 DEF Data!Backup, Data!others, Data!At, Data!Goes
  <2> QED BY <1>0
<1>7. CASE Data!Copy(s)
  <2> Unseen BY <1>7 DEF Data!Copy, Data!others, Data!At, Data!Goes
  <2> QED BY <1>0
<1>8. CASE Data!Replace(s)
  <2> Unseen BY <1>8 DEF Data!Replace, Data!others, Data!At, Data!Goes
  <2> QED BY <1>0
<1>9. CASE Data!Verify(s)
  <2> Unseen BY <1>9 DEF Data!Verify, Data!others, Data!At, Data!Goes, Data!Decides
  <2> QED BY <1>0
<1>10. CASE Data!Schema(s)
  <2> Unseen BY <1>10 DEF Data!Schema, Data!others, Data!At, Data!Goes
  <2> QED BY <1>0
<1>11. CASE Data!Record(s)
  <2> Unseen BY <1>11 DEF Data!Record, Data!others, Data!At, Data!Goes, Data!Decides
  <2> QED BY <1>0
<1>12. CASE Data!Tables(s)
  <2> Unseen BY <1>12 DEF Data!Tables, Data!others, Data!At, Data!Goes
  <2> QED BY <1>0
<1>13. CASE Data!Ends(s)
  <2> Unseen BY <1>13 DEF Data!Ends, Data!data, Data!At, Data!Goes
  <2> QED BY <1>0
<1>14. CASE Data!Enable(s)
  <2>1. un = Data!Absent \/ ran BY <1>14, SeenServer DEF Data!Enable, Data!At
  <2> QED BY <1>14, <2>1 DEF Data!Enable, Data!data, Data!cleanup, RInv, AppInv, CleanupInv, Data!Absent
<1>15. ASSUME NEW row \in Rows, Data!Write(s, row) PROVE AppInv' /\ CleanupInv'
  BY <1>15 DEF Data!Write, Data!cleanup, RInv, AppInv, CleanupInv
<1>16. ASSUME NEW k \in Keys, Data!SaveKey(s, k) PROVE AppInv' /\ CleanupInv'
  <2>1. un = Data!Absent \/ ran BY <1>16, SeenServer DEF Data!SaveKey, Data!At
  <2> QED BY <1>16, <2>1 DEF Data!SaveKey, Data!data, Data!cleanup, RInv, AppInv, CleanupInv, Data!Absent
<1> QED BY <1>1, <1>2, <1>3, <1>4, <1>5, <1>6, <1>7, <1>8, <1>9, <1>10, <1>11, <1>12, <1>13,
           <1>14, <1>15, <1>16 DEF Data!Migration

LEMMA CleanupStep ==
  ASSUME RInv, Data!Uninstaller
  PROVE  AppInv' /\ CleanupInv'
<1> USE DEF RInv, AppInv, CleanupInv, Data!Absent
<1>1. ASSUME NEW all \in BOOLEAN, Data!Uninstall(all) PROVE AppInv' /\ CleanupInv'
  <2>1. ~ok /\ ~failed /\ ~ok' /\ ~failed' BY <1>1 DEF Data!Uninstall
  <2>2. un' \in {"prove", "evidence"} BY <1>1 DEF Data!Uninstall
  <2>3. keys = saved /\ keys' = saved' BY <1>1 DEF Data!Uninstall
  <2>4. ~ran' => \A s \in Servers : at'[s] = "off" BY <1>1 DEF Data!Uninstall, Data!Running
  <2>5. AppInv' BY <2>2, <2>3, <2>4
  <2>6. CleanupInv' BY <2>1, <2>2
  <2> QED BY <2>5, <2>6
<1>2. ASSUME NEW k \in Keys, Data!RemoveKey(k) PROVE AppInv' /\ CleanupInv'
  <2>1. AppInv' BY <1>2 DEF Data!RemoveKey, Data!app
  <2>2. CleanupInv' BY <1>2 DEF Data!RemoveKey, Data!app
  <2> QED BY <2>1, <2>2
<1>3. CASE Data!Prove BY <1>3 DEF Data!Prove, Data!app
<1>4. CASE Data!RemoveShortcut
  <2>1. AppInv' BY <1>4 DEF Data!RemoveShortcut, Data!app
  <2>2. CleanupInv'
    <3>1. keys \subseteq Keys BY DEF DTyped, UseTypes
    <3> QED BY <1>4, <3>1 DEF Data!RemoveShortcut, Data!app
  <2> QED BY <2>1, <2>2
<1>5. CASE Data!KeysDone BY <1>5 DEF Data!KeysDone, Data!app
<1>6. CASE Data!RemoveData
  <2>1. AppInv' BY <1>6 DEF Data!RemoveData
  <2>2. CleanupInv' BY <1>6 DEF Data!RemoveData
  <2> QED BY <2>1, <2>2
<1>7. CASE Data!Final
  <2>1. AppInv' BY <1>7 DEF Data!Final, Data!app
  <2>2. CASE UNCHANGED ok BY <1>7, <2>1, <2>2 DEF Data!Final, Data!app
  <2>3. CASE failed /\ ok' = ~failed BY <1>7, <2>1, <2>3 DEF Data!Final, Data!app
  <2>4. CASE ~failed /\ ok' = ~failed /\ un' = "sweep" BY <1>7, <2>1, <2>4 DEF Data!Final, Data!app
  <2> QED BY <1>7, <2>2, <2>3, <2>4 DEF Data!Final
<1>8. CASE Data!CleanupDies BY <1>8 DEF Data!CleanupDies, Data!app
<1>9. CASE Data!KeepEvidence BY <1>9 DEF Data!KeepEvidence, Data!app
<1>10. CASE Data!Sweep
  <2>1. AppInv' BY <1>10 DEF Data!Sweep
  <2>2. ~ran /\ un # Data!Absent => ~Data!Running BY DEF Data!Running
  <2>3. CleanupInv' BY <1>10, <2>2 DEF Data!Sweep
  <2> QED BY <2>1, <2>3
<1> QED BY <1>1, <1>2, <1>3, <1>4, <1>5, <1>6, <1>7, <1>8, <1>9, <1>10 DEF Data!Uninstaller

LEMMA RemovalStep ==
  ASSUME RInv, [Data!Next]_(Data!vars)
  PROVE  RInv'
<1>0. DTyped' BY DataTypesStep DEF RInv
<1>1. ASSUME NEW s \in Servers,
             \/ Data!Migration(s) \/ Data!Enable(s) \/ Data!Ends(s)
             \/ \E row \in Rows : Data!Write(s, row)
             \/ \E k \in Keys : Data!SaveKey(s, k)
      PROVE AppInv' /\ CleanupInv'
  BY <1>1, ServersAreSeen
<1>2. ASSUME Data!Uninstaller PROVE AppInv' /\ CleanupInv' BY <1>2, CleanupStep
<1>3. ASSUME UNCHANGED Data!vars PROVE AppInv' /\ CleanupInv'
  BY <1>3 DEF Data!vars, RInv, AppInv, CleanupInv
<1>4. AppInv' /\ CleanupInv' BY <1>1, <1>2, <1>3 DEF Data!Next
<1> QED BY <1>0, <1>4 DEF RInv

\* Type correctness of the data directory: the state of the files, of the servers that use them
\* and of the removal, for any rows, any number of servers and any number of faults.
THEOREM DataTypes == Data!Spec => []Data!TypeOK
<1>1. Data!Init => DTyped BY DataInit DEF RInv
<1>2. DTyped /\ [Data!Next]_(Data!vars) => DTyped' BY DataTypesStep
<1> QED BY <1>1, <1>2, DTypedIsTypeOK, PTL DEF Data!Spec

LEMMA RemovalInvariant == Data!Spec => []RInv
<1>1. Data!Init => RInv BY DataInit
<1> QED BY <1>1, RemovalStep, PTL DEF Data!Spec

\* A removal that says it is complete left nothing of what was to go, and one that is not
\* left its evidence: for any number of servers that had all ended when it began.
THEOREM RemovalStaysHonest == Data!Spec => []Data!RemovalIsHonest
<1>1. RInv => Data!RemovalIsHonest BY DEF RInv, AppInv, CleanupInv, Data!RemovalIsHonest
<1> QED BY <1>1, RemovalInvariant, PTL

-----------------------------------------------------------------------------
(* The import and the database, with one server child at a time. *)

OneServer == \A s, t \in Servers : s = t

LEMMA ImportMoves ==
  ASSUME OneServer, RInv, ImportInv, NEW s \in Servers, Data!Migration(s)
  PROVE  ImportInv'
<1> SUFFICES ASSUME ~purge' PROVE ImportInv' BY DEF ImportInv
<1>0. purge' = purge /\ written' = written /\ s \in Servers /\ (\A t \in Servers : t = s)
  BY DEF OneServer, Data!Migration, Data!StartApp, Data!ReadMarker, Data!FindLegacy, Data!LookAtDestination, Data!CheckLegacy,
         Data!Backup, Data!Copy, Data!Replace, Data!Verify, Data!Schema, Data!Record, Data!Tables, Data!others, Data!cleanup
<1>00. at \in [Servers -> Importing \cup {"off", "marker", "tables", "serve"}] /\ db \in Databases
       /\ Data!Old \notin Rows /\ written \subseteq Rows
  BY DataAssumption DEF RInv, DTyped, FileTypes, UseTypes
<1> USE <1>0, <1>00 DEF ImportInv, Data!RowsAreKept, Data!At, Data!Goes, Data!Fault, Data!Fine, Importing
<1>1. CASE Data!StartApp(s) BY <1>1 DEF Data!StartApp
<1>2. CASE Data!ReadMarker(s) BY <1>2 DEF Data!ReadMarker, Data!data
<1>3. CASE Data!FindLegacy(s) BY <1>3 DEF Data!FindLegacy, Data!Decides, Data!Records
<1>4. CASE Data!LookAtDestination(s) BY <1>4 DEF Data!LookAtDestination, Data!Decides, Data!Records, Data!HasUserData
<1>5. CASE Data!CheckLegacy(s) BY <1>5 DEF Data!CheckLegacy, Data!Decides, Data!Records
<1>6. CASE Data!Backup(s) BY <1>6 DEF Data!Backup
<1>7. CASE Data!Copy(s) BY <1>7 DEF Data!Copy
<1>8. CASE Data!Replace(s)
  <2>0. at[s] = "replace" /\ decided = Data!Absent /\ db.rows = {} /\ written = {} /\ db.is # "damaged"
    BY <1>8 DEF Data!Replace
  <2>1. CASE UNCHANGED db /\ decided' = "failed_copy" /\ at' = [at EXCEPT ![s] = "tables"]
    BY <2>0, <2>1
  <2>2. ASSUME db' = Data!Db("sound", {Data!Old}, FALSE), at' = [at EXCEPT ![s] = "verify"], UNCHANGED decided
        PROVE ImportInv'
    <3>1. db'.is = "sound" /\ db'.rows = {Data!Old} BY <2>2, DbParts
    <3>2. at'[s] = "verify" BY <2>2
    <3>3. written' = {} /\ decided' = Data!Absent BY <2>0, <2>2
    <3> QED BY <3>1, <3>2, <3>3 DEF Data!Absent
  <2>3. ASSUME db' = Data!Db("damaged", {}, FALSE), at' = [at EXCEPT ![s] = "verify"], UNCHANGED decided
        PROVE ImportInv'
    <3>1. db'.is = "damaged" /\ db'.rows = {} BY <2>3, DbParts
    <3>2. at'[s] = "verify" BY <2>3
    <3>3. written' = {} /\ decided' = Data!Absent BY <2>0, <2>3
    <3> QED BY <3>1, <3>2, <3>3 DEF Data!Absent
  <2>4. tmp \in Soundness BY DEF RInv, DTyped, FileTypes
  <2> QED BY <1>8, <2>1, <2>2, <2>3, <2>4 DEF Data!Replace, Soundness, Data!Absent
<1>9. CASE Data!Verify(s) BY <1>9, DbParts DEF Data!Verify, Data!Decides, Data!Records, Data!Absent
<1>10. CASE Data!Schema(s) BY <1>10, DbCompleted DEF Data!Schema, Data!Absent
<1>11. CASE Data!Record(s) BY <1>11 DEF Data!Record, Data!Decides, Data!Records
<1>12. CASE Data!Tables(s) BY <1>12, DbParts, DbCompleted DEF Data!Tables, Data!Absent
<1> QED BY <1>1, <1>2, <1>3, <1>4, <1>5, <1>6, <1>7, <1>8, <1>9, <1>10, <1>11, <1>12 DEF Data!Migration

LEMMA ImportStep ==
  ASSUME OneServer, RInv, ImportInv, [Data!Next]_(Data!vars)
  PROVE  ImportInv'
<1> SUFFICES ASSUME ~purge' PROVE ImportInv' BY DEF ImportInv
<1>1. ASSUME NEW s \in Servers, Data!Migration(s) PROVE ImportInv' BY <1>1, ImportMoves
<1>2. ASSUME NEW s \in Servers, NEW row \in Rows, Data!Write(s, row) PROVE ImportInv'
  <2>1. db \in Databases /\ Data!Old \notin Rows BY DataAssumption DEF RInv, DTyped, FileTypes
  <2>2. db'.is = db.is /\ db'.schema = db.schema /\ db'.rows = db.rows \cup {row}
    BY <1>2, <2>1 DEF Data!Write, Databases
  <2>3. \A t \in Servers : at[t] = "serve" BY <1>2 DEF OneServer, Data!Write, Data!At
  <2> QED BY <1>2, <2>1, <2>2, <2>3 DEF Data!Write, ImportInv, Data!RowsAreKept, Importing, Data!cleanup, Data!Absent
<1>3. ASSUME NEW s \in Servers, Data!Enable(s) \/ Data!Ends(s) \/ \E k \in Keys : Data!SaveKey(s, k)
      PROVE ImportInv'
  <2>1. UNCHANGED <<purge, written, db, decided>>
    BY <1>3 DEF Data!Enable, Data!Ends, Data!SaveKey, Data!data, Data!cleanup
  <2>2. \A t \in Servers : at'[t] = at[t] \/ at'[t] = "off"
    BY <1>3 DEF Data!Enable, Data!Ends, Data!SaveKey, Data!Goes, RInv, DTyped, UseTypes
  <2> QED BY <2>1, <2>2 DEF ImportInv, Data!RowsAreKept, Importing
<1>4. CASE Data!Uninstaller
  <2>1. ~purge BY <1>4 DEF Data!Uninstaller, Data!Uninstall, Data!RemoveKey, Data!Prove, Data!RemoveShortcut, Data!KeysDone,
                          Data!RemoveData, Data!Final, Data!CleanupDies, Data!KeepEvidence, Data!Sweep, RInv, AppInv
  <2>2. UNCHANGED <<db, decided, written, at>>
    BY <1>4, <2>1 DEF Data!Uninstaller, Data!Uninstall, Data!RemoveKey, Data!Prove, Data!RemoveShortcut, Data!KeysDone,
                      Data!RemoveData, Data!Final, Data!CleanupDies, Data!KeepEvidence, Data!Sweep, RInv, AppInv, Data!app, Data!data
  <2> QED BY <2>1, <2>2 DEF ImportInv, Data!RowsAreKept, Importing
<1>5. CASE UNCHANGED Data!vars BY <1>5 DEF Data!vars, ImportInv, Data!RowsAreKept, Importing
<1> QED BY <1>1, <1>2, <1>3, <1>4, <1>5 DEF Data!Next

\* What the user made is there until a removal that the user chose, an import that is
\* recorded as done has its rows there, and what is served is a whole database: with one
\* server child at a time, through crashes and failing file operations at any step.
THEOREM DatabaseStaysKept == OneServer /\ Data!Spec => []Data!DatabaseIsKept
<1> SUFFICES ASSUME OneServer PROVE Data!Spec => []Data!DatabaseIsKept OBVIOUS
<1>1. Data!Init => RInv /\ ImportInv BY DataInit
<1>2. RInv /\ ImportInv /\ [Data!Next]_(Data!vars) => (RInv /\ ImportInv)' BY ImportStep, RemovalStep
<1>3. RInv /\ ImportInv => Data!DatabaseIsKept
  BY DEF ImportInv, Data!DatabaseIsKept, Data!RowsAreKept, Data!ServesAWholeDatabase, Data!At
<1> QED BY <1>1, <1>2, <1>3, PTL DEF Data!Spec

-----------------------------------------------------------------------------
(* Together. *)

\* A behaviour of the launcher and the data directory is a behaviour of each.
LEMMA StartupParts == StartupSpec => Spec /\ Data!Spec
<1>1. StartupInit => Init /\ Data!Init BY DEF StartupInit
<1>2. [StartupNext]_<<part, vars, dataVars>> => [Next]_vars /\ [Data!Next]_(Data!vars)
  <2>1. UNCHANGED dataVars => UNCHANGED Data!vars BY DEF dataVars, Data!vars
  <2> QED BY <2>1 DEF StartupNext
<1> QED BY <1>1, <1>2, PTL DEF StartupSpec, Spec, Data!Spec

\* What the run checks on a small instance, for every value of the constants: no server
\* child is lost, and what the user has is kept with one server child at a time.
THEOREM TheMachineIsKept ==
  OneServer /\ StartupSpec => []ServerIsAccountedFor /\ []DataIsKept
<1> SUFFICES ASSUME OneServer PROVE StartupSpec => []ServerIsAccountedFor /\ []DataIsKept
  OBVIOUS
<1>1. Spec => []ServerIsAccountedFor BY NoServerIsLost
<1>2. Data!Spec => []Data!DatabaseIsKept BY DatabaseStaysKept
<1>3. Data!Spec => []Data!RemovalIsHonest BY RemovalStaysHonest
<1>4. Data!DatabaseIsKept /\ Data!RemovalIsHonest => DataIsKept BY DEF DataIsKept
<1> QED BY <1>1, <1>2, <1>3, <1>4, StartupParts, PTL
=============================================================================
