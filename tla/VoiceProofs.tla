---------------------------- MODULE VoiceProofs ----------------------------
(***************************************************************************)
(* The four parts of the voice side: a stop of the player is one, the kept *)
(* settings are what was asked for, every open microphone stream has an    *)
(* owner that may have it, and the tray is never further behind than its   *)
(* timers.  Each part has an inductive invariant (PInv, SInv, MInv, TInv), *)
(* one lemma per action or group of actions that keeps it, and the         *)
(* properties that follow from it; the last theorem says that a behaviour  *)
(* of MCVoice is one of each part.                                         *)
(***************************************************************************)
EXTENDS MCVoice, TLAPS

\* A stopped token lets at most the sentence finish that was let through before; a worker
\* that has a sentence to say has one left.
TailInv ==
  \A t \in DOMAIN token :
    /\ token[t].tail = 0 \/ (token[t].tail = 1 /\ token[t].set /\ token[t].run # "about")
    /\ token[t].run \in {"have", "about"} => token[t].left > 0

\* Where a request for the cloud voice holds a token.
CloudPlaces == {"reserved", "asking", "sending", "sent", "bytes", "refused"}

\* A request holds a token of its own from the moment it reserved it.
HeldInv ==
  \A r \in Requests :
    pc[r] \in CloudPlaces \cup {"start", "launch"} =>
      /\ tok[r] \in DOMAIN token
      /\ token[tok[r]].own = r

\* Which requests have a token: the cloud voice reserves it before it asks, and its worker
\* runs only after the launch.
CloudInv ==
  \A r \in Requests :
    /\ pc[r] \in CloudPlaces => engine[r] = "cloud"
    /\ pc[r] \in {"synth", "classic"} => engine[r] # "cloud"
    /\ pc[r] = "idle" \/ (engine[r] = "cloud" /\ pc[r] \in {"begin", "wait"}) =>
         r \notin exposed /\ \A t \in DOMAIN token : token[t].own # r
    /\ engine[r] = "cloud" =>
         \A t \in DOMAIN token : token[t].own = r =>
           /\ tok[r] = t
           /\ pc[r] \in CloudPlaces \cup {"start", "launch"} => token[t].run = "none"

\* A cloud request that privacy mode or a stop may not have reached is cut off all the same:
\* its token is set, superseded, or it was refused.
ExposedInv ==
  \A t \in DOMAIN token :
    token[t].own \in exposed /\ engine[token[t].own] = "cloud" =>
      token[t].set \/ t < cur \/ pc[token[t].own] = "refused"

\* The inductive invariant of the player.
PInv == TypeOK /\ cur = Len(token) /\ TailInv /\ HeldInv /\ CloudInv /\ ExposedInv
        /\ PrivateAnswersAreSilent

-----------------------------------------------------------------------------
(* Playback. *)

\* Changing one token keeps the others.
LEMMA OneToken ==
  ASSUME token \in Seq(Token), NEW t \in DOMAIN token, NEW n \in Token,
         token' = [token EXCEPT ![t] = n]
  PROVE  /\ token' \in Seq(Token) /\ Len(token') = Len(token)
         /\ DOMAIN token' = DOMAIN token
         /\ token'[t] = n
         /\ \A u \in DOMAIN token : u # t => token'[u] = token[u]
OBVIOUS

\* Reserving a token keeps the others.
LEMMA NewToken ==
  ASSUME token \in Seq(Token), NEW n \in Token, token' = Append(token, n)
  PROVE  /\ token' \in Seq(Token) /\ Len(token') = Len(token) + 1
         /\ DOMAIN token' = DOMAIN token \cup {Len(token) + 1}
         /\ token'[Len(token) + 1] = n
         /\ \A u \in DOMAIN token : token'[u] = token[u]
OBVIOUS

\* What stop() does to every token: the current one is set, whoever sounds goes on to the
\* next sentence, nothing else changes.
LEMMA AllStopped ==
  ASSUME token \in Seq(Token), StopPlayer
  PROVE  /\ token' \in Seq(Token) /\ Len(token') = Len(token)
         /\ DOMAIN token' = DOMAIN token
         /\ \A u \in DOMAIN token :
              /\ token'[u].set = (token[u].set \/ u = cur)
              /\ token'[u].run = IF token[u].run = "sounding" THEN "next" ELSE token[u].run
              /\ token'[u].left = token[u].left /\ token'[u].tail = token[u].tail
              /\ token'[u].late = token[u].late /\ token'[u].leak = token[u].leak
              /\ token'[u].own = token[u].own
<1>1. token' = Stopped BY DEF StopPlayer
<1>2. \A u \in DOMAIN token : token[u] \in Token OBVIOUS
<1>3. ASSUME NEW u \in DOMAIN token
      PROVE  /\ token'[u] \in Token
             /\ token'[u].set = (token[u].set \/ u = cur)
             /\ token'[u].run = IF token[u].run = "sounding" THEN "next" ELSE token[u].run
             /\ token'[u].left = token[u].left /\ token'[u].tail = token[u].tail
             /\ token'[u].late = token[u].late /\ token'[u].leak = token[u].leak
             /\ token'[u].own = token[u].own
  <2> DEFINE b == token[u].set \/ u = cur
             n == IF token[u].run = "sounding" THEN "next" ELSE token[u].run
  <2>1. b \in BOOLEAN OBVIOUS
  <2>2. n \in Runs BY <1>2 DEF Token, Runs
  <2>3. token'[u] = [token[u] EXCEPT !.set = b, !.run = n] BY <1>1 DEF Stopped
  <2>4. b = (token[u].set \/ u = cur) OBVIOUS
  <2>5. n = IF token[u].run = "sounding" THEN "next" ELSE token[u].run OBVIOUS
  <2> HIDE DEF b, n
  <2>6. token[u] \in Token BY <1>2
  <2>7. /\ token'[u] \in Token /\ token'[u].set = b /\ token'[u].run = n
        /\ token'[u].left = token[u].left /\ token'[u].tail = token[u].tail
        /\ token'[u].late = token[u].late /\ token'[u].leak = token[u].leak
        /\ token'[u].own = token[u].own
    BY <2>1, <2>2, <2>3, <2>6 DEF Token
  <2> QED BY <2>4, <2>5, <2>7
<1>4. token' \in Seq(Token) /\ Len(token') = Len(token) /\ DOMAIN token' = DOMAIN token
  <2>1. DOMAIN token = 1..Len(token) /\ Len(token) \in Nat OBVIOUS
  <2>2. token' = [u \in 1..Len(token) |-> token'[u]] BY <1>1, <2>1 DEF Stopped
  <2>3. token' \in [1..Len(token) -> Token] BY <2>1, <2>2, <1>3
  <2> QED BY <2>1, <2>3
<1> QED BY <1>3, <1>4
\* A request that changes only its own place keeps the invariant.
LEMMA RequestMoves ==
  ASSUME PInv, TypeOK', NEW r \in Requests, NEW p \in Places, NEW e \in Engines,
         pc' = [pc EXCEPT ![r] = p], engine' = [engine EXCEPT ![r] = e],
         UNCHANGED <<tok, token, cur>>,
         exposed' = exposed \/ (exposed' = exposed \cup {r} /\ p = "refused"),
         p # "idle",
         p \in CloudPlaces => e = "cloud" /\ pc[r] \in CloudPlaces,
         p \in {"start", "launch"} => pc[r] \in CloudPlaces \cup {"start", "launch"},
         e = "cloud" => engine[r] = "cloud" \/ pc[r] = "idle",
         e = "cloud" /\ p \in {"begin", "wait"} => pc[r] = "idle",
         p \in {"synth", "classic"} => e # "cloud",
         pc[r] # "refused"
  PROVE  PInv'
<1> USE DEF PInv, TypeOK
<1>1. /\ pc'[r] = p /\ \A q \in Requests : q # r => pc'[q] = pc[q]
      /\ engine'[r] = e /\ \A q \in Requests : q # r => engine'[q] = engine[q]
  OBVIOUS
<1>2. TailInv' BY DEF TailInv
<1>3. HeldInv' BY <1>1 DEF HeldInv, CloudPlaces
<1>4. \A t \in DOMAIN token : token[t].own \in Requests
  <2>1. \A t \in DOMAIN token : token[t] \in Token OBVIOUS
  <2> QED BY <2>1 DEF Token
<1>5. CloudInv' BY <1>1, <1>4 DEF CloudInv, CloudPlaces
<1>6. ExposedInv' BY <1>1, <1>4 DEF ExposedInv, CloudInv, CloudPlaces
<1>7. PrivateAnswersAreSilent' BY DEF PrivateAnswersAreSilent, Lost
<1> QED BY <1>2, <1>3, <1>5, <1>6, <1>7

\* So does a step that changes nothing the invariant reads.
LEMMA NothingMoves ==
  ASSUME PInv, TypeOK', UNCHANGED <<pc, engine, tok, token, cur, exposed>> PROVE PInv'
BY DEF PInv, TailInv, HeldInv, CloudInv, ExposedInv, PrivateAnswersAreSilent, Lost

\* The steps of a request before and beside its token.
LEMMA QuietStep ==
  ASSUME PInv, NEW r \in Requests,
         \/ Speak(r) \/ Synthesise(r) \/ Start(r) \/ CheckPrivacy(r) \/ CheckRequest(r)
         \/ Send(r) \/ Answer(r) \/ Delayed(r) \/ SpeakClassic(r)
         \/ ClassicStarts(r) \/ ClassicEnds(r)
  PROVE  PInv'
<1>0. TypeOK /\ r \in Requests /\ pc[r] \in Places /\ engine[r] \in Engines
  BY DEF PInv, TypeOK
<1>00. CloudInv /\ (pc[r] \in CloudPlaces => engine[r] = "cloud")
              /\ (pc[r] = "synth" => engine[r] # "cloud")
  BY DEF PInv, CloudInv
<1> USE DEF Go, player, sapi, rules
<1>1. CASE Speak(r)
  <2>1. PICK e \in Engines : /\ engine' = [engine EXCEPT ![r] = e]
                             /\ Go(r, IF e = "cloud" THEN "begin" ELSE Enters(e))
    BY <1>1 DEF Speak
  <2> DEFINE p == IF e = "cloud" THEN "begin" ELSE Enters(e)
  <2>2. p \in {"begin", "synth", "classic"} /\ (e = "cloud" => p = "begin")
    BY DEF Enters, Engines, Local
  <2>3. pc' = [pc EXCEPT ![r] = p] BY <2>1
  <2> HIDE DEF p
  <2>4. TypeOK' BY <1>0, <1>1, <2>1, <2>2, <2>3 DEF Speak, TypeOK, Places
  <2> QED BY <1>1, <2>1, <2>2, <2>3, <2>4, RequestMoves DEF Speak, Places, CloudPlaces
<1>2. CASE Synthesise(r)
  <2>1. PICK p \in {"begin", "classic", "done"} :
          /\ pc' = [pc EXCEPT ![r] = p]
          /\ engine' = [engine EXCEPT ![r] = IF p = "classic" THEN "sapi5" ELSE @]
    BY <1>2 DEF Synthesise
  <2> DEFINE e == IF p = "classic" THEN "sapi5" ELSE engine[r]
  <2>2. engine' = [engine EXCEPT ![r] = e] /\ e \in Engines BY <1>0, <2>1 DEF Engines, Local
  <2> HIDE DEF e
  <2>4. TypeOK' BY <1>0, <1>2, <2>1, <2>2 DEF Synthesise, TypeOK, Places
  <2> QED BY <1>2, <2>1, <2>2, <2>4, <1>00, RequestMoves DEF Synthesise, Places, CloudPlaces, e
<1>3. CASE Start(r)
  <2>1. PICK p \in {"launch", "done"} : pc' = [pc EXCEPT ![r] = p] BY <1>3 DEF Start
  <2>2. engine' = [engine EXCEPT ![r] = engine[r]] BY <1>0, <1>3 DEF Start, TypeOK
  <2>4. TypeOK' BY <1>0, <1>3, <2>1 DEF Start, TypeOK, Places
  <2> QED BY <1>3, <1>0, <2>1, <2>2, <2>4, RequestMoves DEF Start, Places, CloudPlaces
<1>4. CASE CheckPrivacy(r)
  <2>1. \/ pc' = [pc EXCEPT ![r] = "asking"] /\ exposed' = exposed
        \/ pc' = [pc EXCEPT ![r] = "refused"] /\ exposed' \in {exposed, exposed \cup {r}}
    BY <1>4 DEF CheckPrivacy
  <2>2. engine' = [engine EXCEPT ![r] = engine[r]] BY <1>0, <1>4 DEF CheckPrivacy, TypeOK
  <2>4. TypeOK' BY <1>0, <1>4, <2>1 DEF CheckPrivacy, TypeOK, Places
  <2> QED BY <1>4, <1>0, <1>00, <2>1, <2>2, <2>4, RequestMoves
          DEF CheckPrivacy, Places, CloudPlaces
<1>5. CASE CheckRequest(r) \/ Send(r) \/ Answer(r) \/ Delayed(r)
  <2>1. PICK p \in {"refused", "done", "sending", "sent", "bytes", "start"} :
          pc' = [pc EXCEPT ![r] = p]
    BY <1>5 DEF CheckRequest, Send, Answer, Delayed, GivesUp
  <2>2. /\ engine' = [engine EXCEPT ![r] = engine[r]] 
        /\ UNCHANGED <<tok, token, cur, exposed>>
        /\ pc[r] \in {"asking", "sending", "sent", "bytes"}
    BY <1>0, <1>5 DEF CheckRequest, Send, Answer, Delayed, TypeOK
  <2>4. TypeOK'
    BY <1>0, <1>5, <2>1 DEF CheckRequest, Send, Answer, Delayed, TypeOK, Places
  <2> QED BY <1>0, <1>00, <2>1, <2>2, <2>4, RequestMoves DEF Places, CloudPlaces
<1>6. CASE SpeakClassic(r)
  <2>2. engine' = [engine EXCEPT ![r] = engine[r]] BY <1>0, <1>6 DEF SpeakClassic, TypeOK
  <2>4. TypeOK' 
    <3>1. pc' \in [Requests -> Places] BY <1>0, <1>6 DEF SpeakClassic, TypeOK, Places
    <3>2. classic' \in [Requests -> {"none", "starting", "sounding", "ended"}] /\ flag' \in BOOLEAN
      BY <1>0, <1>6 DEF SpeakClassic, TypeOK
    <3> QED BY <1>0, <1>6, <3>1, <3>2 DEF SpeakClassic, TypeOK
  <2> QED BY <1>6, <1>0, <2>2, <2>4, RequestMoves DEF SpeakClassic, Places, CloudPlaces
<1>7. CASE ClassicStarts(r) \/ ClassicEnds(r)
  <2>1. /\ classic' \in [Requests -> {"none", "starting", "sounding", "ended"}]
        /\ flag' \in BOOLEAN /\ built' \in BOOLEAN
    BY <1>0, <1>7 DEF ClassicStarts, ClassicEnds, TypeOK
  <2>2. TypeOK' BY <1>0, <1>7, <2>1 DEF ClassicStarts, ClassicEnds, TypeOK
  <2> QED BY <1>7, <2>2, NothingMoves DEF ClassicStarts, ClassicEnds
<1> QED BY <1>1, <1>2, <1>3, <1>4, <1>5, <1>6, <1>7

\* The worker of a token: one token changes, and only in what it plays.
LEMMA TokenPlays ==
  ASSUME PInv, NEW t \in DOMAIN token, NEW n \in Token, token' = [token EXCEPT ![t] = n],
         playing' \in BOOLEAN, thread' \in 0..Len(token),
         UNCHANGED <<tok, cur, engine, sapi, rules>>, pc' \in [Requests -> Places],
         \A r \in Requests : pc'[r] = pc[r] \/ (pc[r] = "launch" /\ pc'[r] = "done" /\ t = tok[r]),
         n.own = token[t].own, n.set = token[t].set,
         n.tail = 0 \/ (n.tail = 1 /\ n.set /\ n.run # "about"),
         n.run \in {"have", "about"} => n.left > 0,
         \/ token[t].run # "none"
         \/ pc[n.own] = "launch" /\ pc'[n.own] = "done",
         n.leak => token[t].leak \/ (t < cur /\ ~n.set)
  PROVE  PInv'
<1>0. TypeOK /\ cur = Len(token) /\ TailInv /\ HeldInv /\ CloudInv /\ ExposedInv
      /\ PrivateAnswersAreSilent
  BY DEF PInv
<1>1. /\ token' \in Seq(Token) /\ Len(token') = Len(token) /\ DOMAIN token' = DOMAIN token
      /\ token'[t] = n /\ \A u \in DOMAIN token : u # t => token'[u] = token[u]
  <2>1. token \in Seq(Token) BY <1>0 DEF TypeOK
  <2> QED BY <2>1, OneToken
<1>2. \A u \in DOMAIN token : token[u] \in Token /\ token[u].own \in Requests
  <2>1. \A u \in DOMAIN token : token[u] \in Token BY <1>0 DEF TypeOK
  <2> QED BY <2>1 DEF Token
<1>3. \A u \in DOMAIN token : token'[u].own = token[u].own /\ token'[u].set = token[u].set
  BY <1>1
<1>4. TypeOK' /\ cur' = Len(token') BY <1>0, <1>1 DEF TypeOK, sapi, rules
<1>5. TailInv' BY <1>0, <1>1 DEF TailInv
<1>6. HeldInv' BY <1>0, <1>1, <1>3 DEF HeldInv, CloudPlaces
<1>7. CloudInv'
  <2>1. \A u \in DOMAIN token : u # t => token'[u].run = token[u].run BY <1>1
  <2>2. token[t].run # "none" \/ pc'[token[t].own] = "done" OBVIOUS
  <2> QED BY <1>0, <1>1, <1>2, <1>3, <2>1, <2>2 DEF CloudInv, CloudPlaces, rules
<1>8. ExposedInv' BY <1>0, <1>1, <1>2, <1>3 DEF ExposedInv, rules
<1>9. PrivateAnswersAreSilent'
  BY <1>0, <1>1, <1>3 DEF PrivateAnswersAreSilent, Lost
<1> QED BY <1>4, <1>5, <1>6, <1>7, <1>8, <1>9 DEF PInv

\* A step of a player thread: it says at most the sentence it was let through with.
LEMMA WorkerKeeps ==
  ASSUME PInv, NEW t \in DOMAIN token, WorkerStep(t) PROVE PInv'
<1>0. TypeOK /\ cur = Len(token) /\ TailInv /\ CloudInv /\ ExposedInv /\ cur \in 0..Len(token)
      /\ pc \in [Requests -> Places] /\ playing \in BOOLEAN /\ thread \in 0..Len(token)
  BY DEF PInv, TypeOK
<1>1. token[t] \in Token /\ token[t].own \in Requests /\ t \in 1..Len(token)
  <2>1. token[t] \in Token /\ t \in 1..Len(token) BY <1>0 DEF TypeOK
  <2> QED BY <2>1 DEF Token
<1> DEFINE k == token[t]
<1>2. /\ k.tail = 0 \/ (k.tail = 1 /\ k.set /\ k.run # "about")
      /\ k.run \in {"have", "about"} => k.left > 0
  BY <1>0 DEF TailInv
<1>3. WorkerNext(t) \/ WorkerCheck(t) \/ WorkerPlays(t) \/ WorkerPlayed(t) BY DEF WorkerStep
<1>4. PICK n \in Token :
        /\ token' = [token EXCEPT ![t] = n]
        /\ n.own = k.own /\ n.set = k.set
        /\ n.tail = 0 \/ (n.tail = 1 /\ n.set /\ n.run # "about")
        /\ n.run \in {"have", "about"} => n.left > 0
        /\ n.leak => k.leak \/ (t < cur /\ ~n.set)
  <2>1. CASE WorkerNext(t)
    <3>1. PICK x \in {"ended", "have"} :
            token' = [token EXCEPT ![t].run = x] /\ (x = "have" => k.left # 0 /\ ~k.set)
      BY <2>1 DEF WorkerNext, Ended, Cancelled
    <3> DEFINE n == [k EXCEPT !.run = x]
    <3>2. token' = [token EXCEPT ![t] = n] BY <3>1
    <3>3. /\ n \in Token /\ n.own = k.own /\ n.set = k.set /\ n.tail = k.tail /\ n.left = k.left
          /\ n.run = x /\ n.leak = k.leak /\ k.left \in 0..Sentences
      BY <1>1 DEF Token, Runs
    <3> HIDE DEF n
    <3>4. /\ n.tail = 0 \/ (n.tail = 1 /\ n.set /\ n.run # "about")
          /\ n.run \in {"have", "about"} => n.left > 0
      BY <1>2, <3>1, <3>3
    <3> QED BY <3>2, <3>3, <3>4
  <2>2. CASE WorkerCheck(t)
    <3>1. CASE Ended(t)
      <4> DEFINE n == [k EXCEPT !.run = "ended"]
      <4>2. token' = [token EXCEPT ![t] = n] BY <3>1 DEF Ended
      <4>3. /\ n \in Token /\ n.own = k.own /\ n.set = k.set /\ n.tail = k.tail
            /\ n.run = "ended" /\ n.leak = k.leak
        BY <1>1 DEF Token, Runs
      <4> QED BY <1>2, <4>2, <4>3
    <3>2. CASE ~Ended(t)
      <4> DEFINE late == k.late \/ k.own \in hushed
                 leak == k.leak \/ (k.own \in exposed /\ engine[k.own] = "cloud")
                 n == [k EXCEPT !.run = "about", !.late = late, !.leak = leak]
      <4>1. /\ ~k.set /\ k.run = "have" /\ token' = [token EXCEPT ![t] = n]
        BY <2>2, <3>2 DEF WorkerCheck, Cancelled
      <4>2. late \in BOOLEAN /\ leak \in BOOLEAN OBVIOUS
      <4>3. leak => k.leak \/ (t < cur /\ ~k.set)
        <5>1. CASE k.own \in exposed /\ engine[k.own] = "cloud" /\ pc[k.own] = "refused"
          BY <1>0, <1>1, <4>1, <5>1 DEF CloudInv, CloudPlaces
        <5>2. CASE k.own \in exposed /\ engine[k.own] = "cloud" /\ pc[k.own] # "refused"
          BY <1>0, <1>1, <4>1, <5>2 DEF ExposedInv
        <5> QED BY <5>1, <5>2
      <4> HIDE DEF late, leak
      <4>4. /\ n \in Token /\ n.own = k.own /\ n.set = k.set /\ n.tail = k.tail
            /\ n.left = k.left /\ n.run = "about" /\ n.leak = leak
        BY <1>1, <4>2 DEF Token, Runs
      <4>5. k.tail = 0 /\ k.left > 0 BY <1>2, <4>1
      <4> HIDE DEF n
      <4> QED BY <4>1, <4>3, <4>4, <4>5
    <3> QED BY <3>1, <3>2
  <2>3. CASE WorkerPlays(t)
    <3> DEFINE n == [k EXCEPT !.run = "sounding", !.left = k.left - 1,
                              !.tail = IF k.set THEN k.tail + 1 ELSE k.tail]
    <3>1. k.run = "about" /\ token' = [token EXCEPT ![t] = n] BY <2>3 DEF WorkerPlays
    <3>2. k.tail = 0 /\ k.left > 0 /\ k.left \in 0..Sentences /\ k.set \in BOOLEAN
      BY <1>1, <1>2, <3>1 DEF Token
    <3>3. k.left - 1 \in 0..Sentences BY <3>2, PlaybackAssumption DEF PlaybackAssumption
    <3> DEFINE tail == IF k.set THEN k.tail + 1 ELSE k.tail
    <3>5. tail \in 0..2 /\ tail = (IF k.set THEN 1 ELSE 0) BY <3>2
    <3> HIDE DEF tail
    <3>4. /\ n \in Token /\ n.own = k.own /\ n.set = k.set
          /\ n.tail = tail /\ n.run = "sounding" /\ n.leak = k.leak
      BY <1>1, <3>3, <3>5 DEF Token, Runs, tail
    <3> HIDE DEF n
    <3> QED BY <3>1, <3>2, <3>4, <3>5
  <2>4. CASE WorkerPlayed(t)
    <3> DEFINE n == [k EXCEPT !.run = "next"]
    <3>1. token' = [token EXCEPT ![t] = n] BY <2>4 DEF WorkerPlayed
    <3>2. /\ n \in Token /\ n.own = k.own /\ n.set = k.set /\ n.tail = k.tail
          /\ n.run = "next" /\ n.leak = k.leak
      BY <1>1 DEF Token, Runs
    <3> QED BY <1>2, <3>1, <3>2
  <2> QED BY <1>3, <2>1, <2>2, <2>3, <2>4
<1>5. k.run # "none"
  BY <1>3 DEF WorkerNext, WorkerCheck, WorkerPlays, WorkerPlayed
<1>6. /\ playing' \in BOOLEAN /\ thread' \in 0..Len(token)
      /\ UNCHANGED <<pc, tok, cur, engine, sapi, rules>>
  BY <1>0, <1>3 DEF WorkerNext, WorkerCheck, WorkerPlays, WorkerPlayed, Ended
<1> QED BY <1>0, <1>1, <1>4, <1>5, <1>6, TokenPlays

\* launch(): the worker starts unless its token was set meanwhile.
LEMMA LaunchKeeps ==
  ASSUME PInv, NEW r \in Requests, Launch(r) PROVE PInv'
<1>0. TypeOK /\ cur = Len(token) /\ TailInv /\ HeldInv
      /\ pc \in [Requests -> Places] /\ playing \in BOOLEAN
  BY DEF PInv, TypeOK
<1>1. /\ pc[r] = "launch" /\ pc' = [pc EXCEPT ![r] = "done"] /\ thread' = tok[r]
      /\ UNCHANGED <<engine, tok, cur, playing, sapi, rules>>
      /\ \E m \in 1..Sentences : 
           token' = [token EXCEPT ![tok[r]].run = "next", ![tok[r]].left = m]
  <2>1. (IF engine[r] = "kokoro" THEN 1..Sentences ELSE {1}) \subseteq 1..Sentences
    BY PlaybackAssumption DEF PlaybackAssumption
  <2> QED BY <2>1 DEF Launch, Go
<1> DEFINE t == tok[r]
           k == token[t]
<1>2. t \in DOMAIN token /\ k.own = r BY <1>0, <1>1 DEF HeldInv
<1>3. k \in Token /\ t \in 0..Len(token) BY <1>0, <1>2 DEF TypeOK
<1>4. PICK m \in 1..Sentences : token' = [token EXCEPT ![t].run = "next", ![t].left = m]
  BY <1>1
<1> DEFINE n == [k EXCEPT !.run = "next", !.left = m]
<1>5. token' = [token EXCEPT ![t] = n] BY <1>4
<1>6. k.tail = 0 \/ (k.tail = 1 /\ k.set) BY <1>0, <1>2 DEF TailInv
<1>7. m \in 0..Sentences BY PlaybackAssumption DEF PlaybackAssumption
<1>8. /\ n \in Token /\ n.own = r /\ n.set = k.set /\ n.tail = k.tail
      /\ n.run = "next" /\ n.leak = k.leak
  BY <1>2, <1>3, <1>7 DEF Token, Runs
<1>9. /\ pc' \in [Requests -> Places] /\ pc'[r] = "done"
      /\ \A q \in Requests : q # r => pc'[q] = pc[q]
  BY <1>0, <1>1 DEF Places
<1>10. /\ n.tail = 0 \/ (n.tail = 1 /\ n.set /\ n.run # "about")
       /\ n.run \in {"have", "about"} => n.left > 0
       /\ n.leak => k.leak \/ (t < cur /\ ~n.set)
  BY <1>6, <1>8
<1>11. /\ playing' \in BOOLEAN /\ thread' \in 0..Len(token)
       /\ UNCHANGED <<tok, cur, engine, sapi, rules>>
       /\ \A q \in Requests : pc'[q] = pc[q] \/ (pc[q] = "launch" /\ pc'[q] = "done" /\ t = tok[q])
       /\ pc[n.own] = "launch" /\ pc'[n.own] = "done"
  BY <1>0, <1>1, <1>3, <1>8, <1>9
<1>12. n.own = k.own /\ n.set = k.set BY <1>2, <1>8
<1>13. n \in Token BY <1>8
<1>14. pc' \in [Requests -> Places] BY <1>9
<1> HIDE DEF n, k, t
<1> QED BY <1>2, <1>5, <1>10, <1>11, <1>12, <1>13, <1>14, TokenPlays DEF k

\* The refusal: the reservation goes back, and a voice of this machine may go on.
LEMMA RefusedKeeps ==
  ASSUME PInv, NEW r \in Requests, Refused(r) PROVE PInv'
<1>0. TypeOK /\ cur = Len(token) /\ TailInv /\ HeldInv /\ CloudInv /\ ExposedInv
      /\ PrivateAnswersAreSilent /\ token \in Seq(Token)
      /\ pc \in [Requests -> Places] /\ playing \in BOOLEAN /\ engine \in [Requests -> Engines]
  BY DEF PInv, TypeOK
<1> DEFINE t == tok[r]
           k == token[t]
           n == [k EXCEPT !.set = TRUE]
<1>1. /\ pc[r] = "refused" /\ UNCHANGED <<tok, cur, thread, sapi, rules>>
      /\ \/ t = cur /\ token' = [token EXCEPT ![t] = n] /\ playing' = FALSE
         \/ t # cur /\ UNCHANGED <<token, playing>>
  BY DEF Refused
<1>2. t \in DOMAIN token /\ k.own = r /\ k \in Token BY <1>0, <1>1 DEF HeldInv, CloudPlaces
<1>3. PICK p \in {"done", "begin", "synth", "classic"}, e \in Engines :
        /\ pc' = [pc EXCEPT ![r] = p] /\ engine' = [engine EXCEPT ![r] = e]
        /\ p # "done" => e # "cloud"
        /\ e = "cloud" => engine[r] = "cloud"
  <2>1. CASE Go(r, "done") /\ UNCHANGED engine
    <3>1. engine' = [engine EXCEPT ![r] = engine[r]] /\ engine[r] \in Engines BY <1>0, <2>1
    <3> QED BY <2>1, <3>1 DEF Go
  <2>2. CASE \E e \in Local : Go(r, Enters(e)) /\ engine' = [engine EXCEPT ![r] = e]
    <3>1. \A e \in Local : Enters(e) \in {"begin", "synth", "classic"} /\ e \in Engines
                           /\ e # "cloud"
      BY DEF Enters, Local, Engines
    <3> QED BY <2>2, <3>1 DEF Go
  <2> QED BY <2>1, <2>2 DEF Refused
<1>4. /\ n \in Token /\ n.set /\ n.own = k.own /\ n.run = k.run /\ n.tail = k.tail
      /\ n.left = k.left /\ n.leak = k.leak
  BY <1>2 DEF Token
<1> HIDE DEF n
<1>5. /\ token' \in Seq(Token) /\ Len(token') = Len(token) /\ DOMAIN token' = DOMAIN token
      /\ \A u \in DOMAIN token :
           /\ token'[u].own = token[u].own /\ token'[u].run = token[u].run
           /\ token'[u].tail = token[u].tail /\ token'[u].left = token[u].left
           /\ token'[u].leak = token[u].leak
           /\ token[u].set => token'[u].set
           /\ token'[u].set => token[u].set \/ u = cur
      /\ token'[t].set \/ t < cur
  <2>1. CASE t = cur
    <3>1. token' = [token EXCEPT ![t] = n] BY <1>1, <2>1
    <3> QED BY <1>0, <1>2, <1>4, <2>1, <3>1, OneToken
  <2>2. CASE t # cur
    <3>1. t < cur BY <1>0, <1>2, <2>2 
    <3> QED BY <1>0, <1>1, <2>2, <3>1
  <2> QED BY <2>1, <2>2
<1>6. /\ pc' \in [Requests -> Places] /\ engine' \in [Requests -> Engines]
      /\ pc'[r] = p /\ engine'[r] = e
      /\ \A q \in Requests : q # r => pc'[q] = pc[q] /\ engine'[q] = engine[q]
  BY <1>0, <1>3 DEF Places
<1>7. TypeOK' /\ cur' = Len(token')
  BY <1>0, <1>1, <1>5, <1>6 DEF TypeOK, sapi, rules
<1>8. TailInv' BY <1>0, <1>5 DEF TailInv
<1>9. HeldInv' BY <1>0, <1>1, <1>3, <1>5, <1>6 DEF HeldInv, CloudPlaces
<1>10. \A u \in DOMAIN token : token[u].own \in Requests
  <2>1. \A u \in DOMAIN token : token[u] \in Token BY <1>0
  <2> QED BY <2>1 DEF Token
<1>11. CloudInv' BY <1>0, <1>1, <1>3, <1>5, <1>6, <1>10 DEF CloudInv, CloudPlaces, rules
<1>12. ExposedInv'
  <2> SUFFICES ASSUME NEW u \in DOMAIN token, token[u].own \in exposed,
                      engine'[token[u].own] = "cloud", pc'[token[u].own] # "refused"
               PROVE  token'[u].set \/ u < cur
    BY <1>1, <1>5 DEF ExposedInv, rules
  <2>1. CASE token[u].own = r
    <3>1. engine[r] = "cloud" BY <1>3, <1>6, <2>1
    <3>2. u = t BY <1>0, <2>1, <3>1 DEF CloudInv
    <3> QED BY <1>5, <3>2
  <2>2. CASE token[u].own # r
    BY <1>0, <1>5, <1>6, <1>10, <2>2 DEF ExposedInv
  <2> QED BY <2>1, <2>2
<1>13. PrivateAnswersAreSilent'
  <2> SUFFICES ASSUME NEW u \in DOMAIN token, token[u].leak PROVE u < cur /\ ~token'[u].set
    BY <1>1, <1>5 DEF PrivateAnswersAreSilent, Lost
  <2>1. u < cur /\ ~token[u].set BY <1>0 DEF PrivateAnswersAreSilent, Lost
  <2>2. u # cur BY <1>0, <2>1 DEF TypeOK
  <2> QED BY <1>5, <2>1, <2>2
<1> QED BY <1>7, <1>8, <1>9, <1>11, <1>12, <1>13 DEF PInv

\* A new utterance.
LEMMA WaitedKeeps ==
  ASSUME PInv, NEW r \in Requests, Waited(r) PROVE PInv'
<1>0. TypeOK /\ cur = Len(token) /\ TailInv /\ HeldInv /\ CloudInv /\ ExposedInv
      /\ PrivateAnswersAreSilent /\ token \in Seq(Token) /\ Len(token) \in Nat
      /\ pc \in [Requests -> Places] /\ tok \in [Requests -> 0..Len(token)]
  BY DEF PInv, TypeOK
<1> DEFINE n == [set |-> FALSE, run |-> "none", left |-> 0, tail |-> 0,
                 late |-> FALSE, leak |-> FALSE, own |-> r]
           m == Len(token) + 1
<1>1. n \in Token BY PlaybackAssumption DEF Token, Runs, PlaybackAssumption
<1>2. /\ pc[r] = "wait" /\ token' = Append(token, n) /\ cur' = m
      /\ tok' = [tok EXCEPT ![r] = m] /\ playing' = TRUE
      /\ pc' = [pc EXCEPT ![r] = IF engine[r] = "cloud" THEN "reserved" ELSE "start"]
      /\ UNCHANGED <<engine, thread, sapi, rules>>
  BY DEF Waited, Go
<1>3. /\ token' \in Seq(Token) /\ Len(token') = m /\ DOMAIN token' = DOMAIN token \cup {m}
      /\ token'[m] = n /\ \A u \in DOMAIN token : token'[u] = token[u]
  BY <1>0, <1>1, <1>2, NewToken
<1>4. /\ n.set = FALSE /\ n.run = "none" /\ n.tail = 0 /\ n.leak = FALSE /\ n.own = r
  OBVIOUS
<1> HIDE DEF n
<1>5. \A u \in DOMAIN token : u \in 1..Len(token) /\ token[u].own \in Requests
  <2>1. \A u \in DOMAIN token : u \in 1..Len(token) /\ token[u] \in Token BY <1>0
  <2> QED BY <2>1 DEF Token
<1>6. /\ pc' \in [Requests -> Places] /\ tok' \in [Requests -> 0..m]
      /\ pc'[r] = (IF engine[r] = "cloud" THEN "reserved" ELSE "start") /\ tok'[r] = m
      /\ \A q \in Requests : q # r => pc'[q] = pc[q] /\ tok'[q] = tok[q]
  BY <1>0, <1>2 DEF Places
<1>7. TypeOK' /\ cur' = Len(token')
  BY <1>0, <1>2, <1>3, <1>6 DEF TypeOK, sapi, rules
<1>8. TailInv' BY <1>0, <1>3, <1>4 DEF TailInv
<1>9. HeldInv' BY <1>0, <1>3, <1>4, <1>6 DEF HeldInv, CloudPlaces
<1>10. CloudInv'
  BY <1>0, <1>2, <1>3, <1>4, <1>5, <1>6 DEF CloudInv, CloudPlaces, rules
<1>11. ExposedInv'
  <2>1. engine[r] = "cloud" => r \notin exposed BY <1>0, <1>2 DEF CloudInv
  <2> QED BY <1>0, <1>2, <1>3, <1>4, <1>5, <2>1 DEF ExposedInv, rules
<1>12. PrivateAnswersAreSilent'
  BY <1>0, <1>2, <1>3, <1>4, <1>5 DEF PrivateAnswersAreSilent, Lost
<1> QED BY <1>7, <1>8, <1>9, <1>10, <1>11, <1>12 DEF PInv

\* What stops the player.
LEMMA PlayerStops ==
  ASSUME PInv, StopPlayer, TypeOK', UNCHANGED <<engine, tok, cur>>,
         \A r \in Requests : pc'[r] = pc[r] \/ (pc[r] = "begin" /\ pc'[r] = "wait"),
         exposed' \subseteq exposed \cup Asking
  PROVE  PInv'
<1>0. TypeOK /\ cur = Len(token) /\ TailInv /\ HeldInv /\ CloudInv /\ ExposedInv
      /\ PrivateAnswersAreSilent /\ token \in Seq(Token) /\ Len(token) \in Nat
  BY DEF PInv, TypeOK
<1>1. /\ token' \in Seq(Token) /\ Len(token') = Len(token) /\ DOMAIN token' = DOMAIN token
      /\ \A u \in DOMAIN token :
           /\ token[u].set \/ u = cur => token'[u].set
           /\ token'[u].set => token[u].set \/ u = cur
           /\ token'[u].run = IF token[u].run = "sounding" THEN "next" ELSE token[u].run
           /\ token'[u].left = token[u].left /\ token'[u].tail = token[u].tail
           /\ token'[u].leak = token[u].leak /\ token'[u].own = token[u].own
  BY <1>0, AllStopped
<1>2. \A u \in DOMAIN token : u \in 1..Len(token) /\ token[u].own \in Requests
  <2>1. \A u \in DOMAIN token : u \in 1..Len(token) /\ token[u] \in Token BY <1>0
  <2> QED BY <2>1 DEF Token
<1>3. TailInv' BY <1>0, <1>1 DEF TailInv
<1>4. HeldInv' BY <1>0, <1>1 DEF HeldInv, CloudPlaces
<1>5. CloudInv' BY <1>0, <1>1, <1>2 DEF CloudInv, CloudPlaces, Asking
<1>6. ExposedInv' BY <1>0, <1>1, <1>2 DEF ExposedInv
<1>7. PrivateAnswersAreSilent' BY <1>0, <1>1, <1>2 DEF PrivateAnswersAreSilent, Lost
<1> QED BY <1>0, <1>1, <1>3, <1>4, <1>5, <1>6, <1>7 DEF PInv

\* The bound on presses is kept.
LEMMA Pressed ==
  ASSUME presses \in 0..MaxPresses, presses < MaxPresses PROVE presses + 1 \in 0..MaxPresses
BY PlaybackAssumption DEF PlaybackAssumption

\* stop(), privacy mode and a new request.
LEMMA StopKeeps ==
  ASSUME PInv, Stop \/ PrivacyOn \/ PrivacyOff \/ (\E r \in Requests : Begin(r)) PROVE PInv'
<1>0. TypeOK /\ token \in Seq(Token) /\ Len(token) \in Nat BY DEF PInv, TypeOK
<1>1. CASE Stop
  <2>1. token' \in Seq(Token) /\ Len(token') = Len(token) BY <1>0, <1>1, AllStopped DEF Stop
  <2>2. classic' \in [Requests -> {"none", "starting", "sounding", "ended"}] /\ flag' \in BOOLEAN
    BY <1>0, <1>1 DEF Stop, TypeOK
  <2>3. TypeOK'
    BY <1>0, <1>1, <2>1, <2>2, Pressed DEF Stop, TypeOK, StopPlayer
  <2> QED BY <1>1, <2>3, PlayerStops DEF Stop
<1>2. CASE PrivacyOn
  <2>1. token' \in Seq(Token) /\ Len(token') = Len(token)
    BY <1>0, <1>2, AllStopped DEF PrivacyOn
  <2>2. TypeOK'
    BY <1>0, <1>2, <2>1, Pressed DEF PrivacyOn, TypeOK, StopPlayer, sapi, Asking
  <2> QED BY <1>2, <2>2, PlayerStops DEF PrivacyOn
<1>3. CASE PrivacyOff
  <2>1. TypeOK'
    BY <1>0, <1>3, Pressed DEF PrivacyOff, TypeOK, sapi, player
  <2> QED BY <1>3, <2>1, NothingMoves DEF PrivacyOff, player
<1>4. ASSUME NEW r \in Requests, Begin(r) PROVE PInv'
  <2>1. token' \in Seq(Token) /\ Len(token') = Len(token)
    BY <1>0, <1>4, AllStopped DEF Begin
  <2>2. /\ pc' \in [Requests -> Places]
        /\ \A q \in Requests : pc'[q] = pc[q] \/ (pc[q] = "begin" /\ pc'[q] = "wait")
    BY <1>0, <1>4 DEF Begin, Go, TypeOK, Places
  <2>3. TypeOK'
    BY <1>0, <1>4, <2>1, <2>2 DEF Begin, TypeOK, StopPlayer, sapi, rules
  <2> QED BY <1>4, <2>2, <2>3, PlayerStops DEF Begin, rules
<1> QED BY <1>1, <1>2, <1>3, <1>4

\* Every step of the player keeps its invariant.
LEMMA PlaybackStep == PInv /\ [Next]_vars => PInv'
<1> SUFFICES ASSUME PInv, [Next]_vars PROVE PInv'
  OBVIOUS
<1>1. ASSUME NEW r \in Requests, RequestStep(r) PROVE PInv'
  BY <1>1, QuietStep, StopKeeps, WaitedKeeps, LaunchKeeps, RefusedKeeps DEF RequestStep
<1>2. ASSUME NEW t \in DOMAIN token, WorkerStep(t) PROVE PInv'
  BY <1>2, WorkerKeeps
<1>3. CASE Stop \/ PrivacyOn \/ PrivacyOff BY <1>3, StopKeeps
<1>4. CASE UNCHANGED vars
  <2>1. TypeOK' BY <1>4 DEF PInv, TypeOK, vars
  <2> QED BY <1>4, <2>1, NothingMoves DEF vars
<1> QED BY <1>1, <1>2, <1>3, <1>4 DEF Next

\* The player's bookkeeping, for any number of requests and sentences (playback.py).
THEOREM PlaybackBookkeeping == Spec => []PInv
<1>1. Init => PInv
  <2> SUFFICES ASSUME Init PROVE PInv
    OBVIOUS
  <2>1. token = <<>> /\ token \in Seq(Token) /\ Len(token) = 0 /\ DOMAIN token = {}
    BY DEF Init
  <2>2. TypeOK
    <3>1. pc \in [Requests -> Places] /\ engine \in [Requests -> Engines]
      BY DEF Init, Places, Engines, Local
    <3>2. /\ tok \in [Requests -> 0..0] /\ cur \in 0..0 /\ thread \in 0..0
          /\ presses \in 0..MaxPresses
      BY PlaybackAssumption DEF Init, PlaybackAssumption
    <3>3. classic \in [Requests -> {"none", "starting", "sounding", "ended"}] BY DEF Init
    <3>4. /\ playing \in BOOLEAN /\ flag \in BOOLEAN /\ built \in BOOLEAN /\ privacy \in BOOLEAN
          /\ hushed \subseteq Requests /\ exposed \subseteq Requests
      BY DEF Init
    <3> QED BY <2>1, <3>1, <3>2, <3>3, <3>4 DEF TypeOK
  <2>3. TailInv /\ ExposedInv /\ PrivateAnswersAreSilent
    BY <2>1 DEF TailInv, ExposedInv, PrivateAnswersAreSilent
  <2>4. HeldInv /\ CloudInv BY <2>1 DEF Init, HeldInv, CloudInv, CloudPlaces
  <2> QED BY <2>1, <2>2, <2>3, <2>4 DEF PInv, Init
<1> QED BY <1>1, PlaybackStep, PTL DEF Spec

\* After a stop at most the sentence under way is finished, and no answer of a private
\* cloud request is spoken (cancel(), launch() and the checks of privacy.py).
THEOREM StoppedIsSilent == Spec => []SilenceIsKept
<1>1. PInv => SilenceIsKept
  BY DEF PInv, SilenceIsKept, CancelCutsTail, TailInv
<1> QED BY <1>1, PlaybackBookkeeping, PTL

-----------------------------------------------------------------------------
(* The kept settings of the cloud voices. *)

KeyOp  == {"save", "delete"}
\* Who writes preferences.json.
Writes == KeyOp \cup {"engine", "tuning", "profile", "voice"}
Busy   == {"key", "load", "replace"}

\* What a thread still has to write.
Todo(j) ==
  \/ j.op \in KeyOp /\ j.todo = <<{"flag"}>>
  \/ j.op = "engine" /\ j.todo = <<{"engine"}>>
  \/ j.op = "tuning" /\ j.todo = <<{"tuning"}>>
  \/ j.op = "profile" /\ j.todo = <<{"model", "tone"}>>
  \/ j.op = "voice" /\ j.todo \in {<<{"id"}, {"name"}>>, <<{"name"}>>}

\* What a request still has to do at each place.
Shape(j) ==
  /\ j.at \in Busy => Todo(j)
  /\ j.at \in {"private", "fetch", "read", "send", "sent"} => j.op = "use"
  /\ j.at = "key" => j.op \in KeyOp
  /\ j.at = "undo" => j.op = "save"
  /\ j.op = "save" => j.value = "chosen"
  /\ j.op = "delete" => j.value = "default"
  /\ j.at # "idle" => j.said = "none"
  /\ j.at \notin {"idle", "undo"} /\ j.op # "voice" => j.wrote
  /\ j.said = "yes" /\ j.op \notin {"voice", "tuning"} => j.wrote

\* Every request is in the shape of its place.
ShapeInv == \A r \in Requests : Shape(job[r])

\* Who replaces the file holds the lock, and replaces what is there now.
LockInv == \A r \in Requests : job[r].at = "replace" => lock = r /\ job[r].base = file

\* The stored key and the flag of the file agree, but for what the user was told.
Admitted ==
  /\ stored => file["flag"] = "chosen"
  /\ file["flag"] = "chosen" /\ ~stored => told

\* A request that is at the key.
Keyed(j) == j.op \in KeyOp /\ j.at # "idle"

\* A request at the key is alone, or something failed or overlapped and is in doubt.
KeyInv ==
  /\ \A q, r \in Requests : Keyed(job[q]) /\ Keyed(job[r]) /\ q # r => ~job[q].alone
  /\ \A r \in Requests : Keyed(job[r]) => job[r].alone \/ doubt
  /\ \A r \in Requests :
       Keyed(job[r]) /\ job[r].alone /\ job[r].at \in {"load", "replace"} =>
         (stored <=> job[r].op = "save")
  /\ ~doubt /\ (\A r \in Requests : Keyed(job[r]) => job[r].at = "key") => Admitted

\* The inductive invariant of the kept settings.
SInv ==
  Cloud!TypeOK /\ ShapeInv /\ LockInv /\ KeyInv /\ file["model"] = file["tone"]

\* Lists of one and of two, and the lists of writes there are.
LEMMA Lists ==
  ASSUME NEW S, NEW x \in S, NEW y \in S
  PROVE  <<x>> \in Seq(S) /\ <<x, y>> \in Seq(S) /\ Tail(<<x>>) = <<>> /\ Tail(<<x, y>>) = <<y>>
OBVIOUS

\* The writes of each request, as a sequence of sets of entries.
LEMMA WriteLists ==
  \A w \in {<<>>, <<{"flag"}>>, <<{"engine"}>>, <<{"tuning"}>>, <<{"model", "tone"}>>,
           <<{"id"}, {"name"}>>, <<{"name"}>>} : w \in Seq(SUBSET Cloud!Names)
<1>1. \A x \in {{"flag"}, {"engine"}, {"tuning"}, {"model", "tone"}, {"id"}, {"name"}} :
        x \in SUBSET Cloud!Names
  BY DEF Cloud!Names
<1>2. \A x, y \in SUBSET Cloud!Names : <<x>> \in Seq(SUBSET Cloud!Names)
        /\ <<x, y>> \in Seq(SUBSET Cloud!Names)
  BY Lists
<1>3. <<>> \in Seq(SUBSET Cloud!Names) OBVIOUS
<1> QED BY <1>1, <1>2, <1>3

\* What is left of them after the first.
LEMMA WriteTails ==
  /\ \A x \in {{"flag"}, {"engine"}, {"tuning"}, {"model", "tone"}, {"id"}, {"name"}} :
       Tail(<<x>>) = <<>>
  /\ Tail(<<{"id"}, {"name"}>>) = <<{"name"}>>
<1>1. \A x \in {{"flag"}, {"engine"}, {"tuning"}, {"model", "tone"}, {"id"}, {"name"}} :
        x \in SUBSET Cloud!Names
  BY DEF Cloud!Names
<1> QED BY <1>1, Lists

\* One thread's job changes.
LEMMA OneJob ==
  ASSUME job \in [Requests -> Cloud!Job], NEW r \in Requests, NEW n \in Cloud!Job,
         job' = [job EXCEPT ![r] = n]
  PROVE  /\ job' \in [Requests -> Cloud!Job] /\ job'[r] = n
         /\ \A q \in Requests : q # r => job'[q] = job[q]
OBVIOUS

\* A request with one of its parts changed is a request.
LEMMA JobType ==
  ASSUME SInv, NEW r \in Requests
  PROVE  /\ job[r] \in Cloud!Job /\ Shape(job[r])
         /\ job[r].op \in Cloud!Ops \cup {"none"} /\ job[r].at \in Cloud!Places
         /\ job[r].value \in Cloud!Values /\ job[r].todo \in Seq(SUBSET Cloud!Names)
         /\ job[r].base \in {<<>>} \cup [Cloud!Names -> Cloud!Values]
         /\ job[r].alone \in BOOLEAN /\ job[r].wrote \in BOOLEAN
         /\ job[r].said \in {"none", "yes", "no", "private"}
<1>1. job[r] \in Cloud!Job /\ Shape(job[r]) BY DEF SInv, Cloud!TypeOK, ShapeInv
<1> QED BY <1>1 DEF Cloud!Job

\* A step of a request that is not at the key keeps what is known of the key.
LEMMA NoKeyStep ==
  ASSUME SInv, NEW r \in Requests, NEW n \in Cloud!Job, job' = [job EXCEPT ![r] = n],
         n.op = job[r].op, n.op \notin KeyOp,
         UNCHANGED <<stored, doubt, told>>, file'["flag"] = file["flag"]
  PROVE  KeyInv'
<1>1. /\ job'[r] = n /\ \A q \in Requests : q # r => job'[q] = job[q]
  BY OneJob DEF SInv, Cloud!TypeOK
<1>2. ~Keyed(job[r]) /\ ~Keyed(job'[r]) BY <1>1 DEF Keyed
<1>3. \A q \in Requests : Keyed(job'[q]) => Keyed(job[q]) /\ job'[q] = job[q] /\ q # r
  BY <1>1, <1>2
<1>4. \A q \in Requests : Keyed(job[q]) => Keyed(job'[q]) /\ job'[q] = job[q]
  BY <1>1, <1>2
<1>5. Admitted' = Admitted BY DEF Admitted
<1> QED BY <1>3, <1>4, <1>5 DEF SInv, KeyInv

\* The bounds on calls and faults are kept.
LEMMA Counted ==
  ASSUME SInv, Cloud!Fine \/ Cloud!Fault PROVE faults' \in 0..MaxFaults
BY CloudAssumption DEF SInv, Cloud!TypeOK, Cloud!Fine, Cloud!Fault, CloudAssumption

\* A request that uses the key changes nothing but its own place.
LEMMA UseKeeps ==
  ASSUME SInv, NEW r \in Requests,
         \/ Cloud!UseAllowed(r) \/ Cloud!UseKey(r) \/ Cloud!UseReads(r)
         \/ Cloud!UseSends(r) \/ Cloud!UseEnds(r)
  PROVE  SInv'
<1> DEFINE j == job[r]
<1>0. j \in Cloud!Job /\ Shape(j) /\ job \in [Requests -> Cloud!Job] /\ j.got \in Seq(Cloud!Values)
      /\ file \in [Cloud!Names -> Cloud!Values]
  <2>1. j \in Cloud!Job /\ Shape(j) /\ job \in [Requests -> Cloud!Job]
        /\ file \in [Cloud!Names -> Cloud!Values]
    BY JobType DEF SInv, Cloud!TypeOK
  <2> QED BY <2>1 DEF Cloud!Job
<1>1. j.at \in {"private", "fetch", "read", "send", "sent"}
  BY DEF Cloud!UseAllowed, Cloud!UseKey, Cloud!UseReads, Cloud!UseSends, Cloud!UseEnds, Cloud!At
<1>2. j.op = "use" /\ j.said = "none" /\ j.wrote BY <1>0, <1>1 DEF Shape
<1> DEFINE Goes(n) == /\ n.op = "use" /\ n.at \in {"idle", "fetch", "read", "send", "sent"}
                      /\ n.wrote = TRUE /\ (n.at # "idle" => n.said = "none")
<1>3. PICK n \in Cloud!Job : job' = [job EXCEPT ![r] = n] /\ Goes(n)
  <2>1. ASSUME NEW what \in {"yes", "no", "private"}, job' = Cloud!Answered(r, what)
        PROVE  \E n \in Cloud!Job : job' = [job EXCEPT ![r] = n] /\ Goes(n)
    <3> DEFINE n == [j EXCEPT !.at = "idle", !.said = what]
    <3>1. job' = [job EXCEPT ![r] = n] BY <2>1 DEF Cloud!Answered
    <3>2. n \in Cloud!Job /\ Goes(n) BY <1>0, <1>2 DEF Cloud!Job, Cloud!Places
    <3> HIDE DEF n
    <3> QED BY <3>1, <3>2
  <2>2. ASSUME NEW place \in {"fetch", "read"}, Cloud!To(r, place)
        PROVE  \E n \in Cloud!Job : job' = [job EXCEPT ![r] = n] /\ Goes(n)
    <3> DEFINE n == [j EXCEPT !.at = place]
    <3>1. job' = [job EXCEPT ![r] = n] BY <2>2 DEF Cloud!To
    <3>2. n \in Cloud!Job /\ Goes(n) BY <1>0, <1>2 DEF Cloud!Job, Cloud!Places
    <3> HIDE DEF n
    <3> QED BY <3>1, <3>2
  <2>3. ASSUME job' = [job EXCEPT ![r].at = "sent", ![r].sent = TRUE]
        PROVE  \E n \in Cloud!Job : job' = [job EXCEPT ![r] = n] /\ Goes(n)
    <3> DEFINE n == [j EXCEPT !.at = "sent", !.sent = TRUE]
    <3>1. job' = [job EXCEPT ![r] = n] BY <2>3
    <3>2. n \in Cloud!Job /\ Goes(n) BY <1>0, <1>2 DEF Cloud!Job, Cloud!Places
    <3> HIDE DEF n
    <3> QED BY <3>1, <3>2
  <2>4. ASSUME NEW place \in {"send", "read"}, NEW v \in Cloud!Values,
               job' = [job EXCEPT ![r].got = Append(@, v), ![r].at = place]
        PROVE  \E n \in Cloud!Job : job' = [job EXCEPT ![r] = n] /\ Goes(n)
    <3> DEFINE n == [j EXCEPT !.got = Append(j.got, v), !.at = place]
    <3>1. job' = [job EXCEPT ![r] = n] BY <2>4
    <3>3. Append(j.got, v) \in Seq(Cloud!Values) BY <1>0
    <3>2. n \in Cloud!Job /\ Goes(n) BY <1>0, <1>2, <3>3 DEF Cloud!Job, Cloud!Places
    <3> HIDE DEF n
    <3> QED BY <3>1, <3>2
  <2>5. CASE Cloud!UseAllowed(r) \/ Cloud!UseKey(r)
    BY <2>1, <2>2, <2>5 DEF Cloud!UseAllowed, Cloud!UseKey
  <2>6. CASE Cloud!UseReads(r)
    <3>1. PICK place \in {"send", "read"}, v \in {file["model"], file["tone"], "default"} :
            job' = [job EXCEPT ![r].got = Append(@, v), ![r].at = place]
      BY <2>6 DEF Cloud!UseReads
    <3>2. v \in Cloud!Values BY <1>0, <3>1 DEF Cloud!Values, Cloud!Names
    <3> QED BY <2>4, <3>1, <3>2
  <2>7. CASE Cloud!UseSends(r) \/ Cloud!UseEnds(r)
    BY <2>1, <2>3, <2>7 DEF Cloud!UseSends, Cloud!UseEnds
  <2> QED BY <2>5, <2>6, <2>7
<1>4. /\ UNCHANGED <<stored, file, lock, cloudPrivacy, calls, doubt, told>>
      /\ Cloud!Fine \/ Cloud!Fault
  BY DEF Cloud!UseAllowed, Cloud!UseKey, Cloud!UseReads, Cloud!UseSends, Cloud!UseEnds
<1>5. /\ job' \in [Requests -> Cloud!Job] /\ job'[r] = n
      /\ \A q \in Requests : q # r => job'[q] = job[q]
  BY <1>0, <1>3, OneJob
<1>6. Shape(n) BY <1>3 DEF Shape, Busy, KeyOp
<1>7. Cloud!TypeOK' BY <1>4, <1>5, Counted DEF SInv, Cloud!TypeOK
<1>8. ShapeInv' BY <1>5, <1>6 DEF SInv, ShapeInv
<1>9. LockInv' BY <1>3, <1>4, <1>5 DEF SInv, LockInv
<1>10. KeyInv' BY <1>2, <1>3, <1>4, NoKeyStep DEF KeyOp
<1> QED BY <1>4, <1>7, <1>8, <1>9, <1>10 DEF SInv

\* Privacy mode, and the end of the process.
LEMMA WorldKeeps ==
  ASSUME SInv, Cloud!SetPrivacy \/ Cloud!ProcessEnds \/ UNCHANGED cloudVars PROVE SInv'
<1>1. CASE Cloud!SetPrivacy
  <2>1. UNCHANGED <<stored, file, lock, job, calls, doubt, told>> /\ cloudPrivacy' \in BOOLEAN
    BY <1>1 DEF Cloud!SetPrivacy, SInv, Cloud!TypeOK
  <2>2. faults' \in 0..MaxFaults BY <1>1, Counted DEF Cloud!SetPrivacy
  <2> QED BY <2>1, <2>2 DEF SInv, Cloud!TypeOK, ShapeInv, LockInv, KeyInv, Admitted
<1>2. CASE Cloud!ProcessEnds
  <2>1. /\ job' = [r \in Requests |-> Cloud!Resting] /\ lock' = Cloud!Free
        /\ cloudPrivacy' = FALSE /\ UNCHANGED <<stored, file, calls, told>>
        /\ doubt' = (doubt \/ \E r \in Requests : Cloud!KeyJob(r))
        /\ faults' \in 0..MaxFaults
    BY <1>2, Counted DEF Cloud!ProcessEnds
  <2>2. Cloud!Resting \in Cloud!Job /\ Shape(Cloud!Resting) /\ ~Keyed(Cloud!Resting)
        /\ Cloud!Resting.at = "idle"
    BY DEF Cloud!Resting, Cloud!Job, Cloud!Places, Cloud!Values, Shape, Keyed, Busy, KeyOp
  <2> DEFINE rest == Cloud!Resting
  <2> HIDE DEF rest
  <2>3. \A r \in Requests : job'[r] = rest BY <2>1 DEF rest
  <2>4. Cloud!TypeOK'
    BY <2>1, <2>2 DEF SInv, Cloud!TypeOK
  <2>5. ShapeInv' /\ LockInv' BY <2>2, <2>3 DEF ShapeInv, LockInv, rest
  <2>6. KeyInv'
    <3>1. \A r \in Requests : ~Keyed(job'[r]) BY <2>2, <2>3 DEF rest
    <3>2. ~doubt' => ~doubt /\ \A r \in Requests : ~Keyed(job[r])
      BY <2>1 DEF Cloud!KeyJob, Cloud!At, Cloud!KeyOps, Keyed, KeyOp
    <3>3. Admitted' = Admitted BY <2>1 DEF Admitted
    <3> QED BY <3>1, <3>2, <3>3 DEF SInv, KeyInv
  <2> QED BY <2>1, <2>4, <2>5, <2>6 DEF SInv
<1>3. CASE UNCHANGED cloudVars
  BY <1>3 DEF cloudVars, SInv, Cloud!TypeOK, ShapeInv, LockInv, KeyInv, Admitted
<1> QED BY <1>1, <1>2, <1>3

\* A new request, and what a use of the voice does.
LEMMA CallKeeps ==
  ASSUME SInv, NEW r \in Requests, NEW op \in Cloud!Ops, NEW v \in Cloud!Values,
         Cloud!Call(r, op, v)
  PROVE  SInv'
<1> DEFINE company == op \in KeyOp /\ \E q \in Requests : Keyed(job[q])
           first == IF op \in KeyOp THEN "key" ELSE IF op = "use" THEN "private" ELSE "load"
           value == IF op = "save" THEN "chosen" ELSE IF op = "delete" THEN "default" ELSE v
           n == [Cloud!Resting EXCEPT !.op = op, !.at = first, !.todo = Cloud!Writes(op),
                   !.value = value, !.alone = ~company]
<1>0. /\ job \in [Requests -> Cloud!Job] /\ job[r].at = "idle" /\ Cloud!TypeOK
      /\ \A q \in Requests : Shape(job[q])
  BY DEF SInv, ShapeInv, Cloud!TypeOK, Cloud!Call, Cloud!At
<1>1. \A q \in Requests : Cloud!KeyJob(q) <=> Keyed(job[q])
  BY DEF Cloud!KeyJob, Keyed, KeyOp, Cloud!KeyOps, Cloud!At
<1>2. /\ job' = [q \in Requests |->
                   IF q = r THEN n
                   ELSE IF company /\ Keyed(job[q]) THEN [job[q] EXCEPT !.alone = FALSE]
                   ELSE job[q]]
      /\ doubt' = (doubt \/ company)
      /\ calls' \in 0..MaxCalls /\ faults' \in 0..MaxFaults
      /\ UNCHANGED <<stored, file, lock, cloudPrivacy, told>>
  <2>1. calls' \in 0..MaxCalls /\ faults' \in 0..MaxFaults
    <3>1. calls < MaxCalls /\ calls' = calls + 1 /\ Cloud!Fine BY DEF Cloud!Call
    <3>2. calls \in 0..MaxCalls BY <1>0 DEF Cloud!TypeOK
    <3> QED BY <3>1, <3>2, Counted, CloudAssumption DEF CloudAssumption
  <2> QED BY <1>1, <2>1 DEF Cloud!Call, KeyOp, Cloud!KeyOps
<1>3. /\ Cloud!Writes(op) \in Seq(SUBSET Cloud!Names) /\ company \in BOOLEAN
      /\ first \in Cloud!Places /\ value \in Cloud!Values
  <2>1. Cloud!Writes(op) \in {<<>>, <<{"flag"}>>, <<{"engine"}>>, <<{"tuning"}>>,
                              <<{"model", "tone"}>>, <<{"id"}, {"name"}>>}
    BY DEF Cloud!Writes, Cloud!Ops, Cloud!KeyOps
  <2>2. \A w \in {<<>>, <<{"flag"}>>, <<{"engine"}>>, <<{"tuning"}>>,
                <<{"model", "tone"}>>, <<{"id"}, {"name"}>>} : w \in Seq(SUBSET Cloud!Names)
    BY WriteLists
  <2>3. first \in Cloud!Places /\ value \in Cloud!Values BY DEF Cloud!Places, Cloud!Values
  <2>4. company \in BOOLEAN OBVIOUS
  <2> QED BY <2>1, <2>2, <2>3, <2>4
<1> HIDE DEF company, first, value
<1>4. /\ n \in Cloud!Job /\ n.op = op /\ n.at = first /\ n.value = value
      /\ n.todo = Cloud!Writes(op) /\ n.alone = ~company /\ n.wrote = TRUE /\ n.said = "none"
  <2>1. <<>> \in Seq(Cloud!Values) /\ "default" \in Cloud!Values BY DEF Cloud!Values
  <2> QED BY <1>3, <2>1 DEF Cloud!Resting, Cloud!Job
<1>5. Shape(n)
  <2>1. first \in {"key", "load"} => Todo(n)
    BY <1>4 DEF Todo, KeyOp, Cloud!Writes, Cloud!KeyOps, Cloud!Ops, first
  <2> QED BY <1>4, <2>1 DEF Shape, Busy, KeyOp, Cloud!KeyOps, Cloud!Ops, first, value
<1> HIDE DEF n
<1>6. ASSUME NEW q \in Requests, q # r
      PROVE  /\ job'[q] \in Cloud!Job /\ Shape(job'[q])
             /\ job'[q].op = job[q].op /\ job'[q].at = job[q].at /\ job'[q].base = job[q].base
             /\ job'[q].alone = IF company /\ Keyed(job[q]) THEN FALSE ELSE job[q].alone
             /\ Keyed(job'[q]) <=> Keyed(job[q])
  <2>1. job[q] \in Cloud!Job /\ Shape(job[q]) BY <1>0
  <2>2. CASE company /\ Keyed(job[q])
    <3>1. job'[q] = [job[q] EXCEPT !.alone = FALSE] BY <1>2, <1>6, <2>2
    <3> QED BY <2>1, <2>2, <3>1 DEF Cloud!Job, Shape, Todo, Keyed
  <2>3. CASE ~(company /\ Keyed(job[q]))
    <3>1. job'[q] = job[q] BY <1>2, <1>6, <2>3
    <3> QED BY <2>1, <2>3, <3>1
  <2> QED BY <2>2, <2>3
<1>7. job'[r] = n BY <1>2
<1>8. Cloud!TypeOK'
  <2>1. job' = [q \in Requests |-> job'[q]] BY <1>2
  <2>2. job' \in [Requests -> Cloud!Job] BY <1>4, <1>6, <1>7, <2>1
  <2>3. doubt' \in BOOLEAN BY <1>2
  <2> QED BY <1>0, <1>2, <2>2, <2>3 DEF Cloud!TypeOK
<1>9. ShapeInv' BY <1>5, <1>6, <1>7 DEF ShapeInv
<1>10. LockInv'
  <2>1. n.at # "replace" BY <1>4 DEF first
  <2> QED BY <1>2, <1>6, <1>7, <2>1 DEF SInv, LockInv
<1>11. KeyInv'
  <2>1. ~Keyed(job[r]) BY <1>0 DEF Keyed
  <2>2. Keyed(n) <=> op \in KeyOp BY <1>4 DEF Keyed, first
  <2>3. Admitted' = Admitted BY <1>2 DEF Admitted
  <2>4. KeyInv BY DEF SInv
  <2>5. CASE company
    <3>1. \A q \in Requests : Keyed(job'[q]) => ~job'[q].alone BY <1>4, <1>6, <1>7, <2>5
    <3> QED BY <1>2, <2>5, <3>1 DEF KeyInv
  <2>6. CASE ~company /\ op \in KeyOp
    <3>1. \A q \in Requests : q # r => ~Keyed(job'[q]) BY <1>6, <2>6 DEF company
    <3>2. \A q \in Requests : ~Keyed(job[q]) BY <2>1, <2>6 DEF company
    <3>3. n.alone /\ n.at = "key" BY <1>4, <2>6 DEF first
    <3>4. doubt' = doubt BY <1>0, <1>2, <2>6 DEF Cloud!TypeOK
    <3> QED BY <1>7, <2>3, <2>4, <3>1, <3>2, <3>3, <3>4 DEF KeyInv
  <2>7. CASE op \notin KeyOp
    <3>1. ~company BY <2>7 DEF company
    <3>2. \A q \in Requests : Keyed(job'[q]) =>
            /\ q # r /\ Keyed(job[q]) /\ job'[q].alone = job[q].alone
            /\ job'[q].at = job[q].at /\ job'[q].op = job[q].op
      BY <1>6, <1>7, <2>2, <2>7, <3>1
    <3>3. \A q \in Requests : Keyed(job[q]) => Keyed(job'[q])  BY <1>6, <2>1
    <3>4. doubt' = doubt BY <1>0, <1>2, <3>1 DEF Cloud!TypeOK
    <3> QED BY <1>2, <2>3, <2>4, <3>2, <3>3, <3>4 DEF KeyInv
  <2> QED BY <2>5, <2>6, <2>7
<1> QED BY <1>2, <1>8, <1>9, <1>10, <1>11 DEF SInv

\* A key request at work is alone, or there is doubt; and nobody else is alone with it.
LEMMA Alone ==
  ASSUME SInv, NEW r \in Requests, Keyed(job[r])
  PROVE  /\ \A q \in Requests : q # r /\ Keyed(job[q]) => ~job[q].alone
         /\ ~doubt \/ job[r].alone => \A q \in Requests : q # r => ~Keyed(job[q]) \/ doubt
         /\ job[r].alone => \A q \in Requests : q # r => ~Keyed(job[q])
         /\ ~doubt => job[r].alone
BY JobType DEF SInv, KeyInv

\* Storing or deleting the key.
LEMMA KeyKeeps ==
  ASSUME SInv, NEW r \in Requests, Cloud!ChangeKey(r) \/ Cloud!UndoKey(r) PROVE SInv'
<1> DEFINE j == job[r]
<1>0. /\ j \in Cloud!Job /\ Shape(j) /\ job \in [Requests -> Cloud!Job] /\ Cloud!TypeOK
      /\ j.at \in {"key", "undo"} /\ KeyInv
  BY JobType DEF SInv, Cloud!TypeOK, Cloud!ChangeKey, Cloud!UndoKey, Cloud!At
<1>1. j.op \in KeyOp /\ Keyed(j) /\ j.said = "none" /\ j.alone \in BOOLEAN
      /\ (j.at = "key" => j.wrote /\ Todo(j)) /\ (j.at = "undo" => j.op = "save")
  <2>1. j.op \in KeyOp BY <1>0 DEF Shape, KeyOp
  <2>2. j.alone \in BOOLEAN BY <1>0 DEF Cloud!Job
  <2> QED BY <1>0, <2>1, <2>2 DEF Shape, KeyOp, Keyed, Busy
<1>2. PICK n \in Cloud!Job :
        /\ job' = [job EXCEPT ![r] = n] /\ n.op = j.op /\ n.alone = j.alone /\ n.value = j.value
        /\ n.todo = j.todo /\ n.wrote = j.wrote
        /\ \/ n.at = "idle" /\ n.said = "no"
           \/ n.at = "load" /\ n.said = "none" /\ j.at = "key" /\ (stored' <=> j.op = "save")
              /\ UNCHANGED <<doubt, told>>
  <2>1. ASSUME job' = Cloud!Answered(r, "no")
        PROVE  \E n \in Cloud!Job :
                 /\ job' = [job EXCEPT ![r] = n] /\ n.op = j.op /\ n.alone = j.alone
                 /\ n.value = j.value /\ n.todo = j.todo /\ n.wrote = j.wrote
                 /\ n.at = "idle" /\ n.said = "no"
    <3> DEFINE n == [j EXCEPT !.at = "idle", !.said = "no"]
    <3>1. job' = [job EXCEPT ![r] = n] BY <2>1 DEF Cloud!Answered
    <3>2. /\ n \in Cloud!Job /\ n.op = j.op /\ n.alone = j.alone /\ n.value = j.value
          /\ n.todo = j.todo /\ n.wrote = j.wrote /\ n.at = "idle" /\ n.said = "no"
      BY <1>0 DEF Cloud!Job, Cloud!Places
    <3> HIDE DEF n, j
    <3> QED BY <3>1, <3>2
  <2>2. CASE Cloud!To(r, "load") /\ Cloud!ChangeKey(r) /\ job' # Cloud!Answered(r, "no")
    <3> DEFINE n == [j EXCEPT !.at = "load"]
    <3>1. job' = [job EXCEPT ![r] = n] BY <2>2 DEF Cloud!To
    <3>2. /\ n \in Cloud!Job /\ n.op = j.op /\ n.alone = j.alone /\ n.value = j.value
          /\ n.todo = j.todo /\ n.wrote = j.wrote /\ n.at = "load" /\ n.said = j.said
      BY <1>0 DEF Cloud!Job, Cloud!Places
    <3>3. j.at = "key" /\ (stored' <=> j.op = "save") /\ UNCHANGED <<doubt, told>>
      BY <2>2 DEF Cloud!ChangeKey, Cloud!At
    <3>4. j.said = "none" BY <1>1
    <3> HIDE DEF n, j
    <3> QED BY <3>1, <3>2, <3>3, <3>4
  <2>3. job' = Cloud!Answered(r, "no") \/ (Cloud!To(r, "load") /\ Cloud!ChangeKey(r))
    BY DEF Cloud!ChangeKey, Cloud!UndoKey
  <2> HIDE DEF j
  <2> QED BY <2>1, <2>2, <2>3
<1>3. /\ UNCHANGED <<file, lock, cloudPrivacy, calls>> /\ faults' \in 0..MaxFaults
      /\ stored' \in BOOLEAN /\ doubt' \in BOOLEAN /\ told' \in BOOLEAN
      /\ doubt => doubt'
  BY <1>0, Counted DEF Cloud!ChangeKey, Cloud!UndoKey, Cloud!TypeOK
<1>4. /\ job' \in [Requests -> Cloud!Job] /\ job'[r] = n
      /\ \A q \in Requests : q # r => job'[q] = job[q]
  BY <1>0, <1>2, OneJob
<1>5. Shape(n)
  <2>1. n.at = "load" => Todo(n) BY <1>1, <1>2 DEF Todo
  <2> QED BY <1>0, <1>1, <1>2, <2>1 DEF Shape, Busy, KeyOp
<1>6. Cloud!TypeOK' BY <1>0, <1>3, <1>4 DEF Cloud!TypeOK
<1>7. ShapeInv' BY <1>4, <1>5 DEF SInv, ShapeInv
<1>8. LockInv' BY <1>2, <1>3, <1>4 DEF SInv, LockInv
<1>9. KeyInv'
  <2>1. /\ \A q \in Requests : q # r /\ Keyed(job[q]) => ~job[q].alone
        /\ ~doubt => j.alone /\ \A q \in Requests : q # r => ~Keyed(job[q])
    BY <1>1, Alone
  <2>2. \A q, p \in Requests : Keyed(job'[q]) /\ Keyed(job'[p]) /\ q # p => ~job'[q].alone
    BY <1>0, <1>1, <1>2, <1>4 DEF KeyInv
  <2>3. \A q \in Requests : Keyed(job'[q]) => job'[q].alone \/ doubt'
    BY <1>0, <1>1, <1>2, <1>3, <1>4 DEF KeyInv
  <2>4. \A q \in Requests :
          Keyed(job'[q]) /\ job'[q].alone /\ job'[q].at \in {"load", "replace"} =>
            (stored' <=> job'[q].op = "save")
    BY <1>1, <1>2, <1>4, <2>1
  <2>5. ~doubt' /\ (\A q \in Requests : Keyed(job'[q]) => job'[q].at = "key") => Admitted'
    <3> SUFFICES ASSUME ~doubt', \A q \in Requests : Keyed(job'[q]) => job'[q].at = "key"
                 PROVE  Admitted'
      OBVIOUS
    <3>1. n.at = "idle" BY <1>1, <1>2, <1>4 DEF Keyed
    <3>2. ~doubt BY <1>3
    <3>3. CASE Cloud!ChangeKey(r)
      <4>1. j.at = "key" BY <3>3 DEF Cloud!ChangeKey, Cloud!At
      <4>2. job' # [job EXCEPT ![r].at = "load"]
        <5>1. [job EXCEPT ![r].at = "load"][r].at = "load" BY <1>0 DEF Cloud!Job
        <5> QED BY <1>4, <3>1, <5>1
      <4>3. stored' = stored /\ told' = told BY <3>3, <4>2 DEF Cloud!ChangeKey, Cloud!To
      <4>4. \A q \in Requests : Keyed(job[q]) => job[q].at = "key" BY <2>1, <3>2, <4>1
      <4> QED BY <1>0, <1>3, <3>2, <4>3, <4>4 DEF KeyInv, Admitted
    <3>4. CASE Cloud!UndoKey(r)
      <4>1. stored' = FALSE /\ told' = TRUE BY <3>4 DEF Cloud!UndoKey
      <4> QED BY <4>1 DEF Admitted
    <3> QED BY <3>3, <3>4
  <2> QED BY <2>2, <2>3, <2>4, <2>5 DEF KeyInv
<1> QED BY <1>3, <1>6, <1>7, <1>8, <1>9 DEF SInv


-----------------------------------------------------------------------------
(* A write of the preferences. *)

\* The flag after a write.
Flagged(ok, j) == IF ok /\ j.op \in KeyOp THEN j.value ELSE file["flag"]

\* A request after its write.
LEMMA WroteJob ==
  ASSUME SInv, NEW r \in Requests, job[r].at \in {"load", "replace"}, NEW ok \in BOOLEAN,
         Cloud!Wrote(r, ok)
  PROVE  /\ \E n \in Cloud!Job :
              /\ job' = [job EXCEPT ![r] = n] /\ Shape(n)
              /\ n.op = job[r].op /\ n.alone = job[r].alone /\ n.value = job[r].value
              /\ n.at \in {"load", "undo", "idle"}
              /\ n.at = "load" => n.op = "voice"
              /\ n.at = "undo" <=> (n.op = "save" /\ ~ok)
         /\ told' = IF job[r].op \in KeyOp THEN (IF ok THEN FALSE ELSE job[r].op = "delete" \/ told)
                    ELSE told
         /\ doubt' = IF job[r].op \in KeyOp /\ ok /\ job[r].alone THEN FALSE ELSE doubt
<1> DEFINE j == job[r]
           m == [j EXCEPT !.wrote = j.wrote /\ ok, !.todo = Tail(j.todo), !.base = <<>>]
           rest == m.todo # <<>>
           good == IF m.op \in {"voice", "tuning"} THEN TRUE ELSE ok
           at == IF rest THEN "load" ELSE IF m.op = "save" /\ ~ok THEN "undo" ELSE "idle"
           said == IF rest \/ (m.op = "save" /\ ~ok) THEN "none" ELSE IF good THEN "yes" ELSE "no"
           n == [m EXCEPT !.at = at, !.said = said]
<1>0. /\ j \in Cloud!Job /\ Shape(j) /\ Todo(j) /\ j.wrote \in BOOLEAN
      /\ (j.op # "voice" => j.wrote)
  <2>1. j \in Cloud!Job /\ Shape(j) /\ j.wrote \in BOOLEAN BY JobType
  <2> QED BY <2>1 DEF Shape, Busy
<1>1. /\ job' = [job EXCEPT ![r] = n]
      /\ told' = (IF m.op \in KeyOp THEN (IF ok THEN FALSE ELSE m.op = "delete" \/ told) ELSE told)
      /\ doubt' = (IF m.op \in KeyOp /\ ok /\ m.alone THEN FALSE ELSE doubt)
  BY DEF Cloud!Wrote, Cloud!KeyOps, KeyOp
<1>2. /\ Tail(j.todo) \in Seq(SUBSET Cloud!Names)
      /\ Tail(j.todo) # <<>> => j.op = "voice" /\ Tail(j.todo) = <<{"name"}>>
  <2>1. Tail(j.todo) \in {<<>>, <<{"name"}>>}
        /\ (Tail(j.todo) # <<>> => j.op = "voice")
    BY <1>0, WriteTails DEF Todo, KeyOp
  <2>2. \A w \in {<<>>, <<{"name"}>>} : w \in Seq(SUBSET Cloud!Names) BY WriteLists
  <2> QED BY <2>1, <2>2
<1>3. /\ m \in Cloud!Job /\ m.op = j.op /\ m.alone = j.alone /\ m.value = j.value
      /\ m.wrote = (j.wrote /\ ok) /\ m.todo = Tail(j.todo) /\ m.said = j.said /\ m.at = j.at
  BY <1>0, <1>2 DEF Cloud!Job
<1> HIDE DEF m
<1>4. at \in {"load", "undo", "idle"} /\ said \in {"none", "yes", "no"}
  OBVIOUS
<1>5. /\ at = "load" <=> rest
      /\ at = "undo" <=> (~rest /\ m.op = "save" /\ ~ok)
      /\ said = "yes" => ~rest /\ (m.op \in {"voice", "tuning"} \/ ok)
      /\ at # "idle" => said = "none"
  OBVIOUS
<1> HIDE DEF at, said
<1>6. /\ n \in Cloud!Job /\ n.op = m.op /\ n.alone = m.alone /\ n.value = m.value
      /\ n.wrote = m.wrote /\ n.todo = m.todo /\ n.at = at /\ n.said = said
  BY <1>3, <1>4 DEF Cloud!Job, Cloud!Places
<1> HIDE DEF n, j
<1>7. rest => j.op = "voice" BY <1>2, <1>3
<1>8. Shape(n)
  <2>1. n.at = "load" => Todo(n) BY <1>2, <1>3, <1>5, <1>6 DEF Todo
  <2>2. n.op = "save" => n.value = "chosen" BY <1>0, <1>3, <1>6 DEF Shape
  <2>3. n.op = "delete" => n.value = "default" BY <1>0, <1>3, <1>6 DEF Shape
  <2>4. n.at \in Busy => n.at = "load" BY <1>4, <1>6 DEF Busy
  <2>5. n.said = "yes" /\ n.op \notin {"voice", "tuning"} => n.wrote
    BY <1>0, <1>3, <1>5, <1>6
  <2>6. n.at \notin {"idle", "undo"} => n.op = "voice" BY <1>3, <1>4, <1>5, <1>6, <1>7
  <2>7. n.at = "undo" => n.op = "save" BY <1>5, <1>6
  <2>8. n.at # "idle" => n.said = "none" BY <1>5, <1>6
  <2> QED BY <1>4, <1>6, <2>1, <2>2, <2>3, <2>4, <2>5, <2>6, <2>7, <2>8 DEF Shape
<1>9. n.at = "undo" <=> (n.op = "save" /\ ~ok) BY <1>3, <1>5, <1>6, <1>7
<1>10. n.at = "load" => n.op = "voice" BY <1>3, <1>5, <1>6, <1>7
<1>11. n.op = j.op /\ n.alone = j.alone /\ n.value = j.value BY <1>3, <1>6
<1>12. n.at \in {"load", "undo", "idle"} BY <1>4, <1>6
<1> QED BY <1>1, <1>3, <1>6, <1>8, <1>9, <1>10, <1>11, <1>12 DEF j

\* Replacing the file under the lock: the base is the file, so no other write is lost.
LEMMA WroteKeeps ==
  ASSUME SInv, NEW r \in Requests, job[r].at \in {"load", "replace"}, NEW ok \in BOOLEAN,
         Cloud!Wrote(r, ok), stored' = stored, file'["flag"] = Flagged(ok, job[r])
  PROVE  KeyInv' /\ ShapeInv' /\ job' \in [Requests -> Cloud!Job]
         /\ doubt' \in BOOLEAN /\ told' \in BOOLEAN
         /\ job'[r].at # "replace" /\ \A q \in Requests : q # r => job'[q] = job[q]
<1> DEFINE j == job[r]
<1>0. /\ KeyInv /\ ShapeInv /\ stored \in BOOLEAN /\ doubt \in BOOLEAN /\ told \in BOOLEAN
      /\ job \in [Requests -> Cloud!Job] /\ Shape(j)
  BY DEF SInv, Cloud!TypeOK, ShapeInv
<1>1. PICK n \in Cloud!Job :
              /\ job' = [job EXCEPT ![r] = n] /\ Shape(n)
              /\ n.op = j.op /\ n.alone = j.alone /\ n.value = j.value
              /\ n.at \in {"load", "undo", "idle"}
              /\ n.at = "load" => n.op = "voice"
              /\ n.at = "undo" <=> (n.op = "save" /\ ~ok)
  BY WroteJob
<1>2. /\ told' = IF j.op \in KeyOp THEN (IF ok THEN FALSE ELSE j.op = "delete" \/ told) ELSE told
      /\ doubt' = IF j.op \in KeyOp /\ ok /\ j.alone THEN FALSE ELSE doubt
  BY WroteJob
<1>3. /\ job' \in [Requests -> Cloud!Job] /\ job'[r] = n
      /\ \A q \in Requests : q # r => job'[q] = job[q]
  BY <1>0, <1>1, OneJob
<1>4. ShapeInv' BY <1>0, <1>1, <1>3 DEF ShapeInv
<1>5. doubt' \in BOOLEAN /\ told' \in BOOLEAN BY <1>0, <1>2
<1>6. CASE j.op \notin KeyOp
  <2>1. doubt' = doubt /\ told' = told BY <1>2, <1>6
  <2>2. KeyInv' BY <1>1, <1>6, <2>1, NoKeyStep DEF Flagged
  <2> QED BY <1>1, <1>3, <1>4, <1>5, <2>2
<1>7. CASE j.op \in KeyOp
  <2>1. Keyed(j) /\ (Keyed(n) <=> n.at = "undo") /\ n.at \in {"undo", "idle"}
    BY <1>1, <1>7 DEF Keyed, KeyOp
  <2>2. /\ \A q \in Requests : q # r /\ Keyed(job[q]) => ~job[q].alone
        /\ j.alone => \A q \in Requests : q # r => ~Keyed(job[q])
        /\ ~doubt => j.alone
    BY <2>1, Alone
  <2>3. j.alone => (stored <=> j.op = "save") BY <1>0, <2>1 DEF KeyInv
  <2>4. \A q, p \in Requests : Keyed(job'[q]) /\ Keyed(job'[p]) /\ q # p => ~job'[q].alone
    BY <1>0, <1>1, <1>3, <2>1 DEF KeyInv
  <2>5. \A q \in Requests : Keyed(job'[q]) => job'[q].alone \/ doubt'
    <3>1. n.at = "undo" => ~ok BY <1>1
    <3> QED BY <1>0, <1>1, <1>2, <1>3, <2>1, <2>2, <3>1 DEF KeyInv
  <2>6. \A q \in Requests :
          Keyed(job'[q]) /\ job'[q].alone /\ job'[q].at \in {"load", "replace"} =>
            (stored' <=> job'[q].op = "save")
    BY <1>3, <2>1, <2>2
  <2>7. ~doubt' /\ (\A q \in Requests : Keyed(job'[q]) => job'[q].at = "key") => Admitted'
    <3> SUFFICES ASSUME ~doubt', \A q \in Requests : Keyed(job'[q]) => job'[q].at = "key"
                 PROVE  Admitted'
      OBVIOUS
    <3>1. n.at = "idle" BY <1>3, <2>1
    <3>2. j.alone BY <1>0, <1>2, <2>2
    <3>3. CASE ok
      <4>1. file'["flag"] = j.value BY <1>7, <3>3 DEF Flagged
      <4>2. j.value = "chosen" <=> j.op = "save" BY <1>0, <1>7 DEF Shape, KeyOp
      <4> QED BY <2>3, <3>2, <4>1, <4>2 DEF Admitted
    <3>4. CASE ~ok
      <4>1. j.op = "delete" BY <1>1, <1>7, <3>1, <3>4 DEF KeyOp
      <4>2. told' BY <1>2, <1>7, <3>4, <4>1
      <4> QED BY <2>3, <3>2, <4>1, <4>2 DEF Admitted
    <3> QED BY <3>3, <3>4
  <2>8. KeyInv' BY <2>4, <2>5, <2>6, <2>7 DEF KeyInv
  <2> QED BY <1>3, <1>4, <1>5, <2>1, <2>8
<1> QED BY <1>6, <1>7

\* Reading the file under the lock.
LEMMA LoadKeeps ==
  ASSUME SInv, NEW r \in Requests, Cloud!LoadForUpdate(r) PROVE SInv'
<1>0. /\ job[r].at = "load" /\ lock = Cloud!Free /\ Cloud!TypeOK
      /\ UNCHANGED <<stored, file, cloudPrivacy, calls>>
  BY DEF Cloud!LoadForUpdate, Cloud!At, SInv
<1>1. CASE /\ lock' = r /\ job' = [job EXCEPT ![r].at = "replace", ![r].base = file]
           /\ UNCHANGED <<doubt, told>> /\ Cloud!Fine
  <2> DEFINE j == job[r]
             n == [j EXCEPT !.at = "replace", !.base = file]
  <2>1. job' = [job EXCEPT ![r] = n] BY <1>1
  <2>2. j \in Cloud!Job /\ Shape(j) BY JobType
  <2>3. /\ n \in Cloud!Job /\ n.op = j.op /\ n.alone = j.alone /\ n.value = j.value
        /\ n.todo = j.todo /\ n.wrote = j.wrote /\ n.at = "replace" /\ n.said = j.said
        /\ n.base = file
    BY <1>0, <2>2 DEF Cloud!Job, Cloud!Places, Cloud!TypeOK
  <2> HIDE DEF n
  <2>4. /\ job' \in [Requests -> Cloud!Job] /\ job'[r] = n
        /\ \A q \in Requests : q # r => job'[q] = job[q]
    BY <1>0, <2>1, <2>3, OneJob DEF Cloud!TypeOK
  <2>5. Shape(n) BY <1>0, <2>2, <2>3 DEF Shape, Busy, Todo
  <2>6. Cloud!TypeOK' BY <1>0, <1>1, <2>4, Counted DEF Cloud!TypeOK
  <2>7. ShapeInv' BY <2>4, <2>5 DEF SInv, ShapeInv
  <2>8. LockInv'
    BY <1>0, <1>1, <2>3, <2>4, CloudAssumption DEF SInv, LockInv, CloudAssumption
  <2>9. KeyInv'
    <3>1. \A q \in Requests :
            /\ Keyed(job'[q]) <=> Keyed(job[q])
            /\ job'[q].alone = job[q].alone /\ job'[q].op = job[q].op
            /\ job'[q].at = job[q].at \/ (job[q].at = "load" /\ job'[q].at = "replace")
      BY <1>0, <2>3, <2>4 DEF Keyed
    <3>2. Admitted' = Admitted BY <1>0, <1>1 DEF Admitted
    <3>3. KeyInv BY DEF SInv
    <3>4. stored' = stored /\ doubt' = doubt BY <1>0, <1>1
    <3>5. \A q \in Requests : Keyed(job'[q]) => job'[q].alone \/ doubt'
      BY <3>1, <3>3, <3>4 DEF KeyInv
    <3>6. \A q \in Requests :
          Keyed(job'[q]) /\ job'[q].alone /\ job'[q].at \in {"load", "replace"} =>
            (stored' <=> job'[q].op = "save")
      BY <3>1, <3>3, <3>4 DEF KeyInv
    <3>7. ~doubt' /\ (\A q \in Requests : Keyed(job'[q]) => job'[q].at = "key") => Admitted'
      <4> SUFFICES ASSUME ~doubt', \A q \in Requests : Keyed(job'[q]) => job'[q].at = "key"
                   PROVE  Admitted
        BY <3>2
      <4>1. \A q \in Requests : Keyed(job[q]) => job[q].at = "key" BY <3>1
      <4> QED BY <3>3, <3>4, <4>1 DEF KeyInv
    <3>8. \A q, p \in Requests : Keyed(job'[q]) /\ Keyed(job'[p]) /\ q # p => ~job'[q].alone
      BY <3>1, <3>3 DEF KeyInv
    <3> QED BY <3>5, <3>6, <3>7, <3>8 DEF KeyInv
  <2> QED BY <1>0, <2>6, <2>7, <2>8, <2>9 DEF SInv
<1>2. CASE UNCHANGED lock /\ Cloud!Wrote(r, FALSE) /\ Cloud!Fault
  <2>1. KeyInv' /\ ShapeInv' /\ job' \in [Requests -> Cloud!Job]
        /\ doubt' \in BOOLEAN /\ told' \in BOOLEAN
        /\ job'[r].at # "replace" /\ \A q \in Requests : q # r => job'[q] = job[q]
    <3>1. file'["flag"] = Flagged(FALSE, job[r]) BY <1>0 DEF Flagged
    <3> QED BY <1>0, <1>2, <3>1, WroteKeeps
  <2>2. Cloud!TypeOK' BY <1>0, <1>2, <2>1, Counted DEF Cloud!TypeOK
  <2>3. LockInv' BY <1>0, <1>2, <2>1 DEF SInv, LockInv
  <2> QED BY <1>0, <2>1, <2>2, <2>3 DEF SInv
<1> QED BY <1>1, <1>2 DEF Cloud!LoadForUpdate

\* What a write leaves of the document.
LEMMA MergedFile ==
  ASSUME SInv, NEW r \in Requests, job[r].at = "replace"
  PROVE  /\ Cloud!Merged(r) \in [Cloud!Names -> Cloud!Values]
         /\ \A n \in Cloud!Names :
              Cloud!Merged(r)[n] = IF n \in Head(job[r].todo) THEN job[r].value ELSE file[n]
         /\ Cloud!Merged(r)["flag"] = Flagged(TRUE, job[r])
         /\ Cloud!Merged(r)["model"] = Cloud!Merged(r)["tone"]
<1>0. /\ job[r].base = file /\ file \in [Cloud!Names -> Cloud!Values] /\ Todo(job[r])
      /\ file["model"] = file["tone"] /\ job[r].value \in Cloud!Values
  BY JobType DEF SInv, LockInv, Cloud!TypeOK, Shape, Busy
<1>1. /\ Cloud!Merged(r) \in [Cloud!Names -> Cloud!Values]
      /\ \A n \in Cloud!Names :
              Cloud!Merged(r)[n] = IF n \in Head(job[r].todo) THEN job[r].value ELSE file[n]
  BY <1>0 DEF Cloud!Merged
<1>2. /\ "flag" \in Head(job[r].todo) <=> job[r].op \in KeyOp
      /\ "model" \in Head(job[r].todo) <=> "tone" \in Head(job[r].todo)
  BY <1>0 DEF Todo, KeyOp
<1>3. {"flag", "model", "tone"} \subseteq Cloud!Names BY DEF Cloud!Names
<1> QED BY <1>0, <1>1, <1>2, <1>3 DEF Flagged

\* The steps on the document, and giving the lock back.
LEMMA DocumentKeeps ==
  ASSUME SInv, NEW r \in Requests, Cloud!WriteDocument(r) PROVE SInv'
<1>0. /\ job[r].at = "replace" /\ lock = r /\ lock' = Cloud!Free /\ Cloud!TypeOK
      /\ UNCHANGED <<stored, cloudPrivacy, calls>>
      /\ file["model"] = file["tone"]
      /\ \A q \in Requests : q # r => job[q].at # "replace"
  BY DEF Cloud!WriteDocument, Cloud!At, SInv, LockInv
<1>1. \E ok \in BOOLEAN :
        /\ Cloud!Wrote(r, ok) /\ (Cloud!Fine \/ Cloud!Fault)
        /\ file' = IF ok THEN Cloud!Merged(r) ELSE file
  BY DEF Cloud!WriteDocument
<1>2. PICK ok \in BOOLEAN :
        /\ Cloud!Wrote(r, ok) /\ (Cloud!Fine \/ Cloud!Fault)
        /\ file' = IF ok THEN Cloud!Merged(r) ELSE file
  BY <1>1
<1>3. /\ file' \in [Cloud!Names -> Cloud!Values]
      /\ file'["flag"] = Flagged(ok, job[r]) /\ file'["model"] = file'["tone"]
  <2>1. CASE ok BY <1>0, <1>2, <2>1, MergedFile
  <2>2. CASE ~ok BY <1>0, <1>2, <2>2 DEF Flagged, Cloud!TypeOK
  <2> QED BY <2>1, <2>2
<1>4. KeyInv' /\ ShapeInv' /\ job' \in [Requests -> Cloud!Job]
      /\ doubt' \in BOOLEAN /\ told' \in BOOLEAN
      /\ job'[r].at # "replace" /\ \A q \in Requests : q # r => job'[q] = job[q]
  BY <1>0, <1>2, <1>3, WroteKeeps
<1>5. Cloud!TypeOK' BY <1>0, <1>2, <1>3, <1>4, Counted DEF Cloud!TypeOK
<1>6. LockInv' BY <1>0, <1>4 DEF LockInv
<1> QED BY <1>3, <1>4, <1>5, <1>6 DEF SInv

\* Every step of the settings keeps their invariant.
LEMMA SettingsStep == SInv /\ [Cloud!Next]_cloudVars => SInv'
<1> SUFFICES ASSUME SInv, [Cloud!Next]_cloudVars PROVE SInv'
  OBVIOUS
<1> QED
  BY CallKeeps, KeyKeeps, LoadKeeps, DocumentKeeps, UseKeeps, WorldKeeps DEF Cloud!Next

\* The bookkeeping of the kept settings, for any number of requests (preferences.py).
THEOREM SettingsBookkeeping == Cloud!Spec => []SInv
<1>1. Cloud!Init => SInv
  <2> SUFFICES ASSUME Cloud!Init PROVE SInv
    OBVIOUS
  <2> DEFINE rest == Cloud!Resting
  <2>1. Cloud!Resting \in Cloud!Job /\ Shape(Cloud!Resting) /\ ~Keyed(Cloud!Resting)
        /\ Cloud!Resting.at = "idle"
    BY DEF Cloud!Resting, Cloud!Job, Cloud!Places, Cloud!Values, Shape, Keyed, Busy, KeyOp
  <2>2. /\ job = [r \in Requests |-> Cloud!Resting] /\ stored \in BOOLEAN
        /\ file = [n \in Cloud!Names |-> IF n = "flag" /\ stored THEN "chosen" ELSE "default"]
        /\ lock = Cloud!Free /\ cloudPrivacy = FALSE /\ calls = 0 /\ faults = 0
        /\ doubt = FALSE /\ told = FALSE
    BY DEF Cloud!Init
  <2>3. \A r \in Requests : job[r] = rest BY <2>2
  <2>4. file \in [Cloud!Names -> Cloud!Values] /\ (file["flag"] = "chosen" <=> stored)
        /\ file["model"] = file["tone"]
    BY <2>2 DEF Cloud!Names, Cloud!Values
  <2>5. Cloud!TypeOK
    <3>1. job \in [Requests -> Cloud!Job] BY <2>1, <2>2
    <3>2. calls \in 0..MaxCalls /\ faults \in 0..MaxFaults
      BY <2>2, CloudAssumption DEF CloudAssumption
    <3> QED BY <2>2, <2>4, <3>1, <3>2 DEF Cloud!TypeOK
  <2> QED BY <2>1, <2>2, <2>3, <2>4, <2>5 DEF SInv, ShapeInv, LockInv, KeyInv, Admitted
<1> QED BY <1>1, SettingsStep, PTL DEF Cloud!Spec, Cloud!vars, cloudVars

\* What the Voice page reads about the OpenAI voice is so (voice_routes.py), unless a failure
\* left it in doubt and the user was told.
THEOREM SettingsStayHonest == Cloud!Spec => []SettingsAreHonest
<1>1. SInv => SettingsAreHonest
  <2> SUFFICES ASSUME SInv PROVE SettingsAreHonest
    OBVIOUS
  <2>1. Cloud!FlagIsHonest
    BY DEF SInv, KeyInv, Admitted, Cloud!FlagIsHonest, Cloud!KeyJob, Cloud!KeyOps, Cloud!At,
           Keyed, KeyOp
  <2>2. Cloud!ProfileIsWhole BY DEF SInv, Cloud!ProfileIsWhole
  <2>3. Cloud!YesMeansWritten BY DEF SInv, ShapeInv, Shape, Cloud!YesMeansWritten
  <2> QED BY <2>1, <2>2, <2>3 DEF SettingsAreHonest, Cloud!SettingsAreHonest
<1> QED BY <1>1, SettingsBookkeeping, PTL

\* No write of the preferences undoes another one: each changes the entries it is about
\* (update() under the lock, preferences.py).
THEOREM WritesAreTheirOwn == Cloud!Spec => EachWriteIsItsOwn
<1> DEFINE Own == file' # file =>
       \E r \in Requests : Cloud!At(r, "replace") /\ job'[r] # job[r] /\
         LET asked == Head(job[r].todo)
         IN \A n \in Cloud!Names : file'[n] = IF n \in asked THEN job[r].value ELSE file[n]
<1>1. SInv /\ [Cloud!Next]_cloudVars => [Own]_cloudVars
  <2> SUFFICES ASSUME SInv, Cloud!Next, file' # file PROVE Own
    BY DEF cloudVars
  <2>1. PICK r \in Requests : Cloud!WriteDocument(r)
    BY DEF Cloud!Next, Cloud!Call, Cloud!ChangeKey, Cloud!UndoKey, Cloud!LoadForUpdate,
           Cloud!UseAllowed, Cloud!UseKey, Cloud!UseReads, Cloud!UseSends, Cloud!UseEnds,
           Cloud!SetPrivacy, Cloud!ProcessEnds
  <2>2. job[r].at = "replace" /\ file' = Cloud!Merged(r) /\ Cloud!Wrote(r, TRUE)
    BY <2>1 DEF Cloud!WriteDocument, Cloud!At
  <2>3. \A n \in Cloud!Names :
          file'[n] = IF n \in Head(job[r].todo) THEN job[r].value ELSE file[n]
    BY <2>2, MergedFile
  <2>4. job'[r] # job[r]
    <3>1. stored' = stored BY <2>1 DEF Cloud!WriteDocument
    <3>2. file'["flag"] = Flagged(TRUE, job[r]) BY <2>2, MergedFile
    <3>3. job'[r].at # "replace" BY <2>2, <3>1, <3>2, WroteKeeps
    <3> QED BY <2>2, <3>3
  <2> QED BY <2>2, <2>3, <2>4 DEF Cloud!At
<1> QED BY <1>1, SettingsBookkeeping, PTL DEF Cloud!Spec, Cloud!vars, cloudVars,
           EachWriteIsItsOwn, Cloud!EachWriteIsItsOwn

-----------------------------------------------------------------------------
(* The page's microphone. *)

\* The states whose label says that the microphone is closed.
QuietStates == {"disabled", "suspended", "privacy-blocked", "microphone-unavailable"}

\* Somebody may open, or hold, a stream: the label says so, the page is not being left, and
\* nobody asked the listener to let go.
Active(m, s) ==
  m.state \notin QuietStates /\ ~m.quitting /\ (s = "listen" => m.reasons = {})

\* A start() under way that nothing has torn down.
Pending(m, s) == m.starts[s].fresh /\ m.starts[s].at # "none"

\* No other one is.
OnlyPending(m, s) == \A t \in Mic!Starters : Pending(m, t) => t = s

\* One owner for one microphone: a start under way is the only one and holds the stream as
\* soon as there is one; a stream has an owner that may have it.
Owned(m) ==
  /\ \A s \in Mic!Starters : Pending(m, s) =>
       /\ Active(m, s) /\ OnlyPending(m, s)
       /\ m.held.by = IF m.starts[s].at = "open" THEN "none" ELSE s
  /\ m.held.by # "none" => Active(m, m.held.by) /\ OnlyPending(m, m.held.by)

\* Nothing is open and nothing is opening.
Still(m) == m.held.by = "none" /\ \A s \in Mic!Starters : ~Pending(m, s)

\* A controller in order.
Good(m) == m \in Mic!Controller /\ Owned(m)

\* What the steps of the controller leave alone for push-to-talk.
Kept(m, n) ==
  /\ n.quitting = m.quitting
  /\ "push-to-talk" \in m.reasons => "push-to-talk" \in n.reasons

\* A start() as the controller keeps it.
Starting == [at : {"none", "open", "module"}, fresh : BOOLEAN]
Holding  == [by : Mic!Starters \cup {"none"}, node : BOOLEAN, live : BOOLEAN]

\* The variables of the controller, one by one.
LEMMA ControllerFields ==
  ASSUME NEW m \in Mic!Controller
  PROVE  /\ m.state \in Mic!States /\ m.enabled \in BOOLEAN /\ m.blocked \in BOOLEAN
         /\ m.reasons \subseteq Mic!Reasons /\ m.session \in Sessions \cup {"none"}
         /\ m.timer \in BOOLEAN /\ m.quitting \in BOOLEAN /\ m.bound \in BOOLEAN
         /\ m.starts \in [Mic!Starters -> Starting] /\ m.held \in Holding
BY DEF Mic!Controller, Starting, Holding, Mic!None

\* With nothing open, nothing lacks an owner.
LEMMA StillIsOwned == ASSUME NEW m, Still(m) PROVE Owned(m)
BY DEF Still, Owned

\* teardown() closes the stream and disowns every start, and changes no setting.
LEMMA TeardownIsStill ==
  ASSUME NEW m \in Mic!Controller
  PROVE  LET n == Mic!Teardown(m)
         IN  /\ n \in Mic!Controller /\ Still(n)
             /\ n.state = m.state /\ n.enabled = m.enabled /\ n.blocked = m.blocked
             /\ n.reasons = m.reasons /\ n.session = m.session
             /\ n.quitting = m.quitting /\ n.bound = m.bound
             /\ \A s \in Mic!Starters : n.starts[s].at = m.starts[s].at
<1> DEFINE f == [s \in Mic!Starters |-> [m.starts[s] EXCEPT !.fresh = FALSE]]
           n == Mic!Teardown(m)
<1>1. n = [m EXCEPT !.starts = f, !.timer = FALSE, !.held = Mic!Closed] BY DEF Mic!Teardown
<1>2. f \in [Mic!Starters -> Starting] /\ \A s \in Mic!Starters : ~f[s].fresh /\ f[s].at = m.starts[s].at
  BY ControllerFields DEF Starting
<1>3. Mic!Closed \in Holding /\ Mic!Closed.by = "none" BY DEF Mic!Closed, Holding, Mic!None
<1> HIDE DEF f
<1> DEFINE h == Mic!Closed
<1> HIDE DEF h
<1>4. n \in Mic!Controller
  <2>1. n = [m EXCEPT !.starts = f, !.timer = FALSE, !.held = h] BY <1>1 DEF h
  <2>2. h \in Holding BY <1>3 DEF h
  <2> HIDE DEF n
  <2> QED BY <1>2, <2>1, <2>2 DEF Mic!Controller, Starting, Holding, Mic!None
<1>5. n.starts = f /\ n.held = Mic!Closed /\ n.state = m.state /\ n.enabled = m.enabled /\ n.blocked = m.blocked
      /\ n.reasons = m.reasons /\ n.session = m.session /\ n.quitting = m.quitting /\ n.bound = m.bound
  BY <1>1 DEF Mic!Controller
<1> HIDE DEF n
<1>6. Still(n) BY <1>2, <1>3, <1>5 DEF Still, Pending
<1> QED BY <1>2, <1>4, <1>5, <1>6 DEF n

\* A new label.
LEMMA StateOnly ==
  ASSUME NEW m \in Mic!Controller, NEW w \in Mic!States
  PROVE  LET n == [m EXCEPT !.state = w]
         IN  /\ n \in Mic!Controller /\ n.state = w /\ n.enabled = m.enabled
             /\ n.blocked = m.blocked /\ n.reasons = m.reasons /\ n.session = m.session
             /\ n.quitting = m.quitting /\ n.starts = m.starts /\ n.held = m.held
             /\ Still(m) => Still(n)
             /\ Owned(m) /\ w \notin QuietStates => Owned(n)
<1> DEFINE n == [m EXCEPT !.state = w]
<1>1. n \in Mic!Controller /\ n.state = w /\ n.enabled = m.enabled
      /\ n.blocked = m.blocked /\ n.reasons = m.reasons /\ n.session = m.session
      /\ n.quitting = m.quitting /\ n.starts = m.starts /\ n.held = m.held
  BY DEF Mic!Controller
<1> HIDE DEF n
<1>2. Still(m) => Still(n) BY <1>1 DEF Still, Pending
<1>3. Owned(m) /\ w \notin QuietStates => Owned(n)
  BY <1>1 DEF Owned, Pending, OnlyPending, Active
<1> QED BY <1>1, <1>2, <1>3 DEF n

\* The first half of startListening().
LEMMA StartsListening ==
  ASSUME NEW m \in Mic!Controller, Still(m), ~m.quitting, m.reasons = {}
  PROVE  LET n == [m EXCEPT !.state = "starting", !.bound = TRUE,
                            !.starts["listen"] = [at |-> "open", fresh |-> TRUE]]
         IN  Good(n) /\ n.reasons = m.reasons /\ n.quitting = m.quitting
<1> DEFINE n == [m EXCEPT !.state = "starting", !.bound = TRUE,
                          !.starts["listen"] = [at |-> "open", fresh |-> TRUE]]
           o == [at |-> "open", fresh |-> TRUE]
<1>1. o \in Starting /\ o.at = "open" /\ o.fresh BY DEF Starting
<1> HIDE DEF o
<1>2. "listen" \in Mic!Starters /\ "starting" \in Mic!States BY DEF Mic!Starters, Mic!States
<1>3. /\ n.state = "starting" /\ n.reasons = m.reasons /\ n.quitting = m.quitting
      /\ n.held = m.held /\ n.starts = [m.starts EXCEPT !["listen"] = o]
  BY DEF Mic!Controller, o
<1>4. n.starts \in [Mic!Starters -> Starting]
  <2>1. [m.starts EXCEPT !["listen"] = o] \in [Mic!Starters -> Starting]
    BY <1>1, <1>2, ControllerFields
  <2> QED BY <1>3, <2>1
<1>5. n \in Mic!Controller
  BY <1>2, <1>3, <1>4, ControllerFields DEF Mic!Controller, Starting, Holding, Mic!None
<1> HIDE DEF n
<1>6. n.starts["listen"] = o /\ \A s \in Mic!Starters : s # "listen" => n.starts[s] = m.starts[s]
  BY <1>2, <1>3, ControllerFields
<1>7. \A s \in Mic!Starters : Pending(n, s) => s = "listen"
  BY <1>6 DEF Still, Pending
<1>8. Owned(n) BY <1>1, <1>3, <1>6, <1>7 DEF Owned, OnlyPending, Still, Active, QuietStates
<1> QED BY <1>3, <1>5, <1>8 DEF n, Good

\* What reconcile() chooses, and when it may choose to listen.
LEMMA WantedState ==
  ASSUME NEW m \in Mic!Controller
  PROVE  /\ Mic!Wanted(m) \in Mic!States
         /\ Mic!Wanted(m) \in QuietStates \cup {"calibrating", "listening"}
         /\ Mic!Wanted(m) = "listening" => ~m.quitting /\ m.reasons = {} /\ ~m.blocked
         /\ Mic!Wanted(m) = "calibrating" => m.session # "none"
BY DEF Mic!Wanted, Mic!States, QuietStates, Mic!None

\* reconcile() keeps the controller in order; after privacy mode closed everything it opens
\* nothing.
LEMMA ReconcileIsGood ==
  ASSUME NEW m, Good(m)
  PROVE  /\ Good(Mic!Reconcile(m)) /\ Kept(m, Mic!Reconcile(m))
         /\ Still(m) /\ m.session = "none" /\ m.blocked => Still(Mic!Reconcile(m))
<1> DEFINE w == Mic!Wanted(m)
           d == Mic!Teardown(m)
           n == Mic!Reconcile(m)
<1>1. m \in Mic!Controller /\ Owned(m) BY DEF Good
<1>2. /\ w \in Mic!States /\ w \in QuietStates \cup {"calibrating", "listening"}
      /\ w = "listening" => ~m.quitting /\ m.reasons = {} /\ ~m.blocked
      /\ w = "calibrating" => m.session # "none"
  BY <1>1, WantedState
<1>3. d \in Mic!Controller /\ Still(d) /\ d.reasons = m.reasons /\ d.quitting = m.quitting
  BY <1>1, TeardownIsStill
<1> HIDE DEF w, d
<1>4. CASE m.starts["listen"].at # "none"
  <2>1. n = m BY <1>4 DEF Mic!Reconcile, Mic!None
  <2> QED BY <2>1 DEF Kept
<1>5. CASE m.starts["listen"].at = "none" /\ (w = "calibrating" \/ (w = "listening" /\ Mic!Listening(m)))
  <2>1. n = [m EXCEPT !.state = w] BY <1>5 DEF Mic!Reconcile, Mic!None, w
  <2>2. w \notin QuietStates BY <1>5 DEF QuietStates
  <2>3. n \in Mic!Controller /\ Owned(n) /\ n.reasons = m.reasons /\ n.quitting = m.quitting
        /\ (Still(m) => Still(n))
    BY <1>1, <1>2, <2>1, <2>2, StateOnly
  <2> QED BY <2>3 DEF Good, Kept
<1>6. CASE m.starts["listen"].at = "none" /\ w \notin {"calibrating", "listening"}
  <2>1. n = [d EXCEPT !.state = w] BY <1>6 DEF Mic!Reconcile, Mic!None, w, d
  <2>2. n \in Mic!Controller /\ Still(n) /\ n.reasons = m.reasons /\ n.quitting = m.quitting
    BY <1>2, <1>3, <2>1, StateOnly
  <2> QED BY <2>2, StillIsOwned DEF Good, Kept
<1>7. CASE m.starts["listen"].at = "none" /\ w = "listening" /\ ~Mic!Listening(m)
  <2>1. n = [d EXCEPT !.state = "starting", !.bound = TRUE,
                      !.starts["listen"] = [at |-> "open", fresh |-> TRUE]]
    BY <1>7 DEF Mic!Reconcile, Mic!None, w, d
  <2>2. Good(n) /\ n.reasons = m.reasons /\ n.quitting = m.quitting
    BY <1>2, <1>3, <1>7, <2>1, StartsListening
  <2> QED BY <1>2, <1>7, <2>2 DEF Kept
<1> QED BY <1>4, <1>5, <1>6, <1>7

\* suspend() closes the stream for its first reason.
LEMMA SuspendIsGood ==
  ASSUME NEW m, Good(m), NEW r \in Mic!Reasons
  PROVE  /\ Good(Mic!Suspend(m, r)) /\ Kept(m, Mic!Suspend(m, r))
         /\ r \in Mic!Suspend(m, r).reasons
<1> DEFINE d == Mic!Teardown(m)
           n == Mic!Suspend(m, r)
           w == IF m.enabled /\ ~m.blocked THEN "suspended" ELSE m.state
<1>1. m \in Mic!Controller /\ Owned(m) BY DEF Good
<1>2. d \in Mic!Controller /\ Still(d) /\ d.quitting = m.quitting BY <1>1, TeardownIsStill
<1>3. w \in Mic!States BY <1>1, ControllerFields DEF Mic!States
<1> HIDE DEF d, w
<1>4. CASE m.reasons = {}
  <2> DEFINE q == {r}
  <2>0. q \in SUBSET Mic!Reasons OBVIOUS
  <2>1. n = [d EXCEPT !.reasons = q, !.state = w] BY <1>4 DEF Mic!Suspend, d, w
  <2> HIDE DEF q
  <2>2. n \in Mic!Controller /\ n.reasons = q /\ n.quitting = d.quitting
        /\ n.starts = d.starts /\ n.held = d.held
    BY <1>2, <1>3, <2>0, <2>1 DEF Mic!Controller
  <2>3. Still(n) BY <1>2, <2>2 DEF Still, Pending
  <2> QED BY <1>2, <1>4, <2>2, <2>3, StillIsOwned DEF Good, Kept, q
<1>5. CASE m.reasons # {}
  <2>1. n = [m EXCEPT !.reasons = m.reasons \cup {r}] BY <1>5 DEF Mic!Suspend
  <2>2. n \in Mic!Controller /\ n.reasons = m.reasons \cup {r} /\ n.quitting = m.quitting
        /\ n.starts = m.starts /\ n.held = m.held /\ n.state = m.state
    BY <1>1, <2>1 DEF Mic!Controller
  <2> HIDE DEF n
  <2>3. Owned(n) BY <1>1, <1>5, <2>2 DEF Owned, OnlyPending, Pending, Active
  <2> QED BY <2>2, <2>3 DEF Good, Kept, n
<1> QED BY <1>4, <1>5

\* resume() opens nothing.
LEMMA ResumeIsGood ==
  ASSUME NEW m, Good(m), NEW r
  PROVE  LET n == Mic!Resume(m, r)
         IN  /\ Good(n) /\ n.quitting = m.quitting /\ n.reasons = m.reasons \ {r}
             /\ n.session = m.session /\ n.blocked = m.blocked /\ n.starts = m.starts
             /\ Still(m) => Still(n)
<1> DEFINE n == Mic!Resume(m, r)
           b == IF m.reasons = {r} THEN TRUE ELSE m.timer
           q == m.reasons \ {r}
<1>1. m \in Mic!Controller /\ Owned(m) BY DEF Good
<1>2. b \in BOOLEAN /\ q \in SUBSET Mic!Reasons BY <1>1, ControllerFields
<1>3. n = [m EXCEPT !.reasons = q, !.timer = b] BY DEF Mic!Resume
<1> HIDE DEF b, q, n
<1>4. n \in Mic!Controller /\ n.reasons = q /\ n.quitting = m.quitting
      /\ n.session = m.session /\ n.blocked = m.blocked
      /\ n.starts = m.starts /\ n.held = m.held /\ n.state = m.state
  BY <1>1, <1>2, <1>3 DEF Mic!Controller
<1>5. Owned(n) BY <1>1, <1>4 DEF Owned, OnlyPending, Pending, Active, q
<1>6. Still(m) => Still(n) BY <1>4 DEF Still, Pending
<1> QED BY <1>4, <1>5, <1>6 DEF n, q, Good

\* Another calibration session, or none.
LEMMA SessionOnly ==
  ASSUME NEW m, Good(m), NEW s \in Sessions \cup {"none"}
  PROVE  LET n == [m EXCEPT !.session = s]
         IN  /\ Good(n) /\ n.quitting = m.quitting /\ n.reasons = m.reasons
             /\ n.session = s /\ n.blocked = m.blocked
             /\ Still(m) => Still(n)
<1> DEFINE n == [m EXCEPT !.session = s]
<1>1. m \in Mic!Controller /\ Owned(m) BY DEF Good
<1>2. n \in Mic!Controller /\ n.reasons = m.reasons /\ n.quitting = m.quitting
      /\ n.session = s /\ n.blocked = m.blocked
      /\ n.starts = m.starts /\ n.held = m.held /\ n.state = m.state
  BY <1>1 DEF Mic!Controller, Mic!None
<1> HIDE DEF n
<1>3. Owned(n) BY <1>1, <1>2 DEF Owned, OnlyPending, Pending, Active
<1>4. Still(m) => Still(n) BY <1>2 DEF Still, Pending
<1> QED BY <1>2, <1>3, <1>4 DEF n, Good

\* finishCalibration() leaves a controller in order, whatever it was.
LEMMA FinishIsGood ==
  ASSUME NEW m \in Mic!Controller
  PROVE  LET n == Mic!FinishCalibration(m)
         IN  Good(n) /\ Kept(m, n) /\ (m.blocked => Still(n))
<1> DEFINE a == [m EXCEPT !.session = "none"]
           t == Mic!Teardown(a)
           u == Mic!Resume(t, "calibrating")
           n == Mic!FinishCalibration(m)
<1>1. a \in Mic!Controller /\ a.quitting = m.quitting /\ a.reasons = m.reasons
      /\ a.session = "none" /\ a.blocked = m.blocked
  BY DEF Mic!Controller, Mic!None
<1> HIDE DEF a
<1>2. Good(t) /\ Still(t) /\ t.quitting = a.quitting /\ t.reasons = a.reasons
      /\ t.session = a.session /\ t.blocked = a.blocked
  BY <1>1, TeardownIsStill, StillIsOwned DEF Good
<1> HIDE DEF t
<1>3. Good(u) /\ Still(u) /\ u.quitting = t.quitting /\ u.reasons = t.reasons \ {"calibrating"}
      /\ u.session = t.session /\ u.blocked = t.blocked
  BY <1>2, ResumeIsGood
<1> HIDE DEF u
<1>4. n = Mic!Reconcile(u) BY DEF Mic!FinishCalibration, Mic!None, u, t, a
<1>5. Good(n) /\ Kept(u, n) /\ (m.blocked => Still(n))
  BY <1>1, <1>2, <1>3, <1>4, ReconcileIsGood
<1> QED BY <1>1, <1>2, <1>3, <1>5 DEF Kept

\* stopCalibration().
LEMMA StopIsGood ==
  ASSUME NEW m, Good(m)
  PROVE  LET n == Mic!StopCalibration(m)
         IN  Good(n) /\ Kept(m, n) /\ (Still(m) /\ m.blocked => Still(n))
BY FinishIsGood DEF Mic!StopCalibration, Kept, Good

\* abandonCalibration().
LEMMA AbandonIsGood ==
  ASSUME NEW m, Good(m), NEW s
  PROVE  Good(Mic!Abandon(m, s)) /\ Kept(m, Mic!Abandon(m, s))
BY SessionOnly DEF Mic!Abandon, Kept, Mic!None

\* A controller that holds the same is as much in order.
LEMMA SameGrip ==
  ASSUME NEW m, Good(m), NEW n \in Mic!Controller, n.state = m.state,
         n.reasons = m.reasons, n.quitting = m.quitting, n.starts = m.starts, n.held = m.held
  PROVE  Good(n) /\ Kept(m, n)
BY DEF Good, Owned, OnlyPending, Pending, Active, Kept

\* teardown() of a controller in order.
LEMMA TeardownIsGood ==
  ASSUME NEW m, Good(m)
  PROVE  LET n == Mic!Teardown(m)
         IN  Good(n) /\ Still(n) /\ Kept(m, n) /\ n.blocked = m.blocked
BY TeardownIsStill, StillIsOwned DEF Good, Kept

\* configure().
LEMMA ConfigureIsGood ==
  ASSUME NEW m, Good(m), NEW a \in Mic!Answers
  PROVE  Good(Mic!Configure(m, a)) /\ Kept(m, Mic!Configure(m, a))
<1> DEFINE n == [m EXCEPT !.enabled = a.enabled, !.blocked = a.blocked]
           k == IF a.restart /\ Mic!Listening(m) THEN Mic!Teardown(n) ELSE n
<1>0. a.enabled \in BOOLEAN /\ a.blocked \in BOOLEAN BY DEF Mic!Answers
<1>1. Good(n) /\ n.quitting = m.quitting /\ n.reasons = m.reasons
  <2>1. n \in Mic!Controller /\ n.reasons = m.reasons /\ n.quitting = m.quitting
        /\ n.starts = m.starts /\ n.held = m.held /\ n.state = m.state
    BY <1>0 DEF Good, Mic!Controller
  <2> HIDE DEF n
  <2> QED BY <2>1, SameGrip
<1> HIDE DEF n
<1>2. Good(k) /\ Kept(n, k) BY <1>1, TeardownIsGood DEF Kept
<1>3. Mic!Configure(m, a) = Mic!Reconcile(k) BY DEF Mic!Configure, n
<1> HIDE DEF k
<1> QED BY <1>1, <1>2, <1>3, ReconcileIsGood DEF Kept

\* setPrivacyBlocked().
LEMMA SetPrivacyIsGood ==
  ASSUME NEW m, Good(m), NEW b \in BOOLEAN
  PROVE  Good(Mic!SetPrivacyBlocked(m, b)) /\ Kept(m, Mic!SetPrivacyBlocked(m, b))
<1> DEFINE n == [m EXCEPT !.blocked = b]
           s == Mic!StopCalibration(Mic!Teardown(n))
           k == IF b THEN [s EXCEPT !.state = "privacy-blocked"] ELSE n
<1>0. m \in Mic!Controller /\ m.enabled \in BOOLEAN BY ControllerFields DEF Good
<1>1. Good(n) /\ n.quitting = m.quitting /\ n.reasons = m.reasons /\ n.blocked = b
  <2>1. n \in Mic!Controller /\ n.reasons = m.reasons /\ n.quitting = m.quitting
        /\ n.starts = m.starts /\ n.held = m.held /\ n.state = m.state /\ n.blocked = b
    BY <1>0 DEF Mic!Controller
  <2> HIDE DEF n
  <2> QED BY <2>1, SameGrip
<1> HIDE DEF n
<1>2. ASSUME b
      PROVE  Good(s) /\ Still(s) /\ Kept(n, s)
  BY <1>1, <1>2, TeardownIsGood, StopIsGood DEF Kept
<1> HIDE DEF s
<1>3. "privacy-blocked" \in Mic!States BY DEF Mic!States
<1>4. Good(k) /\ Kept(n, k)
  <2>1. CASE b
    <3>1. k = [s EXCEPT !.state = "privacy-blocked"] BY <2>1
    <3>2. k \in Mic!Controller /\ Still(k) /\ k.reasons = s.reasons /\ k.quitting = s.quitting
      BY <1>2, <1>3, <2>1, <3>1, StateOnly DEF Good
    <3> QED BY <1>2, <2>1, <3>2, StillIsOwned DEF Good, Kept
  <2>2. CASE ~b BY <1>1, <2>2 DEF Kept
  <2> QED BY <2>1, <2>2
<1>5. Mic!SetPrivacyBlocked(m, b) = Mic!Reconcile(k) BY DEF Mic!SetPrivacyBlocked, n, s
<1> HIDE DEF k
<1> QED BY <1>1, <1>4, <1>5, ReconcileIsGood DEF Kept

\* The part of pagehide that is the controller's.
LEMMA SetQuittingIsGood ==
  ASSUME NEW m, Good(m)
  PROVE  Good(Mic!SetQuitting(m))
<1> DEFINE n == [m EXCEPT !.quitting = TRUE]
           s == Mic!StopCalibration(n)
           t == Mic!Teardown(s)
<1>1. n \in Mic!Controller BY DEF Good, Mic!Controller
<1> HIDE DEF n
<1>2. s \in Mic!Controller BY <1>1, FinishIsGood DEF Mic!StopCalibration, Good
<1> HIDE DEF s
<1>3. t \in Mic!Controller /\ Still(t) BY <1>2, TeardownIsStill
<1>4. Mic!SetQuitting(m) = [t EXCEPT !.state = "disabled"] BY DEF Mic!SetQuitting, t, s, n
<1> HIDE DEF t
<1>5. "disabled" \in Mic!States BY DEF Mic!States
<1> QED BY <1>3, <1>4, <1>5, StateOnly, StillIsOwned DEF Good

\* A start() that is over.
LEMMA IdleIsGood ==
  ASSUME NEW m, Good(m), NEW s \in Mic!Starters
  PROVE  LET n == [m EXCEPT !.starts[s] = Mic!Idle]
         IN  /\ n \in Mic!Controller /\ n.quitting = m.quitting /\ n.reasons = m.reasons
             /\ n.state = m.state /\ n.held = m.held
             /\ ~Pending(n, s) /\ \A t \in Mic!Starters : t # s => n.starts[t] = m.starts[t]
             /\ ~Pending(m, s) => Good(n)
<1> DEFINE f == [m.starts EXCEPT ![s] = Mic!Idle]
           n == [m EXCEPT !.starts[s] = Mic!Idle]
<1>1. m \in Mic!Controller /\ Owned(m) BY DEF Good
<1>2. Mic!Idle \in Starting /\ ~Mic!Idle.fresh BY DEF Mic!Idle, Starting, Mic!None
<1>3. /\ f \in [Mic!Starters -> Starting] /\ f[s] = Mic!Idle
      /\ \A t \in Mic!Starters : t # s => f[t] = m.starts[t]
  BY <1>1, <1>2, ControllerFields
<1>4. n = [m EXCEPT !.starts = f] BY <1>1 DEF Mic!Controller
<1> HIDE DEF f
<1>5. /\ n.quitting = m.quitting /\ n.reasons = m.reasons
      /\ n.state = m.state /\ n.held = m.held /\ n.starts = f
  BY <1>1, <1>4 DEF Mic!Controller
<1>6. n \in Mic!Controller
  BY <1>1, <1>3, <1>4, ControllerFields DEF Mic!Controller, Starting, Mic!None
<1> HIDE DEF n
<1>7. ~Pending(n, s) BY <1>2, <1>3, <1>5 DEF Pending
<1>8. ASSUME ~Pending(m, s)
      PROVE  Owned(n)
  <2>1. \A t \in Mic!Starters : Pending(n, t) => Pending(m, t) /\ n.starts[t] = m.starts[t]
    BY <1>3, <1>5, <1>7 DEF Pending
  <2> QED BY <1>1, <1>5, <2>1 DEF Owned, OnlyPending, Active
<1> QED BY <1>3, <1>5, <1>6, <1>7, <1>8 DEF n, Good

\* A start() that was torn down meanwhile.
LEMMA SupersededIsGood ==
  ASSUME NEW m, Good(m), NEW s \in Mic!Starters
  PROVE  Good(Mic!Superseded(m, s)) /\ Kept(m, Mic!Superseded(m, s))
<1> DEFINE k == IF m.session = s THEN Mic!Reconcile(Mic!Abandon(m, s)) ELSE m
<1>1. Good(k) /\ Kept(m, k) BY AbandonIsGood, ReconcileIsGood DEF Kept
<1>2. Mic!Superseded(m, s) = IF s = "listen" THEN m ELSE Mic!Resume(k, "calibrating")
  BY DEF Mic!Superseded
<1> HIDE DEF k
<1>3. Good(Mic!Resume(k, "calibrating")) /\ Kept(k, Mic!Resume(k, "calibrating"))
  BY <1>1, ResumeIsGood DEF Kept
<1> QED BY <1>1, <1>2, <1>3 DEF Kept

\* A start() that got no microphone.
LEMMA RefusedIsGood ==
  ASSUME NEW m \in Mic!Controller, NEW s \in Mic!Starters
  PROVE  Good(Mic!Refused(m, s)) /\ Kept(m, Mic!Refused(m, s))
<1> DEFINE a == Mic!Abandon(m, s)
           t == Mic!Teardown(a)
           n == [t EXCEPT !.state = "microphone-unavailable"]
<1>1. a \in Mic!Controller /\ a.quitting = m.quitting /\ a.reasons = m.reasons
  BY DEF Mic!Abandon, Mic!Controller, Mic!None
<1> HIDE DEF a
<1>2. t \in Mic!Controller /\ Still(t) /\ Kept(m, t) BY <1>1, TeardownIsStill DEF Kept
<1> HIDE DEF t
<1>3. "microphone-unavailable" \in Mic!States BY DEF Mic!States
<1>4. Good(n) /\ Kept(m, n) BY <1>2, <1>3, StateOnly, StillIsOwned DEF Good, Kept
<1>5. Mic!Refused(m, s) = IF s = "listen" THEN n ELSE Mic!Resume(n, "calibrating")
  BY DEF Mic!Refused, n, t, a
<1> HIDE DEF n
<1>6. Good(Mic!Resume(n, "calibrating")) /\ Kept(n, Mic!Resume(n, "calibrating"))
  BY <1>4, ResumeIsGood DEF Kept
<1> QED BY <1>4, <1>5, <1>6 DEF Kept

-----------------------------------------------------------------------------
\* While push-to-talk has the microphone the listener has a reason to let go of it.
PttInv ==
  /\ ptt.state \in {"requesting", "listening", "stopping", "transcribing"}
       => "push-to-talk" \in c.reasons
  /\ ptt.open => ptt.state \in {"listening", "stopping"}
  /\ c.quitting => ptt.state \notin {"requesting", "listening", "stopping", "transcribing"}

\* The inductive invariant of the microphone.
MInv ==
  /\ Good(c) /\ PttInv /\ ~lost
  /\ ptt \in [state : {"idle", "requesting", "listening", "stopping", "transcribing", "error"},
               open : BOOLEAN]
  /\ answers \subseteq Mic!Answers /\ pref \in BOOLEAN /\ micPrivacy \in BOOLEAN

\* A page as it is loaded is in order.
LEMMA MicInit == Mic!Init => MInv
<1> SUFFICES ASSUME Mic!Init PROVE MInv OBVIOUS
<1>1. c = Mic!Fresh /\ ptt.state = "idle" /\ ~ptt.open BY DEF Mic!Init
<1>2. Mic!Fresh \in Mic!Controller /\ Still(Mic!Fresh)
  BY DEF Mic!Fresh, Mic!Controller, Mic!States, Mic!None, Mic!Idle, Mic!Closed, Mic!Reasons,
         Still, Pending
<1>3. Good(c) BY <1>1, <1>2, StillIsOwned DEF Good
<1>4. PttInv BY <1>1 DEF PttInv
<1> QED BY <1>3, <1>4 DEF Mic!Init, MInv, Mic!ClapAnswer, Mic!Answers

\* A step that leaves push-to-talk alone: 
LEMMA ControllerStep ==
  ASSUME MInv, Good(c'), Kept(c, c'), UNCHANGED ptt, ~lost',
         answers' \subseteq Mic!Answers, pref' \in BOOLEAN, micPrivacy' \in BOOLEAN
  PROVE  MInv'
BY DEF MInv, PttInv, Kept

\* Fewer answers under way.
LEMMA AnswersStay ==
  ASSUME MInv, answers' = answers \/ \E a : answers' = answers \ {a}
  PROVE  answers' \subseteq Mic!Answers
BY DEF MInv

\* What the server answers is an answer.
LEMMA AnAnswer ==
  ASSUME MInv, NEW r \in BOOLEAN
  PROVE  Mic!ClapAnswer(r) \in Mic!Answers /\ Mic!PrivacyAnswer \in Mic!Answers
         /\ [Mic!ClapAnswer(r) EXCEPT !.enabled = ~pref] \in Mic!Answers
BY DEF MInv, Mic!ClapAnswer, Mic!PrivacyAnswer, Mic!Answers

\* getUserMedia answers: the stream goes to the only start that is still wanted.
LEMMA OpenedStep ==
  ASSUME MInv, NEW s \in Mic!Starters, Mic!Opened(s)
  PROVE  MInv'
<1>1. Good(c) /\ c \in Mic!Controller /\ Owned(c) BY DEF MInv, Good
<1>2. UNCHANGED <<ptt, answers, pref, micPrivacy>> /\ c.starts[s].at = "open"
  BY DEF Mic!Opened, Mic!speech, Mic!server
<1>3. CASE c.starts[s].fresh
  <2> DEFINE o == [at |-> "module", fresh |-> TRUE]
             h == [by |-> s, node |-> FALSE, live |-> TRUE]
  <2>1. c' = [c EXCEPT !.starts[s] = o, !.held = h] /\ lost' = (lost \/ c.held.by # "none")
    BY <1>3 DEF Mic!Opened, Mic!None
  <2>2. o \in Starting /\ h \in Holding /\ o.at = "module" /\ o.fresh /\ h.by = s
    BY DEF Starting, Holding
  <2> HIDE DEF o, h
  <2>3. /\ c'.quitting = c.quitting /\ c'.reasons = c.reasons /\ c'.state = c.state
        /\ c'.held = h /\ c'.starts = [c.starts EXCEPT ![s] = o]
    BY <1>1, <2>1 DEF Mic!Controller
  <2>4. c'.starts \in [Mic!Starters -> Starting] /\ c'.starts[s] = o
        /\ \A t \in Mic!Starters : t # s => c'.starts[t] = c.starts[t]
    BY <1>1, <2>2, <2>3, ControllerFields
  <2>5. c' \in Mic!Controller
    <3>1. c' = [c EXCEPT !.starts = c'.starts, !.held = h]
      BY <1>1, <2>1, <2>3 DEF Mic!Controller
    <3> QED BY <1>1, <2>2, <2>4, <3>1, ControllerFields DEF Mic!Controller, Starting, Holding, Mic!None
  <2>6. Pending(c, s) /\ Active(c, s) /\ OnlyPending(c, s) /\ c.held.by = "none"
    BY <1>1, <1>2, <1>3 DEF Owned, Pending
  <2>7. \A t \in Mic!Starters : Pending(c', t) => t = s
    BY <2>4, <2>6 DEF Pending, OnlyPending
  <2>8. Owned(c')
    BY <2>2, <2>3, <2>4, <2>6, <2>7 DEF Owned, OnlyPending, Active
  <2>9. Good(c') /\ Kept(c, c') BY <2>3, <2>5, <2>8 DEF Good, Kept
  <2>10. ~lost' BY <2>1, <2>6 DEF MInv
  <2> QED BY <1>2, <2>9, <2>10, ControllerStep DEF MInv
<1>4. CASE ~c.starts[s].fresh
  <2> DEFINE m == [c EXCEPT !.starts[s] = Mic!Idle]
  <2>1. c' = Mic!Superseded(m, s) /\ UNCHANGED lost BY <1>4 DEF Mic!Opened
  <2>2. Good(m) /\ Kept(c, m) BY <1>1, <1>4, IdleIsGood DEF Pending, Kept
  <2> HIDE DEF m
  <2>3. Good(c') /\ Kept(c, c') BY <2>1, <2>2, SupersededIsGood DEF Kept
  <2> QED BY <1>2, <2>1, <2>3, ControllerStep DEF MInv
<1> QED BY <1>3, <1>4

\* addModule answers.
LEMMA LoadedStep ==
  ASSUME MInv, NEW s \in Mic!Starters, Mic!Loaded(s)
  PROVE  MInv'
<1> DEFINE m == [c EXCEPT !.starts[s] = Mic!Idle]
<1>1. Good(c) /\ c \in Mic!Controller /\ Owned(c) BY DEF MInv, Good
<1>2. UNCHANGED <<ptt, answers, pref, micPrivacy, lost>> /\ c.starts[s].at = "module"
      /\ c' = IF ~c.starts[s].fresh THEN Mic!Superseded(Mic!Teardown(m), s)
              ELSE [m EXCEPT !.held.node = TRUE,
                             !.state = IF s = "listen" THEN "listening" ELSE m.state]
  BY DEF Mic!Loaded, Mic!speech, Mic!server
<1>3. /\ m \in Mic!Controller /\ m.quitting = c.quitting /\ m.reasons = c.reasons
      /\ m.state = c.state /\ m.held = c.held /\ ~Pending(m, s)
      /\ \A t \in Mic!Starters : t # s => m.starts[t] = c.starts[t]
  BY <1>1, IdleIsGood
<1> HIDE DEF m
<1>4. CASE ~c.starts[s].fresh
  <2>1. Good(Mic!Teardown(m)) /\ Kept(c, Mic!Teardown(m))
    BY <1>3, TeardownIsStill, StillIsOwned DEF Good, Kept
  <2>2. Good(c') /\ Kept(c, c') BY <1>2, <1>4, <2>1, SupersededIsGood DEF Kept
  <2> QED BY <1>2, <2>2, ControllerStep DEF MInv
<1>5. CASE c.starts[s].fresh
  <2> DEFINE w == IF s = "listen" THEN "listening" ELSE m.state
             h == [m.held EXCEPT !.node = TRUE]
  <2>1. Active(c, s) /\ OnlyPending(c, s) /\ c.held.by = s
    BY <1>1, <1>2, <1>5 DEF Owned, Pending
  <2>2. w \in Mic!States /\ w \notin QuietStates
    BY <1>3, <2>1, ControllerFields DEF Mic!States, QuietStates, Active
  <2>3. h \in Holding /\ h.by = s BY <1>3, <2>1, ControllerFields DEF Holding
  <2>4. c' = [m EXCEPT !.held = h, !.state = w]
    BY <1>2, <1>3, <1>5 DEF Mic!Controller
  <2> HIDE DEF w, h
  <2>5. /\ c' \in Mic!Controller /\ c'.quitting = c.quitting /\ c'.reasons = c.reasons
        /\ c'.state = w /\ c'.held = h /\ c'.starts = m.starts
    BY <1>3, <2>2, <2>3, <2>4 DEF Mic!Controller, Holding, Mic!None
  <2>6. \A t \in Mic!Starters : ~Pending(c', t)
    BY <1>3, <2>1, <2>5 DEF Pending, OnlyPending
  <2>7. Owned(c') BY <2>1, <2>2, <2>3, <2>5, <2>6 DEF Owned, OnlyPending, Active
  <2>8. Good(c') /\ Kept(c, c') BY <2>5, <2>7 DEF Good, Kept
  <2> QED BY <1>2, <2>8, ControllerStep DEF MInv
<1> QED BY <1>4, <1>5

\* A start() fails.
LEMMA StartFailsStep ==
  ASSUME MInv, NEW s \in Mic!Starters, Mic!StartFails(s)
  PROVE  MInv'
<1> DEFINE m == [c EXCEPT !.starts[s] = Mic!Idle]
<1>1. UNCHANGED <<ptt, answers, pref, micPrivacy, lost>> /\ c' = Mic!Refused(m, s)
  BY DEF Mic!StartFails, Mic!speech, Mic!server
<1>2. m \in Mic!Controller /\ m.quitting = c.quitting /\ m.reasons = c.reasons
  BY IdleIsGood DEF MInv
<1> HIDE DEF m
<1>3. Good(c') /\ Kept(c, c') BY <1>1, <1>2, RefusedIsGood DEF Kept
<1> QED BY <1>1, <1>3, ControllerStep DEF MInv

\* Calibrate is pressed.
LEMMA PressCalibrateStep ==
  ASSUME MInv, NEW s \in Sessions, Mic!PressCalibrate(s)
  PROVE  MInv'
<1> DEFINE a == Mic!Suspend(c, "calibrating")
           b == Mic!StopCalibration(a)
           m == Mic!Teardown(b)
           o == [at |-> "open", fresh |-> TRUE]
<1>1. /\ UNCHANGED <<ptt, answers, pref, micPrivacy, lost>> /\ ~c.quitting
      /\ c' = IF m.blocked THEN Mic!Resume(m, "calibrating")
              ELSE [m EXCEPT !.session = s, !.state = "calibrating", !.starts[s] = o]
  BY DEF Mic!PressCalibrate, Mic!speech, Mic!server
<1>2. Good(a) /\ Kept(c, a) BY SuspendIsGood DEF MInv, Mic!Reasons
<1> HIDE DEF a
<1>3. Good(b) /\ Kept(c, b) BY <1>2, StopIsGood DEF Kept
<1> HIDE DEF b
<1>4. Good(m) /\ Still(m) /\ Kept(c, m) BY <1>3, TeardownIsGood DEF Kept
<1> HIDE DEF m
<1>5. CASE m.blocked
  <2>1. Good(c') /\ Kept(c, c') BY <1>1, <1>4, <1>5, ResumeIsGood DEF Kept
  <2> QED BY <1>1, <2>1, ControllerStep DEF MInv
<1>6. CASE ~m.blocked
  <2> DEFINE f == [m.starts EXCEPT ![s] = o]
  <2>1. s \in Mic!Starters /\ s # "listen" /\ "calibrating" \in Mic!States
    BY MicrophoneAssumption DEF Mic!Starters, Mic!States
  <2>2. o \in Starting /\ o.at = "open" /\ o.fresh BY DEF Starting
  <2>3. m \in Mic!Controller BY <1>4 DEF Good
  <2>4. c' = [m EXCEPT !.session = s, !.state = "calibrating", !.starts = f]
    BY <1>1, <1>6, <2>3 DEF Mic!Controller
  <2> HIDE DEF o
  <2>5. f \in [Mic!Starters -> Starting] /\ f[s] = o
        /\ \A t \in Mic!Starters : t # s => f[t] = m.starts[t]
    BY <2>1, <2>2, <2>3, ControllerFields
  <2> HIDE DEF f
  <2>6. /\ c' \in Mic!Controller /\ c'.quitting = m.quitting /\ c'.reasons = m.reasons
        /\ c'.state = "calibrating" /\ c'.held = m.held /\ c'.starts = f
    BY <2>1, <2>3, <2>4, <2>5 DEF Mic!Controller, Starting, Mic!None
  <2>7. \A t \in Mic!Starters : Pending(c', t) => t = s
    BY <1>4, <2>5, <2>6 DEF Pending, Still
  <2>8. Owned(c')
    BY <1>1, <1>4, <2>1, <2>2, <2>5, <2>6, <2>7
    DEF Owned, OnlyPending, Active, Still, Kept, QuietStates
  <2>9. Good(c') /\ Kept(c, c') BY <1>4, <2>6, <2>8 DEF Good, Kept
  <2> QED BY <1>1, <2>9, ControllerStep DEF MInv
<1> QED BY <1>5, <1>6

\* The controller's own steps.
LEMMA ClappingStep ==
  ASSUME MInv, Mic!Clapping
  PROVE  MInv'
<1>1. CASE Mic!ResumeTimer
  <2> DEFINE m == [c EXCEPT !.timer = FALSE]
  <2>1. UNCHANGED <<ptt, answers, pref, micPrivacy, lost>> /\ c' = Mic!Reconcile(m)
    BY <1>1 DEF Mic!ResumeTimer, Mic!speech, Mic!server
  <2>2. m \in Mic!Controller /\ m.quitting = c.quitting /\ m.reasons = c.reasons
        /\ m.starts = c.starts /\ m.held = c.held /\ m.state = c.state
    BY DEF MInv, Good, Mic!Controller
  <2> HIDE DEF m
  <2>3. Good(m) /\ Kept(c, m) BY <2>2, SameGrip DEF MInv
  <2>4. Good(c') /\ Kept(c, c') BY <2>1, <2>3, ReconcileIsGood DEF Kept
  <2> QED BY <2>1, <2>4, ControllerStep DEF MInv
<1>2. CASE Mic!EndCalibration
  <2>1. UNCHANGED <<ptt, answers, pref, micPrivacy, lost>> /\ c' = Mic!FinishCalibration(c)
    BY <1>2 DEF Mic!EndCalibration, Mic!speech, Mic!server
  <2>2. Good(c') /\ Kept(c, c') BY <2>1, FinishIsGood DEF MInv, Good
  <2> QED BY <2>1, <2>2, ControllerStep DEF MInv
<1>3. CASE Mic!ClapPairRefused
  <2>1. UNCHANGED <<c, ptt, pref, micPrivacy, lost>>
        /\ answers' = answers \cup {Mic!ClapAnswer(FALSE)}
    BY <1>3 DEF Mic!ClapPairRefused, Mic!speech, Mic!server, Mic!Asks
  <2>2. answers' \subseteq Mic!Answers BY <2>1, AnAnswer DEF MInv
  <2> QED BY <2>1, <2>2 DEF MInv, PttInv
<1>4. ASSUME NEW s \in Mic!Starters, Mic!Starts(s) PROVE MInv'
  BY <1>4, OpenedStep, LoadedStep, StartFailsStep DEF Mic!Starts
<1>5. ASSUME NEW s \in Sessions, Mic!PressCalibrate(s) PROVE MInv'
  BY <1>5, PressCalibrateStep
<1> QED BY <1>1, <1>2, <1>3, <1>4, <1>5 DEF Mic!Clapping

\* Settings and privacy, and the answers that carry them.
LEMMA ClapSettingsStep ==
  ASSUME MInv, Mic!Settings
  PROVE  MInv'
<1>1. ASSUME UNCHANGED <<c, ptt, lost>>, pref' \in BOOLEAN, micPrivacy' \in BOOLEAN,
             answers' \subseteq Mic!Answers
      PROVE  MInv'
  BY <1>1 DEF MInv, PttInv
<1>2. ASSUME NEW here \in BOOLEAN, Mic!SetClapEnabled(here) PROVE MInv'
  <2>1. answers' = answers \/ answers' = answers \cup {[Mic!ClapAnswer(TRUE) EXCEPT !.enabled = ~pref]}
    BY <1>2 DEF Mic!SetClapEnabled, Mic!Asks
  <2>2. answers' \subseteq Mic!Answers BY <2>1, AnAnswer DEF MInv
  <2>3. pref' \in BOOLEAN /\ UNCHANGED <<c, ptt, lost, micPrivacy>>
    BY <1>2 DEF Mic!SetClapEnabled, Mic!speech
  <2> QED BY <1>1, <2>2, <2>3 DEF MInv
<1>3. CASE Mic!SaveClapSettings
  <2>1. answers' = answers \cup {Mic!ClapAnswer(TRUE)}
        /\ UNCHANGED <<c, ptt, lost, pref, micPrivacy>>
    BY <1>3 DEF Mic!SaveClapSettings, Mic!Asks, Mic!speech, Mic!server
  <2> QED BY <1>1, <2>1, AnAnswer DEF MInv
<1>4. CASE Mic!SetPrivacy
  <2>1. micPrivacy' \in BOOLEAN /\ UNCHANGED <<c, ptt, lost, pref, answers>>
    BY <1>4 DEF Mic!SetPrivacy, Mic!speech
  <2> QED BY <1>1, <2>1 DEF MInv
<1>5. CASE Mic!HandlePrivacyEvent
  <2>1. answers' = answers \cup {Mic!PrivacyAnswer}
        /\ UNCHANGED <<c, ptt, lost, pref, micPrivacy>>
    BY <1>5 DEF Mic!HandlePrivacyEvent, Mic!Asks, Mic!speech
  <2> QED BY <1>1, <2>1, AnAnswer DEF MInv
<1>6. CASE Mic!RefreshClap
  <2>1. answers' = answers \cup {Mic!ClapAnswer(FALSE)}
        /\ UNCHANGED <<c, ptt, lost, pref, micPrivacy>>
    BY <1>6 DEF Mic!RefreshClap, Mic!Asks, Mic!speech
  <2> QED BY <1>1, <2>1, AnAnswer DEF MInv
<1>7. ASSUME NEW a \in answers, Mic!ApplyClapSetting(a) PROVE MInv'
  <2>1. c' = Mic!Configure(c, a) /\ answers' = answers \ {a}
        /\ UNCHANGED <<ptt, lost, pref, micPrivacy>>
    BY <1>7 DEF Mic!ApplyClapSetting, Mic!speech, Mic!server
  <2>2. Good(c') /\ Kept(c, c') BY <2>1, ConfigureIsGood DEF MInv
  <2> QED BY <2>1, <2>2, ControllerStep DEF MInv
<1>8. ASSUME NEW a \in answers, Mic!ApplyPrivacyToClap(a) PROVE MInv'
  <2>1. c' = Mic!SetPrivacyBlocked(c, a.blocked) /\ answers' = answers \ {a}
        /\ UNCHANGED <<ptt, lost, pref, micPrivacy>>
    BY <1>8 DEF Mic!ApplyPrivacyToClap, Mic!speech
  <2>2. a.blocked \in BOOLEAN BY DEF MInv, Mic!Answers
  <2>3. Good(c') /\ Kept(c, c') BY <2>1, <2>2, SetPrivacyIsGood DEF MInv
  <2> QED BY <2>1, <2>3, ControllerStep DEF MInv
<1>9. ASSUME NEW a \in answers, Mic!AnswerLost(a) PROVE MInv'
  <2>1. c' = (IF a.of = "privacy" THEN Mic!SetPrivacyBlocked(c, TRUE) ELSE c)
        /\ answers' = answers \ {a} /\ UNCHANGED <<ptt, lost, pref, micPrivacy>>
    BY <1>9 DEF Mic!AnswerLost, Mic!speech, Mic!server
  <2>2. Good(c') /\ Kept(c, c') BY <2>1, SetPrivacyIsGood DEF MInv, Kept
  <2> QED BY <2>1, <2>2, ControllerStep DEF MInv
<1> QED BY <1>2, <1>3, <1>4, <1>5, <1>6, <1>7, <1>8, <1>9 DEF Mic!Settings

\* setPttState().
LEMMA SetPttStep ==
  ASSUME MInv, NEW s \in {"idle", "requesting", "listening", "stopping", "transcribing", "error"},
         NEW open \in BOOLEAN, Mic!SetPttState(s, open),
         open => s \in {"listening", "stopping"}, ~c.quitting \/ s \in {"idle", "error"},
         UNCHANGED <<lost, answers, pref, micPrivacy>>
  PROVE  MInv'
<1>1. "push-to-talk" \in Mic!Reasons BY DEF Mic!Reasons
<1>2. ptt' = [state |-> s, open |-> open]
      /\ c' = IF s \in {"idle", "error"} THEN Mic!Resume(c, "push-to-talk")
              ELSE Mic!Suspend(c, "push-to-talk")
  BY DEF Mic!SetPttState
<1>3. Good(c') /\ c'.quitting = c.quitting
      /\ (s \notin {"idle", "error"} => "push-to-talk" \in c'.reasons)
  BY <1>1, <1>2, SuspendIsGood, ResumeIsGood DEF MInv, Kept
<1>4. PttInv' BY <1>2, <1>3 DEF PttInv
<1> QED BY <1>2, <1>3, <1>4 DEF MInv

\* Push-to-talk.
LEMMA PttSteps ==
  ASSUME MInv,
         Mic!PttStart \/ Mic!PttListens \/ Mic!PttStop \/ Mic!PttOnRecordingStopped
           \/ Mic!PttEnds \/ Mic!PttCancel
  PROVE  MInv'
<1>1. UNCHANGED <<lost, answers, pref, micPrivacy>>
  BY DEF Mic!PttStart, Mic!PttListens, Mic!PttStop, Mic!PttOnRecordingStopped, Mic!PttEnds,
         Mic!PttCancel, Mic!Quietly, Mic!server
<1>2. ptt.state \in {"requesting", "listening", "stopping", "transcribing"} => ~c.quitting
  BY DEF MInv, PttInv
<1>3. CASE Mic!PttStart BY <1>1, <1>3, SetPttStep DEF Mic!PttStart, Mic!Talk
<1>4. CASE Mic!PttListens BY <1>1, <1>2, <1>4, SetPttStep DEF Mic!PttListens
<1>5. CASE Mic!PttStop
  <2>1. ptt.state = "listening" /\ ptt' = [ptt EXCEPT !.state = "stopping"] /\ UNCHANGED c
    BY <1>5 DEF Mic!PttStop
  <2>2. ptt'.state = "stopping" /\ ptt'.open = ptt.open BY <2>1 DEF MInv
  <2>3. PttInv' BY <2>1, <2>2 DEF MInv, PttInv
  <2> QED BY <1>1, <2>1, <2>3 DEF MInv
<1>6. CASE Mic!PttOnRecordingStopped
  BY <1>1, <1>2, <1>6, SetPttStep DEF Mic!PttOnRecordingStopped
<1>7. CASE Mic!PttEnds BY <1>1, <1>7, SetPttStep DEF Mic!PttEnds
<1>8. CASE Mic!PttCancel BY <1>1, <1>8, SetPttStep DEF Mic!PttCancel
<1> QED BY <1>3, <1>4, <1>5, <1>6, <1>7, <1>8

\* What else uses the microphone or the speakers.
LEMMA VoicesStep ==
  ASSUME MInv, Mic!Voices
  PROVE  MInv'
<1>0. {"speaking", "microphone-test"} \subseteq Mic!Reasons BY DEF Mic!Reasons
<1>1. CASE Mic!SuspendForSpeech
  <2>1. c' = Mic!Suspend(c, "speaking") /\ UNCHANGED <<ptt, lost, answers, pref, micPrivacy>>
    BY <1>1 DEF Mic!SuspendForSpeech, Mic!server
  <2> QED BY <1>0, <2>1, SuspendIsGood, ControllerStep DEF MInv
<1>2. CASE Mic!ReleaseSpeechSuspension
  <2>1. c' = Mic!Resume(c, "speaking") /\ UNCHANGED <<ptt, lost, answers, pref, micPrivacy>>
    BY <1>2 DEF Mic!ReleaseSpeechSuspension, Mic!server
  <2> QED BY <2>1, ResumeIsGood, ControllerStep DEF MInv, Kept
<1>3. CASE Mic!PttStart \/ Mic!PttListens \/ Mic!PttStop \/ Mic!PttOnRecordingStopped
           \/ Mic!PttEnds \/ Mic!PttCancel
  BY <1>3, PttSteps
<1>4. CASE Mic!LatePrompt \/ Mic!TestListens
  BY <1>4 DEF Mic!LatePrompt, Mic!TestListens, Mic!server, MInv, PttInv
<1>5. CASE Mic!TestMicrophone
  <2> DEFINE r == Mic!Resume(c, "microphone-test")
  <2>1. c' = Mic!Suspend(r, "microphone-test") /\ UNCHANGED <<ptt, lost, answers, pref, micPrivacy>>
    BY <1>5 DEF Mic!TestMicrophone, Mic!server
  <2>2. Good(r) /\ Kept(c, r) BY ResumeIsGood DEF MInv, Kept
  <2> HIDE DEF r
  <2>3. Good(c') /\ Kept(c, c') BY <1>0, <2>1, <2>2, SuspendIsGood DEF Kept
  <2> QED BY <2>1, <2>3, ControllerStep DEF MInv
<1>6. CASE Mic!StopMicrophoneTest
  <2>1. c' = Mic!Resume(c, "microphone-test") /\ UNCHANGED <<ptt, lost, answers, pref, micPrivacy>>
    BY <1>6 DEF Mic!StopMicrophoneTest, Mic!server
  <2> QED BY <2>1, ResumeIsGood, ControllerStep DEF MInv, Kept
<1> QED BY <1>1, <1>2, <1>3, <1>4, <1>5, <1>6 DEF Mic!Voices

\* A microphone is plugged in or taken out.
LEMMA PlugStep ==
  ASSUME MInv, Mic!Plug
  PROVE  MInv'
<1> DEFINE h == [c.held EXCEPT !.live = FALSE]
<1>1. c \in Mic!Controller /\ Owned(c) BY DEF MInv, Good
<1>2. c' = [c EXCEPT !.held.live = FALSE] /\ UNCHANGED <<ptt, lost, answers, pref, micPrivacy>>
  BY DEF Mic!Plug, Mic!speech, Mic!server
<1>3. c' = [c EXCEPT !.held = h] BY <1>1, <1>2 DEF Mic!Controller
<1>4. h \in Holding /\ h.by = c.held.by BY <1>1, ControllerFields DEF Holding
<1> HIDE DEF h
<1>5. /\ c' \in Mic!Controller /\ c'.quitting = c.quitting /\ c'.reasons = c.reasons
      /\ c'.state = c.state /\ c'.held = h /\ c'.starts = c.starts
  BY <1>1, <1>3, <1>4 DEF Mic!Controller, Holding, Mic!None
<1>6. Owned(c') BY <1>1, <1>4, <1>5 DEF Owned, OnlyPending, Pending, Active
<1>7. Good(c') /\ Kept(c, c') BY <1>5, <1>6 DEF Good, Kept
<1> QED BY <1>2, <1>7, ControllerStep DEF MInv

\* The page is left, shown again or loaded, and hears of a new device.
LEMMA PageSteps ==
  ASSUME MInv, Mic!OnDeviceChange \/ Mic!PageHide \/ Mic!PageShow \/ Mic!PageLoad
  PROVE  MInv'
<1>1. CASE Mic!OnDeviceChange
  <2>1. c' = (IF Mic!Listening(c) THEN c ELSE Mic!Reconcile(c))
        /\ UNCHANGED <<ptt, lost, answers, pref, micPrivacy>>
    BY <1>1 DEF Mic!OnDeviceChange, Mic!speech, Mic!server
  <2>2. Good(c') /\ Kept(c, c') BY <2>1, ReconcileIsGood DEF MInv, Kept
  <2> QED BY <2>1, <2>2, ControllerStep DEF MInv
<1>2. CASE Mic!PageHide
  <2>1. c' = Mic!Resume(Mic!SetQuitting(Mic!Resume(c, "push-to-talk")), "microphone-test")
        /\ ptt' = [state |-> "idle", open |-> FALSE] /\ UNCHANGED <<lost, answers, pref, micPrivacy>>
    BY <1>2 DEF Mic!PageHide, Mic!server
  <2>2. Good(Mic!Resume(c, "push-to-talk")) BY ResumeIsGood DEF MInv
  <2>3. Good(Mic!SetQuitting(Mic!Resume(c, "push-to-talk"))) BY <2>2, SetQuittingIsGood
  <2>4. Good(c') BY <2>1, <2>3, ResumeIsGood
  <2>5. PttInv' BY <2>1 DEF PttInv
  <2> QED BY <2>1, <2>4, <2>5 DEF MInv
<1>3. CASE Mic!PageShow
  <2>1. c.quitting /\ c' = [c EXCEPT !.quitting = FALSE] /\ UNCHANGED <<ptt, lost, pref, micPrivacy>>
        /\ answers' = answers \cup {Mic!ClapAnswer(TRUE)}
    BY <1>3 DEF Mic!PageShow, Mic!Asks, Mic!speech, Mic!server
  <2>2. /\ c' \in Mic!Controller /\ c'.quitting = FALSE /\ c'.reasons = c.reasons
        /\ c'.state = c.state /\ c'.held = c.held /\ c'.starts = c.starts
    BY <2>1 DEF MInv, Good, Mic!Controller
  <2>3. Owned(c') BY <2>1, <2>2 DEF MInv, Good, Owned, OnlyPending, Pending, Active
  <2>4. PttInv' BY <2>1, <2>2 DEF MInv, PttInv
  <2> QED BY <2>1, <2>2, <2>3, <2>4, AnAnswer DEF MInv, Good
<1>4. CASE Mic!PageLoad
  <2>1. c' = Mic!Fresh /\ ptt' = [state |-> "idle", open |-> FALSE]
        /\ answers' = {Mic!ClapAnswer(FALSE)} /\ UNCHANGED <<lost, pref, micPrivacy>>
    BY <1>4 DEF Mic!PageLoad
  <2>2. Mic!Fresh \in Mic!Controller /\ Still(Mic!Fresh)
    BY DEF Mic!Fresh, Mic!Controller, Mic!States, Mic!None, Mic!Idle, Mic!Closed, Mic!Reasons,
           Still, Pending
  <2>3. Good(c') /\ PttInv' BY <2>1, <2>2, StillIsOwned DEF Good, PttInv
  <2> QED BY <2>1, <2>3, AnAnswer DEF MInv
<1> QED BY <1>1, <1>2, <1>3, <1>4

\* Every step of the page keeps the invariant.
LEMMA MicNext == MInv /\ [Mic!Next]_(Mic!vars) => MInv'
<1> SUFFICES ASSUME MInv, [Mic!Next]_(Mic!vars) PROVE MInv' OBVIOUS
<1>1. CASE UNCHANGED Mic!vars BY <1>1 DEF Mic!vars, MInv, PttInv
<1>2. CASE Mic!Next
  BY <1>2, ClappingStep, ClapSettingsStep, VoicesStep, PlugStep, PageSteps DEF Mic!Next
<1> QED BY <1>1, <1>2

\* A controller in order has an honest label.
LEMMA MInvIsHonest == MInv => MicrophoneIsHonest
<1> SUFFICES ASSUME MInv PROVE MicrophoneIsHonest OBVIOUS
<1>1. Owned(c) /\ PttInv /\ ~lost BY DEF MInv, Good
<1>2. c.held.by # "none" => Active(c, c.held.by) BY <1>1 DEF Owned
<1>3. Mic!StreamsAreAccountedFor
  BY <1>1, <1>2 DEF Mic!StreamsAreAccountedFor, PttInv, Active, Mic!None
<1>4. Mic!LabelsAreHonest
  BY <1>1, <1>2 DEF Mic!LabelsAreHonest, PttInv, Active, Mic!None, QuietStates
<1> QED BY <1>3, <1>4 DEF MicrophoneIsHonest, Mic!MicrophoneIsHonest

\* The bookkeeping of the microphone, for any number of calibrations and with no bound on
\* answers, toggles and recordings (clap-controller.js).
THEOREM MicrophoneBookkeeping == Mic!Spec => []MInv
BY MicInit, MicNext, PTL DEF Mic!Spec

\* No stream is dropped without being closed, a page that is left holds none, no quiet label
\* hides an open one, and the listener lets go for speech and push-to-talk.
THEOREM MicrophoneStaysHonest == Mic!Spec => []MicrophoneIsHonest
BY MicrophoneBookkeeping, MInvIsHonest, PTL

-----------------------------------------------------------------------------
(* The tray's lines. *)

\* How long a report may be on its way and believed.
Belief == Delay + Believed

\* The line says what the settings and the open pages say.
Truth(l) ==
  /\ ~srv.up => l = ""
  /\ srv.up /\ ~srv.enabled => l = "Off"
  /\ srv.up /\ srv.enabled /\ srv.privacy = "on" => l = "Private"
  /\ srv.up /\ srv.enabled /\ srv.privacy = "off" =>
       /\ ~Heard!Open => l = "Unavailable"
       /\ Heard!Open /\ Heard!AllPages("listening") => l = "On"
       /\ Heard!Open /\ Heard!AllPages("suspended") => l = "Paused"

\* How far the line about the listener may be behind in this part of the poll.
ClapLag == IF tray.at = "rest" THEN Delay + tray.next ELSE Delay + Poll + tray.age

\* And the line about privacy mode.
PrivacyLag ==
  IF tray.at = "rest" THEN 2 * Delay + tray.next
  ELSE IF tray.at = "privacy" THEN 2 * Delay + Poll + tray.age
  ELSE Delay + tray.age

\* A page that listens or is paused beats, and a page that listens is heard.
PageInv(p) ==
  /\ tab[p].st = "gone" => ~tab[p].beating
  /\ tab[p].st \in {"listening", "suspended"} => tab[p].beating
  /\ tab[p].st = "listening" => clock.heard = 0

\* A report under way that was sent since the last change says what its page does now.
PostInv(p) ==
  \A m \in posts[p] :
    /\ m.age < clock.settled => tab[p].st = m.st
    /\ m.st = "listening" => clock.heard <= m.age

\* Since the last change the server's report is no older than the beat of any page, or that
\* beat is still under way.
BeatInv(p) ==
  srv.up /\ tab[p].beating =>
    /\ clock.settled > tab[p].beat =>
         srv.age <= tab[p].beat \/ \E m \in posts[p] : m.age = tab[p].beat
    /\ clock.settled > Beat + tab[p].beat => srv.age <= Beat + tab[p].beat

\* All pages.
PagesInv == \A p \in Pages : PageInv(p) /\ PostInv(p) /\ BeatInv(p)

\* A believed report that was sent since the last change is of an open page; a server that is
\* down has none.
ReportInv ==
  /\ srv.up /\ srv.age < Believed /\ srv.age + Delay < clock.settled
       => \E p \in Pages : tab[p].st = srv.rep
  /\ srv.age < Believed /\ srv.rep = "listening" => clock.heard <= Delay + srv.age
  /\ ~srv.up => srv.age = Believed /\ srv.privacy = "off"

\* The line, and the answer that will be painted next, are behind by no more than their age.
LineInv ==
  /\ clock.settled > Belief + ClapLag => Truth(tray.clap)
  /\ tray.clap = "On" => clock.heard <= Belief + ClapLag
  /\ tray.at = "clap" =>
       /\ clock.settled > Belief + tray.age => Truth(tray.gotClap)
       /\ tray.gotClap = "On" => clock.heard <= Belief + tray.age

\* The same of the line about privacy mode, of the menu and of what the poll has read.
PrivInv ==
  \A b \in Heard!Privacy :
    /\ srv.up /\ srv.privacy = b => clock.priv[b] = 0
    /\ tray.at # "rest" /\ tray.gotPriv = b => clock.priv[b] <= tray.age
    /\ menu.at = "read" /\ menu.got = b => clock.priv[b] <= menu.age
    /\ tray.priv = b => clock.priv[b] <= PrivacyLag


PageType  == [st : Heard!Listener \cup {"gone"}, beating : BOOLEAN, beat : 0..Beat]
PostType  == [st : Heard!Listener, age : 0..Delay]
SrvType   == [up : BOOLEAN, enabled : BOOLEAN, privacy : Heard!Privacy, rep : Heard!Listener,
              age : 0..Believed]
TrayType  == [clap : Heard!Labels, priv : Heard!Privacy \cup {"unknown"}, next : 0..Poll,
              at : {"rest", "privacy", "clap"}, gotPriv : Heard!Privacy \cup {"unknown"},
              gotClap : Heard!Labels, age : 0..Delay]
MenuType  == [at : {"closed", "open", "asked", "sent", "read"}, says : Heard!Privacy,
              asks : Heard!Privacy, got : Heard!Privacy \cup {"unknown"}, age : 0..Delay]
\* The types of the variables, part by part.
ClockType == [heard : 0..Heard!Horizon, settled : 0..Heard!Horizon,
              priv : [Heard!Privacy -> 0..Heard!Horizon], wrong : BOOLEAN]

\* The type invariant in these parts.
Typed == /\ tab \in [Pages -> PageType] /\ posts \in [Pages -> SUBSET PostType]
         /\ srv \in SrvType /\ tray \in TrayType /\ menu \in MenuType /\ clock \in ClockType
         /\ changes \in 0..MaxChanges

\* The inductive invariant of the tray.
TInv == Typed /\ PagesInv /\ ReportInv /\ LineInv /\ PrivInv

\* It is the module's.
LEMMA TypedIsTypeOK == Typed <=> Heard!TypeOK
BY DEF Typed, Heard!TypeOK, PageType, PostType, SrvType, TrayType, MenuType, ClockType,
       Heard!Unknown, Heard!Waiting

\* The arithmetic of the timers.
LEMMA Sums ==
  /\ Belief \in Nat /\ Heard!Round \in Nat /\ Heard!Behind \in Nat /\ Heard!Horizon \in Nat
  /\ Belief = Delay + Believed
  /\ Heard!Round = 3 * Delay + Poll + 1 /\ Heard!Behind = Belief + Heard!Round
  /\ Heard!Horizon = Heard!Behind + 1
  /\ Beat \in Nat /\ Believed \in Nat /\ Poll \in Nat /\ Delay \in Nat /\ MaxChanges \in Nat
  /\ Delay < Beat /\ Beat + Delay < Believed
BY ListeningAssumption DEF Belief, Heard!Round, Heard!Behind, Heard!Horizon

\* The variables, one by one.
LEMMA TrayFields ==
  ASSUME Typed
  PROVE  /\ \A p \in Pages : /\ tab[p] \in PageType
                             /\ tab[p].st \in Heard!Listener \cup {"gone"}
                             /\ tab[p].beating \in BOOLEAN /\ tab[p].beat \in 0..Beat
                             /\ posts[p] \subseteq PostType
                             /\ \A m \in posts[p] : m.st \in Heard!Listener /\ m.age \in 0..Delay
         /\ srv.up \in BOOLEAN /\ srv.enabled \in BOOLEAN /\ srv.privacy \in Heard!Privacy
         /\ srv.rep \in Heard!Listener /\ srv.age \in 0..Believed
         /\ tray.clap \in Heard!Labels /\ tray.priv \in Heard!Privacy \cup {"unknown"}
         /\ tray.next \in 0..Poll /\ tray.at \in {"rest", "privacy", "clap"}
         /\ tray.gotPriv \in Heard!Privacy \cup {"unknown"} /\ tray.gotClap \in Heard!Labels
         /\ tray.age \in 0..Delay
         /\ menu.got \in Heard!Privacy \cup {"unknown"} /\ menu.age \in 0..Delay
         /\ menu.asks \in Heard!Privacy /\ menu.says \in Heard!Privacy
         /\ clock.heard \in 0..Heard!Horizon /\ clock.settled \in 0..Heard!Horizon
         /\ clock.priv \in [Heard!Privacy -> 0..Heard!Horizon] /\ clock.wrong \in BOOLEAN
<1>1. /\ srv.up \in BOOLEAN /\ srv.enabled \in BOOLEAN /\ srv.privacy \in Heard!Privacy
      /\ srv.rep \in Heard!Listener /\ srv.age \in 0..Believed
  BY DEF Typed, SrvType
<1>2. /\ tray.clap \in Heard!Labels /\ tray.priv \in Heard!Privacy \cup {"unknown"}
      /\ tray.next \in 0..Poll /\ tray.at \in {"rest", "privacy", "clap"}
      /\ tray.gotPriv \in Heard!Privacy \cup {"unknown"} /\ tray.gotClap \in Heard!Labels
      /\ tray.age \in 0..Delay
  BY DEF Typed, TrayType
<1>3. /\ menu.got \in Heard!Privacy \cup {"unknown"} /\ menu.age \in 0..Delay
      /\ menu.asks \in Heard!Privacy /\ menu.says \in Heard!Privacy
  BY DEF Typed, MenuType
<1>4. /\ clock.heard \in 0..Heard!Horizon /\ clock.settled \in 0..Heard!Horizon
      /\ clock.priv \in [Heard!Privacy -> 0..Heard!Horizon] /\ clock.wrong \in BOOLEAN
  BY DEF Typed, ClockType
<1>5. ASSUME NEW p \in Pages
      PROVE  /\ tab[p] \in PageType
             /\ tab[p].st \in Heard!Listener \cup {"gone"}
             /\ tab[p].beating \in BOOLEAN /\ tab[p].beat \in 0..Beat
             /\ posts[p] \subseteq PostType
             /\ \A m \in posts[p] : m.st \in Heard!Listener /\ m.age \in 0..Delay
  <2>1. tab[p] \in PageType /\ posts[p] \subseteq PostType BY DEF Typed
  <2> QED BY <2>1 DEF PageType, PostType
<1> QED BY <1>1, <1>2, <1>3, <1>4, <1>5

\* The invariant at one page.
LEMMA PageInst ==
  ASSUME PagesInv, NEW p \in Pages PROVE PageInv(p) /\ PostInv(p) /\ BeatInv(p)
BY DEF PagesInv

\* A step that leaves the tray alone and makes no age greater keeps the privacy line.
LEMMA CalmPriv ==
  ASSUME Typed, PrivInv, clock'.priv \in [Heard!Privacy -> Nat],
         UNCHANGED tray, menu' = menu \/ menu'.at # "read",
         \A b \in Heard!Privacy : clock'.priv[b] <= clock.priv[b],
         \A b \in Heard!Privacy : srv'.up /\ srv'.privacy = b => clock'.priv[b] = 0
  PROVE  PrivInv'
<1> SUFFICES ASSUME NEW b \in Heard!Privacy
             PROVE  /\ srv'.up /\ srv'.privacy = b => clock'.priv[b] = 0
                    /\ tray'.at # "rest" /\ tray'.gotPriv = b => clock'.priv[b] <= tray'.age
                    /\ menu'.at = "read" /\ menu'.got = b => clock'.priv[b] <= menu'.age
                    /\ tray'.priv = b => clock'.priv[b] <= PrivacyLag'
  BY DEF PrivInv
<1>1. clock'.priv[b] \in Nat /\ clock.priv[b] \in Nat /\ clock'.priv[b] <= clock.priv[b]
  BY TrayFields, Sums
<1>2. PrivacyLag' = PrivacyLag /\ PrivacyLag \in Nat /\ tray.age \in Nat /\ menu.age \in Nat
  BY TrayFields, Sums DEF PrivacyLag
<1>3. /\ tray.at # "rest" /\ tray.gotPriv = b => clock.priv[b] <= tray.age
      /\ menu.at = "read" /\ menu.got = b => clock.priv[b] <= menu.age
      /\ tray.priv = b => clock.priv[b] <= PrivacyLag
  BY DEF PrivInv
<1>4. tray'.at = tray.at /\ tray'.gotPriv = tray.gotPriv /\ tray'.age = tray.age
      /\ tray'.priv = tray.priv
  OBVIOUS
<1>5. tray'.at # "rest" /\ tray'.gotPriv = b => clock'.priv[b] <= tray'.age
  BY <1>1, <1>2, <1>3, <1>4
<1>6. menu'.at = "read" /\ menu'.got = b => clock'.priv[b] <= menu'.age
  BY <1>1, <1>2, <1>3
<1>7. tray'.priv = b => clock'.priv[b] <= PrivacyLag' BY <1>1, <1>2, <1>3, <1>4
<1> QED BY <1>5, <1>6, <1>7

\* A change: nothing is settled, the tray has heard of nothing yet.
LEMMA CalmLine ==
  ASSUME Typed, LineInv, UNCHANGED tray, clock'.settled = 0,
         clock'.heard \in Nat, clock'.heard <= clock.heard
  PROVE  LineInv'
<1>1. ClapLag' = ClapLag /\ ClapLag \in Nat /\ tray.age \in Nat /\ Belief \in Nat
      /\ clock.heard \in Nat
  BY TrayFields, Sums DEF ClapLag
<1>2. ~(clock'.settled > (Belief + ClapLag)') /\ ~(clock'.settled > (Belief + tray.age)')
  BY <1>1 DEF Belief
<1>3. tray.clap = "On" => clock'.heard <= (Belief + ClapLag)' BY <1>1 DEF LineInv, Belief
<1>4. tray.at = "clap" /\ tray.gotClap = "On" => clock'.heard <= Belief + tray.age
  BY <1>1 DEF LineInv
<1>5. Belief' = Belief BY DEF Belief
<1> QED BY <1>1, <1>2, <1>3, <1>4, <1>5 DEF LineInv

\* Nothing but the report, the tray or the menu.
LEMMA SameLine ==
  ASSUME LineInv, UNCHANGED <<tray, clock>>,
         UNCHANGED <<srv.up, srv.enabled, srv.privacy>>,
         \A p \in Pages : tab'[p].st = tab[p].st
  PROVE  LineInv'
<1>1. ClapLag' = ClapLag /\ Belief' = Belief BY DEF ClapLag, Belief
<1>2. Heard!Open' <=> Heard!Open BY DEF Heard!Open
<1>3. /\ Heard!AllPages("listening")' <=> Heard!AllPages("listening")
      /\ Heard!AllPages("suspended")' <=> Heard!AllPages("suspended")
  BY DEF Heard!AllPages
<1>4. \A l : Truth(l) => Truth(l)' BY <1>2, <1>3 DEF Truth
<1>5. (Truth(tray.clap) => Truth(tray.clap)') /\ (Truth(tray.gotClap) => Truth(tray.gotClap)')
  BY <1>2, <1>3 DEF Truth
<1> QED BY <1>1, <1>5 DEF LineInv

\* A change of the pages or the settings, with the parts it is made of.
Changed ==
  /\ clock'.settled = 0 /\ clock' \in ClockType
  /\ clock'.heard <= clock.heard
  /\ \A b \in Heard!Privacy : clock'.priv[b] <= clock.priv[b]
  /\ changes' \in 0..MaxChanges

\* A change that is no change of privacy mode.
LEMMA ChangeIsOne ==
  ASSUME Typed, Heard!Change
  PROVE  Changed /\ clock'.heard = clock.heard /\ clock'.priv = clock.priv
<1>1. clock' = [clock EXCEPT !.settled = 0] /\ changes < MaxChanges /\ changes' = changes + 1
  BY DEF Heard!Change, Heard!Changing
<1>2. clock'.settled = 0 /\ clock'.heard = clock.heard /\ clock'.priv = clock.priv
      /\ clock'.wrong = clock.wrong
  BY <1>1 DEF Typed, ClockType
<1>3. 0 \in 0..Heard!Horizon BY Sums
<1>4. clock' \in ClockType BY <1>1, <1>3 DEF Typed, ClockType
<1>5. clock.heard <= clock.heard /\ \A b \in Heard!Privacy : clock.priv[b] <= clock.priv[b]
  BY TrayFields, Sums
<1>6. changes' \in 0..MaxChanges BY <1>1, Sums DEF Typed
<1> QED BY <1>2, <1>4, <1>5, <1>6 DEF Changed

\* A change of privacy mode.
LEMMA PrivacyIs ==
  ASSUME Typed, NEW b \in Heard!Privacy, NEW wrong \in BOOLEAN,
         clock' = [clock EXCEPT !.priv[b] = 0, !.settled = 0, !.wrong = wrong],
         changes' \in 0..MaxChanges
  PROVE  Changed /\ clock'.heard = clock.heard /\ clock'.priv[b] = 0
<1> DEFINE f == [clock.priv EXCEPT ![b] = 0]
<1>1. clock' = [clock EXCEPT !.priv = f, !.settled = 0, !.wrong = wrong]
  BY DEF Typed, ClockType
<1>2. 0 \in 0..Heard!Horizon BY Sums
<1>3. f \in [Heard!Privacy -> 0..Heard!Horizon] /\ f[b] = 0
      /\ \A d \in Heard!Privacy : d # b => f[d] = clock.priv[d]
  BY <1>2, TrayFields
<1> HIDE DEF f
<1>4. clock'.settled = 0 /\ clock'.heard = clock.heard /\ clock'.priv = f
  BY <1>1 DEF Typed, ClockType
<1>5. clock' \in ClockType BY <1>1, <1>2, <1>3 DEF Typed, ClockType
<1>6. clock.heard <= clock.heard /\ \A d \in Heard!Privacy : f[d] <= clock.priv[d]
  BY <1>3, TrayFields, Sums
<1> QED BY <1>3, <1>4, <1>5, <1>6 DEF Changed

\* After a change the pages need only what does not wait for the reports.
LEMMA ChangedPages ==
  ASSUME Typed, Typed', PagesInv, Changed,
         \A p \in Pages : PageInv(p)',
         \A p \in Pages : \A m \in posts'[p] :
            m \in posts[p] \/ (m.st = "listening" => clock'.heard = 0)
  PROVE  PagesInv'
<1>1. clock'.settled = 0 /\ clock'.heard <= clock.heard /\ clock.heard \in Nat
      /\ clock'.heard \in Nat
  BY TrayFields, Sums DEF Changed, ClockType
<1>2. ASSUME NEW p \in Pages PROVE PostInv(p)'
  <2>1. ASSUME NEW m \in posts'[p]
        PROVE  /\ ~(m.age < clock'.settled)
               /\ m.st = "listening" => clock'.heard <= m.age
    <3>1. m \in PostType BY DEF Typed
    <3>2. m.age \in Nat BY <3>1, Sums DEF PostType
    <3>3. m \in posts[p] => (m.st = "listening" => clock.heard <= m.age)
      BY PageInst DEF PostInv
    <3> QED BY <1>1, <3>2, <3>3
  <2> QED BY <2>1 DEF PostInv
<1>3. ASSUME NEW p \in Pages PROVE BeatInv(p)'
  <2>1. tab'[p] \in PageType BY DEF Typed
  <2>2. tab'[p].beat \in Nat BY <2>1, Sums DEF PageType
  <2>3. ~(clock'.settled > tab'[p].beat) /\ ~(clock'.settled > Beat + tab'[p].beat)
    BY <1>1, <2>2, Sums
  <2> QED BY <2>3 DEF BeatInv
<1> QED BY <1>2, <1>3 DEF PagesInv

\* Or of the report.
LEMMA ChangedReport ==
  ASSUME Typed, Typed', ReportInv, Changed, UNCHANGED <<srv.rep, srv.age>> \/ srv'.age = Believed,
         ~srv'.up => srv'.age = Believed /\ srv'.privacy = "off"
  PROVE  ReportInv'
<1>1. clock'.settled = 0 /\ clock'.heard <= clock.heard /\ clock.heard \in Nat
      /\ clock'.heard \in Nat /\ srv.age \in Nat /\ srv'.age \in Nat
  BY TrayFields, Sums DEF Changed, ClockType, Typed, SrvType
<1>2. ~(srv'.age + Delay < clock'.settled) BY <1>1, Sums
<1>3. srv'.age < Believed /\ srv'.rep = "listening" => clock'.heard <= Delay + srv'.age
  BY <1>1, Sums DEF ReportInv
<1> QED BY <1>2, <1>3 DEF ReportInv

\* The whole of a change that leaves the tray alone.
LEMMA ChangeStep ==
  ASSUME Typed, Typed', PagesInv, ReportInv, LineInv, PrivInv, Changed,
         \A p \in Pages : PageInv(p)',
         \A p \in Pages : \A m \in posts'[p] :
            m \in posts[p] \/ (m.st = "listening" => clock'.heard = 0),
         UNCHANGED <<srv.rep, srv.age>> \/ srv'.age = Believed,
         ~srv'.up => srv'.age = Believed /\ srv'.privacy = "off",
         UNCHANGED tray, menu' = menu \/ menu'.at # "read",
         \A b \in Heard!Privacy : srv'.up /\ srv'.privacy = b => clock'.priv[b] = 0
  PROVE  PagesInv' /\ ReportInv' /\ LineInv' /\ PrivInv'
<1>1. clock'.heard \in Nat /\ clock'.priv \in [Heard!Privacy -> Nat]
  <2>1. clock'.priv \in [Heard!Privacy -> 0..Heard!Horizon] BY DEF Changed, ClockType
  <2>2. clock'.heard \in 0..Heard!Horizon BY DEF Changed, ClockType
  <2> QED BY <2>1, <2>2, Sums
<1>2. PagesInv' BY ChangedPages
<1>3. ReportInv' BY ChangedReport
<1>4. LineInv' BY <1>1, CalmLine DEF Changed
<1>5. PrivInv' BY <1>1, CalmPriv DEF Changed
<1> QED BY <1>2, <1>3, <1>4, <1>5

\* A report is added.
LEMMA Reported ==
  ASSUME Typed, NEW p \in Pages, NEW st \in Heard!Listener,
         posts' = Heard!Report(p, st)
  PROVE  /\ posts' \in [Pages -> SUBSET PostType]
         /\ \A q \in Pages : q # p => posts'[q] = posts[q]
         /\ posts'[p] = posts[p] \cup {[st |-> st, age |-> 0]}
<1> DEFINE m == [st |-> st, age |-> 0]
<1>1. m \in PostType BY Sums DEF PostType
<1>2. posts' = [posts EXCEPT ![p] = posts[p] \cup {m}] BY DEF Heard!Report
<1> HIDE DEF m
<1>3. posts \in [Pages -> SUBSET PostType] BY DEF Typed
<1>4. posts[p] \cup {m} \in SUBSET PostType BY <1>1, <1>3
<1> QED BY <1>2, <1>3, <1>4 DEF m

\* One page changes.
LEMMA OnePage ==
  ASSUME Typed, NEW p \in Pages, NEW n \in PageType, tab' = [tab EXCEPT ![p] = n]
  PROVE  /\ tab' \in [Pages -> PageType] /\ tab'[p] = n
         /\ \A q \in Pages : q # p => tab'[q] = tab[q]
BY DEF Typed

\* Privacy mode is as it was.
LEMMA PrivacyStays ==
  ASSUME Typed, PrivInv, UNCHANGED <<srv.up, srv.privacy>>, clock'.priv = clock.priv
  PROVE  \A b \in Heard!Privacy : srv'.up /\ srv'.privacy = b => clock'.priv[b] = 0
BY DEF PrivInv

\* A page opens.
LEMMA PageOpensStep ==
  ASSUME Typed, TInv, NEW p \in Pages, Heard!PageOpens(p)
  PROVE  TInv'
<1> DEFINE n == [st |-> "disabled", beating |-> FALSE, beat |-> 0]
<1>1. Changed /\ clock'.heard = clock.heard /\ clock'.priv = clock.priv
      /\ UNCHANGED <<posts, srv, tray, menu>> /\ tab' = [tab EXCEPT ![p] = n]
  BY ChangeIsOne DEF Heard!PageOpens
<1>2. n \in PageType BY Sums DEF PageType, Heard!Listener
<1>3. n.st = "disabled" /\ ~n.beating OBVIOUS
<1> HIDE DEF n
<1>4. tab' \in [Pages -> PageType] /\ tab'[p] = n /\ \A q \in Pages : q # p => tab'[q] = tab[q]
  BY <1>1, <1>2, OnePage
<1>5. Typed' BY <1>1, <1>4 DEF Typed, Changed
<1>6. \A q \in Pages : PageInv(q)'
  BY <1>1, <1>3, <1>4 DEF TInv, PagesInv, PageInv
<1>7. PagesInv' /\ ReportInv' /\ LineInv' /\ PrivInv'
  <2>1. ~srv'.up => srv'.age = Believed /\ srv'.privacy = "off" BY <1>1 DEF TInv, ReportInv
  <2>2. \A b \in Heard!Privacy : srv'.up /\ srv'.privacy = b => clock'.priv[b] = 0
    BY <1>1, PrivacyStays DEF TInv
  <2>3. UNCHANGED <<srv.rep, srv.age, tray>> /\ menu' = menu BY <1>1
  <2>4. \A q \in Pages : posts'[q] = posts[q] BY <1>1
  <2> QED BY <1>1, <1>5, <1>6, <2>1, <2>2, <2>3, <2>4, ChangeStep DEF TInv
<1> QED BY <1>5, <1>7 DEF TInv

\* A page reports what its listener does now.
LEMMA PageTurnsStep ==
  ASSUME Typed, TInv, NEW p \in Pages, NEW st \in Heard!Listener, Heard!PageTurns(p, st)
  PROVE  TInv'
<1> DEFINE n == [tab[p] EXCEPT !.st = st, !.beating = TRUE]
           k == IF st = "listening" THEN [clock EXCEPT !.heard = 0] ELSE clock
<1>1. /\ UNCHANGED <<srv, tray, menu>> /\ tab' = [tab EXCEPT ![p].st = st, ![p].beating = TRUE]
      /\ posts' = Heard!Report(p, st) /\ clock' = [k EXCEPT !.settled = 0]
      /\ changes < MaxChanges /\ changes' = changes + 1
  BY DEF Heard!PageTurns, Heard!Changing
<1>2. /\ k \in ClockType /\ k.heard \in 0..Heard!Horizon /\ k.heard <= clock.heard
      /\ k.priv = clock.priv /\ (st = "listening" => k.heard = 0)
  <2>1. clock \in ClockType /\ 0 \in 0..Heard!Horizon BY Sums DEF Typed
  <2>2. CASE st = "listening" BY <2>1, <2>2, TrayFields, Sums DEF ClockType
  <2>3. CASE st # "listening" BY <2>1, <2>3, TrayFields, Sums DEF ClockType
  <2> QED BY <2>2, <2>3
<1>2a. st # "listening" => k = clock OBVIOUS
<1> HIDE DEF k
<1>3. Changed /\ clock'.priv = clock.priv /\ (st = "listening" => clock'.heard = 0)
      /\ (st # "listening" => clock'.heard = clock.heard)
  <2>1. 0 \in 0..Heard!Horizon BY Sums
  <2>2. clock'.settled = 0 /\ clock'.heard = k.heard /\ clock'.priv = k.priv
        /\ clock' \in ClockType
    BY <1>1, <1>2, <2>1 DEF ClockType
  <2>3. changes' \in 0..MaxChanges BY <1>1, Sums DEF Typed
  <2>4. \A b \in Heard!Privacy : clock.priv[b] <= clock.priv[b] BY TrayFields, Sums
  <2> QED BY <1>2, <1>2a, <2>2, <2>3, <2>4 DEF Changed
<1>4. n \in PageType /\ n.st = st /\ n.beating /\ n.beat = tab[p].beat
  <2>1. tab[p] \in PageType BY TrayFields
  <2> QED BY <2>1 DEF PageType
<1>5. tab' = [tab EXCEPT ![p] = n] BY <1>1, TrayFields DEF Typed
<1> HIDE DEF n
<1>6. tab' \in [Pages -> PageType] /\ tab'[p] = n /\ \A q \in Pages : q # p => tab'[q] = tab[q]
  BY <1>4, <1>5, OnePage
<1>7. /\ posts' \in [Pages -> SUBSET PostType]
      /\ \A q \in Pages : q # p => posts'[q] = posts[q]
      /\ posts'[p] = posts[p] \cup {[st |-> st, age |-> 0]}
  BY <1>1, Reported
<1>8. Typed' BY <1>1, <1>3, <1>6, <1>7 DEF Typed, Changed
<1>9. ASSUME NEW q \in Pages PROVE PageInv(q)'
  <2>1. PageInv(q) BY PageInst DEF TInv
  <2>2. CASE q = p BY <1>3, <1>4, <1>6, <2>2 DEF PageInv, Heard!Listener
  <2>3. CASE q # p
    BY <1>3, <1>6, <2>1, <2>3, TrayFields DEF PageInv, Changed, Typed
  <2> QED BY <2>2, <2>3
<1>10. \A q \in Pages : \A m \in posts'[q] :
          m \in posts[q] \/ (m.st = "listening" => clock'.heard = 0)
  BY <1>3, <1>7
<1>11. PagesInv' /\ ReportInv' /\ LineInv' /\ PrivInv'
  <2>1. ~srv'.up => srv'.age = Believed /\ srv'.privacy = "off" BY <1>1 DEF TInv, ReportInv
  <2>2. \A b \in Heard!Privacy : srv'.up /\ srv'.privacy = b => clock'.priv[b] = 0
    BY <1>1, <1>3, PrivacyStays DEF TInv
  <2>3. UNCHANGED <<srv.rep, srv.age, tray>> /\ menu' = menu BY <1>1
  <2> QED BY <1>3, <1>8, <1>9, <1>10, <2>1, <2>2, <2>3, ChangeStep DEF TInv
<1> QED BY <1>8, <1>11 DEF TInv

\* A page closes or crashes.
LEMMA PageGoesStep ==
  ASSUME Typed, TInv, NEW p \in Pages, Heard!PageGoes(p)
  PROVE  TInv'
<1> DEFINE n == [st |-> "gone", beating |-> FALSE, beat |-> 0]
<1>1. Changed /\ clock'.heard = clock.heard /\ clock'.priv = clock.priv
      /\ UNCHANGED <<srv, tray, menu>> /\ tab' = [tab EXCEPT ![p] = n]
      /\ (posts' = posts \/ posts' = Heard!Report(p, "disabled"))
  BY ChangeIsOne DEF Heard!PageGoes
<1>2. n \in PageType BY Sums DEF PageType, Heard!Listener
<1>3. n.st = "gone" /\ ~n.beating OBVIOUS
<1> HIDE DEF n
<1>4. tab' \in [Pages -> PageType] /\ tab'[p] = n /\ \A q \in Pages : q # p => tab'[q] = tab[q]
  BY <1>1, <1>2, OnePage
<1>5. /\ posts' \in [Pages -> SUBSET PostType]
      /\ \A q \in Pages : \A m \in posts'[q] : m \in posts[q] \/ m.st = "disabled"
  <2>1. CASE posts' = posts BY <2>1 DEF Typed
  <2>2. CASE posts' = Heard!Report(p, "disabled")
    <3>1. "disabled" \in Heard!Listener BY DEF Heard!Listener
    <3>2. /\ posts' \in [Pages -> SUBSET PostType]
          /\ \A q \in Pages : q # p => posts'[q] = posts[q]
          /\ posts'[p] = posts[p] \cup {[st |-> "disabled", age |-> 0]}
      BY <2>2, <3>1, Reported
    <3> QED BY <3>2
  <2> QED BY <1>1, <2>1, <2>2
<1>6. Typed' BY <1>1, <1>4, <1>5 DEF Typed, Changed
<1>7. \A q \in Pages : PageInv(q)'
  BY <1>1, <1>3, <1>4 DEF TInv, PagesInv, PageInv
<1>8. PagesInv' /\ ReportInv' /\ LineInv' /\ PrivInv'
  <2>1. ~srv'.up => srv'.age = Believed /\ srv'.privacy = "off" BY <1>1 DEF TInv, ReportInv
  <2>2. \A b \in Heard!Privacy : srv'.up /\ srv'.privacy = b => clock'.priv[b] = 0
    BY <1>1, PrivacyStays DEF TInv
  <2>3. UNCHANGED <<srv.rep, srv.age, tray>> /\ menu' = menu BY <1>1
  <2>4. \A q \in Pages : \A m \in posts'[q] :
          m \in posts[q] \/ (m.st = "listening" => clock'.heard = 0)
    BY <1>5
  <2> QED BY <1>1, <1>6, <1>7, <2>1, <2>2, <2>3, <2>4, ChangeStep DEF TInv
<1> QED BY <1>6, <1>8 DEF TInv

\* A report is lost.
LEMMA ReportLostStep ==
  ASSUME Typed, TInv, NEW p \in Pages, NEW m \in posts[p], Heard!ReportLost(p, m)
  PROVE  TInv'
<1>1. posts' = [posts EXCEPT ![p] = posts[p] \ {m}] /\ UNCHANGED <<tab, srv, tray, menu>>
  BY DEF Heard!ReportLost
<1>2. posts' \in [Pages -> SUBSET PostType] /\ \A q \in Pages : posts'[q] \subseteq posts[q]
  <2>1. posts \in [Pages -> SUBSET PostType] BY DEF Typed
  <2>2. posts[p] \ {m} \in SUBSET PostType BY <2>1
  <2> QED BY <1>1, <2>1, <2>2
<1>3. CASE srv.up
  <2>1. Changed /\ clock'.heard = clock.heard /\ clock'.priv = clock.priv
    BY <1>3, ChangeIsOne DEF Heard!ReportLost
  <2>2. Typed' BY <1>1, <1>2, <2>1 DEF Typed, Changed
  <2>3. \A q \in Pages : PageInv(q)' BY <1>1, <2>1 DEF TInv, PagesInv, PageInv
  <2>4. \A b \in Heard!Privacy : srv'.up /\ srv'.privacy = b => clock'.priv[b] = 0
    BY <1>1, <2>1, PrivacyStays DEF TInv
  <2>5. UNCHANGED <<srv.rep, srv.age, tray>> /\ menu' = menu /\ srv'.up BY <1>1, <1>3
  <2>6. \A q \in Pages : \A k \in posts'[q] :
          k \in posts[q] \/ (k.st = "listening" => clock'.heard = 0)
    BY <1>2
  <2>7. PagesInv' /\ ReportInv' /\ LineInv' /\ PrivInv'
    BY <2>1, <2>2, <2>3, <2>4, <2>5, <2>6, ChangeStep DEF TInv
  <2> QED BY <2>2, <2>7 DEF TInv
<1>4. CASE ~srv.up
  <2>1. UNCHANGED <<clock, changes>> BY <1>4 DEF Heard!ReportLost, Heard!Same
  <2>2. Typed' BY <1>1, <1>2, <2>1 DEF Typed
  <2>3. PagesInv'
    <3>1. ASSUME NEW q \in Pages PROVE PageInv(q)' /\ PostInv(q)' /\ BeatInv(q)'
      <4>1. PageInv(q) /\ PostInv(q) BY PageInst DEF TInv
      <4>2. PageInv(q)' BY <1>1, <2>1, <4>1 DEF PageInv
      <4>3. PostInv(q)' BY <1>1, <1>2, <2>1, <4>1 DEF PostInv
      <4>4. BeatInv(q)' BY <1>1, <1>4 DEF BeatInv
      <4> QED BY <4>2, <4>3, <4>4
    <3> QED BY <3>1 DEF PagesInv
  <2>4. ReportInv' BY <1>1, <2>1 DEF TInv, ReportInv
  <2>5. LineInv' BY <1>1, <2>1, SameLine DEF TInv
  <2>6. PrivInv' BY <1>1, <2>1 DEF TInv, PrivInv, PrivacyLag
  <2> QED BY <2>2, <2>3, <2>4, <2>5, <2>6 DEF TInv
<1> QED BY <1>3, <1>4

\* A page that beats has a report under way or at the server that is as old as its beat.
LEMMA PageBeatsStep ==
  ASSUME Typed, TInv, NEW p \in Pages, Heard!PageBeats(p)
  PROVE  TInv'
<1> DEFINE n == [tab[p] EXCEPT !.beat = 0]
<1>1. /\ UNCHANGED <<srv, tray, menu, clock, changes>> /\ tab' = [tab EXCEPT ![p].beat = 0]
      /\ posts' = Heard!Report(p, tab[p].st) /\ tab[p].beating /\ tab[p].beat = Beat
  BY DEF Heard!PageBeats, Heard!Same
<1>2. n \in PageType /\ n.st = tab[p].st /\ n.beating = tab[p].beating /\ n.beat = 0
  <2>1. tab[p] \in PageType /\ 0 \in 0..Beat BY TrayFields, Sums
  <2> QED BY <2>1 DEF PageType
<1>3. tab' = [tab EXCEPT ![p] = n] BY <1>1, TrayFields DEF Typed
<1> HIDE DEF n
<1>4. tab' \in [Pages -> PageType] /\ tab'[p] = n /\ \A q \in Pages : q # p => tab'[q] = tab[q]
  BY <1>2, <1>3, OnePage
<1>5. PageInv(p) /\ PostInv(p) /\ BeatInv(p) BY PageInst DEF TInv
<1>6. tab[p].st \in Heard!Listener BY <1>1, <1>5, TrayFields DEF PageInv
<1> DEFINE o == [st |-> tab[p].st, age |-> 0]
<1>7. /\ posts' \in [Pages -> SUBSET PostType]
      /\ \A q \in Pages : q # p => posts'[q] = posts[q]
      /\ posts'[p] = posts[p] \cup {o}
  BY <1>1, <1>6, Reported
<1>7a. o.st = tab[p].st /\ o.age = 0 OBVIOUS
<1> HIDE DEF o
<1>8. Typed' BY <1>1, <1>4, <1>7 DEF Typed
<1>9. \A q \in Pages : tab'[q].st = tab[q].st /\ tab'[q].beating = tab[q].beating
  BY <1>2, <1>4
<1>10. ASSUME NEW q \in Pages PROVE PageInv(q)' /\ PostInv(q)' /\ BeatInv(q)'
  <2>1. PageInv(q) /\ PostInv(q) /\ BeatInv(q) BY PageInst DEF TInv
  <2>2. PageInv(q)' BY <1>1, <1>9, <2>1 DEF PageInv
  <2>3. CASE q # p
    <3>1. tab'[q] = tab[q] /\ posts'[q] = posts[q] BY <1>4, <1>7, <2>3
    <3>2. PostInv(q)' BY <1>1, <2>1, <3>1 DEF PostInv
    <3>3. BeatInv(q)' BY <1>1, <2>1, <3>1 DEF BeatInv
    <3> QED BY <2>2, <3>2, <3>3
  <2>4. CASE q = p
    <3>1. PostInv(p)'
      <4>1. ASSUME NEW m \in posts'[p]
            PROVE  (m.age < clock.settled => tab[p].st = m.st)
                   /\ (m.st = "listening" => clock.heard <= m.age)
        <5>1. CASE m \in posts[p] BY <1>5, <5>1 DEF PostInv
        <5>2. CASE m = o
          <6>1. tab[p].st = "listening" => clock.heard = 0 BY <1>5 DEF PageInv
          <6> QED BY <1>7a, <5>2, <6>1
        <5> QED BY <1>7, <5>1, <5>2
      <4> QED BY <1>1, <1>9, <4>1 DEF PostInv
    <3>2. BeatInv(p)'
      <4>1. tab'[p].beat = 0 BY <1>2, <1>4
      <4>2. o \in posts'[p] BY <1>7
      <4>3. ASSUME srv.up, clock.settled > Beat PROVE srv.age <= Beat
        <5>1. \A m \in posts[p] : m.age # Beat BY TrayFields, Sums
        <5> QED BY <1>1, <1>5, <4>3, <5>1 DEF BeatInv
      <4>4. Beat + 0 = Beat BY Sums
      <4> QED BY <1>1, <1>7a, <4>1, <4>2, <4>3, <4>4 DEF BeatInv
    <3> QED BY <2>2, <2>4, <3>1, <3>2
  <2> QED BY <2>3, <2>4
<1>11. PagesInv' BY <1>10 DEF PagesInv
<1>12. ReportInv' BY <1>1, <1>9 DEF TInv, ReportInv
<1>13. LineInv' BY <1>1, <1>9, SameLine DEF TInv
<1>14. PrivInv' BY <1>1 DEF TInv, PrivInv, PrivacyLag
<1> QED BY <1>8, <1>11, <1>12, <1>13, <1>14 DEF TInv

\* A report arrives: it is some open page's present state, or something changed since.
LEMMA ReportArrivesStep ==
  ASSUME Typed, TInv, NEW p \in Pages, NEW m \in posts[p], Heard!ReportArrives(p, m)
  PROVE  TInv'
<1>1. /\ posts' = [posts EXCEPT ![p] = posts[p] \ {m}] /\ UNCHANGED <<tab, tray, menu, clock, changes>>
      /\ srv.up /\ srv' = [srv EXCEPT !.rep = m.st, !.age = 0]
  BY DEF Heard!ReportArrives, Heard!Same
<1>2. posts' \in [Pages -> SUBSET PostType] /\ \A q \in Pages : posts'[q] \subseteq posts[q]
  <2>1. posts \in [Pages -> SUBSET PostType] BY DEF Typed
  <2>2. posts[p] \ {m} \in SUBSET PostType BY <2>1
  <2> QED BY <1>1, <2>1, <2>2
<1>3. m.st \in Heard!Listener /\ m.age \in 0..Delay BY TrayFields
<1>4. /\ srv' \in SrvType /\ srv'.rep = m.st /\ srv'.age = 0
      /\ UNCHANGED <<srv.up, srv.enabled, srv.privacy>>
  <2>1. 0 \in 0..Believed BY Sums
  <2> QED BY <1>1, <1>3, <2>1 DEF Typed, SrvType
<1>5. Typed' BY <1>1, <1>2, <1>4 DEF Typed
<1>6. ASSUME NEW q \in Pages PROVE PageInv(q)' /\ PostInv(q)' /\ BeatInv(q)'
  <2>1. PageInv(q) /\ PostInv(q) /\ BeatInv(q) BY PageInst DEF TInv
  <2>2. PageInv(q)' BY <1>1, <2>1 DEF PageInv
  <2>3. PostInv(q)' BY <1>1, <1>2, <2>1 DEF PostInv
  <2>4. tab[q].beat \in Nat BY TrayFields, Sums
  <2>5. srv'.age <= tab'[q].beat /\ srv'.age <= Beat + tab'[q].beat BY <1>1, <1>4, <2>4, Sums
  <2>6. BeatInv(q)' BY <2>5 DEF BeatInv
  <2> QED BY <2>2, <2>3, <2>6
<1>7. PagesInv' BY <1>6 DEF PagesInv
<1>8. ReportInv'
  <2>1. PostInv(p) BY PageInst DEF TInv
  <2>2. clock.settled \in Nat /\ clock.heard \in Nat BY TrayFields, Sums
  <2>3. srv'.age + Delay < clock'.settled => tab'[p].st = srv'.rep
    BY <1>1, <1>3, <1>4, <2>1, <2>2, Sums DEF PostInv
  <2>4. srv'.rep = "listening" => clock'.heard <= Delay + srv'.age
    <3>1. m.st = "listening" => clock.heard <= m.age BY <2>1 DEF PostInv
    <3> QED BY <1>1, <1>3, <1>4, <2>2, <3>1, Sums
  <2> QED BY <1>1, <1>4, <2>3, <2>4 DEF ReportInv
<1>9. LineInv' BY <1>1, <1>4, SameLine DEF TInv
<1>10. PrivInv' BY <1>1, <1>4 DEF TInv, PrivInv, PrivacyLag
<1> QED BY <1>5, <1>7, <1>8, <1>9, <1>10 DEF TInv

-----------------------------------------------------------------------------
\* The server and the click on the privacy line.
LEMMA ServerSteps ==
  ASSUME Typed, TInv,
         Heard!SetEnabled \/ Heard!SetPrivacy \/ Heard!ServerGoes \/ Heard!ServerComes
  PROVE  TInv'
<1>0. UNCHANGED <<tab, posts, tray, menu>>
  BY DEF Heard!SetEnabled, Heard!SetPrivacy, Heard!ServerGoes, Heard!ServerComes
<1>1. srv \in SrvType /\ Believed \in 0..Believed BY Sums DEF Typed
<1>2. /\ srv' \in SrvType /\ Changed /\ clock'.heard = clock.heard
      /\ (UNCHANGED <<srv.rep, srv.age>> \/ srv'.age = Believed)
      /\ (~srv'.up => srv'.age = Believed /\ srv'.privacy = "off")
      /\ \A b \in Heard!Privacy : srv'.up /\ srv'.privacy = b => clock'.priv[b] = 0
  <2>1. CASE Heard!SetEnabled
    <3>1. srv.up /\ srv' = [srv EXCEPT !.enabled = ~srv.enabled] BY <2>1 DEF Heard!SetEnabled
    <3>2. srv' \in SrvType /\ UNCHANGED <<srv.rep, srv.age, srv.up, srv.privacy>>
      BY <1>1, <3>1 DEF SrvType
    <3>3. Changed /\ clock'.heard = clock.heard /\ clock'.priv = clock.priv
      BY <2>1, ChangeIsOne DEF Heard!SetEnabled
    <3>4. \A b \in Heard!Privacy : srv'.up /\ srv'.privacy = b => clock'.priv[b] = 0
      BY <3>2, <3>3, PrivacyStays DEF TInv
    <3> QED BY <3>1, <3>2, <3>3, <3>4
  <2>2. CASE Heard!SetPrivacy
    <3> DEFINE b == Heard!Opposite(srv.privacy)
    <3>1. b \in Heard!Privacy BY DEF Heard!Opposite, Heard!Privacy
    <3>2. /\ srv.up /\ srv' = [srv EXCEPT !.privacy = b]
          /\ clock' = [[clock EXCEPT !.priv[b] = 0] EXCEPT !.settled = 0]
          /\ changes < MaxChanges /\ changes' = changes + 1
      BY <2>2 DEF Heard!SetPrivacy, Heard!Changing, Heard!Is
    <3> HIDE DEF b
    <3>3. srv' \in SrvType /\ UNCHANGED <<srv.rep, srv.age, srv.up>> /\ srv'.privacy = b
      BY <1>1, <3>1, <3>2 DEF SrvType
    <3>4. changes' \in 0..MaxChanges BY <3>2, Sums DEF Typed
    <3>5. clock' = [clock EXCEPT !.priv[b] = 0, !.settled = 0, !.wrong = clock.wrong]
      BY <3>2 DEF Typed, ClockType
    <3>6. Changed /\ clock'.heard = clock.heard /\ clock'.priv[b] = 0
      BY <3>1, <3>4, <3>5, PrivacyIs, TrayFields
    <3> QED BY <3>2, <3>3, <3>6
  <2>3. CASE Heard!ServerGoes
    <3>1. srv' = [srv EXCEPT !.up = FALSE, !.privacy = "off", !.rep = "disabled", !.age = Believed]
      BY <2>3 DEF Heard!ServerGoes
    <3>2. srv' \in SrvType /\ ~srv'.up /\ srv'.privacy = "off" /\ srv'.age = Believed
      BY <1>1, <3>1 DEF SrvType, Heard!Privacy, Heard!Listener
    <3>3. Changed /\ clock'.heard = clock.heard BY <2>3, ChangeIsOne DEF Heard!ServerGoes
    <3> QED BY <3>2, <3>3
  <2>4. CASE Heard!ServerComes
    <3>1. "off" \in Heard!Privacy BY DEF Heard!Privacy
    <3>2. /\ ~srv.up /\ srv' = [srv EXCEPT !.up = TRUE]
          /\ clock' = [[clock EXCEPT !.priv["off"] = 0] EXCEPT !.settled = 0]
          /\ changes < MaxChanges /\ changes' = changes + 1
      BY <2>4 DEF Heard!ServerComes, Heard!Changing, Heard!Is
    <3>3. srv' \in SrvType /\ UNCHANGED <<srv.rep, srv.age, srv.privacy>> /\ srv'.up
      BY <1>1, <3>2 DEF SrvType
    <3>4. srv.privacy = "off" BY <3>2 DEF TInv, ReportInv
    <3>5. changes' \in 0..MaxChanges BY <3>2, Sums DEF Typed
    <3>6. clock' = [clock EXCEPT !.priv["off"] = 0, !.settled = 0, !.wrong = clock.wrong]
      BY <3>2 DEF Typed, ClockType
    <3>7. Changed /\ clock'.heard = clock.heard /\ clock'.priv["off"] = 0
      BY <3>1, <3>5, <3>6, PrivacyIs, TrayFields
    <3> QED BY <3>3, <3>4, <3>7
  <2> QED BY <2>1, <2>2, <2>3, <2>4
<1>3. Typed' BY <1>0, <1>2 DEF Typed, Changed
<1>4. \A q \in Pages : PageInv(q)' BY <1>0, <1>2 DEF TInv, PagesInv, PageInv
<1>5. \A q \in Pages : \A m \in posts'[q] :
        m \in posts[q] \/ (m.st = "listening" => clock'.heard = 0)
  BY <1>0
<1>6. PagesInv' /\ ReportInv' /\ LineInv' /\ PrivInv'
  BY <1>0, <1>2, <1>3, <1>4, <1>5, ChangeStep DEF TInv
<1> QED BY <1>3, <1>6 DEF TInv

\* The command of a click arrives.
LEMMA MenuSetsStep ==
  ASSUME Typed, TInv, Heard!MenuSets
  PROVE  TInv'
<1>1. /\ UNCHANGED <<tab, posts, tray, changes>> /\ menu' = [menu EXCEPT !.at = "sent"]
  BY DEF Heard!MenuSets
<1>2. menu' \in MenuType /\ menu'.at = "sent" BY <1>1 DEF Typed, MenuType
<1>3. CASE srv.up
  <2> DEFINE b == menu.asks
             w == clock.wrong \/ menu.asks = menu.says
  <2>1. srv' = [srv EXCEPT !.privacy = b]
        /\ clock' = [[clock EXCEPT !.priv[b] = 0] EXCEPT !.settled = 0, !.wrong = @ \/ menu.asks = menu.says]
    BY <1>3 DEF Heard!MenuSets, Heard!Is
  <2>2. b \in Heard!Privacy /\ w \in BOOLEAN BY TrayFields
  <2>3. clock' = [clock EXCEPT !.priv[b] = 0, !.settled = 0, !.wrong = w]
    BY <2>1 DEF Typed, ClockType
  <2> HIDE DEF b, w
  <2>4. changes' \in 0..MaxChanges BY <1>1 DEF Typed
  <2>5. Changed /\ clock'.heard = clock.heard /\ clock'.priv[b] = 0
    BY <2>2, <2>3, <2>4, PrivacyIs
  <2>6. srv' \in SrvType /\ UNCHANGED <<srv.rep, srv.age, srv.up>> /\ srv'.privacy = b
    BY <2>1, <2>2 DEF Typed, SrvType
  <2>7. Typed' BY <1>1, <1>2, <2>5, <2>6 DEF Typed, Changed
  <2>8. \A q \in Pages : PageInv(q)' BY <1>1, <2>5 DEF TInv, PagesInv, PageInv
  <2>9. \A q \in Pages : \A m \in posts'[q] :
          m \in posts[q] \/ (m.st = "listening" => clock'.heard = 0)
    BY <1>1
  <2>10. \A d \in Heard!Privacy : srv'.up /\ srv'.privacy = d => clock'.priv[d] = 0
    BY <2>5, <2>6
  <2>11. menu'.at # "read" /\ srv'.up BY <1>2, <1>3, <2>6
  <2>12. PagesInv' /\ ReportInv' /\ LineInv' /\ PrivInv'
    BY <1>1, <2>5, <2>6, <2>7, <2>8, <2>9, <2>10, <2>11, ChangeStep DEF TInv
  <2> QED BY <2>7, <2>12 DEF TInv
<1>4. CASE ~srv.up
  <2>1. UNCHANGED <<srv, clock>> BY <1>4 DEF Heard!MenuSets
  <2>2. Typed' BY <1>1, <1>2, <2>1 DEF Typed
  <2>3. PagesInv' BY <1>1, <2>1 DEF TInv, PagesInv, PageInv, PostInv, BeatInv
  <2>4. ReportInv' BY <1>1, <2>1 DEF TInv, ReportInv
  <2>5. LineInv' BY <1>1, <2>1, SameLine DEF TInv
  <2>6. PrivInv' BY <1>1, <1>2, <2>1 DEF TInv, PrivInv, PrivacyLag
  <2> QED BY <2>2, <2>3, <2>4, <2>5, <2>6 DEF TInv
<1> QED BY <1>3, <1>4

\* The steps of the menu that paint nothing.
LEMMA MenuStepsAlone ==
  ASSUME Typed, TInv,
         Heard!MenuOpens \/ Heard!MenuCloses \/ Heard!MenuClicks \/ Heard!MenuReads
  PROVE  TInv'
<1>0. UNCHANGED <<tab, posts, srv, tray>>
  BY DEF Heard!MenuOpens, Heard!MenuCloses, Heard!MenuClicks, Heard!MenuReads
<1>1. 0 \in 0..Delay /\ Heard!NoMenu \in MenuType /\ Heard!NoMenu.at = "closed"
  BY Sums DEF MenuType, Heard!NoMenu, Heard!Privacy, Heard!Unknown
<1>2. CASE Heard!MenuClicks
  <2>1. Changed /\ clock'.heard = clock.heard /\ clock'.priv = clock.priv
    BY <1>2, ChangeIsOne DEF Heard!MenuClicks
  <2>2. menu' = [menu EXCEPT !.at = "asked", !.asks = Heard!Opposite(tray.priv), !.age = 0]
    BY <1>2 DEF Heard!MenuClicks
  <2>3. Heard!Opposite(tray.priv) \in Heard!Privacy BY DEF Heard!Opposite, Heard!Privacy
  <2>4. menu' \in MenuType /\ menu'.at = "asked" BY <1>1, <2>2, <2>3 DEF Typed, MenuType
  <2>5. Typed' BY <1>0, <2>1, <2>4 DEF Typed, Changed
  <2>6. \A q \in Pages : PageInv(q)' BY <1>0, <2>1 DEF TInv, PagesInv, PageInv
  <2>7. \A d \in Heard!Privacy : srv'.up /\ srv'.privacy = d => clock'.priv[d] = 0
    BY <1>0, <2>1, PrivacyStays DEF TInv
  <2>8. ~srv'.up => srv'.age = Believed /\ srv'.privacy = "off" BY <1>0 DEF TInv, ReportInv
  <2>9. UNCHANGED <<srv.rep, srv.age, tray>> /\ menu'.at # "read" BY <1>0, <2>4
  <2>10. \A q \in Pages : posts'[q] = posts[q] BY <1>0
  <2>11. PagesInv' /\ ReportInv' /\ LineInv' /\ PrivInv'
    BY <2>1, <2>5, <2>6, <2>7, <2>8, <2>9, <2>10, ChangeStep DEF TInv
  <2> QED BY <2>5, <2>11 DEF TInv
<1>3. ASSUME UNCHANGED <<clock, changes>>, menu' \in MenuType,
             menu'.at = "read" => menu'.got = (IF srv.up THEN srv.privacy ELSE "unknown")
      PROVE  TInv'
  <2>1. Typed' BY <1>0, <1>3 DEF Typed
  <2>2. PagesInv' BY <1>0, <1>3 DEF TInv, PagesInv, PageInv, PostInv, BeatInv
  <2>3. ReportInv' BY <1>0, <1>3 DEF TInv, ReportInv
  <2>4. LineInv' BY <1>0, <1>3, SameLine DEF TInv
  <2>5. PrivInv'
    <3>1. ASSUME NEW b \in Heard!Privacy, menu'.at = "read", menu'.got = b
          PROVE  clock'.priv[b] <= menu'.age
      <4>1. b # "unknown" BY DEF Heard!Privacy
      <4>2. srv.up /\ srv.privacy = b BY <1>3, <3>1, <4>1
      <4>3. clock'.priv[b] = 0 BY <1>3, <4>2 DEF TInv, PrivInv
      <4>4. menu'.age \in 0..Delay BY <1>3 DEF MenuType
      <4> QED BY <4>3, <4>4, Sums
    <3> QED BY <1>0, <1>3, <3>1 DEF TInv, PrivInv, PrivacyLag
  <2> QED BY <2>1, <2>2, <2>3, <2>4, <2>5 DEF TInv
<1>4. CASE Heard!MenuOpens
  <2>1. menu' = [menu EXCEPT !.at = "open", !.says = tray.priv] /\ tray.priv # "unknown"
        /\ UNCHANGED <<clock, changes>>
    BY <1>4 DEF Heard!MenuOpens, Heard!Same, Heard!Unknown
  <2>2. tray.priv \in Heard!Privacy BY <2>1, TrayFields
  <2>3. menu' \in MenuType /\ menu'.at = "open" BY <2>1, <2>2 DEF Typed, MenuType
  <2> QED BY <1>3, <2>1, <2>3
<1>5. CASE Heard!MenuCloses
  BY <1>1, <1>3, <1>5 DEF Heard!MenuCloses, Heard!Same
<1>6. CASE Heard!MenuReads
  <2> DEFINE g == IF srv.up THEN srv.privacy ELSE "unknown"
  <2>1. menu' = [menu EXCEPT !.at = "read", !.got = g] /\ UNCHANGED <<clock, changes>>
    BY <1>6 DEF Heard!MenuReads, Heard!Same, Heard!PrivacyActive, Heard!Unknown
  <2>2. g \in Heard!Privacy \cup {"unknown"} BY TrayFields
  <2>3. menu' \in MenuType /\ menu'.got = g
    <3> HIDE DEF g
    <3> QED BY <2>1, <2>2 DEF Typed, MenuType
  <2> QED BY <1>3, <2>1, <2>3
<1> QED BY <1>2, <1>4, <1>5, <1>6

\* The end of a click paints what the server said.
LEMMA MenuPaintsStep ==
  ASSUME Typed, TInv, Heard!MenuPaints
  PROVE  TInv'
<1> DEFINE g == menu.got
<1>1. /\ UNCHANGED <<tab, posts, srv, clock, changes>> /\ menu.at = "read"
      /\ tray' = [tray EXCEPT !.priv = g] /\ menu' = Heard!NoMenu
  BY DEF Heard!MenuPaints, Heard!Same, Heard!Repaint
<1>2. Heard!NoMenu \in MenuType /\ Heard!NoMenu.at = "closed"
  BY Sums DEF MenuType, Heard!NoMenu, Heard!Privacy, Heard!Unknown
<1>3. g \in Heard!Privacy \cup {"unknown"} BY TrayFields
<1>4. /\ tray' \in TrayType /\ tray'.priv = g /\ tray'.clap = tray.clap /\ tray'.next = tray.next
      /\ tray'.at = tray.at /\ tray'.gotPriv = tray.gotPriv /\ tray'.gotClap = tray.gotClap
      /\ tray'.age = tray.age
  <2> HIDE DEF g
  <2> QED BY <1>1, <1>3 DEF Typed, TrayType
<1>5. Typed' BY <1>1, <1>2, <1>4 DEF Typed
<1>6. PagesInv' BY <1>1 DEF TInv, PagesInv, PageInv, PostInv, BeatInv
<1>7. ReportInv' BY <1>1 DEF TInv, ReportInv
<1>8. ClapLag' = ClapLag /\ PrivacyLag' = PrivacyLag BY <1>4 DEF ClapLag, PrivacyLag
<1>9. \A l : Truth(l)' <=> Truth(l)
  BY <1>1 DEF Truth, Heard!Open, Heard!AllPages
<1>9a. (Truth(tray.clap) => Truth(tray.clap)') /\ (Truth(tray.gotClap) => Truth(tray.gotClap)')
  BY <1>1, <1>4 DEF Truth, Heard!Open, Heard!AllPages
<1>10. LineInv' BY <1>1, <1>4, <1>8, <1>9a DEF TInv, LineInv, Belief
<1>11. PrivInv'
  <2> SUFFICES ASSUME NEW b \in Heard!Privacy
               PROVE  /\ srv'.up /\ srv'.privacy = b => clock'.priv[b] = 0
                      /\ tray'.at # "rest" /\ tray'.gotPriv = b => clock'.priv[b] <= tray'.age
                      /\ menu'.at = "read" /\ menu'.got = b => clock'.priv[b] <= menu'.age
                      /\ tray'.priv = b => clock'.priv[b] <= PrivacyLag'
    BY DEF PrivInv
  <2>1. clock.priv[b] \in Nat /\ menu.age \in 0..Delay /\ tray.age \in Nat /\ tray.next \in Nat
    BY TrayFields, Sums
  <2>2. PrivacyLag \in Nat /\ Delay <= PrivacyLag BY <2>1, Sums DEF PrivacyLag
  <2>3. g = b => clock.priv[b] <= menu.age BY <1>1 DEF TInv, PrivInv
  <2>4. tray'.priv = b => clock'.priv[b] <= PrivacyLag' BY <1>1, <1>4, <1>8, <2>1, <2>2, <2>3, Sums
  <2> QED BY <1>1, <1>2, <1>4, <2>4 DEF TInv, PrivInv
<1> QED BY <1>5, <1>6, <1>7, <1>10, <1>11 DEF TInv

-----------------------------------------------------------------------------
\* What the server would answer now is the truth once things are settled.
LEMMA AnswerIsTrue ==
  ASSUME Typed, TInv
  PROVE  /\ Heard!TrayLabel \in Heard!Labels
         /\ clock.settled > Belief => Truth(Heard!TrayLabel)
         /\ Heard!TrayLabel = "On" => clock.heard <= Belief
<1>1. Heard!TrayLabel \in Heard!Labels
  BY DEF Heard!TrayLabel, Heard!Labels
<1>2. clock.settled \in Nat /\ clock.heard \in Nat /\ srv.age \in Nat /\ srv.age <= Believed
  BY TrayFields, Sums
<1>3. Heard!TrayLabel = "On" => clock.heard <= Belief
  <2>1. Heard!TrayLabel = "On" => srv.age < Believed /\ srv.rep = "listening"
    BY DEF Heard!TrayLabel, Heard!Resolved
  <2>2. srv.age < Believed /\ srv.rep = "listening" => clock.heard <= Delay + srv.age
    BY DEF TInv, ReportInv
  <2> QED BY <1>2, <2>1, <2>2, Sums
<1>4. ASSUME clock.settled > Belief PROVE Truth(Heard!TrayLabel)
  <2>1. srv.up /\ srv.age < Believed => \E p \in Pages : tab[p].st = srv.rep
    <3>1. srv.age < Believed => srv.age + Delay < clock.settled BY <1>2, <1>4, Sums
    <3> QED BY <3>1 DEF TInv, ReportInv
  <2>2. srv.rep # "gone" BY TrayFields DEF Heard!Listener
  <2>3. ASSUME srv.up, NEW p \in Pages, tab[p].beating PROVE srv.age < Believed
    <3>1. BeatInv(p) BY PageInst DEF TInv
    <3>2. tab[p].beat \in 0..Beat /\ \A m \in posts[p] : m.age \in 0..Delay BY TrayFields
    <3>3. CASE tab[p].beat > Delay
      <4>1. \A m \in posts[p] : m.age # tab[p].beat BY <3>2, <3>3, Sums
      <4>2. clock.settled > tab[p].beat BY <1>2, <1>4, <3>2, Sums
      <4>3. srv.age <= tab[p].beat BY <2>3, <3>1, <4>1, <4>2 DEF BeatInv
      <4> QED BY <1>2, <3>2, <4>3, Sums
    <3>4. CASE tab[p].beat <= Delay
      <4>1. clock.settled > Beat + tab[p].beat BY <1>2, <1>4, <3>2, <3>4, Sums
      <4>2. srv.age <= Beat + tab[p].beat BY <2>3, <3>1, <4>1 DEF BeatInv
      <4> QED BY <1>2, <3>2, <3>4, <4>2, Sums
    <3> QED BY <3>2, <3>3, <3>4, Sums
  <2>4. \A p \in Pages : tab[p].st \in {"listening", "suspended"} => tab[p].beating
    BY DEF TInv, PagesInv, PageInv
  <2>5. ASSUME srv.up, NEW st \in {"listening", "suspended"}, Heard!Open, Heard!AllPages(st)
        PROVE  Heard!Resolved = st
    <3>1. PICK p \in Pages : tab[p].st # "gone" BY <2>5 DEF Heard!Open
    <3>2. tab[p].st = st BY <2>5, <3>1 DEF Heard!AllPages
    <3>3. srv.age < Believed BY <2>3, <2>4, <2>5, <3>2
    <3>4. PICK q \in Pages : tab[q].st = srv.rep BY <2>1, <2>5, <3>3
    <3>5. srv.rep = st BY <2>2, <2>5, <3>4 DEF Heard!AllPages
    <3> QED BY <3>3, <3>5 DEF Heard!Resolved
  <2>6. ASSUME srv.up, ~Heard!Open PROVE Heard!Resolved = "disabled"
    <3>1. ~(srv.age < Believed) BY <2>1, <2>2, <2>6 DEF Heard!Open
    <3> QED BY <3>1 DEF Heard!Resolved
  <2>7. srv.up /\ srv.enabled /\ srv.privacy = "off" =>
          Heard!TrayLabel = (CASE Heard!Resolved = "listening" -> "On"
                            [] Heard!Resolved = "suspended" -> "Paused"
                            [] OTHER -> "Unavailable")
    BY DEF Heard!TrayLabel
  <2>8. srv.up /\ srv.enabled /\ srv.privacy = "off" =>
       /\ ~Heard!Open => Heard!TrayLabel = "Unavailable"
       /\ Heard!Open /\ Heard!AllPages("listening") => Heard!TrayLabel = "On"
       /\ Heard!Open /\ Heard!AllPages("suspended") => Heard!TrayLabel = "Paused"
    BY <2>5, <2>6, <2>7
  <2>9. /\ ~srv.up => Heard!TrayLabel = ""
        /\ srv.up /\ ~srv.enabled => Heard!TrayLabel = "Off"
        /\ srv.up /\ srv.enabled /\ srv.privacy = "on" => Heard!TrayLabel = "Private"
    BY DEF Heard!TrayLabel
  <2> QED BY <2>8, <2>9 DEF Truth
<1> QED BY <1>1, <1>3, <1>4

\* The truth is the same while pages and settings are.
LEMMA TruthStays ==
  ASSUME UNCHANGED <<tab, srv>>, NEW l, NEW k, k = l
  PROVE  Truth(l) => Truth(k)
BY DEF Truth

\* The poll asks, and paints what it was told.
LEMMA PollSteps ==
  ASSUME Typed, TInv,
         Heard!PollAsks \/ Heard!PollPaintsPrivacy \/ Heard!PollPaintsClap
  PROVE  TInv'
<1>0. UNCHANGED <<tab, posts, srv, menu, clock, changes>>
  BY DEF Heard!PollAsks, Heard!PollPaintsPrivacy, Heard!PollPaintsClap, Heard!Same
<1>1. PagesInv' BY <1>0 DEF TInv, PagesInv, PageInv, PostInv, BeatInv
<1>2. ReportInv' BY <1>0 DEF TInv, ReportInv
<1>3. /\ Heard!Open' <=> Heard!Open
      /\ Heard!AllPages("listening")' <=> Heard!AllPages("listening")
      /\ Heard!AllPages("suspended")' <=> Heard!AllPages("suspended")
  BY <1>0 DEF Heard!Open, Heard!AllPages
<1>4. clock.settled \in Nat /\ clock.heard \in Nat /\ tray.age \in 0..Delay /\ tray.next \in 0..Poll
      /\ clock.priv \in [Heard!Privacy -> 0..Heard!Horizon]
  BY TrayFields, Sums
<1>5. CASE Heard!PollAsks
  <2> DEFINE g == IF srv.up THEN srv.privacy ELSE "unknown"
  <2>1. tray' = [tray EXCEPT !.at = "privacy", !.gotPriv = g, !.age = 0]
        /\ tray.at = "rest" /\ tray.next = Poll
    BY <1>5 DEF Heard!PollAsks, Heard!PrivacyActive, Heard!Unknown
  <2>2. g \in Heard!Privacy \cup {"unknown"} /\ 0 \in 0..Delay BY TrayFields, Sums
  <2>3. \A b \in Heard!Privacy : g = b => srv.up /\ srv.privacy = b BY DEF Heard!Privacy
  <2> HIDE DEF g
  <2>4. /\ tray' \in TrayType /\ tray'.at = "privacy" /\ tray'.gotPriv = g /\ tray'.age = 0
        /\ tray'.clap = tray.clap /\ tray'.priv = tray.priv /\ tray'.gotClap = tray.gotClap
    BY <2>1, <2>2 DEF Typed, TrayType
  <2>5. ClapLag' = ClapLag /\ PrivacyLag' = PrivacyLag
    BY <2>1, <2>4, Sums DEF ClapLag, PrivacyLag
  <2>6. LineInv'
    <3>1. Truth(tray.clap) => Truth(tray.clap)' BY <1>0, <1>3, <2>4 DEF Truth
    <3> QED BY <1>0, <2>4, <2>5, <3>1 DEF TInv, LineInv, Belief
  <2>7. PrivInv'
    <3>1. \A b \in Heard!Privacy : g = b => clock.priv[b] <= 0
      BY <1>4, <2>3, Sums DEF TInv, PrivInv
    <3> QED BY <1>0, <2>4, <2>5, <3>1 DEF TInv, PrivInv
  <2> QED BY <1>0, <1>1, <1>2, <2>4, <2>6, <2>7 DEF TInv, Typed
<1>6. CASE Heard!PollPaintsPrivacy
  <2> DEFINE g == tray.gotPriv
             l == Heard!TrayLabel
  <2>1. tray' = [tray EXCEPT !.at = "clap", !.priv = g, !.gotClap = l] /\ tray.at = "privacy"
    BY <1>6 DEF Heard!PollPaintsPrivacy
  <2>2. g \in Heard!Privacy \cup {"unknown"} BY TrayFields
  <2>3. /\ l \in Heard!Labels
        /\ clock.settled > Belief => Truth(l)
        /\ l = "On" => clock.heard <= Belief
    BY AnswerIsTrue
  <2> HIDE DEF l
  <2>4. /\ tray' \in TrayType /\ tray'.at = "clap" /\ tray'.gotClap = l /\ tray'.age = tray.age
        /\ tray'.clap = tray.clap /\ tray'.priv = g
    <3> HIDE DEF g
    <3> QED BY <2>1, <2>2, <2>3 DEF Typed, TrayType
  <2>5. ClapLag' = ClapLag /\ PrivacyLag' = Delay + tray.age
    BY <2>1, <2>4 DEF ClapLag, PrivacyLag
  <2>6. LineInv'
    <3>1. clock.settled > Belief + tray.age => Truth(l) BY <1>4, <2>3, Sums
    <3>2. l = "On" => clock.heard <= Belief + tray.age BY <1>4, <2>3, Sums
    <3>3. Truth(tray.clap) => Truth(tray.clap)' BY <1>0, <1>3, <2>4 DEF Truth
    <3>4. Truth(l) => Truth(tray.gotClap)' BY <1>0, <1>3, <2>4 DEF Truth
    <3> QED BY <1>0, <2>4, <2>5, <3>1, <3>2, <3>3, <3>4 DEF TInv, LineInv, Belief
  <2>7. PrivInv'
    <3>1. ASSUME NEW b \in Heard!Privacy, g = b
          PROVE  clock.priv[b] <= tray.age /\ clock.priv[b] <= Delay + tray.age
      <4>1. clock.priv[b] <= tray.age BY <2>1, <3>1 DEF TInv, PrivInv
      <4> QED BY <1>4, <4>1, Sums
    <3>2. tray'.gotPriv = tray.gotPriv BY <2>1 DEF Typed, TrayType
    <3> QED BY <1>0, <2>4, <2>5, <3>1, <3>2 DEF TInv, PrivInv
  <2> QED BY <1>0, <1>1, <1>2, <2>4, <2>6, <2>7 DEF TInv, Typed
<1>7. CASE Heard!PollPaintsClap
  <2> DEFINE l == tray.gotClap
  <2>1. tray' = [tray EXCEPT !.at = "rest", !.clap = l, !.next = 0, !.gotPriv = "unknown",
                             !.gotClap = ""] /\ tray.at = "clap"
    BY <1>7 DEF Heard!PollPaintsClap, Heard!Unknown
  <2>2. l \in Heard!Labels /\ "" \in Heard!Labels /\ 0 \in 0..Poll
    <3>1. "" \in Heard!Labels BY DEF Heard!Labels
    <3>2. 0 \in 0..Poll BY Sums
    <3>3. tray.gotClap \in Heard!Labels BY TrayFields
    <3> QED BY <3>1, <3>2, <3>3
  <2>3. /\ tray' \in TrayType /\ tray'.at = "rest" /\ tray'.clap = l /\ tray'.next = 0
        /\ tray'.priv = tray.priv
    <3> HIDE DEF l
    <3> QED BY <2>1, <2>2 DEF Typed, TrayType
  <2>4. ClapLag' = Delay /\ PrivacyLag' = 2 * Delay /\ PrivacyLag = Delay + tray.age
    BY <2>1, <2>3, Sums DEF ClapLag, PrivacyLag
  <2>5. LineInv'
    <3>1. clock.settled > Belief + Delay => Truth(l)
      BY <1>4, <2>1, Sums DEF TInv, LineInv
    <3>2. l = "On" => clock.heard <= Belief + Delay
      BY <1>4, <2>1, Sums DEF TInv, LineInv
    <3>3. Truth(l) => Truth(tray.clap)' BY <1>0, <1>3, <2>3 DEF Truth
    <3> QED BY <1>0, <2>3, <2>4, <3>1, <3>2, <3>3 DEF LineInv, Belief
  <2>6. PrivInv'
    <3>1. ASSUME NEW b \in Heard!Privacy, tray.priv = b
          PROVE  clock.priv[b] <= 2 * Delay
      <4>1. clock.priv[b] <= Delay + tray.age BY <2>4, <3>1 DEF TInv, PrivInv
      <4> QED BY <1>4, <4>1, Sums
    <3> QED BY <1>0, <2>3, <2>4, <3>1 DEF TInv, PrivInv
  <2> QED BY <1>0, <1>1, <1>2, <2>3, <2>5, <2>6 DEF TInv, Typed
<1> QED BY <1>5, <1>6, <1>7

-----------------------------------------------------------------------------
\* A tick makes everything a tick older at most, and nothing younger but a page's sound.
LEMMA TickFacts ==
  ASSUME Typed, TInv, Heard!Tick
  PROVE  /\ Typed'
         /\ \A p \in Pages : /\ tab'[p].st = tab[p].st /\ tab'[p].beating = tab[p].beating
                             /\ tab[p].beating => tab'[p].beat = tab[p].beat + 1
         /\ \A p \in Pages : \A m \in posts'[p] :
              \E k \in posts[p] : m.st = k.st /\ m.age = k.age + 1
         /\ \A p \in Pages : \A k \in posts[p] :
              \E m \in posts'[p] : m.st = k.st /\ m.age = k.age + 1
         /\ UNCHANGED <<srv.up, srv.enabled, srv.privacy, srv.rep>>
         /\ srv'.age = IF srv.age < Believed THEN srv.age + 1 ELSE srv.age
         /\ UNCHANGED <<tray.clap, tray.priv, tray.at, tray.gotPriv, tray.gotClap>>
         /\ tray.at = "rest" => tray'.next = tray.next + 1
         /\ tray.at # "rest" => tray'.age = tray.age + 1
         /\ UNCHANGED <<menu.at, menu.got>>
         /\ menu.at = "read" => menu'.age = menu.age + 1
         /\ clock'.heard = IF \E p \in Pages : tab[p].st = "listening" THEN 0
                           ELSE Heard!Older(clock.heard)
         /\ clock'.settled = Heard!Older(clock.settled)
         /\ \A b \in Heard!Privacy :
              clock'.priv[b] = IF srv.up /\ srv.privacy = b THEN 0 ELSE Heard!Older(clock.priv[b])
<1>1. \A a \in 0..Heard!Horizon : Heard!Older(a) \in 0..Heard!Horizon
  BY Sums DEF Heard!Older
<1>2. /\ tab' \in [Pages -> PageType]
      /\ \A p \in Pages : /\ tab'[p].st = tab[p].st /\ tab'[p].beating = tab[p].beating
                          /\ tab[p].beating => tab'[p].beat = tab[p].beat + 1
  <2>1. ASSUME NEW p \in Pages
        PROVE  /\ tab'[p] \in PageType
               /\ tab'[p].st = tab[p].st /\ tab'[p].beating = tab[p].beating
               /\ tab[p].beating => tab'[p].beat = tab[p].beat + 1
    <3> DEFINE n == tab[p].beat + 1
    <3>1. tab[p] \in PageType /\ tab[p].beat \in 0..Beat BY TrayFields
    <3>2. tab'[p] = IF tab[p].beating THEN [tab[p] EXCEPT !.beat = n] ELSE tab[p]
      BY DEF Heard!Tick
    <3>3. CASE tab[p].beating
      <4>1. tab[p].beat < Beat BY <3>3 DEF Heard!Tick
      <4>2. n \in 0..Beat BY <3>1, <4>1, Sums
      <4> HIDE DEF n
      <4>3. tab'[p] \in PageType /\ tab'[p].st = tab[p].st /\ tab'[p].beating = tab[p].beating
            /\ tab'[p].beat = n
        BY <3>1, <3>2, <3>3, <4>2 DEF PageType
      <4> QED BY <4>3 DEF n
    <3>4. CASE ~tab[p].beating BY <3>1, <3>2, <3>4
    <3> QED BY <3>3, <3>4
  <2>2. tab' = [p \in Pages |-> tab'[p]] BY DEF Heard!Tick
  <2> QED BY <2>1, <2>2
<1>3. /\ posts' \in [Pages -> SUBSET PostType]
      /\ \A p \in Pages : \A m \in posts'[p] :
           \E k \in posts[p] : m.st = k.st /\ m.age = k.age + 1
      /\ \A p \in Pages : \A k \in posts[p] :
           \E m \in posts'[p] : m.st = k.st /\ m.age = k.age + 1
  <2>1. ASSUME NEW p \in Pages, NEW k \in posts[p]
        PROVE  LET m == [k EXCEPT !.age = k.age + 1]
               IN  m \in PostType /\ m.st = k.st /\ m.age = k.age + 1
    <3> DEFINE n == k.age + 1
    <3>1. k \in PostType /\ k.age \in 0..Delay BY TrayFields
    <3>2. k.age < Delay BY DEF Heard!Tick
    <3>3. n \in 0..Delay BY <3>1, <3>2, Sums
    <3> HIDE DEF n
    <3>4. [k EXCEPT !.age = n] \in PostType /\ [k EXCEPT !.age = n].st = k.st
          /\ [k EXCEPT !.age = n].age = n
      BY <3>1, <3>3 DEF PostType
    <3> QED BY <3>4 DEF n
  <2>2. \A p \in Pages : posts'[p] = {[k EXCEPT !.age = k.age + 1] : k \in posts[p]}
    BY DEF Heard!Tick
  <2>3. posts' = [p \in Pages |-> posts'[p]] BY DEF Heard!Tick
  <2>4. \A p \in Pages : posts'[p] \subseteq PostType BY <2>1, <2>2
  <2>5. posts' \in [Pages -> SUBSET PostType] BY <2>3, <2>4
  <2>6. ASSUME NEW p \in Pages, NEW m \in posts'[p]
        PROVE  \E k \in posts[p] : m.st = k.st /\ m.age = k.age + 1
    <3>1. PICK k \in posts[p] : m = [k EXCEPT !.age = k.age + 1] BY <2>2
    <3> QED BY <2>1, <3>1
  <2>7. ASSUME NEW p \in Pages, NEW k \in posts[p]
        PROVE  \E m \in posts'[p] : m.st = k.st /\ m.age = k.age + 1
    <3>1. [k EXCEPT !.age = k.age + 1] \in posts'[p] BY <2>2
    <3> QED BY <2>1, <3>1
  <2> QED BY <2>5, <2>6, <2>7
<1>4. /\ srv' \in SrvType
      /\ UNCHANGED <<srv.up, srv.enabled, srv.privacy, srv.rep>>
      /\ srv'.age = IF srv.age < Believed THEN srv.age + 1 ELSE srv.age
  <2> DEFINE n == srv.age + 1
  <2>1. srv \in SrvType /\ srv.age \in 0..Believed BY TrayFields DEF Typed
  <2>2. srv' = IF srv.age < Believed THEN [srv EXCEPT !.age = n] ELSE srv BY DEF Heard!Tick
  <2>3. CASE srv.age < Believed
    <3>1. n \in 0..Believed BY <2>1, <2>3, Sums
    <3> HIDE DEF n
    <3>2. /\ srv' \in SrvType /\ UNCHANGED <<srv.up, srv.enabled, srv.privacy, srv.rep>>
          /\ srv'.age = n
      BY <2>1, <2>2, <2>3, <3>1 DEF SrvType
    <3> QED BY <2>3, <3>2 DEF n
  <2>4. CASE ~(srv.age < Believed) BY <2>1, <2>2, <2>4
  <2> QED BY <2>3, <2>4
<1>5. /\ tray' \in TrayType
      /\ UNCHANGED <<tray.clap, tray.priv, tray.at, tray.gotPriv, tray.gotClap>>
      /\ tray.at = "rest" => tray'.next = tray.next + 1
      /\ tray.at # "rest" => tray'.age = tray.age + 1
  <2> DEFINE n == tray.next + 1
             g == tray.age + 1
  <2>1. tray \in TrayType /\ tray.next \in 0..Poll /\ tray.age \in 0..Delay BY TrayFields DEF Typed
  <2>2. tray' = IF tray.at = "rest" THEN [tray EXCEPT !.next = n] ELSE [tray EXCEPT !.age = g]
    BY DEF Heard!Tick
  <2>3. CASE tray.at = "rest"
    <3>1. tray.next < Poll BY <2>3 DEF Heard!Tick
    <3>2. n \in 0..Poll BY <2>1, <3>1, Sums
    <3> HIDE DEF n
    <3>3. /\ tray' \in TrayType /\ tray'.next = n
          /\ UNCHANGED <<tray.clap, tray.priv, tray.at, tray.gotPriv, tray.gotClap>>
      BY <2>1, <2>2, <2>3, <3>2 DEF TrayType
    <3> QED BY <2>3, <3>3 DEF n
  <2>4. CASE tray.at # "rest"
    <3>1. tray.age < Delay BY <2>4 DEF Heard!Tick
    <3>2. g \in 0..Delay BY <2>1, <3>1, Sums
    <3> HIDE DEF g
    <3>3. /\ tray' \in TrayType /\ tray'.age = g
          /\ UNCHANGED <<tray.clap, tray.priv, tray.at, tray.gotPriv, tray.gotClap>>
      BY <2>1, <2>2, <2>4, <3>2 DEF TrayType
    <3> QED BY <2>4, <3>3 DEF g
  <2> QED BY <2>3, <2>4
<1>6. /\ menu' \in MenuType /\ UNCHANGED <<menu.at, menu.got>>
      /\ menu.at = "read" => menu'.age = menu.age + 1
  <2> DEFINE g == menu.age + 1
  <2>1. menu \in MenuType /\ menu.age \in 0..Delay BY TrayFields DEF Typed
  <2>2. menu' = IF menu.at \in Heard!Waiting THEN [menu EXCEPT !.age = g] ELSE menu
    BY DEF Heard!Tick
  <2>3. CASE menu.at \in Heard!Waiting
    <3>1. menu.age < Delay BY <2>3 DEF Heard!Tick
    <3>2. g \in 0..Delay BY <2>1, <3>1, Sums
    <3> HIDE DEF g
    <3>3. menu' \in MenuType /\ menu'.age = g /\ UNCHANGED <<menu.at, menu.got>>
      BY <2>1, <2>2, <2>3, <3>2 DEF MenuType
    <3> QED BY <3>3 DEF g
  <2>4. CASE menu.at \notin Heard!Waiting BY <2>1, <2>2, <2>4 DEF Heard!Waiting
  <2> QED BY <2>3, <2>4
<1>7. /\ clock' \in ClockType
      /\ clock'.heard = IF \E p \in Pages : tab[p].st = "listening" THEN 0
                        ELSE Heard!Older(clock.heard)
      /\ clock'.settled = Heard!Older(clock.settled)
      /\ \A b \in Heard!Privacy :
           clock'.priv[b] = IF srv.up /\ srv.privacy = b THEN 0 ELSE Heard!Older(clock.priv[b])
  <2> DEFINE h == IF \E p \in Pages : tab[p].st = "listening" THEN 0 ELSE Heard!Older(clock.heard)
             s == Heard!Older(clock.settled)
             f == [b \in Heard!Privacy |-> IF srv.up /\ srv.privacy = b THEN 0
                                           ELSE Heard!Older(clock.priv[b])]
  <2>1. clock' = [clock EXCEPT !.heard = h, !.settled = s, !.priv = f] BY DEF Heard!Tick
  <2>2. /\ clock \in ClockType /\ clock.heard \in 0..Heard!Horizon
        /\ clock.settled \in 0..Heard!Horizon
        /\ \A b \in Heard!Privacy : clock.priv[b] \in 0..Heard!Horizon
    BY TrayFields DEF Typed
  <2>3. 0 \in 0..Heard!Horizon BY Sums
  <2>4. h \in 0..Heard!Horizon BY <1>1, <2>2, <2>3
  <2>5. s \in 0..Heard!Horizon BY <1>1, <2>2
  <2>6. f \in [Heard!Privacy -> 0..Heard!Horizon] BY <1>1, <2>2, <2>3
  <2>7. \A b \in Heard!Privacy :
          f[b] = IF srv.up /\ srv.privacy = b THEN 0 ELSE Heard!Older(clock.priv[b])
    OBVIOUS
  <2> HIDE DEF h, s, f
  <2>8. clock' \in ClockType /\ clock'.heard = h /\ clock'.settled = s /\ clock'.priv = f
    BY <2>1, <2>2, <2>4, <2>5, <2>6 DEF ClockType
  <2> QED BY <2>7, <2>8 DEF h, s
<1>8. changes' = changes BY DEF Heard!Tick
<1>9. Typed' BY <1>2, <1>3, <1>4, <1>5, <1>6, <1>7, <1>8 DEF Typed
<1> QED BY <1>2, <1>3, <1>4, <1>5, <1>6, <1>7, <1>9

\* An age grows by one, up to the horizon.
LEMMA OlderIs ==
  ASSUME NEW a \in 0..Heard!Horizon
  PROVE  /\ Heard!Older(a) \in Nat /\ a <= Heard!Older(a) /\ Heard!Older(a) <= a + 1
         /\ a < Heard!Horizon => Heard!Older(a) = a + 1
         /\ a = Heard!Horizon => Heard!Older(a) = a
BY Sums DEF Heard!Older

\* A tick keeps the invariant: every lag grows with the ages it bounds.
LEMMA TickStep ==
  ASSUME Typed, TInv, Heard!Tick
  PROVE  TInv'
<1>1. Typed' BY TickFacts
<1>2. /\ clock.heard \in 0..Heard!Horizon /\ clock.settled \in 0..Heard!Horizon
      /\ clock'.heard \in Nat /\ clock'.heard <= clock.heard + 1
      /\ clock'.settled \in Nat
      /\ clock'.settled = clock.settled + 1 \/ (clock.settled = Heard!Horizon /\ clock'.settled = clock.settled)
  BY TickFacts, OlderIs, TrayFields, Sums
<1>3. ASSUME NEW x \in Nat, x < Heard!Horizon, clock'.settled > x + 1
      PROVE  clock.settled > x
  BY <1>2, <1>3, Sums
<1>4. /\ srv.age \in 0..Believed
      /\ srv'.age = srv.age + 1 \/ (srv.age = Believed /\ srv'.age = srv.age)
      /\ srv.age = Believed => srv'.age = srv.age
      /\ UNCHANGED <<srv.up, srv.enabled, srv.privacy, srv.rep>>
  BY TickFacts, TrayFields, Sums
<1>5. \A p \in Pages : tab'[p].st = tab[p].st /\ tab'[p].beating = tab[p].beating
  BY TickFacts
<1>6. PagesInv'
  <2> SUFFICES ASSUME NEW p \in Pages PROVE PageInv(p)' /\ PostInv(p)' /\ BeatInv(p)'
    BY DEF PagesInv
  <2>1. PageInv(p) /\ PostInv(p) /\ BeatInv(p) BY PageInst DEF TInv
  <2>2. PageInv(p)'
    <3>1. tab[p].st = "listening" => clock'.heard = 0 BY TickFacts
    <3> QED BY <1>5, <2>1, <3>1 DEF PageInv
  <2>3. PostInv(p)'
    <3>1. ASSUME NEW m \in posts'[p]
          PROVE  /\ m.age < clock'.settled => tab'[p].st = m.st
                 /\ m.st = "listening" => clock'.heard <= m.age
      <4>1. PICK k \in posts[p] : m.st = k.st /\ m.age = k.age + 1 BY TickFacts
      <4>2. k.age \in 0..Delay BY TrayFields
      <4>3. k.age \in Nat /\ k.age < Heard!Horizon BY <4>2, Sums
      <4>4. m.age < clock'.settled => k.age < clock.settled BY <1>2, <4>1, <4>3, Sums
      <4>5. m.age < clock'.settled => tab'[p].st = m.st
        BY <1>5, <2>1, <4>1, <4>4 DEF PostInv
      <4>6. m.st = "listening" => clock'.heard <= m.age
        <5>1. k.st = "listening" => clock.heard <= k.age BY <2>1 DEF PostInv
        <5>2. clock.heard \in Nat BY <1>2, Sums
        <5> QED BY <1>2, <4>1, <4>3, <5>1, <5>2, Sums
      <4> QED BY <4>5, <4>6
    <3> QED BY <3>1 DEF PostInv
  <2>4. BeatInv(p)'
    <3> SUFFICES ASSUME srv.up, tab[p].beating
                 PROVE  /\ clock'.settled > tab'[p].beat =>
                             srv'.age <= tab'[p].beat \/ \E m \in posts'[p] : m.age = tab'[p].beat
                        /\ clock'.settled > Beat + tab'[p].beat => srv'.age <= Beat + tab'[p].beat
      BY <1>4, <1>5 DEF BeatInv
    <3>1. tab'[p].beat = tab[p].beat + 1 BY TickFacts
    <3>2. tab[p].beat \in 0..Beat BY TrayFields
    <3>3. clock'.settled > tab'[p].beat => clock.settled > tab[p].beat
      BY <1>2, <3>1, <3>2, Sums
    <3>3a. tab[p].beat < Beat BY DEF Heard!Tick
    <3>4. clock'.settled > Beat + tab'[p].beat => clock.settled > Beat + tab[p].beat \/ clock.settled = Heard!Horizon
      BY <1>2, <3>1, <3>2, Sums
    <3>5. clock.settled = Heard!Horizon /\ clock'.settled = clock.settled
             /\ clock'.settled > Beat + tab'[p].beat => clock.settled > Beat + tab[p].beat
      BY <1>2, <3>1, <3>2, Sums
    <3>6. clock'.settled > Beat + tab'[p].beat => srv'.age <= Beat + tab'[p].beat
      BY <1>2, <1>4, <2>1, <3>1, <3>2, <3>4, <3>5, Sums DEF BeatInv
    <3>7. ASSUME clock'.settled > tab'[p].beat
          PROVE  srv'.age <= tab'[p].beat \/ \E m \in posts'[p] : m.age = tab'[p].beat
      <4>1. srv.age <= tab[p].beat \/ \E m \in posts[p] : m.age = tab[p].beat
        BY <2>1, <3>3, <3>7 DEF BeatInv
      <4>2. CASE srv.age <= tab[p].beat BY <1>4, <3>1, <3>2, <4>2, Sums
      <4>3. CASE \E m \in posts[p] : m.age = tab[p].beat
        <5>1. PICK k \in posts[p] : k.age = tab[p].beat BY <4>3
        <5>2. PICK m \in posts'[p] : m.age = k.age + 1 BY TickFacts
        <5> QED BY <3>1, <5>1, <5>2
      <4> QED BY <4>1, <4>2, <4>3
    <3> QED BY <3>6, <3>7
  <2> QED BY <2>2, <2>3, <2>4
<1>7. ReportInv'
  <2>1. ASSUME srv'.up, srv'.age < Believed, srv'.age + Delay < clock'.settled
        PROVE  \E p \in Pages : tab'[p].st = srv'.rep
    <3>1. srv.up /\ srv.age < Believed /\ srv.age + Delay < clock.settled
      BY <1>2, <1>4, <2>1, Sums
    <3> QED BY <1>4, <1>5, <3>1 DEF TInv, ReportInv
  <2>2. ASSUME srv'.age < Believed, srv'.rep = "listening"
        PROVE  clock'.heard <= Delay + srv'.age
    <3>1. srv.age < Believed /\ srv.rep = "listening" /\ srv'.age = srv.age + 1
      BY <1>4, <2>2, Sums
    <3>2. clock.heard <= Delay + srv.age BY <3>1 DEF TInv, ReportInv
    <3> QED BY <1>2, <1>4, <3>1, <3>2, Sums
  <2>3. ~srv'.up => srv'.age = Believed /\ srv'.privacy = "off"
    BY <1>4, Sums DEF TInv, ReportInv
  <2> QED BY <2>1, <2>2, <2>3 DEF ReportInv
<1>8. /\ UNCHANGED <<tray.clap, tray.priv, tray.at, tray.gotPriv, tray.gotClap>>
      /\ tray.next \in 0..Poll /\ tray.age \in 0..Delay /\ tray.at \in {"rest", "privacy", "clap"}
      /\ tray.at = "rest" => tray'.next = tray.next + 1
      /\ tray.at # "rest" => tray'.age = tray.age + 1
  BY TickFacts, TrayFields
<1>9. /\ ClapLag \in Nat /\ ClapLag' = ClapLag + 1 /\ ClapLag <= 2 * Delay + Poll
      /\ PrivacyLag \in Nat /\ PrivacyLag' = PrivacyLag + 1
  BY <1>8, Sums DEF ClapLag, PrivacyLag
<1>10. LineInv'
  <2>1. /\ Heard!Open' <=> Heard!Open
        /\ Heard!AllPages("listening")' <=> Heard!AllPages("listening")
        /\ Heard!AllPages("suspended")' <=> Heard!AllPages("suspended")
    BY <1>5 DEF Heard!Open, Heard!AllPages
  <2>2. (Truth(tray.clap) => Truth(tray.clap)') /\ (Truth(tray.gotClap) => Truth(tray.gotClap)')
    BY <1>4, <1>8, <2>1 DEF Truth
  <2>3. clock'.settled > Belief + ClapLag' => clock.settled > Belief + ClapLag
    BY <1>2, <1>9, Sums
  <2>4. tray.at = "clap" /\ clock'.settled > Belief + tray'.age => clock.settled > Belief + tray.age
    BY <1>2, <1>8, Sums
  <2>5. tray.clap = "On" => clock'.heard <= Belief + ClapLag'
    BY <1>2, <1>9, Sums DEF TInv, LineInv
  <2>6. tray.at = "clap" /\ tray.gotClap = "On" => clock'.heard <= Belief + tray'.age
    BY <1>2, <1>8, Sums DEF TInv, LineInv
  <2>7. Belief' = Belief BY DEF Belief
  <2> QED BY <1>8, <2>2, <2>3, <2>4, <2>5, <2>6, <2>7 DEF TInv, LineInv
<1>11. PrivInv'
  <2> SUFFICES ASSUME NEW b \in Heard!Privacy
               PROVE  /\ srv'.up /\ srv'.privacy = b => clock'.priv[b] = 0
                      /\ tray'.at # "rest" /\ tray'.gotPriv = b => clock'.priv[b] <= tray'.age
                      /\ menu'.at = "read" /\ menu'.got = b => clock'.priv[b] <= menu'.age
                      /\ tray'.priv = b => clock'.priv[b] <= PrivacyLag'
    BY DEF PrivInv
  <2>1. clock.priv[b] \in 0..Heard!Horizon /\ menu.age \in 0..Delay BY TrayFields
  <2>2. clock'.priv[b] \in Nat /\ clock'.priv[b] <= clock.priv[b] + 1
    BY <2>1, TickFacts, OlderIs, Sums
  <2>3. srv'.up /\ srv'.privacy = b => clock'.priv[b] = 0 BY <1>4, TickFacts
  <2>4. tray'.at # "rest" /\ tray'.gotPriv = b => clock'.priv[b] <= tray'.age
    BY <1>8, <2>1, <2>2, Sums DEF TInv, PrivInv
  <2>5. menu'.at = menu.at /\ menu'.got = menu.got /\ (menu.at = "read" => menu'.age = menu.age + 1)
    BY TickFacts
  <2>6. menu'.at = "read" /\ menu'.got = b => clock'.priv[b] <= menu'.age
    BY <2>1, <2>2, <2>5, Sums DEF TInv, PrivInv
  <2>7. tray'.priv = b => clock'.priv[b] <= PrivacyLag'
    BY <1>8, <1>9, <2>1, <2>2, Sums DEF TInv, PrivInv
  <2> QED BY <2>3, <2>4, <2>6, <2>7
<1> QED BY <1>1, <1>6, <1>7, <1>10, <1>11 DEF TInv

-----------------------------------------------------------------------------
\* At the start nothing is settled.
LEMMA TrayInit == Heard!Init => TInv
<1> SUFFICES ASSUME Heard!Init PROVE TInv OBVIOUS
<1>1. /\ srv.up /\ srv.enabled /\ srv.privacy = "off" /\ srv.age = Believed
      /\ tray.clap = "" /\ tray.priv = "unknown" /\ tray.next = Poll /\ tray.at = "rest"
      /\ menu.at = "closed" /\ clock.settled = 0
  BY DEF Heard!Init, Heard!Unknown, Heard!NoMenu
<1>1a. \A p \in Pages : tab[p].st = "gone" /\ ~tab[p].beating /\ posts[p] = {}
  BY DEF Heard!Init
<1>1b. clock.priv = [b \in Heard!Privacy |-> IF b = "off" THEN 0 ELSE Heard!Horizon]
  BY DEF Heard!Init
<1>2. Typed
  <2>1. 0 \in 0..Beat /\ 0 \in 0..Delay /\ Poll \in 0..Poll /\ 0 \in 0..Heard!Horizon
        /\ Heard!Horizon \in 0..Heard!Horizon /\ Believed \in 0..Believed /\ 0 \in 0..MaxChanges
    BY Sums
  <2>2. tab \in [Pages -> PageType] BY <2>1 DEF Heard!Init, PageType
  <2>3. posts \in [Pages -> SUBSET PostType] BY DEF Heard!Init
  <2>4. srv \in SrvType BY <2>1 DEF Heard!Init, SrvType, Heard!Privacy, Heard!Listener
  <2>5. tray \in TrayType BY <2>1 DEF Heard!Init, TrayType, Heard!Labels, Heard!Unknown
  <2>6. menu \in MenuType BY <2>1 DEF Heard!Init, MenuType, Heard!NoMenu, Heard!Privacy, Heard!Unknown
  <2>7. clock \in ClockType BY <2>1 DEF Heard!Init, ClockType
  <2>8. changes \in 0..MaxChanges BY <2>1 DEF Heard!Init
  <2> QED BY <2>2, <2>3, <2>4, <2>5, <2>6, <2>7, <2>8 DEF Typed
<1>2a. ClapLag \in Nat /\ tray.age \in Nat BY <1>2, TrayFields, Sums DEF ClapLag
<1>3. PagesInv
  <2>1. ASSUME NEW p \in Pages PROVE PageInv(p) /\ PostInv(p) /\ BeatInv(p)
    <3>1. tab[p].st = "gone" /\ ~tab[p].beating /\ posts[p] = {} BY <1>1a
    <3> QED BY <3>1 DEF PageInv, PostInv, BeatInv
  <2> QED BY <2>1 DEF PagesInv
<1>4. ReportInv
  <2>1. srv.up BY <1>1
  <2>2. Believed \in Nat /\ srv.age = Believed BY <1>1, Sums
  <2>3. ~(srv.age < Believed) BY <2>2
  <2> QED BY <2>1, <2>3 DEF ReportInv
<1>5. LineInv
  <2>1. ~(0 > Belief + ClapLag) BY <1>2a, Sums
  <2> QED BY <1>1, <2>1 DEF LineInv
<1>6. PrivInv
  <2>1. clock.priv["off"] = 0 BY <1>1b DEF Heard!Privacy
  <2> QED BY <1>1, <2>1 DEF PrivInv, Heard!Privacy
<1> QED BY <1>2, <1>3, <1>4, <1>5, <1>6 DEF TInv

\* Every step keeps the invariant.
LEMMA TrayNext == TInv /\ [Heard!Next]_(Heard!vars) => TInv'
<1> SUFFICES ASSUME TInv, [Heard!Next]_(Heard!vars) PROVE TInv' OBVIOUS
<1>0. Typed BY DEF TInv
<1>1. CASE UNCHANGED Heard!vars
  <2>1. UNCHANGED <<tab, posts, srv, tray, menu, clock, changes>> BY <1>1 DEF Heard!vars
  <2>2. Typed' BY <2>1 DEF TInv, Typed
  <2>3. PagesInv' BY <2>1 DEF TInv, PagesInv, PageInv, PostInv, BeatInv
  <2>4. ReportInv' BY <2>1 DEF TInv, ReportInv
  <2>5. LineInv' BY <2>1, SameLine DEF TInv
  <2>6. PrivInv' BY <2>1 DEF TInv, PrivInv, PrivacyLag
  <2> QED BY <2>2, <2>3, <2>4, <2>5, <2>6 DEF TInv
<1>2. CASE Heard!Next
  <2>1. ASSUME NEW p \in Pages,
               Heard!PageOpens(p) \/ Heard!PageBeats(p) \/ Heard!PageGoes(p)
        PROVE  TInv'
    BY <1>0, <2>1, PageOpensStep, PageBeatsStep, PageGoesStep
  <2>2. ASSUME NEW p \in Pages, NEW st \in Heard!Listener, Heard!PageTurns(p, st) PROVE TInv'
    BY <1>0, <2>2, PageTurnsStep
  <2>3. ASSUME NEW p \in Pages, NEW m \in posts[p],
               Heard!ReportArrives(p, m) \/ Heard!ReportLost(p, m)
        PROVE  TInv'
    BY <1>0, <2>3, ReportArrivesStep, ReportLostStep
  <2>4. CASE Heard!SetEnabled \/ Heard!SetPrivacy \/ Heard!ServerGoes \/ Heard!ServerComes
    BY <1>0, <2>4, ServerSteps
  <2>5. CASE Heard!PollAsks \/ Heard!PollPaintsPrivacy \/ Heard!PollPaintsClap
    BY <1>0, <2>5, PollSteps
  <2>6. CASE Heard!MenuOpens \/ Heard!MenuCloses \/ Heard!MenuClicks \/ Heard!MenuReads
    BY <1>0, <2>6, MenuStepsAlone
  <2>7. CASE Heard!MenuSets BY <1>0, <2>7, MenuSetsStep
  <2>8. CASE Heard!MenuPaints BY <1>0, <2>8, MenuPaintsStep
  <2>9. CASE Heard!Tick BY <1>0, <2>9, TickStep
  <2> QED BY <1>2, <2>1, <2>2, <2>3, <2>4, <2>5, <2>6, <2>7, <2>8, <2>9 DEF Heard!Next
<1> QED BY <1>1, <1>2

\* The lines are behind by a round of the poll at most.
LEMMA TInvIsHonest == TInv => TrayIsHonest
<1> SUFFICES ASSUME TInv PROVE TrayIsHonest OBVIOUS
<1>0. Typed BY DEF TInv
<1>1. /\ tray.next \in 0..Poll /\ tray.age \in 0..Delay /\ tray.at \in {"rest", "privacy", "clap"}
      /\ clock.heard \in Nat /\ clock.settled \in Nat
      /\ \A b \in Heard!Privacy : clock.priv[b] \in Nat
  BY <1>0, TrayFields, Sums
<1>2. ClapLag \in Nat /\ ClapLag <= Heard!Round /\ PrivacyLag \in Nat /\ PrivacyLag <= Heard!Round
  BY <1>1, Sums DEF ClapLag, PrivacyLag
<1>3. Heard!OnWasHeard BY <1>1, <1>2, Sums DEF TInv, LineInv, Heard!OnWasHeard
<1>4. Heard!LineCatchesUp
  <2>1. clock.settled > Heard!Behind => Truth(tray.clap)
    BY <1>1, <1>2, Sums DEF TInv, LineInv
  <2> QED BY <2>1 DEF Heard!LineCatchesUp, Truth
<1>5. Heard!PrivacyLineIsFresh BY <1>1, <1>2, Sums DEF TInv, PrivInv, Heard!PrivacyLineIsFresh
<1> QED BY <1>3, <1>4, <1>5 DEF TrayIsHonest, Heard!TrayIsHonest

\* The bookkeeping of the tray, for any number of pages and any timers with a request
\* quicker than a heartbeat and a report believed for longer than both (clap.py, tray.py).
THEOREM TrayBookkeeping == Heard!Spec => []TInv
BY TrayInit, TrayNext, PTL DEF Heard!Spec

\* The type invariant of the tray.
THEOREM TrayTypes == Heard!Spec => []Heard!TypeOK
<1>1. TInv => Heard!TypeOK BY TypedIsTypeOK DEF TInv
<1> QED BY <1>1, TrayBookkeeping, PTL

\* The tray says "On" only of a listener that was heard in time, its line is the truth once
\* nothing has changed for as long, and the privacy line is a round of the poll old at most.
THEOREM TrayStaysHonest == Heard!Spec => []TrayIsHonest
BY TrayBookkeeping, TInvIsHonest, PTL

-----------------------------------------------------------------------------
(* Together. *)

\* A behaviour of the four parts is a behaviour of each.
LEMMA Parts == VoiceSpec => Spec /\ Mic!Spec /\ Cloud!Spec /\ Heard!Spec
<1>1. VoiceInit => Init /\ Mic!Init /\ Cloud!Init /\ Heard!Init BY DEF VoiceInit
<1>2. [VoiceNext]_<<part, vars, micVars, cloudVars, trayVars>> =>
        /\ [Next]_vars /\ [Mic!Next]_(Mic!vars)
        /\ [Cloud!Next]_(Cloud!vars) /\ [Heard!Next]_(Heard!vars)
  <2>1. UNCHANGED micVars => UNCHANGED Mic!vars BY DEF micVars, Mic!vars
  <2>2. UNCHANGED cloudVars => UNCHANGED Cloud!vars BY DEF cloudVars, Cloud!vars
  <2>3. UNCHANGED trayVars => UNCHANGED Heard!vars BY DEF trayVars, Heard!vars
  <2> QED BY <2>1, <2>2, <2>3 DEF VoiceNext
<1> QED BY <1>1, <1>2, PTL DEF VoiceSpec, Spec, Mic!Spec, Cloud!Spec, Heard!Spec

\* What the run checks on a small instance, for every value of the constants.
THEOREM TheVoiceSideIsHonest ==
  VoiceSpec => /\ []SilenceIsKept /\ []MicrophoneIsHonest
               /\ []SettingsAreHonest /\ []TrayIsHonest
               /\ EachWriteIsItsOwn
BY Parts, StoppedIsSilent, MicrophoneStaysHonest, SettingsStayHonest, TrayStaysHonest,
   WritesAreTheirOwn, PTL
=============================================================================
