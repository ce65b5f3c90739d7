------------------------------ MODULE Playback ------------------------------
(***************************************************************************)
(* Spoken replies (app/voice): requests to speak, each in a thread of its  *)
(* own, the engines that make the sound for them, the one player that owns *)
(* playback, its worker threads, and Stop and privacy mode, which may come *)
(* at any moment.                                                          *)
(*                                                                         *)
(* begin_utterance() gives every utterance a cancellation token of its     *)
(* own.  The token is what Stop sets, what a delayed answer of a cloud     *)
(* voice is checked against, and what the worker looks at between two      *)
(* sentences.  A token here is an index of `token`; its worker, if it ever *)
(* gets one, is part of the same record.                                   *)
(***************************************************************************)
EXTENDS Integers, Sequences

CONSTANTS
  Requests,   \* calls that ask for speech: a reply, a button, a tool, a greeting
  Sentences,  \* bound: sentences the neural voice makes of one text
  MaxPresses  \* bound: Stop, and privacy mode switched on or off

ASSUME PlaybackAssumption ==
  /\ Sentences \in Nat \ {0}
  /\ MaxPresses \in Nat

VARIABLES
  pc,       \* where the thread of each request is
  engine,   \* the voice it speaks with
  tok,      \* the token it has reserved, or 0
  token,    \* the tokens made so far, each with its worker
  cur,      \* Player._cancel
  thread,   \* Player._thread: the token whose worker it is, or 0
  playing,  \* PlaybackState.playing
  classic,  \* the worker of the classic voice for each request
  flag,     \* sapi5._speaking
  built,    \* sapi5._engine exists
  privacy,  \* privacy_mode.active
  presses,
  hushed,   \* requests that were under way when Stop was pressed (history)
  exposed   \* requests to a cloud voice that privacy mode met (history)

vars == <<pc, engine, tok, token, cur, thread, playing, classic, flag, built,
          privacy, presses, hushed, exposed>>

player == <<token, cur, thread, playing>>
sapi   == <<classic, flag, built>>
rules  == <<privacy, presses, hushed, exposed>>

Local   == {"kokoro", "windows", "sapi5"}
Engines == Local \cup {"cloud"}
Places  == {"idle", "begin", "wait", "reserved", "asking", "sending", "sent",
            "refused", "bytes", "synth", "start", "launch", "classic", "done"}
Runs    == {"none", "next", "have", "about", "sounding", "ended"}
Token   == [set : BOOLEAN, run : Runs, left : 0..Sentences,
            tail : 0..2, late : BOOLEAN, leak : BOOLEAN, own : Requests]

TypeOK ==
  /\ pc \in [Requests -> Places]
  /\ engine \in [Requests -> Engines]
  /\ token \in Seq(Token)
  /\ tok \in [Requests -> 0..Len(token)]
  /\ cur \in 0..Len(token) /\ thread \in 0..Len(token)
  /\ playing \in BOOLEAN /\ flag \in BOOLEAN /\ built \in BOOLEAN /\ privacy \in BOOLEAN
  /\ classic \in [Requests -> {"none", "starting", "sounding", "ended"}]
  /\ presses \in 0..MaxPresses
  /\ hushed \subseteq Requests /\ exposed \subseteq Requests

\* No utterance yet: token 0 is the event the player was made with.
Init ==
  /\ pc = [r \in Requests |-> "idle"]
  /\ engine = [r \in Requests |-> "kokoro"]
  /\ tok = [r \in Requests |-> 0]
  /\ token = <<>> /\ cur = 0 /\ thread = 0 /\ playing = FALSE
  /\ classic = [r \in Requests |-> "none"] /\ flag = FALSE /\ built = FALSE
  /\ privacy = FALSE /\ presses = 0
  /\ hushed = {} /\ exposed = {}

-----------------------------------------------------------------------------
(* The player. *)

Go(r, place) == pc' = [pc EXCEPT ![r] = place]

\* is_current(): the token still owns the right to start playback.
Current(t) == t = cur /\ ~token[t].set

\* stop(): the current token is set, and the sound that is leaving the speakers is
\* cut, whoever's it is; its worker goes on to the next sentence.
Stopped ==
  [t \in DOMAIN token |->
     [token[t] EXCEPT !.set = token[t].set \/ t = cur,
                      !.run = IF token[t].run = "sounding" THEN "next" ELSE token[t].run]]

StopPlayer == token' = Stopped /\ playing' = FALSE

\* begin_utterance(): stop the utterance before, wait for its worker, take a new token.
Begin(r) ==
  /\ pc[r] = "begin"
  /\ StopPlayer
  /\ Go(r, "wait")
  /\ UNCHANGED <<engine, tok, cur, thread, sapi, rules>>

\* The wait for the worker is over when it has ended, and after two seconds even if
\* it has not: it may be in the middle of an inference.
Waited(r) ==
  /\ pc[r] = "wait"
  /\ token' = Append(token, [set |-> FALSE, run |-> "none", left |-> 0, tail |-> 0,
                             late |-> FALSE, leak |-> FALSE, own |-> r])
  /\ cur' = Len(token) + 1
  /\ tok' = [tok EXCEPT ![r] = Len(token) + 1]
  /\ playing' = TRUE
  /\ Go(r, IF engine[r] = "cloud" THEN "reserved" ELSE "start")
  /\ UNCHANGED <<engine, thread, sapi, rules>>

\* _start_stream(): only while the reservation is current.
Start(r) ==
  /\ pc[r] = "start"
  /\ IF Current(tok[r])
       THEN playing' = TRUE /\ Go(r, "launch")
       ELSE UNCHANGED playing /\ Go(r, "done")
  /\ UNCHANGED <<engine, tok, token, cur, thread, sapi, rules>>

\* A whole WAV is one chunk; the neural voice makes one of every sentence.
Launch(r) ==
  /\ pc[r] = "launch"
  /\ \E n \in IF engine[r] = "kokoro" THEN 1..Sentences ELSE {1} :
       token' = [token EXCEPT ![tok[r]].run = "next", ![tok[r]].left = n]
  /\ thread' = tok[r]
  /\ Go(r, "done")
  /\ UNCHANGED <<engine, tok, cur, playing, sapi, rules>>

-----------------------------------------------------------------------------
(* The worker of a token. *)

\* What the worker asks before it makes a sentence, and again before it plays it.
Cancelled(t) == token[t].set

\* The worker has left its loop; it clears `playing`, whoever's utterance that is.
Ended(t) ==
  /\ token' = [token EXCEPT ![t].run = "ended"]
  /\ playing' = FALSE

WorkerNext(t) ==
  /\ token[t].run = "next"
  /\ IF Cancelled(t) \/ token[t].left = 0
       THEN Ended(t)
       ELSE token' = [token EXCEPT ![t].run = "have"] /\ UNCHANGED playing
  /\ UNCHANGED <<pc, engine, tok, cur, thread, sapi, rules>>

\* The sentence has been made, or making it failed.  It is let through, or dropped.
WorkerCheck(t) ==
  /\ token[t].run = "have"
  /\ \/ Ended(t)
     \/ /\ ~Cancelled(t)
        /\ token' = [token EXCEPT
             ![t].run  = "about",
             ![t].late = @ \/ token[t].own \in hushed,
             ![t].leak = @ \/ (token[t].own \in exposed /\ engine[token[t].own] = "cloud")]
        /\ UNCHANGED playing
  /\ UNCHANGED <<pc, engine, tok, cur, thread, sapi, rules>>

\* PlaySound() begins; what was let through before a Stop is not called back.
WorkerPlays(t) ==
  /\ token[t].run = "about"
  /\ token' = [token EXCEPT ![t].run = "sounding", ![t].left = @ - 1,
                            ![t].tail = IF token[t].set THEN @ + 1 ELSE @]
  /\ UNCHANGED <<pc, engine, tok, cur, thread, playing, sapi, rules>>

\* PlaySound() returns at the end of the sound.
WorkerPlayed(t) ==
  /\ token[t].run = "sounding"
  /\ token' = [token EXCEPT ![t].run = "next"]
  /\ UNCHANGED <<pc, engine, tok, cur, thread, playing, sapi, rules>>

-----------------------------------------------------------------------------
(* The voices. *)

\* Where the thread of a request goes to speak with a voice of this machine.
Enters(e) ==
  CASE e = "kokoro"  -> "begin"
    [] e = "windows" -> "synth"
    [] e = "sapi5"   -> "classic"

\* speak() and speak_local(): the voice is chosen when it is needed, never remembered.
Speak(r) ==
  /\ pc[r] = "idle"
  /\ \E e \in Engines :
       /\ engine' = [engine EXCEPT ![r] = e]
       /\ Go(r, IF e = "cloud" THEN "begin" ELSE Enters(e))
  /\ UNCHANGED <<tok, player, sapi, rules>>

\* The Windows voice makes the whole sound first, and only then begins an utterance;
\* with no sound the classic voice is next.
Synthesise(r) ==
  /\ pc[r] = "synth"
  /\ \E place \in {"begin", "classic", "done"} :
       /\ Go(r, place)
       /\ engine' = [engine EXCEPT ![r] = IF place = "classic" THEN "sapi5" ELSE @]
  /\ UNCHANGED <<tok, player, sapi, rules>>

\* A cloud voice is refused while privacy mode is on, and without a key or a voice.
CheckPrivacy(r) ==
  /\ pc[r] = "reserved"
  /\ \/ ~privacy /\ Go(r, "asking") /\ UNCHANGED exposed
     \/ Go(r, "refused") /\ exposed' = exposed \cup (IF privacy THEN {r} ELSE {})
  /\ UNCHANGED <<engine, tok, player, sapi, privacy, presses, hushed>>

\* What the provider's client raises for: CANCELLED or PRIVACY.
Refuses(r) == token[tok[r]].set \/ privacy

\* A request that was stopped is over; one that privacy mode met is refused.
GivesUp(r) == Go(r, IF privacy THEN "refused" ELSE "done")

\* The last look before the text is sent: the key has been read meanwhile.
CheckRequest(r) ==
  /\ pc[r] = "asking"
  /\ IF Refuses(r) THEN GivesUp(r) ELSE Go(r, "sending")
  /\ UNCHANGED <<engine, tok, player, sapi, rules>>

Send(r) ==
  /\ pc[r] = "sending"
  /\ Go(r, "sent")
  /\ UNCHANGED <<engine, tok, player, sapi, rules>>

\* The answer is looked at in the same way; a request that fails, or takes longer
\* than the deadline, is refused whoever has stopped it.
Answer(r) ==
  /\ pc[r] = "sent"
  /\ \/ IF Refuses(r) THEN GivesUp(r) ELSE Go(r, "bytes")
     \/ Go(r, "refused")
  /\ UNCHANGED <<engine, tok, player, sapi, rules>>

\* The reservation is released; then the local voice speaks, if that is allowed.
Refused(r) ==
  LET t == tok[r]
  IN /\ pc[r] = "refused"
     /\ IF t = cur
          THEN token' = [token EXCEPT ![t].set = TRUE] /\ playing' = FALSE
          ELSE UNCHANGED <<token, playing>>
     /\ \/ /\ Go(r, "done")
           /\ UNCHANGED engine
        \/ \E e \in Local : Go(r, Enters(e)) /\ engine' = [engine EXCEPT ![r] = e]
     /\ UNCHANGED <<tok, cur, thread, sapi, rules>>

\* play_wav_bytes_if_current(): delayed bytes with an old token are discarded.
Delayed(r) ==
  /\ pc[r] = "bytes"
  /\ Go(r, IF Current(tok[r]) THEN "start" ELSE "done")
  /\ UNCHANGED <<engine, tok, player, sapi, rules>>

\* The classic voice plays by itself, beside the player.
SpeakClassic(r) ==
  /\ pc[r] = "classic"
  /\ \/ /\ flag' = TRUE
        /\ classic' = [classic EXCEPT ![r] = "starting"]
     \/ UNCHANGED <<flag, classic>>
  /\ Go(r, "done")
  /\ UNCHANGED <<engine, tok, player, built, rules>>

ClassicStarts(r) ==
  /\ classic[r] = "starting"
  /\ classic' = [classic EXCEPT ![r] = "sounding"]
  /\ built' = TRUE
  /\ UNCHANGED <<pc, engine, tok, player, flag, rules>>

ClassicEnds(r) ==
  /\ classic[r] \in {"starting", "sounding"}
  /\ classic' = [classic EXCEPT ![r] = "ended"]
  /\ flag' = FALSE
  /\ built' \in {built, FALSE}
  /\ UNCHANGED <<pc, engine, tok, player, rules>>

-----------------------------------------------------------------------------
(* Stop and privacy mode. *)

\* stop() asks every voice, whichever is selected.  The classic one has nothing to
\* stop until its engine has been built.
Stop ==
  /\ presses < MaxPresses /\ presses' = presses + 1
  /\ StopPlayer
  /\ IF built
       THEN /\ flag' = FALSE
            /\ classic' = [r \in Requests |->
                 IF classic[r] = "sounding" THEN "ended" ELSE classic[r]]
       ELSE UNCHANGED <<flag, classic>>
  /\ hushed' = {r \in Requests : pc[r] # "idle"}
  /\ UNCHANGED <<pc, engine, tok, cur, thread, built, privacy, exposed>>

\* The requests to a cloud voice that are between their reservation and their sound.
Asking == {r \in Requests : pc[r] \in {"reserved", "asking", "sending", "sent", "bytes"}}

\* Mutated form of PrivacyOn: the player is left alone, the next request will be refused.
PrivacyOnOnly ==
  /\ presses < MaxPresses /\ presses' = presses + 1
  /\ privacy' = TRUE
  /\ exposed' = exposed \cup Asking
  /\ UNCHANGED <<pc, engine, tok, player, sapi, hushed>>

\* set(True) stops the player under the same lock; set(False) stops nothing.
PrivacyOn ==
  /\ presses < MaxPresses /\ presses' = presses + 1
  /\ privacy' = TRUE
  /\ StopPlayer
  /\ exposed' = exposed \cup Asking
  /\ UNCHANGED <<pc, engine, tok, cur, thread, sapi, hushed>>

PrivacyOff ==
  /\ presses < MaxPresses /\ presses' = presses + 1
  /\ privacy /\ privacy' = FALSE
  /\ UNCHANGED <<pc, engine, tok, player, sapi, hushed, exposed>>

-----------------------------------------------------------------------------
(* The specification. *)

RequestStep(r) ==
  \/ Speak(r) \/ Synthesise(r) \/ Begin(r) \/ Waited(r) \/ Start(r) \/ Launch(r)
  \/ CheckPrivacy(r) \/ CheckRequest(r) \/ Send(r) \/ Answer(r) \/ Refused(r) \/ Delayed(r)
  \/ SpeakClassic(r) \/ ClassicStarts(r) \/ ClassicEnds(r)

WorkerStep(t) == WorkerNext(t) \/ WorkerCheck(t) \/ WorkerPlays(t) \/ WorkerPlayed(t)

Next ==
  \/ \E r \in Requests : RequestStep(r)
  \/ \E t \in DOMAIN token : WorkerStep(t)
  \/ Stop \/ PrivacyOn \/ PrivacyOff

Spec == Init /\ [][Next]_vars

-----------------------------------------------------------------------------
(* Properties. *)

\* A token that was replaced by a newer one without being set: two utterances began
\* at once, and the player has lost the older one.
Lost(t) == t < cur /\ ~token[t].set

\* After its token was set an utterance plays nothing but the sentence that had been
\* let through already (audio.py, _run: the token is looked at before a sentence is
\* made and before it is played).
CancelCutsTail == \A t \in DOMAIN token : token[t].tail <= 1

\* The answer of a cloud voice whose request met privacy mode is never played, even
\* if privacy mode is off again when it comes: switching it on sets the token, and
\* bytes with an old token are discarded (privacy.py, set; audio.py, is_current).
PrivateAnswersAreSilent == \A t \in DOMAIN token : token[t].leak => Lost(t)

\* What was stopped and what privacy mode met is not heard any more.
SilenceIsKept == CancelCutsTail /\ PrivateAnswersAreSilent

\* "Stop works the same way whichever engine produced the sound" (winrt_voices.py, 149:
\* synthesise_wav): a sentence of a request that was under way when Stop was pressed
\* is not let through to the speakers afterwards.
StopMeansSilence == \A t \in DOMAIN token : ~token[t].late
=============================================================================
