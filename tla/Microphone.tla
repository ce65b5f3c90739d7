----------------------------- MODULE Microphone -----------------------------
(***************************************************************************)
(* The page's microphone (clap-controller.js and the voice half of app.js) *)
(* and the server's settings behind it (app/voice/clap.py, privacy.py).    *)
(* One page is a single thread of callbacks: everything up to an await is  *)
(* one step, and getUserMedia, addModule and the server's answers come     *)
(* back as steps of their own, in any order.  The controller listens for   *)
(* claps; push-to-talk, the microphone test, calibration and JARVIS's own  *)
(* voice make it let go.                                                   *)
(***************************************************************************)
EXTENDS Integers, FiniteSets

CONSTANTS
  Sessions,    \* presses of Calibrate
  MaxAsks,     \* bound: answers of the server under way at once
  MaxToggles,  \* bound: changes of the settings, of privacy and of the device
  MaxTalks,    \* bound: push-to-talk recordings, microphone tests, spoken replies
  MaxPages     \* bound: times the page is left

VARIABLES
  page,     \* "chat" has push-to-talk, "voice" has calibration and the test
  c,        \* ClapController's variables
  ptt,      \* push-to-talk: its state, and whether pttStream is open
  prompts,  \* getUserMedia calls of recordings that were cancelled meanwhile
  test,     \* the microphone test
  talking,  \* suspendForSpeech() watches /voice/speaking
  pref,     \* clap_enabled, as stored by the server
  privacy,  \* privacy_mode.active
  news,     \* the event about privacy that the page has not handled yet
  answers,  \* answers of the server on their way to the page
  owed,     \* refreshClap() follows when the start it waits for is over
  device,   \* a microphone is plugged in
  replug,   \* a devicechange event that was not handled yet
  toggles, talks, pages,
  lost      \* a stream was dropped without its tracks being stopped (history)

vars == <<page, c, ptt, prompts, test, talking, pref, privacy, news, answers,
          owed, device, replug, toggles, talks, pages, lost>>

speech == <<ptt, prompts, test, talking>>
server == <<pref, privacy, news, owed>>
wires  == <<device, replug>>
counts == <<toggles, talks, pages>>

None     == "none"
Starters == Sessions \cup {"listen"}
Reasons  == {"speaking", "push-to-talk", "microphone-test", "calibrating"}
States   == {"disabled", "starting", "listening", "suspended", "calibrating",
             "privacy-blocked", "microphone-unavailable"}
Answers  == [of : {"clap", "privacy"}, enabled : BOOLEAN, blocked : BOOLEAN,
             restart : BOOLEAN]

\* The controller: a start() under way in `starts` is fresh while its generation is
\* the current one; `held` is the stream it holds, by whom it was opened, with the
\* worklet attached (node), and whether its track is live.
Controller ==
  [state : States, enabled : BOOLEAN, blocked : BOOLEAN, reasons : SUBSET Reasons,
   session : Sessions \cup {None}, timer : BOOLEAN, quitting : BOOLEAN, bound : BOOLEAN,
   starts : [Starters -> [at : {None, "open", "module"}, fresh : BOOLEAN]],
   held : [by : Starters \cup {None}, node : BOOLEAN, live : BOOLEAN]]

TypeOK ==
  /\ page \in {"chat", "voice"}
  /\ c \in Controller
  /\ ptt \in [state : {"idle", "requesting", "listening", "stopping", "transcribing", "error"},
              open : BOOLEAN]
  /\ prompts \in 0..MaxTalks
  /\ test \in {None, "asking", "open"}
  /\ {talking, pref, privacy, news, owed, device, replug, lost} \subseteq BOOLEAN
  /\ answers \subseteq Answers /\ Cardinality(answers) <= MaxAsks
  /\ toggles \in 0..MaxToggles /\ talks \in 0..MaxTalks /\ pages \in 0..MaxPages

Idle   == [at |-> None, fresh |-> FALSE]
Closed == [by |-> None, node |-> FALSE, live |-> FALSE]

\* A page as it is loaded.
Fresh ==
  [state |-> "disabled", enabled |-> FALSE, blocked |-> FALSE, reasons |-> {},
   session |-> None, timer |-> FALSE, quitting |-> FALSE, bound |-> FALSE,
   starts |-> [s \in Starters |-> Idle], held |-> Closed]

\* What the server answers to GET /voice/clap and to GET /privacy/status.
ClapAnswer(restart) ==
  [of |-> "clap", enabled |-> pref, blocked |-> privacy, restart |-> restart]
PrivacyAnswer ==
  [of |-> "privacy", enabled |-> FALSE, blocked |-> privacy, restart |-> FALSE]

Asks(a) == answers' = answers \cup {a} /\ Cardinality(answers') <= MaxAsks

Init ==
  /\ page \in {"chat", "voice"}
  /\ c = Fresh
  /\ ptt = [state |-> "idle", open |-> FALSE]
  /\ prompts = 0 /\ test = None /\ talking = FALSE
  /\ pref \in BOOLEAN /\ privacy \in BOOLEAN /\ news = FALSE /\ owed = FALSE
  /\ answers = {ClapAnswer(FALSE)}
  /\ device \in BOOLEAN /\ replug = FALSE
  /\ toggles = 0 /\ talks = 0 /\ pages = 0
  /\ lost = FALSE

-----------------------------------------------------------------------------
\* isListening(): an active worklet and a live track.
Listening(m) == m.held.node /\ m.held.live

Teardown(m) ==
  [m EXCEPT !.starts = [s \in Starters |-> [m.starts[s] EXCEPT !.fresh = FALSE]],
            !.timer = FALSE, !.held = Closed]

\* The first of reconcile()'s reasons that applies.
Wanted(m) ==
  IF m.quitting \/ (m.session = None /\ ~m.enabled) THEN "disabled"
  ELSE IF m.session # None THEN "calibrating"
  ELSE IF m.blocked THEN "privacy-blocked"
  ELSE IF m.reasons # {} THEN "suspended"
  ELSE "listening"

\* reconcile() up to its first await; it is dropped while an earlier one waits.
Reconcile(m) ==
  LET w == Wanted(m)
  IN IF m.starts["listen"].at # None THEN m
     ELSE IF w = "calibrating" \/ (w = "listening" /\ Listening(m))
       THEN [m EXCEPT !.state = w]
     ELSE IF w # "listening" THEN [Teardown(m) EXCEPT !.state = w]
     ELSE [Teardown(m) EXCEPT !.state = "starting", !.bound = TRUE,
                              !.starts["listen"] = [at |-> "open", fresh |-> TRUE]]

\* Mutated form of Suspend: a stream that start() has not attached yet is left alone.
SuspendsOnlyListening(m, r) ==
  IF m.reasons = {} /\ Listening(m)
    THEN [Teardown(m) EXCEPT !.reasons = {r}, !.state = "suspended"]
    ELSE [m EXCEPT !.reasons = @ \cup {r}]

Suspend(m, r) ==
  LET first == [Teardown(m) EXCEPT !.reasons = {r},
                  !.state = IF m.enabled /\ ~m.blocked THEN "suspended" ELSE m.state]
  IN IF m.reasons = {} THEN first ELSE [m EXCEPT !.reasons = @ \cup {r}]

\* resume(): the last reason that goes arms the timer.
Resume(m, r) ==
  [m EXCEPT !.reasons = @ \ {r}, !.timer = IF m.reasons = {r} THEN TRUE ELSE m.timer]

\* finishCalibration(), with the page's onFinish.
FinishCalibration(m) ==
  Reconcile(Resume(Teardown([m EXCEPT !.session = None]), "calibrating"))

StopCalibration(m) == IF m.session = None THEN m ELSE FinishCalibration(m)

\* abandonCalibration(): only if the session is still the current one.
Abandon(m, s) == IF m.session = s THEN [m EXCEPT !.session = None] ELSE m

Configure(m, a) ==
  LET n == [m EXCEPT !.enabled = a.enabled, !.blocked = a.blocked]
  IN Reconcile(IF a.restart /\ Listening(m) THEN Teardown(n) ELSE n)

SetPrivacyBlocked(m, blocked) ==
  LET n == [m EXCEPT !.blocked = blocked]
  IN Reconcile(IF blocked
                 THEN [StopCalibration(Teardown(n)) EXCEPT !.state = "privacy-blocked"]
                 ELSE n)

SetQuitting(m) ==
  [Teardown(StopCalibration([m EXCEPT !.quitting = TRUE])) EXCEPT !.state = "disabled"]

\* A start() that ends without a microphone: torn down meanwhile, or refused.
Superseded(m, s) ==
  IF s = "listen" THEN m
  ELSE Resume(IF m.session = s THEN Reconcile(Abandon(m, s)) ELSE m, "calibrating")

Refused(m, s) ==
  LET n == [Teardown(Abandon(m, s)) EXCEPT !.state = "microphone-unavailable"]
  IN IF s = "listen" THEN n ELSE Resume(n, "calibrating")

-----------------------------------------------------------------------------
\* start(): getUserMedia answers, then addModule.
Opened(s) ==
  /\ c.starts[s].at = "open" /\ device
  /\ IF c.starts[s].fresh
       THEN /\ c' = [c EXCEPT !.starts[s] = [at |-> "module", fresh |-> TRUE],
                              !.held = [by |-> s, node |-> FALSE, live |-> TRUE]]
            /\ lost' = (lost \/ c.held.by # None)
       ELSE c' = Superseded([c EXCEPT !.starts[s] = Idle], s) /\ UNCHANGED lost
  /\ UNCHANGED <<page, speech, server, answers, wires, counts>>

Loaded(s) ==
  LET m == [c EXCEPT !.starts[s] = Idle]
  IN /\ c.starts[s].at = "module"
     /\ c' = IF ~c.starts[s].fresh THEN Superseded(Teardown(m), s)
             ELSE [m EXCEPT !.held.node = TRUE,
                            !.state = IF s = "listen" THEN "listening" ELSE m.state]
     /\ UNCHANGED <<page, speech, server, answers, wires, counts, lost>>

StartFails(s) ==
  /\ c.starts[s].at # None
  /\ c' = Refused([c EXCEPT !.starts[s] = Idle], s)
  /\ UNCHANGED <<page, speech, server, answers, wires, counts, lost>>

ResumeTimer ==
  /\ c.timer
  /\ c' = Reconcile([c EXCEPT !.timer = FALSE])
  /\ UNCHANGED <<page, speech, server, answers, wires, counts, lost>>

\* Button and timer of calibration, and the second clap.  The button is disabled once
\* a session has its microphone.
PressCalibrate(s) ==
  LET m == Teardown(StopCalibration(Suspend(c, "calibrating")))
  IN /\ page = "voice" /\ ~c.quitting
     /\ c.starts[s].at = None /\ c.session # s
     /\ c.session # None => c.starts[c.session].at # None
     /\ c' = IF m.blocked THEN Resume(m, "calibrating")
             ELSE [m EXCEPT !.session = s, !.state = "calibrating",
                            !.starts[s] = [at |-> "open", fresh |-> TRUE]]
     /\ UNCHANGED <<page, speech, server, answers, wires, counts, lost>>

EndCalibration ==
  /\ c.session # None
  /\ c' = FinishCalibration(c)
  /\ UNCHANGED <<page, speech, server, answers, wires, counts, lost>>

-----------------------------------------------------------------------------
\* Settings and privacy: the server's values, and the answers that carry them.
Toggle == toggles < MaxToggles /\ toggles' = toggles + 1

SetClapEnabled(here) ==
  /\ Toggle /\ pref' = ~pref
  /\ IF here THEN ~c.quitting /\ Asks([ClapAnswer(TRUE) EXCEPT !.enabled = ~pref])
     ELSE UNCHANGED answers
  /\ UNCHANGED <<page, c, speech, privacy, news, owed, wires, talks, pages, lost>>

SaveClapSettings ==
  /\ ~c.quitting /\ Asks(ClapAnswer(TRUE))
  /\ UNCHANGED <<page, c, speech, server, wires, counts, lost>>

SetPrivacy ==
  /\ Toggle /\ privacy' = ~privacy /\ news' = TRUE
  /\ UNCHANGED <<page, c, speech, pref, owed, answers, wires, talks, pages, lost>>

HandlePrivacyEvent ==
  /\ news /\ news' = FALSE
  /\ Asks(PrivacyAnswer)
  /\ UNCHANGED <<page, c, speech, pref, privacy, owed, wires, counts, lost>>

ApplyClapSetting(a) ==
  /\ a.of = "clap"
  /\ c' = Configure(c, a)
  /\ answers' = answers \ {a}
  /\ UNCHANGED <<page, speech, server, wires, counts, lost>>

\* applyPrivacyToClap(): re-reads the settings when the controller has settled.
ApplyPrivacyToClap(a) ==
  /\ a.of = "privacy"
  /\ c' = SetPrivacyBlocked(c, a.blocked)
  /\ answers' = answers \ {a}
  /\ owed' = (owed \/ ~a.blocked)
  /\ UNCHANGED <<page, speech, pref, privacy, news, wires, counts, lost>>

RefreshClap ==
  /\ owed /\ c.starts["listen"].at = None
  /\ Asks(ClapAnswer(FALSE))
  /\ owed' = FALSE
  /\ UNCHANGED <<page, c, speech, pref, privacy, news, wires, counts, lost>>

\* A privacy state that cannot be read counts as on; settings stay as they are.
AnswerLost(a) ==
  /\ c' = IF a.of = "privacy" THEN SetPrivacyBlocked(c, TRUE) ELSE c
  /\ answers' = answers \ {a}
  /\ UNCHANGED <<page, speech, server, wires, counts, lost>>

\* activate() turns a pair of claps down: the page reads the settings again.
ClapPairRefused ==
  /\ Listening(c) /\ c.held.by = "listen"
  /\ ~c.quitting /\ c.enabled /\ ~c.blocked /\ c.reasons = {}
  /\ ~pref \/ privacy
  /\ Asks(ClapAnswer(FALSE))
  /\ UNCHANGED <<page, c, speech, server, wires, counts, lost>>

-----------------------------------------------------------------------------
\* What else uses the microphone or the speakers.
Talk == talks < MaxTalks /\ talks' = talks + 1 /\ ~c.quitting

SuspendForSpeech ==
  /\ Talk /\ ~talking /\ talking' = TRUE
  /\ c' = Suspend(c, "speaking")
  /\ UNCHANGED <<page, ptt, prompts, test, server, answers, wires, toggles, pages, lost>>

ReleaseSpeechSuspension ==
  /\ talking /\ talking' = FALSE
  /\ c' = Resume(c, "speaking")
  /\ UNCHANGED <<page, ptt, prompts, test, server, answers, wires, counts, lost>>

\* setPttState(): idle and error let go, every other state owns the microphone.
SetPttState(s, open) ==
  /\ ptt' = [state |-> s, open |-> open]
  /\ c' = IF s \in {"idle", "error"} THEN Resume(c, "push-to-talk")
          ELSE Suspend(c, "push-to-talk")

Quietly == UNCHANGED <<page, test, talking, server, answers, wires, toggles, pages, lost>>

PttStart ==
  /\ page = "chat" /\ ptt.state \in {"idle", "error"} /\ Talk
  /\ SetPttState("requesting", FALSE)
  /\ UNCHANGED prompts /\ Quietly

PttListens ==
  /\ ptt.state = "requesting" /\ device
  /\ SetPttState("listening", TRUE)
  /\ UNCHANGED <<prompts, talks>> /\ Quietly

\* pttStop(), and the recorder's own stop event after it.
PttStop ==
  /\ ptt.state = "listening"
  /\ ptt' = [ptt EXCEPT !.state = "stopping"]
  /\ UNCHANGED <<c, prompts, talks>> /\ Quietly

PttOnRecordingStopped ==
  /\ ptt.state = "stopping"
  /\ \E s \in {"idle", "transcribing"} : SetPttState(s, FALSE)
  /\ UNCHANGED <<prompts, talks>> /\ Quietly

PttEnds ==
  /\ \/ ptt.state = "transcribing" /\ \E s \in {"idle", "error"} : SetPttState(s, FALSE)
     \/ ptt.state \in {"requesting", "listening", "stopping"} /\ SetPttState("error", FALSE)
  /\ UNCHANGED <<prompts, talks>> /\ Quietly

\* A prompt cannot be called back: its stream is stopped when it comes.
Prompts == IF ptt.state = "requesting" THEN prompts + 1 ELSE prompts

PttCancel ==
  /\ ptt.state \in {"requesting", "listening", "stopping", "transcribing"}
  /\ SetPttState("idle", FALSE)
  /\ prompts' = Prompts /\ UNCHANGED talks /\ Quietly

LatePrompt ==
  /\ prompts > 0 /\ prompts' = prompts - 1
  /\ UNCHANGED <<page, c, ptt, test, talking, server, answers, wires, counts, lost>>

TestMicrophone ==
  /\ page = "voice" /\ test = None /\ Talk
  /\ test' = "asking"
  /\ c' = Suspend(Resume(c, "microphone-test"), "microphone-test")
  /\ UNCHANGED <<page, ptt, prompts, talking, server, answers, wires, toggles, pages, lost>>

TestListens ==
  /\ test = "asking" /\ device /\ test' = "open"
  /\ UNCHANGED <<page, c, ptt, prompts, talking, server, answers, wires, counts, lost>>

StopMicrophoneTest ==
  /\ test # None /\ test' = None
  /\ c' = Resume(c, "microphone-test")
  /\ UNCHANGED <<page, ptt, prompts, talking, server, answers, wires, counts, lost>>

-----------------------------------------------------------------------------
\* A microphone is plugged in or taken out, and the page hears of it.
Plug ==
  /\ Toggle /\ device' = ~device
  /\ c' = [c EXCEPT !.held.live = FALSE]
  /\ replug' = (replug \/ c.bound)
  /\ UNCHANGED <<page, speech, server, answers, talks, pages, lost>>

OnDeviceChange ==
  /\ replug /\ replug' = FALSE
  /\ c' = IF Listening(c) THEN c ELSE Reconcile(c)
  /\ UNCHANGED <<page, speech, server, answers, device, counts, lost>>

\* The page is left: pagehide.  It may come back as it was, or be loaded again.
PageHide ==
  /\ ~c.quitting /\ pages < MaxPages /\ pages' = pages + 1
  /\ ptt' = [state |-> "idle", open |-> FALSE] /\ prompts' = Prompts
  /\ test' = IF test = "open" THEN None ELSE test
  /\ c' = Resume(SetQuitting(Resume(c, "push-to-talk")), "microphone-test")
  /\ UNCHANGED <<page, talking, server, answers, wires, toggles, talks, lost>>

PageShow ==
  /\ c.quitting /\ c' = [c EXCEPT !.quitting = FALSE]
  /\ Asks(ClapAnswer(TRUE))
  /\ UNCHANGED <<page, speech, server, wires, counts, lost>>

PageLoad ==
  /\ c.quitting /\ c' = Fresh
  /\ page' \in {"chat", "voice"}
  /\ ptt' = [state |-> "idle", open |-> FALSE] /\ prompts' = 0
  /\ test' = None /\ talking' = FALSE /\ news' = FALSE /\ owed' = FALSE
  /\ replug' = FALSE /\ answers' = {ClapAnswer(FALSE)}
  /\ UNCHANGED <<pref, privacy, device, counts, lost>>

Starts(s) == Opened(s) \/ Loaded(s) \/ StartFails(s)

Clapping ==
  \/ ResumeTimer \/ EndCalibration \/ ClapPairRefused
  \/ \E s \in Starters : Starts(s)
  \/ \E s \in Sessions : PressCalibrate(s)

Settings ==
  \/ \E here \in BOOLEAN : SetClapEnabled(here)
  \/ SaveClapSettings \/ SetPrivacy \/ HandlePrivacyEvent \/ RefreshClap
  \/ \E a \in answers : ApplyClapSetting(a) \/ ApplyPrivacyToClap(a) \/ AnswerLost(a)

Voices ==
  \/ SuspendForSpeech \/ ReleaseSpeechSuspension
  \/ PttStart \/ PttListens \/ PttStop \/ PttOnRecordingStopped \/ PttEnds
  \/ PttCancel \/ LatePrompt
  \/ TestMicrophone \/ TestListens \/ StopMicrophoneTest

Next ==
  \/ Clapping \/ Settings \/ Voices
  \/ Plug \/ OnDeviceChange \/ PageHide \/ PageShow \/ PageLoad

Spec == Init /\ [][Next]_vars

-----------------------------------------------------------------------------
(* Properties *)

\* Every open stream is in the hands of somebody who will close it: start() never
\* replaces one, and a page that was left holds none (teardown(), "one owner for one
\* microphone").
StreamsAreAccountedFor ==
  /\ ~lost
  /\ c.quitting => c.held.by = None /\ ~ptt.open

\* What the page tells the tray is never quieter than the microphone: it is open under
\* no label that says it is not, and the listener has let go of it when push-to-talk or
\* JARVIS's own voice has asked for that.
LabelsAreHonest ==
  /\ c.state \in {"disabled", "suspended", "privacy-blocked", "microphone-unavailable"}
       => c.held.by = None
  /\ c.held.by = "listen" => c.reasons = {} /\ ~ptt.open

\* The microphone is in somebody's hands, and no label hides it.
MicrophoneIsHonest == StreamsAreAccountedFor /\ LabelsAreHonest

\* Switched off is closed ("Switched off. Nothing is listening.", app.js:3989).  Violated:
\* configure() does not tear down a start that is under way.
OffMeansClosed == c.held.by = "listen" /\ c.held.node => c.enabled

\* "The tray is not allowed to say "On" for anything less" than a live track
\* (clap-controller.js:110).  Violated: a calibration that was ended while addModule was
\* awaited tears down the stream that the listener has opened since.
OnMeansOpen == c.state = "listening" /\ c.enabled /\ ~c.blocked => c.held.node
=============================================================================
