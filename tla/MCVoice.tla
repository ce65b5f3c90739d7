------------------------------- MODULE MCVoice -------------------------------
(* The voice side on a small instance: the player, the page's microphone, the   *)
(* kept settings of the cloud voices, and the tray's line about the listener.   *)
(* The four share no variable, so a behaviour here is a behaviour of one of     *)
(* them while the others stay at their start: `part` says which.                *)
EXTENDS Playback, TLC

CONSTANTS
  Sessions, MaxAsks, MaxToggles, MaxTalks, MaxPages,
  MaxCalls, MaxFaults,
  Pages, Beat, Believed, Poll, Delay, MaxChanges

VARIABLES
  part,
  page, c, ptt, prompts, test, talking, pref, micPrivacy, news, answers, owed, device,
  replug, toggles, talks, pages, lost,
  stored, file, lock, job, cloudPrivacy, calls, faults, doubt, told,
  tab, posts, srv, tray, menu, clock, changes

micVars == <<page, c, ptt, prompts, test, talking, pref, micPrivacy, news, answers, owed,
             device, replug, toggles, talks, pages, lost>>
cloudVars == <<stored, file, lock, job, cloudPrivacy, calls, faults, doubt, told>>
trayVars == <<tab, posts, srv, tray, menu, clock, changes>>

Mic   == INSTANCE Microphone WITH privacy <- micPrivacy
Cloud == INSTANCE CloudVoice WITH privacy <- cloudPrivacy
Heard == INSTANCE Listening WITH page <- tab

\* No thread is the nobody that holds a free lock.
ASSUME CloudAssumption ==
  /\ Cloud!Free \notin Requests
  /\ MaxCalls \in Nat /\ MaxFaults \in Nat

\* A press of Calibrate is neither the listener nor nobody.
ASSUME MicrophoneAssumption == "none" \notin Sessions /\ "listen" \notin Sessions

\* A request is quicker than a heartbeat (tray_client.py gives up after 3 s, a page beats
\* every 8 s), and a report is believed for longer than a heartbeat and a request (20 s).
ASSUME ListeningAssumption ==
  /\ Beat \in Nat /\ Believed \in Nat /\ Poll \in Nat /\ Delay \in Nat
  /\ MaxChanges \in Nat
  /\ Delay < Beat /\ Beat + Delay < Believed

VoiceInit ==
  /\ part \in {"playback", "microphone", "settings", "tray"}
  /\ Init /\ Mic!Init /\ Cloud!Init /\ Heard!Init
  /\ page = "chat" /\ device
  /\ part # "microphone" => pref /\ micPrivacy
  /\ part # "settings" => ~stored

VoiceNext ==
  /\ UNCHANGED part
  /\ \/ part = "playback" /\ Next /\ UNCHANGED <<micVars, cloudVars, trayVars>>
     \/ part = "microphone" /\ Mic!Next /\ UNCHANGED <<vars, cloudVars, trayVars>>
     \/ part = "settings" /\ Cloud!Next /\ UNCHANGED <<vars, micVars, trayVars>>
     \/ part = "tray" /\ Heard!Next /\ UNCHANGED <<vars, micVars, cloudVars>>

VoiceSpec == VoiceInit /\ [][VoiceNext]_<<part, vars, micVars, cloudVars, trayVars>>

\* Requests are interchangeable, and so are presses of Calibrate and pages.  The .cfg
\* gives the parts the same model values, so that the group stays small.
Symmetry == Permutations(Requests)

\* Every open microphone stream is in the hands of somebody who will close it, and no
\* label says less than is open.
MicrophoneIsHonest == Mic!MicrophoneIsHonest

\* What the Voice page reads about the OpenAI voice is so.
SettingsAreHonest == Cloud!SettingsAreHonest

\* No write of the preferences undoes another one.
EachWriteIsItsOwn == Cloud!EachWriteIsItsOwn

\* The tray's lines are never further behind than its timers allow.
TrayIsHonest == Heard!TrayIsHonest
=============================================================================
