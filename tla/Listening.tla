------------------------------ MODULE Listening ------------------------------
(***************************************************************************)
(* What the tray says about the double-clap listener and about privacy     *)
(* mode (app/voice/clap.py, app/launcher/tray.py, tray_client.py).  Three  *)
(* processes know a part each: a page owns the microphone and reports what *)
(* its listener does, on every change and again on a timer; the server     *)
(* keeps the last report, from whichever page, and stops believing it when *)
(* it is old; the tray asks on a timer of its own and paints the answers.  *)
(*                                                                         *)
(* A tick of the clock stands for about four seconds.  Messages take up to *)
(* Delay ticks, overtake one another and are lost; pages close, crash and  *)
(* come back, the server restarts.                                         *)
(***************************************************************************)
EXTENDS Naturals, FiniteSets

CONSTANTS
  Pages,      \* the window, and a tab of the browser
  Beat,       \* CLAP_HEARTBEAT_MS
  Believed,   \* LISTENER_FRESH_SECONDS
  Poll,       \* POLL_INTERVAL_SECONDS
  Delay,      \* bound: what a request takes
  MaxChanges  \* bound: changes of any kind, lost messages among them

VARIABLES
  page,   \* the listener of each page, and its heartbeat
  posts,  \* reports on their way
  srv,    \* the server: settings, and the last report
  tray,   \* what the tray shows, and its poll
  menu,   \* the tray's menu and what a click on it is doing
  clock,  \* ages (history)
  changes

vars == <<page, posts, srv, tray, menu, clock, changes>>

\* The longest the tray's lines may be behind: the read at the end of a click and a whole
\* round of the poll after it, and the tick that was under way; and a report that was on
\* its way and is believed for so long.
Round   == 3 * Delay + Poll + 1
Behind  == Delay + Believed + Round
Horizon == Behind + 1
Older(a) == IF a < Horizon THEN a + 1 ELSE a

\* The states of clap-controller.js the tray tells apart; "disabled" stands for the ones
\* it shows as an unavailable microphone.
Listener == {"disabled", "listening", "suspended"}
Labels   == {"", "Off", "Private", "On", "Paused", "Unavailable"}
Privacy  == {"on", "off"}
Unknown  == "unknown"
Opposite(b) == IF b = "on" THEN "off" ELSE "on"

NoMenu  == [at |-> "closed", says |-> "off", asks |-> "off", got |-> Unknown, age |-> 0]
Waiting == {"asked", "sent", "read"}

TypeOK ==
  /\ page \in [Pages -> [st : Listener \cup {"gone"}, beating : BOOLEAN, beat : 0..Beat]]
  /\ posts \in [Pages -> SUBSET [st : Listener, age : 0..Delay]]
  /\ srv \in [up : BOOLEAN, enabled : BOOLEAN, privacy : Privacy, rep : Listener,
              age : 0..Believed]
  /\ tray \in [clap : Labels, priv : Privacy \cup {Unknown}, next : 0..Poll,
               at : {"rest", "privacy", "clap"}, gotPriv : Privacy \cup {Unknown},
               gotClap : Labels, age : 0..Delay]
  /\ menu \in [at : {"closed", "open"} \cup Waiting, says : Privacy, asks : Privacy,
               got : Privacy \cup {Unknown}, age : 0..Delay]
  /\ clock \in [heard : 0..Horizon, settled : 0..Horizon,
                priv : [Privacy -> 0..Horizon], wrong : BOOLEAN]
  /\ changes \in 0..MaxChanges

\* The server is up, nothing was reported, the tray has not asked yet.
Init ==
  /\ page = [p \in Pages |-> [st |-> "gone", beating |-> FALSE, beat |-> 0]]
  /\ posts = [p \in Pages |-> {}]
  /\ srv = [up |-> TRUE, enabled |-> TRUE, privacy |-> "off", rep |-> "disabled",
            age |-> Believed]
  /\ tray = [clap |-> "", priv |-> Unknown, next |-> Poll, at |-> "rest",
             gotPriv |-> Unknown, gotClap |-> "", age |-> 0]
  /\ menu = NoMenu
  /\ clock = [heard |-> Horizon, settled |-> 0,
              priv |-> [b \in Privacy |-> IF b = "off" THEN 0 ELSE Horizon],
              wrong |-> FALSE]
  /\ changes = 0

-----------------------------------------------------------------------------
\* A change begins a new wait for the tray to catch up.
Changing(c) ==
  /\ changes < MaxChanges /\ changes' = changes + 1
  /\ clock' = [c EXCEPT !.settled = 0]
Change == Changing(clock)
Same   == UNCHANGED <<clock, changes>>

\* Privacy mode is now b.
Is(b) == [clock EXCEPT !.priv[b] = 0]

\* sendClapListenerState().
Report(p, st) == [posts EXCEPT ![p] = @ \cup {[st |-> st, age |-> 0]}]

PageOpens(p) ==
  /\ page[p].st = "gone" /\ Change
  /\ page' = [page EXCEPT ![p] = [st |-> "disabled", beating |-> FALSE, beat |-> 0]]
  /\ UNCHANGED <<posts, srv, tray, menu>>

\* onClapControllerChange(): the first report starts the heartbeat.  A page begins to
\* listen only on settings the server gave it.
PageTurns(p, st) ==
  /\ page[p].st \notin {"gone", st} /\ Cardinality(posts[p]) < 2
  /\ Changing(IF st = "listening" THEN [clock EXCEPT !.heard = 0] ELSE clock)
  /\ st = "listening" => srv.up /\ srv.enabled /\ srv.privacy = "off"
  /\ page' = [page EXCEPT ![p].st = st, ![p].beating = TRUE]
  /\ posts' = Report(p, st)
  /\ UNCHANGED <<srv, tray, menu>>

PageBeats(p) ==
  /\ page[p].beating /\ page[p].beat = Beat
  /\ page' = [page EXCEPT ![p].beat = 0]
  /\ posts' = Report(p, page[p].st)
  /\ UNCHANGED <<srv, tray, menu>> /\ Same

\* pagehide, whose last report may still go out, or a page that crashed.
PageGoes(p) ==
  /\ page[p].st # "gone" /\ Change
  /\ page' = [page EXCEPT ![p] = [st |-> "gone", beating |-> FALSE, beat |-> 0]]
  /\ posts' \in {posts, Report(p, "disabled")}
  /\ UNCHANGED <<srv, tray, menu>>

-----------------------------------------------------------------------------
\* report_listener_state(): one place for all pages.
ReportArrives(p, m) ==
  /\ m \in posts[p] /\ srv.up
  /\ posts' = [posts EXCEPT ![p] = @ \ {m}]
  /\ srv' = [srv EXCEPT !.rep = m.st, !.age = 0]
  /\ UNCHANGED <<page, tray, menu>> /\ Same

\* With the server down a report is lost as well; that one is no new change.
ReportLost(p, m) ==
  /\ m \in posts[p]
  /\ posts' = [posts EXCEPT ![p] = @ \ {m}]
  /\ UNCHANGED <<page, srv, tray, menu>>
  /\ IF srv.up THEN Change ELSE Same

SetEnabled ==
  /\ srv.up /\ Change
  /\ srv' = [srv EXCEPT !.enabled = ~@]
  /\ UNCHANGED <<page, posts, tray, menu>>

SetPrivacy ==
  /\ srv.up /\ Changing(Is(Opposite(srv.privacy)))
  /\ srv' = [srv EXCEPT !.privacy = Opposite(@)]
  /\ UNCHANGED <<page, posts, tray, menu>>

\* The setting is in a file; the report and privacy mode are the process's own.
ServerGoes ==
  /\ srv.up /\ Change
  /\ srv' = [srv EXCEPT !.up = FALSE, !.privacy = "off", !.rep = "disabled", !.age = Believed]
  /\ UNCHANGED <<page, posts, tray, menu>>
ServerComes ==
  /\ ~srv.up /\ Changing(Is("off"))
  /\ srv' = [srv EXCEPT !.up = TRUE]
  /\ UNCHANGED <<page, posts, tray, menu>>

-----------------------------------------------------------------------------
\* listener_state(): a report that is old proves nothing.
Resolved == IF srv.age < Believed THEN srv.rep ELSE "disabled"

\* tray_label().
TrayLabel ==
  IF ~srv.up THEN ""
  ELSE IF ~srv.enabled THEN "Off"
  ELSE IF srv.privacy = "on" THEN "Private"
  ELSE CASE Resolved = "listening" -> "On"
         [] Resolved = "suspended" -> "Paused"
         [] OTHER -> "Unavailable"

PrivacyActive == IF srv.up THEN srv.privacy ELSE Unknown

\* _poll_loop(): privacy mode first, then the line about the listener, each painted when
\* its answer is there.
PollAsks ==
  /\ tray.at = "rest" /\ tray.next = Poll
  /\ tray' = [tray EXCEPT !.at = "privacy", !.gotPriv = PrivacyActive, !.age = 0]
  /\ UNCHANGED <<page, posts, srv, menu>> /\ Same
PollPaintsPrivacy ==
  /\ tray.at = "privacy"
  /\ tray' = [tray EXCEPT !.at = "clap", !.priv = tray.gotPriv, !.gotClap = TrayLabel]
  /\ UNCHANGED <<page, posts, srv, menu>> /\ Same
PollPaintsClap ==
  /\ tray.at = "clap"
  /\ tray' = [tray EXCEPT !.at = "rest", !.clap = tray.gotClap, !.next = 0,
                          !.gotPriv = Unknown, !.gotClap = ""]
  /\ UNCHANGED <<page, posts, srv, menu>> /\ Same

-----------------------------------------------------------------------------
\* The menu shows the state of the moment it was opened in and stays as it is; without a
\* known state its privacy line cannot be clicked.
MenuOpens ==
  /\ menu.at = "closed" /\ tray.priv # Unknown
  /\ menu' = [menu EXCEPT !.at = "open", !.says = tray.priv]
  /\ UNCHANGED <<page, posts, srv, tray>> /\ Same

MenuCloses ==
  /\ menu.at = "open"
  /\ menu' = NoMenu
  /\ UNCHANGED <<page, posts, srv, tray>> /\ Same

\* Mutated form of Repaint: what the click asked for, whatever the server says.
RepaintAsAsked == tray' = [tray EXCEPT !.priv = menu.asks]

\* toggle_privacy() ends with what the server says.
Repaint == tray' = [tray EXCEPT !.priv = menu.got]

\* toggle_privacy(): the opposite of what the tray knows now, which the poll may have
\* changed under the open menu.
MenuClicks ==
  /\ menu.at = "open" /\ tray.priv # Unknown
  /\ menu' = [menu EXCEPT !.at = "asked", !.asks = Opposite(tray.priv), !.age = 0]
  /\ UNCHANGED <<page, posts, srv, tray>> /\ Change

\* The command arrives, if there is a server to take it; an answer of "no" is not shown.
MenuSets ==
  /\ menu.at = "asked"
  /\ menu' = [menu EXCEPT !.at = "sent"]
  /\ srv' = IF srv.up THEN [srv EXCEPT !.privacy = menu.asks] ELSE srv
  /\ clock' = IF srv.up THEN [Is(menu.asks) EXCEPT !.settled = 0,
                                                  !.wrong = @ \/ menu.asks = menu.says]
               ELSE clock
  /\ UNCHANGED <<page, posts, tray, changes>>
MenuReads ==
  /\ menu.at = "sent"
  /\ menu' = [menu EXCEPT !.at = "read", !.got = PrivacyActive]
  /\ UNCHANGED <<page, posts, srv, tray>> /\ Same
MenuPaints ==
  /\ menu.at = "read"
  /\ Repaint
  /\ menu' = NoMenu
  /\ UNCHANGED <<page, posts, srv>> /\ Same

-----------------------------------------------------------------------------
\* Time passes when nothing that must have happened by now is still to come.
Tick ==
  /\ \A p \in Pages : /\ \A m \in posts[p] : m.age < Delay
                      /\ page[p].beating => page[p].beat < Beat
  /\ IF tray.at = "rest" THEN tray.next < Poll ELSE tray.age < Delay
  /\ menu.at \in Waiting => menu.age < Delay
  /\ page' = [p \in Pages |-> IF page[p].beating THEN [page[p] EXCEPT !.beat = @ + 1]
                              ELSE page[p]]
  /\ posts' = [p \in Pages |-> {[m EXCEPT !.age = @ + 1] : m \in posts[p]}]
  /\ srv' = IF srv.age < Believed THEN [srv EXCEPT !.age = @ + 1] ELSE srv
  /\ tray' = IF tray.at = "rest" THEN [tray EXCEPT !.next = @ + 1]
                                 ELSE [tray EXCEPT !.age = @ + 1]
  /\ menu' = IF menu.at \in Waiting THEN [menu EXCEPT !.age = @ + 1] ELSE menu
  /\ clock' = [clock EXCEPT
       !.heard = IF \E p \in Pages : page[p].st = "listening" THEN 0 ELSE Older(@),
       !.settled = Older(@),
       !.priv = [b \in Privacy |-> IF srv.up /\ srv.privacy = b THEN 0 ELSE Older(@[b])]]
  /\ UNCHANGED changes

Next ==
  \/ \E p \in Pages :
       \/ PageOpens(p) \/ PageBeats(p) \/ PageGoes(p)
       \/ \E st \in Listener : PageTurns(p, st)
       \/ \E m \in posts[p] : ReportArrives(p, m) \/ ReportLost(p, m)
  \/ SetEnabled \/ SetPrivacy \/ ServerGoes \/ ServerComes
  \/ PollAsks \/ PollPaintsPrivacy \/ PollPaintsClap
  \/ MenuOpens \/ MenuCloses \/ MenuClicks \/ MenuSets \/ MenuReads \/ MenuPaints
  \/ Tick

Spec == Init /\ [][Next]_vars

-----------------------------------------------------------------------------
\* clap.py: the tray does not say "On" unless a page's listener was on at most the age of
\* a believed report and a round of the poll ago, however it went away.
OnWasHeard ==
  tray.clap = "On" => clock.heard <= Behind

\* Once nothing has changed for as long, the line is the truth: what the settings say,
\* and what every open page says its listener does.
AllPages(st) == \A p \in Pages : page[p].st \in {st, "gone"}
Open == \E p \in Pages : page[p].st # "gone"
LineCatchesUp ==
  clock.settled > Behind =>
    /\ ~srv.up => tray.clap = ""
    /\ srv.up /\ ~srv.enabled => tray.clap = "Off"
    /\ srv.up /\ srv.enabled /\ srv.privacy = "on" => tray.clap = "Private"
    /\ srv.up /\ srv.enabled /\ srv.privacy = "off" =>
         /\ ~Open => tray.clap = "Unavailable"
         /\ Open /\ AllPages("listening") => tray.clap = "On"
         /\ Open /\ AllPages("suspended") => tray.clap = "Paused"

\* The tray's privacy line: what it says was so a round of the poll ago at most.
PrivacyLineIsFresh ==
  \A b \in Privacy : tray.priv = b => clock.priv[b] <= Round

\* The three together.
TrayIsHonest == OnWasHeard /\ LineCatchesUp /\ PrivacyLineIsFresh

\* What the code does not keep: a click on the privacy line does what the line said.
ClickDoesWhatItSays == ~clock.wrong
=============================================================================
