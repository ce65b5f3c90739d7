----------------------------- MODULE BrowserCheck -----------------------------
(***************************************************************************)
(* One browser check (browser_qa.py): a browser is started with a profile  *)
(* of its own, its page is opened over the DevTools protocol (cdp.py), the *)
(* collector counts what the page reports while the probes run one after   *)
(* another, and everything is torn down.  The caller waits for the thread  *)
(* that does it, with a limit of its own.                                  *)
(***************************************************************************)
EXTENDS Naturals, FiniteSets

CONSTANTS
  Kids,       \* processes the browser may start
  MaxErrors,  \* bound: errors that the page reports
  MaxFaults   \* bound: things that go wrong

VARIABLES
  root,      \* the browser's process
  kid,       \* its children
  known,     \* _own: the browser's identity could be read when it started
  captured,  \* the children whose identities are held (_captured, then the targets)
  said,      \* the cleanup report: who was not seen to end, or could not be verified
  broke,     \* the cleanup report: "cleanup_failed"
  profile,   \* the profile directory exists
  at,        \* the next thing the check does
  tab,       \* what the tab shows: about:blank, the preview's page, or anything else
  defects,   \* what is wrong with the preview's page, probe by probe
  counted,   \* collector.counts: errors seen so far
  left,      \* collector.blocked_navigations is not empty
  cancel,    \* the caller's event
  late,      \* the budget is used up
  found,     \* the findings' counts
  opened,    \* findings.opened
  result,    \* findings.state, once it is decided
  told,      \* what run_checks() returned
  ended,     \* the browser ended by itself before the last look at its children (history)
  unread,    \* that look was answered with nothing (history)
  young,     \* the children started after it (history)
  faults

vars == <<root, kid, known, captured, said, broke, profile, at, tab, defects, counted, left,
          cancel, late, found, opened, result, told, ended, unread, young, faults>>

None   == "none"
Root   == "browser"
Unknown == MaxErrors + 2    \* a count that nothing set (None in the source)
Probes == {"facts", "access", "overflow"}
QaState == {"passed", "failed", "blocked", "timed_out", "engine_unavailable",
            "preview_unavailable", "cancelled"}

\* The order of _run_async(), _check_page() and stop().
Stages == <<"verify", "launch", "endpoint", "attach", "viewport", "navigate", "landed",
            "facts", "access", "overflow", "count", "cleanup", "expand", "resolve", "kill",
            "remove", "done">>
StageSet == {Stages[i] : i \in DOMAIN Stages}
After(stage) == Stages[(CHOOSE i \in DOMAIN Stages : Stages[i] = stage) + 1]
Closing  == {"cleanup", "expand", "resolve", "kill", "remove", "done"}

TypeOK ==
  /\ root \in {None, "running", "dead"}
  /\ kid \in [Kids -> {"unborn", "running", "dead"}] /\ captured \subseteq Kids
  /\ known \in BOOLEAN /\ said \subseteq Kids \cup {Root} /\ broke \in BOOLEAN
  /\ profile \in BOOLEAN /\ at \in StageSet
  /\ tab \in {"blank", "page", "error"}
  /\ defects \in [Probes -> 0..1] /\ counted \in 0..MaxErrors /\ left \in BOOLEAN
  /\ cancel \in BOOLEAN /\ late \in BOOLEAN
  /\ found \in [Probes \cup {"errors"} -> 0..MaxErrors + 2]
  /\ opened \in BOOLEAN
  /\ result \in QaState \cup {None} /\ told \in QaState \cup {None}
  /\ ended \in BOOLEAN /\ unread \in BOOLEAN /\ young \subseteq Kids
  /\ faults \in 0..MaxFaults

Init ==
  /\ root = None /\ kid = [k \in Kids |-> "unborn"] /\ captured = {}
  /\ known = FALSE /\ said = {} /\ broke = FALSE
  /\ profile = FALSE /\ at = "verify" /\ tab = "blank"
  /\ defects = [p \in Probes |-> 0]
  /\ counted = 0 /\ left = FALSE /\ cancel = FALSE /\ late = FALSE
  /\ found = [c \in Probes \cup {"errors"} |-> Unknown]
  /\ opened = FALSE /\ result = None /\ told = None
  /\ ended = FALSE /\ unread = FALSE /\ young = {} /\ faults = 0

report  == <<said, broke>>
looks   == <<ended, unread, young>>
browser == <<root, kid, known, captured, report, profile, looks>>
page    == <<tab, defects, counted, left>>
caller  == <<cancel, late, told>>

Fault == faults < MaxFaults /\ faults' = faults + 1
Fine  == UNCHANGED faults

Ends(how)     == result' = how /\ at' = "cleanup"
Goes          == at' = After(at) /\ UNCHANGED result
Live          == root = "running"
Born(ks)      == {k \in ks : kid[k] = "running"}

\* capture_descendants(): a walk down from the browser's process, which has to be there;
\* without psutil, or when the walk fails, the list is empty and nothing says so.
Shown   == captured' = (IF Live THEN captured \cup Born(Kids) ELSE captured) /\ Fine
Unshown == Live /\ Fault /\ UNCHANGED captured

-----------------------------------------------------------------------------
(* Getting to a page. *)

\* run_checks(): no preview, no engine, or cancelled before anything started.
Verify ==
  /\ at = "verify" /\ Fine
  /\ \/ /\ \E how \in {"preview_unavailable", "engine_unavailable", "blocked"} :
             told' = how /\ result' = how
        /\ at' = "done"
     \/ cancel /\ told' = "cancelled" /\ result' = "cancelled" /\ at' = "done"
     \/ ~cancel /\ Goes /\ UNCHANGED told
  /\ UNCHANGED <<browser, page, cancel, late, found, opened>>

\* What the caller is told of a thread that ends, unless it has stopped waiting.
Tells(how) == told' = IF told = None THEN how ELSE told

\* start(): the browser runs, and its identity is read or not; or it does not start, and
\* what ends the attempt says which of the two verdicts it is.
Launch ==
  /\ at = "launch" /\ profile' = TRUE
  /\ \/ root' = "running" /\ Goes /\ known' = TRUE /\ Fine
     \/ root' = "running" /\ Goes /\ known' = FALSE /\ Fault
     \/ /\ Fault /\ \E how \in {"engine_unavailable", "failed"} : Ends(how)
        /\ UNCHANGED <<root, known>>
  /\ UNCHANGED <<kid, captured, report, looks, page, caller, found, opened>>

\* mkdtemp() and the browser's object are made before the try: when one of them fails the
\* thread's own handler answers, and a profile directory that was made stays.
NeverLaunches ==
  /\ at = "launch" /\ Fault
  /\ profile' \in BOOLEAN /\ result' = "failed" /\ at' = "done" /\ Tells("failed")
  /\ UNCHANGED <<root, kid, known, captured, report, looks, page, cancel, late, found, opened>>

\* DevToolsActivePort: the browser names its port, ends, or says nothing; what it wrote
\* to stderr makes the difference between a missing engine and a failed check.
Endpoint ==
  /\ at = "endpoint"
  /\ \/ Live /\ Goes /\ (Shown \/ Unshown)
     \/ /\ UNCHANGED captured
        /\ \/ ~Live /\ Fine /\ \E how \in {"engine_unavailable", "failed"} : Ends(how)
           \/ Live /\ Fault /\ \E how \in {"engine_unavailable", "timed_out"} : Ends(how)
  /\ UNCHANGED <<root, kid, known, report, profile, looks, page, caller, found, opened>>

\* command(): answered, refused, late, or broken off because the browser is gone.
Breaks ==
  \/ Live /\ Fault /\ Ends("timed_out")
  \/ Live /\ Fault /\ Ends("failed")
  \/ ~Live /\ Fine /\ \E how \in {"engine_unavailable", "failed"} : Ends(how)

\* guard(): between the steps, cancellation first and the budget second.
Guarded ==
  IF cancel THEN Ends("cancelled") ELSE IF late THEN Ends("timed_out") ELSE Goes

\* open_page() and deny_every_permission(), then the first viewport.
Attach ==
  /\ at \in {"attach", "viewport"}
  /\ \/ Live /\ Fine /\ (IF at = "viewport" THEN Guarded ELSE Goes)
     \/ Breaks
  /\ UNCHANGED <<browser, page, caller, found, opened>>

\* Page.navigate: loaded, refused by the boundary, or not loaded.
Navigate ==
  /\ at = "navigate"
  /\ \/ Live /\ Fine /\ tab' = "page" /\ defects' \in [Probes -> 0..1] /\ Guarded
     \/ Live /\ left /\ Fault /\ tab' = "error" /\ Ends("blocked") /\ UNCHANGED defects
     \/ Live /\ ~left /\ Fault /\ tab' = "error" /\ Ends("failed") /\ UNCHANGED defects
     \/ Breaks /\ UNCHANGED <<tab, defects>>
  /\ UNCHANGED <<browser, counted, left, caller, found, opened>>

\* Where the tab is now is read from the tab.  about:blank passes for the preview.  Any
\* other address stops the check, and is noted unless it is one of the inert kinds
\* (_note_foreign); an expression that threw answers the empty address.
Landed ==
  /\ at = "landed"
  /\ \/ Live /\ Fine /\ tab # "error" /\ Guarded /\ UNCHANGED left
     \/ Live /\ Fine /\ tab = "error" /\ Ends("blocked") /\ left' \in {left, TRUE}
     \/ Live /\ Fault /\ Ends("blocked") /\ left' = TRUE
     \/ Breaks /\ UNCHANGED left
  /\ UNCHANGED <<browser, tab, defects, counted, caller, found, opened>>

-----------------------------------------------------------------------------
(* Looking at it. *)

\* _evaluate(): a probe that throws answers nothing, and then what it would have listed
\* is an empty list or an absent number.
Nothing(probe) == IF probe = "facts" THEN Unknown ELSE 0

Sees(probe) == IF tab = "page" THEN defects[probe] ELSE 0

Probe ==
  /\ at \in Probes
  /\ \/ Live /\ Fine /\ found' = [found EXCEPT ![at] = Sees(at)] /\ Guarded
     \/ Live /\ Fault /\ found' = [found EXCEPT ![at] = Nothing(at)] /\ Guarded
     \/ Breaks /\ UNCHANGED found
  /\ UNCHANGED <<browser, page, caller, opened>>

Number(c)    == IF c = Unknown THEN 0 ELSE c
ProblemCount == counted + Number(found["facts"]) + Number(found["access"])
                        + Number(found["overflow"])

\* Mutated form of Count: the problems are counted before `opened` is set, so that there
\* are none to count.
CountUnopened ==
  /\ at = "count" /\ Fine
  /\ found' = [found EXCEPT !["errors"] = counted] /\ opened' = TRUE
  /\ Ends("passed")
  /\ UNCHANGED <<browser, page, caller>>

\* The end of _check_page(): opened, the collector's totals, the verdict.
Count ==
  /\ at = "count" /\ Fine
  /\ opened' = TRUE
  /\ found' = [found EXCEPT !["errors"] = counted]
  /\ Ends(IF ProblemCount = 0 THEN "passed" ELSE "failed")
  /\ UNCHANGED <<browser, page, caller>>

-----------------------------------------------------------------------------
(* finally: _OwnedBrowser.stop(). *)

Targets    == captured \cup (IF known THEN {Root} ELSE {})
Running(p) == IF p = Root THEN Live ELSE kid[p] = "running"

\* The last look at the browser's children is the clean-up's own when there is a root to
\* walk down from, and otherwise the capture before it.
Looked == at \in {"resolve", "kill", "remove", "done"} \/ (at = "expand" /\ ~known)

closing == <<page, cancel, late, found, opened, result>>

\* Mutated form of Cleanup: stop() relies on what was captured at the start.
CleanupUnlooked ==
  /\ at = "cleanup" /\ at' = "expand" /\ Fine
  /\ UNCHANGED <<root, kid, known, captured, report, profile, looks, told, closing>>

\* recapture().
Cleanup ==
  /\ at = "cleanup" /\ at' = "expand"
  /\ \/ Shown /\ unread' = FALSE
     \/ Unshown /\ unread' = TRUE
  /\ UNCHANGED <<root, kid, known, report, profile, ended, young, told, closing>>

\* stop(): an exception anywhere in the clean-up leaves a report without a process in it.
Raises == Fault /\ broke' = TRUE /\ said' = {} /\ at' = "remove"

\* terminate_identities(), when it has anybody to end: the children of its targets are
\* looked for once more.
Expand ==
  /\ at = "expand"
  /\ \/ Targets = {} /\ at' = "remove" /\ Fine /\ UNCHANGED <<captured, report, unread>>
     \/ /\ Targets # {} /\ at' = "resolve" /\ UNCHANGED report
        /\ \/ known /\ Shown /\ unread' = FALSE
           \/ known /\ Unshown /\ unread' = TRUE
           \/ ~known /\ Fine /\ UNCHANGED <<captured, unread>>
     \/ Targets # {} /\ Raises /\ UNCHANGED <<captured, unread>>
  /\ UNCHANGED <<root, kid, known, profile, ended, young, told, closing>>

\* _resolve(): a process whose identity cannot be proved is reported and left alone.
Resolve ==
  /\ at = "resolve" /\ UNCHANGED broke /\ at' = "kill"
  /\ \/ said' = {} /\ Fine
     \/ \E unproved \in SUBSET {p \in Targets : Running(p)} \ {{}} : said' = unproved /\ Fault
  /\ UNCHANGED <<root, kid, known, captured, profile, looks, told, closing>>

EndOf(dying) ==
  /\ root' = (IF Root \in dying /\ Live THEN "dead" ELSE root)
  /\ kid' = [k \in Kids |-> IF k \in dying /\ kid[k] = "running" THEN "dead" ELSE kid[k]]

\* terminate, wait, kill, wait: who was not seen to exit is a survivor, whether or not it
\* still runs.
Kill ==
  /\ at = "kill"
  /\ \/ EndOf(Targets \ said) /\ at' = "remove" /\ Fine /\ UNCHANGED report
     \/ /\ \E unseen \in SUBSET (Targets \ said) \ {{}} : \E alive \in {unseen, {}} :
             said' = said \cup unseen /\ EndOf(Targets \ (said \cup alive))
        /\ at' = "remove" /\ Fault /\ UNCHANGED broke
     \/ Raises /\ \E alive \in SUBSET (Targets \ said) : EndOf(Targets \ (said \cup alive))
  /\ UNCHANGED <<known, captured, profile, looks, told, closing>>

\* _remove_profile(): rmtree() leaves what it cannot remove, such as a file in use, and
\* says nothing.
RemoveProfile ==
  /\ at = "remove" /\ at' = "done" /\ Tells(result)
  /\ \/ profile' = FALSE /\ Fine
     \/ profile' = TRUE /\ (\E p \in Kids \cup {Root} : Running(p)) /\ Fine
     \/ profile' = TRUE /\ Fault
  /\ UNCHANGED <<root, kid, known, captured, report, looks, closing>>

-----------------------------------------------------------------------------
(* The page, the browser, the caller and the clock. *)

\* Events, for as long as there is a session to bring them: an error is reported.
PageReports ==
  /\ Live /\ tab = "page" /\ at \notin Closing /\ counted < MaxErrors
  /\ counted' = counted + 1
  /\ UNCHANGED <<browser, at, tab, defects, left, caller, found, opened, result, faults>>

\* The page goes, or sends a window or a frame, where it may not; or it goes to an
\* address that _note_foreign() does not note: about:blank, blob:, or the browser's error
\* page, which a failed reload of the preview shows too.
PageLeaves ==
  /\ Live /\ tab = "page" /\ at \notin Closing /\ Fault
  /\ \/ left' = TRUE /\ tab' \in {"page", "error"}
     \/ left' = left /\ tab' \in {"blank", "error"}
  /\ UNCHANGED <<browser, at, defects, counted, caller, found, opened, result>>

\* A redirect by the preview itself, while the navigation is under way.
Redirected ==
  /\ Live /\ at = "navigate" /\ Fault /\ ~left
  /\ left' = TRUE
  /\ UNCHANGED <<browser, at, tab, defects, counted, caller, found, opened, result>>

BrowserStarts(k) ==
  /\ Live /\ kid[k] = "unborn" /\ kid' = [kid EXCEPT ![k] = "running"]
  /\ young' = (IF Looked THEN young \cup {k} ELSE young)
  /\ UNCHANGED <<root, known, captured, report, profile, ended, unread, at, page, caller,
                 found, opened, result, faults>>

\* The browser ends by itself, and its children with it or after it.
BrowserEnds ==
  /\ \/ Live /\ Fault /\ root' = "dead" /\ ended' = (ended \/ ~Looked) /\ UNCHANGED kid
     \/ /\ root = "dead" /\ Fine /\ UNCHANGED <<root, ended>>
        /\ \E k \in Kids : kid[k] = "running" /\ kid' = [kid EXCEPT ![k] = "dead"]
  /\ UNCHANGED <<known, captured, report, profile, unread, young, at, page, caller, found,
                 opened, result>>

Cancel ==
  /\ ~cancel /\ at # "done" /\ cancel' = TRUE
  /\ UNCHANGED <<browser, at, page, late, told, found, opened, result, faults>>

BudgetEnds ==
  /\ ~late /\ at \notin {"verify", "done"} /\ Fault /\ late' = TRUE
  /\ UNCHANGED <<browser, at, page, cancel, told, found, opened, result>>

\* join(MAX_RUN_SECONDS + 30): the caller is answered, the thread goes on.
JoinEnds ==
  /\ late /\ told = None /\ at # "done" /\ told' = "timed_out"
  /\ UNCHANGED <<browser, at, page, cancel, late, found, opened, result, faults>>

Steps ==
  \/ Verify \/ Launch \/ NeverLaunches \/ Endpoint \/ Attach \/ Navigate \/ Landed
  \/ Probe \/ Count \/ Cleanup \/ Expand \/ Resolve \/ Kill \/ RemoveProfile

Next ==
  \/ Steps \/ PageReports \/ PageLeaves \/ Redirected \/ BrowserEnds
  \/ Cancel \/ BudgetEnds \/ JoinEnds
  \/ \E k \in Kids : BrowserStarts(k)

Spec == Init /\ [][Next]_vars

-----------------------------------------------------------------------------
(* Properties *)

\* Seven outcomes, each said only of what happened: passed for a check that opened a tab
\* and met nothing until it counted, blocked for one whose page asked for another address
\* or had left the preview's, cancelled and timed out for a check that was
\* (browser_qa.py, browser_findings.py).
VerdictIsEarned ==
  /\ result = "passed" =>
       /\ opened /\ found["errors"] = 0
       /\ \A p \in Probes : found[p] \in {0, Unknown}
  /\ result = "blocked" /\ root # None => left \/ tab = "error"
  /\ result = "cancelled" => cancel
  /\ opened => result \in {"passed", "failed"} /\ found["errors"] # Unknown
  /\ ~opened => found["errors"] = Unknown

\* Whoever of the browser's processes still runs when the check is over is in its cleanup
\* report, or the report says that the clean-up failed.  Not the browser, if its identity
\* could not be read when it started; and not a child that no look showed: started after
\* the last one, or that one failed or came when the browser had ended
\* (_OwnedBrowser.stop, process_tree.terminate_identities).
LeftoversAreReported ==
  at = "done" =>
    /\ Live /\ known => Root \in said \/ broke
    /\ \A k \in Kids : kid[k] = "running" =>
         \/ k \in said \/ broke
         \/ k \notin captured /\ (ended \/ unread \/ k \in young)

\* A check says only what happened, and its report what it has left behind.
CheckIsHonest == VerdictIsEarned /\ LeftoversAreReported

\* "Launch, check, and tear down. Always tears down." (browser_qa.py:606).  Violated: a
\* browser whose identity could not be read is no target of the clean-up, which then has
\* an empty report.
AlwaysTearsDown == at = "done" /\ said = {} /\ ~broke => ~Live

\* "The profile is deleted after every run, not reused." (browser_qa.py:288).  Violated:
\* files in use stay, and so does a directory whose browser was never made.
ProfileIsDeleted == at = "done" => ~profile

\* "The page tried to navigate away from this task's preview" (browser_qa.py:715), said of
\* every blocked check that had a browser.  Violated: a reload of the preview that failed.
BlockedTriedToLeave == result = "blocked" /\ root # None => left

\* "A count is never invented.  Every number starts as None and is set only by something
\* that looked" (browser_qa.py:29-30).  Violated: a probe that threw is an empty list.
CountsAreNeverInvented ==
  tab = "page" => \A p \in Probes : found[p] # Unknown => found[p] = defects[p]

\* A page that tried to navigate away is Blocked (QaState, _left_the_preview).  Violated:
\* where the tab is gets asked once, before the probes.
LeavingIsBlocked == result = "passed" => ~left
=============================================================================
