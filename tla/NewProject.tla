----------------------------- MODULE NewProject -----------------------------
(***************************************************************************)
(* Choosing a folder and creating a project: the page's part (coding.js),  *)
(* the window's dialog (folder_picker.py), and the server's broker of      *)
(* folder requests, plans and registry (folder_requests.py,                *)
(* project_plan.py, templates.py, projects.py).  The server's handlers run *)
(* on one event loop, so one handler is a step, except create, which the   *)
(* world outside can overtake; the page's calls and their answers are      *)
(* steps of their own.                                                     *)
(***************************************************************************)
EXTENDS Integers, FiniteSets, Sequences

CONSTANTS
  Requests,     \* folder requests that can be minted
  Plans,        \* creation plans that can be made
  Folders,      \* folders, each with one possible new project in it
  MaxPosts,     \* bound: forms submitted and buttons pressed
  MaxFaults,    \* bound: failures, and changes from outside
  MaxProjects,  \* MAX_PROJECTS
  MaxPlansKept  \* MAX_PLANS_KEPT

VARIABLES
  req,      \* broker._requests
  plan,     \* every plan made, and whether the store still has it
  kept,     \* _PlanStore._plans, oldest first
  listed,   \* the registry's file: roots of projects
  readable, \* whether the registry's file can be read
  world,    \* what is at the place where a folder's new project would be
  call,     \* pickFolder() under way for a request
  dialogs,  \* requests whose native dialog is open
  pick,     \* picker.add.requestId and picker.new.requestId
  shown,    \* state.creationPlan
  enabled,  \* the Create button
  post,     \* the page's other calls, in the order they were made
  creating, \* the create call that the server is carrying out
  faults,
  agreed,   \* plans that were on screen when Create was pressed (history)
  spent,    \* how often a selection was used (history)
  spoilt,   \* somebody else's folder was written into (history)
  said      \* plans that the page said were cancelled with nothing created (history)

vars == <<req, plan, kept, listed, readable, world, call, dialogs, pick, shown,
          enabled, post, creating, faults, agreed, spent, spoilt, said>>

broker   == <<req, call, dialogs, pick>>
history  == <<agreed, spent, spoilt, said>>
registry == <<listed, readable>>

None     == "none"
Purposes == {"add", "new"}
Posts    == 1..MaxPosts
Idle     == [kind |-> None, id |-> None, typed |-> None, at |-> None]
Done     == [Idle EXCEPT !.kind = "done"]
Calls    == [kind : {None, "done", "add", "plan", "create", "cancel"},
             id : Requests \cup Plans \cup {None}, typed : Folders \cup {None},
             at : {None, "sent", "orphan", "ok", "error"}]

TypeOK ==
  /\ req \in [Requests -> [state : {None, "pending", "selected", "cancelled", "expired", "failed"},
                           purpose : Purposes, path : Folders \cup {None},
                           consumed : BOOLEAN, old : BOOLEAN]]
  /\ plan \in [Plans -> [state : {None, "kept", "gone"}, parent : Folders \cup {None},
                         absent : BOOLEAN, consumed : BOOLEAN, old : BOOLEAN]]
  /\ Len(kept) <= MaxPlansKept
  /\ listed \subseteq Folders \X {"root", "new"} /\ readable \in BOOLEAN
  /\ world \in [Folders -> {"absent", "theirs", "half", "ours"}]
  /\ call \in [Requests -> {None, "choosing", "reading"}]
  /\ dialogs \subseteq Requests
  /\ pick \in [Purposes -> Requests \cup {None}]
  /\ shown \in Plans \cup {None} /\ enabled \in BOOLEAN
  /\ post \in [Posts -> Calls]
  /\ creating \in [post : Posts \cup {0}, at : {None, "checked", "made", "written"}]
  /\ faults \in 0..MaxFaults
  /\ agreed \subseteq Plans /\ said \subseteq Plans
  /\ spent \in [Requests -> 0..MaxPosts] /\ spoilt \in BOOLEAN

NoRequest == [state |-> None, purpose |-> "add", path |-> None,
              consumed |-> FALSE, old |-> FALSE]
NoPlan    == [state |-> None, parent |-> None, absent |-> FALSE,
              consumed |-> FALSE, old |-> FALSE]
NotCreating == [post |-> 0, at |-> None]

Init ==
  /\ req = [r \in Requests |-> NoRequest] /\ plan = [p \in Plans |-> NoPlan]
  /\ kept = <<>> /\ listed = {} /\ readable = TRUE
  /\ world \in [Folders -> {"absent", "theirs"}]
  /\ call = [r \in Requests |-> None] /\ dialogs = {}
  /\ pick = [w \in Purposes |-> None]
  /\ shown = None /\ enabled = FALSE
  /\ post = [k \in Posts |-> Idle] /\ creating = NotCreating
  /\ faults = 0
  /\ agreed = {} /\ spent = [r \in Requests |-> 0] /\ spoilt = FALSE /\ said = {}

Fault == faults < MaxFaults /\ faults' = faults + 1
Fine  == UNCHANGED faults

-----------------------------------------------------------------------------
(* Browse: mint, choose, report, read. *)

Idling == creating = NotCreating

\* _sweep_locked(): pending requests that timed out are expired.
Swept == [r \in Requests |->
  IF req[r].state = "pending" /\ req[r].old THEN [req[r] EXCEPT !.state = "expired"]
  ELSE req[r]]

\* create(): one pending request at a time.
MayMint == \A r \in Requests : Swept[r].state # "pending"

Browse(w, r) ==
  /\ Idling /\ req[r].state = None /\ MayMint
  /\ req' = [Swept EXCEPT ![r] = [NoRequest EXCEPT !.state = "pending", !.purpose = w]]
  /\ call' = [call EXCEPT ![r] = "choosing"]
  /\ Fine
  /\ UNCHANGED <<plan, kept, registry, world, dialogs, pick, shown, enabled, post,
                 creating, history>>

\* Mutated form of OpenDialog: the window relies on the server for one dialog at a time.
OpenDialogWithoutLock(r) ==
  /\ call[r] = "choosing" /\ r \notin dialogs
  /\ dialogs' = dialogs \cup {r} /\ Fine
  /\ UNCHANGED <<req, plan, kept, registry, world, call, pick, shown, enabled, post,
                 creating, history>>

\* choose_folder() in the window: refused while a dialog is open.
OpenDialog(r) ==
  /\ call[r] = "choosing" /\ r \notin dialogs
  /\ IF dialogs = {} THEN dialogs' = {r} /\ UNCHANGED call
     ELSE call' = [call EXCEPT ![r] = "reading"] /\ UNCHANGED dialogs
  /\ Fine
  /\ UNCHANGED <<req, plan, kept, registry, world, pick, shown, enabled, post,
                 creating, history>>

\* resolve(): once, and not after the request timed out.  An empty outcome is a cancel.
Resolve(r, outcome, path) ==
  req' = IF req[r].state # "pending" THEN req
         ELSE IF req[r].old THEN [req EXCEPT ![r].state = "expired"]
         ELSE [req EXCEPT ![r].state = outcome, ![r].path = path]

\* The dialog is answered; the report reaches the server or is lost.
Answered(r) ==
  /\ r \in dialogs /\ dialogs' = dialogs \ {r}
  /\ call' = [call EXCEPT ![r] = IF @ = "choosing" THEN "reading" ELSE @]
  /\ \/ Idling /\ Fine /\ \E f \in Folders : Resolve(r, "selected", f)
     \/ Idling /\ Fine /\ \E o \in {"cancelled", "failed"} : Resolve(r, o, None)
     \/ Fault /\ UNCHANGED req
  /\ UNCHANGED <<plan, kept, registry, world, pick, shown, enabled, post, creating, history>>

\* The bridge's call is rejected: the page cancels the request.
BridgeFails(r) ==
  /\ Idling /\ Fault
  /\ call[r] = "choosing" /\ r \notin dialogs
  /\ call' = [call EXCEPT ![r] = None]
  /\ req' = IF req[r].state = "pending" THEN [req EXCEPT ![r].state = "cancelled"] ELSE req
  /\ UNCHANGED <<plan, kept, registry, world, dialogs, pick, shown, enabled, post,
                 creating, history>>

\* The page reads the server's record; anything but a selection leaves its choice alone.
ReadOutcome(r) ==
  /\ Idling /\ call[r] = "reading"
  /\ req' = IF req[r].state = "pending" /\ req[r].old
              THEN [req EXCEPT ![r].state = "expired"] ELSE req
  /\ pick' = IF req[r].state = "selected" THEN [pick EXCEPT ![req[r].purpose] = r] ELSE pick
  /\ call' = [call EXCEPT ![r] = None]
  /\ Fine
  /\ UNCHANGED <<plan, kept, registry, world, dialogs, shown, enabled, post, creating, history>>

-----------------------------------------------------------------------------
(* The page's calls. *)

Send(c) ==
  \E k \in Posts :
    /\ post[k] = Idle /\ \A j \in 1..(k - 1) : post[j] # Idle
    /\ post' = [post EXCEPT ![k] = c]

\* A call reaches the server although the page that made it was left meanwhile.
Arrived(k, kind) == post[k].kind = kind /\ post[k].at \in {"sent", "orphan"}
Heard(k, c)      == post' = [post EXCEPT ![k] = IF @.at = "orphan" THEN Done ELSE c]
Reply(k, what)   == Heard(k, [post[k] EXCEPT !.at = what])

\* Submitting either form; the selection is preferred to the typed path.
Submit(kind, w, typed) ==
  /\ (pick[w] = None) = (typed # None)
  /\ Send([kind |-> kind, id |-> pick[w], typed |-> typed, at |-> "sent"])

SubmitAdd(typed) ==
  /\ Submit("add", "add", typed) /\ Fine
  /\ UNCHANGED <<broker, plan, kept, registry, world, shown, enabled, creating, history>>

SubmitNew(typed) ==
  /\ Submit("plan", "new", typed) /\ Fine
  /\ shown' = None
  /\ UNCHANGED <<broker, plan, kept, registry, world, enabled, creating, history>>

\* consume(): the chosen folder, once, before it times out.
Consume(r) ==
  /\ req[r].state = "selected" /\ ~req[r].consumed /\ ~req[r].old
  /\ req' = [req EXCEPT ![r].consumed = TRUE]
  /\ spent' = [spent EXCEPT ![r] = @ + 1]

\* consume() on a selection that is spent, timed out or missing.
Refuse(r) ==
  /\ ~(req[r].state = "selected" /\ ~req[r].consumed /\ ~req[r].old)
  /\ req' = IF req[r].state = "selected" /\ ~req[r].consumed
              THEN [req EXCEPT ![r].state = "expired"] ELSE req
  /\ UNCHANGED spent

Place(c) == IF c.id = None THEN c.typed ELSE req[c.id].path

\* list_projects(): a list that cannot be read counts as empty.
Projects == IF readable THEN listed ELSE {}

\* add(): a failed save is not noticed.
Register(root) ==
  /\ root \in Projects \/ Cardinality(Projects) < MaxProjects
  /\ \/ Fine /\ listed' = IF root \in Projects THEN listed ELSE Projects \cup {root}
     \/ Fault /\ UNCHANGED listed

ListIsFull(root) == root \notin Projects /\ Cardinality(Projects) >= MaxProjects

HandleAdd(k) ==
  /\ Idling /\ Arrived(k, "add")
  /\ \/ /\ post[k].id # None /\ Refuse(post[k].id)
        /\ Reply(k, "error") /\ Fine /\ UNCHANGED listed
     \/ /\ IF post[k].id = None THEN UNCHANGED <<req, spent>> ELSE Consume(post[k].id)
        /\ LET root == <<Place(post[k]), "root">>
           IN \/ Register(root) /\ Reply(k, "ok")
              \/ ListIsFull(root) /\ Reply(k, "error") /\ Fine /\ UNCHANGED listed
              \/ Fault /\ Reply(k, "error") /\ UNCHANGED listed
  /\ UNCHANGED <<plan, kept, readable, world, call, dialogs, pick, shown, enabled,
                 creating, agreed, spoilt, said>>

\* The answer to Add, good or bad, clears the choice.
AnswerAdd(k) ==
  /\ post[k].kind = "add" /\ post[k].at \in {"ok", "error"}
  /\ post' = [post EXCEPT ![k] = Done]
  /\ pick' = [pick EXCEPT !["add"] = None]
  /\ Fine
  /\ UNCHANGED <<req, plan, kept, registry, world, call, dialogs, shown, enabled,
                 creating, history>>

\* build_plan(): reads the place and remembers what was there; the oldest plan may go.
Remembered(p) ==
  LET all == Append(kept, p)
  IN IF Len(all) > MaxPlansKept THEN Tail(all) ELSE all

HandlePlan(k, p) ==
  /\ Idling /\ Arrived(k, "plan") /\ plan[p].state = None
  /\ \/ /\ post[k].id # None /\ Refuse(post[k].id)
        /\ Reply(k, "error") /\ Fine /\ UNCHANGED <<plan, kept>>
     \/ /\ IF post[k].id = None THEN UNCHANGED <<req, spent>> ELSE Consume(post[k].id)
        /\ \/ /\ Fine
              /\ LET f    == Place(post[k])
                     new  == Remembered(p)
                     made == [plan EXCEPT ![p] = [NoPlan EXCEPT !.state = "kept", !.parent = f,
                                                  !.absent = (world[f] = "absent")]]
                 IN /\ kept' = new
                    /\ plan' = [q \in Plans |->
                         IF made[q].state = "kept" /\ \A i \in 1..Len(new) : new[i] # q
                           THEN [made[q] EXCEPT !.state = "gone"] ELSE made[q]]
              /\ Heard(k, [post[k] EXCEPT !.at = "ok", !.id = p])
           \/ Fault /\ Reply(k, "error") /\ UNCHANGED <<plan, kept>>
  /\ UNCHANGED <<registry, world, call, dialogs, pick, shown, enabled, creating,
                 agreed, spoilt, said>>

\* The plan is shown, whichever was shown before; Create is offered if it can work.
AnswerPlan(k) ==
  /\ post[k].kind = "plan" /\ post[k].at \in {"ok", "error"}
  /\ IF post[k].at = "ok"
       THEN /\ shown' = post[k].id
            /\ enabled' = plan[post[k].id].absent
       ELSE UNCHANGED <<shown, enabled>>
  /\ post' = [post EXCEPT ![k] = Done]
  /\ pick' = [pick EXCEPT !["new"] = None]
  /\ Fine
  /\ UNCHANGED <<req, plan, kept, registry, world, call, dialogs, creating, history>>

-----------------------------------------------------------------------------
(* Create. *)

PressCreate ==
  /\ shown # None /\ enabled
  /\ Send([kind |-> "create", id |-> shown, typed |-> None, at |-> "sent"])
  /\ enabled' = FALSE /\ agreed' = agreed \cup {shown}
  /\ Fine
  /\ UNCHANGED <<broker, plan, kept, registry, world, shown, creating, spent, spoilt, said>>

\* check_still_valid(): unspent, in time, and nothing is at the place now either.
StillValid(p) ==
  /\ plan[p].state = "kept" /\ ~plan[p].consumed /\ ~plan[p].old
  /\ plan[p].absent /\ world[plan[p].parent] = "absent"

HandleCreate(k) ==
  /\ Idling /\ Arrived(k, "create")
  /\ IF StillValid(post[k].id)
       THEN /\ creating' = [post |-> k, at |-> "checked"]
            /\ plan' = [plan EXCEPT ![post[k].id].consumed = TRUE]
            /\ UNCHANGED post
       ELSE Reply(k, "error") /\ UNCHANGED <<creating, plan>>
  /\ Fine
  /\ UNCHANGED <<broker, kept, registry, world, shown, enabled, history>>

Creating(stage) == creating.post # 0 /\ creating.at = stage
PlanOf          == post[creating.post].id
PlaceOf         == plan[PlanOf].parent

\* A creation that fails leaves the plan unspent.
CreateFails ==
  /\ Reply(creating.post, "error") /\ creating' = NotCreating
  /\ plan' = [plan EXCEPT ![PlanOf].consumed = FALSE]

\* create(): mkdir without exist_ok, then the files, then the registry.
MakeFolder ==
  /\ Creating("checked")
  /\ IF world[PlaceOf] = "absent"
       THEN /\ world' = [world EXCEPT ![PlaceOf] = "half"]
            /\ creating' = [creating EXCEPT !.at = "made"] /\ UNCHANGED <<post, plan>>
       ELSE CreateFails /\ UNCHANGED world
  /\ spoilt' = (spoilt \/ (world[PlaceOf] = "theirs" /\ world'[PlaceOf] # "theirs"))
  /\ Fine
  /\ UNCHANGED <<broker, kept, registry, shown, enabled, agreed, spent, said>>

WriteFiles ==
  /\ Creating("made")
  /\ \/ /\ world[PlaceOf] = "half" /\ Fine
        /\ world' = [world EXCEPT ![PlaceOf] = "ours"]
        /\ creating' = [creating EXCEPT !.at = "written"] /\ UNCHANGED <<post, plan>>
     \/ Fault /\ CreateFails /\ UNCHANGED world
  /\ UNCHANGED <<broker, kept, registry, shown, enabled, history>>

RegisterNew ==
  LET root == <<PlaceOf, "new">>
  IN /\ Creating("written")
     /\ \/ /\ Register(root)
           /\ Reply(creating.post, "ok") /\ creating' = NotCreating /\ UNCHANGED plan
        \/ ListIsFull(root) /\ CreateFails /\ Fine /\ UNCHANGED listed
     /\ UNCHANGED <<broker, kept, readable, world, shown, enabled, history>>

AnswerCreate(k) ==
  /\ post[k].kind = "create" /\ post[k].at \in {"ok", "error"}
  /\ IF post[k].at = "ok" THEN shown' = None /\ UNCHANGED enabled
     ELSE enabled' = TRUE /\ UNCHANGED shown
  /\ post' = [post EXCEPT ![k] = Done]
  /\ Fine
  /\ UNCHANGED <<broker, plan, kept, registry, world, creating, history>>

\* Cancel or Change: the plan is hidden at once and the server forgets it.
AbandonPlan ==
  /\ shown # None /\ shown' = None
  /\ Send([kind |-> "cancel", id |-> shown, typed |-> None, at |-> "sent"])
  /\ Fine
  /\ UNCHANGED <<broker, plan, kept, registry, world, enabled, creating, history>>

HandleCancel(k) ==
  /\ Idling /\ Arrived(k, "cancel")
  /\ plan' = [plan EXCEPT ![post[k].id].state = "gone"]
  /\ kept' = SelectSeq(kept, LAMBDA p : p # post[k].id)
  /\ Reply(k, "ok") /\ Fine
  /\ UNCHANGED <<broker, registry, world, shown, enabled, creating, history>>

AnswerCancel(k) ==
  /\ post[k].kind = "cancel" /\ post[k].at = "ok"
  /\ post' = [post EXCEPT ![k] = Done]
  /\ said' = said \cup {post[k].id}
  /\ Fine
  /\ UNCHANGED <<broker, plan, kept, registry, world, shown, enabled, creating,
                 agreed, spent, spoilt>>

-----------------------------------------------------------------------------
(* Everybody else. *)

\* Another program makes or removes a folder, or holds the registry's file.
Outside ==
  /\ Fault
  /\ \/ \E f \in Folders :
          /\ world' = [world EXCEPT ![f] = IF @ = "absent" THEN "theirs" ELSE "absent"]
          /\ world[f] \in {"absent", "theirs"}
          /\ UNCHANGED readable
     \/ readable' = ~readable /\ UNCHANGED world
  /\ UNCHANGED <<broker, plan, kept, listed, shown, enabled, post, creating, history>>

Removes(root) ==
  /\ Idling /\ readable /\ root \in listed
  /\ listed' = listed \ {root} /\ Fine
  /\ UNCHANGED <<broker, plan, kept, readable, world, shown, enabled, post, creating, history>>

\* REQUEST_TTL_SECONDS and PLAN_TTL_SECONDS.
TimeOut ==
  /\ \/ \E r \in Requests : /\ req[r].state \in {"pending", "selected"} /\ ~req[r].old
                            /\ req' = [req EXCEPT ![r].old = TRUE] /\ UNCHANGED plan
     \/ \E p \in Plans : /\ plan[p].state = "kept" /\ ~plan[p].old
                         /\ plan' = [plan EXCEPT ![p].old = TRUE] /\ UNCHANGED req
  /\ Fault
  /\ UNCHANGED <<kept, registry, world, call, dialogs, pick, shown, enabled, post,
                 creating, history>>

\* The page is loaded again: it forgets, while the dialog and its calls go on.
Reload ==
  /\ Fault
  /\ call' = [r \in Requests |-> None] /\ pick' = [w \in Purposes |-> None]
  /\ shown' = None /\ enabled' = FALSE
  /\ post' = [k \in Posts |->
       CASE post[k].at \in {"sent", "orphan"} -> [post[k] EXCEPT !.at = "orphan"]
         [] post[k].at \in {"ok", "error"}    -> Done
         [] OTHER                             -> post[k]]
  /\ UNCHANGED <<req, plan, kept, registry, world, dialogs, creating, history>>

Browsing ==
  \E r \in Requests :
    \/ \E w \in Purposes : Browse(w, r)
    \/ OpenDialog(r) \/ Answered(r) \/ BridgeFails(r) \/ ReadOutcome(r)

Submitting ==
  \/ \E typed \in Folders \cup {None} : SubmitAdd(typed) \/ SubmitNew(typed)
  \/ PressCreate \/ AbandonPlan

Handling ==
  \/ \E k \in Posts : \/ HandleAdd(k) \/ HandleCreate(k) \/ HandleCancel(k)
                      \/ \E p \in Plans : HandlePlan(k, p)
  \/ MakeFolder \/ WriteFiles \/ RegisterNew

Answering ==
  \E k \in Posts : AnswerAdd(k) \/ AnswerPlan(k) \/ AnswerCreate(k) \/ AnswerCancel(k)

Next ==
  \/ Browsing \/ Submitting \/ Handling \/ Answering
  \/ Outside \/ TimeOut \/ Reload
  \/ \E root \in listed : Removes(root)

Spec == Init /\ [][Next]_vars

-----------------------------------------------------------------------------
(* Properties *)

\* The thing the user read is the thing that runs: nothing is written except by a plan
\* that was on screen when Create was pressed, where that plan said, and never into a
\* folder that is somebody's work (project_plan.py).
CreatedAsShown ==
  /\ ~spoilt
  /\ \A f \in Folders : world[f] \in {"half", "ours"} =>
       \E p \in agreed : plan[p].parent = f /\ plan[p].absent

\* A folder that was chosen is used once, for what the dialog was opened for, and no
\* second dialog is opened over the first (folder_requests.py, folder_picker.py).
SelectionsHold ==
  /\ \A r \in Requests : spent[r] <= 1
  /\ \A w \in Purposes : pick[w] # None =>
       req[pick[w]].purpose = w /\ req[pick[w]].path # None
  /\ Cardinality(dialogs) <= 1

\* What is chosen is used once, and what is created is what was shown.
ProjectsAreAsAgreed == CreatedAsShown /\ SelectionsHold

\* "Cancelled. Nothing was created." (coding.js).  Violated: Cancel can be pressed while
\* the create call is under way.
CancelledMeansNothing ==
  \A p \in said : \A f \in Folders :
    world[f] = "ours" /\ plan[p].parent = f => \E q \in agreed \ {p} : plan[q].parent = f

\* A creation that failed can be confirmed again once the cause is gone (project_plan.py:
\* 406-408).  Violated: the folder that was begun stands in the way of its own plan.
FailedCanBeRetried ==
  \A f \in Folders : world[f] = "half" => creating.at = "made"
=============================================================================
