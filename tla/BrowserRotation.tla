---------------------------- MODULE BrowserRotation ----------------------------
(***************************************************************************)
(* Rotating a password through a browser (src/src/browser/workflow.rs,     *)
(* playwright.rs, src/playwright/agent.py, and the approval queue in       *)
(* src/src/dashboard/api.rs).                                              *)
(*                                                                         *)
(* A workflow of POST /browser/rotate signs in to a site, asks a human for *)
(* a 2FA code where it has to, fills in and submits the form that changes  *)
(* the password, and stores the new password in the vault.  Each step has  *)
(* 30 seconds and three attempts.  Nothing keeps two workflows of the same *)
(* item apart: all workflows here rotate one item.                         *)
(*                                                                         *)
(* The workflow writes commands to the pipe of an agent and reads replies  *)
(* from another.  A step that is cut off leaves its command in the pipe:   *)
(* the agent executes it, and its reply is read by the next command.       *)
(*                                                                         *)
(* Passwords are numbers, 1 is the first one; -p is p typed twice.  The    *)
(* vision model is truthful unless it sees nothing on a page or fails.     *)
(***************************************************************************)
EXTENDS Integers, Sequences, SequencesExt

CONSTANTS
  Workflow,      \* the calls of POST /browser/rotate
  Profiles,      \* may the site have a profile with all selectors?
  Codes,         \* what the site asks for after a password
  QueueMax,      \* APPROVAL_QUEUE_MAX
  MaxFaults,     \* bound: steps cut off, but for those that wait for an answer, and
                 \* failures of the browser, the vision model and the vault
  None

ASSUME SiteAssumption ==
  Profiles \subseteq BOOLEAN /\ Codes \subseteq {"none", "totp", "human", "push"}
ASSUME LimitsAssumption ==
  QueueMax \in Nat \ {0} /\ MaxFaults \in Nat
ASSUME NoneAssumption == None \notin Workflow

VARIABLES
  kind,          \* the site: its profile, its 2FA, does its form stay after saving?
  \* RotationWorkflow
  step, attempts,
  at,            \* the await at which the workflow stands
  goal,          \* the part of Handle2FA it is in, else the step
  value,         \* the credential the step fills in, 0 if none
  image,         \* the page of the screenshot being analyzed
  fresh,         \* new_password, 0 if None
  \* the agent and its pipes
  inbox, outbox,
  tab,           \* the page it is on, and what is typed into its fields
  \* shared
  queue,         \* approval_queue
  cached, vault, \* the password in VaultManager.items and in Vaultwarden
  site,          \* the password of the site
  made,          \* the number of passwords there have been
  saver,         \* the workflow that changed it last
  faults,
  crowded,       \* has a full queue had nothing to lose but a request in use?
  trouble        \* did an attempt fail from ClickSave on?

flowVars  == <<step, attempts, at, goal, value, image, fresh>>
pipeVars  == <<inbox, outbox>>
vaultVars == <<cached, vault>>
siteVars  == <<site, saver>>
vars == <<kind, flowVars, pipeVars, tab, queue, vaultVars, siteVars, made,
          faults, crowded, trouble>>

\* WorkflowStep, in the order of the steps; Handle2FA may be skipped.
Order ==
  <<"NavigateToLogin", "IdentifyLoginForm", "FillUsername", "FillPassword",
    "ClickLogin", "Check2FA", "Handle2FA", "NavigateToPasswordChange",
    "IdentifyPasswordForm", "FillCurrentPassword", "GenerateNewPassword",
    "FillNewPassword", "FillConfirmPassword", "ClickSave", "VerifySuccess",
    "UpdateVault", "Done">>

Step == Range(Order) \union {"Failed"}
Following(s) == Order[SelectInSeq(Order, LAMBDA t : t = s) + 1]
Final == {"Done", "Failed"}
Filling == {"FillNewPassword", "FillConfirmPassword"}
Late == {"ClickSave", "VerifySuccess", "UpdateVault"}

Identify == {"IdentifyLoginForm", "IdentifyPasswordForm"}

\* The field a goal fills in, the element it clicks on.
FieldOf == [FillUsername |-> "username", FillPassword |-> "password",
            EnterTotp |-> "code", EnterCode |-> "code",
            FillCurrentPassword |-> "current", FillNewPassword |-> "new",
            FillConfirmPassword |-> "confirm"]
ButtonOf == [ClickLogin |-> "signin", SubmitCode |-> "submit",
             NavigateToPasswordChange |-> "link", ClickSave |-> "save"]
Fills == DOMAIN FieldOf
Clicks == DOMAIN ButtonOf
Goal == Step \union {"EnterTotp", "EnterCode", "SubmitCode", "AskHuman"}
Field == {FieldOf[g] : g \in Fills}
Page == {"blank", "login", "code", "account", "form", "saved", "refused"}
SignedIn == {"account", "form", "saved", "refused"}

\* A command of the agent, and the replies to one.
Command(do, on, with) == [do |-> do, on |-> on, with |-> with]
Screenshot == Command("screenshot", "page", 0)
Commands(passwords) ==
  {Screenshot} \union [do : {"navigate"}, on : {"login", "form"}, with : {0}]
    \union [do : {"fill", "type"}, on : Field, with : passwords]
    \union [do : {"click"}, on : {ButtonOf[g] : g \in Clicks}, with : {0}]
Replies == Page \union {"ok", "error"}

\* A request: whose it is, the attempt that made it, and its answer.  The code
\* is chosen when it is read, as nothing reads it earlier.
Request == [by : Workflow, no : 0..2, status : {"pending", "approved", "denied"}]

\* Where a step may be cut off.
Awaiting == {"shot", "look", "act", "type", "sleep", "ask", "put", "sync"}

\* The replies a workflow waits for, and the commands and replies in its pipes.
Awaited(w) == IF at[w] \in {"shot", "act", "type"} THEN 1 ELSE 0
InPipes(w) == Len(inbox[w]) + Len(outbox[w])

\* A reply is outstanding that no command waits for.
OutOfStep(w) == InPipes(w) > Awaited(w)

TypeOK ==
  /\ kind \in [profile : Profiles, code : Codes, stays : BOOLEAN]
  /\ step \in [Workflow -> Step] /\ attempts \in [Workflow -> 0..2]
  /\ at \in [Workflow -> Awaiting \union {"idle", "begin", "poll", "over"}]
  /\ goal \in [Workflow -> Goal] /\ value \in [Workflow -> 0..made]
  /\ image \in [Workflow -> Page] /\ fresh \in [Workflow -> 0..made]
  /\ inbox \in [Workflow -> Seq(Commands(0..made))] /\ outbox \in [Workflow -> Seq(Replies)]
  /\ tab \in [Workflow -> [page : Page, typed : [Field -> -made..made]]]
  /\ queue \in Seq(Request) /\ Len(queue) <= QueueMax
  /\ cached \in 0..made /\ vault \in 0..made /\ site \in -made..made
  /\ saver \in Workflow \union {None} /\ made \in Nat \ {0}
  /\ faults \in 0..MaxFaults
  /\ crowded \in BOOLEAN /\ trouble \in [Workflow -> BOOLEAN]
-----------------------------------------------------------------------------
Blank == [f \in Field |-> 0]

\* Any of the calls may come.
Init ==
  /\ kind \in [profile : Profiles, code : Codes, stays : BOOLEAN]
  /\ step = [w \in Workflow |-> "NavigateToLogin"]
  /\ attempts = [w \in Workflow |-> 0]
  /\ at \in [Workflow -> {"idle", "over"}] /\ goal = step
  /\ value = [w \in Workflow |-> 0] /\ image = [w \in Workflow |-> "blank"]
  /\ fresh = [w \in Workflow |-> 0]
  /\ inbox = [w \in Workflow |-> <<>>] /\ outbox = [w \in Workflow |-> <<>>]
  /\ tab = [w \in Workflow |-> [page |-> "blank", typed |-> Blank]]
  /\ queue = <<>> /\ cached = 1 /\ vault = 1 /\ site = 1 /\ made = 1
  /\ saver = None /\ faults = 0
  /\ crowded = FALSE /\ trouble = [w \in Workflow |-> FALSE]

Set(var, w, v) == [var EXCEPT ![w] = v]
Goto(w, place) == at' = Set(at, w, place)
Fault == faults < MaxFaults /\ faults' = faults + 1

\* The browser, or no browser.
Start(w) ==
  /\ at[w] = "idle"
  /\ Goto(w, "begin") \/ Goto(w, "over")
  /\ UNCHANGED <<kind, step, attempts, goal, value, image, fresh, pipeVars, tab, queue,
                 vaultVars, siteVars, made, faults, crowded, trouble>>
-----------------------------------------------------------------------------
(* run_inner: how a step ends *)

\* The step returned another one.
StepDone(w, next) ==
  /\ step' = Set(step, w, next) /\ goal' = Set(goal, w, next)
  /\ attempts' = Set(attempts, w, 0) /\ Goto(w, "begin")
  /\ value' = Set(value, w, 0) /\ image' = Set(image, w, "blank")
  /\ UNCHANGED trouble

\* It returned an error, or ran out of time.
StepFails(w) ==
  LET next == IF attempts[w] = 2 THEN "Failed" ELSE step[w] IN
  /\ step' = Set(step, w, next) /\ goal' = Set(goal, w, next)
  /\ attempts' = Set(attempts, w, IF attempts[w] = 2 THEN 2 ELSE attempts[w] + 1)
  /\ Goto(w, "begin")
  /\ value' = Set(value, w, 0) /\ image' = Set(image, w, "blank")
  /\ trouble' = Set(trouble, w, trouble[w] \/ step[w] \in Late)

\* The task is over, and its agent is killed.
Finish(w) ==
  /\ at[w] = "begin" /\ step[w] \in Final
  /\ Goto(w, "over") /\ fresh' = Set(fresh, w, 0)
  /\ inbox' = Set(inbox, w, <<>>) /\ outbox' = Set(outbox, w, <<>>)
  /\ UNCHANGED <<kind, step, attempts, goal, value, image, tab, queue, vaultVars,
                 siteVars, made, faults, crowded, trouble>>
-----------------------------------------------------------------------------
(* execute_step: how a step begins *)

\* A profile has the selectors and the URL of the form.
ByProfile(g) ==
  g = "NavigateToLogin" \/ (kind.profile /\ g \notin {"Check2FA", "VerifySuccess"})

Navigates(g) == ByProfile(g) /\ g \in {"NavigateToLogin", "NavigateToPasswordChange"}

\* The command of a step that knows its element.
CommandFor(g, v) ==
  CASE g = "NavigateToLogin" -> Command("navigate", "login", 0)
    [] Navigates(g) /\ g # "NavigateToLogin" -> Command("navigate", "form", 0)
    [] g \in Fills -> Command("fill", FieldOf[g], v)
    [] g \in Clicks /\ ~Navigates(g) -> Command("click", ButtonOf[g], 0)

\* PlaywrightProcess::send, up to the reply.
Send(w, command) == inbox' = Set(inbox, w, Append(inbox[w], command))

\* Both at the await where the reply is read.
Ask(w, command, place) == Send(w, command) /\ Goto(w, place)

Begins(w, s) == at[w] = "begin" /\ step[w] = s

\* A step that has nothing to ask of the browser.
Skip(w) ==
  /\ step[w] \in Identify /\ ByProfile(step[w]) /\ Begins(w, step[w])
  /\ StepDone(w, Following(step[w]))
  /\ UNCHANGED <<kind, fresh, pipeVars, tab, queue, vaultVars, siteVars, made,
                 faults, crowded>>

GenerateNewPassword(w) ==
  /\ Begins(w, "GenerateNewPassword")
  /\ made' = made + 1 /\ fresh' = Set(fresh, w, made')
  /\ StepDone(w, "FillNewPassword")
  /\ UNCHANGED <<kind, pipeVars, tab, queue, vaultVars, siteVars, faults, crowded>>

\* What a step fills in, read before it looks for the field.
Credential(w) ==
  CASE step[w] = "FillUsername" -> 1
    [] step[w] \in {"FillPassword", "FillCurrentPassword"} -> cached
    [] step[w] \in {"FillNewPassword", "FillConfirmPassword"} -> fresh[w]
    [] OTHER -> 0

\* The step looks at the page, or acts on the element of the profile.
BeginStep(w) ==
  /\ step[w] \notin {"Handle2FA", "GenerateNewPassword", "UpdateVault"} \union Final
  /\ Begins(w, step[w])
  /\ value' = Set(value, w, Credential(w))
  /\ trouble' = Set(trouble, w, trouble[w] \/ (step[w] = "ClickSave" /\ OutOfStep(w)))
  /\ \/ ~ByProfile(step[w]) /\ Ask(w, Screenshot, "shot")
     \/ ByProfile(step[w]) /\ step[w] \notin Identify
        /\ Ask(w, CommandFor(step[w], value'[w]), "act")
  /\ UNCHANGED <<kind, step, attempts, goal, image, fresh, outbox, tab, queue,
                 vaultVars,
                 siteVars, made, faults, crowded>>

\* The cached item cannot be read while a sync holds the cache.
CredentialFails(w) ==
  /\ step[w] \in {"FillUsername", "FillPassword", "FillCurrentPassword"}
  /\ Begins(w, step[w]) /\ Fault /\ StepFails(w)
  /\ UNCHANGED <<kind, fresh, pipeVars, tab, queue, vaultVars, siteVars, made, crowded>>

\* With the code of the vault's seed, or by asking a human.
Handle2FA(w) ==
  /\ Begins(w, "Handle2FA")
  /\ Ask(w, Screenshot, "shot")
  /\ \/ kind.code = "totp" /\ UNCHANGED faults
        /\ goal' = Set(goal, w, "EnterTotp") /\ value' = Set(value, w, 1)
     \/ goal' = Set(goal, w, "AskHuman") /\ UNCHANGED value
        /\ IF kind.code = "totp" THEN Fault ELSE UNCHANGED faults
  /\ UNCHANGED <<kind, step, attempts, image, fresh, outbox, tab, queue, vaultVars,
                 siteVars, made, crowded, trouble>>
-----------------------------------------------------------------------------
(* the agent: agent.py, and the site behind it *)

\* What there is on a page.
Elements(page) ==
  CASE page = "login" -> {"username", "password", "signin"}
    [] page = "code" -> IF kind.code = "push" THEN {} ELSE {"code", "submit"}
    [] page = "account" -> {"link"}
    [] page \in {"form", "refused"} \/ (page = "saved" /\ kind.stays) ->
         {"current", "new", "confirm", "save"}
    [] OTHER -> {}

Shows(w, element) == element \in Elements(tab[w].page)

\* One command after the other is executed.
Execute(w, do) ==
  /\ inbox[w] # <<>> /\ inbox[w][1].do \in do
  /\ inbox' = Set(inbox, w, Tail(inbox[w]))
  /\ UNCHANGED <<kind, flowVars, queue, vaultVars, made, crowded, trouble>>

Reply(w, reply) == outbox' = Set(outbox, w, Append(outbox[w], reply))

Load(w, page) == tab' = Set(tab, w, [page |-> page, typed |-> Blank])

\* An element that is not there, or a failure that changed nothing.
CommandFails(w) ==
  /\ Execute(w, {"navigate", "screenshot", "fill", "type", "click"})
  /\ \/ inbox[w][1].do \in {"fill", "type", "click"} /\ ~Shows(w, inbox[w][1].on)
        /\ UNCHANGED faults
     \/ Fault
  /\ Reply(w, "error")
  /\ UNCHANGED <<tab, siteVars>>

\* What was done may also be answered with an error, after a timeout.
Answer(w) ==
  \/ Reply(w, "ok") /\ UNCHANGED faults
  \/ Reply(w, "error") /\ Fault

Navigate(w) ==
  /\ Execute(w, {"navigate"})
  /\ Load(w, IF inbox[w][1].on = "form" /\ tab[w].page \in SignedIn
             THEN "form" ELSE "login")
  /\ Answer(w) /\ UNCHANGED siteVars

TakeScreenshot(w) ==
  /\ Execute(w, {"screenshot"})
  /\ Reply(w, tab[w].page)
  /\ UNCHANGED <<tab, siteVars, faults>>

\* Filling replaces what is in a field, typing adds to it.
Fill(w) ==
  LET c == inbox[w][1]
      old == tab[w].typed[c.on]
      new == IF c.do = "type" /\ old # 0 THEN -c.with ELSE c.with
  IN /\ Execute(w, {"fill", "type"}) /\ Shows(w, c.on)
     /\ tab' = [tab EXCEPT ![w].typed[c.on] = new]
     /\ Reply(w, "ok") /\ UNCHANGED <<siteVars, faults>>

\* The site's answer to a click.
Click(w) ==
  LET c == inbox[w][1]
      typed == tab[w].typed
      known == typed["username"] = 1 /\ typed["password"] = site
      accepted == /\ typed["current"] = site
                  /\ typed["new"] # 0 /\ typed["new"] = typed["confirm"]
      page == CASE c.on = "signin" -> IF ~known THEN "login"
                                      ELSE IF kind.code = "none" THEN "account" ELSE "code"
                [] c.on = "submit" -> IF typed["code"] = 1 THEN "account" ELSE "code"
                [] c.on = "link" -> "form"
                [] c.on = "save" -> IF accepted THEN "saved" ELSE "refused"
  IN /\ Execute(w, {"click"}) /\ Shows(w, c.on)
     /\ Load(w, page) /\ Answer(w)
     /\ IF c.on = "save" /\ accepted THEN site' = typed["new"] /\ saver' = w
        ELSE UNCHANGED siteVars

Agent(w) ==
  CommandFails(w) \/ Navigate(w) \/ TakeScreenshot(w) \/ Fill(w) \/ Click(w)
-----------------------------------------------------------------------------
(* the replies, and what the vision model sees in them *)

\* The workflow reads a reply, which need not be that of its command.
Receive(w, place) ==
  /\ at[w] = place /\ outbox[w] # <<>>
  /\ outbox' = Set(outbox, w, Tail(outbox[w]))
  /\ UNCHANGED <<kind, tab, queue, vaultVars, siteVars, made, faults, crowded>>

IsImage(reply) == reply \in Page

ReadScreenshot(w) ==
  /\ Receive(w, "shot") /\ UNCHANGED <<fresh, inbox>>
  /\ \/ ~IsImage(outbox[w][1]) /\ StepFails(w)
     \/ /\ IsImage(outbox[w][1]) /\ image' = Set(image, w, outbox[w][1])
        /\ Goto(w, IF goal[w] = "AskHuman" THEN "ask" ELSE "look")
        /\ UNCHANGED <<step, attempts, goal, value, trouble>>

\* On with another part of Handle2FA.
Continue(w, part) ==
  /\ goal' = Set(goal, w, part) /\ image' = Set(image, w, "blank")
  /\ Ask(w, Screenshot, "shot")
  /\ UNCHANGED <<step, attempts, trouble>>

\* It acts on the element it has found.
Act(w) ==
  /\ Ask(w, CommandFor(goal[w], value[w]), "act")
  /\ image' = Set(image, w, "blank")
  /\ UNCHANGED <<step, attempts, goal, value, trouble>>

\* Without a field or a button for the code the workflow goes on.
GiveUpOnCode(w) ==
  /\ Goto(w, "sleep") /\ image' = Set(image, w, "blank")
  /\ UNCHANGED <<step, attempts, goal, value, inbox, trouble>>

\* VisionModel::analyze: what it sees, and what the step makes of that.
Look(w, seen) ==
  LET g == goal[w]
      found == \/ g \in Fills /\ FieldOf[g] \in Elements(seen)
               \/ g \in Clicks /\ ButtonOf[g] \in Elements(seen)
  IN
  /\ at[w] = "look"
  /\ \/ seen = image[w] /\ UNCHANGED faults
     \/ seen = "blank" /\ Fault
  /\ \/ g \in Identify /\ StepDone(w, Following(g)) /\ UNCHANGED inbox
     \/ g = "Check2FA" /\ UNCHANGED inbox
        /\ StepDone(w, IF seen = "code" THEN "Handle2FA" ELSE "NavigateToPasswordChange")
     \/ g = "VerifySuccess" /\ UNCHANGED inbox
        /\ \/ seen = "saved" /\ StepDone(w, "UpdateVault")
           \/ seen = "refused" /\ StepDone(w, "Failed")
           \/ seen \notin {"saved", "refused"} /\ StepFails(w)
     \/ found /\ Act(w)
     \/ g = "EnterTotp" /\ ~found /\ Continue(w, "AskHuman") /\ value' = Set(value, w, 0)
     \/ g \in {"EnterCode", "SubmitCode"} /\ ~found /\ GiveUpOnCode(w)
     \/ g = step[w] /\ g \in Fills \union Clicks /\ ~found
        /\ StepFails(w) /\ UNCHANGED inbox
  /\ UNCHANGED <<kind, fresh, outbox, tab, queue, vaultVars, siteVars, made, crowded>>

LookFails(w) ==
  /\ at[w] = "look" /\ Fault /\ StepFails(w)
  /\ UNCHANGED <<kind, fresh, pipeVars, tab, queue, vaultVars, siteVars, made, crowded>>

\* fill_credential types what could not be filled.
TypeKeys(w) ==
  /\ Ask(w, Command("type", FieldOf[goal[w]], value[w]), "type")
  /\ UNCHANGED <<step, attempts, goal, value, image, trouble>>

Acted(w) ==
  \/ goal[w] \in {"EnterTotp", "EnterCode"} /\ Continue(w, "SubmitCode")
     /\ value' = Set(value, w, 0)
  \/ goal[w] \in Clicks /\ ~Navigates(goal[w]) /\ Goto(w, "sleep")
     /\ UNCHANGED <<step, attempts, goal, value, image, inbox, trouble>>
  \/ (Navigates(goal[w]) \/ (goal[w] = step[w] /\ goal[w] \in Fills))
     /\ StepDone(w, Following(step[w])) /\ UNCHANGED inbox

ReadReply(w) ==
  /\ Receive(w, "act") /\ UNCHANGED fresh
  /\ \/ outbox[w][1] # "error" /\ Acted(w)
     \/ outbox[w][1] = "error" /\ goal[w] \in Fills /\ TypeKeys(w)
     \/ outbox[w][1] = "error" /\ goal[w] \notin Fills /\ StepFails(w) /\ UNCHANGED inbox

ReadTyped(w) ==
  /\ Receive(w, "type") /\ UNCHANGED fresh
  /\ \/ outbox[w][1] # "error" /\ Acted(w)
     \/ outbox[w][1] = "error" /\ StepFails(w) /\ UNCHANGED inbox

\* The two seconds after a click.
Wake(w) ==
  /\ at[w] = "sleep" /\ StepDone(w, Following(step[w]))
  /\ UNCHANGED <<kind, fresh, pipeVars, tab, queue, vaultVars, siteVars, made,
                 faults, crowded>>
-----------------------------------------------------------------------------
(* the approval queue *)

Pending(request) == request.status = "pending"
Resolved(request) == ~Pending(request)
Full == Len(queue) >= QueueMax
FirstResolved == SelectInSeq(queue, Resolved)

\* At the limit the first resolved request makes room, or the first one.
Room ==
  IF Full THEN RemoveAt(queue, IF FirstResolved = 0 THEN 1 ELSE FirstResolved) ELSE queue

Mine(w, request) == request.by = w /\ request.no = attempts[w]
Place(w) == SelectInSeq(queue, LAMBDA request : Mine(w, request))
Polled(request) == at[request.by] = "poll" /\ Mine(request.by, request)

RequestApproval(w) ==
  /\ at[w] = "ask"
  /\ queue' = Append(Room, [by |-> w, no |-> attempts[w], status |-> "pending"])
  /\ crowded' = (crowded \/ (Full /\ (FirstResolved = 0 \/ Polled(queue[FirstResolved]))))
  /\ Goto(w, "poll") /\ image' = Set(image, w, "blank")
  /\ UNCHANGED <<kind, step, attempts, goal, value, fresh, pipeVars, tab, vaultVars,
                 siteVars, made, faults, trouble>>

\* One round of polling that ends it.  Code 1 is the right one, 0 a wrong one.
Poll(w) ==
  LET answer == IF Place(w) = 0 THEN "gone" ELSE queue[Place(w)].status IN
  /\ at[w] = "poll"
  /\ \/ answer \in {"gone", "denied"} /\ StepFails(w) /\ UNCHANGED inbox
     \/ answer = "approved" /\ Continue(w, "EnterCode")
        /\ \E code \in {0, 1} : value' = Set(value, w, code)
     \/ answer = "approved" /\ GiveUpOnCode(w)
  /\ UNCHANGED <<kind, fresh, outbox, tab, queue, vaultVars, siteVars, made,
                 faults, crowded>>

\* A human answers a request, or answers it again before its workflow has
\* looked.  On a site that sends a push it is the phone that sends the page on.
Respond(i, status) ==
  LET w == queue[i].by IN
  /\ Pending(queue[i]) \/ Polled(queue[i])
  /\ queue' = [queue EXCEPT ![i].status = status]
  /\ tab' = IF kind.code = "push" /\ status = "approved" /\ tab[w].page = "code"
            THEN Set(tab, w, [page |-> "account", typed |-> Blank]) ELSE tab
  /\ UNCHANGED <<kind, flowVars, pipeVars, vaultVars, siteVars, made, faults,
                 crowded, trouble>>

\* Mutant: a request expires while its workflow polls.
ListEarly(n) ==
  /\ queue' = SubSeq(queue, n + 1, Len(queue))
  /\ UNCHANGED <<kind, flowVars, pipeVars, tab, vaultVars, siteVars, made, faults,
                 crowded,
                 trouble>>

\* Listing the requests drops the oldest ones after five minutes, by when
\* the step that made them has long been cut off.
ListApprovals(n) ==
  /\ \A i \in 1..n : ~Polled(queue[i])
  /\ queue' = SubSeq(queue, n + 1, Len(queue))
  /\ UNCHANGED <<kind, flowVars, pipeVars, tab, vaultVars, siteVars, made, faults,
                 crowded, trouble>>
-----------------------------------------------------------------------------
(* the vault *)

BeginUpdate(w) ==
  /\ Begins(w, "UpdateVault") /\ Goto(w, "put")
  /\ UNCHANGED <<kind, step, attempts, goal, value, image, fresh, pipeVars, tab, queue,
                 vaultVars, siteVars, made, faults, crowded, trouble>>

\* Mutant: the cached item is sent as it was.
PutUnchanged(w) ==
  /\ at[w] = "put" /\ vault' = cached /\ Goto(w, "sync")
  /\ UNCHANGED <<kind, step, attempts, goal, value, image, fresh, pipeVars, tab, queue,
                 cached, siteVars, made, faults, crowded, trouble>>

Put(w) ==
  /\ at[w] = "put" /\ vault' = fresh[w] /\ Goto(w, "sync")
  /\ UNCHANGED <<kind, step, attempts, goal, value, image, fresh, pipeVars, tab, queue,
                 cached, siteVars, made, faults, crowded, trouble>>

\* Mutant: the failed update counts as one.
PutFailsSilently(w) ==
  /\ at[w] = "put" /\ Fault /\ vault' \in {vault, fresh[w]}
  /\ StepDone(w, "Done")
  /\ UNCHANGED <<kind, fresh, pipeVars, tab, queue, cached, siteVars, made, crowded>>

\* The vault may have taken a write that fails, or is cut off.
PutFails(w) ==
  /\ at[w] = "put" /\ Fault /\ vault' \in {vault, fresh[w]}
  /\ StepFails(w)
  /\ UNCHANGED <<kind, fresh, pipeVars, tab, queue, cached, siteVars, made, crowded>>

\* A failed sync is logged.
SyncVault(w) ==
  /\ at[w] = "sync"
  /\ \/ cached' = vault /\ UNCHANGED faults
     \/ UNCHANGED cached /\ Fault
  /\ fresh' = Set(fresh, w, 0) /\ StepDone(w, "Done")
  /\ UNCHANGED <<kind, pipeVars, tab, queue, vault, siteVars, made, crowded>>

\* The timer, or another task.
Refresh ==
  /\ cached' = vault
  /\ UNCHANGED <<kind, flowVars, pipeVars, tab, queue, vault, siteVars, made,
                 faults, crowded, trouble>>
-----------------------------------------------------------------------------
(* timeouts *)

\* What is cut off has taken effect or not; of the line of a screenshot being
\* read the rest remains, which is no reply.
Dropped(w) ==
  /\ vault' \in IF at[w] = "put" THEN {vault, fresh[w]} ELSE {vault}
  /\ \/ UNCHANGED outbox
     \/ /\ at[w] \in {"shot", "act", "type"}
        /\ outbox[w] # <<>> /\ IsImage(outbox[w][1])
        /\ outbox' = [outbox EXCEPT ![w][1] = "error"]
  /\ UNCHANGED <<kind, fresh, inbox, tab, queue, cached, siteVars, made, crowded>>

\* The 30 seconds of a step.
StepTimeout(w) ==
  /\ at[w] \in Awaiting /\ Fault
  /\ Dropped(w) /\ StepFails(w)

\* Mutant: waiting for an answer costs no attempt.
PollTimeoutFree(w) ==
  /\ at[w] = "poll" /\ Goto(w, "begin") /\ goal' = Set(goal, w, step[w])
  /\ Dropped(w) /\ UNCHANGED <<step, attempts, value, image, faults, trouble>>

\* They are over before the four minutes of polling.
PollTimeout(w) ==
  /\ at[w] = "poll" /\ Dropped(w) /\ StepFails(w) /\ UNCHANGED faults

\* The five minutes of the workflow.
TotalTimeout(w) ==
  /\ at[w] \in Awaiting \union {"poll"} /\ Fault
  /\ Dropped(w)
  /\ step' = Set(step, w, "Failed") /\ goal' = Set(goal, w, "Failed") /\ Goto(w, "begin")
  /\ value' = Set(value, w, 0) /\ image' = Set(image, w, "blank")
  /\ trouble' = Set(trouble, w, trouble[w] \/ step[w] \in Late)
  /\ UNCHANGED attempts
-----------------------------------------------------------------------------
Flow(w) ==
  \/ Skip(w) \/ GenerateNewPassword(w) \/ BeginStep(w)
  \/ CredentialFails(w) \/ Handle2FA(w) \/ BeginUpdate(w) \/ Finish(w)
  \/ ReadScreenshot(w) \/ (\E seen \in Page : Look(w, seen)) \/ LookFails(w)
  \/ ReadReply(w) \/ ReadTyped(w) \/ Wake(w)
  \/ RequestApproval(w) \/ Poll(w) \/ PollTimeout(w)
  \/ Put(w) \/ PutFails(w) \/ SyncVault(w)

Next ==
  \/ \E w \in Workflow :
       Start(w) \/ Flow(w) \/ Agent(w) \/ StepTimeout(w) \/ TotalTimeout(w)
  \/ \E i \in 1..Len(queue), status \in {"approved", "denied"} : Respond(i, status)
  \/ \E n \in 1..Len(queue) : ListApprovals(n)
  \/ Refresh

Spec == Init /\ [][Next]_vars

\* Tasks run, the agent answers and 30 seconds pass.  Nothing is assumed of the
\* human, and the five minutes are not needed.
Fairness == \A w \in Workflow : WF_vars(Flow(w)) /\ WF_vars(Agent(w))

FairSpec == Spec /\ Fairness
-----------------------------------------------------------------------------
(* properties *)

\* The password of the site is known: it is in the vault, or a workflow holds
\* it; unless, from ClickSave on, an attempt failed or replies were those of
\* earlier commands, which is when a new password may go with its workflow.
\* Whatever fails before that leaves the password as it was.
PasswordKept ==
  \/ site = vault
  \/ \E w \in Workflow : fresh[w] = site \/ trouble[w]

\* The command whose reply a workflow waits for.
Current(w) ==
  CASE at[w] = "shot" -> Screenshot
    [] at[w] = "act" -> CommandFor(goal[w], value[w])
    [] at[w] = "type" -> Command("type", FieldOf[goal[w]], value[w])

\* Without replies to earlier commands it is the only one in the pipe.
InStep ==
  \A w \in Workflow : ~OutOfStep(w) /\ inbox[w] # <<>> => inbox[w] = <<Current(w)>>

\* A workflow has a new password from GenerateNewPassword on, and its own.
FreshOnes ==
  \A w \in Workflow :
    /\ fresh[w] # 1 /\ (step[w] \in Filling \union Late => fresh[w] # 0)
    /\ step[w] \notin Filling \union Late \union {"Failed"} \/ at[w] = "over" => fresh[w] = 0
    /\ step[w] \in Filling /\ at[w] # "begin" => value[w] = fresh[w]
    /\ \A v \in Workflow \ {w} : fresh[v] = fresh[w] => fresh[w] = 0

Knows(v, password) ==
  \/ password \in {value[v], fresh[v]} \union {tab[v].typed[f] : f \in Field}
  \/ \E i \in 1..Len(inbox[v]) : inbox[v][i].with = password

\* Nobody but a workflow knows its new password, until the vault may have it.
Secret ==
  \A w \in Workflow :
    ~trouble[w] /\ fresh[w] # 0 /\ at[w] # "sync" =>
      fresh[w] \notin {cached, vault} /\ \A v \in Workflow \ {w} : ~Knows(v, fresh[w])

\* And nobody else ever types it in as a new one.
NewOnesOwn ==
  \A w \in Workflow : fresh[w] # 0 =>
    \A v \in Workflow \ {w} :
      /\ fresh[w] # tab[v].typed["new"]
      /\ goal[v] = "FillNewPassword" => value[v] # fresh[w]
      /\ \A i \in 1..Len(inbox[v]) :
           inbox[v][i].on = "new" => inbox[v][i].with # fresh[w]

\* The field for the new password is empty until it is filled, and then has it.
NewTyped ==
  \A w \in Workflow :
    LET new == tab[w].typed["new"] IN
    /\ step[w] \notin Filling \union Late \union Final =>
         new = 0 /\ \A i \in 1..Len(inbox[w]) : inbox[w][i].on # "new"
    /\ ~OutOfStep(w) /\ step[w] \in Filling \union {"ClickSave"} => new \in {0, fresh[w]}
    /\ ~OutOfStep(w) /\ step[w] = "FillNewPassword" /\ new # 0 =>
         at[w] \in {"act", "type"} /\ outbox[w] = <<"ok">>

\* Saving is tried in ClickSave; later only if something went wrong.
SaveTried ==
  \A w \in Workflow :
    /\ \A i \in 1..Len(inbox[w]) : inbox[w][i].on = "save" =>
         \/ step[w] = "ClickSave" /\ at[w] # "begin"
         \/ trouble[w] /\ step[w] \in Late \union Final
    /\ step[w] \in Late \ {"ClickSave"} \/ (step[w] = "ClickSave" /\ at[w] # "begin") =>
         trouble[w] \/ ~OutOfStep(w)

\* A page that says that the password is saved is right, until another workflow
\* can know it.
SavedRight ==
  \A w \in Workflow : ~trouble[w] =>
    LET saved == tab[w].page = "saved" IN
    /\ saved => step[w] \in Late \union {"Done"}
    /\ saved /\ step[w] # "Done" /\ at[w] # "sync" => site = fresh[w]
    /\ saved /\ step[w] = "ClickSave" => at[w] \in {"act", "sleep"} /\ inbox[w] = <<>>
    /\ step[w] = "VerifySuccess" /\ at[w] = "look" => (image[w] = "saved" <=> saved)
    /\ step[w] = "VerifySuccess" /\ at[w] = "shot" /\ outbox[w] # <<>> /\ outbox[w][1] # "error" =>
         (outbox[w][1] = "saved" <=> saved)
    /\ step[w] = "UpdateVault" => saved
    /\ site = fresh[w] => saved /\ step[w] \in Late

\* Who changed the password last knows it, and has put it in the vault when that
\* is done.
Saver ==
  /\ site # 0
  /\ \A w \in Workflow :
       /\ site = fresh[w] => saver = w
       /\ saver = w => step[w] \in Late \union Final
       /\ saver = w /\ step[w] \in Late /\ ~OutOfStep(w) => site = fresh[w]
       /\ saver = w /\ at[w] = "sync" /\ ~OutOfStep(w)
            /\ (\A v \in Workflow \ {w} : ~trouble[v]) => vault = fresh[w]

RotationInv ==
  /\ InStep /\ FreshOnes /\ Secret /\ NewOnesOwn /\ NewTyped /\ SaveTried /\ SavedRight
  /\ Saver /\ PasswordKept

\* A workflow that succeeds, and has read the replies of its own commands, has
\* stored the password of the site, whatever failed on the way; unless another
\* one has changed it since, or repeats an update of the vault that failed.
SuccessIsTrue ==
  [][\A w \in Workflow :
       /\ step[w] # "Done" /\ step'[w] = "Done" /\ ~OutOfStep(w)
       /\ saver = w /\ \A v \in Workflow \ {w} : ~trouble[v]
       => vault' = site']_vars

\* Where a workflow may stand in which step, or part of Handle2FA.
Parts == {"AskHuman", "EnterTotp", "EnterCode", "SubmitCode"}
Looking == Identify \union Fills \union Clicks \union {"Check2FA", "VerifySuccess"}
GoalsAt ==
  [idle |-> {"NavigateToLogin"}, begin |-> Step, shot |-> Looking \union {"AskHuman"},
   look |-> Looking, act |-> Fills \union Clicks \union {"NavigateToLogin"},
   type |-> Fills, sleep |-> Clicks \union Parts,
   ask |-> {"AskHuman"}, poll |-> {"AskHuman"}, put |-> {"UpdateVault"},
   sync |-> {"UpdateVault"}, over |-> Final \union {"NavigateToLogin"}]

InPlace ==
  \A w \in Workflow :
    /\ goal[w] \in GoalsAt[at[w]]
    /\ step[w] = IF goal[w] \in Parts THEN "Handle2FA" ELSE goal[w]

\* A workflow that polls finds its request: it has not expired, and the limit
\* of the queue takes it away only when all requests are pending or it has just
\* been answered.
AskerFound ==
  \A w \in Workflow : at[w] = "poll" => Place(w) # 0 \/ crowded

\* A reply that no command waits for is left by a fault.
Surplus == \A w \in Workflow : InPipes(w) \in Awaited(w)..Awaited(w) + faults

\* The queue between the workflows and those who approve.
QueueInv == TypeOK /\ InPlace /\ Surplus /\ AskerFound

\* Every workflow that was started ends, by the attempts of its steps alone.
WorkflowsEnd ==
  \A w \in Workflow : at[w] = "begin" ~> at[w] = "over"

\* "The target site already has the new credential" when the vault is updated
\* (workflow.rs:722).
SiteHasNewPassword ==
  \A w \in Workflow : at[w] = "put" => site = fresh[w]
=============================================================================
