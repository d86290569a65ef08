------------------------ MODULE BrowserRotation_proofs ------------------------
(***************************************************************************)
(* What holds of BrowserRotation for any number of workflows, requests and *)
(* faults: the pipes and the queue (QueueInv), where each password is      *)
(* (RotationInv), that the password of the site is never lost without a    *)
(* failure from ClickSave on (PasswordKept), and that a success is one     *)
(* (SuccessIsTrue).                                                        *)
(*                                                                         *)
(* The argument.  A reply that no command waits for is left by a fault     *)
(* only, so a workflow in step reads the replies of its own commands.  Its *)
(* new password is known to nobody else until the vault has it, so nobody  *)
(* can change the password of the site after it: changing it takes typing  *)
(* in the old one.  And what it saves in ClickSave is what it has typed,   *)
(* so that a page that says so is right.                                   *)
(*                                                                         *)
(* The steps are taken in two stages: every action has a shape, which says *)
(* what it does to the values of one workflow and leaves to the others,    *)
(* and each part of the invariants is kept by every shape.                 *)
(***************************************************************************)
EXTENDS BrowserRotation, WellFoundedInduction, TLAPS

\* The actions of Next, one by one.
LEMMA NextCases ==
  ASSUME Next
  PROVE  \/ \E w \in Workflow :
              \/ Start(w) \/ Skip(w) \/ GenerateNewPassword(w) \/ BeginStep(w)
              \/ CredentialFails(w) \/ Handle2FA(w) \/ BeginUpdate(w) \/ Finish(w)
              \/ ReadScreenshot(w) \/ (\E seen \in Page : Look(w, seen)) \/ LookFails(w)
              \/ ReadReply(w) \/ ReadTyped(w) \/ Wake(w) \/ RequestApproval(w) \/ Poll(w)
              \/ PollTimeout(w) \/ Put(w) \/ PutFails(w) \/ SyncVault(w)
              \/ CommandFails(w) \/ Navigate(w) \/ TakeScreenshot(w) \/ Fill(w) \/ Click(w)
              \/ StepTimeout(w) \/ TotalTimeout(w)
         \/ \E i \in 1..Len(queue), status \in {"approved", "denied"} : Respond(i, status)
         \/ \E n \in 1..Len(queue) : ListApprovals(n)
         \/ Refresh
  BY Zenon DEF Next, Flow, Agent

\* The least element of a set of numbers.
LEMMA Least ==
  ASSUME NEW I \in SUBSET Nat, I # {}
  PROVE  Min(I) \in I /\ \A i \in I : Min(I) <= i
<1>. DEFINE R == {ss \in Nat \X Nat : ss[1] < ss[2]}
<1>1. IsWellFoundedOn(R, Nat)
  BY NatLessThanWellFounded DEF OpToRel
<1>2. PICK x \in I : \A y \in I : ~(<<y, x>> \in R)
  BY <1>1, WFMin, Zenon
<1>3. ASSUME NEW y \in I PROVE x <= y
  <2>1. x \in Nat /\ y \in Nat /\ <<y, x>> \notin R
    BY <1>2
  <2>. QED
    BY <2>1
<1>. QED
  BY <1>3 DEF Min

\* The order of the steps.
LEMMA Steps ==
  /\ Range(Order) =
       {"NavigateToLogin", "IdentifyLoginForm", "FillUsername", "FillPassword", "ClickLogin",
        "Check2FA", "Handle2FA", "NavigateToPasswordChange", "IdentifyPasswordForm",
        "FillCurrentPassword", "GenerateNewPassword", "FillNewPassword",
        "FillConfirmPassword", "ClickSave", "VerifySuccess", "UpdateVault", "Done"}
  /\ \A i \in 1..16 : Following(Order[i]) = Order[i + 1]
<1>1. Len(Order) = 17 /\ DOMAIN Order = 1..17
  BY DEF Order
<1>2. ASSUME NEW i \in 1..16 PROVE Following(Order[i]) = Order[i + 1]
  <2>. DEFINE I == {j \in 1..Len(Order) : Order[j] = Order[i]}
  <2>1. I = {i}
    BY <1>1 DEF Order
  <2>2. Min(I) = i
    BY <2>1, Least, <1>1
  <2>. QED
    BY <2>1, <2>2 DEF Following, SelectInSeq
<1>. QED
  BY <1>1, <1>2 DEF Range, Order

LEMMA StepSet ==
  Step = {"NavigateToLogin", "IdentifyLoginForm", "FillUsername", "FillPassword",
          "ClickLogin", "Check2FA", "Handle2FA", "NavigateToPasswordChange",
          "IdentifyPasswordForm", "FillCurrentPassword", "GenerateNewPassword",
          "FillNewPassword", "FillConfirmPassword", "ClickSave", "VerifySuccess",
          "UpdateVault", "Done", "Failed"}
  BY Steps DEF Step

LEMMA Followers ==
  /\ Following("NavigateToLogin") = "IdentifyLoginForm"
  /\ Following("IdentifyLoginForm") = "FillUsername"
  /\ Following("FillUsername") = "FillPassword"
  /\ Following("FillPassword") = "ClickLogin"
  /\ Following("ClickLogin") = "Check2FA"
  /\ Following("Handle2FA") = "NavigateToPasswordChange"
  /\ Following("NavigateToPasswordChange") = "IdentifyPasswordForm"
  /\ Following("IdentifyPasswordForm") = "FillCurrentPassword"
  /\ Following("FillCurrentPassword") = "GenerateNewPassword"
  /\ Following("FillNewPassword") = "FillConfirmPassword"
  /\ Following("FillConfirmPassword") = "ClickSave"
  /\ Following("ClickSave") = "VerifySuccess"
  BY Steps DEF Order

\* The fields and the buttons.
LEMMA Names ==
  /\ Fills = {"FillUsername", "FillPassword", "EnterTotp", "EnterCode",
              "FillCurrentPassword", "FillNewPassword", "FillConfirmPassword"}
  /\ Clicks = {"ClickLogin", "SubmitCode", "NavigateToPasswordChange", "ClickSave"}
  /\ Field = {"username", "password", "code", "current", "new", "confirm"}
  BY DEF Fills, Clicks, Field, FieldOf, ButtonOf

\* What every step below may look at: the sets of names and the helpers.
USE NoneAssumption, LimitsAssumption, SiteAssumption, StepSet, Names
    DEF Set, Goto, Fault, flowVars, pipeVars, vaultVars, siteVars, Page, Final, Late,
        Filling, Identify, Parts, Looking, Goal, Awaiting

\* Where a workflow stands, name by name.
LEMMA Places ==
  ASSUME TypeOK, InPlace, NEW w \in Workflow
  PROVE  /\ at[w] \in {"idle", "begin", "shot", "look", "act", "type", "sleep", "ask", "poll",
                      "put", "sync", "over"}
         /\ step[w] \in Step /\ goal[w] \in Goal
         /\ at[w] = "idle" => goal[w] = "NavigateToLogin"
         /\ at[w] = "begin" => goal[w] = step[w]
         /\ at[w] = "shot" => goal[w] \in Looking \union {"AskHuman"}
         /\ at[w] = "look" => goal[w] \in Looking
         /\ at[w] = "act" => goal[w] \in Fills \union Clicks \union {"NavigateToLogin"}
         /\ at[w] = "type" => goal[w] \in Fills
         /\ at[w] = "sleep" => goal[w] \in Clicks \union Parts
         /\ at[w] \in {"ask", "poll"} => goal[w] = "AskHuman"
         /\ at[w] \in {"put", "sync"} => goal[w] = "UpdateVault"
         /\ at[w] = "over" => goal[w] \in {"Done", "Failed", "NavigateToLogin"}
         /\ goal[w] \notin Parts => step[w] = goal[w]
         /\ goal[w] \in Parts => step[w] = "Handle2FA"
<1>1. at[w] \in {"idle", "begin", "shot", "look", "act", "type", "sleep", "ask", "poll",
                 "put", "sync", "over"}
  BY DEF TypeOK
<1>2. step[w] \in Step /\ goal[w] \in Goal
  BY DEF TypeOK
<1>3. goal[w] \in GoalsAt[at[w]] /\ step[w] = IF goal[w] \in Parts THEN "Handle2FA" ELSE goal[w]
  BY DEF InPlace
<1>4. /\ GoalsAt["idle"] = {"NavigateToLogin"} /\ GoalsAt["begin"] = Step
      /\ GoalsAt["shot"] = Looking \union {"AskHuman"} /\ GoalsAt["look"] = Looking
      /\ GoalsAt["act"] = Fills \union Clicks \union {"NavigateToLogin"}
      /\ GoalsAt["type"] = Fills /\ GoalsAt["sleep"] = Clicks \union Parts
      /\ GoalsAt["ask"] = {"AskHuman"} /\ GoalsAt["poll"] = {"AskHuman"}
      /\ GoalsAt["put"] = {"UpdateVault"} /\ GoalsAt["sync"] = {"UpdateVault"}
      /\ GoalsAt["over"] = Final \union {"NavigateToLogin"}
  BY Zenon DEF GoalsAt
<1>5. goal[w] \notin Parts => step[w] = goal[w]
  BY <1>3
<1>6. goal[w] \in Parts => step[w] = "Handle2FA"
  BY <1>3
<1>7. at[w] = "begin" => goal[w] = step[w]
  BY <1>3, <1>4
<1>. QED
  BY <1>1, <1>2, <1>3, <1>4, <1>5, <1>6, <1>7

\* A workflow is in place when each of its variables is.
LEMMA InPlaceIf ==
  ASSUME InPlace, NEW w \in Workflow,
         \A v \in Workflow \ {w} : at'[v] = at[v] /\ goal'[v] = goal[v] /\ step'[v] = step[v],
         goal'[w] \in GoalsAt[at'[w]],
         step'[w] = IF goal'[w] \in Parts THEN "Handle2FA" ELSE goal'[w]
  PROVE  InPlace'
  BY DEF InPlace

\* The command of an element.
LEMMA CommandTypes ==
  ASSUME NEW g \in Fills \union Clicks \union {"NavigateToLogin"}, NEW n, NEW v \in 0..n
  PROVE  /\ CommandFor(g, v) \in Commands(0..n)
         /\ Screenshot \in Commands(0..n)
         /\ g \in Fills => Command("type", FieldOf[g], v) \in Commands(0..n)
<1>1. Screenshot \in Commands(0..n)
  BY DEF Commands
<1>2. ASSUME g \in Fills PROVE Command("type", FieldOf[g], v) \in Commands(0..n)
  BY <1>2 DEF Commands, Command, Fills, Field
<1>3. CASE Navigates(g) \/ g = "NavigateToLogin"
  BY <1>3 DEF Commands, CommandFor, Navigates, Command, ByProfile
<1>4. CASE g \in Fills
  BY <1>4 DEF Commands, Command, Fills, Field, CommandFor, Navigates
<1>5. CASE g \in Clicks /\ ~Navigates(g)
  BY <1>5 DEF Commands, Command, Clicks, Field, CommandFor, Navigates
<1>. QED
  BY <1>1, <1>2, <1>3, <1>4, <1>5

\* The types in four parts: what the workflows are at, their pipes, and the rest.
FlowOK ==
  /\ step \in [Workflow -> Step] /\ attempts \in [Workflow -> 0..2]
  /\ at \in [Workflow -> Awaiting \union {"idle", "begin", "poll", "over"}]
  /\ goal \in [Workflow -> Goal] /\ value \in [Workflow -> 0..made]
  /\ image \in [Workflow -> Page] /\ trouble \in [Workflow -> BOOLEAN]

InboxOK == inbox \in [Workflow -> Seq(Commands(0..made))]
OutboxOK == outbox \in [Workflow -> Seq(Replies)]
TabOK == tab \in [Workflow -> [page : Page, typed : [Field -> -made..made]]]

SharedOK ==
  /\ kind \in [profile : Profiles, code : Codes, stays : BOOLEAN]
  /\ fresh \in [Workflow -> 0..made]
  /\ queue \in Seq(Request) /\ Len(queue) <= QueueMax
  /\ cached \in 0..made /\ vault \in 0..made /\ site \in -made..made
  /\ saver \in Workflow \union {None} /\ made \in Nat \ {0}
  /\ faults \in 0..MaxFaults /\ crowded \in BOOLEAN

LEMMA TypeParts ==
  ASSUME TypeOK
  PROVE  /\ FlowOK /\ InboxOK /\ OutboxOK /\ TabOK /\ SharedOK
         /\ made \in Nat /\ made >= 1 /\ faults \in Nat
<1>1. FlowOK /\ InboxOK /\ OutboxOK /\ TabOK /\ SharedOK
  BY Zenon DEF TypeOK, FlowOK, InboxOK, OutboxOK, TabOK, SharedOK
<1>2. made \in Nat /\ made >= 1 /\ faults \in Nat
  BY <1>1 DEF SharedOK
<1>. QED
  BY <1>1, <1>2

\* The ends of a step leave the variables of the workflow in their types.
LEMMA DoneTypes ==
  ASSUME FlowOK, NEW w \in Workflow, NEW next \in Step, StepDone(w, next),
         made \in Nat, made' \in Nat, made' >= made
  PROVE  FlowOK'
<1>1. trouble' \in [Workflow -> BOOLEAN]
  BY Zenon DEF FlowOK, StepDone
<1>2. step' \in [Workflow -> Step] /\ goal' \in [Workflow -> Goal]
  BY DEF FlowOK, StepDone
<1>3. value' \in [Workflow -> 0..made']
  BY DEF FlowOK, StepDone
<1>4. attempts' \in [Workflow -> 0..2] /\ image' \in [Workflow -> Page]
  BY DEF FlowOK, StepDone
<1>5. at' \in [Workflow -> Awaiting \union {"idle", "begin", "poll", "over"}]
  BY DEF FlowOK, StepDone
<1>. QED
  BY <1>1, <1>2, <1>3, <1>4, <1>5 DEF FlowOK

LEMMA FailTypes ==
  ASSUME FlowOK, NEW w \in Workflow, StepFails(w), made \in Nat, made' = made
  PROVE  FlowOK'
<1>1. trouble' \in [Workflow -> BOOLEAN]
  BY Zenon DEF FlowOK, StepFails
<1>2. step' \in [Workflow -> Step] /\ goal' \in [Workflow -> Goal]
  BY DEF FlowOK, StepFails
<1>3. value' \in [Workflow -> 0..made']
  BY DEF FlowOK, StepFails
<1>4. attempts \in [Workflow -> 0..2]
  BY DEF FlowOK
<1>5. attempts' \in [Workflow -> 0..2]
  <2>1. CASE attempts[w] = 2
    BY <2>1, <1>4 DEF StepFails
  <2>2. CASE attempts[w] # 2
    <3>1. attempts[w] + 1 \in 0..2
      BY <2>2, <1>4
    <3>. QED
      BY <3>1, <2>2, <1>4 DEF StepFails
  <2>. QED
    BY <2>1, <2>2
<1>6. image' \in [Workflow -> Page]
  BY DEF FlowOK, StepFails
<1>7. at' \in [Workflow -> Awaiting \union {"idle", "begin", "poll", "over"}]
  BY DEF FlowOK, StepFails
<1>. QED
  BY <1>1, <1>2, <1>3, <1>5, <1>6, <1>7 DEF FlowOK

\* A command is appended to a pipe, or executed; a reply is read or written.
LEMMA SendTypes ==
  ASSUME InboxOK, NEW w \in Workflow, NEW command \in Commands(0..made), Send(w, command),
         made' = made
  PROVE  InboxOK'
<1>. DEFINE C == Commands(0..made)
<1>1. inbox \in [Workflow -> Seq(C)] /\ command \in C
  BY DEF InboxOK
<1>. HIDE DEF C
<1>2. inbox' \in [Workflow -> Seq(C)]
  BY <1>1 DEF Send
<1>. QED
  BY <1>2 DEF C, InboxOK

LEMMA ExecuteTypes ==
  ASSUME InboxOK, NEW w \in Workflow, NEW do, Execute(w, do)
  PROVE  InboxOK' /\ inbox[w][1] \in Commands(0..made)
<1>. DEFINE C == Commands(0..made)
<1>1. inbox \in [Workflow -> Seq(C)] /\ inbox[w] \in Seq(C)
  BY DEF InboxOK
<1>. HIDE DEF C
<1>2. inbox[w][1] \in C /\ Tail(inbox[w]) \in Seq(C)
  BY <1>1 DEF Execute
<1>3. inbox' \in [Workflow -> Seq(C)]
  BY <1>1, <1>2 DEF Execute
<1>4. made' = made
  BY DEF Execute
<1>. QED
  BY <1>2, <1>3, <1>4 DEF C, InboxOK

LEMMA ReceiveTypes ==
  ASSUME OutboxOK, NEW w \in Workflow, NEW place, Receive(w, place)
  PROVE  OutboxOK' /\ outbox[w][1] \in Replies
<1>1. outbox \in [Workflow -> Seq(Replies)] /\ outbox[w] \in Seq(Replies)
  BY DEF OutboxOK
<1>2. outbox[w][1] \in Replies /\ Tail(outbox[w]) \in Seq(Replies)
  BY <1>1 DEF Receive
<1>. QED
  BY <1>1, <1>2 DEF Receive, OutboxOK

LEMMA ReplyTypes ==
  ASSUME OutboxOK, NEW w \in Workflow, NEW reply \in Replies, Reply(w, reply)
  PROVE  OutboxOK'
  BY DEF OutboxOK, Reply

LEMMA DroppedTypes ==
  ASSUME OutboxOK, NEW w \in Workflow, Dropped(w)
  PROVE  OutboxOK'
<1>1. CASE UNCHANGED outbox
  BY <1>1 DEF OutboxOK
<1>2. CASE outbox[w] # <<>> /\ outbox' = [outbox EXCEPT ![w][1] = "error"]
  <2>1. outbox \in [Workflow -> Seq(Replies)] /\ outbox[w] \in Seq(Replies)
    BY DEF OutboxOK
  <2>2. 1 \in 1..Len(outbox[w]) /\ "error" \in Replies
    BY <2>1, <1>2 DEF Replies
  <2>3. [outbox[w] EXCEPT ![1] = "error"] \in Seq(Replies)
    BY <2>1, <2>2
  <2>. QED
    BY <2>1, <2>3, <1>2 DEF OutboxOK
<1>. QED
  BY <1>1, <1>2 DEF Dropped

LEMMA LoadTypes ==
  ASSUME TabOK, NEW w \in Workflow, NEW page \in Page, Load(w, page), made \in Nat, made' = made
  PROVE  TabOK'
  BY DEF TabOK, Load, Blank

\* What a step does between its commands.
LEMMA ContinueTypes ==
  ASSUME FlowOK, InboxOK, NEW w \in Workflow, NEW part \in Parts, Continue(w, part),
         value' \in [Workflow -> 0..made], made' = made
  PROVE  FlowOK' /\ InboxOK'
<1>1. InboxOK'
  BY SendTypes DEF Continue, Ask, Commands
<1>2. trouble' \in [Workflow -> BOOLEAN]
  BY Zenon DEF FlowOK, Continue
<1>3. goal' \in [Workflow -> Goal] /\ image' \in [Workflow -> Page]
  BY DEF FlowOK, Continue
<1>4. at' \in [Workflow -> Awaiting \union {"idle", "begin", "poll", "over"}]
  BY DEF FlowOK, Continue, Ask
<1>. QED
  BY <1>1, <1>2, <1>3, <1>4 DEF FlowOK, Continue

LEMMA ActTypes ==
  ASSUME FlowOK, InboxOK, NEW w \in Workflow, Act(w), goal[w] \in Fills \union Clicks,
         made' = made
  PROVE  FlowOK' /\ InboxOK'
<1>0. value[w] \in 0..made
  BY DEF FlowOK
<1>1. InboxOK'
  BY <1>0, SendTypes, CommandTypes DEF Act, Ask
<1>2. image' \in [Workflow -> Page]
  BY DEF FlowOK, Act
<1>3. at' \in [Workflow -> Awaiting \union {"idle", "begin", "poll", "over"}]
  BY DEF FlowOK, Act, Ask
<1>. QED
  BY <1>1, <1>2, <1>3 DEF FlowOK, Act

LEMMA TypeKeysTypes ==
  ASSUME FlowOK, InboxOK, NEW w \in Workflow, TypeKeys(w), goal[w] \in Fills, made' = made
  PROVE  FlowOK' /\ InboxOK'
<1>0. value[w] \in 0..made
  BY DEF FlowOK
<1>1. InboxOK'
  BY <1>0, SendTypes, CommandTypes DEF TypeKeys, Ask
<1>2. at' \in [Workflow -> Awaiting \union {"idle", "begin", "poll", "over"}]
  BY DEF FlowOK, TypeKeys, Ask
<1>. QED
  BY <1>1, <1>2 DEF FlowOK, TypeKeys

LEMMA GiveUpTypes ==
  ASSUME FlowOK, InboxOK, NEW w \in Workflow, GiveUpOnCode(w), made' = made
  PROVE  FlowOK' /\ InboxOK'
<1>1. image' \in [Workflow -> Page]
  BY DEF FlowOK, GiveUpOnCode
<1>2. at' \in [Workflow -> Awaiting \union {"idle", "begin", "poll", "over"}]
  BY DEF FlowOK, GiveUpOnCode
<1>. QED
  BY <1>1, <1>2 DEF FlowOK, InboxOK, GiveUpOnCode

\* What follows a step that fills something in or clicks on something.
LEMMA FollowingTypes ==
  ASSUME NEW s \in Identify \union Fills \union Clicks \union {"NavigateToLogin", "Handle2FA"},
         s \in Step
  PROVE  Following(s) \in Step
  BY Followers

LEMMA ActedTypes ==
  ASSUME FlowOK, InboxOK, InPlace, TypeOK, NEW w \in Workflow, Acted(w), made \in Nat,
         made' = made, at[w] \in {"act", "type"}
  PROVE  FlowOK' /\ (UNCHANGED inbox \/ InboxOK')
<1>1. CASE Continue(w, "SubmitCode") /\ value' = Set(value, w, 0)
  <2>1. value' \in [Workflow -> 0..made]
    BY <1>1 DEF FlowOK
  <2>. QED
    BY <1>1, <2>1, ContinueTypes
<1>2. CASE Goto(w, "sleep") /\ UNCHANGED <<step, attempts, goal, value, image, inbox, trouble>>
  BY <1>2 DEF FlowOK
<1>3. CASE /\ Navigates(goal[w]) \/ (goal[w] = step[w] /\ goal[w] \in Fills)
           /\ StepDone(w, Following(step[w])) /\ UNCHANGED inbox
  <2>1. Navigates(goal[w]) => goal[w] \in {"NavigateToLogin", "NavigateToPasswordChange"}
    BY DEF Navigates
  <2>2. Following(step[w]) \in Step
    BY <1>3, <2>1, Places, Followers
  <2>. QED
    BY <2>2, <1>3, DoneTypes
<1>. QED
  BY <1>1, <1>2, <1>3 DEF Acted

\* A step that has failed or begins with one of the commands above.
LEMMA MoreCommands ==
  ASSUME InboxOK, UNCHANGED inbox, made \in Nat, made' = made + 1
  PROVE  InboxOK'
<1>. DEFINE C == Commands(0..made)
            D == Commands(0..made')
<1>1. C \subseteq D
  BY DEF Commands
<1>2. inbox \in [Workflow -> Seq(C)]
  BY DEF InboxOK
<1>. HIDE DEF C, D
<1>3. inbox \in [Workflow -> Seq(D)]
  BY <1>1, <1>2
<1>. QED
  BY <1>3 DEF D, InboxOK

\* The page that follows a click, and what is typed in, are pages and passwords.
LEMMA TypedTypes ==
  ASSUME TabOK, NEW w \in Workflow, NEW c \in Commands(0..made), c.do \in {"fill", "type"},
         made \in Nat
  PROVE  c.on \in Field /\ c.with \in 0..made /\ tab[w].typed[c.on] \in -made..made
<1>1. c.on \in Field /\ c.with \in 0..made
  BY DEF Commands, Screenshot, Command
<1>. QED
  BY <1>1 DEF TabOK

\* What a click does, apart from the page it leads to.
LEMMA ClickIs ==
  ASSUME TabOK, InboxOK, NEW w \in Workflow, Click(w)
  PROVE  /\ Execute(w, {"click"}) /\ Answer(w)
         /\ \E page \in Page : Load(w, page)
         /\ \/ inbox[w][1].on = "save" /\ site' = tab[w].typed["new"] /\ saver' = w
               /\ Load(w, "saved")
               /\ tab[w].typed["current"] = site /\ tab[w].typed["new"] # 0
            \/ UNCHANGED siteVars /\ \E page \in Page \ {"saved"} : Load(w, page)
<1>. DEFINE c == inbox[w][1]
            accepted == /\ tab[w].typed["current"] = site
                        /\ tab[w].typed["new"] # 0
                        /\ tab[w].typed["new"] = tab[w].typed["confirm"]
<1>1. Execute(w, {"click"}) /\ Answer(w) /\ c.do = "click" /\ c \in Commands(0..made)
  BY ExecuteTypes DEF Click, Execute
<1>2. c.on \in {"signin", "submit", "link", "save"}
  BY <1>1 DEF Commands, ButtonOf, Screenshot, Command
<1>3. IF c.on = "save" /\ accepted THEN site' = tab[w].typed["new"] /\ saver' = w
      ELSE UNCHANGED siteVars
  BY DEF Click
<1>4. CASE c.on = "signin"
  <2>1. Load(w, "login") \/ Load(w, "account") \/ Load(w, "code")
    BY <1>4 DEF Click
  <2>. QED
    BY <1>1, <1>3, <1>4, <2>1
<1>5. CASE c.on = "submit"
  <2>1. Load(w, "account") \/ Load(w, "code")
    BY <1>5 DEF Click
  <2>. QED
    BY <1>1, <1>3, <1>5, <2>1
<1>6. CASE c.on = "link"
  <2>1. Load(w, "form")
    BY <1>6 DEF Click
  <2>. QED
    BY <1>1, <1>3, <1>6, <2>1
<1>7. CASE c.on = "save"
  <2>1. Load(w, IF accepted THEN "saved" ELSE "refused")
    BY <1>7 DEF Click
  <2>. QED
    BY <1>1, <1>3, <1>7, <2>1
<1>. QED
  BY <1>2, <1>4, <1>5, <1>6, <1>7

\* The request a workflow polls for, and the one that makes room.
LEMMA PlaceIs ==
  ASSUME queue \in Seq(Request), NEW w \in Workflow
  PROVE  /\ Place(w) \in 0..Len(queue)
         /\ Place(w) # 0 => Mine(w, queue[Place(w)])
         /\ (\E i \in 1..Len(queue) : Mine(w, queue[i])) => Place(w) # 0
<1>. DEFINE I == {i \in 1..Len(queue) : Mine(w, queue[i])}
<1>1. Place(w) = IF I # {} THEN Min(I) ELSE 0
  BY DEF Place, SelectInSeq
<1>2. I \subseteq 1..Len(queue) /\ Len(queue) \in Nat
  OBVIOUS
<1>3. I # {} => Min(I) \in I
  BY <1>2, Least
<1>. QED
  BY <1>1, <1>2, <1>3

LEMMA FirstResolvedIs ==
  ASSUME queue \in Seq(Request)
  PROVE  /\ FirstResolved \in 0..Len(queue)
         /\ FirstResolved # 0 => Resolved(queue[FirstResolved])
<1>. DEFINE I == {i \in 1..Len(queue) : Resolved(queue[i])}
<1>1. FirstResolved = IF I # {} THEN Min(I) ELSE 0
  BY DEF FirstResolved, SelectInSeq
<1>2. I \subseteq 1..Len(queue) /\ Len(queue) \in Nat
  OBVIOUS
<1>3. I # {} => Min(I) \in I
  BY <1>2, Least
<1>. QED
  BY <1>1, <1>2, <1>3

\* Removing one element keeps the others.
LEMMA Removed ==
  ASSUME NEW s \in Seq(Request), NEW i \in 1..Len(s)
  PROVE  /\ RemoveAt(s, i) \in Seq(Request) /\ Len(RemoveAt(s, i)) = Len(s) - 1
         /\ \A j \in 1..Len(s) : j # i =>
              \E k \in 1..Len(RemoveAt(s, i)) : RemoveAt(s, i)[k] = s[j]
<1>. DEFINE a == SubSeq(s, 1, i - 1)
            b == SubSeq(s, i + 1, Len(s))
<1>1. /\ a \in Seq(Request) /\ Len(a) = i - 1 /\ \A k \in 1..(i - 1) : a[k] = s[k]
      /\ b \in Seq(Request) /\ Len(b) = Len(s) - i
      /\ \A k \in 1..(Len(s) - i) : b[k] = s[i + k]
  OBVIOUS
<1>2. RemoveAt(s, i) = a \o b
  BY DEF RemoveAt
<1>. HIDE DEF a, b
<1>3. /\ a \o b \in Seq(Request) /\ Len(a \o b) = Len(s) - 1
      /\ \A k \in 1..(i - 1) : (a \o b)[k] = s[k]
      /\ \A k \in i..(Len(s) - 1) : (a \o b)[k] = s[k + 1]
  <2>1. a \o b \in Seq(Request) /\ Len(a \o b) = Len(s) - 1
    BY <1>1
  <2>2. ASSUME NEW k \in 1..(i - 1) PROVE (a \o b)[k] = s[k]
    BY <1>1
  <2>3. ASSUME NEW k \in i..(Len(s) - 1) PROVE (a \o b)[k] = s[k + 1]
    <3>1. (a \o b)[k] = b[k - Len(a)] /\ k - Len(a) \in 1..(Len(s) - i)
      BY <1>1
    <3>2. b[k - (i - 1)] = s[i + (k - (i - 1))] /\ i + (k - (i - 1)) = k + 1
      BY <1>1, <3>1
    <3>. QED
      BY <1>1, <3>1, <3>2
  <2>. QED
    BY <2>1, <2>2, <2>3
<1>4. ASSUME NEW j \in 1..Len(s), j # i
      PROVE  \E k \in 1..(Len(s) - 1) : (a \o b)[k] = s[j]
  <2>1. CASE j < i
    BY <2>1, <1>3
  <2>2. CASE j > i
    <3>1. j - 1 \in i..(Len(s) - 1) /\ (j - 1) + 1 = j
      BY <2>2
    <3>2. (a \o b)[j - 1] = s[(j - 1) + 1]
      BY <3>1, <1>3
    <3>3. (a \o b)[j - 1] = s[j] /\ j - 1 \in 1..(Len(s) - 1)
      BY <3>1, <3>2
    <3>. QED
      BY <3>3
  <2>. QED
    <3>1. j \in Nat /\ i \in Nat /\ (j < i \/ j > i)
      BY <1>4
    <3>. QED
      BY <3>1, <2>1, <2>2
<1>. QED
  BY <1>2, <1>3, <1>4

LEMMA RoomTypes ==
  ASSUME queue \in Seq(Request), Len(queue) <= QueueMax
  PROVE  /\ Room \in Seq(Request) /\ Len(Room) < QueueMax
         /\ \A j \in 1..Len(queue) :
              \/ \E k \in 1..Len(Room) : Room[k] = queue[j]
              \/ Full /\ (FirstResolved = 0 \/ FirstResolved = j)
<1>1. CASE ~Full
  BY <1>1 DEF Room, Full
<1>2. CASE Full
  <2>. DEFINE i == IF FirstResolved = 0 THEN 1 ELSE FirstResolved
  <2>1. i \in 1..Len(queue)
    BY <1>2, FirstResolvedIs DEF Full
  <2>2. Room = RemoveAt(queue, i)
    BY <1>2 DEF Room
  <2>3. /\ Room \in Seq(Request) /\ Len(Room) = Len(queue) - 1
        /\ \A j \in 1..Len(queue) : j # i => \E k \in 1..Len(Room) : Room[k] = queue[j]
    <3>. HIDE DEF i
    <3>. QED
      BY <2>1, <2>2, Removed
  <2>4. Len(Room) < QueueMax
    BY <2>3
  <2>. QED
    BY <1>2, <2>3, <2>4
<1>. QED
  BY <1>1, <1>2

LEMMA TypesKept ==
  ASSUME TypeOK, InPlace, [Next]_vars
  PROVE  TypeOK'
<1>0. /\ FlowOK /\ InboxOK /\ OutboxOK /\ TabOK /\ SharedOK
      /\ made \in Nat /\ made >= 1 /\ faults \in Nat
  BY TypeParts
<1>1. ASSUME NEW w \in Workflow, Start(w) PROVE TypeOK'
  <2>1. FlowOK'
    BY <1>1, <1>0 DEF FlowOK, Start
  <2>2. InboxOK'
    BY <1>1, <1>0 DEF InboxOK, Start
  <2>3. OutboxOK'
    BY <1>1, <1>0 DEF OutboxOK, Start
  <2>4. TabOK'
    BY <1>1, <1>0 DEF TabOK, Start
  <2>5. SharedOK'
    BY <1>1, <1>0 DEF SharedOK, Start
  <2>. QED
    BY <2>1, <2>2, <2>3, <2>4, <2>5 DEF TypeOK, FlowOK, InboxOK, OutboxOK,
       TabOK, SharedOK
<1>2. ASSUME NEW w \in Workflow, Skip(w) PROVE TypeOK'
  <2>1. FlowOK'
    BY <1>2, <1>0, DoneTypes, Followers DEF Skip
  <2>2. InboxOK'
    BY <1>2, <1>0 DEF InboxOK, Skip
  <2>3. OutboxOK'
    BY <1>2, <1>0 DEF OutboxOK, Skip
  <2>4. TabOK'
    BY <1>2, <1>0 DEF TabOK, Skip
  <2>5. SharedOK'
    BY <1>2, <1>0 DEF SharedOK, Skip
  <2>. QED
    BY <2>1, <2>2, <2>3, <2>4, <2>5 DEF TypeOK, FlowOK, InboxOK, OutboxOK,
       TabOK, SharedOK
<1>3. ASSUME NEW w \in Workflow, GenerateNewPassword(w) PROVE TypeOK'
  <2>1. FlowOK'
    BY <1>3, <1>0, DoneTypes DEF GenerateNewPassword
  <2>2. InboxOK'
    BY <1>3, <1>0, MoreCommands DEF GenerateNewPassword
  <2>3. OutboxOK'
    BY <1>3, <1>0 DEF OutboxOK, GenerateNewPassword
  <2>4. TabOK'
    BY <1>3, <1>0 DEF TabOK, GenerateNewPassword
  <2>5. SharedOK'
    BY <1>3, <1>0 DEF SharedOK, GenerateNewPassword
  <2>. QED
    BY <2>1, <2>2, <2>3, <2>4, <2>5 DEF TypeOK, FlowOK, InboxOK, OutboxOK,
       TabOK, SharedOK
<1>4. ASSUME NEW w \in Workflow, BeginStep(w) PROVE TypeOK'
  <2>1. FlowOK'
    <3>1. Credential(w) \in 0..made
      BY <1>0 DEF Credential, SharedOK
    <3>2. value' \in [Workflow -> 0..made] /\ made' = made
      BY <1>4, <3>1, <1>0 DEF BeginStep, FlowOK
    <3>3. trouble' \in [Workflow -> BOOLEAN]
      BY <1>4, <1>0, Zenon DEF BeginStep, FlowOK
    <3>4. at' \in [Workflow -> Awaiting \union {"idle", "begin", "poll", "over"}]
      BY <1>4, <1>0 DEF BeginStep, FlowOK, Ask
    <3>. QED
      BY <1>4, <1>0, <3>2, <3>3, <3>4 DEF BeginStep, FlowOK
  <2>2. InboxOK'
    <3>1. Credential(w) \in 0..made
      BY <1>0 DEF Credential, SharedOK
    <3>2. value'[w] \in 0..made /\ made' = made
      BY <1>4, <3>1, <1>0 DEF BeginStep, FlowOK
    <3>3. CASE Ask(w, Screenshot, "shot")
      BY <3>2, <3>3, <1>0, SendTypes DEF Ask, Commands
    <3>4. CASE /\ ByProfile(step[w]) /\ step[w] \notin Identify
               /\ Ask(w, CommandFor(step[w], value'[w]), "act")
      <4>1. step[w] \in Fills \union Clicks \union {"NavigateToLogin"}
        BY <1>4, <3>4, <1>0, Places DEF BeginStep, ByProfile
      <4>2. CommandFor(step[w], value'[w]) \in Commands(0..made)
        BY <4>1, <3>2, CommandTypes
      <4>. QED
        BY <3>2, <3>4, <4>2, <1>0, SendTypes DEF Ask
    <3>. QED
      BY <1>4, <3>3, <3>4 DEF BeginStep
  <2>3. OutboxOK'
    BY <1>4, <1>0 DEF OutboxOK, BeginStep
  <2>4. TabOK'
    BY <1>4, <1>0 DEF TabOK, BeginStep
  <2>5. SharedOK'
    BY <1>4, <1>0 DEF SharedOK, BeginStep
  <2>. QED
    BY <2>1, <2>2, <2>3, <2>4, <2>5 DEF TypeOK, FlowOK, InboxOK, OutboxOK,
       TabOK, SharedOK
<1>5. ASSUME NEW w \in Workflow, CredentialFails(w) PROVE TypeOK'
  <2>1. FlowOK'
    BY <1>5, <1>0, FailTypes DEF CredentialFails
  <2>2. InboxOK'
    BY <1>5, <1>0 DEF InboxOK, CredentialFails
  <2>3. OutboxOK'
    BY <1>5, <1>0 DEF OutboxOK, CredentialFails
  <2>4. TabOK'
    BY <1>5, <1>0 DEF TabOK, CredentialFails
  <2>5. SharedOK'
    BY <1>5, <1>0 DEF SharedOK, CredentialFails
  <2>. QED
    BY <2>1, <2>2, <2>3, <2>4, <2>5 DEF TypeOK, FlowOK, InboxOK, OutboxOK,
       TabOK, SharedOK
<1>6. ASSUME NEW w \in Workflow, Handle2FA(w) PROVE TypeOK'
  <2>1. FlowOK'
    <3>1. value' \in [Workflow -> 0..made] /\ goal' \in [Workflow -> Goal] /\ made' = made
      BY <1>6, <1>0 DEF Handle2FA, FlowOK
    <3>2. at' \in [Workflow -> Awaiting \union {"idle", "begin", "poll", "over"}]
      BY <1>6, <1>0 DEF Handle2FA, FlowOK, Ask
    <3>. QED
      BY <1>6, <1>0, <3>1, <3>2 DEF Handle2FA, FlowOK
  <2>2. InboxOK'
    BY <1>6, <1>0, SendTypes DEF Handle2FA, Ask, Commands
  <2>3. OutboxOK'
    BY <1>6, <1>0 DEF OutboxOK, Handle2FA
  <2>4. TabOK'
    BY <1>6, <1>0 DEF TabOK, Handle2FA
  <2>5. SharedOK'
    <3>1. faults' \in 0..MaxFaults
      BY <1>6, <1>0 DEF Handle2FA, SharedOK
    <3>. QED
      BY <1>6, <3>1, <1>0 DEF Handle2FA, SharedOK
  <2>. QED
    BY <2>1, <2>2, <2>3, <2>4, <2>5 DEF TypeOK, FlowOK, InboxOK, OutboxOK,
       TabOK, SharedOK
<1>7. ASSUME NEW w \in Workflow, BeginUpdate(w) PROVE TypeOK'
  <2>1. FlowOK'
    BY <1>7, <1>0 DEF FlowOK, BeginUpdate
  <2>2. InboxOK'
    BY <1>7, <1>0 DEF InboxOK, BeginUpdate
  <2>3. OutboxOK'
    BY <1>7, <1>0 DEF OutboxOK, BeginUpdate
  <2>4. TabOK'
    BY <1>7, <1>0 DEF TabOK, BeginUpdate
  <2>5. SharedOK'
    BY <1>7, <1>0 DEF SharedOK, BeginUpdate
  <2>. QED
    BY <2>1, <2>2, <2>3, <2>4, <2>5 DEF TypeOK, FlowOK, InboxOK, OutboxOK,
       TabOK, SharedOK
<1>8. ASSUME NEW w \in Workflow, Finish(w) PROVE TypeOK'
  <2>1. FlowOK'
    BY <1>8, <1>0 DEF FlowOK, Finish
  <2>2. InboxOK'
    BY <1>8, <1>0 DEF InboxOK, Finish
  <2>3. OutboxOK'
    BY <1>8, <1>0 DEF OutboxOK, Finish
  <2>4. TabOK'
    BY <1>8, <1>0 DEF TabOK, Finish
  <2>5. SharedOK'
    BY <1>8, <1>0 DEF SharedOK, Finish
  <2>. QED
    BY <2>1, <2>2, <2>3, <2>4, <2>5 DEF TypeOK, FlowOK, InboxOK, OutboxOK,
       TabOK, SharedOK
<1>9. ASSUME NEW w \in Workflow, ReadScreenshot(w) PROVE TypeOK'
  <2>0. FlowOK' /\ InboxOK'
    <3>1. CASE StepFails(w)
      BY <1>9, <3>1, <1>0, FailTypes DEF ReadScreenshot, Receive, InboxOK
    <3>2. CASE /\ IsImage(outbox[w][1]) /\ image' = Set(image, w, outbox[w][1])
               /\ Goto(w, IF goal[w] = "AskHuman" THEN "ask" ELSE "look")
               /\ UNCHANGED <<step, attempts, goal, value, trouble>>
      <4>1. image' \in [Workflow -> Page]
        BY <3>2, <1>0 DEF FlowOK, IsImage
      <4>2. at' \in [Workflow -> Awaiting \union {"idle", "begin", "poll", "over"}]
        BY <3>2, <1>0 DEF FlowOK
      <4>. QED
        BY <1>9, <3>2, <4>1, <4>2, <1>0 DEF FlowOK, InboxOK, ReadScreenshot, Receive
    <3>. QED
      BY <1>9, <3>1, <3>2 DEF ReadScreenshot
  <2>1. FlowOK'
    BY <2>0
  <2>2. InboxOK'
    BY <2>0
  <2>3. OutboxOK'
    BY <1>9, <1>0, ReceiveTypes DEF ReadScreenshot
  <2>4. TabOK'
    BY <1>9, <1>0 DEF TabOK, ReadScreenshot, Receive
  <2>5. SharedOK'
    BY <1>9, <1>0 DEF SharedOK, ReadScreenshot, Receive
  <2>. QED
    BY <2>1, <2>2, <2>3, <2>4, <2>5 DEF TypeOK, FlowOK, InboxOK, OutboxOK,
       TabOK, SharedOK
<1>10. ASSUME NEW w \in Workflow, NEW seen \in Page, Look(w, seen) PROVE TypeOK'
  <2>0. FlowOK' /\ InboxOK'
    <3>0. made' = made /\ at[w] = "look" /\ goal[w] \in Looking
      BY <1>10, Places DEF Look
    <3>1. CASE goal[w] \in Identify /\ StepDone(w, Following(goal[w])) /\ UNCHANGED inbox
      BY <3>0, <3>1, <1>0, DoneTypes, Followers DEF InboxOK
    <3>2. CASE /\ UNCHANGED inbox
               /\ \E next \in {"Handle2FA", "NavigateToPasswordChange", "UpdateVault", "Failed"} :
                    StepDone(w, next)
      BY <3>0, <3>2, <1>0, DoneTypes DEF InboxOK
    <3>3. CASE StepFails(w) /\ UNCHANGED inbox
      BY <3>0, <3>3, <1>0, FailTypes DEF InboxOK
    <3>4. CASE goal[w] \in Fills \union Clicks /\ Act(w)
      BY <3>0, <3>4, <1>0, ActTypes
    <3>5. CASE Continue(w, "AskHuman") /\ value' = Set(value, w, 0)
      <4>1. value' \in [Workflow -> 0..made]
        BY <3>5, <1>0 DEF FlowOK
      <4>. QED
        BY <3>0, <3>5, <4>1, <1>0, ContinueTypes
    <3>6. CASE GiveUpOnCode(w)
      BY <3>0, <3>6, <1>0, GiveUpTypes
    <3>. QED
      BY <1>10, <3>1, <3>2, <3>3, <3>4, <3>5, <3>6, Zenon DEF Look
  <2>1. FlowOK'
    BY <2>0
  <2>2. InboxOK'
    BY <2>0
  <2>3. OutboxOK'
    BY <1>10, <1>0 DEF OutboxOK, Look
  <2>4. TabOK'
    BY <1>10, <1>0 DEF TabOK, Look
  <2>5. SharedOK'
    BY <1>10, <1>0 DEF SharedOK, Look
  <2>. QED
    BY <2>1, <2>2, <2>3, <2>4, <2>5 DEF TypeOK, FlowOK, InboxOK, OutboxOK,
       TabOK, SharedOK
<1>11. ASSUME NEW w \in Workflow, LookFails(w) PROVE TypeOK'
  <2>1. FlowOK'
    BY <1>11, <1>0, FailTypes DEF LookFails
  <2>2. InboxOK'
    BY <1>11, <1>0 DEF InboxOK, LookFails
  <2>3. OutboxOK'
    BY <1>11, <1>0 DEF OutboxOK, LookFails
  <2>4. TabOK'
    BY <1>11, <1>0 DEF TabOK, LookFails
  <2>5. SharedOK'
    BY <1>11, <1>0 DEF SharedOK, LookFails
  <2>. QED
    BY <2>1, <2>2, <2>3, <2>4, <2>5 DEF TypeOK, FlowOK, InboxOK, OutboxOK,
       TabOK, SharedOK
<1>12. ASSUME NEW w \in Workflow, ReadReply(w) PROVE TypeOK'
  <2>0. FlowOK' /\ InboxOK'
    <3>0. made' = made
      BY <1>12 DEF ReadReply, Receive
    <3>1. CASE Acted(w)
      BY <1>12, <3>0, <3>1, <1>0, ActedTypes DEF ReadReply, Receive, InboxOK
    <3>2. CASE StepFails(w) /\ UNCHANGED inbox
      BY <3>0, <3>2, <1>0, FailTypes DEF InboxOK
    <3>3. CASE goal[w] \in Fills /\ TypeKeys(w)
      BY <3>0, <3>3, <1>0, TypeKeysTypes
    <3>. QED
      BY <1>12, <3>1, <3>2, <3>3 DEF ReadReply
  <2>1. FlowOK'
    BY <2>0
  <2>2. InboxOK'
    BY <2>0
  <2>3. OutboxOK'
    BY <1>12, <1>0, ReceiveTypes DEF ReadReply
  <2>4. TabOK'
    BY <1>12, <1>0 DEF TabOK, ReadReply, Receive
  <2>5. SharedOK'
    BY <1>12, <1>0 DEF SharedOK, ReadReply, Receive
  <2>. QED
    BY <2>1, <2>2, <2>3, <2>4, <2>5 DEF TypeOK, FlowOK, InboxOK, OutboxOK,
       TabOK, SharedOK
<1>13. ASSUME NEW w \in Workflow, ReadTyped(w) PROVE TypeOK'
  <2>0. FlowOK' /\ InboxOK'
    <3>0. made' = made
      BY <1>13 DEF ReadTyped, Receive
    <3>1. CASE Acted(w)
      BY <1>13, <3>0, <3>1, <1>0, ActedTypes DEF ReadTyped, Receive, InboxOK
    <3>2. CASE StepFails(w) /\ UNCHANGED inbox
      BY <3>0, <3>2, <1>0, FailTypes DEF InboxOK
    <3>. QED
      BY <1>13, <3>1, <3>2 DEF ReadTyped
  <2>1. FlowOK'
    BY <2>0
  <2>2. InboxOK'
    BY <2>0
  <2>3. OutboxOK'
    BY <1>13, <1>0, ReceiveTypes DEF ReadTyped
  <2>4. TabOK'
    BY <1>13, <1>0 DEF TabOK, ReadTyped, Receive
  <2>5. SharedOK'
    BY <1>13, <1>0 DEF SharedOK, ReadTyped, Receive
  <2>. QED
    BY <2>1, <2>2, <2>3, <2>4, <2>5 DEF TypeOK, FlowOK, InboxOK, OutboxOK,
       TabOK, SharedOK
<1>14. ASSUME NEW w \in Workflow, Wake(w) PROVE TypeOK'
  <2>1. FlowOK'
    BY <1>14, <1>0, DoneTypes, Followers, Places DEF Wake
  <2>2. InboxOK'
    BY <1>14, <1>0 DEF InboxOK, Wake
  <2>3. OutboxOK'
    BY <1>14, <1>0 DEF OutboxOK, Wake
  <2>4. TabOK'
    BY <1>14, <1>0 DEF TabOK, Wake
  <2>5. SharedOK'
    BY <1>14, <1>0 DEF SharedOK, Wake
  <2>. QED
    BY <2>1, <2>2, <2>3, <2>4, <2>5 DEF TypeOK, FlowOK, InboxOK, OutboxOK,
       TabOK, SharedOK
<1>15. ASSUME NEW w \in Workflow, RequestApproval(w) PROVE TypeOK'
  <2>1. FlowOK'
    BY <1>15, <1>0 DEF FlowOK, RequestApproval
  <2>2. InboxOK'
    BY <1>15, <1>0 DEF InboxOK, RequestApproval
  <2>3. OutboxOK'
    BY <1>15, <1>0 DEF OutboxOK, RequestApproval
  <2>4. TabOK'
    BY <1>15, <1>0 DEF TabOK, RequestApproval
  <2>5. SharedOK'
    <3>1. queue' \in Seq(Request) /\ Len(queue') <= QueueMax
      <4>. DEFINE request == [by |-> w, no |-> attempts[w], status |-> "pending"]
      <4>1. Room \in Seq(Request) /\ Len(Room) < QueueMax
        BY <1>0, RoomTypes DEF SharedOK
      <4>2. request \in Request
        BY <1>0 DEF FlowOK, Request
      <4>3. queue' = Append(Room, request)
        BY <1>15 DEF RequestApproval
      <4>4. QueueMax \in Nat
        BY LimitsAssumption
      <4>. HIDE DEF request
      <4>. QED
        BY <4>1, <4>2, <4>3, <4>4
    <3>. QED
      BY <1>15, <3>1, <1>0, Zenon DEF RequestApproval, SharedOK
  <2>. QED
    BY <2>1, <2>2, <2>3, <2>4, <2>5 DEF TypeOK, FlowOK, InboxOK, OutboxOK,
       TabOK, SharedOK
<1>16. ASSUME NEW w \in Workflow, Poll(w) PROVE TypeOK'
  <2>0. FlowOK' /\ InboxOK'
    <3>0. made' = made
      BY <1>16 DEF Poll
    <3>1. CASE StepFails(w) /\ UNCHANGED inbox
      BY <3>0, <3>1, <1>0, FailTypes DEF InboxOK
    <3>2. CASE Continue(w, "EnterCode") /\ \E code \in {0, 1} : value' = Set(value, w, code)
      <4>1. value' \in [Workflow -> 0..made]
        BY <3>2, <1>0 DEF FlowOK
      <4>. QED
        BY <3>0, <3>2, <4>1, <1>0, ContinueTypes
    <3>3. CASE GiveUpOnCode(w)
      BY <3>0, <3>3, <1>0, GiveUpTypes
    <3>. QED
      BY <1>16, <3>1, <3>2, <3>3, Zenon DEF Poll
  <2>1. FlowOK'
    BY <2>0
  <2>2. InboxOK'
    BY <2>0
  <2>3. OutboxOK'
    BY <1>16, <1>0 DEF OutboxOK, Poll
  <2>4. TabOK'
    BY <1>16, <1>0 DEF TabOK, Poll
  <2>5. SharedOK'
    BY <1>16, <1>0 DEF SharedOK, Poll
  <2>. QED
    BY <2>1, <2>2, <2>3, <2>4, <2>5 DEF TypeOK, FlowOK, InboxOK, OutboxOK,
       TabOK, SharedOK
<1>17. ASSUME NEW w \in Workflow, PollTimeout(w) PROVE TypeOK'
  <2>1. FlowOK'
    BY <1>17, <1>0, FailTypes DEF PollTimeout, Dropped
  <2>2. InboxOK'
    BY <1>17, <1>0 DEF InboxOK, PollTimeout, Dropped
  <2>3. OutboxOK'
    BY <1>17, <1>0, DroppedTypes DEF PollTimeout
  <2>4. TabOK'
    BY <1>17, <1>0 DEF TabOK, PollTimeout, Dropped
  <2>5. SharedOK'
    <3>1. vault' \in 0..made
      BY <1>17, <1>0 DEF SharedOK, PollTimeout, Dropped
    <3>. QED
      BY <1>17, <1>0, <3>1 DEF SharedOK, PollTimeout, Dropped
  <2>. QED
    BY <2>1, <2>2, <2>3, <2>4, <2>5 DEF TypeOK, FlowOK, InboxOK, OutboxOK,
       TabOK, SharedOK
<1>18. ASSUME NEW w \in Workflow, Put(w) PROVE TypeOK'
  <2>1. FlowOK'
    BY <1>18, <1>0 DEF FlowOK, Put
  <2>2. InboxOK'
    BY <1>18, <1>0 DEF InboxOK, Put
  <2>3. OutboxOK'
    BY <1>18, <1>0 DEF OutboxOK, Put
  <2>4. TabOK'
    BY <1>18, <1>0 DEF TabOK, Put
  <2>5. SharedOK'
    <3>1. vault' \in 0..made
      BY <1>18, <1>0 DEF SharedOK, Put
    <3>. QED
      BY <1>18, <1>0, <3>1 DEF SharedOK, Put
  <2>. QED
    BY <2>1, <2>2, <2>3, <2>4, <2>5 DEF TypeOK, FlowOK, InboxOK, OutboxOK,
       TabOK, SharedOK
<1>19. ASSUME NEW w \in Workflow, PutFails(w) PROVE TypeOK'
  <2>1. FlowOK'
    BY <1>19, <1>0, FailTypes DEF PutFails
  <2>2. InboxOK'
    BY <1>19, <1>0 DEF InboxOK, PutFails
  <2>3. OutboxOK'
    BY <1>19, <1>0 DEF OutboxOK, PutFails
  <2>4. TabOK'
    BY <1>19, <1>0 DEF TabOK, PutFails
  <2>5. SharedOK'
    <3>1. vault' \in 0..made
      BY <1>19, <1>0 DEF SharedOK, PutFails
    <3>. QED
      BY <1>19, <1>0, <3>1 DEF SharedOK, PutFails
  <2>. QED
    BY <2>1, <2>2, <2>3, <2>4, <2>5 DEF TypeOK, FlowOK, InboxOK, OutboxOK,
       TabOK, SharedOK
<1>20. ASSUME NEW w \in Workflow, SyncVault(w) PROVE TypeOK'
  <2>1. FlowOK'
    BY <1>20, <1>0, DoneTypes DEF SyncVault
  <2>2. InboxOK'
    BY <1>20, <1>0 DEF InboxOK, SyncVault
  <2>3. OutboxOK'
    BY <1>20, <1>0 DEF OutboxOK, SyncVault
  <2>4. TabOK'
    BY <1>20, <1>0 DEF TabOK, SyncVault
  <2>5. SharedOK'
    BY <1>20, <1>0 DEF SharedOK, SyncVault
  <2>. QED
    BY <2>1, <2>2, <2>3, <2>4, <2>5 DEF TypeOK, FlowOK, InboxOK, OutboxOK,
       TabOK, SharedOK
<1>21. ASSUME NEW w \in Workflow, CommandFails(w) PROVE TypeOK'
  <2>1. FlowOK'
    BY <1>21, <1>0 DEF FlowOK, CommandFails, Execute
  <2>2. InboxOK'
    BY <1>21, <1>0, ExecuteTypes DEF CommandFails
  <2>3. OutboxOK'
    BY <1>21, <1>0, ReplyTypes DEF CommandFails, Answer, Replies
  <2>4. TabOK'
    BY <1>21, <1>0 DEF TabOK, CommandFails, Execute
  <2>5. SharedOK'
    BY <1>21, <1>0 DEF SharedOK, CommandFails, Execute, Answer
  <2>. QED
    BY <2>1, <2>2, <2>3, <2>4, <2>5 DEF TypeOK, FlowOK, InboxOK, OutboxOK,
       TabOK, SharedOK
<1>22. ASSUME NEW w \in Workflow, Navigate(w) PROVE TypeOK'
  <2>1. FlowOK'
    BY <1>22, <1>0 DEF FlowOK, Navigate, Execute
  <2>2. InboxOK'
    BY <1>22, <1>0, ExecuteTypes DEF Navigate
  <2>3. OutboxOK'
    BY <1>22, <1>0, ReplyTypes DEF Navigate, Answer, Replies
  <2>4. TabOK'
    BY <1>22, <1>0, LoadTypes DEF Navigate, Execute
  <2>5. SharedOK'
    BY <1>22, <1>0 DEF SharedOK, Navigate, Execute, Answer
  <2>. QED
    BY <2>1, <2>2, <2>3, <2>4, <2>5 DEF TypeOK, FlowOK, InboxOK, OutboxOK,
       TabOK, SharedOK
<1>23. ASSUME NEW w \in Workflow, TakeScreenshot(w) PROVE TypeOK'
  <2>1. FlowOK'
    BY <1>23, <1>0 DEF FlowOK, TakeScreenshot, Execute
  <2>2. InboxOK'
    BY <1>23, <1>0, ExecuteTypes DEF TakeScreenshot
  <2>3. OutboxOK'
    <3>1. tab[w].page \in Replies
      BY <1>0 DEF TabOK, Replies
    <3>. QED
      BY <1>23, <3>1, <1>0, ReplyTypes DEF TakeScreenshot
  <2>4. TabOK'
    BY <1>23, <1>0 DEF TabOK, TakeScreenshot, Execute
  <2>5. SharedOK'
    BY <1>23, <1>0 DEF SharedOK, TakeScreenshot, Execute, Answer
  <2>. QED
    BY <2>1, <2>2, <2>3, <2>4, <2>5 DEF TypeOK, FlowOK, InboxOK, OutboxOK,
       TabOK, SharedOK
<1>24. ASSUME NEW w \in Workflow, Fill(w) PROVE TypeOK'
  <2>1. FlowOK'
    BY <1>24, <1>0 DEF FlowOK, Fill, Execute
  <2>2. InboxOK'
    BY <1>24, <1>0, ExecuteTypes DEF Fill
  <2>3. OutboxOK'
    BY <1>24, <1>0, ReplyTypes DEF Fill, Answer, Replies
  <2>4. TabOK'
    <3>. DEFINE c == inbox[w][1]
                old == tab[w].typed[c.on]
                new == IF c.do = "type" /\ old # 0 THEN -c.with ELSE c.with
    <3>1. c \in Commands(0..made) /\ c.do \in {"fill", "type"} /\ made' = made
      BY <1>24, <1>0, ExecuteTypes DEF Fill, Execute
    <3>2. c.on \in Field /\ c.with \in 0..made
      BY <3>1, <1>0, TypedTypes
    <3>3. new \in -made..made
      BY <3>2, <1>0
    <3>4. tab' = [tab EXCEPT ![w].typed[c.on] = new]
      BY <1>24 DEF Fill
    <3>5. tab[w].typed \in [Field -> -made..made]
      BY <1>0 DEF TabOK
    <3>. HIDE DEF c, new
    <3>6. [tab[w].typed EXCEPT ![c.on] = new] \in [Field -> -made..made]
      BY <3>2, <3>3, <3>5
    <3>7. tab' = [tab EXCEPT ![w] = [tab[w] EXCEPT !.typed = [tab[w].typed EXCEPT ![c.on] = new]]]
      BY <3>4, <1>0 DEF TabOK
    <3>8. [tab[w] EXCEPT !.typed = [tab[w].typed EXCEPT ![c.on] = new]]
            \in [page : Page, typed : [Field -> -made..made]]
      BY <3>6, <1>0 DEF TabOK
    <3>. QED
      BY <3>1, <3>7, <3>8, <1>0 DEF TabOK
  <2>5. SharedOK'
    BY <1>24, <1>0 DEF SharedOK, Fill, Execute, Answer
  <2>. QED
    BY <2>1, <2>2, <2>3, <2>4, <2>5 DEF TypeOK, FlowOK, InboxOK, OutboxOK,
       TabOK, SharedOK
<1>25. ASSUME NEW w \in Workflow, Click(w) PROVE TypeOK'
  <2>1. FlowOK'
    BY <1>25, <1>0 DEF FlowOK, Click, Execute
  <2>2. InboxOK'
    BY <1>25, <1>0, ExecuteTypes DEF Click
  <2>3. OutboxOK'
    BY <1>25, <1>0, ReplyTypes DEF Click, Answer, Replies
  <2>4. TabOK'
    <3>1. made' = made /\ \E page \in Page : Load(w, page)
      BY <1>25, <1>0, ClickIs DEF Execute
    <3>. QED
      BY <3>1, <1>0, LoadTypes
  <2>5. SharedOK'
    <3>1. tab[w].typed["new"] \in -made..made
      BY <1>0 DEF TabOK
    <3>2. site' \in -made..made /\ saver' \in Workflow \union {None}
      BY <1>25, <3>1, <1>0, ClickIs DEF SharedOK
    <3>3. faults' \in 0..MaxFaults
      BY <1>25, <1>0, ClickIs DEF SharedOK, Answer
    <3>. QED
      BY <1>25, <3>2, <3>3, <1>0, ClickIs DEF SharedOK, Execute
  <2>. QED
    BY <2>1, <2>2, <2>3, <2>4, <2>5 DEF TypeOK, FlowOK, InboxOK, OutboxOK,
       TabOK, SharedOK
<1>26. ASSUME NEW w \in Workflow, StepTimeout(w) PROVE TypeOK'
  <2>1. FlowOK'
    BY <1>26, <1>0, FailTypes DEF StepTimeout, Dropped
  <2>2. InboxOK'
    BY <1>26, <1>0 DEF InboxOK, StepTimeout, Dropped
  <2>3. OutboxOK'
    BY <1>26, <1>0, DroppedTypes DEF StepTimeout
  <2>4. TabOK'
    BY <1>26, <1>0 DEF TabOK, StepTimeout, Dropped
  <2>5. SharedOK'
    <3>1. vault' \in 0..made
      BY <1>26, <1>0 DEF SharedOK, StepTimeout, Dropped
    <3>. QED
      BY <1>26, <1>0, <3>1 DEF SharedOK, StepTimeout, Dropped
  <2>. QED
    BY <2>1, <2>2, <2>3, <2>4, <2>5 DEF TypeOK, FlowOK, InboxOK, OutboxOK,
       TabOK, SharedOK
<1>27. ASSUME NEW w \in Workflow, TotalTimeout(w) PROVE TypeOK'
  <2>1. FlowOK'
    BY <1>27, <1>0 DEF FlowOK, TotalTimeout, Dropped
  <2>2. InboxOK'
    BY <1>27, <1>0 DEF InboxOK, TotalTimeout, Dropped
  <2>3. OutboxOK'
    BY <1>27, <1>0, DroppedTypes DEF TotalTimeout
  <2>4. TabOK'
    BY <1>27, <1>0 DEF TabOK, TotalTimeout, Dropped
  <2>5. SharedOK'
    <3>1. vault' \in 0..made
      BY <1>27, <1>0 DEF SharedOK, TotalTimeout, Dropped
    <3>. QED
      BY <1>27, <1>0, <3>1 DEF SharedOK, TotalTimeout, Dropped
  <2>. QED
    BY <2>1, <2>2, <2>3, <2>4, <2>5 DEF TypeOK, FlowOK, InboxOK, OutboxOK,
       TabOK, SharedOK
<1>28. ASSUME NEW i \in 1..Len(queue), NEW status \in {"approved", "denied"}, Respond(i, status)
      PROVE  TypeOK'
  <2>1. FlowOK'
    BY <1>28, <1>0 DEF FlowOK, Respond
  <2>2. InboxOK'
    BY <1>28, <1>0 DEF InboxOK, Respond
  <2>3. OutboxOK'
    BY <1>28, <1>0 DEF OutboxOK, Respond
  <2>4. TabOK'
    <3>0. queue[i].by \in Workflow
      <4>1. queue[i] \in Request
        BY <1>0 DEF SharedOK
      <4>. QED
        BY <4>1 DEF Request
    <3>1. tab' = tab \/ Load(queue[i].by, "account")
      BY <1>28 DEF Respond, Load
    <3>. QED
      BY <1>28, <3>0, <3>1, <1>0, LoadTypes DEF Respond, TabOK
  <2>5. SharedOK'
    <3>0. queue[i] \in Request
      BY <1>0 DEF SharedOK
    <3>1. [queue[i] EXCEPT !.status = status] \in Request
      BY <3>0 DEF Request
    <3>2. queue' \in Seq(Request) /\ Len(queue') = Len(queue)
      BY <1>28, <3>1, <1>0 DEF Respond, SharedOK
    <3>. QED
      BY <1>28, <3>2, <1>0 DEF Respond, SharedOK
  <2>. QED
    BY <2>1, <2>2, <2>3, <2>4, <2>5 DEF TypeOK, FlowOK, InboxOK, OutboxOK,
       TabOK, SharedOK
<1>29. ASSUME NEW n \in 1..Len(queue), ListApprovals(n) PROVE TypeOK'
  <2>1. FlowOK'
    BY <1>29, <1>0 DEF FlowOK, ListApprovals
  <2>2. InboxOK'
    BY <1>29, <1>0 DEF InboxOK, ListApprovals
  <2>3. OutboxOK'
    BY <1>29, <1>0 DEF OutboxOK, ListApprovals
  <2>4. TabOK'
    BY <1>29, <1>0 DEF TabOK, ListApprovals
  <2>5. SharedOK'
    BY <1>29, <1>0 DEF SharedOK, ListApprovals
  <2>. QED
    BY <2>1, <2>2, <2>3, <2>4, <2>5 DEF TypeOK, FlowOK, InboxOK, OutboxOK,
       TabOK, SharedOK
<1>30. ASSUME Refresh PROVE TypeOK'
  <2>1. FlowOK'
    BY <1>30, <1>0 DEF FlowOK, Refresh
  <2>2. InboxOK'
    BY <1>30, <1>0 DEF InboxOK, Refresh
  <2>3. OutboxOK'
    BY <1>30, <1>0 DEF OutboxOK, Refresh
  <2>4. TabOK'
    BY <1>30, <1>0 DEF TabOK, Refresh
  <2>5. SharedOK'
    BY <1>30, <1>0 DEF SharedOK, Refresh
  <2>. QED
    BY <2>1, <2>2, <2>3, <2>4, <2>5 DEF TypeOK, FlowOK, InboxOK, OutboxOK,
       TabOK, SharedOK
<1>31. CASE UNCHANGED vars
  BY <1>31, <1>0 DEF vars, TypeOK, FlowOK, InboxOK, OutboxOK, TabOK, SharedOK
<1>. QED
  BY <1>1, <1>2, <1>3, <1>4, <1>5, <1>6, <1>7, <1>8, <1>9, <1>10, <1>11, <1>12,
     <1>13, <1>14, <1>15, <1>16, <1>17, <1>18, <1>19, <1>20, <1>21, <1>22,
     <1>23, <1>24, <1>25, <1>26, <1>27, <1>28, <1>29, <1>30, <1>31, NextCases

\* What the places allow, as a lemma for each way to move.
LEMMA GoalsAre ==
  /\ GoalsAt["idle"] = {"NavigateToLogin"} /\ GoalsAt["begin"] = Step
  /\ GoalsAt["shot"] = Looking \union {"AskHuman"} /\ GoalsAt["look"] = Looking
  /\ GoalsAt["act"] = Fills \union Clicks \union {"NavigateToLogin"}
  /\ GoalsAt["type"] = Fills /\ GoalsAt["sleep"] = Clicks \union Parts
  /\ GoalsAt["ask"] = {"AskHuman"} /\ GoalsAt["poll"] = {"AskHuman"}
  /\ GoalsAt["put"] = {"UpdateVault"} /\ GoalsAt["sync"] = {"UpdateVault"}
  /\ GoalsAt["over"] = Final \union {"NavigateToLogin"}
  BY Zenon DEF GoalsAt

LEMMA DonePlaced ==
  ASSUME FlowOK, InPlace, NEW w \in Workflow, NEW next \in Step, StepDone(w, next)
  PROVE  InPlace'
<1>1. \A v \in Workflow :
        /\ at'[v] = IF v = w THEN "begin" ELSE at[v]
        /\ goal'[v] = IF v = w THEN next ELSE goal[v]
        /\ step'[v] = IF v = w THEN next ELSE step[v]
  BY DEF FlowOK, StepDone
<1>2. next \in GoalsAt["begin"] /\ next \notin Parts
  BY GoalsAre
<1>. QED
  BY <1>1, <1>2 DEF InPlace

LEMMA FailPlaced ==
  ASSUME FlowOK, InPlace, NEW w \in Workflow, StepFails(w)
  PROVE  InPlace'
<1>. DEFINE next == IF attempts[w] = 2 THEN "Failed" ELSE step[w]
<1>1. \A v \in Workflow :
        /\ at'[v] = IF v = w THEN "begin" ELSE at[v]
        /\ goal'[v] = IF v = w THEN next ELSE goal[v]
        /\ step'[v] = IF v = w THEN next ELSE step[v]
  BY DEF FlowOK, StepFails
<1>2. next \in Step
  BY DEF FlowOK
<1>3. next \in GoalsAt["begin"] /\ next \notin Parts
  BY <1>2, GoalsAre
<1>. QED
  BY <1>1, <1>3 DEF InPlace

\* A move within a step.
LEMMA MovePlaced ==
  ASSUME FlowOK, InPlace, NEW w \in Workflow, NEW place, NEW g, Goto(w, place), UNCHANGED step,
         goal' = Set(goal, w, g), g \in GoalsAt[place],
         step[w] = IF g \in Parts THEN "Handle2FA" ELSE g
  PROVE  InPlace'
<1>1. \A v \in Workflow :
        /\ at'[v] = IF v = w THEN place ELSE at[v]
        /\ goal'[v] = IF v = w THEN g ELSE goal[v]
        /\ step'[v] = step[v]
  BY DEF FlowOK
<1>. QED
  BY <1>1 DEF InPlace

\* The same for one that keeps its goal.
LEMMA StayPlaced ==
  ASSUME FlowOK, InPlace, NEW w \in Workflow,
            NEW place, Goto(w, place), UNCHANGED <<step, goal>>,
         goal[w] \in GoalsAt[place]
  PROVE  InPlace'
<1>1. goal' = Set(goal, w, goal[w])
  BY DEF FlowOK
<1>2. step[w] = IF goal[w] \in Parts THEN "Handle2FA" ELSE goal[w]
  BY DEF InPlace
<1>. QED
  BY <1>1, <1>2, MovePlaced

LEMMA ActedPlaced ==
  ASSUME TypeOK, FlowOK, InPlace, NEW w \in Workflow, Acted(w), at[w] \in {"act", "type"}
  PROVE  InPlace'
<1>1. CASE goal[w] \in {"EnterTotp", "EnterCode"} /\ Continue(w, "SubmitCode")
  BY <1>1, MovePlaced, Places, GoalsAre DEF Continue, Ask
<1>2. CASE goal[w] \in Clicks /\ Goto(w, "sleep") /\ UNCHANGED <<step, goal>>
  BY <1>2, StayPlaced, GoalsAre
<1>3. CASE /\ Navigates(goal[w]) \/ (goal[w] = step[w] /\ goal[w] \in Fills)
           /\ StepDone(w, Following(step[w]))
  <2>1. Navigates(goal[w]) => goal[w] \in {"NavigateToLogin", "NavigateToPasswordChange"}
    BY DEF Navigates
  <2>2. Following(step[w]) \in Step
    BY <1>3, <2>1, Places, Followers
  <2>. QED
    BY <2>2, <1>3, DonePlaced
<1>. QED
  BY <1>1, <1>2, <1>3, Zenon DEF Acted

LEMMA InPlaceKept ==
  ASSUME TypeOK, InPlace, [Next]_vars
  PROVE  InPlace'
<1>0. FlowOK
  BY TypeParts
<1>1. ASSUME NEW w \in Workflow, Start(w) PROVE InPlace'
  <2>1. at[w] = "idle" /\ UNCHANGED <<step, goal>> /\ (Goto(w, "begin") \/ Goto(w, "over"))
    BY <1>1 DEF Start
  <2>. QED
    BY <2>1, <1>0, StayPlaced, Places, GoalsAre
<1>2. ASSUME NEW w \in Workflow, Skip(w) PROVE InPlace'
  BY <1>2, <1>0, DonePlaced, Followers DEF Skip
<1>3. ASSUME NEW w \in Workflow, GenerateNewPassword(w) PROVE InPlace'
  BY <1>3, <1>0, DonePlaced DEF GenerateNewPassword
<1>4. ASSUME NEW w \in Workflow, BeginStep(w) PROVE InPlace'
  <2>1. goal[w] = step[w]
    BY <1>4, Places DEF BeginStep, Begins
  <2>2. CASE ~ByProfile(step[w]) /\ Ask(w, Screenshot, "shot")
    <3>1. step[w] \in Looking
      BY <1>4, <2>2, <1>0, Places DEF BeginStep, ByProfile
    <3>. QED
      BY <1>4, <2>1, <2>2, <3>1, <1>0, StayPlaced, GoalsAre DEF BeginStep, Ask
  <2>3. CASE /\ ByProfile(step[w]) /\ step[w] \notin Identify
             /\ Ask(w, CommandFor(step[w], value'[w]), "act")
    <3>1. step[w] \in Fills \union Clicks \union {"NavigateToLogin"}
      BY <1>4, <2>3, <1>0, Places DEF BeginStep, ByProfile
    <3>. QED
      BY <1>4, <2>1, <2>3, <3>1, <1>0, StayPlaced, GoalsAre DEF BeginStep, Ask
  <2>. QED
    BY <1>4, <2>2, <2>3 DEF BeginStep
<1>5. ASSUME NEW w \in Workflow, CredentialFails(w) PROVE InPlace'
  BY <1>5, <1>0, FailPlaced DEF CredentialFails
<1>6. ASSUME NEW w \in Workflow, Handle2FA(w) PROVE InPlace'
  <2>1. \/ goal' = Set(goal, w, "EnterTotp")
        \/ goal' = Set(goal, w, "AskHuman")
    BY <1>6 DEF Handle2FA
  <2>2. step[w] = "Handle2FA" /\ UNCHANGED step /\ Goto(w, "shot")
    BY <1>6 DEF Handle2FA, Begins, Ask
  <2>3. {"EnterTotp", "AskHuman"} \subseteq Parts \intersect GoalsAt["shot"]
    BY GoalsAre DEF Looking, Fills, FieldOf, Parts
  <2>4. CASE goal' = Set(goal, w, "EnterTotp")
    BY <2>2, <2>3, <2>4, <1>0, MovePlaced
  <2>5. CASE goal' = Set(goal, w, "AskHuman")
    BY <2>2, <2>3, <2>5, <1>0, MovePlaced
  <2>. QED
    BY <2>1, <2>4, <2>5
<1>7. ASSUME NEW w \in Workflow, BeginUpdate(w) PROVE InPlace'
  BY <1>7, <1>0, StayPlaced, Places, GoalsAre DEF BeginUpdate, Begins
<1>8. ASSUME NEW w \in Workflow, Finish(w) PROVE InPlace'
  BY <1>8, <1>0, StayPlaced, Places, GoalsAre DEF Finish
<1>9. ASSUME NEW w \in Workflow, ReadScreenshot(w) PROVE InPlace'
  <2>1. CASE StepFails(w)
    BY <2>1, <1>0, FailPlaced
  <2>2. CASE /\ Goto(w, IF goal[w] = "AskHuman" THEN "ask" ELSE "look")
             /\ UNCHANGED <<step, goal>>
    BY <1>9, <2>2, <1>0, StayPlaced, Places, GoalsAre DEF ReadScreenshot, Receive
  <2>. QED
    BY <1>9, <2>1, <2>2 DEF ReadScreenshot
<1>10. ASSUME NEW w \in Workflow, NEW seen \in Page, Look(w, seen)
      PROVE  InPlace'
  <2>0. at[w] = "look" /\ goal[w] \in Looking
    BY <1>10, Places DEF Look
  <2>1. CASE goal[w] \in Identify /\ StepDone(w, Following(goal[w]))
    BY <2>1, <1>0, DonePlaced, Followers
  <2>2. CASE \E next \in {"Handle2FA", "NavigateToPasswordChange", "UpdateVault", "Failed"} :
               StepDone(w, next)
    BY <2>2, <1>0, DonePlaced
  <2>3. CASE StepFails(w)
    BY <2>3, <1>0, FailPlaced
  <2>4. CASE goal[w] \in Fills \union Clicks /\ Act(w)
    BY <2>4, <1>0, StayPlaced, GoalsAre DEF Act, Ask
  <2>5. CASE goal[w] = "EnterTotp" /\ Continue(w, "AskHuman")
    BY <2>5, <1>0, MovePlaced, Places, GoalsAre DEF Continue, Ask
  <2>6. CASE goal[w] \in {"EnterCode", "SubmitCode"} /\ GiveUpOnCode(w)
    BY <2>6, <1>0, StayPlaced, GoalsAre DEF GiveUpOnCode
  <2>. QED
    BY <1>10, <2>1, <2>2, <2>3, <2>4, <2>5, <2>6, Zenon DEF Look
<1>11. ASSUME NEW w \in Workflow, LookFails(w) PROVE InPlace'
  BY <1>11, <1>0, FailPlaced DEF LookFails
<1>12. ASSUME NEW w \in Workflow, ReadReply(w) PROVE InPlace'
  <2>1. CASE Acted(w)
    BY <1>12, <2>1, <1>0, ActedPlaced DEF ReadReply, Receive
  <2>2. CASE StepFails(w)
    BY <2>2, <1>0, FailPlaced
  <2>3. CASE goal[w] \in Fills /\ TypeKeys(w)
    BY <2>3, <1>0, StayPlaced, GoalsAre DEF TypeKeys, Ask
  <2>. QED
    BY <1>12, <2>1, <2>2, <2>3 DEF ReadReply
<1>13. ASSUME NEW w \in Workflow, ReadTyped(w) PROVE InPlace'
  <2>1. CASE Acted(w)
    BY <1>13, <2>1, <1>0, ActedPlaced DEF ReadTyped, Receive
  <2>2. CASE StepFails(w)
    BY <2>2, <1>0, FailPlaced
  <2>. QED
    BY <1>13, <2>1, <2>2 DEF ReadTyped
<1>14. ASSUME NEW w \in Workflow, Wake(w) PROVE InPlace'
  BY <1>14, <1>0, DonePlaced, Followers, Places DEF Wake
<1>15. ASSUME NEW w \in Workflow, RequestApproval(w) PROVE InPlace'
  BY <1>15, <1>0, StayPlaced, Places, GoalsAre DEF RequestApproval
<1>16. ASSUME NEW w \in Workflow, Poll(w) PROVE InPlace'
  <2>1. CASE StepFails(w)
    BY <2>1, <1>0, FailPlaced
  <2>2. CASE Continue(w, "EnterCode")
    BY <1>16, <2>2, <1>0, MovePlaced, Places, GoalsAre DEF Continue, Ask, Poll
  <2>3. CASE GiveUpOnCode(w)
    BY <1>16, <2>3, <1>0, StayPlaced, Places, GoalsAre DEF GiveUpOnCode, Poll
  <2>. QED
    BY <1>16, <2>1, <2>2, <2>3, Zenon DEF Poll
<1>17. ASSUME NEW w \in Workflow, PollTimeout(w) PROVE InPlace'
  BY <1>17, <1>0, FailPlaced DEF PollTimeout
<1>18. ASSUME NEW w \in Workflow, Put(w) PROVE InPlace'
  BY <1>18, <1>0, StayPlaced, Places, GoalsAre DEF Put
<1>19. ASSUME NEW w \in Workflow, PutFails(w) PROVE InPlace'
  BY <1>19, <1>0, FailPlaced DEF PutFails
<1>20. ASSUME NEW w \in Workflow, SyncVault(w) PROVE InPlace'
  BY <1>20, <1>0, DonePlaced DEF SyncVault
<1>21. ASSUME NEW w \in Workflow, CommandFails(w) PROVE InPlace'
  BY <1>21 DEF CommandFails, Execute, InPlace
<1>22. ASSUME NEW w \in Workflow, Navigate(w) PROVE InPlace'
  BY <1>22 DEF Navigate, Execute, InPlace
<1>23. ASSUME NEW w \in Workflow, TakeScreenshot(w) PROVE InPlace'
  BY <1>23 DEF TakeScreenshot, Execute, InPlace
<1>24. ASSUME NEW w \in Workflow, Fill(w) PROVE InPlace'
  BY <1>24 DEF Fill, Execute, InPlace
<1>25. ASSUME NEW w \in Workflow, Click(w) PROVE InPlace'
  BY <1>25 DEF Click, Execute, InPlace
<1>26. ASSUME NEW w \in Workflow, StepTimeout(w) PROVE InPlace'
  BY <1>26, <1>0, FailPlaced DEF StepTimeout
<1>27. ASSUME NEW w \in Workflow, TotalTimeout(w) PROVE InPlace'
  <2>1. "Failed" \in GoalsAt["begin"] /\ "Failed" \notin Parts
    BY GoalsAre
  <2>2. \A v \in Workflow :
          /\ at'[v] = IF v = w THEN "begin" ELSE at[v]
          /\ goal'[v] = IF v = w THEN "Failed" ELSE goal[v]
          /\ step'[v] = IF v = w THEN "Failed" ELSE step[v]
    BY <1>27, <1>0 DEF TotalTimeout, FlowOK
  <2>. QED
    BY <2>1, <2>2 DEF InPlace
<1>28. ASSUME NEW i \in 1..Len(queue), NEW status \in {"approved", "denied"}, Respond(i, status)
      PROVE  InPlace'
  BY <1>28 DEF Respond, InPlace
<1>29. ASSUME NEW n \in 1..Len(queue), ListApprovals(n) PROVE InPlace'
  BY <1>29 DEF ListApprovals, InPlace
<1>30. ASSUME Refresh PROVE InPlace'
  BY <1>30 DEF Refresh, InPlace
<1>31. CASE UNCHANGED vars
  BY <1>31 DEF vars, InPlace
<1>. QED
  BY <1>1, <1>2, <1>3, <1>4, <1>5, <1>6, <1>7, <1>8, <1>9, <1>10, <1>11, <1>12,
     <1>13, <1>14, <1>15, <1>16, <1>17, <1>18, <1>19, <1>20, <1>21, <1>22,
     <1>23, <1>24, <1>25, <1>26, <1>27, <1>28, <1>29, <1>30, <1>31, NextCases

-----------------------------------------------------------------------------
(* What a step does to one workflow, value by value.  Many actions have the  *)
(* same form, and the invariants need no more of them than it.               *)

Kept(v) ==
  /\ step'[v] = step[v] /\ at'[v] = at[v] /\ goal'[v] = goal[v] /\ value'[v] = value[v]
  /\ image'[v] = image[v] /\ fresh'[v] = fresh[v] /\ trouble'[v] = trouble[v]
  /\ inbox'[v] = inbox[v] /\ outbox'[v] = outbox[v] /\ tab'[v] = tab[v]

Others(w) == \A v \in Workflow \ {w} : Kept(v)

\* What all workflows share.
SiteKept == UNCHANGED siteVars
VaultKept == UNCHANGED <<vaultVars, made>>
SharedKept == SiteKept /\ VaultKept

\* The flow has read a reply, or was waiting for none.
Reads(w) == Awaited(w) = 1 /\ outbox[w] # <<>> /\ outbox'[w] = Tail(outbox[w])
NoRead(w) == Awaited(w) = 0 /\ outbox'[w] = outbox[w]

\* The password and the page stay, and so do the commands.
OwnKept(w) == fresh'[w] = fresh[w] /\ tab'[w] = tab[w] /\ inbox'[w] = inbox[w]

Rests(w) ==
  /\ at[w] = "idle" /\ step[w] = "NavigateToLogin" /\ at'[w] \in {"begin", "over"}
  /\ step'[w] = step[w] /\ goal'[w] = goal[w] /\ value'[w] = value[w]
  /\ trouble'[w] = trouble[w] /\ outbox'[w] = outbox[w] /\ OwnKept(w) /\ SharedKept

Ends(w) ==
  /\ at[w] = "begin" /\ step[w] \in Final /\ at'[w] = "over" /\ fresh'[w] = 0
  /\ step'[w] = step[w] /\ goal'[w] = goal[w] /\ value'[w] = value[w]
  /\ trouble'[w] = trouble[w] /\ inbox'[w] = <<>> /\ outbox'[w] = <<>>
  /\ tab'[w] = tab[w] /\ SharedKept

\* At the begin of another step.
Begun(w) == at'[w] = "begin" /\ goal'[w] = step'[w] /\ value'[w] = 0

Early == Step \ (Filling \union Late \union Final)

Advances(w) ==
  /\ Begun(w) /\ trouble'[w] = trouble[w] /\ OwnKept(w) /\ SharedKept
  /\ at[w] \notin {"idle", "over", "put", "sync"}
  /\ \/ step[w] \in Early /\ step'[w] \in Early /\ (Reads(w) \/ NoRead(w))
     \/ /\ at[w] \in {"act", "type"} /\ Reads(w) /\ outbox[w][1] # "error"
        /\ \/ step[w] = "FillNewPassword" /\ step'[w] = "FillConfirmPassword"
           \/ step[w] = "FillConfirmPassword" /\ step'[w] = "ClickSave"
     \/ step[w] = "ClickSave" /\ step'[w] = "VerifySuccess" /\ at[w] = "sleep" /\ NoRead(w)
     \/ /\ step[w] = "VerifySuccess" /\ at[w] = "look" /\ NoRead(w)
        /\ \/ step'[w] = "UpdateVault" /\ image[w] = "saved"
           \/ step'[w] = "Failed" /\ image[w] = "refused"

Generates(w) ==
  /\ at[w] = "begin" /\ step[w] = "GenerateNewPassword" /\ step'[w] = "FillNewPassword"
  /\ Begun(w) /\ made' = made + 1 /\ fresh'[w] = made'
  /\ trouble'[w] = trouble[w] /\ inbox'[w] = inbox[w] /\ outbox'[w] = outbox[w]
  /\ tab'[w] = tab[w] /\ SiteKept /\ UNCHANGED vaultVars

Fails(w) ==
  /\ at[w] \notin {"idle", "over"} /\ step[w] \notin Final
  /\ Begun(w) /\ step'[w] \in {step[w], "Failed"}
  /\ trouble'[w] = (trouble[w] \/ step[w] \in Late)
  /\ OwnKept(w) /\ SiteKept /\ UNCHANGED <<cached, made>>
  /\ vault' = vault \/ (at[w] = "put" /\ vault' = fresh[w])
  /\ \/ NoRead(w)
     \/ Reads(w) /\ (at[w] = "shot" \/ outbox[w][1] = "error")
     \/ /\ Awaited(w) = 1 /\ faults' = faults + 1
        /\ outbox'[w] \in Seq(Replies) /\ Len(outbox'[w]) = Len(outbox[w])

Sends(w) ==
  /\ at[w] \notin {"idle", "over", "sleep", "put", "sync"} /\ at'[w] \in {"shot", "act", "type"}
  /\ step'[w] = step[w] /\ step[w] \notin Final \union {"GenerateNewPassword", "UpdateVault"}
  /\ inbox'[w] = Append(inbox[w], Current(w)') /\ (Reads(w) \/ NoRead(w))
  /\ trouble'[w] = (trouble[w] \/ (step[w] = "ClickSave" /\ at[w] = "begin" /\ OutOfStep(w)))
  /\ fresh'[w] = fresh[w] /\ tab'[w] = tab[w] /\ SharedKept
  /\ \/ step[w] = "Handle2FA" /\ goal'[w] \in Parts /\ value'[w] \in {0, 1, value[w]}
     \/ /\ goal'[w] = goal[w] /\ goal[w] = step[w]
        /\ value'[w] = IF at[w] = "begin" THEN Credential(w) ELSE value[w]
        /\ at[w] \in {"begin", "look", "act"}
        /\ at[w] = "act" => outbox[w][1] = "error" /\ step[w] \in Fills
        /\ step[w] = "VerifySuccess" => at[w] = "begin" /\ at'[w] = "shot"

\* On to another await without a command.
Moves(w) ==
  /\ step'[w] = step[w] /\ goal'[w] = goal[w] /\ value'[w] = value[w]
  /\ trouble'[w] = trouble[w] /\ OwnKept(w) /\ SharedKept
  /\ \/ /\ at[w] = "shot" /\ at'[w] \in {"look", "ask"} /\ Reads(w)
        /\ image'[w] = outbox[w][1] /\ image'[w] \in Page
     \/ /\ at[w] = "act" /\ at'[w] = "sleep" /\ Reads(w) /\ outbox[w][1] # "error"
        /\ step[w] \notin Filling
     \/ at'[w] \in {"sleep", "poll"} /\ step[w] = "Handle2FA" /\ (Reads(w) \/ NoRead(w))
     \/ at[w] = "begin" /\ at'[w] = "put" /\ step[w] = "UpdateVault" /\ NoRead(w)

Puts(w) ==
  /\ at[w] = "put" /\ at'[w] = "sync" /\ vault' = fresh[w] /\ outbox'[w] = outbox[w]
  /\ step'[w] = step[w] /\ goal'[w] = goal[w] /\ value'[w] = value[w]
  /\ trouble'[w] = trouble[w] /\ OwnKept(w) /\ SiteKept /\ UNCHANGED <<cached, made>>

Syncs(w) ==
  /\ at[w] = "sync" /\ step'[w] = "Done" /\ Begun(w) /\ fresh'[w] = 0
  /\ outbox'[w] = outbox[w] /\ inbox'[w] = inbox[w] /\ tab'[w] = tab[w]
  /\ trouble'[w] = trouble[w] /\ cached' \in {cached, vault}
  /\ SiteKept /\ UNCHANGED <<vault, made>>

\* The agent executes a command.
Runs(w) ==
  /\ step'[w] = step[w] /\ at'[w] = at[w] /\ goal'[w] = goal[w] /\ value'[w] = value[w]
  /\ image'[w] = image[w] /\ fresh'[w] = fresh[w] /\ trouble'[w] = trouble[w] /\ VaultKept
  /\ inbox[w] # <<>> /\ inbox'[w] = Tail(inbox[w])

Refuses(w) ==
  Runs(w) /\ outbox'[w] = Append(outbox[w], "error") /\ tab'[w] = tab[w] /\ SiteKept

Shoots(w) ==
  /\ Runs(w) /\ inbox[w][1].do = "screenshot" /\ tab'[w] = tab[w] /\ SiteKept
  /\ outbox'[w] = Append(outbox[w], tab[w].page)

Types(w) ==
  LET c == inbox[w][1] IN
  /\ Runs(w) /\ c.do \in {"fill", "type"} /\ outbox'[w] = Append(outbox[w], "ok") /\ SiteKept
  /\ tab'[w].page = tab[w].page
  /\ tab'[w].typed[c.on] =
       IF c.do = "type" /\ tab[w].typed[c.on] # 0 THEN -c.with ELSE c.with
  /\ \A f \in Field \ {c.on} : tab'[w].typed[f] = tab[w].typed[f]

Loads(w) ==
  /\ Runs(w) /\ inbox[w][1].do \in {"navigate", "click"}
  /\ \E r \in {"ok", "error"} : outbox'[w] = Append(outbox[w], r)
  /\ \A f \in Field : tab'[w].typed[f] = 0
  /\ \/ tab'[w].page # "saved" /\ SiteKept
     \/ /\ tab'[w].page = "saved" /\ inbox[w][1].on = "save" /\ inbox[w][1].do = "click"
        /\ tab[w].typed["current"] = site /\ tab[w].typed["new"] # 0
        /\ site' = tab[w].typed["new"] /\ saver' = w

\* What is done from outside.
Pushes ==
  /\ SharedKept
  /\ \A v \in Workflow :
       /\ step'[v] = step[v] /\ at'[v] = at[v] /\ goal'[v] = goal[v] /\ value'[v] = value[v]
       /\ image'[v] = image[v] /\ fresh'[v] = fresh[v] /\ trouble'[v] = trouble[v]
       /\ inbox'[v] = inbox[v] /\ outbox'[v] = outbox[v]
       /\ \/ tab'[v] = tab[v]
          \/ /\ tab[v].page # "saved" /\ tab'[v].page # "saved"
             /\ \A f \in Field : tab'[v].typed[f] = 0

Refreshes ==
  (\A v \in Workflow : Kept(v)) /\ SiteKept /\ UNCHANGED <<vault, made>>
     /\ cached' \in {cached, vault}

Shape(w) ==
  \/ Rests(w) \/ Ends(w) \/ Advances(w) \/ Generates(w) \/ Fails(w) \/ Sends(w) \/ Moves(w)
  \/ Puts(w) \/ Syncs(w) \/ Refuses(w) \/ Shoots(w) \/ Types(w) \/ Loads(w)

\* How the parts of the actions look for the workflow, and for the others.
LEMMA DoneOwn ==
  ASSUME FlowOK, NEW w \in Workflow, NEW next, StepDone(w, next)
  PROVE  /\ step'[w] = next /\ goal'[w] = next /\ at'[w] = "begin" /\ value'[w] = 0
         /\ trouble'[w] = trouble[w] /\ Begun(w)
         /\ \A v \in Workflow \ {w} :
              /\ step'[v] = step[v] /\ at'[v] = at[v] /\ goal'[v] = goal[v]
              /\ value'[v] = value[v] /\ image'[v] = image[v] /\ trouble'[v] = trouble[v]
  BY DEF FlowOK, StepDone, Begun

LEMMA FailOwn ==
  ASSUME FlowOK, NEW w \in Workflow, StepFails(w)
  PROVE  /\ step'[w] \in {step[w], "Failed"} /\ Begun(w)
         /\ trouble'[w] = (trouble[w] \/ step[w] \in Late)
         /\ \A v \in Workflow \ {w} :
              /\ step'[v] = step[v] /\ at'[v] = at[v] /\ goal'[v] = goal[v]
              /\ value'[v] = value[v] /\ image'[v] = image[v] /\ trouble'[v] = trouble[v]
<1>1. /\ trouble'[w] = (trouble[w] \/ step[w] \in Late)
      /\ \A v \in Workflow \ {w} : trouble'[v] = trouble[v]
  BY Zenon DEF FlowOK, StepFails
<1>2. step'[w] \in {step[w], "Failed"} /\ Begun(w)
  BY DEF FlowOK, StepFails, Begun
<1>3. \A v \in Workflow \ {w} :
        /\ step'[v] = step[v] /\ at'[v] = at[v] /\ goal'[v] = goal[v]
        /\ value'[v] = value[v] /\ image'[v] = image[v]
  BY DEF FlowOK, StepFails
<1>. QED
  BY <1>1, <1>2, <1>3

\* A command that is sent is the one whose reply is waited for.
LEMMA AskOwn ==
  ASSUME FlowOK, InboxOK, NEW w \in Workflow, NEW command, NEW place, Ask(w, command, place)
  PROVE  /\ at'[w] = place /\ inbox'[w] = Append(inbox[w], command)
         /\ \A v \in Workflow \ {w} : at'[v] = at[v] /\ inbox'[v] = inbox[v]
  BY DEF FlowOK, InboxOK, Ask, Send

LEMMA CurrentIs ==
  ASSUME NEW w \in Workflow
  PROVE  /\ at[w] = "shot" => Current(w) = Screenshot
         /\ at[w] = "act" => Current(w) = CommandFor(goal[w], value[w])
         /\ at[w] = "type" => Current(w) = Command("type", FieldOf[goal[w]], value[w])
  BY DEF Current

LEMMA CurrentIs1 ==
  ASSUME NEW w \in Workflow, UNCHANGED kind
  PROVE  /\ at'[w] = "shot" => Current(w)' = Screenshot
         /\ at'[w] = "act" => Current(w)' = CommandFor(goal'[w], value'[w])
         /\ at'[w] = "type" => Current(w)' = Command("type", FieldOf[goal'[w]], value'[w])
  BY DEF Current, CommandFor, ByProfile, Navigates

LEMMA ReceiveOwn ==
  ASSUME OutboxOK, NEW w \in Workflow, NEW place \in {"shot", "act", "type"}, Receive(w, place)
  PROVE  Reads(w) /\ at[w] = place /\ \A v \in Workflow \ {w} : outbox'[v] = outbox[v]
  BY DEF OutboxOK, Receive, Reads, Awaited

LEMMA DroppedOwn ==
  ASSUME OutboxOK, FlowOK, NEW w \in Workflow, Dropped(w)
  PROVE  /\ \A v \in Workflow \ {w} : outbox'[v] = outbox[v]
         /\ vault' = vault \/ (at[w] = "put" /\ vault' = fresh[w])
         /\ NoRead(w)
            \/ /\ Awaited(w) = 1 /\ outbox'[w] \in Seq(Replies)
               /\ Len(outbox'[w]) = Len(outbox[w])
<1>1. \A v \in Workflow : outbox[v] \in Seq(Replies) /\ outbox'[v] \in Seq(Replies)
  BY DroppedTypes DEF OutboxOK
<1>2. \A v \in Workflow \ {w} : outbox'[v] = outbox[v]
  BY DEF OutboxOK, Dropped
<1>3. vault' = vault \/ (at[w] = "put" /\ vault' = fresh[w])
  BY DEF Dropped
<1>4. CASE UNCHANGED outbox
  BY <1>1, <1>2, <1>3, <1>4 DEF NoRead, Awaited
<1>5. CASE /\ at[w] \in {"shot", "act", "type"} /\ outbox[w] # <<>>
           /\ outbox' = [outbox EXCEPT ![w][1] = "error"]
  <2>1. outbox'[w] = [outbox[w] EXCEPT ![1] = "error"]
    BY <1>5 DEF OutboxOK
  <2>2. Len(outbox'[w]) = Len(outbox[w])
    BY <1>1, <2>1
  <2>. QED
    BY <1>1, <1>2, <1>3, <1>5, <2>2 DEF Awaited
<1>. QED
  BY <1>4, <1>5 DEF Dropped

LEMMA ContinueOwn ==
  ASSUME FlowOK, InboxOK, NEW w \in Workflow, NEW part \in Parts, Continue(w, part),
         step[w] = "Handle2FA", UNCHANGED kind,
            NEW code \in {0, 1}, value' = Set(value, w, code)
  PROVE  /\ step'[w] = step[w] /\ goal'[w] = part /\ at'[w] = "shot" /\ value'[w] \in {0, 1}
         /\ trouble'[w] = (trouble[w] \/ (step[w] = "ClickSave" /\ at[w] = "begin"
              /\ OutOfStep(w)))
         /\ inbox'[w] = Append(inbox[w], Current(w)')
         /\ \A v \in Workflow \ {w} :
              /\ step'[v] = step[v] /\ at'[v] = at[v] /\ goal'[v] = goal[v]
              /\ value'[v] = value[v] /\ image'[v] = image[v] /\ trouble'[v] = trouble[v]
              /\ inbox'[v] = inbox[v]
<1>1. /\ at'[w] = "shot" /\ inbox'[w] = Append(inbox[w], Current(w)')
      /\ \A v \in Workflow \ {w} : at'[v] = at[v] /\ inbox'[v] = inbox[v]
  BY AskOwn, CurrentIs1 DEF Continue
<1>2. UNCHANGED <<step, trouble>> /\ trouble[w] \in BOOLEAN
  BY DEF FlowOK, Continue
<1>3. /\ goal'[w] = part /\ value'[w] = code
      /\ \A v \in Workflow \ {w} : goal'[v] = goal[v] /\ value'[v] = value[v]
           /\ image'[v] = image[v]
  BY DEF FlowOK, Continue
<1>. QED
  BY <1>1, <1>2, <1>3

LEMMA GiveUpOwn ==
  ASSUME FlowOK, NEW w \in Workflow, GiveUpOnCode(w)
  PROVE  /\ at'[w] = "sleep" /\ UNCHANGED <<step, goal, value, inbox, trouble>>
         /\ \A v \in Workflow \ {w} : at'[v] = at[v] /\ image'[v] = image[v]
  BY DEF FlowOK, GiveUpOnCode

LEMMA ActedOwn ==
  ASSUME TypeOK, FlowOK, InboxOK, InPlace,
            NEW w \in Workflow, Acted(w), at[w] \in {"act", "type"},
         Reads(w), outbox[w][1] # "error", UNCHANGED kind, SharedKept,
         \A v \in Workflow : fresh'[v] = fresh[v] /\ tab'[v] = tab[v],
         \A v \in Workflow \ {w} : outbox'[v] = outbox[v]
  PROVE  Others(w) /\ Shape(w)
<1>1. CASE /\ goal[w] \in {"EnterTotp", "EnterCode"} /\ Continue(w, "SubmitCode")
           /\ value' = Set(value, w, 0)
  <2>1. step[w] = "Handle2FA"
    BY <1>1, Places
  <2>2. "SubmitCode" \in Parts /\ 0 \in {0, 1}
    OBVIOUS
  <2>3. /\ goal'[w] \in Parts /\ at'[w] = "shot" /\ value'[w] \in {0, 1} /\ step'[w] = step[w]
        /\ trouble'[w] = (trouble[w] \/ (step[w] = "ClickSave" /\ at[w] = "begin"
             /\ OutOfStep(w)))
        /\ inbox'[w] = Append(inbox[w], Current(w)')
        /\ \A v \in Workflow \ {w} :
             /\ step'[v] = step[v] /\ at'[v] = at[v] /\ goal'[v] = goal[v]
             /\ value'[v] = value[v] /\ image'[v] = image[v] /\ trouble'[v] = trouble[v]
             /\ inbox'[v] = inbox[v]
    BY <1>1, <2>1, <2>2, ContinueOwn
  <2>. QED
    BY <2>1, <2>3 DEF Shape, Sends, Others, Kept
<1>2. CASE /\ goal[w] \in Clicks /\ ~Navigates(goal[w]) /\ Goto(w, "sleep")
           /\ UNCHANGED <<step, attempts, goal, value, image, inbox, trouble>>
  <2>1. at'[w] = "sleep" /\ \A v \in Workflow \ {w} : at'[v] = at[v]
    BY <1>2 DEF FlowOK
  <2>2. at[w] = "act" /\ step[w] \notin Filling
    BY <1>2, Places
  <2>. QED
    BY <1>2, <2>1, <2>2 DEF Shape, Moves, Others, Kept, OwnKept
<1>3. CASE /\ Navigates(goal[w]) \/ (goal[w] = step[w] /\ goal[w] \in Fills)
           /\ StepDone(w, Following(step[w])) /\ UNCHANGED inbox
  <2>1. Navigates(goal[w]) => goal[w] \in {"NavigateToLogin", "NavigateToPasswordChange"}
    BY DEF Navigates
  <2>2. \/ step[w] \in Early /\ Following(step[w]) \in Early
        \/ step[w] = "FillNewPassword" /\ Following(step[w]) = "FillConfirmPassword"
        \/ step[w] = "FillConfirmPassword" /\ Following(step[w]) = "ClickSave"
    BY <1>3, <2>1, Places, Followers DEF Early
  <2>. QED
    BY <1>3, <2>2, DoneOwn DEF Shape, Advances, Others, Kept, OwnKept
<1>. QED
  BY <1>1, <1>2, <1>3, Zenon DEF Acted

\* The agent.
LEMMA RunsIf ==
  ASSUME InboxOK, NEW w \in Workflow, NEW do, Execute(w, do)
  PROVE  /\ Runs(w) /\ inbox[w][1].do \in do
         /\ \A v \in Workflow \ {w} :
              /\ step'[v] = step[v] /\ at'[v] = at[v] /\ goal'[v] = goal[v]
                   /\ value'[v] = value[v]
              /\ image'[v] = image[v] /\ fresh'[v] = fresh[v] /\ trouble'[v] = trouble[v]
              /\ inbox'[v] = inbox[v]
<1>1. inbox'[w] = Tail(inbox[w]) /\ \A v \in Workflow \ {w} : inbox'[v] = inbox[v]
  BY DEF InboxOK, Execute
<1>. QED
  BY <1>1 DEF Execute, Runs, VaultKept

LEMMA ReplyOwn ==
  ASSUME OutboxOK, NEW w \in Workflow, NEW reply, Reply(w, reply)
  PROVE  /\ outbox'[w] = Append(outbox[w], reply)
         /\ \A v \in Workflow \ {w} : outbox'[v] = outbox[v]
  BY DEF OutboxOK, Reply

LEMMA LoadOwn ==
  ASSUME TabOK, NEW w \in Workflow, NEW page, Load(w, page)
  PROVE  /\ tab'[w].page = page /\ \A f \in Field : tab'[w].typed[f] = 0
         /\ \A v \in Workflow \ {w} : tab'[v] = tab[v]
  BY DEF TabOK, Load, Blank

LEMMA StepShapes ==
  ASSUME TypeOK, InPlace, [Next]_vars
  PROVE  \/ \E w \in Workflow : Others(w) /\ Shape(w)
         \/ Pushes \/ Refreshes
<1>0. FlowOK /\ InboxOK /\ OutboxOK /\ TabOK /\ SharedOK
  BY TypeParts
<1>1. ASSUME NEW w \in Workflow, Start(w)
      PROVE  Others(w) /\ Rests(w)
  <2>1. /\ at[w] = "idle" /\ at'[w] \in {"begin", "over"} /\ step[w] = "NavigateToLogin"
        /\ \A v \in Workflow \ {w} : at'[v] = at[v]
    BY <1>1, <1>0, Places DEF Start, FlowOK
  <2>. QED
    BY <1>1, <2>1 DEF Others, Rests, Kept, SharedKept, SiteKept, VaultKept,
       OwnKept, Start
<1>2. ASSUME NEW w \in Workflow, Skip(w)
      PROVE  Others(w) /\ Advances(w)
  <2>1. StepDone(w, Following(step[w])) /\ step[w] \in Early /\ Following(step[w]) \in Early
    BY <1>2, Followers DEF Skip, Early
  <2>2. at[w] = "begin" /\ NoRead(w)
    BY <1>2 DEF Skip, Begins, NoRead, Awaited
  <2>. QED
    BY <1>2, <1>0, <2>1, <2>2, DoneOwn DEF Others, Advances, Kept, SharedKept,
       SiteKept, VaultKept, OwnKept, Skip
<1>3. ASSUME NEW w \in Workflow, GenerateNewPassword(w)
      PROVE  Others(w) /\ Generates(w)
  <2>1. StepDone(w, "FillNewPassword") /\ at[w] = "begin" /\ step[w] = "GenerateNewPassword"
    BY <1>3 DEF GenerateNewPassword, Begins
  <2>2. fresh'[w] = made' /\ \A v \in Workflow \ {w} : fresh'[v] = fresh[v]
    BY <1>3, <1>0 DEF GenerateNewPassword, SharedOK
  <2>. QED
    BY <1>3, <1>0, <2>1, <2>2, DoneOwn DEF Others, Generates, Kept,
       SharedKept, SiteKept, VaultKept, OwnKept, GenerateNewPassword
<1>4. ASSUME NEW w \in Workflow, BeginStep(w)
      PROVE  Others(w) /\ Sends(w)
  <2>1. /\ at[w] = "begin" /\ goal[w] = step[w] /\ UNCHANGED <<step, goal>> /\ UNCHANGED kind
        /\ step[w] \notin Final \union {"GenerateNewPassword", "UpdateVault", "Handle2FA"}
    BY <1>4, Places DEF BeginStep, Begins
  <2>2. /\ value'[w] = Credential(w)
        /\ \A v \in Workflow \ {w} : value'[v] = value[v]
    BY <1>4, <1>0 DEF BeginStep, FlowOK
  <2>3. /\ trouble'[w] = (trouble[w] \/ (step[w] = "ClickSave" /\ OutOfStep(w)))
        /\ \A v \in Workflow \ {w} : trouble'[v] = trouble[v]
    BY <1>4, <1>0, Zenon DEF BeginStep, FlowOK
  <2>4. /\ at'[w] \in {"shot", "act"} /\ inbox'[w] = Append(inbox[w], Current(w)')
        /\ step[w] = "VerifySuccess" => at'[w] = "shot"
        /\ \A v \in Workflow \ {w} : at'[v] = at[v] /\ inbox'[v] = inbox[v]
    <3>1. CASE Ask(w, Screenshot, "shot")
      BY <3>1, <2>1, <1>0, AskOwn, CurrentIs1
    <3>2. CASE ByProfile(step[w]) /\ Ask(w, CommandFor(step[w], value'[w]), "act")
      BY <3>2, <2>1, <1>0, AskOwn, CurrentIs1 DEF ByProfile
    <3>. QED
      BY <1>4, <3>1, <3>2 DEF BeginStep
  <2>5. Others(w)
    BY <1>4, <2>1, <2>2, <2>3, <2>4 DEF BeginStep, Others, Kept
  <2>6. NoRead(w)
    BY <1>4, <2>1 DEF BeginStep, NoRead, Awaited
  <2>. QED
    BY <1>4, <2>1, <2>2, <2>3, <2>4, <2>5, <2>6 DEF BeginStep, Sends,
       SharedKept, SiteKept, VaultKept
<1>5. ASSUME NEW w \in Workflow, CredentialFails(w)
      PROVE  Others(w) /\ Fails(w)
  <2>1. StepFails(w) /\ at[w] \notin {"idle", "over"} /\ step[w] \notin Final
    BY <1>5, Places DEF CredentialFails, Begins
  <2>2. NoRead(w) /\ \A v \in Workflow \ {w} : outbox'[v] = outbox[v]
    BY <1>5 DEF CredentialFails, NoRead, Awaited, Begins
  <2>3. vault' = vault \/ (at[w] = "put" /\ vault' = fresh[w])
    BY <1>5, DroppedOwn, <1>0 DEF CredentialFails
  <2>4. Others(w)
    BY <1>5, <1>0, <2>1, <2>2, FailOwn DEF Others, Kept, CredentialFails
  <2>. QED
    BY <1>5, <1>0, <2>1, <2>2, <2>3, <2>4, FailOwn DEF Fails, OwnKept,
       SiteKept, CredentialFails
<1>6. ASSUME NEW w \in Workflow, Handle2FA(w)
      PROVE  Others(w) /\ Sends(w)
  <2>1. at[w] = "begin" /\ goal[w] = step[w] /\ UNCHANGED <<step, kind>>
           /\ step[w] = "Handle2FA"
    BY <1>6, Places DEF Handle2FA, Begins
  <2>2. /\ goal'[w] \in Parts /\ value'[w] \in {0, 1, value[w]}
        /\ \A v \in Workflow \ {w} : value'[v] = value[v] /\ goal'[v] = goal[v]
    BY <1>6, <1>0 DEF Handle2FA, FlowOK
  <2>4. /\ at'[w] = "shot" /\ inbox'[w] = Append(inbox[w], Current(w)')
        /\ \A v \in Workflow \ {w} : at'[v] = at[v] /\ inbox'[v] = inbox[v]
    BY <1>6, <2>1, <1>0, AskOwn, CurrentIs1 DEF Handle2FA
  <2>5. Others(w)
    BY <1>6, <2>1, <2>2, <2>4 DEF Handle2FA, Others, Kept
  <2>6. NoRead(w)
    BY <1>6, <2>1 DEF Handle2FA, NoRead, Awaited
  <2>7. trouble'[w] = (trouble[w] \/ (step[w] = "ClickSave" /\ at[w] = "begin" /\ OutOfStep(w)))
    <3>1. trouble'[w] = trouble[w] /\ trouble[w] \in BOOLEAN
      BY <1>6, <1>0 DEF Handle2FA, FlowOK
    <3>. QED
      BY <3>1, <2>1
  <2>. QED
    BY <1>6, <2>1, <2>2, <2>4, <2>5, <2>6, <2>7 DEF Handle2FA, Sends,
       SharedKept, SiteKept, VaultKept
<1>7. ASSUME NEW w \in Workflow, BeginUpdate(w)
      PROVE  Others(w) /\ Moves(w)
  <2>1. at'[w] = "put" /\ \A v \in Workflow \ {w} : at'[v] = at[v]
    BY <1>7, <1>0 DEF BeginUpdate, FlowOK
  <2>2. at[w] = "begin" /\ step[w] = "UpdateVault" /\ NoRead(w)
    BY <1>7 DEF BeginUpdate, Begins, NoRead, Awaited
  <2>. QED
    BY <1>7, <2>1, <2>2 DEF Others, Moves, Kept, SharedKept, SiteKept,
       VaultKept, OwnKept, BeginUpdate
<1>8. ASSUME NEW w \in Workflow, Finish(w)
      PROVE  Others(w) /\ Ends(w)
  <2>1. /\ at'[w] = "over" /\ fresh'[w] = 0 /\ inbox'[w] = <<>> /\ outbox'[w] = <<>>
        /\ \A v \in Workflow \ {w} : /\ at'[v] = at[v] /\ fresh'[v] = fresh[v]
                                       /\ inbox'[v] = inbox[v] /\ outbox'[v] = outbox[v]
    BY <1>8, <1>0 DEF Finish, FlowOK, SharedOK, InboxOK, OutboxOK
  <2>. QED
    BY <1>8, <2>1 DEF Others, Ends, Kept, SharedKept, SiteKept, VaultKept,
       OwnKept, Finish
<1>9. ASSUME NEW w \in Workflow, ReadScreenshot(w)
      PROVE  Others(w) /\ Shape(w)
  <2>1. Reads(w) /\ at[w] = "shot" /\ \A v \in Workflow \ {w} : outbox'[v] = outbox[v]
    BY <1>9, <1>0, ReceiveOwn DEF ReadScreenshot
  <2>2. CASE StepFails(w)
    <3>1. at[w] \notin {"idle", "over"} /\ step[w] \notin Final
      BY <2>1, Places
    <3>. QED
      BY <1>9, <1>0, <2>1, <2>2, <3>1, FailOwn
         DEF Shape, Fails, Others, Kept, OwnKept, SiteKept, ReadScreenshot, Receive, vaultVars
  <2>3. CASE /\ image' = Set(image, w, outbox[w][1]) /\ IsImage(outbox[w][1])
             /\ Goto(w, IF goal[w] = "AskHuman" THEN "ask" ELSE "look")
             /\ UNCHANGED <<step, attempts, goal, value, trouble>>
    <3>1. /\ image'[w] = outbox[w][1] /\ at'[w] \in {"look", "ask"} /\ image'[w] \in Page
          /\ \A v \in Workflow \ {w} : image'[v] = image[v] /\ at'[v] = at[v]
      BY <2>3, <1>0 DEF FlowOK, IsImage
    <3>. QED
      BY <1>9, <2>1, <2>3, <3>1 DEF Shape, Others, Moves, Kept, SharedKept,
         SiteKept, VaultKept, OwnKept, ReadScreenshot, Receive
  <2>. QED
    BY <1>9, <2>2, <2>3, Zenon DEF ReadScreenshot
<1>10. ASSUME NEW w \in Workflow, NEW seen \in Page, Look(w, seen)
      PROVE  Others(w) /\ Shape(w)
  <2>1. /\ at[w] = "look" /\ goal[w] \in Looking /\ NoRead(w) /\ UNCHANGED kind
        /\ \A v \in Workflow \ {w} : outbox'[v] = outbox[v]
    BY <1>10, Places DEF Look, NoRead, Awaited
  <2>a. /\ \A v \in Workflow : fresh'[v] = fresh[v] /\ tab'[v] = tab[v]
        /\ SharedKept
    BY <1>10 DEF Look, SharedKept, SiteKept, VaultKept
  <2>b. image[w] = seen \/ seen = "blank"
    BY <1>10 DEF Look
  <2>2. CASE goal[w] \in Identify /\ StepDone(w, Following(goal[w])) /\ UNCHANGED inbox
    <3>1. step[w] \in Early /\ Following(goal[w]) \in Early
      BY <2>2, Places, Followers DEF Early
    <3>. QED
      BY <1>0, <2>1, <2>a, <2>2, <3>1, DoneOwn DEF Shape, Others, Kept,
         OwnKept, Advances
  <2>3. CASE /\ goal[w] = "Check2FA" /\ UNCHANGED inbox
             /\ StepDone(w, IF seen = "code" THEN "Handle2FA" ELSE "NavigateToPasswordChange")
    <3>1. step[w] \in Early /\ {"Handle2FA", "NavigateToPasswordChange"} \subseteq Early
      BY <2>3, Places DEF Early
    <3>. QED
      BY <1>0, <2>1, <2>a, <2>3, <3>1, DoneOwn DEF Shape, Others, Kept,
         OwnKept, Advances
  <2>4. CASE /\ goal[w] = "VerifySuccess" /\ UNCHANGED inbox
             /\ \/ seen = "saved" /\ StepDone(w, "UpdateVault")
                \/ seen = "refused" /\ StepDone(w, "Failed")
    <3>1. step[w] = "VerifySuccess" /\ image[w] = seen
      BY <2>4, <2>b, Places
    <3>2. CASE seen = "saved" /\ StepDone(w, "UpdateVault")
      BY <1>0, <2>1, <2>a, <2>4, <3>1, <3>2, DoneOwn DEF Shape, Others,
         Kept, OwnKept, Advances
    <3>3. CASE seen = "refused" /\ StepDone(w, "Failed")
      BY <1>0, <2>1, <2>a, <2>4, <3>1, <3>3, DoneOwn DEF Shape, Others,
         Kept, OwnKept, Advances
    <3>. QED
      BY <2>4, <3>2, <3>3
  <2>5. CASE StepFails(w) /\ UNCHANGED inbox
    <3>1. step[w] \notin Final
      BY <2>1, Places
    <3>. QED
      BY <1>0, <2>1, <2>a, <2>5, <3>1, FailOwn
         DEF Shape, Fails, Others, Kept, OwnKept, SharedKept, VaultKept
  <2>6. CASE goal[w] \in Fills \union Clicks /\ Act(w)
    <3>1. UNCHANGED <<step, goal, value, trouble>> /\ trouble[w] \in BOOLEAN
      BY <2>6, <1>0 DEF Act, FlowOK
    <3>2. /\ at'[w] = "act" /\ inbox'[w] = Append(inbox[w], Current(w)')
          /\ \A v \in Workflow \ {w} : at'[v] = at[v] /\ inbox'[v] = inbox[v]
      <4>1. CommandFor(goal[w], value[w]) = Current(w)' /\ at'[w] = "act"
        BY <2>1, <2>6, <3>1, <1>0, CurrentIs1, AskOwn DEF Act
      <4>. QED
        BY <4>1, <2>6, <1>0, AskOwn DEF Act
    <3>3. \A v \in Workflow \ {w} : image'[v] = image[v]
      BY <2>6, <1>0 DEF Act, FlowOK
    <3>4. /\ step[w] \notin Final \union {"GenerateNewPassword", "UpdateVault", "VerifySuccess"}
          /\ goal[w] = step[w] \/ (step[w] = "Handle2FA" /\ goal[w] \in Parts)
      BY <2>6, Places
    <3>5. trouble'[w] = (trouble[w] \/ (step[w] = "ClickSave" /\ at[w] = "begin"
             /\ OutOfStep(w)))
      BY <2>1, <3>1
    <3>6. Others(w)
      BY <2>1, <2>a, <3>1, <3>2, <3>3 DEF Others, Kept
    <3>7. Sends(w)
      <4>1. /\ at[w] \notin {"idle", "over", "sleep", "put", "sync"}
                 /\ at'[w] \in {"shot", "act", "type"}
            /\ step[w] \notin Final \union {"GenerateNewPassword", "UpdateVault"}
            /\ Reads(w) \/ NoRead(w)
        BY <2>1, <3>2, <3>4
      <4>2. /\ step'[w] = step[w] /\ goal'[w] = goal[w] /\ value'[w] = value[w]
            /\ fresh'[w] = fresh[w] /\ tab'[w] = tab[w] /\ SharedKept
        BY <2>a, <3>1
      <4>3. \/ step[w] = "Handle2FA" /\ goal'[w] \in Parts /\ value'[w] \in {0, 1, value[w]}
            \/ /\ goal'[w] = goal[w] /\ goal[w] = step[w]
               /\ value'[w] = IF at[w] = "begin" THEN Credential(w) ELSE value[w]
               /\ at[w] \in {"begin", "look", "act"}
               /\ at[w] = "act" => outbox[w][1] = "error" /\ step[w] \in Fills
               /\ step[w] = "VerifySuccess" => at[w] = "begin" /\ at'[w] = "shot"
        BY <2>1, <3>4, <4>2
      <4>. QED
        BY <4>1, <4>2, <4>3, <3>2, <3>5, Zenon DEF Sends
    <3>. QED
      BY <3>6, <3>7 DEF Shape
  <2>7. CASE Continue(w, "AskHuman") /\ goal[w] = "EnterTotp" /\ value' = Set(value, w, 0)
    <3>1. step[w] = "Handle2FA"
      BY <2>7, Places
    <3>. QED
      <4>1. "AskHuman" \in Parts /\ 0 \in {0, 1}
        OBVIOUS
      <4>2. /\ goal'[w] \in Parts /\ at'[w] = "shot" /\ value'[w] \in {0, 1}
                 /\ step'[w] = step[w]
            /\ trouble'[w] = (trouble[w] \/ (step[w] = "ClickSave" /\ at[w] = "begin"
                 /\ OutOfStep(w)))
            /\ inbox'[w] = Append(inbox[w], Current(w)')
            /\ \A v \in Workflow \ {w} :
                 /\ step'[v] = step[v] /\ at'[v] = at[v] /\ goal'[v] = goal[v]
                 /\ value'[v] = value[v] /\ image'[v] = image[v] /\ trouble'[v] = trouble[v]
                 /\ inbox'[v] = inbox[v]
        BY <1>0, <2>1, <2>7, <3>1, <4>1, ContinueOwn
      <4>. QED
        BY <2>1, <2>a, <3>1, <4>2 DEF Shape, Sends, Others, Kept
  <2>8. CASE goal[w] \in {"EnterCode", "SubmitCode"} /\ GiveUpOnCode(w)
    <3>1. step[w] = "Handle2FA"
      BY <2>8, Places
    <3>. QED
      BY <1>0, <2>1, <2>a, <2>8, <3>1, GiveUpOwn DEF Shape, Moves, Others,
         Kept, OwnKept
  <2>. QED
    BY <1>10, <2>2, <2>3, <2>4, <2>5, <2>6, <2>7, <2>8, Zenon DEF Look
<1>11. ASSUME NEW w \in Workflow, LookFails(w)
      PROVE  Others(w) /\ Fails(w)
  <2>1. StepFails(w) /\ at[w] \notin {"idle", "over"} /\ step[w] \notin Final
    BY <1>11, Places DEF LookFails
  <2>2. NoRead(w) /\ \A v \in Workflow \ {w} : outbox'[v] = outbox[v]
    BY <1>11 DEF LookFails, NoRead, Awaited
  <2>3. vault' = vault \/ (at[w] = "put" /\ vault' = fresh[w])
    BY <1>11, DroppedOwn, <1>0 DEF LookFails
  <2>4. Others(w)
    BY <1>11, <1>0, <2>1, <2>2, FailOwn DEF Others, Kept, LookFails
  <2>. QED
    BY <1>11, <1>0, <2>1, <2>2, <2>3, <2>4, FailOwn DEF Fails, OwnKept,
       SiteKept, LookFails
<1>12. ASSUME NEW w \in Workflow, ReadReply(w)
      PROVE  Others(w) /\ Shape(w)
  <2>1. /\ Reads(w) /\ at[w] = "act" /\ UNCHANGED kind
        /\ \A v \in Workflow \ {w} : outbox'[v] = outbox[v]
    BY <1>12, <1>0, ReceiveOwn DEF ReadReply, Receive
  <2>a. /\ \A v \in Workflow : fresh'[v] = fresh[v] /\ tab'[v] = tab[v]
        /\ SharedKept
    BY <1>12 DEF ReadReply, Receive, SharedKept, SiteKept, VaultKept
  <2>2. CASE outbox[w][1] # "error" /\ Acted(w)
    BY <1>0, <2>1, <2>a, <2>2, ActedOwn
  <2>3. CASE outbox[w][1] = "error" /\ StepFails(w) /\ UNCHANGED inbox
    <3>1. step[w] \notin Final
      BY <2>1, Places
    <3>. QED
      BY <1>0, <2>1, <2>a, <2>3, <3>1, FailOwn
         DEF Shape, Fails, Others, Kept, OwnKept, SharedKept, VaultKept
  <2>4. CASE outbox[w][1] = "error" /\ goal[w] \in Fills /\ TypeKeys(w)
    <3>1. UNCHANGED <<step, goal, value, image, trouble>> /\ trouble[w] \in BOOLEAN
      BY <2>4, <1>0 DEF TypeKeys, FlowOK
    <3>2. /\ at'[w] = "type" /\ inbox'[w] = Append(inbox[w], Current(w)')
          /\ \A v \in Workflow \ {w} : at'[v] = at[v] /\ inbox'[v] = inbox[v]
      <4>1. Command("type", FieldOf[goal[w]], value[w]) = Current(w)' /\ at'[w] = "type"
        BY <2>1, <2>4, <3>1, <1>0, CurrentIs1, AskOwn DEF TypeKeys
      <4>. QED
        BY <4>1, <2>4, <1>0, AskOwn DEF TypeKeys
    <3>4. /\ step[w] \notin Final \union {"GenerateNewPassword", "UpdateVault", "VerifySuccess",
                                         "ClickSave"}
          /\ goal[w] = step[w] \/ (step[w] = "Handle2FA" /\ goal[w] \in Parts)
      BY <2>4, Places
    <3>5. trouble'[w] = (trouble[w] \/ (step[w] = "ClickSave" /\ at[w] = "begin"
             /\ OutOfStep(w)))
      BY <2>1, <3>1
    <3>6. Others(w)
      BY <2>1, <2>a, <3>1, <3>2 DEF Others, Kept
    <3>7. step[w] \in Fills \/ step[w] = "Handle2FA"
      BY <2>4, Places
    <3>8. Sends(w)
      <4>1. /\ at[w] \notin {"idle", "over", "sleep", "put", "sync"}
                 /\ at'[w] \in {"shot", "act", "type"}
            /\ step[w] \notin Final \union {"GenerateNewPassword", "UpdateVault"}
            /\ Reads(w) \/ NoRead(w)
        BY <2>1, <3>2, <3>4
      <4>2. /\ step'[w] = step[w] /\ goal'[w] = goal[w] /\ value'[w] = value[w]
            /\ fresh'[w] = fresh[w] /\ tab'[w] = tab[w] /\ SharedKept
        BY <2>a, <3>1
      <4>3. \/ step[w] = "Handle2FA" /\ goal'[w] \in Parts /\ value'[w] \in {0, 1, value[w]}
            \/ /\ goal'[w] = goal[w] /\ goal[w] = step[w]
               /\ value'[w] = IF at[w] = "begin" THEN Credential(w) ELSE value[w]
               /\ at[w] \in {"begin", "look", "act"}
               /\ at[w] = "act" => outbox[w][1] = "error" /\ step[w] \in Fills
               /\ step[w] = "VerifySuccess" => at[w] = "begin" /\ at'[w] = "shot"
        BY <2>1, <2>4, <3>7, <3>4, <4>2
      <4>. QED
        BY <4>1, <4>2, <4>3, <3>2, <3>5, Zenon DEF Sends
    <3>. QED
      BY <3>6, <3>8 DEF Shape
  <2>. QED
    BY <1>12, <2>2, <2>3, <2>4, Zenon DEF ReadReply
<1>13. ASSUME NEW w \in Workflow, ReadTyped(w)
      PROVE  Others(w) /\ Shape(w)
  <2>1. /\ Reads(w) /\ at[w] = "type" /\ UNCHANGED kind
        /\ \A v \in Workflow \ {w} : outbox'[v] = outbox[v]
    BY <1>13, <1>0, ReceiveOwn DEF ReadTyped, Receive
  <2>a. /\ \A v \in Workflow : fresh'[v] = fresh[v] /\ tab'[v] = tab[v]
        /\ SharedKept
    BY <1>13 DEF ReadTyped, Receive, SharedKept, SiteKept, VaultKept
  <2>2. CASE outbox[w][1] # "error" /\ Acted(w)
    BY <1>0, <2>1, <2>a, <2>2, ActedOwn
  <2>3. CASE outbox[w][1] = "error" /\ StepFails(w) /\ UNCHANGED inbox
    <3>1. step[w] \notin Final
      BY <2>1, Places
    <3>. QED
      BY <1>0, <2>1, <2>a, <2>3, <3>1, FailOwn
         DEF Shape, Fails, Others, Kept, OwnKept, SharedKept, VaultKept
  <2>. QED
    BY <1>13, <2>2, <2>3, Zenon DEF ReadTyped
<1>14. ASSUME NEW w \in Workflow, Wake(w)
      PROVE  Others(w) /\ Advances(w)
  <2>1. at[w] = "sleep" /\ NoRead(w) /\ StepDone(w, Following(step[w]))
    BY <1>14 DEF Wake, NoRead, Awaited
  <2>2. \/ step[w] \in Early /\ Following(step[w]) \in Early
        \/ step[w] = "ClickSave" /\ Following(step[w]) = "VerifySuccess"
    BY <2>1, Places, Followers DEF Early
  <2>. QED
    BY <1>14, <1>0, <2>1, <2>2, DoneOwn DEF Others, Advances, Kept,
       SharedKept, SiteKept, VaultKept, OwnKept, Wake
<1>15. ASSUME NEW w \in Workflow, RequestApproval(w)
      PROVE  Others(w) /\ Moves(w)
  <2>1. at'[w] = "poll" /\ \A v \in Workflow \ {w} : at'[v] = at[v] /\ image'[v] = image[v]
    BY <1>15, <1>0 DEF RequestApproval, FlowOK
  <2>2. at[w] = "ask" /\ step[w] = "Handle2FA" /\ NoRead(w)
    BY <1>15, Places DEF RequestApproval, NoRead, Awaited
  <2>. QED
    BY <1>15, <2>1, <2>2 DEF Others, Moves, Kept, SharedKept, SiteKept,
       VaultKept, OwnKept, RequestApproval
<1>16. ASSUME NEW w \in Workflow, Poll(w)
      PROVE  Others(w) /\ Shape(w)
  <2>1. /\ at[w] = "poll" /\ step[w] = "Handle2FA" /\ NoRead(w) /\ UNCHANGED kind
        /\ \A v \in Workflow \ {w} : outbox'[v] = outbox[v]
    BY <1>16, Places DEF Poll, NoRead, Awaited
  <2>a. /\ \A v \in Workflow : fresh'[v] = fresh[v] /\ tab'[v] = tab[v]
        /\ SharedKept
    BY <1>16 DEF Poll, SharedKept, SiteKept, VaultKept
  <2>2. CASE StepFails(w) /\ UNCHANGED inbox
    BY <1>0, <2>1, <2>a, <2>2, FailOwn
       DEF Shape, Fails, Others, Kept, OwnKept, SharedKept, VaultKept
  <2>3. CASE Continue(w, "EnterCode") /\ \E code \in {0, 1} : value' = Set(value, w, code)
    <3>1. PICK code \in {0, 1} : value' = Set(value, w, code)
      BY <2>3
    <3>2. "EnterCode" \in Parts
      OBVIOUS
    <3>3. /\ step'[w] = step[w] /\ goal'[w] \in Parts /\ at'[w] = "shot"
          /\ value'[w] \in {0, 1} /\ inbox'[w] = Append(inbox[w], Current(w)')
          /\ trouble'[w] =
               (trouble[w] \/ (step[w] = "ClickSave" /\ at[w] = "begin" /\ OutOfStep(w)))
          /\ \A v \in Workflow \ {w} :
               /\ step'[v] = step[v] /\ at'[v] = at[v] /\ goal'[v] = goal[v]
               /\ value'[v] = value[v] /\ image'[v] = image[v]
               /\ trouble'[v] = trouble[v] /\ inbox'[v] = inbox[v]
      BY <1>0, <2>1, <2>3, <3>1, <3>2, ContinueOwn
    <3>4. Others(w)
      BY <2>1, <2>a, <3>3 DEF Others, Kept
    <3>5. Sends(w)
      BY <2>1, <2>a, <3>3 DEF Sends, Final
    <3>. QED
      BY <3>4, <3>5 DEF Shape
  <2>4. CASE GiveUpOnCode(w)
    BY <1>0, <2>1, <2>a, <2>4, GiveUpOwn DEF Shape, Moves, Others, Kept, OwnKept
  <2>. QED
    BY <1>16, <2>2, <2>3, <2>4, Zenon DEF Poll
<1>17. ASSUME NEW w \in Workflow, PollTimeout(w)
      PROVE  Others(w) /\ Fails(w)
  <2>1. StepFails(w) /\ at[w] \notin {"idle", "over"} /\ step[w] \notin Final /\ Dropped(w)
    BY <1>17, Places DEF PollTimeout
  <2>2. /\ Awaited(w) = 0
        /\ vault' = vault \/ (at[w] = "put" /\ vault' = fresh[w])
        /\ NoRead(w)
           \/ /\ Awaited(w) = 1 /\ outbox'[w] \in Seq(Replies)
              /\ Len(outbox'[w]) = Len(outbox[w])
        /\ \A v \in Workflow \ {w} : outbox'[v] = outbox[v]
    BY <1>17, <2>1, <1>0, DroppedOwn DEF PollTimeout, Awaited
  <2>3. Others(w)
    BY <1>0, <2>1, <2>2, FailOwn DEF Others, Kept, Dropped
  <2>. QED
    BY <1>17, <1>0, <2>1, <2>2, <2>3, FailOwn DEF Fails, OwnKept, SiteKept,
       Dropped, PollTimeout
<1>18. ASSUME NEW w \in Workflow, Put(w)
      PROVE  Others(w) /\ Puts(w)
  <2>1. at'[w] = "sync" /\ \A v \in Workflow \ {w} : at'[v] = at[v]
    BY <1>18, <1>0 DEF Put, FlowOK
  <2>. QED
    BY <1>18, <2>1 DEF Others, Puts, Kept, SharedKept, SiteKept, VaultKept,
       OwnKept, Put
<1>19. ASSUME NEW w \in Workflow, PutFails(w)
      PROVE  Others(w) /\ Fails(w)
  <2>1. StepFails(w) /\ at[w] \notin {"idle", "over"} /\ step[w] \notin Final
    BY <1>19, Places DEF PutFails
  <2>2. NoRead(w) /\ \A v \in Workflow \ {w} : outbox'[v] = outbox[v]
    BY <1>19 DEF PutFails, NoRead, Awaited
  <2>3. vault' = vault \/ (at[w] = "put" /\ vault' = fresh[w])
    BY <1>19, DroppedOwn, <1>0 DEF PutFails
  <2>4. Others(w)
    BY <1>19, <1>0, <2>1, <2>2, FailOwn DEF Others, Kept, PutFails
  <2>. QED
    BY <1>19, <1>0, <2>1, <2>2, <2>3, <2>4, FailOwn DEF Fails, OwnKept,
       SiteKept, PutFails
<1>20. ASSUME NEW w \in Workflow, SyncVault(w)
      PROVE  Others(w) /\ Syncs(w)
  <2>1. at[w] = "sync" /\ StepDone(w, "Done") /\ cached' \in {cached, vault}
    BY <1>20 DEF SyncVault
  <2>2. fresh'[w] = 0 /\ \A v \in Workflow \ {w} : fresh'[v] = fresh[v]
    BY <1>20, <1>0 DEF SyncVault, SharedOK
  <2>. QED
    BY <1>20, <1>0, <2>1, <2>2, DoneOwn DEF Others, Syncs, Kept, SharedKept,
       SiteKept, VaultKept, OwnKept, SyncVault
<1>21. ASSUME NEW w \in Workflow, CommandFails(w)
      PROVE  Others(w) /\ Refuses(w)
  <2>1. Execute(w, {"navigate", "screenshot", "fill", "type", "click"})
    BY <1>21, <1>0, ClickIs DEF CommandFails
  <2>2. /\ Runs(w) /\ inbox[w][1].do \in {"navigate", "screenshot", "fill", "type", "click"}
        /\ \A v \in Workflow \ {w} :
              /\ step'[v] = step[v] /\ at'[v] = at[v] /\ goal'[v] = goal[v]
                   /\ value'[v] = value[v]
              /\ image'[v] = image[v] /\ fresh'[v] = fresh[v] /\ trouble'[v] = trouble[v]
              /\ inbox'[v] = inbox[v]
    BY <2>1, <1>0, RunsIf
  <2>3. /\ outbox'[w] = Append(outbox[w], "error")
        /\ \A v \in Workflow \ {w} : outbox'[v] = outbox[v]
    BY <1>21, <1>0, ReplyOwn, ClickIs DEF CommandFails, Answer
  <2>. QED
    BY <1>21, <2>1, <2>2, <2>3 DEF Others, Kept, Refuses, SiteKept, CommandFails
<1>22. ASSUME NEW w \in Workflow, Navigate(w)
      PROVE  Others(w) /\ Loads(w)
  <2>1. Execute(w, {"navigate"})
    BY <1>22, <1>0, ClickIs DEF Navigate
  <2>2. /\ Runs(w) /\ inbox[w][1].do \in {"navigate"}
        /\ \A v \in Workflow \ {w} :
              /\ step'[v] = step[v] /\ at'[v] = at[v] /\ goal'[v] = goal[v]
                   /\ value'[v] = value[v]
              /\ image'[v] = image[v] /\ fresh'[v] = fresh[v] /\ trouble'[v] = trouble[v]
              /\ inbox'[v] = inbox[v]
    BY <2>1, <1>0, RunsIf
  <2>3. /\ \E r \in {"ok", "error"} : outbox'[w] = Append(outbox[w], r)
        /\ \A v \in Workflow \ {w} : outbox'[v] = outbox[v]
    BY <1>22, <1>0, ReplyOwn, ClickIs DEF Navigate, Answer
  <2>4. /\ tab'[w].page # "saved"
        /\ \A f \in Field : tab'[w].typed[f] = 0
        /\ \A v \in Workflow \ {w} : tab'[v] = tab[v]
    BY <1>22, <1>0, LoadOwn DEF Navigate
  <2>. QED
    BY <1>22, <2>1, <2>2, <2>3, <2>4 DEF Others, Kept, Loads, SiteKept, Navigate
<1>23. ASSUME NEW w \in Workflow, TakeScreenshot(w)
      PROVE  Others(w) /\ Shoots(w)
  <2>1. Execute(w, {"screenshot"})
    BY <1>23, <1>0, ClickIs DEF TakeScreenshot
  <2>2. /\ Runs(w) /\ inbox[w][1].do \in {"screenshot"}
        /\ \A v \in Workflow \ {w} :
              /\ step'[v] = step[v] /\ at'[v] = at[v] /\ goal'[v] = goal[v]
                   /\ value'[v] = value[v]
              /\ image'[v] = image[v] /\ fresh'[v] = fresh[v] /\ trouble'[v] = trouble[v]
              /\ inbox'[v] = inbox[v]
    BY <2>1, <1>0, RunsIf
  <2>3. /\ outbox'[w] = Append(outbox[w], tab[w].page)
        /\ \A v \in Workflow \ {w} : outbox'[v] = outbox[v]
    BY <1>23, <1>0, ReplyOwn, ClickIs DEF TakeScreenshot, Answer
  <2>. QED
    BY <1>23, <2>1, <2>2, <2>3 DEF Others, Kept, Shoots, SiteKept, TakeScreenshot
<1>24. ASSUME NEW w \in Workflow, Fill(w)
      PROVE  Others(w) /\ Types(w)
  <2>1. Execute(w, {"fill", "type"})
    BY <1>24, <1>0, ClickIs DEF Fill
  <2>2. /\ Runs(w) /\ inbox[w][1].do \in {"fill", "type"}
        /\ \A v \in Workflow \ {w} :
              /\ step'[v] = step[v] /\ at'[v] = at[v] /\ goal'[v] = goal[v]
                   /\ value'[v] = value[v]
              /\ image'[v] = image[v] /\ fresh'[v] = fresh[v] /\ trouble'[v] = trouble[v]
              /\ inbox'[v] = inbox[v]
    BY <2>1, <1>0, RunsIf
  <2>3. /\ outbox'[w] = Append(outbox[w], "ok")
        /\ \A v \in Workflow \ {w} : outbox'[v] = outbox[v]
    BY <1>24, <1>0, ReplyOwn, ClickIs DEF Fill, Answer
  <2>. DEFINE c == inbox[w][1]
              new == IF c.do = "type" /\ tab[w].typed[c.on] # 0 THEN -c.with ELSE c.with
  <2>4. c.on \in Field /\ tab' = [tab EXCEPT ![w].typed[c.on] = new]
    <3>1. c \in Commands(0..made) /\ c.do \in {"fill", "type"} /\ made \in Nat
      BY <1>24, <2>1, <2>2, <1>0, ExecuteTypes DEF SharedOK
    <3>2. c.on \in Field
      BY <3>1, <1>0, TypedTypes
    <3>. QED
      BY <1>24, <3>2 DEF Fill
  <2>. HIDE DEF c, new
  <2>5. /\ tab'[w].page = tab[w].page /\ tab'[w].typed[c.on] = new
        /\ \A f \in Field \ {c.on} : tab'[w].typed[f] = tab[w].typed[f]
        /\ \A v \in Workflow \ {w} : tab'[v] = tab[v]
    BY <2>4, <1>0 DEF TabOK
  <2>. QED
    BY <1>24, <2>1, <2>2, <2>3, <2>5 DEF Others, Kept, Types, SiteKept, Fill, c, new
<1>25. ASSUME NEW w \in Workflow, Click(w)
      PROVE  Others(w) /\ Loads(w)
  <2>1. Execute(w, {"click"})
    BY <1>25, <1>0, ClickIs DEF Click
  <2>2. /\ Runs(w) /\ inbox[w][1].do \in {"click"}
        /\ \A v \in Workflow \ {w} :
              /\ step'[v] = step[v] /\ at'[v] = at[v] /\ goal'[v] = goal[v]
                   /\ value'[v] = value[v]
              /\ image'[v] = image[v] /\ fresh'[v] = fresh[v] /\ trouble'[v] = trouble[v]
              /\ inbox'[v] = inbox[v]
    BY <2>1, <1>0, RunsIf
  <2>3. /\ \E r \in {"ok", "error"} : outbox'[w] = Append(outbox[w], r)
        /\ \A v \in Workflow \ {w} : outbox'[v] = outbox[v]
    BY <1>25, <1>0, ReplyOwn, ClickIs DEF Click, Answer
  <2>4. PICK page \in Page :
          /\ Load(w, page)
          /\ \/ page = "saved" /\ inbox[w][1].on = "save"
                /\ site' = tab[w].typed["new"] /\ saver' = w
                /\ tab[w].typed["current"] = site /\ tab[w].typed["new"] # 0
             \/ page # "saved" /\ UNCHANGED siteVars
    BY <1>25, <1>0, ClickIs
  <2>5. /\ tab'[w].page = page /\ \A f \in Field : tab'[w].typed[f] = 0
        /\ \A v \in Workflow \ {w} : tab'[v] = tab[v]
    BY <2>4, <1>0, LoadOwn
  <2>. QED
    BY <1>25, <2>1, <2>2, <2>3, <2>4, <2>5 DEF Others, Kept, Loads, SiteKept, Click
<1>26. ASSUME NEW w \in Workflow, StepTimeout(w)
      PROVE  Others(w) /\ Fails(w)
  <2>1. StepFails(w) /\ at[w] \notin {"idle", "over"} /\ step[w] \notin Final /\ Dropped(w)
    BY <1>26, Places DEF StepTimeout
  <2>2. /\ faults' = faults + 1
        /\ vault' = vault \/ (at[w] = "put" /\ vault' = fresh[w])
        /\ NoRead(w)
           \/ /\ Awaited(w) = 1 /\ outbox'[w] \in Seq(Replies)
              /\ Len(outbox'[w]) = Len(outbox[w])
        /\ \A v \in Workflow \ {w} : outbox'[v] = outbox[v]
    BY <1>26, <2>1, <1>0, DroppedOwn DEF StepTimeout, Awaited
  <2>3. Others(w)
    BY <1>0, <2>1, <2>2, FailOwn DEF Others, Kept, Dropped
  <2>. QED
    BY <1>26, <1>0, <2>1, <2>2, <2>3, FailOwn DEF Fails, OwnKept, SiteKept,
       Dropped, StepTimeout
<1>27. ASSUME NEW w \in Workflow, TotalTimeout(w)
      PROVE  Others(w) /\ Fails(w)
  <2>1. at[w] \notin {"idle", "over"} /\ step[w] \notin Final /\ Dropped(w)
           /\ faults' = faults + 1
    BY <1>27, Places DEF TotalTimeout
  <2>2. /\ vault' = vault \/ (at[w] = "put" /\ vault' = fresh[w])
        /\ NoRead(w)
           \/ /\ Awaited(w) = 1 /\ outbox'[w] \in Seq(Replies)
              /\ Len(outbox'[w]) = Len(outbox[w])
        /\ \A v \in Workflow \ {w} : outbox'[v] = outbox[v]
    BY <2>1, <1>0, DroppedOwn
  <2>3. /\ trouble'[w] = (trouble[w] \/ step[w] \in Late)
        /\ \A v \in Workflow \ {w} : trouble'[v] = trouble[v]
    BY <1>27, <1>0, Zenon DEF TotalTimeout, FlowOK
  <2>4. /\ step'[w] = "Failed" /\ Begun(w)
        /\ \A v \in Workflow \ {w} :
              /\ step'[v] = step[v] /\ at'[v] = at[v] /\ goal'[v] = goal[v]
              /\ value'[v] = value[v] /\ image'[v] = image[v]
    BY <1>27, <1>0 DEF TotalTimeout, FlowOK, Begun
  <2>5. Others(w)
    BY <2>1, <2>2, <2>3, <2>4 DEF Others, Kept, Dropped
  <2>. QED
    BY <2>1, <2>2, <2>3, <2>4, <2>5 DEF Fails, OwnKept, SiteKept, Dropped
<1>28. ASSUME NEW i \in 1..Len(queue), NEW status \in {"approved", "denied"}, Respond(i, status)
      PROVE  Pushes
  <2>. DEFINE w == queue[i].by
  <2>1. tab' = tab \/ (tab[w].page = "code" /\ Load(w, "account"))
    BY <1>28 DEF Respond, Load
  <2>2. w \in Workflow
    <3>1. queue[i] \in Request
      BY <1>0 DEF SharedOK
    <3>. QED
      BY <3>1 DEF Request
  <2>. HIDE DEF w
  <2>3. \A v \in Workflow :
          \/ tab'[v] = tab[v]
          \/ /\ tab[v].page # "saved" /\ tab'[v].page # "saved"
             /\ \A f \in Field : tab'[v].typed[f] = 0
    BY <2>1, <2>2, <1>0, LoadOwn
  <2>. QED
    BY <1>28, <2>3 DEF Respond, Pushes, SharedKept, SiteKept, VaultKept
<1>29. ASSUME NEW n \in 1..Len(queue), ListApprovals(n) PROVE Pushes
  BY <1>29 DEF ListApprovals, Pushes, SharedKept, SiteKept, VaultKept
<1>30. CASE Refresh
  BY <1>30 DEF Refresh, Refreshes, SiteKept, Kept
<1>31. CASE UNCHANGED vars
  BY <1>31 DEF vars, Pushes, SharedKept, SiteKept, VaultKept
<1>. QED
  BY <1>1, <1>2, <1>3, <1>4, <1>5, <1>6, <1>7, <1>8, <1>9, <1>10, <1>11, <1>12,
     <1>13, <1>14, <1>15, <1>16, <1>17, <1>18, <1>19, <1>20, <1>21, <1>22,
     <1>23, <1>24, <1>25, <1>26, <1>27, <1>28, <1>29, <1>30, <1>31, NextCases,
     Zenon DEF Shape

\* The bound on faults only counts them.
LEMMA FaultsCount ==
  ASSUME TypeOK, [Next]_vars
  PROVE  faults' \in {faults, faults + 1}
<1>0. FlowOK /\ InboxOK /\ OutboxOK /\ TabOK /\ SharedOK
  BY TypeParts
<1>1. ASSUME NEW w \in Workflow, Start(w) PROVE faults' \in {faults, faults + 1}
  BY <1>1, <1>0 DEF Start
<1>2. ASSUME NEW w \in Workflow, Skip(w) PROVE faults' \in {faults, faults + 1}
  BY <1>2, <1>0 DEF Skip
<1>3. ASSUME NEW w \in Workflow, GenerateNewPassword(w)
      PROVE  faults' \in {faults, faults + 1}
  BY <1>3, <1>0 DEF GenerateNewPassword
<1>4. ASSUME NEW w \in Workflow, BeginStep(w)
      PROVE  faults' \in {faults, faults + 1}
  BY <1>4, <1>0 DEF BeginStep
<1>5. ASSUME NEW w \in Workflow, CredentialFails(w)
      PROVE  faults' \in {faults, faults + 1}
  BY <1>5, <1>0 DEF CredentialFails
<1>6. ASSUME NEW w \in Workflow, Handle2FA(w)
      PROVE  faults' \in {faults, faults + 1}
  BY <1>6, <1>0 DEF Handle2FA
<1>7. ASSUME NEW w \in Workflow, BeginUpdate(w)
      PROVE  faults' \in {faults, faults + 1}
  BY <1>7, <1>0 DEF BeginUpdate
<1>8. ASSUME NEW w \in Workflow, Finish(w)
      PROVE  faults' \in {faults, faults + 1}
  BY <1>8, <1>0 DEF Finish
<1>9. ASSUME NEW w \in Workflow, ReadScreenshot(w)
      PROVE  faults' \in {faults, faults + 1}
  BY <1>9, <1>0 DEF ReadScreenshot, Receive
<1>10. ASSUME NEW w \in Workflow, NEW seen \in Page, Look(w, seen)
      PROVE  faults' \in {faults, faults + 1}
  BY <1>10, <1>0 DEF Look
<1>11. ASSUME NEW w \in Workflow, LookFails(w)
      PROVE  faults' \in {faults, faults + 1}
  BY <1>11, <1>0 DEF LookFails
<1>12. ASSUME NEW w \in Workflow, ReadReply(w)
      PROVE  faults' \in {faults, faults + 1}
  BY <1>12, <1>0 DEF ReadReply, Receive
<1>13. ASSUME NEW w \in Workflow, ReadTyped(w)
      PROVE  faults' \in {faults, faults + 1}
  BY <1>13, <1>0 DEF ReadTyped, Receive
<1>14. ASSUME NEW w \in Workflow, Wake(w) PROVE faults' \in {faults, faults + 1}
  BY <1>14, <1>0 DEF Wake
<1>15. ASSUME NEW w \in Workflow, RequestApproval(w)
      PROVE  faults' \in {faults, faults + 1}
  BY <1>15, <1>0 DEF RequestApproval
<1>16. ASSUME NEW w \in Workflow, Poll(w) PROVE faults' \in {faults, faults + 1}
  BY <1>16, <1>0 DEF Poll
<1>17. ASSUME NEW w \in Workflow, PollTimeout(w)
      PROVE  faults' \in {faults, faults + 1}
  BY <1>17, <1>0 DEF PollTimeout
<1>18. ASSUME NEW w \in Workflow, Put(w) PROVE faults' \in {faults, faults + 1}
  BY <1>18, <1>0 DEF Put
<1>19. ASSUME NEW w \in Workflow, PutFails(w)
      PROVE  faults' \in {faults, faults + 1}
  BY <1>19, <1>0 DEF PutFails
<1>20. ASSUME NEW w \in Workflow, SyncVault(w)
      PROVE  faults' \in {faults, faults + 1}
  BY <1>20, <1>0 DEF SyncVault
<1>21. ASSUME NEW w \in Workflow, CommandFails(w)
      PROVE  faults' \in {faults, faults + 1}
  BY <1>21, <1>0 DEF CommandFails
<1>22. ASSUME NEW w \in Workflow, Navigate(w)
      PROVE  faults' \in {faults, faults + 1}
  BY <1>22, <1>0 DEF Navigate, Answer
<1>23. ASSUME NEW w \in Workflow, TakeScreenshot(w)
      PROVE  faults' \in {faults, faults + 1}
  BY <1>23, <1>0 DEF TakeScreenshot
<1>24. ASSUME NEW w \in Workflow, Fill(w) PROVE faults' \in {faults, faults + 1}
  BY <1>24, <1>0 DEF Fill
<1>25. ASSUME NEW w \in Workflow, Click(w)
      PROVE  faults' \in {faults, faults + 1}
  BY <1>25, <1>0, ClickIs DEF Answer
<1>26. ASSUME NEW w \in Workflow, StepTimeout(w)
      PROVE  faults' \in {faults, faults + 1}
  BY <1>26, <1>0 DEF StepTimeout
<1>27. ASSUME NEW w \in Workflow, TotalTimeout(w)
      PROVE  faults' \in {faults, faults + 1}
  BY <1>27, <1>0 DEF TotalTimeout
<1>28. ASSUME NEW i \in 1..Len(queue), NEW status \in {"approved", "denied"}, Respond(i, status)
      PROVE  faults' \in {faults, faults + 1}
  BY <1>28, <1>0 DEF Respond
<1>29. ASSUME NEW n \in 1..Len(queue), ListApprovals(n)
      PROVE  faults' \in {faults, faults + 1}
  BY <1>29, <1>0 DEF ListApprovals
<1>30. ASSUME Refresh PROVE faults' \in {faults, faults + 1}
  BY <1>30, <1>0 DEF Refresh
<1>31. CASE UNCHANGED vars
  BY <1>31 DEF vars
<1>. QED
  BY <1>1, <1>2, <1>3, <1>4, <1>5, <1>6, <1>7, <1>8, <1>9, <1>10, <1>11, <1>12,
     <1>13, <1>14, <1>15, <1>16, <1>17, <1>18, <1>19, <1>20, <1>21, <1>22,
     <1>23, <1>24, <1>25, <1>26, <1>27, <1>28, <1>29, <1>30, <1>31, NextCases

-----------------------------------------------------------------------------
(* The pipes: a reply that no command waits for is left by a fault, and      *)
(* without one the only command is the one whose reply is awaited.           *)

LEMMA PipeTypes ==
  ASSUME TypeOK, NEW w \in Workflow
  PROVE  /\ inbox[w] \in Seq(Commands(0..made)) /\ outbox[w] \in Seq(Replies)
         /\ Len(inbox[w]) \in Nat /\ Len(outbox[w]) \in Nat /\ InPipes(w) \in Nat
         /\ inbox[w] = <<>> <=> Len(inbox[w]) = 0
         /\ outbox[w] = <<>> <=> Len(outbox[w]) = 0
         /\ Awaited(w) \in {0, 1}
<1>1. inbox[w] \in Seq(Commands(0..made)) /\ outbox[w] \in Seq(Replies)
  BY TypeParts DEF InboxOK, OutboxOK
<1>2. /\ Len(inbox[w]) \in Nat /\ Len(outbox[w]) \in Nat
      /\ inbox[w] = <<>> <=> Len(inbox[w]) = 0
      /\ outbox[w] = <<>> <=> Len(outbox[w]) = 0
  BY <1>1
<1>3. InPipes(w) \in Nat
  <2>. DEFINE m == Len(inbox[w])
              n == Len(outbox[w])
  <2>1. m \in Nat /\ n \in Nat /\ InPipes(w) = m + n
    BY <1>2 DEF InPipes
  <2>. HIDE DEF m, n
  <2>. QED
    BY <2>1
<1>4. Awaited(w) \in {0, 1}
  BY DEF Awaited
<1>. QED
  BY <1>1, <1>2, <1>3, <1>4

LEMMA InStepIs ==
  ASSUME TypeOK, Surplus, NEW w \in Workflow, ~OutOfStep(w)
  PROVE  /\ Awaited(w) = 0 => inbox[w] = <<>> /\ outbox[w] = <<>>
         /\ outbox[w] # <<>> => inbox[w] = <<>> /\ Len(outbox[w]) = 1
         /\ inbox[w] # <<>> => Len(inbox[w]) = 1 /\ outbox[w] = <<>>
<1>1. InPipes(w) <= Awaited(w)
  BY PipeTypes DEF OutOfStep
<1>. DEFINE m == Len(inbox[w])
            n == Len(outbox[w])
<1>2. m \in Nat /\ n \in Nat /\ Awaited(w) \in {0, 1} /\ m + n <= Awaited(w)
  BY <1>1, PipeTypes DEF InPipes
<1>4. (inbox[w] = <<>> <=> m = 0) /\ (outbox[w] = <<>> <=> n = 0)
  BY PipeTypes
<1>3. /\ Awaited(w) = 0 => m = 0 /\ n = 0
      /\ n # 0 => m = 0 /\ n = 1
      /\ m # 0 => m = 1 /\ n = 0
  <2>. HIDE DEF m, n
  <2>. QED
    BY <1>2
<1>. QED
  BY <1>3, <1>4, Zenon

\* Reading a reply takes it out of the pipe.
LEMMA ReadsOne ==
  ASSUME TypeOK, NEW w \in Workflow, Reads(w)
  PROVE  Len(outbox'[w]) = Len(outbox[w]) - 1 /\ Awaited(w) = 1
  BY PipeTypes DEF Reads

\* No step takes a reply too many.
Balanced(w) ==
  \/ Rests(w) \/ Advances(w) \/ Generates(w) \/ Sends(w) \/ Moves(w) \/ Puts(w) \/ Syncs(w)
  \/ Refuses(w) \/ Shoots(w) \/ Types(w) \/ Loads(w)

LEMMA BalanceKept ==
  ASSUME TypeOK, NEW w \in Workflow, Balanced(w)
  PROVE  InPipes(w)' \in Int /\ InPipes(w)' - Awaited(w)' = InPipes(w) - Awaited(w)
<1>s. inbox[w] \in Seq(Commands(0..made)) /\ outbox[w] \in Seq(Replies)
  BY PipeTypes
<1>. DEFINE m == Len(inbox[w])
            n == Len(outbox[w])
            m1 == Len(inbox'[w])
            n1 == Len(outbox'[w])
<1>0. /\ m \in Nat /\ n \in Nat
      /\ Awaited(w) \in {0, 1}
      /\ InPipes(w) = m + n
      /\ InPipes(w)' = m1 + n1
  BY PipeTypes DEF InPipes
<1>1. CASE Rests(w)
  <2>1. m1 = m /\ n1 = n /\ Awaited(w) = 0 /\ Awaited(w)' = 0
    BY <1>1 DEF Rests, OwnKept, Awaited
  <2>. HIDE DEF m, n, m1, n1
  <2>. QED
    BY <1>0, <1>1, <2>1
<1>3. CASE Advances(w)
  <2>1. Awaited(w)' = 0 /\ inbox'[w] = inbox[w] /\ (Reads(w) \/ NoRead(w))
    BY <1>3 DEF Advances, OwnKept, Begun, Awaited
  <2>2. \/ n1 = n - 1 /\ Awaited(w) = 1
        \/ n1 = n /\ Awaited(w) = 0
    BY <2>1, ReadsOne DEF NoRead
  <2>3. m1 = m + Awaited(w)'
    BY <2>1
  <2>. HIDE DEF m, n, m1, n1
  <2>. QED
    BY <1>0, <2>1, <2>2, <2>3
<1>4. CASE Generates(w)
  BY <1>0, <1>4 DEF Generates, Begun, Awaited
<1>6. CASE Sends(w)
  <2>1. Awaited(w)' = 1 /\ m1 = m + 1 /\ (Reads(w) \/ NoRead(w))
    BY <1>s, <1>6 DEF Sends, Awaited
  <2>2. \/ n1 = n - 1 /\ Awaited(w) = 1
        \/ n1 = n /\ Awaited(w) = 0
    BY <2>1, ReadsOne DEF NoRead
  <2>3. m1 = m + Awaited(w)'
    BY <2>1
  <2>. HIDE DEF m, n, m1, n1
  <2>. QED
    BY <1>0, <2>1, <2>2, <2>3
<1>7. CASE Moves(w)
  <2>1. Awaited(w)' = 0 /\ inbox'[w] = inbox[w] /\ (Reads(w) \/ NoRead(w))
    BY <1>7 DEF Moves, OwnKept, Awaited
  <2>2. \/ n1 = n - 1 /\ Awaited(w) = 1
        \/ n1 = n /\ Awaited(w) = 0
    BY <2>1, ReadsOne DEF NoRead
  <2>3. m1 = m + Awaited(w)'
    BY <2>1
  <2>. HIDE DEF m, n, m1, n1
  <2>. QED
    BY <1>0, <2>1, <2>2, <2>3
<1>8. CASE Puts(w)
  BY <1>0, <1>8 DEF Puts, OwnKept, Awaited
<1>9. CASE Syncs(w)
  BY <1>0, <1>9 DEF Syncs, Begun, Awaited
<1>10. CASE Refuses(w) \/ Shoots(w) \/ Types(w) \/ Loads(w)
  <2>1. Runs(w) /\ \E r : outbox'[w] = Append(outbox[w], r)
    BY <1>10 DEF Refuses, Shoots, Types, Loads
  <2>2. n1 = n + 1
    BY <1>s, <2>1
  <2>3. m1 = m - 1
    BY <1>s, <2>1 DEF Runs
  <2>4. Awaited(w)' = Awaited(w)
    BY <2>1 DEF Runs, Awaited
  <2>. HIDE DEF m, n, m1, n1
  <2>. QED
    BY <1>0, <2>2, <2>3, <2>4
<1>. QED
  BY <1>1, <1>3, <1>4, <1>6, <1>7, <1>8, <1>9, <1>10 DEF Balanced

LEMMA PipesBalance ==
  ASSUME TypeOK, NEW w \in Workflow, Shape(w)
  PROVE  /\ InPipes(w)' \in Int
         /\ \/ Ends(w) /\ InPipes(w)' = Awaited(w)'
            \/ InPipes(w)' - Awaited(w)' = InPipes(w) - Awaited(w)
            \/ /\ Fails(w) /\ faults' = faults + 1
               /\ InPipes(w)' - Awaited(w)' = InPipes(w) - Awaited(w) + 1
<1>s. inbox[w] \in Seq(Commands(0..made)) /\ outbox[w] \in Seq(Replies)
  BY PipeTypes
<1>. DEFINE m == Len(inbox[w])
            n == Len(outbox[w])
            m1 == Len(inbox'[w])
            n1 == Len(outbox'[w])
<1>0. /\ m \in Nat /\ n \in Nat
      /\ Awaited(w) \in {0, 1}
      /\ InPipes(w) = m + n
      /\ InPipes(w)' = m1 + n1
  BY PipeTypes DEF InPipes
<1>2. CASE Ends(w)
  <2>1. m1 = 0 /\ n1 = 0 /\ Awaited(w)' = 0
    BY <1>2 DEF Ends, Awaited
  <2>. HIDE DEF m, n, m1, n1
  <2>. QED
    BY <1>0, <1>2, <2>1
<1>5. CASE Fails(w)
  <2>1. /\ Awaited(w)' = 0 /\ inbox'[w] = inbox[w]
        /\ \/ Reads(w) \/ NoRead(w)
           \/ Awaited(w) = 1 /\ faults' = faults + 1 /\ n1 = n
    BY <1>5 DEF Fails, OwnKept, Begun, Awaited
  <2>2. \/ n1 = n - 1 /\ Awaited(w) = 1
        \/ n1 = n /\ Awaited(w) = 0
        \/ Awaited(w) = 1 /\ faults' = faults + 1 /\ n1 = n
    BY <2>1, ReadsOne DEF NoRead
  <2>3. m1 = m
    BY <2>1
  <2>. HIDE DEF m, n, m1, n1
  <2>. QED
    BY <1>0, <1>5, <2>1, <2>2, <2>3
<1>. QED
  BY <1>2, <1>5, BalanceKept DEF Shape, Balanced

LEMMA KeptPipes ==
  ASSUME NEW v \in Workflow, Kept(v) \/ Pushes
  PROVE  InPipes(v)' = InPipes(v) /\ Awaited(v)' = Awaited(v)
            /\ (OutOfStep(v)' <=> OutOfStep(v))
  BY DEF Kept, Pushes, InPipes, Awaited, OutOfStep

LEMMA SurplusKept ==
  ASSUME TypeOK, InPlace, Surplus, [Next]_vars
  PROVE  Surplus'
<1>1. ASSUME NEW v \in Workflow PROVE InPipes(v)' \in Awaited(v)'..Awaited(v)' + faults'
  <2>0. /\ InPipes(v) \in Nat /\ Awaited(v) \in {0, 1} /\ faults \in Nat
        /\ faults' \in {faults, faults + 1} /\ Awaited(v)' \in {0, 1}
        /\ InPipes(v) \in Awaited(v)..Awaited(v) + faults
    BY PipeTypes, TypeParts, FaultsCount DEF Surplus, Awaited
  <2>1. CASE Kept(v) \/ Pushes
    BY <2>0, <2>1, KeptPipes
  <2>2. CASE Shape(v)
    <3>1. InPipes(v)' \in Int
      BY <2>0, <2>2, PipesBalance
    <3>. QED
      BY <2>0, <2>2, <3>1, PipesBalance
  <2>. QED
    BY <2>1, <2>2, StepShapes DEF Others, Refreshes
<1>. QED
  BY <1>1 DEF Surplus

\* A workflow that is out of step stays so until its agent is killed.
LEMMA StaysOut ==
  ASSUME TypeOK, InPlace, [Next]_vars, Surplus, NEW w \in Workflow, ~OutOfStep(w)'
  PROVE  \/ Ends(w)
         \/ ~OutOfStep(w)
<1>0. /\ InPipes(w) \in Nat /\ Awaited(w) \in {0, 1} /\ Awaited(w)' \in {0, 1}
      /\ InPipes(w) \in Awaited(w)..Awaited(w) + faults
  BY PipeTypes DEF Surplus, Awaited
<1>1. CASE Kept(w) \/ Pushes
  BY <1>1, KeptPipes
<1>2. CASE Shape(w)
  <2>1. InPipes(w)' \in Int
    BY <1>0, <1>2, PipesBalance
  <2>. QED
    BY <1>0, <1>2, <2>1, PipesBalance DEF OutOfStep
<1>. QED
  BY <1>1, <1>2, StepShapes DEF Others, Refreshes

\* The site stays what it is.
LEMMA KindKept ==
  ASSUME [Next]_vars
  PROVE  UNCHANGED kind
<1>1. ASSUME NEW w \in Workflow, Start(w) PROVE UNCHANGED kind
  BY <1>1 DEF Start
<1>2. ASSUME NEW w \in Workflow, Skip(w) PROVE UNCHANGED kind
  BY <1>2 DEF Skip
<1>3. ASSUME NEW w \in Workflow, GenerateNewPassword(w) PROVE UNCHANGED kind
  BY <1>3 DEF GenerateNewPassword
<1>4. ASSUME NEW w \in Workflow, BeginStep(w) PROVE UNCHANGED kind
  BY <1>4 DEF BeginStep
<1>5. ASSUME NEW w \in Workflow, CredentialFails(w) PROVE UNCHANGED kind
  BY <1>5 DEF CredentialFails
<1>6. ASSUME NEW w \in Workflow, Handle2FA(w) PROVE UNCHANGED kind
  BY <1>6 DEF Handle2FA
<1>7. ASSUME NEW w \in Workflow, BeginUpdate(w) PROVE UNCHANGED kind
  BY <1>7 DEF BeginUpdate
<1>8. ASSUME NEW w \in Workflow, Finish(w) PROVE UNCHANGED kind
  BY <1>8 DEF Finish
<1>9. ASSUME NEW w \in Workflow, ReadScreenshot(w) PROVE UNCHANGED kind
  BY <1>9 DEF ReadScreenshot, Receive
<1>10. ASSUME NEW w \in Workflow, NEW seen \in Page, Look(w, seen)
      PROVE  UNCHANGED kind
  BY <1>10 DEF Look
<1>11. ASSUME NEW w \in Workflow, LookFails(w) PROVE UNCHANGED kind
  BY <1>11 DEF LookFails
<1>12. ASSUME NEW w \in Workflow, ReadReply(w) PROVE UNCHANGED kind
  BY <1>12 DEF ReadReply, Receive
<1>13. ASSUME NEW w \in Workflow, ReadTyped(w) PROVE UNCHANGED kind
  BY <1>13 DEF ReadTyped, Receive
<1>14. ASSUME NEW w \in Workflow, Wake(w) PROVE UNCHANGED kind
  BY <1>14 DEF Wake
<1>15. ASSUME NEW w \in Workflow, RequestApproval(w) PROVE UNCHANGED kind
  BY <1>15 DEF RequestApproval
<1>16. ASSUME NEW w \in Workflow, Poll(w) PROVE UNCHANGED kind
  BY <1>16 DEF Poll
<1>17. ASSUME NEW w \in Workflow, PollTimeout(w) PROVE UNCHANGED kind
  BY <1>17 DEF PollTimeout, Dropped
<1>18. ASSUME NEW w \in Workflow, Put(w) PROVE UNCHANGED kind
  BY <1>18 DEF Put
<1>19. ASSUME NEW w \in Workflow, PutFails(w) PROVE UNCHANGED kind
  BY <1>19 DEF PutFails
<1>20. ASSUME NEW w \in Workflow, SyncVault(w) PROVE UNCHANGED kind
  BY <1>20 DEF SyncVault
<1>21. ASSUME NEW w \in Workflow, CommandFails(w) PROVE UNCHANGED kind
  BY <1>21 DEF CommandFails, Execute
<1>22. ASSUME NEW w \in Workflow, Navigate(w) PROVE UNCHANGED kind
  BY <1>22 DEF Navigate, Execute
<1>23. ASSUME NEW w \in Workflow, TakeScreenshot(w) PROVE UNCHANGED kind
  BY <1>23 DEF TakeScreenshot, Execute
<1>24. ASSUME NEW w \in Workflow, Fill(w) PROVE UNCHANGED kind
  BY <1>24 DEF Fill, Execute
<1>25. ASSUME NEW w \in Workflow, Click(w) PROVE UNCHANGED kind
  BY <1>25 DEF Click, Execute
<1>26. ASSUME NEW w \in Workflow, StepTimeout(w) PROVE UNCHANGED kind
  BY <1>26 DEF StepTimeout, Dropped
<1>27. ASSUME NEW w \in Workflow, TotalTimeout(w) PROVE UNCHANGED kind
  BY <1>27 DEF TotalTimeout, Dropped
<1>28. ASSUME NEW i \in 1..Len(queue), NEW status \in {"approved", "denied"}, Respond(i, status)
      PROVE  UNCHANGED kind
  BY <1>28 DEF Respond
<1>29. ASSUME NEW n \in 1..Len(queue), ListApprovals(n) PROVE UNCHANGED kind
  BY <1>29 DEF ListApprovals
<1>30. ASSUME Refresh PROVE UNCHANGED kind
  BY <1>30 DEF Refresh
<1>31. CASE UNCHANGED vars
  BY <1>31 DEF vars
<1>. QED
  BY <1>1, <1>2, <1>3, <1>4, <1>5, <1>6, <1>7, <1>8, <1>9, <1>10, <1>11, <1>12,
     <1>13, <1>14, <1>15, <1>16, <1>17, <1>18, <1>19, <1>20, <1>21, <1>22,
     <1>23, <1>24, <1>25, <1>26, <1>27, <1>28, <1>29, <1>30, <1>31, NextCases

\* A workflow that waits for no reply and is in step has none outstanding.
LEMMA EmptyAfter ==
  ASSUME NEW w \in Workflow, NEW C, inbox'[w] \in Seq(C), Len(inbox'[w]) \in Nat,
         Len(outbox'[w]) \in Nat, ~OutOfStep(w)', Awaited(w)' = 0
  PROVE  inbox'[w] = <<>>
<1>. DEFINE m == Len(inbox'[w])
            n == Len(outbox'[w])
<1>1. m \in Nat /\ n \in Nat /\ ~(m + n > 0)
  BY DEF OutOfStep, InPipes
<1>2. m = 0
  <2>. HIDE DEF m, n
  <2>. QED
    BY <1>1
<1>. QED
  BY <1>2

LEMMA InStepKept ==
  ASSUME TypeOK, InPlace, Surplus, InStep, [Next]_vars
  PROVE  InStep'
<1>1. ASSUME NEW w \in Workflow, ~OutOfStep(w)', inbox'[w] # <<>>
      PROVE  inbox'[w] = <<Current(w)'>>
  <2>0. Ends(w) \/ ~OutOfStep(w)
    BY <1>1, StaysOut
  <2>1. ~Ends(w) /\ ~OutOfStep(w)
    BY <1>1, <2>0 DEF Ends
  <2>2. /\ Awaited(w) = 0 => inbox[w] = <<>> /\ outbox[w] = <<>>
        /\ outbox[w] # <<>> => inbox[w] = <<>>
        /\ inbox[w] # <<>> => Len(inbox[w]) = 1
    BY <2>1, InStepIs
  <2>3. inbox[w] # <<>> => inbox[w] = <<Current(w)>>
    BY <2>1 DEF InStep
  <2>4. CASE Kept(w) \/ Pushes
    <3>1. /\ inbox'[w] = inbox[w] /\ at'[w] = at[w] /\ goal'[w] = goal[w]
          /\ value'[w] = value[w]
      BY <2>4 DEF Kept, Pushes
    <3>2. inbox[w] = <<Current(w)>> /\ Awaited(w) = 1
      BY <1>1, <2>2, <2>3, <3>1 DEF Awaited
    <3>3. Current(w)' = Current(w)
      BY <3>1, <3>2, CurrentIs, CurrentIs1, KindKept DEF Awaited
    <3>. QED
      BY <3>1, <3>2, <3>3
  <2>5. CASE Sends(w)
    <3>1. inbox[w] = <<>> /\ inbox'[w] = Append(inbox[w], Current(w)')
      BY <2>2, <2>5 DEF Sends, Reads, NoRead
    <3>. QED
      BY <3>1
  <2>6. CASE Runs(w)
    <3>1. inbox'[w] = Tail(<<Current(w)>>)
      BY <2>3, <2>6 DEF Runs
    <3>2. Tail(<<Current(w)>>) = <<>>
      OBVIOUS
    <3>. QED
      BY <1>1, <3>1, <3>2
  <2>7. CASE Rests(w) \/ Generates(w) \/ Puts(w) \/ Syncs(w)
    <3>1. Awaited(w) = 0 /\ inbox'[w] = inbox[w]
      BY <2>7 DEF Rests, Generates, Puts, Syncs, OwnKept, Awaited
    <3>. QED
      BY <1>1, <2>2, <3>1
  <2>8. CASE Advances(w) \/ Moves(w)
    <3>1. (Reads(w) \/ NoRead(w)) /\ inbox'[w] = inbox[w]
      BY <2>8 DEF Advances, Moves, OwnKept
    <3>. QED
      BY <1>1, <2>2, <3>1 DEF Reads, NoRead
  <2>9. CASE Fails(w)
    <3>1. inbox'[w] = inbox[w] /\ Awaited(w)' = 0
      BY <2>9 DEF Fails, OwnKept, Begun, Awaited
    <3>2. CASE Reads(w) \/ NoRead(w)
      BY <1>1, <2>2, <3>1, <3>2 DEF Reads, NoRead
    <3>3. CASE outbox'[w] \in Seq(Replies)
      <4>1. inbox'[w] \in Seq(Commands(0..made))
        BY <3>1, PipeTypes
      <4>2. Len(inbox'[w]) \in Nat /\ Len(outbox'[w]) \in Nat
        BY <3>3, <4>1
      <4>3. inbox'[w] = <<>>
        BY <1>1, <3>1, <4>1, <4>2, EmptyAfter
      <4>. QED
        BY <1>1, <4>3
    <3>. QED
      BY <2>9, <3>2, <3>3 DEF Fails
  <2>. QED
    BY <2>1, <2>4, <2>5, <2>6, <2>7, <2>8, <2>9, StepShapes, Zenon
       DEF Shape, Others, Refreshes, Refuses, Shoots, Types, Loads
<1>. QED
  BY <1>1 DEF InStep

-----------------------------------------------------------------------------
(* The requests: a workflow that polls finds its own, whatever is done to     *)
(* the queue.                                                                *)

\* A step that leaves the requests alone starts no polling.
Asking ==
  \/ /\ queue' = queue /\ crowded' = crowded
     /\ \A v \in Workflow : at'[v] = "poll" => at[v] = "poll" /\ attempts'[v] = attempts[v]
  \/ \E v \in Workflow : RequestApproval(v)
  \/ \E j \in 1..Len(queue), answer \in {"approved", "denied"} : Respond(j, answer)
  \/ \E m \in 1..Len(queue) : ListApprovals(m)

LEMMA AskingCases ==
  ASSUME TypeOK, InPlace, [Next]_vars
  PROVE  Asking
<1>0. FlowOK
  BY TypeParts
<1>. USE DEF Asking
<1>1. ASSUME NEW w \in Workflow, Start(w) PROVE Asking
  BY <1>1, <1>0 DEF Start, FlowOK
<1>2. ASSUME NEW w \in Workflow, Skip(w) PROVE Asking
  BY <1>2, <1>0 DEF Skip, FlowOK, StepDone
<1>3. ASSUME NEW w \in Workflow, GenerateNewPassword(w) PROVE Asking
  BY <1>3, <1>0 DEF GenerateNewPassword, FlowOK, StepDone
<1>4. ASSUME NEW w \in Workflow, BeginStep(w) PROVE Asking
  BY <1>4, <1>0 DEF BeginStep, FlowOK, Ask
<1>5. ASSUME NEW w \in Workflow, CredentialFails(w) PROVE Asking
  BY <1>5, <1>0 DEF CredentialFails, FlowOK, StepFails
<1>6. ASSUME NEW w \in Workflow, Handle2FA(w) PROVE Asking
  BY <1>6, <1>0 DEF Handle2FA, FlowOK, Ask
<1>7. ASSUME NEW w \in Workflow, BeginUpdate(w) PROVE Asking
  BY <1>7, <1>0 DEF BeginUpdate, FlowOK
<1>8. ASSUME NEW w \in Workflow, Finish(w) PROVE Asking
  BY <1>8, <1>0 DEF Finish, FlowOK
<1>9. ASSUME NEW w \in Workflow, ReadScreenshot(w) PROVE Asking
  BY <1>9, <1>0 DEF ReadScreenshot, FlowOK, Receive, StepFails
<1>10. ASSUME NEW w \in Workflow, NEW seen \in Page, Look(w, seen) PROVE Asking
  BY <1>10, <1>0 DEF Look, FlowOK, StepDone, StepFails, Act, Ask, Continue,
     GiveUpOnCode
<1>11. ASSUME NEW w \in Workflow, LookFails(w) PROVE Asking
  BY <1>11, <1>0 DEF LookFails, FlowOK, StepFails
<1>12. ASSUME NEW w \in Workflow, ReadReply(w) PROVE Asking
  BY <1>12, <1>0 DEF ReadReply, FlowOK, Receive, StepFails, Acted, StepDone,
     Ask, Continue, TypeKeys
<1>13. ASSUME NEW w \in Workflow, ReadTyped(w) PROVE Asking
  BY <1>13, <1>0 DEF ReadTyped, FlowOK, Receive, StepFails, Acted, StepDone,
     Ask, Continue
<1>14. ASSUME NEW w \in Workflow, Wake(w) PROVE Asking
  BY <1>14, <1>0 DEF Wake, FlowOK, StepDone
<1>15. ASSUME NEW w \in Workflow, RequestApproval(w) PROVE Asking
  BY <1>15
<1>16. ASSUME NEW w \in Workflow, Poll(w) PROVE Asking
  BY <1>16, <1>0 DEF Poll, FlowOK, StepFails, Ask, Continue, GiveUpOnCode
<1>17. ASSUME NEW w \in Workflow, PollTimeout(w) PROVE Asking
  BY <1>17, <1>0 DEF PollTimeout, FlowOK, Dropped, StepFails
<1>18. ASSUME NEW w \in Workflow, Put(w) PROVE Asking
  BY <1>18, <1>0 DEF Put, FlowOK
<1>19. ASSUME NEW w \in Workflow, PutFails(w) PROVE Asking
  BY <1>19, <1>0 DEF PutFails, FlowOK, StepFails
<1>20. ASSUME NEW w \in Workflow, SyncVault(w) PROVE Asking
  BY <1>20, <1>0 DEF SyncVault, FlowOK, StepDone
<1>21. ASSUME NEW w \in Workflow, CommandFails(w) PROVE Asking
  BY <1>21, <1>0 DEF CommandFails, FlowOK, Execute
<1>22. ASSUME NEW w \in Workflow, Navigate(w) PROVE Asking
  BY <1>22, <1>0 DEF Navigate, FlowOK, Execute
<1>23. ASSUME NEW w \in Workflow, TakeScreenshot(w) PROVE Asking
  BY <1>23, <1>0 DEF TakeScreenshot, FlowOK, Execute
<1>24. ASSUME NEW w \in Workflow, Fill(w) PROVE Asking
  BY <1>24, <1>0 DEF Fill, FlowOK, Execute
<1>25. ASSUME NEW w \in Workflow, Click(w) PROVE Asking
  BY <1>25, <1>0 DEF Click, FlowOK, Execute
<1>26. ASSUME NEW w \in Workflow, StepTimeout(w) PROVE Asking
  BY <1>26, <1>0 DEF StepTimeout, FlowOK, Dropped, StepFails
<1>27. ASSUME NEW w \in Workflow, TotalTimeout(w) PROVE Asking
  BY <1>27, <1>0 DEF TotalTimeout, FlowOK, Dropped
<1>28. ASSUME NEW i \in 1..Len(queue), NEW status \in {"approved", "denied"}, Respond(i, status)
      PROVE  Asking
  BY <1>28
<1>29. ASSUME NEW n \in 1..Len(queue), ListApprovals(n) PROVE Asking
  BY <1>29
<1>30. ASSUME Refresh PROVE Asking
  BY <1>30, <1>0 DEF Refresh, FlowOK
<1>31. CASE UNCHANGED vars
  BY <1>31 DEF vars
<1>. QED
  BY <1>1, <1>2, <1>3, <1>4, <1>5, <1>6, <1>7, <1>8, <1>9, <1>10, <1>11, <1>12,
     <1>13, <1>14, <1>15, <1>16, <1>17, <1>18, <1>19, <1>20, <1>21, <1>22,
     <1>23, <1>24, <1>25, <1>26, <1>27, <1>28, <1>29, <1>30, <1>31, NextCases

\* A request that is in the queue is found.
LEMMA FoundIn ==
  ASSUME NEW w \in Workflow, queue' \in Seq(Request),
         \E i \in 1..Len(queue') : queue'[i].by = w /\ queue'[i].no = attempts'[w]
  PROVE  Place(w)' # 0
<1>. DEFINE I == {i \in 1..Len(queue') : queue'[i].by = w /\ queue'[i].no = attempts'[w]}
<1>1. Place(w)' = IF I # {} THEN Min(I) ELSE 0
  BY DEF Place, SelectInSeq, Mine
<1>2. I \in SUBSET Nat /\ I \subseteq 1..Len(queue') /\ I # {}
  OBVIOUS
<1>3. Min(I) \in I
  <2>. HIDE DEF I
  <2>. QED
    BY <1>2, Least, Zenon
<1>. QED
  BY <1>1, <1>2, <1>3

LEMMA AskerKept ==
  ASSUME TypeOK, TypeOK', InPlace, AskerFound, [Next]_vars
  PROVE  AskerFound'
<1>0. /\ FlowOK /\ queue \in Seq(Request) /\ queue' \in Seq(Request) /\ Len(queue) <= QueueMax
      /\ Len(queue) \in Nat
  <2>1. FlowOK /\ queue \in Seq(Request) /\ Len(queue) <= QueueMax
    BY TypeParts DEF SharedOK
  <2>2. queue' \in Seq(Request)
    BY Zenon DEF TypeOK
  <2>. QED
    BY <2>1, <2>2
<1>1. ASSUME NEW w \in Workflow, at'[w] = "poll"
      PROVE  Place(w)' # 0 \/ crowded'
  <2>. DEFINE i == Place(w)
  <2>1. ASSUME at[w] = "poll", ~crowded
        PROVE  i \in 1..Len(queue) /\ Mine(w, queue[i]) /\ Polled(queue[i])
    <3>1. i \in 1..Len(queue) /\ Mine(w, queue[i])
      BY <1>0, <2>1, PlaceIs DEF AskerFound
    <3>. QED
      BY <2>1, <3>1 DEF Polled, Mine
  <2>2. CASE /\ queue' = queue /\ crowded' = crowded
             /\ at'[w] = "poll" => at[w] = "poll" /\ attempts'[w] = attempts[w]
    <3>1. at[w] = "poll" /\ attempts'[w] = attempts[w]
      BY <1>1, <2>2
    <3>2. CASE crowded
      BY <2>2, <3>2
    <3>3. CASE ~crowded
      BY <1>0, <2>1, <2>2, <3>1, <3>3, FoundIn DEF Mine
    <3>. QED
      BY <3>2, <3>3
  <2>3. ASSUME NEW v \in Workflow, RequestApproval(v)
        PROVE  Place(w)' # 0 \/ crowded'
    <3>. DEFINE new == [by |-> v, no |-> attempts[v], status |-> "pending"]
    <3>1. /\ queue' = Append(Room, new) /\ attempts' = attempts
          /\ Room \in Seq(Request) /\ Len(queue') = Len(Room) + 1 /\ Len(Room) \in Nat
          /\ queue'[Len(Room) + 1] = new
          /\ \A k \in 1..Len(Room) : queue'[k] = Room[k]
      BY <1>0, <2>3, RoomTypes DEF RequestApproval
    <3>2. CASE w = v
      BY <1>0, <3>1, <3>2, FoundIn
    <3>3. CASE w # v
      <4>1. at[w] = "poll"
        BY <1>0, <1>1, <2>3, <3>3 DEF RequestApproval, FlowOK
      <4>2. CASE crowded
        BY <2>3, <4>2 DEF RequestApproval
      <4>3. CASE ~crowded
        <5>1. i \in 1..Len(queue) /\ Mine(w, queue[i]) /\ Polled(queue[i])
          BY <2>1, <4>1, <4>3
        <5>2. CASE \E k \in 1..Len(Room) : Room[k] = queue[i]
          BY <1>0, <3>1, <5>1, <5>2, FoundIn DEF Mine
        <5>3. CASE Full /\ (FirstResolved = 0 \/ FirstResolved = i)
          <6>1. crowded' = (crowded \/ (Full /\ (FirstResolved = 0
                   \/ Polled(queue[FirstResolved]))))
            BY <2>3 DEF RequestApproval
          <6>. QED
            BY <5>1, <5>3, <6>1
        <5>. QED
          BY <1>0, <5>1, <5>2, <5>3, RoomTypes
      <4>. QED
        BY <4>2, <4>3
    <3>. QED
      BY <3>2, <3>3
  <2>4. ASSUME NEW j \in 1..Len(queue),
                  NEW answer \in {"approved", "denied"}, Respond(j, answer)
        PROVE  Place(w)' # 0 \/ crowded'
    <3>1. /\ queue' = [queue EXCEPT ![j].status = answer]
          /\ at' = at /\ attempts' = attempts /\ crowded' = crowded
      BY <2>4 DEF Respond
    <3>2. CASE crowded
      BY <3>1, <3>2
    <3>3. CASE ~crowded
      <4>1. i \in 1..Len(queue) /\ Mine(w, queue[i])
        BY <1>1, <2>1, <3>1, <3>3
      <4>2. Len(queue') = Len(queue) /\ queue[i] \in Request /\ queue[j] \in Request
        BY <1>0, <3>1, <4>1
      <4>3. queue'[i].by = queue[i].by /\ queue'[i].no = queue[i].no
        BY <1>0, <3>1, <4>1, <4>2 DEF Request
      <4>. QED
        BY <1>0, <3>1, <4>1, <4>2, <4>3, FoundIn DEF Mine
    <3>. QED
      BY <3>2, <3>3
  <2>5. ASSUME NEW n \in 1..Len(queue), ListApprovals(n)
        PROVE  Place(w)' # 0 \/ crowded'
    <3>1. /\ queue' = SubSeq(queue, n + 1, Len(queue)) /\ \A k \in 1..n : ~Polled(queue[k])
          /\ at' = at /\ attempts' = attempts /\ crowded' = crowded
      BY <2>5 DEF ListApprovals
    <3>2. CASE crowded
      BY <3>1, <3>2
    <3>3. CASE ~crowded
      <4>1. i \in 1..Len(queue) /\ Mine(w, queue[i]) /\ i > n
        BY <1>0, <1>1, <2>1, <3>1, <3>3
      <4>2. i - n \in 1..Len(queue') /\ queue'[i - n] = queue[i]
        BY <1>0, <3>1, <4>1
      <4>. QED
        BY <1>0, <3>1, <4>1, <4>2, FoundIn DEF Mine
    <3>. QED
      BY <3>2, <3>3
  <2>. QED
    BY <2>2, <2>3, <2>4, <2>5, AskingCases DEF Asking
<1>. QED
  BY <1>1 DEF AskerFound

-----------------------------------------------------------------------------
LEMMA QueueInit ==
  ASSUME Init
  PROVE  QueueInv
<1>1. TypeOK
  <2>1. /\ step \in [Workflow -> Step] /\ goal \in [Workflow -> Goal]
        /\ attempts \in [Workflow -> 0..2] /\ value \in [Workflow -> 0..made]
        /\ fresh \in [Workflow -> 0..made] /\ image \in [Workflow -> Page]
    BY DEF Init
  <2>2. /\ inbox \in [Workflow -> Seq(Commands(0..made))]
             /\ outbox \in [Workflow -> Seq(Replies)]
        /\ queue \in Seq(Request) /\ Len(queue) <= QueueMax
    BY DEF Init
  <2>3. tab \in [Workflow -> [page : Page, typed : [Field -> -made..made]]]
    <3>1. Blank \in [Field -> -made..made]
      BY DEF Init, Blank
    <3>. QED
      BY <3>1 DEF Init
  <2>4. at \in [Workflow -> Awaiting \union {"idle", "begin", "poll", "over"}]
    BY DEF Init
  <2>5. kind \in [profile : Profiles, code : Codes, stays : BOOLEAN]
    BY DEF Init
  <2>6. trouble \in [Workflow -> BOOLEAN] /\ crowded \in BOOLEAN
    BY Zenon DEF Init
  <2>7. /\ cached \in 0..made /\ vault \in 0..made /\ site \in -made..made
        /\ saver \in Workflow \union {None} /\ made \in Nat \ {0}
        /\ faults \in 0..MaxFaults
    BY DEF Init
  <2>. QED
    BY <2>1, <2>2, <2>3, <2>4, <2>5, <2>6, <2>7 DEF TypeOK
<1>2. InPlace
  <2>1. ASSUME NEW w \in Workflow
        PROVE  goal[w] \in GoalsAt[at[w]]
                  /\ step[w] = IF goal[w] \in Parts THEN "Handle2FA" ELSE goal[w]
    <3>1. goal[w] = "NavigateToLogin" /\ step[w] = "NavigateToLogin"
             /\ at[w] \in {"idle", "over"}
      BY DEF Init
    <3>2. "NavigateToLogin" \in GoalsAt["idle"] /\ "NavigateToLogin" \in GoalsAt["over"]
      BY GoalsAre
    <3>. QED
      BY <3>1, <3>2
  <2>. QED
    BY <2>1 DEF InPlace
<1>3. Surplus
  <2>1. ASSUME NEW w \in Workflow PROVE InPipes(w) = 0 /\ Awaited(w) = 0 /\ faults = 0
    BY DEF Init, InPipes, Awaited
  <2>. QED
    BY <2>1 DEF Surplus
<1>4. AskerFound
  BY DEF Init, AskerFound
<1>. QED
  BY <1>1, <1>2, <1>3, <1>4 DEF QueueInv

LEMMA QueueKept ==
  ASSUME QueueInv, [Next]_vars
  PROVE  QueueInv'
<1>1. TypeOK /\ InPlace /\ Surplus /\ AskerFound
  BY DEF QueueInv
<1>2. TypeOK' /\ InPlace' /\ Surplus'
  BY <1>1, TypesKept, InPlaceKept, SurplusKept
<1>3. AskerFound'
  BY <1>1, <1>2, AskerKept
<1>. QED
  BY <1>2, <1>3 DEF QueueInv

\* Everybody is where its step allows it, no reply is outstanding but by a fault,
\* and whoever polls finds its request, with any number of workflows.
THEOREM QueueSound == Spec => []QueueInv
<1>. QED
  BY QueueInit, QueueKept, PTL DEF Spec

-----------------------------------------------------------------------------
(* Where passwords are: what a shape does to the values the invariant relates. *)

\* The shape of a step for a workflow: its own, or somebody else's.
LEMMA OwnOrOther ==
  ASSUME TypeOK, InPlace, [Next]_vars, NEW w \in Workflow
  PROVE  \/ Shape(w) /\ Others(w)
         \/ Pushes
         \/ Kept(w) /\ (Refreshes \/ \E x \in Workflow \ {w} : Shape(x) /\ Others(x))
<1>1. CASE Pushes \/ Refreshes
  BY <1>1 DEF Refreshes
<1>2. ASSUME NEW x \in Workflow, Others(x), Shape(x)
      PROVE  \/ Shape(w) /\ Others(w)
             \/ Kept(w) /\ \E y \in Workflow \ {w} : Shape(y) /\ Others(y)
  BY <1>2, Zenon DEF Others
<1>. QED
  BY <1>1, <1>2, StepShapes

\* What the commands name.
LEMMA CommandIs ==
  ASSUME NEW g \in Fills \union Clicks \union {"NavigateToLogin"}, NEW v
  PROVE  LET c == CommandFor(g, v) IN
         /\ c.with \in {0, v} /\ c.do # "screenshot" /\ c.do # "type"
         /\ c.on = "new" => g = "FillNewPassword" /\ c.with = v
         /\ c.on = "save" => g = "ClickSave"
         /\ g = "NavigateToLogin" => c.do = "navigate"
<1>1. CASE Navigates(g) \/ g = "NavigateToLogin"
  BY <1>1 DEF CommandFor, Navigates, Command, ByProfile
<1>2. CASE g \in Fills
  <2>1. CommandFor(g, v) = Command("fill", FieldOf[g], v)
    BY <1>2 DEF CommandFor, Navigates
  <2>2. FieldOf[g] = "new" => g = "FillNewPassword"
    BY <1>2 DEF FieldOf
  <2>3. FieldOf[g] # "save"
    BY <1>2 DEF FieldOf
  <2>. QED
    BY <1>2, <2>1, <2>2, <2>3 DEF Command
<1>3. CASE g \in Clicks /\ ~Navigates(g)
  <2>1. CommandFor(g, v) = Command("click", ButtonOf[g], 0)
    BY <1>3 DEF CommandFor
  <2>2. (ButtonOf[g] = "save" => g = "ClickSave") /\ ButtonOf[g] # "new"
    BY <1>3 DEF ButtonOf
  <2>. QED
    BY <1>3, <2>1, <2>2 DEF Command
<1>. QED
  BY <1>1, <1>2, <1>3

LEMMA TypeCommandIs ==
  ASSUME NEW g \in Fills, NEW v
  PROVE  LET c == Command("type", FieldOf[g], v) IN
         /\ c.with = v /\ c.do = "type" /\ c.on # "save"
         /\ c.on = "new" => g = "FillNewPassword"
  BY DEF Command, FieldOf

LEMMA ScreenshotIs ==
  /\ Screenshot.do = "screenshot" /\ Screenshot.with = 0
  /\ Screenshot.on # "new" /\ Screenshot.on # "save"
  BY DEF Screenshot, Command

\* The command a workflow waits for.
LEMMA CurrentOn ==
  ASSUME TypeOK, InPlace, NEW w \in Workflow, at[w] \in {"shot", "act", "type"}
  PROVE  LET c == Current(w) IN
         /\ c.with \in {0, value[w]}
         /\ at[w] = "shot" => c = Screenshot
         /\ c.on = "new" =>
              goal[w] = "FillNewPassword" /\ at[w] \in {"act", "type"} /\ c.with = value[w]
         /\ c.on = "save" => goal[w] = "ClickSave" /\ at[w] = "act"
<1>1. CASE at[w] = "shot"
  BY <1>1, CurrentIs, ScreenshotIs
<1>2. CASE at[w] = "act"
  <2>1. goal[w] \in Fills \union Clicks \union {"NavigateToLogin"}
    BY <1>2, Places
  <2>2. Current(w) = CommandFor(goal[w], value[w])
    BY <1>2, CurrentIs
  <2>. QED
    BY <1>2, <2>1, <2>2, CommandIs
<1>3. CASE at[w] = "type"
  <2>1. goal[w] \in Fills
    BY <1>3, Places
  <2>2. Current(w) = Command("type", FieldOf[goal[w]], value[w])
    BY <1>3, CurrentIs
  <2>. QED
    BY <1>3, <2>1, <2>2, TypeCommandIs
<1>. QED
  BY <1>1, <1>2, <1>3

LEMMA SentOn ==
  ASSUME TypeOK, InPlace, InPlace', UNCHANGED kind, NEW w \in Workflow, Sends(w)
  PROVE  LET c == Current(w)' IN
         /\ c.with \in {0, value'[w]}
         /\ c.on = "new" => goal'[w] = "FillNewPassword" /\ c.with = value'[w]
         /\ c.on = "save" => goal'[w] = "ClickSave" /\ at'[w] = "act"
<1>0. goal'[w] \in GoalsAt[at'[w]] /\ at'[w] \in {"shot", "act", "type"}
  BY DEF InPlace, Sends
<1>1. CASE at'[w] = "shot"
  BY <1>1, CurrentIs1, ScreenshotIs
<1>2. CASE at'[w] = "act"
  <2>1. goal'[w] \in Fills \union Clicks \union {"NavigateToLogin"}
    BY <1>0, <1>2, GoalsAre
  <2>2. Current(w)' = CommandFor(goal'[w], value'[w])
    BY <1>2, CurrentIs1
  <2>. QED
    BY <1>2, <2>1, <2>2, CommandIs
<1>3. CASE at'[w] = "type"
  <2>1. goal'[w] \in Fills
    BY <1>0, <1>3, GoalsAre
  <2>2. Current(w)' = Command("type", FieldOf[goal'[w]], value'[w])
    BY <1>3, CurrentIs1
  <2>. QED
    BY <1>3, <2>1, <2>2, TypeCommandIs
<1>. QED
  BY <1>0, <1>1, <1>2, <1>3

\* A command in the pipe was there before, or has just been sent.
LEMMA InboxSteps ==
  ASSUME TypeOK, NEW w \in Workflow, Shape(w), NEW i \in 1..Len(inbox'[w])
  PROVE  \/ \E j \in 1..Len(inbox[w]) : inbox'[w][i] = inbox[w][j]
         \/ Sends(w) /\ inbox'[w][i] = Current(w)'
<1>0. inbox[w] \in Seq(Commands(0..made)) /\ Len(inbox[w]) \in Nat
  BY PipeTypes
<1>1. CASE inbox'[w] = inbox[w]
  BY <1>1
<1>2. CASE Ends(w)
  BY <1>2 DEF Ends
<1>3. CASE Sends(w)
  <2>1. inbox'[w] = Append(inbox[w], Current(w)')
    BY <1>3 DEF Sends
  <2>2. i \in 1..(Len(inbox[w]) + 1)
    BY <1>0, <2>1
  <2>3. CASE i = Len(inbox[w]) + 1
    BY <1>0, <1>3, <2>1, <2>3
  <2>4. CASE i \in 1..Len(inbox[w])
    BY <1>0, <2>1, <2>4
  <2>. QED
    BY <1>0, <2>2, <2>3, <2>4
<1>4. CASE Runs(w)
  <2>1. inbox[w] # <<>> /\ inbox'[w] = Tail(inbox[w])
    BY <1>4 DEF Runs
  <2>2. i + 1 \in 1..Len(inbox[w]) /\ inbox'[w][i] = inbox[w][i + 1]
    BY <1>0, <2>1
  <2>. QED
    BY <2>2
<1>. QED
  BY <1>1, <1>2, <1>3, <1>4
     DEF Shape, Rests, Advances, Generates, Fails, Moves, Puts, Syncs, Refuses, Shoots, Types,
         Loads, OwnKept

\* The site takes a new password from the form of a workflow, and nothing else changes it.
Saves(w) ==
  /\ Runs(w) /\ inbox[w][1].on = "save" /\ inbox[w][1].do = "click" /\ tab'[w].page = "saved"
  /\ tab[w].typed["current"] = site /\ tab[w].typed["new"] # 0
  /\ site' = tab[w].typed["new"] /\ saver' = w

LEMMA SiteSteps ==
  ASSUME NEW w \in Workflow, Shape(w)
  PROVE  \/ Loads(w) /\ Saves(w)
         \/ site' = site /\ saver' = saver
<1>1. CASE Loads(w)
  BY <1>1 DEF Loads, Saves, SiteKept
<1>2. CASE ~Loads(w)
  BY <1>2 DEF Shape, Rests, Ends, Advances, Generates, Fails, Sends, Moves,
     Puts, Syncs, Refuses,
         Shoots, Types, SharedKept, SiteKept
<1>. QED
  BY <1>1, <1>2

\* The vault gets the password of a workflow that stores it.
LEMMA VaultSteps ==
  ASSUME NEW w \in Workflow, Shape(w)
  PROVE  /\ cached' \in {cached, vault}
         /\ \/ vault' = vault
            \/ at[w] = "put" /\ vault' = fresh[w] /\ (Puts(w) \/ Fails(w))
  BY DEF Shape, Rests, Ends, Advances, Generates, Fails, Sends, Moves, Puts,
     Syncs, Refuses,
         Shoots, Types, Loads, SharedKept, VaultKept, Runs

LEMMA FreshSteps ==
  ASSUME NEW w \in Workflow, Shape(w)
  PROVE  \/ fresh'[w] = fresh[w]
         \/ fresh'[w] = 0 /\ (Ends(w) \/ Syncs(w))
         \/ fresh'[w] = made + 1 /\ made' = made + 1 /\ Generates(w)
  BY DEF Shape, Rests, Ends, Advances, Generates, Fails, Sends, Moves, Puts,
     Syncs, Refuses,
         Shoots, Types, Loads, OwnKept, Runs

LEMMA TroubleStays ==
  ASSUME NEW w \in Workflow, Shape(w) \/ Kept(w) \/ Pushes
  PROVE  /\ trouble[w] => trouble'[w]
         /\ Fails(w) /\ step[w] \in Late => trouble'[w]
<1>1. CASE Kept(w) \/ Pushes
  <2>1. trouble'[w] = trouble[w]
    BY <1>1 DEF Kept, Pushes
  <2>. QED
    BY <2>1, Zenon DEF Fails
<1>2. CASE Shape(w)
  <2>1. \/ trouble'[w] = trouble[w]
        \/ trouble'[w] = (trouble[w] \/ step[w] \in Late)
        \/ trouble'[w] = (trouble[w] \/ (step[w] = "ClickSave" /\ at[w] = "begin"
             /\ OutOfStep(w)))
    BY <1>2, Zenon DEF Shape, Rests, Ends, Advances, Generates, Fails, Sends,
       Moves, Puts, Syncs,
         Refuses, Shoots, Types, Loads, Runs
  <2>. QED
    BY <2>1, Zenon DEF Fails
<1>. QED
  BY <1>1, <1>2

\* The numbers a workflow may see are those of passwords there have been.
LEMMA Values ==
  ASSUME TypeOK, NEW w \in Workflow
  PROVE  /\ value[w] \in 0..made /\ fresh[w] \in 0..made /\ made \in Nat
         /\ \A f \in Field : tab[w].typed[f] \in -made..made
         /\ \A i \in 1..Len(inbox[w]) : inbox[w][i] \in Commands(0..made)
         /\ \A i \in 1..Len(inbox[w]) : inbox[w][i].with \in 0..made
         /\ cached \in 0..made /\ vault \in 0..made /\ site \in -made..made
<1>1. FlowOK /\ InboxOK /\ TabOK /\ SharedOK /\ made \in Nat
  BY TypeParts
<1>2. /\ value[w] \in 0..made /\ fresh[w] \in 0..made
      /\ cached \in 0..made /\ vault \in 0..made /\ site \in -made..made
  BY <1>1 DEF FlowOK, SharedOK
<1>3. \A f \in Field : tab[w].typed[f] \in -made..made
  BY <1>1 DEF TabOK
<1>4. \A i \in 1..Len(inbox[w]) : inbox[w][i] \in Commands(0..made)
  BY PipeTypes
<1>5. ASSUME NEW c \in Commands(0..made) PROVE c.with \in 0..made
  BY <1>1 DEF Commands, Screenshot, Command
<1>. QED
  BY <1>1, <1>2, <1>3, <1>4, <1>5

\* A password that a workflow does not know it does not learn, unless from the vault.
LEMMA KnowsNoMore ==
  ASSUME TypeOK, InPlace, InPlace', UNCHANGED kind, NEW v \in Workflow, Shape(v)
            \/ Kept(v) \/ Pushes,
         NEW p \in 2..made, p # cached, ~Knows(v, p)
  PROVE  ~Knows(v, p)'
<1>0. /\ p # value[v] /\ p # fresh[v] /\ \A f \in Field : p # tab[v].typed[f]
      /\ \A i \in 1..Len(inbox[v]) : inbox[v][i].with # p
      /\ made \in Nat /\ p \in Int /\ p >= 2 /\ p <= made
  <2>1. made \in Nat
    BY Values
  <2>2. p \in Int /\ p >= 2 /\ p <= made
    BY <2>1
  <2>3. /\ p # value[v] /\ p # fresh[v] /\ \A f \in Field : p # tab[v].typed[f]
        /\ \A i \in 1..Len(inbox[v]) : inbox[v][i].with # p
    BY Zenon DEF Knows
  <2>. QED
    BY <2>1, <2>2, <2>3
<1>1. p # value'[v]
  <2>1. value'[v] \in {value[v], 0, 1, cached, fresh[v]}
    BY DEF Kept, Pushes, Shape, Rests, Ends, Begun, Advances, Generates,
       Fails, Sends, Moves, Puts,
           Syncs, Runs, Refuses, Shoots, Types, Loads, Credential
  <2>. QED
    BY <1>0, <2>1
<1>2. p # fresh'[v]
  <2>1. fresh'[v] \in {fresh[v], 0, made + 1}
    BY FreshSteps DEF Kept, Pushes
  <2>. QED
    BY <1>0, <2>1
<1>3. ASSUME NEW f \in Field PROVE p # tab'[v].typed[f]
  <2>1. CASE Types(v)
    <3>. DEFINE c == inbox[v][1]
    <3>0. 1 \in 1..Len(inbox[v])
      BY <2>1, PipeTypes DEF Types, Runs
    <3>1. c.with \in 0..made /\ c.with # p
      BY <1>0, <3>0, Values
    <3>2. tab'[v].typed[f] \in {tab[v].typed[f], c.with, -c.with}
      BY <2>1 DEF Types
    <3>3. p # -c.with
      BY <1>0, <3>1
    <3>. QED
      BY <1>0, <3>1, <3>2, <3>3
  <2>2. CASE Loads(v)
    BY <1>0, <2>2 DEF Loads
  <2>3. CASE Pushes
    BY <1>0, <2>3 DEF Pushes
  <2>4. CASE tab'[v] = tab[v]
    BY <1>0, <2>4
  <2>. QED
    BY <2>1, <2>2, <2>3, <2>4 DEF Kept, Shape, Rests, Ends, Advances,
       Generates, Fails, Sends,
       Moves, Puts, Syncs, Refuses, Shoots, OwnKept
<1>4. ASSUME NEW i \in 1..Len(inbox'[v]) PROVE inbox'[v][i].with # p
  <2>1. CASE Kept(v) \/ Pushes
    BY <1>0, <2>1 DEF Kept, Pushes
  <2>2. CASE Shape(v)
    <3>1. CASE \E j \in 1..Len(inbox[v]) : inbox'[v][i] = inbox[v][j]
      BY <1>0, <3>1
    <3>2. CASE Sends(v) /\ inbox'[v][i] = Current(v)'
      BY <1>0, <1>1, <3>2, SentOn
    <3>. QED
      BY <2>2, <3>1, <3>2, InboxSteps
  <2>. QED
    BY <2>1, <2>2
<1>. QED
  BY <1>1, <1>2, <1>3, <1>4 DEF Knows

\* A password that there has not been is known to nobody.
LEMMA KnowsNoneYet ==
  ASSUME TypeOK, NEW v \in Workflow, Kept(v), NEW p, p = made + 1
  PROVE  /\ ~Knows(v, p)'
         /\ p # tab'[v].typed["new"] /\ p # value'[v]
         /\ \A i \in 1..Len(inbox'[v]) : inbox'[v][i].with # p
<1>0. /\ value[v] \in 0..made /\ fresh[v] \in 0..made /\ made \in Nat
      /\ \A f \in Field : tab[v].typed[f] \in -made..made
      /\ \A i \in 1..Len(inbox[v]) : inbox[v][i].with \in 0..made
  BY Values
<1>1. value[v] # p /\ fresh[v] # p
  BY <1>0
<1>2. \A f \in Field : tab[v].typed[f] # p
  BY <1>0
<1>3. \A i \in 1..Len(inbox[v]) : inbox[v][i].with # p
  BY <1>0
<1>4. /\ value'[v] = value[v] /\ fresh'[v] = fresh[v] /\ tab'[v] = tab[v]
      /\ inbox'[v] = inbox[v]
  BY DEF Kept
<1>. QED
  BY <1>1, <1>2, <1>3, <1>4 DEF Knows

LEMMA FreshOnesKept ==
  ASSUME TypeOK, InPlace, FreshOnes, [Next]_vars
  PROVE  FreshOnes'
<1>0. ASSUME NEW w \in Workflow
      PROVE  /\ fresh[w] # 1
             /\ step[w] \in Filling \union Late => fresh[w] # 0
             /\ step[w] \notin Filling \union Late \union {"Failed"} \/ at[w] = "over"
                => fresh[w] = 0
             /\ step[w] \in Filling /\ at[w] # "begin" => value[w] = fresh[w]
             /\ \A v \in Workflow \ {w} : fresh[v] = fresh[w] => fresh[w] = 0
             /\ fresh[w] \in 0..made /\ made \in Nat /\ made >= 1
  BY Values, TypeParts DEF FreshOnes
<1>1. ASSUME NEW w \in Workflow
      PROVE  /\ fresh'[w] # 1
             /\ step'[w] \in Filling \union Late => fresh'[w] # 0
             /\ step'[w] \notin Filling \union Late \union {"Failed"} \/ at'[w] = "over"
                => fresh'[w] = 0
             /\ step'[w] \in Filling /\ at'[w] # "begin" => value'[w] = fresh'[w]
  <2>1. CASE Kept(w) \/ Pushes
    BY <1>0, <2>1 DEF Kept, Pushes
  <2>2. CASE Rests(w) \/ Ends(w) \/ Syncs(w)
    BY <1>0, <2>2 DEF Rests, Ends, Syncs, OwnKept, Begun
  <2>3. CASE Advances(w)
    BY <1>0, <2>3 DEF Advances, OwnKept, Begun, Early
  <2>4. CASE Generates(w)
    BY <1>0, <2>4 DEF Generates, Begun
  <2>5. CASE Fails(w)
    BY <1>0, <2>5 DEF Fails, Begun, OwnKept
  <2>6. CASE Sends(w)
    BY <1>0, <2>6, Places DEF Sends, Credential
  <2>7. CASE Moves(w) \/ Puts(w)
    BY <1>0, <2>7, Places DEF Moves, Puts, OwnKept
  <2>8. CASE Runs(w)
    BY <1>0, <2>8 DEF Runs
  <2>. QED
    BY <2>1, <2>2, <2>3, <2>4, <2>5, <2>6, <2>7, <2>8, OwnOrOther
       DEF Shape, Refuses, Shoots, Types, Loads
<1>2. ASSUME NEW w \in Workflow, NEW v \in Workflow \ {w}, fresh'[v] = fresh'[w]
      PROVE  fresh'[w] = 0
  <2>1. CASE Pushes \/ Refreshes
    BY <1>0, <1>2, <2>1 DEF Pushes, Refreshes, Kept
  <2>2. ASSUME NEW x \in Workflow, Shape(x), Others(x)
        PROVE  fresh'[w] = 0
    <3>1. \A y \in Workflow : y # x => fresh'[y] = fresh[y]
      BY <2>2 DEF Others, Kept
    <3>2. fresh'[x] \in {fresh[x], 0, made + 1}
      BY <2>2, FreshSteps
    <3>3. /\ fresh[w] \in 0..made /\ fresh[v] \in 0..made /\ made \in Nat
               /\ fresh[x] \in 0..made
          /\ fresh[v] = fresh[w] => fresh[w] = 0
      BY <1>0
    <3>. QED
      BY <1>2, <3>1, <3>2, <3>3
  <2>. QED
    BY <2>1, <2>2, StepShapes
<1>. QED
  BY <1>1, <1>2, Zenon DEF FreshOnes

LEMMA NewOnesOwnKept ==
  ASSUME TypeOK, InPlace, InPlace', FreshOnes, NewOnesOwn, [Next]_vars
  PROVE  NewOnesOwn'
<1>1. ASSUME NEW w \in Workflow, fresh'[w] # 0, NEW v \in Workflow \ {w}
      PROVE  /\ fresh'[w] # tab'[v].typed["new"]
             /\ goal'[v] = "FillNewPassword" => value'[v] # fresh'[w]
             /\ \A i \in 1..Len(inbox'[v]) : inbox'[v][i].on = "new" =>
                  inbox'[v][i].with # fresh'[w]
  <2>1. CASE Generates(w) /\ Others(w)
    <3>1. fresh'[w] = made + 1 /\ Kept(v)
      BY <2>1 DEF Generates, Others
    <3>. QED
      BY <3>1, KnowsNoneYet
  <2>2. ASSUME fresh'[w] = fresh[w], Shape(v) \/ Kept(v) \/ Pushes
        PROVE  /\ fresh'[w] # tab'[v].typed["new"]
               /\ goal'[v] = "FillNewPassword" => value'[v] # fresh'[w]
               /\ \A i \in 1..Len(inbox'[v]) :
                    inbox'[v][i].on = "new" => inbox'[v][i].with # fresh'[w]
    <3>. DEFINE p == fresh[w]
    <3>0. /\ p # tab[v].typed["new"]
          /\ goal[v] = "FillNewPassword" => value[v] # p
          /\ \A i \in 1..Len(inbox[v]) : inbox[v][i].on = "new" => inbox[v][i].with # p
          /\ fresh[v] # p /\ p \in 1..made /\ made \in Nat
      BY <1>1, <2>2, Values DEF NewOnesOwn, FreshOnes
    <3>1. p # tab'[v].typed["new"]
      <4>1. CASE Types(v)
        <5>. DEFINE c == inbox[v][1]
        <5>1. c.with \in 0..made /\ 1 \in 1..Len(inbox[v])
          BY <4>1, Values, PipeTypes DEF Types, Runs
        <5>2. CASE c.on = "new"
          <6>1. c.with # p /\ tab'[v].typed["new"] \in {c.with, -c.with}
            BY <3>0, <4>1, <5>1, <5>2 DEF Types
          <6>2. p # -c.with
            BY <3>0, <5>1
          <6>. QED
            BY <6>1, <6>2
        <5>3. CASE c.on # "new"
          BY <3>0, <4>1, <5>3 DEF Types
        <5>. QED
          BY <5>2, <5>3
      <4>2. CASE Loads(v)
        BY <3>0, <4>2 DEF Loads
      <4>3. CASE Pushes
        BY <3>0, <4>3 DEF Pushes
      <4>4. CASE tab'[v] = tab[v]
        BY <3>0, <4>4
      <4>. QED
        BY <2>2, <4>1, <4>2, <4>3, <4>4 DEF Kept, Shape, Rests, Ends,
           Advances, Generates, Fails,
           Sends, Moves, Puts, Syncs, Refuses, Shoots, OwnKept
    <3>2. ASSUME goal'[v] = "FillNewPassword" PROVE value'[v] # p
      <4>1. \/ value'[v] = 0
            \/ goal[v] = "FillNewPassword" /\ value'[v] \in {value[v], fresh[v]}
        <5>1. CASE Sends(v)
          BY <3>2, <5>1, Places DEF Sends, Credential
        <5>2. CASE ~Sends(v)
          BY <2>2, <3>2, <5>2 DEF Kept, Pushes, Shape, Rests, Ends,
             Begun, Advances, Generates, Fails,
             Moves, Puts, Syncs, Runs, Refuses, Shoots, Types, Loads
        <5>. QED
          BY <5>1, <5>2
      <4>. QED
        BY <3>0, <4>1
    <3>3. ASSUME NEW i \in 1..Len(inbox'[v]), inbox'[v][i].on = "new" PROVE inbox'[v][i].with # p
      <4>1. CASE Kept(v) \/ Pushes
        BY <3>0, <3>3, <4>1 DEF Kept, Pushes
      <4>2. CASE Shape(v)
        <5>1. CASE \E j \in 1..Len(inbox[v]) : inbox'[v][i] = inbox[v][j]
          BY <3>0, <3>3, <5>1
        <5>2. CASE Sends(v) /\ inbox'[v][i] = Current(v)'
          BY <3>2, <3>3, <5>2, SentOn, KindKept
        <5>. QED
          BY <4>2, <5>1, <5>2, InboxSteps
      <4>. QED
        BY <2>2, <4>1, <4>2
    <3>. QED
      BY <2>2, <3>1, <3>2, <3>3
  <2>3. fresh'[w] = fresh[w] \/ (Generates(w) /\ Others(w))
    BY <1>1, OwnOrOther, FreshSteps DEF Kept, Pushes
  <2>. QED
    BY <2>1, <2>2, <2>3, OwnOrOther
<1>. QED
  BY <1>1, Zenon DEF NewOnesOwn

LEMMA SecretKept ==
  ASSUME TypeOK, InPlace, InPlace', FreshOnes, Secret, [Next]_vars
  PROVE  Secret'
<1>1. ASSUME NEW w \in Workflow, ~trouble'[w], fresh'[w] # 0, at'[w] # "sync"
      PROVE  /\ fresh'[w] # cached' /\ fresh'[w] # vault'
             /\ \A v \in Workflow \ {w} : ~Knows(v, fresh[w])'
  <2>0. /\ fresh[w] \in 0..made /\ cached \in 0..made /\ vault \in 0..made /\ made \in Nat
        /\ fresh[w] # 1 /\ made >= 1
    BY Values, TypeParts DEF FreshOnes
  <2>1. CASE Generates(w) /\ Others(w)
    <3>1. /\ fresh'[w] = made + 1 /\ cached' = cached /\ vault' = vault
          /\ \A v \in Workflow \ {w} : Kept(v)
      BY <2>1 DEF Generates, Others
    <3>. DEFINE p == made + 1
    <3>2. \A v \in Workflow \ {w}, q \in {p} : ~Knows(v, q)'
      BY <3>1, KnowsNoneYet
    <3>3. \A v \in Workflow \ {w} : ~Knows(v, fresh[w])'
      <4>1. fresh'[w] \in {p}
        BY <3>1
      <4>. QED
        BY <4>1, <3>2, Zenon DEF Knows
    <3>. QED
      BY <2>0, <3>1, <3>3
  <2>2. ASSUME ~(Generates(w) /\ Others(w))
        PROVE  /\ fresh'[w] = fresh[w] /\ at[w] # "sync" /\ ~trouble[w]
    <3>1. CASE Kept(w) \/ Pushes
      BY <1>1, <3>1, TroubleStays DEF Kept, Pushes
    <3>2. CASE Shape(w) /\ Others(w)
      <4>1. fresh'[w] = fresh[w] /\ ~Syncs(w)
        BY <1>1, <2>2, <3>2, FreshSteps DEF Syncs
      <4>2. ~trouble[w] /\ ~(Fails(w) /\ step[w] \in Late)
        BY <1>1, <3>2, TroubleStays
      <4>3. at[w] # "sync"
        <5>. SUFFICES ASSUME at[w] = "sync" PROVE FALSE
          OBVIOUS
        <5>1. step[w] = "UpdateVault"
          BY Places
        <5>2. ~Fails(w)
          BY <4>2, <5>1
        <5>. QED
          BY <1>1, <3>2, <4>1, <5>1, <5>2 DEF Shape, Rests, Ends,
             Advances, Generates, Sends, Moves,
             Puts, Runs, Refuses, Shoots, Types, Loads
      <4>. QED
        BY <4>1, <4>2, <4>3
    <3>. QED
      BY <3>1, <3>2, OwnOrOther
  <2>3. CASE ~(Generates(w) /\ Others(w))
    <3>. DEFINE p == fresh[w]
    <3>1. fresh'[w] = p /\ at[w] # "sync" /\ ~trouble[w] /\ p \in 2..made
      BY <1>1, <2>0, <2>2, <2>3
    <3>2. p # cached /\ p # vault /\ \A v \in Workflow \ {w} : ~Knows(v, p)
      BY <1>1, <3>1 DEF Secret
    <3>3. \A v \in Workflow \ {w}, q \in {p} : ~Knows(v, q)'
      BY <3>1, <3>2, KnowsNoMore, OwnOrOther, KindKept
    <3>5. \A v \in Workflow \ {w} : ~Knows(v, fresh[w])'
      <4>1. fresh'[w] \in {p}
        BY <3>1
      <4>. QED
        BY <4>1, <3>3, Zenon DEF Knows
    <3>4. p # cached' /\ p # vault'
      <4>1. CASE Pushes \/ Refreshes
        BY <3>2, <4>1 DEF Pushes, Refreshes, SharedKept, VaultKept
      <4>2. ASSUME NEW x \in Workflow, Shape(x), Others(x)
            PROVE  p # cached' /\ p # vault'
        <5>1. cached' \in {cached, vault}
          BY <4>2, VaultSteps
        <5>2. CASE vault' = vault
          BY <3>2, <5>1, <5>2
        <5>3. CASE at[x] = "put" /\ vault' = fresh[x] /\ (Puts(x) \/ Fails(x))
          <6>1. x # w
            <7>. SUFFICES ASSUME x = w PROVE FALSE
              OBVIOUS
            <7>1. step[w] = "UpdateVault"
              BY <5>3, Places
            <7>2. ~Fails(w)
              BY <1>1, <4>2, <7>1, TroubleStays
            <7>. QED
              BY <1>1, <5>3, <7>2 DEF Puts
          <6>2. fresh[x] # p
            BY <3>1, <6>1 DEF FreshOnes
          <6>. QED
            BY <3>2, <5>1, <5>3, <6>2
        <5>. QED
          BY <4>2, <5>2, <5>3, VaultSteps
      <4>. QED
        BY <4>1, <4>2, StepShapes
    <3>. QED
      BY <3>1, <3>4, <3>5
  <2>. QED
    BY <2>1, <2>3
<1>. QED
  BY <1>1, Zenon DEF Secret

\* A workflow in step was so before, or its agent has been killed.
LEMMA InStepBefore ==
  ASSUME TypeOK, InPlace, Surplus, InStep, [Next]_vars,
            NEW w \in Workflow, ~OutOfStep(w)', ~Ends(w)
  PROVE  /\ ~OutOfStep(w)
         /\ Awaited(w) = 0 => inbox[w] = <<>> /\ outbox[w] = <<>>
         /\ outbox[w] # <<>> => inbox[w] = <<>> /\ Len(outbox[w]) = 1
         /\ inbox[w] # <<>> => inbox[w] = <<Current(w)>> /\ outbox[w] = <<>>
  BY StaysOut, InStepIs DEF InStep

\* What is executed in step is the command whose reply is waited for.
LEMMA RunsCurrent ==
  ASSUME TypeOK, InPlace, Surplus, InStep, NEW w \in Workflow, ~OutOfStep(w), Runs(w)
  PROVE  /\ inbox[w][1] = Current(w) /\ inbox'[w] = <<>> /\ outbox[w] = <<>>
         /\ at[w] \in {"shot", "act", "type"}
         /\ at[w] = "shot" => inbox[w][1].do = "screenshot"
         /\ inbox[w][1].on = "new" =>
              goal[w] = "FillNewPassword" /\ at[w] \in {"act", "type"}
                 /\ inbox[w][1].with = value[w]
         /\ inbox[w][1].on = "save" => goal[w] = "ClickSave" /\ at[w] = "act"
<1>1. inbox[w] = <<Current(w)>> /\ outbox[w] = <<>> /\ inbox'[w] = Tail(inbox[w])
         /\ Awaited(w) # 0
  BY InStepIs DEF InStep, Runs
<1>2. inbox[w][1] = Current(w) /\ inbox'[w] = <<>>
  BY <1>1
<1>3. at[w] \in {"shot", "act", "type"}
  BY <1>1 DEF Awaited
<1>. QED
  BY <1>1, <1>2, <1>3, CurrentOn, ScreenshotIs

LEMMA NewTypedKept ==
  ASSUME TypeOK, InPlace, InPlace', Surplus, InStep, FreshOnes, NewTyped, [Next]_vars
  PROVE  NewTyped'
<1>1. ASSUME NEW w \in Workflow
      PROVE  /\ step'[w] \notin Filling \union Late \union Final =>
                  /\ tab'[w].typed["new"] = 0
                  /\ \A i \in 1..Len(inbox'[w]) : inbox'[w][i].on # "new"
             /\ ~OutOfStep(w)' /\ step'[w] \in Filling \union {"ClickSave"} =>
                  tab'[w].typed["new"] \in {0, fresh'[w]}
             /\ ~OutOfStep(w)' /\ step'[w] = "FillNewPassword" /\ tab'[w].typed["new"] # 0 =>
                  at'[w] \in {"act", "type"} /\ outbox'[w] = <<"ok">>
  <2>. DEFINE new == tab[w].typed["new"]
  <2>0. /\ step[w] \notin Filling \union Late \union Final =>
             new = 0 /\ \A i \in 1..Len(inbox[w]) : inbox[w][i].on # "new"
        /\ ~OutOfStep(w) /\ step[w] \in Filling \union {"ClickSave"} => new \in {0, fresh[w]}
        /\ ~OutOfStep(w) /\ step[w] = "FillNewPassword" /\ new # 0 =>
             at[w] \in {"act", "type"} /\ outbox[w] = <<"ok">>
    BY DEF NewTyped
  <2>a. ~OutOfStep(w)' /\ ~Ends(w) =>
          /\ ~OutOfStep(w)
          /\ Awaited(w) = 0 => inbox[w] = <<>> /\ outbox[w] = <<>>
          /\ outbox[w] # <<>> => inbox[w] = <<>> /\ Len(outbox[w]) = 1
    BY InStepBefore
  <2>1. CASE Kept(w) \/ Pushes
    <3>1. /\ step'[w] = step[w] /\ inbox'[w] = inbox[w] /\ outbox'[w] = outbox[w]
          /\ at'[w] = at[w] /\ fresh'[w] = fresh[w] /\ tab'[w].typed["new"] \in {new, 0}
          /\ OutOfStep(w)' <=> OutOfStep(w)
      BY <2>1, KeptPipes DEF Kept, Pushes
    <3>. QED
      BY <2>0, <3>1
  <2>2. CASE Rests(w) \/ Puts(w) \/ Syncs(w) \/ Ends(w)
    <3>1. \/ step'[w] \in {"UpdateVault"} \union Final
          \/ /\ step'[w] = "NavigateToLogin" /\ step[w] = "NavigateToLogin"
             /\ tab'[w] = tab[w] /\ inbox'[w] = inbox[w]
      BY <2>2, Places DEF Rests, Puts, Syncs, Ends, OwnKept
    <3>. QED
      BY <2>0, <3>1
  <2>3. CASE Advances(w)
    <3>1. /\ tab'[w] = tab[w] /\ inbox'[w] = inbox[w] /\ fresh'[w] = fresh[w] /\ ~Ends(w)
      BY <2>3 DEF Advances, OwnKept, Ends, Early
    <3>2. \/ step[w] \in Early /\ step'[w] \in Early
          \/ step[w] = "FillNewPassword" /\ step'[w] = "FillConfirmPassword"
          \/ step[w] = "FillConfirmPassword" /\ step'[w] = "ClickSave"
          \/ step'[w] \in {"VerifySuccess", "UpdateVault", "Failed"}
      BY <2>3 DEF Advances
    <3>. QED
      BY <2>0, <2>a, <3>1, <3>2 DEF Early
  <2>4. CASE Generates(w)
    <3>1. step[w] = "GenerateNewPassword" /\ step'[w] = "FillNewPassword" /\ tab'[w] = tab[w]
      BY <2>4 DEF Generates
    <3>. QED
      BY <2>0, <3>1
  <2>5. CASE Fails(w)
    <3>1. /\ step'[w] \in {step[w], "Failed"} /\ tab'[w] = tab[w] /\ inbox'[w] = inbox[w]
          /\ fresh'[w] = fresh[w] /\ ~Ends(w) /\ at'[w] = "begin"
      BY <2>5 DEF Fails, OwnKept, Begun, Ends
    <3>2. ASSUME ~OutOfStep(w)', step[w] = "FillNewPassword", new # 0 PROVE FALSE
      <4>0. /\ at[w] \in {"act", "type"} /\ outbox[w] = <<"ok">> /\ outbox[w] # <<>>
            /\ outbox[w][1] = "ok" /\ Len(outbox[w]) = 1
        BY <2>0, <2>a, <3>1, <3>2
      <4>1. Awaited(w) = 1 /\ inbox[w] = <<>>
        BY <2>a, <3>1, <3>2, <4>0 DEF Awaited
      <4>2. ~NoRead(w) /\ ~(at[w] = "shot" \/ outbox[w][1] = "error")
        BY <4>0, <4>1 DEF NoRead
      <4>3. Len(outbox'[w]) = Len(outbox[w])
        BY <2>5, <4>2 DEF Fails
      <4>4. InPipes(w)' = 1 /\ Awaited(w)' = 0
        BY <3>1, <4>0, <4>1, <4>3 DEF InPipes, Awaited
      <4>. QED
        BY <3>2, <4>4 DEF OutOfStep
    <3>. QED
      BY <2>0, <2>a, <3>1, <3>2
  <2>6. CASE Sends(w)
    <3>1. /\ step'[w] = step[w] /\ tab'[w] = tab[w] /\ fresh'[w] = fresh[w] /\ ~Ends(w)
          /\ step[w] = "FillNewPassword" =>
               /\ at[w] \in {"begin", "look", "act"}
               /\ at[w] = "act" => outbox[w][1] = "error"
      BY <2>6 DEF Sends, Ends
    <3>2. ASSUME step[w] \notin Filling \union Late \union Final, NEW i \in 1..Len(inbox'[w])
          PROVE  inbox'[w][i].on # "new"
      <4>1. goal'[w] # "FillNewPassword"
        BY <2>6, <3>2 DEF Sends
      <4>2. Current(w)'.on # "new"
        BY <2>6, <4>1, SentOn, KindKept
      <4>. QED
        BY <2>0, <2>6, <3>2, <4>2, InboxSteps DEF Shape
    <3>3. ASSUME ~OutOfStep(w)', step[w] = "FillNewPassword", new # 0 PROVE FALSE
      <4>1. at[w] \in {"act", "type"} /\ outbox[w] = <<"ok">>
        BY <2>0, <2>a, <3>1, <3>3
      <4>. QED
        BY <3>1, <3>3, <4>1
    <3>. QED
      BY <2>0, <2>a, <3>1, <3>2, <3>3
  <2>7. CASE Moves(w)
    <3>1. /\ step'[w] = step[w] /\ tab'[w] = tab[w] /\ fresh'[w] = fresh[w] /\ ~Ends(w)
          /\ inbox'[w] = inbox[w]
          /\ step[w] = "FillNewPassword" => at[w] = "shot"
      BY <2>7 DEF Moves, OwnKept, Ends
    <3>. QED
      BY <2>0, <2>a, <3>1
  <2>8. ASSUME Runs(w), Types(w) \/ Loads(w) \/ Refuses(w) \/ Shoots(w)
        PROVE  /\ step'[w] \notin Filling \union Late \union Final =>
                    /\ tab'[w].typed["new"] = 0
                    /\ \A i \in 1..Len(inbox'[w]) : inbox'[w][i].on # "new"
               /\ ~OutOfStep(w)' /\ step'[w] \in Filling \union {"ClickSave"} =>
                    tab'[w].typed["new"] \in {0, fresh'[w]}
               /\ ~OutOfStep(w)' /\ step'[w] = "FillNewPassword" /\ tab'[w].typed["new"] # 0 =>
                    at'[w] \in {"act", "type"} /\ outbox'[w] = <<"ok">>
    <3>0. Shape(w)
      BY <2>8 DEF Shape
    <3>1. /\ step'[w] = step[w] /\ fresh'[w] = fresh[w] /\ at'[w] = at[w]
          /\ inbox[w] # <<>> /\ ~Sends(w) /\ ~Ends(w)
      BY <2>8 DEF Runs, Sends, Ends
    <3>t. CASE Types(w)
      <4>. DEFINE c == inbox[w][1]
      <4>0. 1 \in 1..Len(inbox[w])
        BY <3>1, PipeTypes
      <4>1. CASE step[w] \notin Filling \union Late \union Final
        <5>1. c.on # "new"
          BY <2>0, <4>0, <4>1
        <5>2. tab'[w].typed["new"] = 0
          BY <2>0, <3>t, <4>1, <5>1 DEF Types
        <5>3. \A i \in 1..Len(inbox'[w]) : inbox'[w][i].on # "new"
          BY <2>0, <3>0, <3>1, <4>1, InboxSteps
        <5>. QED
          BY <3>1, <4>1, <5>2, <5>3
      <4>2. CASE step[w] \in Filling \union Late \union Final /\ ~OutOfStep(w)'
        <5>1. ~OutOfStep(w)
          BY <2>a, <3>1, <4>2
        <5>2. /\ outbox[w] = <<>>
              /\ c.on = "new" =>
                   goal[w] = "FillNewPassword" /\ at[w] \in {"act", "type"} /\ c.with = value[w]
          BY <2>8, <5>1, RunsCurrent
        <5>3. outbox'[w] = <<"ok">>
          BY <3>t, <5>2 DEF Types
        <5>4. CASE c.on = "new"
          <6>1. step[w] = "FillNewPassword" /\ value[w] = fresh[w] /\ new = 0
            BY <2>0, <5>1, <5>2, <5>4, Places DEF FreshOnes
          <6>2. tab'[w].typed["new"] = fresh[w]
            BY <3>t, <5>2, <5>4, <6>1 DEF Types
          <6>. QED
            BY <3>1, <5>2, <5>3, <5>4, <6>1, <6>2
        <5>5. CASE c.on # "new"
          <6>1. tab'[w].typed["new"] = new
            BY <3>t, <5>5 DEF Types
          <6>. QED
            BY <2>0, <3>1, <4>2, <5>1, <5>2, <6>1
        <5>. QED
          BY <5>4, <5>5
      <4>. QED
        BY <3>1, <4>1, <4>2
    <3>l. CASE Loads(w) \/ Refuses(w) \/ Shoots(w)
      <4>1. tab'[w].typed["new"] \in {new, 0}
        BY <3>l DEF Loads, Refuses, Shoots
      <4>2. \A i \in 1..Len(inbox'[w]) : \E j \in 1..Len(inbox[w]) : inbox'[w][i] = inbox[w][j]
        BY <3>0, <3>1, InboxSteps
      <4>3. ~OutOfStep(w)' => ~OutOfStep(w) /\ outbox[w] = <<>>
        BY <2>a, <2>8, <3>1, RunsCurrent
      <4>4. <<"ok">> # <<>>
        OBVIOUS
      <4>. QED
        BY <2>0, <3>1, <4>1, <4>2, <4>3, <4>4
    <3>. QED
      BY <2>8, <3>t, <3>l
  <2>. QED
    BY <2>1, <2>2, <2>3, <2>4, <2>5, <2>6, <2>7, <2>8, OwnOrOther
       DEF Shape, Refuses, Shoots, Types, Loads
<1>. QED
  BY <1>1, Zenon DEF NewTyped

\* A step that does not fail leaves a workflow in step.
LEMMA StaysIn ==
  ASSUME TypeOK, NEW w \in Workflow, Balanced(w), ~OutOfStep(w)
  PROVE  ~OutOfStep(w)'
<1>1. /\ InPipes(w) \in Nat /\ Awaited(w) \in {0, 1} /\ Awaited(w)' \in {0, 1}
  BY PipeTypes DEF Awaited
<1>2. InPipes(w)' \in Int /\ InPipes(w)' - Awaited(w)' = InPipes(w) - Awaited(w)
  BY BalanceKept
<1>3. ~(InPipes(w) > Awaited(w))
  BY DEF OutOfStep
<1>4. ~(InPipes(w)' > Awaited(w)')
  BY <1>1, <1>2, <1>3
<1>. QED
  BY <1>4 DEF OutOfStep

LEMMA SaveTriedKept ==
  ASSUME TypeOK, InPlace, InPlace', Surplus, InStep, SaveTried, [Next]_vars
  PROVE  SaveTried'
<1>1. ASSUME NEW w \in Workflow
      PROVE  /\ \A i \in 1..Len(inbox'[w]) : inbox'[w][i].on = "save" =>
                  \/ step'[w] = "ClickSave" /\ at'[w] # "begin"
                  \/ trouble'[w] /\ step'[w] \in Late \union Final
             /\ step'[w] \in Late \ {"ClickSave"} \/ (step'[w] = "ClickSave"
                  /\ at'[w] # "begin") =>
                  trouble'[w] \/ ~OutOfStep(w)'
  <2>. DEFINE Waits == step[w] = "ClickSave" /\ at[w] # "begin"
  <2>0. /\ \A i \in 1..Len(inbox[w]) : inbox[w][i].on = "save" =>
             Waits \/ (trouble[w] /\ step[w] \in Late \union Final)
        /\ step[w] \in Late \ {"ClickSave"} \/ Waits => trouble[w] \/ ~OutOfStep(w)
    BY DEF SaveTried
  <2>1. CASE Kept(w) \/ Pushes
    <3>1. /\ step'[w] = step[w] /\ inbox'[w] = inbox[w] /\ at'[w] = at[w]
               /\ trouble'[w] = trouble[w]
          /\ OutOfStep(w)' <=> OutOfStep(w)
      BY <2>1, KeptPipes DEF Kept, Pushes
    <3>. QED
      BY <2>0, <3>1
  <2>2. CASE Shape(w)
    <3>1. (trouble[w] => trouble'[w]) /\ (Fails(w) /\ step[w] \in Late => trouble'[w])
      BY <2>2, TroubleStays
    <3>2. Balanced(w) /\ ~OutOfStep(w) => ~OutOfStep(w)'
      BY StaysIn
    <3>3. ASSUME NEW i \in 1..Len(inbox'[w]), inbox'[w][i].on = "save"
          PROVE  \/ Sends(w) /\ goal'[w] = "ClickSave" /\ step'[w] = "ClickSave"
                      /\ at'[w] = "act"
                 \/ inbox[w] # <<>> /\ (Waits \/ (trouble[w] /\ step[w] \in Late \union Final))
      <4>1. CASE \E j \in 1..Len(inbox[w]) : inbox'[w][i] = inbox[w][j]
        BY <2>0, <3>3, <4>1
      <4>2. CASE Sends(w) /\ inbox'[w][i] = Current(w)'
        <5>1. goal'[w] = "ClickSave" /\ at'[w] = "act"
          BY <3>3, <4>2, SentOn, KindKept
        <5>. QED
          BY <4>2, <5>1 DEF Sends
      <4>. QED
        BY <2>2, <4>1, <4>2, InboxSteps
    <3>4. CASE Rests(w) \/ Generates(w) \/ Ends(w)
      <4>1. step'[w] \in {"NavigateToLogin", "FillNewPassword"} \union Final
        BY <3>4 DEF Rests, Generates, Ends
      <4>2. ~Sends(w) /\ (step[w] \in {"NavigateToLogin", "GenerateNewPassword"} \/ Ends(w))
        BY <3>4 DEF Rests, Generates, Ends, Sends
      <4>3. Ends(w) => inbox'[w] = <<>>
        BY DEF Ends
      <4>. QED
        BY <3>3, <4>1, <4>2, <4>3
    <3>5. CASE Advances(w)
      <4>1. ~Sends(w) /\ Balanced(w) /\ inbox'[w] = inbox[w] /\ trouble'[w] = trouble[w]
               /\ at'[w] = "begin"
        BY <3>5 DEF Advances, Sends, Balanced, Begun, OwnKept
      <4>2. CASE step'[w] \in Early \union Filling \union {"ClickSave"}
        <5>1. step[w] \in Early \union Filling
          BY <3>5, <4>2 DEF Advances, Early
        <5>. QED
          BY <3>3, <4>1, <4>2, <5>1 DEF Early
      <4>3. CASE step[w] = "ClickSave" /\ step'[w] = "VerifySuccess" /\ at[w] = "sleep"
        <5>1. ~OutOfStep(w) => inbox[w] = <<>>
          BY <4>3, InStepIs DEF Awaited
        <5>. QED
          BY <2>0, <3>1, <3>2, <3>3, <4>1, <4>3, <5>1
      <4>4. CASE step[w] = "VerifySuccess" /\ step'[w] \in {"UpdateVault", "Failed"}
        BY <2>0, <3>1, <3>2, <3>3, <4>1, <4>4
      <4>. QED
        BY <3>5, <4>2, <4>3, <4>4 DEF Advances
    <3>6. CASE Fails(w)
      <4>1. ~Sends(w) /\ step'[w] \in {step[w], "Failed"} /\ at'[w] = "begin"
        BY <3>6 DEF Fails, Sends, Begun
      <4>. QED
        BY <2>0, <3>1, <3>3, <3>6, <4>1
    <3>7. CASE Sends(w)
      <4>1. /\  step'[w] = step[w] /\ Balanced(w) /\ at'[w] # "begin" /\ step[w] # "UpdateVault"
            /\ goal'[w] = "ClickSave" => step[w] = "ClickSave"
            /\ step[w] = "ClickSave" /\ at[w] = "begin" => trouble'[w] \/ ~OutOfStep(w)
        BY <3>7 DEF Sends, Balanced
      <4>. QED
        BY <2>0, <3>1, <3>2, <3>3, <4>1
    <3>8. CASE Moves(w) \/ Puts(w) \/ Refuses(w) \/ Shoots(w) \/ Types(w) \/ Loads(w)
      <4>1. Balanced(w) /\ step'[w] = step[w] /\ trouble'[w] = trouble[w]
        BY <3>8 DEF Moves, Puts, Runs, Refuses, Shoots, Types, Loads, Balanced
      <4>2. \/ at'[w] = at[w]
            \/ at'[w] # "begin" /\ (step[w] # "ClickSave" \/ at[w] # "begin")
        BY <3>8 DEF Moves, Puts, Runs, Refuses, Shoots, Types, Loads
      <4>. QED
        BY <2>0, <3>1, <3>2, <3>3, <4>1, <4>2
    <3>9. CASE Syncs(w)
      <4>1. step[w] = "UpdateVault" /\ step'[w] = "Done" /\ ~Sends(w)
        BY <3>9, Places DEF Syncs, Sends
      <4>. QED
        BY <3>1, <3>3, <4>1
    <3>. QED
      BY <2>2, <3>4, <3>5, <3>6, <3>7, <3>8, <3>9 DEF Shape, Refuses,
         Shoots, Types, Loads
  <2>. QED
    BY <2>1, <2>2, OwnOrOther
<1>. QED
  BY <1>1, Zenon DEF SaveTried

\* Who saves a password in step does so in ClickSave, and it is its own.
LEMMA SavesInStep ==
  ASSUME TypeOK, InPlace, Surplus, InStep, NewTyped, NEW w \in Workflow, Saves(w), ~OutOfStep(w)
  PROVE  step[w] = "ClickSave" /\ at[w] = "act" /\ inbox'[w] = <<>> /\ site' = fresh[w]
<1>1. goal[w] = "ClickSave" /\ at[w] = "act" /\ inbox'[w] = <<>>
  BY RunsCurrent DEF Saves
<1>2. step[w] = "ClickSave"
  BY <1>1, Places
<1>3. tab[w].typed["new"] \in {0, fresh[w]}
  BY <1>2 DEF NewTyped
<1>. QED
  BY <1>1, <1>2, <1>3 DEF Saves

LEMMA SavesOwn ==
  ASSUME TypeOK, InPlace, SaveTried, NEW w \in Workflow, Saves(w)
  PROVE  /\ step[w] \in Late \union Final
         /\ ~trouble[w] => step[w] = "ClickSave" /\ ~OutOfStep(w)
<1>1. 1 \in 1..Len(inbox[w]) /\ inbox[w][1].on = "save"
  BY PipeTypes DEF Saves, Runs
<1>2. \/ step[w] = "ClickSave" /\ at[w] # "begin"
      \/ trouble[w] /\ step[w] \in Late \union Final
  BY <1>1 DEF SaveTried
<1>3. step[w] = "ClickSave" /\ at[w] # "begin" => trouble[w] \/ ~OutOfStep(w)
  BY DEF SaveTried
<1>. QED
  BY <1>2, <1>3

\* Nobody saves the new password of another, or over one that is secret.
LEMMA SavesApart ==
  ASSUME TypeOK, Secret, NewOnesOwn, NEW w \in Workflow, NEW x \in Workflow \ {w}, Saves(x)
  PROVE  /\ site' # fresh[w]
         /\ ~trouble[w] /\ fresh[w] # 0 /\ at[w] # "sync" => site # fresh[w]
<1>1. site' # fresh[w]
  BY DEF Saves, NewOnesOwn
<1>2. ASSUME ~trouble[w], fresh[w] # 0, at[w] # "sync" PROVE site # fresh[w]
  <2>1. ~Knows(x, fresh[w])
    BY <1>2, Zenon DEF Secret
  <2>2. \A f \in Field : fresh[w] # tab[x].typed[f]
    BY <2>1 DEF Knows
  <2>. QED
    BY <2>2 DEF Saves
<1>. QED
  BY <1>1, <1>2

LEMMA SavedRightKept ==
  ASSUME TypeOK, InPlace, InPlace', Surplus, InStep, FreshOnes, Secret, NewOnesOwn, NewTyped,
         SaveTried, SavedRight, site # 0, site' # 0, [Next]_vars
  PROVE  SavedRight'
<1>. DEFINE Right(s, a, f, i, in, out, page, now) ==
              LET saved == page = "saved" IN
              /\ saved => s \in Late \union {"Done"}
              /\ saved /\ s # "Done" /\ a # "sync" => now = f
              /\ saved /\ s = "ClickSave" => a \in {"act", "sleep"} /\ in = <<>>
              /\ s = "VerifySuccess" /\ a = "look" => (i = "saved" <=> saved)
              /\ s = "VerifySuccess" /\ a = "shot" /\ out # <<>> /\ out[1] # "error" =>
                   (out[1] = "saved" <=> saved)
              /\ s = "UpdateVault" => saved
              /\ now = f => saved /\ s \in Late
<1>1. ASSUME NEW w \in Workflow, ~trouble'[w]
      PROVE  Right(step'[w], at'[w], fresh'[w], image'[w], inbox'[w], outbox'[w], tab'[w].page, site')
  <2>. DEFINE saved == tab[w].page = "saved"
              saved1 == tab'[w].page = "saved"
  <2>0. ~trouble[w]
    BY <1>1, OwnOrOther, TroubleStays
  <2>a. /\ saved => step[w] \in Late \union {"Done"}
        /\ saved /\ step[w] # "Done" /\ at[w] # "sync" => site = fresh[w]
        /\ saved /\ step[w] = "ClickSave" => at[w] \in {"act", "sleep"} /\ inbox[w] = <<>>
        /\ step[w] = "VerifySuccess" /\ at[w] = "look" => (image[w] = "saved" <=> saved)
        /\ step[w] = "VerifySuccess" /\ at[w] = "shot" /\ outbox[w] # <<>>
             /\ outbox[w][1] # "error" =>
             (outbox[w][1] = "saved" <=> saved)
        /\ step[w] = "UpdateVault" => saved
        /\ site = fresh[w] => saved /\ step[w] \in Late
    BY <2>0, Zenon DEF SavedRight
  <2>b. step[w] \in Late \ {"ClickSave"} \/ (step[w] = "ClickSave" /\ at[w] # "begin") =>
           ~OutOfStep(w)
    BY <2>0 DEF SaveTried
  <2>c. /\ fresh[w] # 1 /\ (step[w] \in Late => fresh[w] # 0)
        /\ step[w] \notin Filling \union Late \union {"Failed"} => fresh[w] = 0
    BY DEF FreshOnes
  <2>1. CASE Kept(w) /\ site' = site
    BY <2>1, <2>a DEF Kept
  <2>2. ASSUME Kept(w), NEW x \in Workflow \ {w}, Saves(x)
        PROVE  Right(step'[w], at'[w], fresh'[w], image'[w], inbox'[w], outbox'[w], tab'[w].page, site')
    <3>1. site' # fresh[w] /\ (fresh[w] # 0 /\ at[w] # "sync" => site # fresh[w])
      BY <2>0, <2>2, SavesApart
    <3>2. /\ step'[w] = step[w] /\ at'[w] = at[w] /\ fresh'[w] = fresh[w]
               /\ image'[w] = image[w]
          /\ inbox'[w] = inbox[w] /\ outbox'[w] = outbox[w] /\ tab'[w] = tab[w]
      BY <2>2 DEF Kept
    <3>. QED
      BY <2>a, <2>c, <3>1, <3>2
  <2>3. CASE Pushes
    <3>1. /\ step'[w] = step[w] /\ at'[w] = at[w] /\ fresh'[w] = fresh[w]
               /\ image'[w] = image[w]
          /\ inbox'[w] = inbox[w] /\ outbox'[w] = outbox[w] /\ saved1 = saved /\ site' = site
      BY <2>3 DEF Pushes, SharedKept, SiteKept
    <3>. QED
      BY <2>a, <3>1
  <2>4. CASE Rests(w) \/ Ends(w)
    <3>1. /\ step'[w] = step[w] /\ step[w] \in {"NavigateToLogin"} \union Final
               /\ fresh'[w] \in {fresh[w], 0}
          /\ tab'[w] = tab[w] /\ site' = site
      BY <2>4 DEF Rests, Ends, OwnKept, SharedKept, SiteKept
    <3>. QED
      BY <2>a, <3>1
  <2>5. CASE Advances(w)
    <3>1. tab'[w] = tab[w] /\ inbox'[w] = inbox[w] /\ fresh'[w] = fresh[w]
             /\ site' = site /\ at'[w] = "begin"
      BY <2>5 DEF Advances, OwnKept, Begun, SharedKept, SiteKept
    <3>2. CASE step[w] \in Early \union Filling
                  /\ step'[w] \in Early \union Filling \union {"ClickSave"}
      BY <2>a, <3>1, <3>2 DEF Early
    <3>3. CASE step[w] = "ClickSave" /\ step'[w] = "VerifySuccess" /\ at[w] = "sleep"
      BY <2>a, <3>1, <3>3
    <3>4. CASE /\ step[w] = "VerifySuccess" /\ at[w] = "look"
               /\ \/ step'[w] = "UpdateVault" /\ image[w] = "saved"
                  \/ step'[w] = "Failed" /\ image[w] = "refused"
      BY <2>a, <3>1, <3>4
    <3>. QED
      BY <2>5, <3>2, <3>3, <3>4 DEF Advances
  <2>6. CASE Generates(w)
    <3>1. /\ step[w] = "GenerateNewPassword" /\ step'[w] = "FillNewPassword" /\ tab'[w] = tab[w]
          /\ fresh'[w] = made + 1 /\ site' = site
      BY <2>6 DEF Generates, SiteKept
    <3>2. site # made + 1
      BY Values
    <3>. QED
      BY <2>a, <3>1, <3>2
  <2>7. CASE Fails(w)
    <3>1. /\ step'[w] \in {step[w], "Failed"} /\ step[w] \notin Final /\ tab'[w] = tab[w]
          /\ fresh'[w] = fresh[w] /\ site' = site
      BY <2>7 DEF Fails, OwnKept, SiteKept
    <3>2. step[w] \notin Late
      <4>1. Shape(w)
        BY <2>7 DEF Shape
      <4>. QED
        BY <1>1, <2>7, <4>1, TroubleStays
    <3>. QED
      BY <2>a, <3>1, <3>2
  <2>8. CASE Sends(w)
    <3>1. /\ step'[w] = step[w] /\ tab'[w] = tab[w] /\ fresh'[w] = fresh[w] /\ site' = site
          /\ at'[w] \in {"shot", "act", "type"} /\ at[w] # "sync" /\ step[w] # "UpdateVault"
          /\ Reads(w) \/ NoRead(w)
          /\ step[w] = "VerifySuccess" => at[w] = "begin"
          /\ step[w] = "ClickSave" => at[w] \in {"begin", "look", "act"}
          /\ step[w] = "ClickSave" /\ at[w] = "act" => step[w] \in Fills
      BY <2>8 DEF Sends, SharedKept, SiteKept
    <3>2. CASE step[w] = "VerifySuccess"
      <4>1. outbox'[w] = <<>>
        BY <2>b, <3>1, <3>2, InStepIs DEF Reads, NoRead, Awaited
      <4>. QED
        BY <2>a, <3>1, <3>2, <4>1
    <3>3. CASE step[w] = "ClickSave"
      <4>1. ~saved
        BY <2>a, <3>1, <3>3
      <4>. QED
        BY <2>a, <3>1, <3>3, <4>1
    <3>4. CASE step[w] \notin {"VerifySuccess", "ClickSave"}
      BY <2>a, <3>1, <3>4
    <3>. QED
      BY <3>2, <3>3, <3>4
  <2>9. CASE Moves(w)
    <3>1. /\ step'[w] = step[w] /\ tab'[w] = tab[w] /\ fresh'[w] = fresh[w] /\ site' = site
          /\ inbox'[w] = inbox[w]
      BY <2>9 DEF Moves, OwnKept, SharedKept, SiteKept
    <3>2. CASE /\ at[w] = "shot" /\ at'[w] \in {"look", "ask"} /\ Reads(w)
               /\ image'[w] = outbox[w][1] /\ image'[w] \in Page
      <4>1. outbox[w] # <<>> /\ image'[w] # "error"
        BY <3>2 DEF Reads
      <4>. QED
        BY <2>a, <3>1, <3>2, <4>1
    <3>3. CASE at[w] = "act" /\ at'[w] = "sleep"
      BY <2>a, <3>1, <3>3
    <3>4. CASE at'[w] \in {"sleep", "poll"} /\ step[w] = "Handle2FA"
      BY <2>a, <3>1, <3>4
    <3>5. CASE at[w] = "begin" /\ at'[w] = "put" /\ step[w] = "UpdateVault"
      BY <2>a, <3>1, <3>5
    <3>. QED
      BY <2>9, <3>2, <3>3, <3>4, <3>5 DEF Moves
  <2>10. CASE Puts(w) \/ Syncs(w)
    <3>1. /\ step[w] = "UpdateVault" /\ tab'[w] = tab[w] /\ site' = site
          /\ \/ step'[w] = "UpdateVault" /\ at'[w] = "sync" /\ fresh'[w] = fresh[w]
             \/ step'[w] = "Done" /\ fresh'[w] = 0
      BY <2>10, Places DEF Puts, Syncs, OwnKept, SiteKept
    <3>. QED
      BY <2>a, <3>1
  <2>11. ASSUME Runs(w), Refuses(w) \/ Shoots(w) \/ Types(w) \/ Loads(w)
         PROVE  Right(step'[w], at'[w], fresh'[w], image'[w], inbox'[w], outbox'[w], tab'[w].page, site')
    <3>1. /\ step'[w] = step[w] /\ at'[w] = at[w] /\ fresh'[w] = fresh[w]
               /\ image'[w] = image[w]
          /\ inbox[w] # <<>>
      BY <2>11 DEF Runs
    <3>2. /\ step[w] = "ClickSave" => ~saved
          /\ step[w] \in {"VerifySuccess", "UpdateVault"} =>
               /\ inbox[w][1].do = "screenshot" /\ outbox[w] = <<>> /\ at[w] = "shot"
               /\ step[w] = "VerifySuccess"
      <4>1. step[w] = "ClickSave" => ~saved
        BY <2>a, <3>1
      <4>2. ASSUME step[w] \in {"VerifySuccess", "UpdateVault"}
            PROVE  /\ inbox[w][1].do = "screenshot" /\ outbox[w] = <<>> /\ at[w] = "shot"
                   /\ step[w] = "VerifySuccess"
        <5>1. /\ at[w] \in {"shot", "act", "type"} /\ outbox[w] = <<>>
              /\ at[w] = "shot" => inbox[w][1].do = "screenshot"
          BY <2>11, <2>b, <4>2, RunsCurrent
        <5>. QED
          BY <4>2, <5>1, Places
      <4>. QED
        BY <4>1, <4>2
    <3>3. CASE Refuses(w) \/ Shoots(w)
      <4>1. tab'[w] = tab[w] /\ site' = site
               /\ outbox'[w] \in {Append(outbox[w], "error"), Append(outbox[w], tab[w].page)}
        BY <3>3 DEF Refuses, Shoots, SiteKept
      <4>2. outbox[w] = <<>> => outbox'[w][1] \in {"error", tab[w].page}
        BY <4>1
      <4>. QED
        BY <2>a, <3>1, <3>2, <4>1, <4>2
    <3>4. CASE Types(w)
      <4>1. tab'[w].page = tab[w].page /\ site' = site /\ inbox[w][1].do # "screenshot"
        BY <3>4 DEF Types, SiteKept
      <4>. QED
        BY <2>a, <3>1, <3>2, <4>1
    <3>5. CASE Loads(w) /\ ~Saves(w)
      <4>1. ~saved1 /\ site' = site /\ inbox[w][1].do # "screenshot"
        BY <3>5, <2>11 DEF Loads, SiteKept, Saves
      <4>. QED
        BY <2>a, <3>1, <3>2, <4>1
    <3>6. CASE Saves(w)
      <4>1. step[w] = "ClickSave" /\ ~OutOfStep(w)
        BY <2>0, <3>6, SavesOwn
      <4>2. at[w] = "act" /\ inbox'[w] = <<>> /\ site' = fresh[w] /\ saved1
        BY <3>6, <4>1, SavesInStep DEF Saves
      <4>. QED
        BY <3>1, <4>1, <4>2
    <3>. QED
      BY <2>11, <3>3, <3>4, <3>5, <3>6
  <2>12. CASE Shape(w)
    BY <2>12, <2>4, <2>5, <2>6, <2>7, <2>8, <2>9, <2>10, <2>11
       DEF Shape, Refuses, Shoots, Types, Loads
  <2>13. ASSUME NEW x \in Workflow \ {w}, Shape(x), Kept(w)
         PROVE  Right(step'[w], at'[w], fresh'[w], image'[w], inbox'[w], outbox'[w], tab'[w].page, site')
    BY <2>1, <2>2, <2>13, SiteSteps
  <2>14. CASE Refreshes
    BY <2>1, <2>14 DEF Refreshes, SiteKept
  <2>. QED
    <3>. HIDE DEF Right
    <3>. QED
      BY <2>3, <2>12, <2>13, <2>14, OwnOrOther
<1>. QED
  BY <1>1, Zenon DEF SavedRight

LEMMA SaverKept ==
  ASSUME TypeOK, InPlace, InPlace', Surplus, InStep, FreshOnes, Secret, NewOnesOwn, NewTyped,
         SaveTried, SavedRight, Saver, [Next]_vars
  PROVE  Saver'
<1>0. site # 0
  BY DEF Saver
<1>1. site' # 0
  <2>1. ASSUME NEW x \in Workflow, Shape(x) PROVE site' # 0
    BY <1>0, <2>1, SiteSteps DEF Saves
  <2>. QED
    BY <1>0, <2>1, StepShapes DEF Pushes, Refreshes, SharedKept, SiteKept
<1>2. ASSUME NEW w \in Workflow
      PROVE  /\ site' = fresh'[w] => saver' = w
             /\ saver' = w => step'[w] \in Late \union Final
             /\ saver' = w /\ step'[w] \in Late /\ ~OutOfStep(w)' => site' = fresh'[w]
             /\ saver' = w /\ at'[w] = "sync" /\ ~OutOfStep(w)'
                  /\ (\A v \in Workflow \ {w} : ~trouble'[v]) => vault' = fresh'[w]
  <2>0. /\ site = fresh[w] => saver = w
        /\ saver = w => step[w] \in Late \union Final
        /\ saver = w /\ step[w] \in Late /\ ~OutOfStep(w) => site = fresh[w]
        /\ saver = w /\ at[w] = "sync" /\ ~OutOfStep(w)
             /\ (\A v \in Workflow \ {w} : ~trouble[v]) => vault = fresh[w]
    BY DEF Saver
  <2>1. ASSUME \A v \in Workflow \ {w} : ~trouble'[v]
        PROVE  \A v \in Workflow \ {w} : ~trouble[v]
    BY <2>1, OwnOrOther, TroubleStays
  <2>2. ~OutOfStep(w)' /\ ~Ends(w) => ~OutOfStep(w)
    BY StaysOut
  <2>3. CASE Pushes \/ Refreshes
    <3>1. /\ step'[w] = step[w] /\ at'[w] = at[w] /\ fresh'[w] = fresh[w] /\ site' = site
          /\ saver' = saver /\ vault' = vault /\ ~Ends(w)
      BY <2>3 DEF Pushes, Refreshes, Kept, SharedKept, SiteKept, VaultKept, Ends
    <3>. QED
      BY <2>0, <2>1, <2>2, <3>1
  <2>4. ASSUME NEW x \in Workflow \ {w}, Kept(w), Shape(x)
        PROVE  /\ site' = fresh'[w] => saver' = w
               /\ saver' = w => step'[w] \in Late \union Final
               /\ saver' = w /\ step'[w] \in Late /\ ~OutOfStep(w)' => site' = fresh'[w]
               /\ saver' = w /\ at'[w] = "sync" /\ ~OutOfStep(w)'
                    /\ (\A v \in Workflow \ {w} : ~trouble'[v]) => vault' = fresh'[w]
    <3>1. /\ step'[w] = step[w] /\ at'[w] = at[w] /\ fresh'[w] = fresh[w]
          /\ OutOfStep(w)' <=> OutOfStep(w)
      BY <2>4, KeptPipes DEF Kept
    <3>2. CASE Saves(x)
      <4>1. site' # fresh[w] /\ saver' # w
        BY <2>4, <3>2, SavesApart DEF Saves
      <4>. QED
        BY <3>1, <4>1
    <3>3. CASE site' = site /\ saver' = saver
      <4>1. ASSUME saver = w, at[w] = "sync", ~OutOfStep(w), \A v \in Workflow \ {w} : ~trouble'[v]
            PROVE  vault' = vault
        <5>. SUFFICES ASSUME at[x] = "put", vault' = fresh[x], Puts(x) \/ Fails(x) PROVE FALSE
          BY <2>4, VaultSteps
        <5>1. step[x] = "UpdateVault" /\ ~trouble[x] /\ ~trouble'[x]
          BY <2>1, <4>1, Places
        <5>2. tab[x].page = "saved"
          BY <5>1 DEF SavedRight
        <5>3. site = fresh[x]
          BY <5>1, <5>2 DEF SavedRight
        <5>. QED
          BY <4>1, <5>3 DEF Saver
      <4>. QED
        BY <2>0, <2>1, <3>1, <3>3, <4>1
    <3>. QED
      BY <2>4, <3>2, <3>3, SiteSteps
  <2>5. CASE Shape(w) /\ Saves(w)
    <3>1. /\ step'[w] = step[w] /\ at'[w] = at[w] /\ fresh'[w] = fresh[w] /\ saver' = w
               /\ ~Ends(w)
          /\ step[w] \in Late \union Final
      BY <2>5, SavesOwn DEF Saves, Runs, Ends
    <3>2. ~OutOfStep(w)' => step[w] = "ClickSave" /\ at[w] = "act" /\ site' = fresh[w]
      BY <2>2, <2>5, <3>1, SavesInStep
    <3>. QED
      BY <3>1, <3>2
  <2>6. CASE Shape(w) /\ site' = site /\ saver' = saver
    <3>1. site' = fresh'[w] => site = fresh[w]
      <4>1. site # made + 1
        BY Values
      <4>. QED
        BY <1>0, <2>6, <4>1, FreshSteps
    <3>2. saver = w => step[w] \in Late \union Final /\ step'[w] \in Late \union Final
      <4>1. step[w] \in Late \union Final => step'[w] \in Late \union Final
        BY <2>6, Places DEF Shape, Rests, Ends, Advances, Generates,
           Fails, Sends, Moves, Puts, Syncs,
           Runs, Refuses, Shoots, Types, Loads, Early
      <4>. QED
        BY <2>0, <4>1
    <3>3. ASSUME saver = w, step'[w] \in Late, ~OutOfStep(w)'
          PROVE  /\ ~OutOfStep(w) /\ step[w] \in Late /\ ~Ends(w) /\ fresh'[w] = fresh[w]
                 /\ site = fresh[w]
      <4>1. ~Ends(w) /\ ~Syncs(w)
        BY <3>3 DEF Ends, Syncs
      <4>2. ~Generates(w)
        BY <3>3 DEF Generates
      <4>3. fresh'[w] = fresh[w]
        BY <2>6, <4>1, <4>2, FreshSteps
      <4>4. step[w] \in Late
        BY <2>0, <2>6, <3>3, <4>1, <4>2
           DEF Shape, Rests, Advances, Fails, Sends, Moves, Puts, Runs, Refuses, Shoots, Types, Loads, Early
      <4>. QED
        BY <2>0, <2>2, <3>3, <4>1, <4>3, <4>4
    <3>4. ASSUME saver = w, at'[w] = "sync", ~OutOfStep(w)'
          PROVE  vault' = fresh'[w]
      <4>1. CASE Puts(w)
        BY <4>1 DEF Puts, OwnKept
      <4>2. CASE Runs(w) /\ ~Ends(w)
        <5>1. at[w] = "sync"
          BY <3>4, <4>2 DEF Runs
        <5>. QED
          BY <2>2, <3>4, <4>2, <5>1, RunsCurrent
      <4>3. ~Ends(w)
        BY <3>4 DEF Ends
      <4>. QED
        BY <2>6, <3>4, <4>1, <4>2, <4>3 DEF Shape, Rests, Begun, Advances,
           Generates, Fails, Sends, Moves, Syncs,
           Refuses, Shoots, Types, Loads
    <3>. QED
      BY <2>0, <2>6, <3>1, <3>2, <3>3, <3>4
  <2>. QED
    <3>1. Shape(w) => \/ Shape(w) /\ Saves(w)
                      \/ Shape(w) /\ site' = site /\ saver' = saver
      BY SiteSteps
    <3>. QED
      BY <2>3, <2>4, <2>5, <2>6, <3>1, OwnOrOther
<1>. QED
  BY <1>1, <1>2, Zenon DEF Saver

LEMMA PasswordStays ==
  ASSUME TypeOK, InPlace, Surplus, InStep, NewTyped, SaveTried, SavedRight, Saver, PasswordKept,
         [Next]_vars
  PROVE  PasswordKept'
<1>. SUFFICES ASSUME \A w \in Workflow : ~trouble'[w], site' # vault'
              PROVE  \E w \in Workflow : fresh'[w] = site'
  BY Zenon DEF PasswordKept
<1>1. \A w \in Workflow : ~trouble[w]
  BY OwnOrOther, TroubleStays
<1>2. CASE Pushes \/ Refreshes
  <2>1. site' = site /\ vault' = vault /\ \A w \in Workflow : fresh'[w] = fresh[w]
    BY <1>2 DEF Pushes, Refreshes, Kept, SharedKept, SiteKept, VaultKept
  <2>. QED
    BY <1>1, <2>1 DEF PasswordKept
<1>3. ASSUME NEW x \in Workflow, Shape(x), Others(x)
      PROVE  \E w \in Workflow : fresh'[w] = site'
  <2>0. \A w \in Workflow \ {x} : fresh'[w] = fresh[w]
    BY <1>3 DEF Others, Kept
  <2>1. CASE Saves(x)
    <3>1. step[x] = "ClickSave" /\ ~OutOfStep(x)
      BY <1>1, <2>1, SavesOwn
    <3>2. site' = fresh[x] /\ fresh'[x] = fresh[x]
      BY <2>1, <3>1, SavesInStep DEF Saves, Runs
    <3>. QED
      BY <3>2
  <2>2. CASE site' = site /\ vault' # vault
    <3>1. at[x] = "put" /\ vault' = fresh[x]
      BY <1>3, <2>2, VaultSteps
    <3>2. step[x] = "UpdateVault"
      BY <3>1, Places
    <3>3. tab[x].page = "saved"
      BY <1>1, <3>2 DEF SavedRight
    <3>4. site = fresh[x]
      BY <1>1, <3>1, <3>2, <3>3 DEF SavedRight
    <3>. QED
      BY <2>2, <3>1, <3>4
  <2>3. CASE site' = site /\ vault' = vault
    <3>1. PICK w \in Workflow : fresh[w] = site
      BY <1>1, <2>3 DEF PasswordKept
    <3>2. step[w] \in Late /\ saver = w
      BY <1>1, <3>1 DEF SavedRight, Saver
    <3>3. ASSUME w = x, fresh'[w] # fresh[w] PROVE FALSE
      <4>1. ~Ends(w) /\ ~Generates(w)
        BY <3>2 DEF Ends, Generates
      <4>2. Syncs(w)
        BY <1>3, <3>3, <4>1, FreshSteps
      <4>3. at[w] = "sync" /\ step[w] = "UpdateVault"
        BY <4>2, Places DEF Syncs
      <4>4. ~OutOfStep(w)
        BY <1>1, <4>3 DEF SaveTried
      <4>5. vault = fresh[w]
        BY <1>1, <3>2, <4>3, <4>4, Zenon DEF Saver
      <4>. QED
        BY <2>3, <3>1, <4>5
    <3>. QED
      BY <2>0, <2>3, <3>1, <3>3
  <2>. QED
    BY <1>3, <2>1, <2>2, <2>3, SiteSteps
<1>. QED
  BY <1>2, <1>3, StepShapes

-----------------------------------------------------------------------------
LEMMA RotationInit ==
  ASSUME Init
  PROVE  RotationInv
<1>0. QueueInv
  BY QueueInit
<1>1. /\ \A w \in Workflow : /\ inbox[w] = <<>> /\ outbox[w] = <<>>
           /\ step[w] = "NavigateToLogin"
                             /\ at[w] \in {"idle", "over"} /\ fresh[w] = 0 /\ value[w] = 0
                             /\ tab[w].page = "blank" /\ \A f \in Field : tab[w].typed[f] = 0
      /\ site = 1 /\ vault = 1 /\ saver = None /\ made = 1
  BY DEF Init, Blank
<1>2. \A w \in Workflow : ~OutOfStep(w)
  <2>1. ASSUME NEW w \in Workflow PROVE InPipes(w) = 0 /\ Awaited(w) = 0
    <3>1. inbox[w] = <<>> /\ outbox[w] = <<>> /\ at[w] \notin {"shot", "act", "type"}
      BY <1>1
    <3>2. Len(inbox[w]) = 0 /\ Len(outbox[w]) = 0
      BY <3>1
    <3>. QED
      BY <3>1, <3>2 DEF InPipes, Awaited
  <2>. QED
    BY <2>1 DEF OutOfStep
<1>3. InStep /\ FreshOnes
  BY <1>1 DEF InStep, FreshOnes
<1>4. Secret /\ NewOnesOwn
  BY <1>1, Zenon DEF Secret, NewOnesOwn
<1>5. NewTyped /\ SaveTried
  BY <1>1, <1>2 DEF NewTyped, SaveTried
<1>6. SavedRight
  BY <1>1 DEF SavedRight
<1>7. Saver
  BY <1>1 DEF Saver
<1>8. PasswordKept
  BY <1>1 DEF PasswordKept
<1>. QED
  BY <1>3, <1>4, <1>5, <1>6, <1>7, <1>8 DEF RotationInv

LEMMA RotationKept ==
  ASSUME QueueInv, RotationInv, [Next]_vars
  PROVE  RotationInv'
<1>1. /\ TypeOK /\ InPlace /\ Surplus /\ InPlace'
      /\ InStep /\ FreshOnes /\ Secret /\ NewOnesOwn /\ NewTyped /\ SaveTried /\ SavedRight
      /\ Saver /\ PasswordKept
  BY QueueKept DEF QueueInv, RotationInv
<1>2. InStep' /\ FreshOnes' /\ Secret' /\ NewOnesOwn' /\ NewTyped' /\ SaveTried'
  BY <1>1, InStepKept, FreshOnesKept, SecretKept, NewOnesOwnKept, NewTypedKept,
     SaveTriedKept
<1>3. Saver' /\ site # 0 /\ site' # 0
  BY <1>1, SaverKept DEF Saver
<1>4. SavedRight'
  BY <1>1, <1>3, SavedRightKept
<1>5. PasswordKept'
  BY <1>1, PasswordStays
<1>. QED
  BY <1>2, <1>3, <1>4, <1>5 DEF RotationInv

\* The invariant behind the password, with any number of workflows and faults.
THEOREM RotationSound == Spec => []RotationInv
<1>1. Init => QueueInv /\ RotationInv
  BY QueueInit, RotationInit
<1>2. QueueInv /\ RotationInv /\ [Next]_vars => (QueueInv /\ RotationInv)'
  BY QueueKept, RotationKept
<1>. QED
  BY <1>1, <1>2, PTL DEF Spec

\* The password of the site is known as long as no attempt has failed from ClickSave on.
THEOREM PasswordIsKept == Spec => []PasswordKept
<1>1. RotationInv => PasswordKept
  BY DEF RotationInv
<1>. QED
  BY <1>1, RotationSound, PTL

\* A workflow that succeeds in step has stored the password of the site.
THEOREM SuccessHolds == Spec => SuccessIsTrue
<1>. DEFINE True == \A w \in Workflow :
              /\ step[w] # "Done" /\ step'[w] = "Done" /\ ~OutOfStep(w)
              /\ saver = w /\ \A v \in Workflow \ {w} : ~trouble[v]
              => vault' = site'
<1>1. ASSUME QueueInv, RotationInv, [Next]_vars
      PROVE  True
  <2>0. TypeOK /\ InPlace /\ Surplus /\ Saver
    BY <1>1 DEF QueueInv, RotationInv
  <2>1. ASSUME NEW w \in Workflow, step[w] # "Done", step'[w] = "Done", ~OutOfStep(w), saver = w,
               \A v \in Workflow \ {w} : ~trouble[v]
        PROVE  vault' = site'
    <3>1. ~Kept(w) /\ ~Pushes
      BY <2>1 DEF Kept, Pushes
    <3>0. Shape(w)
      BY <1>1, <2>0, <3>1, OwnOrOther
    <3>2. Syncs(w)
      BY <2>1, <3>0
         DEF Shape, Rests, Ends, Advances, Generates, Fails, Sends, Moves, Puts, Runs, Refuses, Shoots,
             Types, Loads, Early
    <3>3. at[w] = "sync" /\ step[w] = "UpdateVault" /\ vault' = vault /\ site' = site
      BY <2>0, <3>2, Places DEF Syncs, SiteKept
    <3>4. vault = fresh[w] /\ site = fresh[w]
      BY <2>0, <2>1, <3>3, Zenon DEF Saver
    <3>. QED
      BY <3>3, <3>4
  <2>. QED
    BY <2>1
<1>2. QueueInv /\ RotationInv /\ [Next]_vars => [True]_vars
  BY <1>1
<1>. QED
  BY <1>2, QueueSound, RotationSound, PTL DEF Spec, SuccessIsTrue
=============================================================================
