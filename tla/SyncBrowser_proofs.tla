-------------------------- MODULE SyncBrowser_proofs --------------------------
(***************************************************************************)
(* Theorems about SyncBrowser, for any number of tabs, and about SyncJob,  *)
(* its server.                                                             *)
(***************************************************************************)
EXTENDS SyncBrowser, TLAPS

(* What /sync/wait and the pages of a conflict may rely on: a job does     *)
(* something only while it runs, it goes a way only in its transfer, a     *)
(* direction is there only in a conflict, and an expired login only with   *)
(* the error it has caused.                                                *)
JobConsistent ==
    /\ JobTypeOK
    /\ stage # "none" <=> job = "running"
    /\ going # "none" <=> stage = "transfer"
    /\ direction # "none" => job = "conflict"
    /\ expired => job = "error"

LEMMA JobStep ==
    ASSUME JobConsistent, [Next]_jobVars
    PROVE  JobConsistent'
<1> USE DEF JobConsistent, JobTypeOK, Jobs, Stages, Directions, Choice, Goto, jobVars
<1>1. CASE Start
  BY <1>1 DEF Start
<1>2. CASE Ask
  BY <1>2 DEF Ask
<1>3. CASE Cancel
  BY <1>3 DEF Cancel
<1>4. CASE Confirm
  BY <1>4 DEF Confirm
<1>5. CASE Media
  BY <1>5 DEF Media
<1>6. CASE Finish
  BY <1>6 DEF Finish
<1>7. CASE Fail
  BY <1>7 DEF Fail
<1>8. CASE Login
  BY <1>8 DEF Login
<1>9. CASE Restart
  BY <1>9 DEF Restart
<1>10. ASSUME NEW choice \in Directions, Choose(choice)
       PROVE  JobConsistent'
  BY <1>10 DEF Choose
<1>11. CASE UNCHANGED jobVars
  BY <1>11
<1>12. QED
  BY <1>1, <1>2, <1>3, <1>4, <1>5, <1>6, <1>7, <1>8, <1>9, <1>10, <1>11 DEF Next

(* Every implementation of SyncJob, SyncFlow among them, keeps a consistent*)
(* job.                                                                    *)
THEOREM AlwaysJobConsistent == Init /\ [][Next]_jobVars => []JobConsistent
<1>1. Init => JobConsistent
  BY DEF Init, JobConsistent, JobTypeOK, Jobs, Stages, Directions, Choice
<1>2. QED
  BY <1>1, JobStep, PTL

-----------------------------------------------------------------------------
(* What a form on its way says: a confirmation carries the direction of    *)
(* the page that is still on the screen, and a choice is one the page of   *)
(* the conflict offers.                                                    *)
FormsSayWhatIsShown ==
    \A t \in Tab :
        /\ page[t] = "confirm" => shown[t] \in Directions
        /\ goes[t] = "POST /sync/full" => page[t] = "confirm" /\ carries[t] = shown[t]
        /\ goes[t] = "POST /sync/conflict" => carries[t] \in Directions \cup {"cancel"}

TabsOK ==
    /\ page \in [Tab -> Shown]
    /\ shown \in [Tab -> Choice]
    /\ goes \in [Tab -> Links \cup Forms \cup {"none"}]
    /\ carries \in [Tab -> Choice \cup {"cancel"}]
    /\ FormsSayWhatIsShown

(* A redirect sends no form; a page of a confirmation names a direction; a *)
(* form is sent from its page.                                             *)
LEMMA RedirectTabs ==
    ASSUME TabsOK, NEW t \in Tab, NEW url \in Links \cup {"limiter"}, Redirect(t, url)
    PROVE  TabsOK'
<1>1. url # "POST /sync/full" /\ url # "POST /sync/conflict"
  BY DEF Links
<1>2. url \in Links \cup Forms
  BY DEF Forms
<1>3. QED
  BY <1>1, <1>2 DEF Redirect, TabsOK, FormsSayWhatIsShown, Choice

LEMMA RenderTabs ==
    ASSUME TabsOK, NEW t \in Tab, NEW what \in Shown, NEW choice \in Choice,
           what = "confirm" => choice \in Directions, Render(t, what, choice)
    PROVE  TabsOK'
BY DEF Render, TabsOK, FormsSayWhatIsShown, Choice

LEMMA SendTabs ==
    ASSUME TabsOK, NEW t \in Tab, NEW url \in Links \cup Forms,
           NEW choice \in Choice \cup {"cancel"}, Send(t, url, choice),
           url = "POST /sync/full" => page[t] = "confirm" /\ choice = shown[t],
           url = "POST /sync/conflict" => choice \in Directions \cup {"cancel"}
    PROVE  TabsOK'
BY DEF Send, TabsOK, FormsSayWhatIsShown

(* What a page may ask for.                                                *)
LEMMA ServeTabs ==
    ASSUME TabsOK, JobConsistent, NEW t \in Tab, Serve(t)
    PROVE  TabsOK'
<1> USE RedirectTabs, RenderTabs DEF Links, Shown, Waiting, Choice
<1>1. CASE Home(t)
  BY <1>1 DEF Home
<1>2. CASE LoginGet(t)
  BY <1>2 DEF LoginGet
<1>3. CASE LoginPost(t)
  BY <1>3 DEF LoginPost
<1>4. CASE LogoutPost(t)
  BY <1>4 DEF LogoutPost
<1>5. CASE SyncPost(t)
  BY <1>5 DEF SyncPost
<1>6. CASE SyncPostLimited(t)
  BY <1>6 DEF SyncPostLimited
<1>7. CASE SyncPostAllowed(t)
  BY <1>7 DEF SyncPostAllowed, ToConflict
<1>8. CASE SyncWaitGet(t)
  BY <1>8 DEF SyncWaitGet, WaitPage, ToConflict, JobConsistent, JobTypeOK, Jobs
<1>9. CASE SyncConflictGet(t)
  BY <1>9 DEF SyncConflictGet
<1>10. CASE SyncConflictPost(t)
  BY <1>10 DEF SyncConflictPost
<1>11. CASE SyncFullConfirmGet(t)
  BY <1>11 DEF SyncFullConfirmGet, JobConsistent, JobTypeOK
<1>12. CASE SyncFullPost(t)
  BY <1>12 DEF SyncFullPost
<1>13. QED
  BY <1>1, <1>2, <1>3, <1>4, <1>5, <1>6, <1>7, <1>8, <1>9, <1>10, <1>11, <1>12 DEF Serve

LEMMA UserTabs ==
    ASSUME TabsOK, NEW t \in Tab, Refresh(t) \/ Click(t) \/ Answer(t)
    PROVE  TabsOK'
<1> USE SendTabs DEF Links, Forms, Choice, Directions
<1>1. CASE Refresh(t)
  BY <1>1 DEF Refresh
<1>2. shown[t] \in Choice
  BY DEF TabsOK
<1>3. CASE Click(t)
  BY <1>2, <1>3 DEF Click, Button
<1>4. CASE Answer(t)
  BY <1>2, <1>4 DEF Answer
<1>5. QED
  BY <1>1, <1>3, <1>4

LEMMA RestartTabs ==
    ASSUME TabsOK, ServerRestart
    PROVE  TabsOK'
BY DEF ServerRestart, TabsOK, FormsSayWhatIsShown, Shown, Choice

-----------------------------------------------------------------------------
(* What a step of the pages does to the server: nothing, or what SyncJob   *)
(* allows; and a transfer begins only with the direction on the page of    *)
(* the tab that confirms it.                                               *)
Confirms(t) ==
    /\ page[t] = "confirm" /\ cookie /\ key
    /\ confirmed' = shown[t] /\ going' = shown[t]

ServerEffect ==
    /\ [Next]_jobVars
    /\ \/ stage' = "transfer" => stage = "transfer" /\ UNCHANGED <<going, confirmed>>
       \/ \E t \in Tab : Confirms(t)

LEMMA ServeEffect ==
    ASSUME TabsOK, NEW t \in Tab, Serve(t)
    PROVE  ServerEffect
<1> USE DEF ServerEffect, jobVars, serverVars, observers
<1>1. CASE UNCHANGED <<jobVars, confirmed>>
  BY <1>1
<1>2. CASE LoginPost(t)
  BY <1>2 DEF LoginPost, Login, Next
<1>3. CASE SyncPostAllowed(t)
  <2>1. CASE Start
    BY <2>1 DEF Start, Goto, Next
  <2>2. QED
    BY <1>1, <1>3, <2>1 DEF SyncPostAllowed
<1>4. CASE SyncConflictPost(t)
  <2>1. CASE Cancel
    BY <2>1 DEF Cancel, Goto, Next
  <2>2. CASE carries[t] # "cancel" /\ Choose(carries[t])
    <3>1. carries[t] \in Directions
      BY <1>4, <2>2 DEF SyncConflictPost, Asked, TabsOK, FormsSayWhatIsShown
    <3>2. Next
      BY <2>2, <3>1 DEF Next
    <3>3. QED
      BY <1>4, <2>2, <3>2 DEF Choose, SyncConflictPost
  <2>3. QED
    BY <1>1, <1>4, <2>1, <2>2 DEF SyncConflictPost
<1>5. CASE SyncFullPost(t)
  <2>1. CASE Cancel
    BY <2>1 DEF Cancel, Goto, Next
  <2>2. CASE Matches(t) /\ Confirm /\ confirmed' = shown[t]
    <3>1. page[t] = "confirm" /\ carries[t] = shown[t]
      BY <1>5 DEF SyncFullPost, Asked, TabsOK, FormsSayWhatIsShown
    <3>2. Confirms(t)
      BY <2>2, <3>1 DEF Confirms, Matches, Confirm
    <3>3. QED
      BY <2>2, <3>2 DEF Next
  <2>3. QED
    BY <1>1, <1>5, <2>1, <2>2 DEF SyncFullPost
<1>6. CASE Home(t) \/ LoginGet(t) \/ LogoutPost(t) \/ SyncPost(t) \/ SyncPostLimited(t)
  BY <1>1, <1>6 DEF Home, LoginGet, LogoutPost, SyncPost, SyncPostLimited, Looks
<1>7. CASE SyncWaitGet(t) \/ SyncConflictGet(t) \/ SyncFullConfirmGet(t)
  BY <1>1, <1>7 DEF SyncWaitGet, SyncConflictGet, SyncFullConfirmGet, Looks
<1>8. QED
  BY <1>2, <1>3, <1>4, <1>5, <1>6, <1>7 DEF Serve

LEMMA StepEffect ==
    ASSUME TabsOK, [BrowserNext]_browserVars
    PROVE  ServerEffect
<1> USE DEF ServerEffect, jobVars
<1>1. ASSUME NEW t \in Tab, Serve(t) PROVE ServerEffect
  BY <1>1, ServeEffect
<1>2. ASSUME NEW t \in Tab, Refresh(t) \/ Click(t) \/ Answer(t) PROVE ServerEffect
  <2>1. PICK url, choice : Send(t, url, choice)
    BY <1>2 DEF Refresh, Click, Button, Answer
  <2>2. QED
    BY <2>1 DEF Send, serverVars, observers
<1>3. CASE Background
  BY <1>3 DEF Background, Next, Ask, Media, Finish, Fail, Goto
<1>4. CASE ServerRestart
  BY <1>4 DEF ServerRestart, Next, Restart, Goto
<1>5. CASE UNCHANGED browserVars
  BY <1>5 DEF browserVars, observers
<1>6. QED
  BY <1>1, <1>2, <1>3, <1>4, <1>5 DEF BrowserNext

-----------------------------------------------------------------------------
(* The cookie, the observers and the bound.                                *)
RestOK ==
    /\ cookie \in BOOLEAN
    /\ demanded \in Choice /\ confirmed \in Choice
    /\ clicks \in 0 .. MaxClicks

LEMMA CountsOK ==
    ASSUME RestOK, Counts
    PROVE  clicks' \in 0 .. MaxClicks
BY MaxClicksAssumption DEF RestOK, Counts

LEMMA ServeRest ==
    ASSUME RestOK, TabsOK, NEW t \in Tab, Serve(t)
    PROVE  RestOK'
<1> USE DEF RestOK, observers, serverVars
<1>1. CASE UNCHANGED <<cookie, demanded, confirmed, clicks>>
  BY <1>1
<1>2. CASE LoginPost(t) \/ LogoutPost(t)
  BY <1>2 DEF LoginPost, LogoutPost
<1>3. CASE SyncPostLimited(t)
  BY <1>3, CountsOK DEF SyncPostLimited
<1>4. CASE SyncPostAllowed(t)
  BY <1>1, <1>4 DEF SyncPostAllowed
<1>5. CASE SyncConflictPost(t)
  <2>1. demanded' \in Choice
    BY <1>5 DEF SyncConflictPost, Choice
  <2>2. QED
    BY <1>5, <2>1 DEF SyncConflictPost
<1>6. CASE SyncFullPost(t)
  <2>1. demanded' \in Choice
    BY <1>6 DEF SyncFullPost, Choice
  <2>2. confirmed' \in Choice
    BY <1>6 DEF SyncFullPost, TabsOK
  <2>3. QED
    BY <1>6, <2>1, <2>2 DEF SyncFullPost
<1>7. CASE Home(t) \/ LoginGet(t) \/ SyncPost(t)
  BY <1>1, <1>7 DEF Home, LoginGet, SyncPost, Looks
<1>8. CASE SyncWaitGet(t) \/ SyncConflictGet(t) \/ SyncFullConfirmGet(t)
  BY <1>1, <1>8 DEF SyncWaitGet, SyncConflictGet, SyncFullConfirmGet, Looks
<1>9. QED
  BY <1>2, <1>3, <1>4, <1>5, <1>6, <1>7, <1>8 DEF Serve

LEMMA RestStep ==
    ASSUME RestOK, TabsOK, [BrowserNext]_browserVars
    PROVE  RestOK'
<1> USE DEF RestOK, observers, serverVars
<1>1. ASSUME NEW t \in Tab, Serve(t) PROVE RestOK'
  BY <1>1, ServeRest
<1>2. ASSUME NEW t \in Tab, Refresh(t) \/ Click(t) \/ Answer(t) PROVE RestOK'
  <2>1. PICK url, choice : Send(t, url, choice)
    BY <1>2 DEF Refresh, Click, Button, Answer
  <2>2. UNCHANGED <<cookie, demanded, confirmed>>
    BY <2>1 DEF Send
  <2>3. UNCHANGED clicks \/ Counts
    BY <1>2 DEF Refresh, Click, Answer
  <2>4. QED
    BY <2>2, <2>3, CountsOK
<1>3. CASE Background
  BY <1>3 DEF Background, Ask
<1>4. CASE ServerRestart
  BY <1>4, CountsOK DEF ServerRestart, Choice
<1>5. CASE UNCHANGED browserVars
  BY <1>5 DEF browserVars
<1>6. QED
  BY <1>1, <1>2, <1>3, <1>4, <1>5 DEF BrowserNext

-----------------------------------------------------------------------------
BrowserInv == TabsOK /\ JobConsistent /\ ConfirmedAsShown /\ RestOK

LEMMA BrowserStep == BrowserInv /\ [BrowserNext]_browserVars => BrowserInv'
<1> SUFFICES ASSUME BrowserInv, [BrowserNext]_browserVars PROVE BrowserInv'
  OBVIOUS
<1>1. TabsOK /\ JobConsistent /\ ConfirmedAsShown
  BY DEF BrowserInv
<1>2. ServerEffect
  BY <1>1, StepEffect
<1>3. JobConsistent'
  BY <1>1, <1>2, JobStep, Zenon DEF ServerEffect
<1>4. TabsOK'
  <2>1. CASE UNCHANGED tabs
    BY <1>1, <2>1 DEF tabs, TabsOK, FormsSayWhatIsShown
  <2>2. CASE Background \/ UNCHANGED browserVars
    BY <2>1, <2>2 DEF Background, browserVars
  <2>3. QED
    BY <1>1, <2>2, ServeTabs, UserTabs, RestartTabs DEF BrowserNext
<1>5. ConfirmedAsShown'
  BY <1>1, <1>2 DEF ServerEffect, Confirms, ConfirmedAsShown
<1>6. QED
  BY <1>3, <1>4, <1>5, RestStep DEF BrowserInv

LEMMA BrowserInitInv == BrowserInit => BrowserInv
<1> SUFFICES ASSUME BrowserInit PROVE BrowserInv
  OBVIOUS
<1>1. JobConsistent /\ cookie \in BOOLEAN
  BY DEF BrowserInit, Init, JobConsistent, JobTypeOK, Jobs, Stages, Directions, Choice
<1>2. TabsOK
  BY DEF BrowserInit, TabsOK, FormsSayWhatIsShown, Shown, Choice
<1>3. RestOK /\ ConfirmedAsShown
  BY <1>1, MaxClicksAssumption DEF BrowserInit, Init, RestOK, ConfirmedAsShown, Choice
<1>4. QED
  BY <1>1, <1>2, <1>3 DEF BrowserInv

LEMMA BrowserInductiveInv == BrowserSpec => []BrowserInv
BY BrowserInitInv, BrowserStep, PTL DEF BrowserSpec

(* Every variable keeps its type.                                          *)
THEOREM BrowserTypeCorrect == BrowserSpec => []BrowserTypeOK
<1>1. BrowserInv => BrowserTypeOK
  BY DEF BrowserInv, TabsOK, JobConsistent, RestOK, BrowserTypeOK
<1>2. QED
  BY BrowserInductiveInv, <1>1, PTL

(* A running transfer goes the way the page said that the user confirmed   *)
(* last, and the way the conflict was last decided, in whichever tab.      *)
THEOREM AlwaysConfirmedAsShown == BrowserSpec => []ConfirmedAsShown
BY BrowserInductiveInv, PTL DEF BrowserInv

(* No page, new or left open, makes the server do what SyncJob does not    *)
(* allow.                                                                  *)
THEOREM PagesKeepTheJob == BrowserSpec => Init /\ [][Next]_jobVars
<1>1. BrowserInit => Init
  BY DEF BrowserInit
<1>2. BrowserInv /\ [BrowserNext]_browserVars => [Next]_jobVars
  BY StepEffect DEF BrowserInv, ServerEffect
<1>3. QED
  BY BrowserInductiveInv, <1>1, <1>2, PTL DEF BrowserSpec

(* A transfer begins only in a step of a signed-in browser whose tab shows *)
(* the confirmation of that very direction, and with a hostKey.            *)
BeginsConfirmed ==
    stage # "transfer" /\ stage' = "transfer" => \E t \in Tab : Confirms(t)

THEOREM TransfersAreConfirmed == BrowserSpec => [][BeginsConfirmed]_browserVars
<1>1. BrowserInv /\ [BrowserNext]_browserVars => [BeginsConfirmed]_browserVars
  BY StepEffect DEF BrowserInv, ServerEffect, BeginsConfirmed
<1>2. QED
  BY BrowserInductiveInv, <1>1, PTL DEF BrowserSpec
=============================================================================
