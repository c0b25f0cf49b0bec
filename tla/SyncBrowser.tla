----------------------------- MODULE SyncBrowser -----------------------------
(***************************************************************************)
(* The pages around a synchronisation: what a browser with several tabs    *)
(* makes of the redirects of web/routes/sync.py and web/routes/auth.py, of *)
(* the refreshes in the templates, and of pages that were left open.       *)
(*                                                                         *)
(* The server side is SyncJob, the job that SyncFlow was shown to be.  A   *)
(* tab shows a page and may have a request on its way; a redirect is a     *)
(* request the browser sends by itself.  One account is signed in or out;  *)
(* the tabs share its cookie.                                              *)
(*                                                                         *)
(* Left out: the loading page of home (HomeStats), refused logins          *)
(* (LoginLimiter), tokens of forms (SignIn), a second click while a page   *)
(* loads.  A tab left open stands for the Back key of the browser.         *)
(***************************************************************************)
EXTENDS SyncJob, Naturals

CONSTANTS
    Tab,
    MaxClicks   \* bound: clicks that answer no question, refusals, restarts

ASSUME MaxClicksAssumption == MaxClicks \in Nat

VARIABLES
    cookie,     \* the browser is signed in
    page,       \* what each tab shows
    shown,      \* the direction in the form of its page
    goes,       \* the URL it has asked for
    carries,    \* the direction in the form it has sent
    demanded,   \* observer: the direction AnkiWeb left the user with
    confirmed,  \* observer: the direction on the page the user confirmed last
    clicks      \* bound

observers == <<demanded, confirmed>>
tabs      == <<page, shown, goes, carries>>
browserVars == <<jobVars, cookie, tabs, observers, clicks>>

Waiting    == {"running", "done"}     \* pages that refresh themselves
Shown      == Waiting \cup {"home", "landing", "login", "error", "conflict",
                            "confirm", "unreachable"}
Links      == {"/", "/login", "/login?reason=auth_expired", "/sync/wait",
               "/sync/conflict", "/sync/full/confirm"}
Forms      == {"POST /login", "POST /logout", "POST /sync", "limiter",
               "POST /sync/conflict", "POST /sync/full"}

BrowserTypeOK ==
    /\ JobTypeOK
    /\ cookie \in BOOLEAN
    /\ page \in [Tab -> Shown]
    /\ shown \in [Tab -> Choice]
    /\ goes \in [Tab -> Links \cup Forms \cup {"none"}]
    /\ carries \in [Tab -> Choice \cup {"cancel"}]
    /\ demanded \in Choice
    /\ confirmed \in Choice
    /\ clicks \in 0 .. MaxClicks

BrowserInit ==
    /\ Init
    /\ cookie \in {FALSE, key}
    /\ page = [t \in Tab |-> IF cookie THEN "home" ELSE "landing"]
    /\ shown = [t \in Tab |-> "none"]
    /\ goes = [t \in Tab |-> "none"]
    /\ carries = [t \in Tab |-> "none"]
    /\ demanded = "none"
    /\ confirmed = "none"
    /\ clicks = 0

-----------------------------------------------------------------------------
(* What the server answers to the request of a tab.                        *)

Asked(t, url) == goes[t] = url

Redirect(t, url) ==
    /\ goes' = [goes EXCEPT ![t] = url]
    /\ carries' = [carries EXCEPT ![t] = "none"]
    /\ UNCHANGED <<page, shown>>

Render(t, what, choice) ==
    /\ page' = [page EXCEPT ![t] = what]
    /\ shown' = [shown EXCEPT ![t] = choice]
    /\ goes' = [goes EXCEPT ![t] = "none"]
    /\ carries' = [carries EXCEPT ![t] = "none"]

serverVars == <<jobVars, cookie>>

(* A handler that only looks. *)
Looks == UNCHANGED <<serverVars, observers, clicks>>

Home_KeyRequired(t) ==
    /\ Asked(t, "/") /\ Looks
    /\ IF cookie /\ ~key THEN Redirect(t, "/login?reason=auth_expired")
       ELSE Render(t, IF cookie THEN "home" ELSE "landing", "none")

Home(t) ==
    /\ Asked(t, "/") /\ Looks
    /\ Render(t, IF cookie THEN "home" ELSE "landing", "none")

(* Who has a cookie is sent home, whatever the reason. *)
LoginGet(t) ==
    /\ goes[t] \in {"/login", "/login?reason=auth_expired"} /\ Looks
    /\ IF cookie THEN Redirect(t, "/") ELSE Render(t, "login", "none")

LoginPost(t) ==
    /\ Asked(t, "POST /login")
    /\ Login
    /\ cookie' = TRUE
    /\ Redirect(t, "/")
    /\ UNCHANGED <<observers, clicks>>

LogoutPost(t) ==
    /\ Asked(t, "POST /logout")
    /\ cookie' = FALSE
    /\ Redirect(t, "/login")
    /\ UNCHANGED <<jobVars, observers, clicks>>

(* Where the user can answer the conflict.                                 *)
ToConflict(t) ==
    Redirect(t, IF direction = "none" THEN "/sync/conflict" ELSE "/sync/full/confirm")

(* The hostKey is read before the limiter is awaited.                      *)
SyncPost(t) ==
    /\ Asked(t, "POST /sync") /\ Looks
    /\ Redirect(t, IF ~cookie THEN "/login"
                   ELSE IF ~key THEN "/login?reason=auth_expired" ELSE "limiter")

Counts == clicks < MaxClicks /\ clicks' = clicks + 1

SyncPostLimited(t) ==
    /\ Asked(t, "limiter") /\ Counts
    /\ Redirect(t, "/")
    /\ UNCHANGED <<serverVars, observers>>

SyncPostAllowed(t) ==
    /\ Asked(t, "limiter")
    /\ \/ job = "running" /\ Redirect(t, "/sync/wait") /\ UNCHANGED jobVars
       \/ job = "conflict" /\ ToConflict(t) /\ UNCHANGED jobVars
       \/ Start /\ Redirect(t, "/sync/wait")
    /\ UNCHANGED <<cookie, observers, clicks>>

WaitPage_ErrorsRefresh(t) ==
    CASE job = "conflict" -> ToConflict(t)
      [] job = "idle" -> Redirect(t, "/")
      [] job = "done" -> Render(t, "done", "none")
      [] OTHER -> Render(t, "running", "none")

WaitPage(t) ==
    CASE job = "conflict" -> ToConflict(t)
      [] job = "error" /\ expired -> Redirect(t, "/login?reason=auth_expired")
      [] job = "idle" -> Redirect(t, "/")
      [] OTHER -> Render(t, job, "none")

SyncWaitGet(t) ==
    /\ Asked(t, "/sync/wait") /\ Looks
    /\ IF cookie THEN WaitPage(t) ELSE Redirect(t, "/login")

SyncConflictGet_ConfirmsFirst(t) ==
    /\ Asked(t, "/sync/conflict") /\ Looks
    /\ CASE ~cookie -> Redirect(t, "/login")
         [] cookie /\ job # "conflict" -> Redirect(t, "/")
         [] OTHER -> Redirect(t, "/sync/full/confirm")

SyncConflictGet(t) ==
    /\ Asked(t, "/sync/conflict") /\ Looks
    /\ CASE ~cookie -> Redirect(t, "/login")
         [] cookie /\ job # "conflict" -> Redirect(t, "/")
         [] cookie /\ job = "conflict" /\ direction # "none" -> Redirect(t, "/sync/full/confirm")
         [] OTHER -> Render(t, "conflict", "none")

SyncConflictPost(t) ==
    /\ Asked(t, "POST /sync/conflict")
    /\ \/ /\ ~cookie \/ job # "conflict"
          /\ Redirect(t, IF cookie THEN "/" ELSE "/login")
          /\ UNCHANGED <<jobVars, demanded>>
       \/ /\ cookie /\ carries[t] = "cancel"
          /\ Cancel /\ demanded' = "none"
          /\ Redirect(t, "/")
       \/ /\ cookie /\ carries[t] # "cancel"
          /\ Choose(carries[t]) /\ UNCHANGED demanded
          /\ Redirect(t, "/sync/full/confirm")
    /\ UNCHANGED <<cookie, confirmed, clicks>>

SyncFullConfirmGet(t) ==
    /\ Asked(t, "/sync/full/confirm") /\ Looks
    /\ CASE ~cookie -> Redirect(t, "/login")
         [] cookie /\ (job # "conflict" \/ direction = "none") -> Redirect(t, "/")
         [] OTHER -> Render(t, "confirm", direction)

Matches_AnyDirection(t) == cookie /\ job = "conflict" /\ direction # "none"

Matches(t) == cookie /\ job = "conflict" /\ carries[t] = direction

SyncFullPost(t) ==
    /\ Asked(t, "POST /sync/full")
    /\ \/ /\ ~Matches(t)
          /\ Redirect(t, IF cookie THEN "/" ELSE "/login")
          /\ UNCHANGED <<jobVars, observers>>
       \/ /\ Matches(t) /\ ~key
          /\ Cancel /\ demanded' = "none"
          /\ Redirect(t, "/login?reason=auth_expired")
          /\ UNCHANGED confirmed
       \/ /\ Matches(t)
          /\ Confirm /\ demanded' = "none"
          /\ confirmed' = shown[t]
          /\ Redirect(t, "/sync/wait")
    /\ UNCHANGED <<cookie, clicks>>

Serve(t) ==
    \/ Home(t)     \/ LoginGet(t)        \/ LoginPost(t)       \/ LogoutPost(t)
    \/ SyncPost(t) \/ SyncPostLimited(t) \/ SyncPostAllowed(t) \/ SyncWaitGet(t)
    \/ SyncConflictGet(t)    \/ SyncConflictPost(t)
    \/ SyncFullConfirmGet(t) \/ SyncFullPost(t)

-----------------------------------------------------------------------------
(* The background tasks.                                                   *)

Background ==
    /\ \/ Ask /\ demanded' = direction'
       \/ (Media \/ Finish \/ Fail) /\ UNCHANGED demanded
    /\ UNCHANGED <<cookie, tabs, confirmed, clicks>>

(* The state in memory is gone, and the browser shows that the requests on *)
(* their way were not answered.                                            *)
ServerRestart ==
    /\ Restart /\ Counts
    /\ demanded' = "none"
    /\ page' = [t \in Tab |-> IF goes[t] = "none" THEN page[t] ELSE "unreachable"]
    /\ goes' = [t \in Tab |-> "none"]
    /\ carries' = [t \in Tab |-> "none"]
    /\ UNCHANGED <<cookie, shown, confirmed>>

-----------------------------------------------------------------------------
(* The browser and its user.                                               *)

Send(t, url, choice) ==
    /\ goes[t] = "none"
    /\ goes' = [goes EXCEPT ![t] = url]
    /\ carries' = [carries EXCEPT ![t] = choice]
    /\ UNCHANGED <<serverVars, observers, page, shown>>

(* sync_wait.html: every two seconds; after a second from "Done".          *)
Refresh(t) ==
    /\ page[t] \in Waiting
    /\ Send(t, IF page[t] = "done" THEN "/" ELSE "/sync/wait", "none")
    /\ UNCHANGED clicks

(* The buttons and links of the pages, with what is on every page.         *)
Button(t) ==
    \/ page[t] \in {"home", "conflict", "confirm"} /\ Send(t, "POST /sync", "none")
    \/ page[t] = "home" /\ Send(t, "POST /logout", "none")
    \/ page[t] = "landing" /\ Send(t, "/login", "none")
    \/ page[t] = "login" /\ Send(t, "POST /login", "none")
    \/ page[t] = "conflict" /\ \E c \in Directions \cup {"cancel"} :
          Send(t, "POST /sync/conflict", c)
    \/ page[t] = "confirm" /\ Send(t, "POST /sync/full", shown[t])
    \/ page[t] = "confirm" /\ Send(t, "/sync/conflict", "none")
    \/ Send(t, "/", "none")

Click(t) == Counts /\ Button(t)

(* A user who wants to be done with a conflict.  On the page home, without *)
(* a hostKey, Sync leads home again: the user has to sign out first.       *)
Answer(t) ==
    /\ job = "conflict"
    /\ \/ page[t] = "home" /\ key /\ Send(t, "POST /sync", "none")
       \/ page[t] = "home" /\ ~key /\ Send(t, "POST /logout", "none")
       \/ page[t] = "landing" /\ Send(t, "/login", "none")
       \/ page[t] = "login" /\ Send(t, "POST /login", "none")
       \/ page[t] = "conflict" /\ \E c \in Directions : Send(t, "POST /sync/conflict", c)
       \/ page[t] = "confirm" /\ Send(t, "POST /sync/full", shown[t])
       \/ page[t] \in {"error", "unreachable"} /\ Send(t, "/", "none")
    /\ UNCHANGED clicks

BrowserNext ==
    \/ \E t \in Tab : Serve(t) \/ Refresh(t) \/ Click(t) \/ Answer(t)
    \/ Background
    \/ ServerRestart

BrowserSpec == BrowserInit /\ [][BrowserNext]_browserVars

(* The server answers, the browser refreshes, jobs end (SyncFlow), and the *)
(* user keeps trying, in one tab or another, to resolve a conflict.        *)
BrowserFairness ==
    /\ \A t \in Tab : WF_browserVars(Serve(t) \/ Refresh(t))
    /\ WF_browserVars(Background)
    /\ SF_browserVars(\E t \in Tab : Answer(t))

FairBrowserSpec == BrowserSpec /\ BrowserFairness
-----------------------------------------------------------------------------
(* A page that refreshes itself stops doing so: whatever job is started,   *)
(* fails, asks or is forgotten meanwhile, the tab gets to a page that      *)
(* waits for the user.                                                     *)
WaitEnds == \A t \in Tab : page[t] \in Waiting ~> page[t] \notin Waiting

(* No chain of redirects goes in circles, also between /login, which sends *)
(* a signed-in user home, and the pages that send a user to sign in.       *)
RedirectsEnd == \A t \in Tab : goes[t] # "none" ~> goes[t] = "none"

(* Whatever page a user is on, those who try get a conflict out of the way.*)
ConflictGetsAnswered == job = "conflict" ~> job # "conflict"

(* A transfer goes the way the page said that the user confirmed, and the  *)
(* way the conflict was last decided, in whichever tab.                    *)
ConfirmedAsShown == stage = "transfer" => confirmed = going
-----------------------------------------------------------------------------
(* sync.py:161: "Renders the direction-choice page for a FULL_SYNC         *)
(* conflict": the Back link of the confirm page goes there to choose again.*)
BackOffersTheChoice ==
    [][\A t \in Tab :
          page[t] = "confirm" /\ goes[t] = "/sync/conflict" /\ cookie /\ job = "conflict"
             => goes'[t] = "/sync/conflict" \/ page'[t] = "conflict"]_browserVars

(* state.py:107: the choice page is bypassed "when the server already      *)
(* constrained the user to one direction": a page left open may still      *)
(* choose the other one.                                                   *)
OneSidedStays == demanded # "none" => direction = demanded
=============================================================================
