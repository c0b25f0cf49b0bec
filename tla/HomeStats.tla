------------------------------ MODULE HomeStats ------------------------------
(***************************************************************************)
(* The home page's deck statistics: requests of one account share one task *)
(* that reads the collection, wait two seconds for it, and otherwise show  *)
(* a page that asks again after two seconds (web/routes/study.py, home;    *)
(* templates/home_loading.html).                                           *)
(*                                                                         *)
(* Time passes in ticks, and only when nothing is due: a timer goes off, a *)
(* task whose time has come ends, and who waited for it resumes, before    *)
(* the clock moves.  Reading the statistics takes Duration ticks.          *)
(*                                                                         *)
(* Left out: what else the page asks for after the statistics, the sync    *)
(* status among it, which AccountCollection models.                        *)
(***************************************************************************)
EXTENDS Naturals

CONSTANTS
    Tab,          \* browser tabs that show the home page
    Task,         \* slots for tasks of list_deck_stats
    None,
    Duration,     \* ticks it takes to read the statistics
    Timeout,      \* max_task_time_sec
    Refresh,      \* refresh_interval_seconds
    MaxVersion    \* bound: changes to the collection

ASSUME NoneAssumption == None \notin Task
ASSUME TimeAssumption == {Duration, Timeout, Refresh} \subseteq Nat \ {0}

VARIABLES
    version,     \* of the collection
    lock,        \* the task that reads the collection under Account._lock
    state, read, \* of each task: where it is and what it has read
    inflight,    \* the account's entry in _deck_stats_inflight
    page,        \* what each tab does or shows
    waitsFor,    \* the task a request waits for
    timer,       \* ticks a tab has waited, and a task has read
    asked,       \* observer: the version when the tab sent its request
    shown        \* the version of the statistics a tab shows

taskVars == <<lock, state, read>>
tabVars  == <<page, waitsFor, asked, shown>>
vars == <<version, taskVars, inflight, tabVars, timer>>

States == {"free", "created", "reading", "done", "failed"}
Pages  == {"away", "waiting", "loading", "home", "error"}
Ended  == {"done", "failed"}

(* The types of the variables; the lock is held by a task that reads, and  *)
(* a request waits for one task.                                           *)
TypeOK ==
    /\ version \in Nat
    /\ lock \in Task \cup {None}
    /\ state \in [Task -> States]
    /\ read \in [Task -> Nat]
    /\ inflight \in Task \cup {None}
    /\ page \in [Tab -> Pages]
    /\ waitsFor \in [Tab -> Task \cup {None}]
    /\ timer \in [Tab \cup Task -> Nat]
    /\ asked \in [Tab -> Nat]
    /\ shown \in [Tab -> Nat]
    /\ \A t \in Task : state[t] = "reading" <=> lock = t
    /\ \A b \in Tab : page[b] = "waiting" <=> waitsFor[b] # None

Init ==
    /\ version = 0
    /\ lock = None
    /\ state = [t \in Task |-> "free"]
    /\ read = [t \in Task |-> 0]
    /\ inflight = None
    /\ page = [b \in Tab |-> "away"]
    /\ waitsFor = [b \in Tab |-> None]
    /\ timer = [x \in Tab \cup Task |-> 0]
    /\ asked = [b \in Tab |-> 0]
    /\ shown = [b \in Tab |-> 0]

-----------------------------------------------------------------------------
Reusable_UntilPopped == inflight # None

(* `inflight is None or inflight.done()` makes a new task. *)
Reusable == inflight # None /\ state[inflight] \notin Ended

WaitFor(b, t) ==
    /\ page' = [page EXCEPT ![b] = "waiting"]
    /\ waitsFor' = [waitsFor EXCEPT ![b] = t]
    /\ asked' = [asked EXCEPT ![b] = version]
    /\ UNCHANGED <<version, shown, lock, read>>

Share(b) ==
    /\ Reusable
    /\ WaitFor(b, inflight)
    /\ timer' = [timer EXCEPT ![b] = 0]
    /\ UNCHANGED <<state, inflight>>

Create(b, t) ==
    /\ ~Reusable
    /\ state[t] \in {"free"} \cup Ended
    /\ \A a \in Tab : waitsFor[a] # t
    /\ WaitFor(b, t)
    /\ state' = [state EXCEPT ![t] = "created"]
    /\ inflight' = t
    /\ timer' = [timer EXCEPT ![b] = 0, ![t] = 0]

Request(b) == Share(b) \/ \E t \in Task : Create(b, t)

Open(b) == page[b] \in {"away", "home", "error"} /\ Request(b)

(* The loading page's meta refresh. *)
Reload(b) == page[b] = "loading" /\ timer[b] = Refresh /\ Request(b)

Leave(b, what) ==
    /\ page' = [page EXCEPT ![b] = what]
    /\ waitsFor' = [waitsFor EXCEPT ![b] = None]
    /\ timer' = [timer EXCEPT ![b] = 0]
    /\ UNCHANGED <<version, asked>>

GivesUp(b) ==
    /\ page[b] = "waiting"
    /\ timer[b] = Timeout
    /\ state[waitsFor[b]] \notin Ended
    /\ Leave(b, "loading")

TimesOut_Unshielded(b) ==
    /\ GivesUp(b)
    /\ state' = [state EXCEPT ![waitsFor[b]] = "failed"]
    /\ lock' = IF lock = waitsFor[b] THEN None ELSE lock
    /\ UNCHANGED <<read, inflight, shown>>

(* The task is shielded and goes on. *)
TimesOut(b) == GivesUp(b) /\ UNCHANGED <<taskVars, inflight, shown>>

(* Whatever the entry is by now, it is removed. *)
Resume(b) ==
    /\ page[b] = "waiting"
    /\ state[waitsFor[b]] \in Ended
    /\ Leave(b, IF state[waitsFor[b]] = "done" THEN "home" ELSE "error")
    /\ shown' = [shown EXCEPT ![b] = IF state[waitsFor[b]] = "done" THEN read[waitsFor[b]] ELSE @]
    /\ inflight' = None
    /\ UNCHANGED taskVars

-----------------------------------------------------------------------------
(* A task is at the front of Account._lock. *)
Starts(t) ==
    /\ state[t] = "created"
    /\ lock = None
    /\ lock' = t
    /\ state' = [state EXCEPT ![t] = "reading"]
    /\ read' = [read EXCEPT ![t] = version]
    /\ timer' = [timer EXCEPT ![t] = 0]
    /\ UNCHANGED <<version, inflight, tabVars>>

Ends(t, how) ==
    /\ state[t] = "reading"
    /\ timer[t] = Duration
    /\ lock' = None
    /\ state' = [state EXCEPT ![t] = how]
    /\ UNCHANGED <<version, read, inflight, tabVars, timer>>

(* Any other call of Account.run changes the collection in between. *)
Study ==
    /\ lock = None
    /\ version < MaxVersion
    /\ version' = version + 1
    /\ UNCHANGED <<taskVars, inflight, tabVars, timer>>

Due ==
    \/ \E b \in Tab : \/ page[b] = "waiting" /\ (timer[b] = Timeout \/ state[waitsFor[b]] \in Ended)
                      \/ page[b] = "loading" /\ timer[b] = Refresh
    \/ \E t \in Task : \/ state[t] = "reading" /\ timer[t] = Duration
                       \/ state[t] = "created" /\ lock = None

Running(x) ==
    \/ x \in Tab /\ page[x] \in {"waiting", "loading"}
    \/ x \in Task /\ state[x] = "reading"

Tick ==
    /\ ~Due
    /\ timer' = [x \in DOMAIN timer |-> IF Running(x) THEN timer[x] + 1 ELSE timer[x]]
    /\ UNCHANGED <<version, taskVars, inflight, tabVars>>

Urgent ==
    \/ \E b \in Tab : Reload(b) \/ TimesOut(b) \/ Resume(b)
    \/ \E t \in Task : Starts(t) \/ \E how \in Ended : Ends(t, how)

Next == Urgent \/ Tick \/ Study \/ \E b \in Tab : Open(b)

Spec == Init /\ [][Next]_vars

(* The clock and what is due go on; nobody has to open a page. *)
FairSpec == Spec /\ WF_vars(Urgent) /\ WF_vars(Tick)
-----------------------------------------------------------------------------
(* The statistics on the home page are no older than the request for them: *)
(* they show the review the user has just made.                            *)
ShowsOwnReviews == \A b \in Tab : page[b] = "home" => shown[b] >= asked[b]

(* The read ends while the page that started it waits, not between two of  *)
(* its requests.                                                           *)
EndsDuringAWait == Duration % (Timeout + Refresh) \in 1 .. Timeout - 1

NobodyOpensPages == <>[][\A b \in Tab : ~Open(b)]_vars

(* A loading page whose reads end during a wait gives way: giving up and   *)
(* asking again does not start the read over, and other loading pages that *)
(* refresh themselves do not keep it from its answer.  Pages the user      *)
(* opens for ever may.                                                     *)
LoadingEndsInTime ==
    EndsDuringAWait /\ NobodyOpensPages =>
        \A b \in Tab : page[b] = "loading" ~> page[b] \in {"home", "error"}

-----------------------------------------------------------------------------
(* home_loading.html:13: "This page updates automatically": it gives way   *)
(* to the decks or to an error, however long the read takes.               *)
LoadingEnds == \A b \in Tab : page[b] = "loading" ~> page[b] \in {"home", "error"}
=============================================================================
