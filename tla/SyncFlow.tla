------------------------------ MODULE SyncFlow ------------------------------
(***************************************************************************)
(* The synchronisation of one account with AnkiWeb: the handlers of        *)
(* web/routes/sync.py, the background tasks they schedule, the SyncState   *)
(* they share and the progress poller that writes to it.                   *)
(*                                                                         *)
(* The server is one process with one event loop, so a coroutine runs      *)
(* without interruption from one await to the next: an action is one such  *)
(* stretch.  A background task is a slot of Task; pc[t] names the await    *)
(* the task is suspended at and "free" a slot without a task.  A task that *)
(* schedules the next one of its chain and returns hands it its slot.      *)
(*                                                                         *)
(* Left out: the progress numbers and timestamps, the wording of the error *)
(* codes other than auth_expired, the pages that only read the state, and  *)
(* the cookie and CSRF checks in front of every handler.                   *)
(***************************************************************************)

CONSTANTS
    Task,        \* slots for background tasks
    Req,         \* POST /sync requests in flight
    Key,         \* hostKeys issued by AnkiWeb
    NoKey,
    Endpoint,    \* sync servers AnkiWeb may redirect to
    NoEndpoint,
    NoTask

ASSUME NoTaskAssumption == NoTask \notin Task
ASSUME NoKeyAssumption == NoKey \notin Key
ASSUME NoEndpointAssumption == NoEndpoint \notin Endpoint

VARIABLES
    status, phase, error, unit,               \* SyncState: the job
    pending, direction, conflictEndpoint,     \* SyncState: the conflict
    hostKey,                                  \* hostkey.enc, on disk
    reqPc, reqKey,                            \* POST /sync: place and local
    pc, local,                                \* background tasks: place and locals
    poller,                                   \* the progress poller of each task
    lock,                                     \* Account._lock: the task that holds it
    cards, unsynced,                          \* the collection on disk
    reported                                  \* observer: the endpoint AnkiWeb last named

stateVars    == <<status, phase, error, unit>>
conflictVars == <<pending, direction, conflictEndpoint>>
reqVars      == <<reqPc, reqKey>>
taskVars     == <<pc, local, poller, lock>>
dataVars     == <<cards, unsynced>>
vars == <<stateVars, conflictVars, hostKey, reqVars, taskVars, dataVars, reported>>

Keys      == Key \cup {NoKey}
Endpoints == Endpoint \cup {NoEndpoint}

Statuses    == {"idle", "running", "done", "error"}
MediaPhases == {"mediaChanges", "downloadFiles"}
Phases      == MediaPhases \cup {"none", "collection"}
Units       == {"none", "bytes", "cards", "files"}
ErrorCodes  == {"auth_expired", "other"}
Directions  == {"upload", "download"}

(* FullSyncKind: AnkiWeb leaves the choice to the user, or makes it. *)
FullSyncKinds == {"conflict"} \cup Directions

(* Where a task is suspended.  In the Locking ones it waits for, or holds, *)
(* the account's lock to run a function on the collection.                 *)
Locking == {"try_sync", "count_cards", "auto_download", "full_transfer"}
Places  == Locking \cup {"free", "collection_created", "full_created",
                         "poller_stopped", "media_created", "media_run"}

NoLocal == [key |-> NoKey, endpoint |-> NoEndpoint, direction |-> "none"]

TypeOK ==
    /\ status \in Statuses
    /\ phase \in Phases
    /\ error \in ErrorCodes \cup {"none"}
    /\ unit \in Units
    /\ pending \in BOOLEAN
    /\ direction \in Directions \cup {"none"}
    /\ conflictEndpoint \in Endpoints
    /\ hostKey \in Keys
    /\ reqPc \in [Req -> {"none", "rate_limit"}]
    /\ reqKey \in [Req -> Keys]
    /\ pc \in [Task -> Places]
    /\ local \in [Task -> [key : Keys, endpoint : Endpoints,
                           direction : Directions \cup {"none"}]]
    /\ poller \in [Task -> {"off", "sleeping", "peeking"}]
    /\ lock \in Task \cup {NoTask}
    /\ cards \in BOOLEAN
    /\ unsynced \in BOOLEAN
    /\ reported \in Endpoints

-----------------------------------------------------------------------------
Init ==
    /\ status = "idle" /\ phase = "none" /\ error = "none" /\ unit = "none"
    /\ pending = FALSE /\ direction = "none" /\ conflictEndpoint = NoEndpoint
    /\ hostKey \in Keys
    /\ reqPc = [r \in Req |-> "none"]
    /\ reqKey = [r \in Req |-> NoKey]
    /\ pc = [t \in Task |-> "free"]
    /\ local = [t \in Task |-> NoLocal]
    /\ poller = [t \in Task |-> "off"]
    /\ lock = NoTask
    /\ cards \in BOOLEAN
    /\ unsynced \in {FALSE, cards}
    /\ reported = NoEndpoint

Goto(t, place) == pc' = [pc EXCEPT ![t] = place]

(* The coroutine returns and its locals are gone. *)
Return(t) ==
    /\ Goto(t, "free")
    /\ local' = [local EXCEPT ![t] = NoLocal]

Create(t, place, values) ==
    /\ Goto(t, place)
    /\ local' = [local EXCEPT ![t] = values]

StartPoller(t) == poller' = [poller EXCEPT ![t] = "sleeping"]

StopPoller_Forgotten(t) == UNCHANGED poller

(* Cancelling delivers CancelledError at the await the poller is at. *)
StopPoller(t) == poller' = [poller EXCEPT ![t] = "off"]

ResetConflict ==
    /\ pending' = FALSE
    /\ direction' = "none"
    /\ conflictEndpoint' = NoEndpoint

BeginConflict_KindAsDirection(kind, endpoint) ==
    pending' = TRUE /\ direction' = kind /\ conflictEndpoint' = endpoint

BeginConflict(kind, endpoint) ==
    /\ pending' = TRUE
    /\ direction' = IF kind \in Directions THEN kind ELSE "none"
    /\ conflictEndpoint' = endpoint

(* The assignments every background task opens with. *)
BeginRun(firstPhase, firstUnit) ==
    /\ status' = "running"
    /\ phase' = firstPhase
    /\ unit' = firstUnit
    /\ error' = "none"

FailSync_StatusKept(code) ==
    /\ phase' = "none" /\ error' = code /\ UNCHANGED <<status, unit>>
    /\ hostKey' = IF code = "auth_expired" THEN NoKey ELSE hostKey

(* _fail_sync: an expired hostKey is deleted, whichever one is stored. *)
FailSync(code) ==
    /\ status' = "error"
    /\ phase' = "none"
    /\ error' = code
    /\ UNCHANGED unit
    /\ hostKey' = IF code = "auth_expired" THEN NoKey ELSE hostKey

-----------------------------------------------------------------------------
(* POST /sync reads the hostKey, then awaits the rate limiter. *)
SyncPostBegin(r) ==
    /\ reqPc[r] = "none"
    /\ hostKey # NoKey
    /\ reqPc' = [reqPc EXCEPT ![r] = "rate_limit"]
    /\ reqKey' = [reqKey EXCEPT ![r] = hostKey]
    /\ UNCHANGED <<stateVars, conflictVars, hostKey, taskVars, dataVars, reported>>

EndRequest(r) ==
    /\ reqPc[r] = "rate_limit"
    /\ reqPc' = [reqPc EXCEPT ![r] = "none"]
    /\ reqKey' = [reqKey EXCEPT ![r] = NoKey]

(* The limiter refuses (or fails), or the handler finds a running job or a *)
(* conflict to resolve and redirects to its page.                          *)
SyncPostRedirect(r) ==
    /\ EndRequest(r)
    /\ UNCHANGED <<stateVars, conflictVars, hostKey, taskVars, dataVars, reported>>

StartCollectionTask(r, t) ==
    /\ pc[t] = "free"
    /\ status' = "running"
    /\ phase' = "collection"
    /\ Create(t, "collection_created", [NoLocal EXCEPT !.key = reqKey[r]])
    /\ UNCHANGED <<error, unit, conflictVars, hostKey, poller, lock, dataVars, reported>>

SyncPostStart_RunningUnchecked(r, t) ==
    EndRequest(r) /\ ~pending /\ StartCollectionTask(r, t)

SyncPostStart_ConflictUnchecked(r, t) ==
    EndRequest(r) /\ status # "running" /\ StartCollectionTask(r, t)

SyncPostStart(r, t) ==
    /\ EndRequest(r)
    /\ status # "running"
    /\ ~pending
    /\ StartCollectionTask(r, t)

SyncConflictPost(choice) ==
    /\ pending
    /\ IF choice = "cancel"
         THEN ResetConflict
         ELSE direction' = choice /\ UNCHANGED <<pending, conflictEndpoint>>
    /\ UNCHANGED <<stateVars, hostKey, reqVars, taskVars, dataVars, reported>>

(* Without a hostKey the decision is dropped and the user has to sign in.  *)
SyncFullPostWithoutKey(choice) ==
    /\ pending
    /\ direction = choice
    /\ hostKey = NoKey
    /\ ResetConflict
    /\ UNCHANGED <<stateVars, hostKey, reqVars, taskVars, dataVars, reported>>

StartFullTask(choice, t, endpoint) ==
    /\ pending
    /\ direction = choice
    /\ hostKey # NoKey
    /\ ResetConflict
    /\ pc[t] = "free"
    /\ status' = "running"
    /\ phase' = "collection"
    /\ Create(t, "full_created",
              [key |-> hostKey, endpoint |-> endpoint, direction |-> choice])
    /\ UNCHANGED <<error, unit, hostKey, reqVars, poller, lock, dataVars, reported>>

SyncFullPost_EndpointReadAfterReset(choice, t) == StartFullTask(choice, t, NoEndpoint)

(* The conflict is consumed before the transfer is scheduled.              *)
SyncFullPost(choice, t) == StartFullTask(choice, t, conflictEndpoint)

(* POST /login from this browser or from another one: it does not look at  *)
(* the job.                                                                *)
Login(k) ==
    /\ hostKey' = k
    /\ UNCHANGED <<stateVars, conflictVars, reqVars, taskVars, dataVars, reported>>

(* A study handler changes the collection under the account's lock. *)
Study ==
    /\ cards
    /\ lock = NoTask
    /\ unsynced' = TRUE
    /\ UNCHANGED <<stateVars, conflictVars, hostKey, reqVars, taskVars, cards, reported>>

(* Only what is on disk survives a restart of the process. *)
Restart ==
    /\ status' = "idle" /\ phase' = "none" /\ error' = "none" /\ unit' = "none"
    /\ ResetConflict
    /\ reqPc' = [r \in Req |-> "none"]
    /\ reqKey' = [r \in Req |-> NoKey]
    /\ pc' = [t \in Task |-> "free"]
    /\ local' = [t \in Task |-> NoLocal]
    /\ poller' = [t \in Task |-> "off"]
    /\ lock' = NoTask
    /\ reported' = NoEndpoint
    /\ UNCHANGED <<hostKey, dataVars>>

-----------------------------------------------------------------------------
(* Account.run: the task waits for the lock, then a worker thread runs its *)
(* function while the loop serves others; the result releases the lock.    *)
AcquireLock(t) ==
    /\ pc[t] \in Locking
    /\ lock = NoTask
    /\ lock' = t
    /\ UNCHANGED <<stateVars, conflictVars, hostKey, reqVars, pc, local, poller,
                   dataVars, reported>>

Completes(t, place) ==
    /\ pc[t] = place
    /\ lock = t
    /\ lock' = NoTask

(* A completed function fails the job: the task stops its poller and ends. *)
(* It waits for the poller to end, which is left out: the poller has been  *)
(* cancelled and applies nothing more, and the task does nothing after.    *)
FailTask(t, code) ==
    /\ FailSync(code)
    /\ StopPoller(t)
    /\ Return(t)
    /\ UNCHANGED <<conflictVars, reqVars, dataVars>>

(* The content of a collection that was just taken over from AnkiWeb. *)
Overwritten == cards' \in BOOLEAN /\ unsynced' = FALSE

CollectionBegin(t) ==
    /\ pc[t] = "collection_created"
    /\ BeginRun("collection", "none")
    /\ StartPoller(t)
    /\ Goto(t, "try_sync")
    /\ UNCHANGED <<conflictVars, hostKey, reqVars, local, lock, dataVars, reported>>

(* AnkiWeb merged the collections. *)
CollectionSynced(t, endpoint) ==
    /\ Completes(t, "try_sync")
    /\ Goto(t, "count_cards")
    /\ local' = [local EXCEPT ![t].endpoint = endpoint]
    /\ reported' = endpoint
    /\ Overwritten
    /\ UNCHANGED <<stateVars, conflictVars, hostKey, reqVars, poller>>

CollectionConflict_NoReturn(t, kind, endpoint) ==
    /\ Completes(t, "try_sync")
    /\ BeginConflict(kind, endpoint)
    /\ status' = "idle"
    /\ phase' = "none"
    /\ Goto(t, "count_cards")
    /\ local' = [local EXCEPT ![t].endpoint = endpoint]
    /\ reported' = endpoint
    /\ UNCHANGED <<error, unit, hostKey, reqVars, poller, dataVars>>

(* AnkiWeb wants a full transfer: the task ends and the user is asked. *)
CollectionConflict(t, kind, endpoint) ==
    /\ Completes(t, "try_sync")
    /\ BeginConflict(kind, endpoint)
    /\ status' = "idle"
    /\ phase' = "none"
    /\ StopPoller(t)
    /\ Return(t)
    /\ reported' = endpoint
    /\ UNCHANGED <<error, unit, hostKey, reqVars, dataVars>>

CollectionFailed(t, code) ==
    /\ Completes(t, "try_sync")
    /\ FailTask(t, code)
    /\ UNCHANGED reported

(* _collection_is_empty: an exception while counting reads as empty. *)
CollectionIsEmpty(raised) == raised \/ ~cards

CardsCounted(t, raised) ==
    /\ Completes(t, "count_cards")
    /\ IF CollectionIsEmpty(raised)
         THEN Goto(t, "auto_download") /\ UNCHANGED poller
         ELSE Goto(t, "poller_stopped") /\ StopPoller(t)
    /\ UNCHANGED <<stateVars, conflictVars, hostKey, reqVars, local, dataVars, reported>>

AutoDownloaded(t) ==
    /\ Completes(t, "auto_download")
    /\ Overwritten
    /\ StopPoller(t)
    /\ Goto(t, "poller_stopped")
    /\ UNCHANGED <<stateVars, conflictVars, hostKey, reqVars, local, reported>>

AutoDownloadFailed(t, code) ==
    /\ Completes(t, "auto_download")
    /\ FailTask(t, code)
    /\ UNCHANGED reported

FullBegin(t) ==
    /\ pc[t] = "full_created"
    /\ BeginRun("collection", "none")
    /\ StartPoller(t)
    /\ Goto(t, "full_transfer")
    /\ UNCHANGED <<conflictVars, hostKey, reqVars, local, lock, dataVars, reported>>

FullTransferred(t) ==
    /\ Completes(t, "full_transfer")
    /\ IF local[t].direction = "download"
         THEN Overwritten
         ELSE unsynced' = FALSE /\ UNCHANGED cards
    /\ StopPoller(t)
    /\ Goto(t, "poller_stopped")
    /\ UNCHANGED <<stateVars, conflictVars, hostKey, reqVars, local, reported>>

FullFailed(t, code) ==
    /\ Completes(t, "full_transfer")
    /\ FailTask(t, code)
    /\ UNCHANGED reported

(* The poller has ended: the media task takes over the job. *)
StartMedia(t) ==
    /\ pc[t] = "poller_stopped"
    /\ BeginRun("mediaChanges", "files")
    /\ Goto(t, "media_created")
    /\ UNCHANGED <<conflictVars, hostKey, reqVars, local, poller, lock, dataVars, reported>>

MediaBegin(t) ==
    /\ pc[t] = "media_created"
    /\ BeginRun("mediaChanges", "files")
    /\ Goto(t, "media_run")
    /\ UNCHANGED <<conflictVars, hostKey, reqVars, local, poller, lock, dataVars, reported>>

(* _cb, called from the thread that exchanges the media. *)
MediaProgress(t, newPhase) ==
    /\ pc[t] = "media_run"
    /\ phase' = newPhase
    /\ unit' = "files"
    /\ UNCHANGED <<status, error, conflictVars, hostKey, reqVars, taskVars, dataVars,
                   reported>>

MediaDone(t) ==
    /\ pc[t] = "media_run"
    /\ status' = "done"
    /\ phase' = "none"
    /\ unit' = "none"
    /\ Return(t)
    /\ UNCHANGED <<error, conflictVars, hostKey, reqVars, poller, lock, dataVars, reported>>

(* No message of the media protocol reads "auth_expired". *)
MediaFailed(t) ==
    /\ pc[t] = "media_run"
    /\ FailSync("other")
    /\ Return(t)
    /\ UNCHANGED <<conflictVars, reqVars, poller, lock, dataVars, reported>>

-----------------------------------------------------------------------------
(* The poller sleeps, peeks at the collection in a thread, without the     *)
(* lock, and writes what it saw when the thread comes back.                *)
PollerPeek(t) ==
    /\ poller[t] = "sleeping"
    /\ poller' = [poller EXCEPT ![t] = "peeking"]
    /\ UNCHANGED <<stateVars, conflictVars, hostKey, reqVars, pc, local, lock, dataVars,
                   reported>>

(* "bytes" of a full transfer, "cards" of a merge, or nothing to report. *)
PollerApply(t, seen) ==
    /\ poller[t] = "peeking"
    /\ poller' = [poller EXCEPT ![t] = "sleeping"]
    /\ unit' = IF seen = "nothing" THEN unit ELSE seen
    /\ UNCHANGED <<status, phase, error, conflictVars, hostKey, reqVars, pc, local, lock,
                   dataVars, reported>>

-----------------------------------------------------------------------------
UserStep ==
    \/ \E r \in Req : SyncPostBegin(r) \/ SyncPostRedirect(r)
    \/ \E r \in Req, t \in Task : SyncPostStart(r, t)
    \/ \E choice \in Directions \cup {"cancel"} : SyncConflictPost(choice)
    \/ \E choice \in Directions : SyncFullPostWithoutKey(choice)
    \/ \E choice \in Directions, t \in Task : SyncFullPost(choice, t)
    \/ \E k \in Key : Login(k)
    \/ Study

(* What brings a task nearer to its end. *)
TaskStep(t) ==
    \/ AcquireLock(t)
    \/ CollectionBegin(t)
    \/ \E e \in Endpoints : CollectionSynced(t, e)
    \/ \E k \in FullSyncKinds, e \in Endpoints : CollectionConflict(t, k, e)
    \/ \E code \in ErrorCodes :
          CollectionFailed(t, code) \/ AutoDownloadFailed(t, code) \/ FullFailed(t, code)
    \/ \E raised \in BOOLEAN : CardsCounted(t, raised)
    \/ AutoDownloaded(t)
    \/ FullBegin(t)
    \/ FullTransferred(t)
    \/ StartMedia(t)
    \/ MediaBegin(t)
    \/ MediaDone(t)
    \/ MediaFailed(t)

ProgressStep(t) ==
    \/ \E p \in MediaPhases : MediaProgress(t, p)
    \/ PollerPeek(t)
    \/ \E seen \in {"nothing", "bytes", "cards"} : PollerApply(t, seen)

Next == UserStep \/ (\E t \in Task : TaskStep(t) \/ ProgressStep(t)) \/ Restart

(* The loop resumes a task whose await is over, and AnkiWeb and the worker *)
(* threads answer or time out.  Users and restarts owe nothing.            *)
Fairness == \A t \in Task : WF_vars(TaskStep(t))

Spec == Init /\ [][Next]_vars
FairSpec == Spec /\ Fairness
-----------------------------------------------------------------------------
Live(t) == pc[t] # "free"

(* Two POSTs that overlap at the rate limiter, two tabs that confirm, or a *)
(* POST against a task that is ending never make two background tasks; and *)
(* status says "running" exactly while a task is there to change it, so    *)
(* /sync/wait neither polls a job that died nor misses one that runs.      *)
SingleFlight ==
    /\ \A s, t \in Task : Live(s) /\ Live(t) => s = t
    /\ status = "running" <=> \E t \in Task : Live(t)

(* While the user is asked for a direction nothing runs, so no transfer    *)
(* overtakes the answer, and the answer is asked for only once.            *)
ConflictIsExclusive ==
    pending => status = "idle" /\ \A t \in Task : ~Live(t)

(* From AnkiWeb's redirect to the end of the media exchange, through the   *)
(* user's confirmation, a job talks to the server AnkiWeb last named:      *)
(* client.py says a transfer from another one fails.                       *)
EndpointCarried ==
    /\ pending => conflictEndpoint = reported
    /\ \A t \in Task :
          pc[t] \notin {"free", "collection_created", "try_sync"} =>
             local[t].endpoint = reported

(* The progress bar of the media phase counts files although the poller of *)
(* the collection phase still had a reading in flight when it was stopped, *)
(* and a finished job shows no unit.                                       *)
UnitMatchesPhase ==
    /\ phase \in MediaPhases => unit = "files"
    /\ status = "done" => unit = "none"

(* A poller lives only inside the collection phase of a live task. *)
PollerConfined ==
    \A t \in Task : poller[t] # "off" => pc[t] \in Locking

(* The wait page refreshes itself while a job runs: it always reaches a    *)
(* page that stops, whatever the users do.                                 *)
JobEnds == status = "running" ~> status # "running"

(* The job as the browser sees it. *)
Transfers(t) == pc[t] \in {"full_created", "full_transfer"}

Stage ==
    IF status # "running" THEN "none"
    ELSE IF \E t \in Task : Transfers(t) THEN "transfer"
    ELSE IF \E t \in Task : pc[t] \in {"poller_stopped", "media_created", "media_run"}
      THEN "media"
    ELSE "exchange"

(* The local variable of the task that transfers. *)
Going ==
    IF Stage # "transfer" THEN "none"
    ELSE CHOOSE d \in Directions : \E t \in Task : Transfers(t) /\ local[t].direction = d

Job == INSTANCE SyncJob WITH job <- IF pending THEN "conflict" ELSE status,
                             stage <- Stage,
                             going <- Going,
                             expired <- status = "error" /\ error = "auth_expired",
                             key <- hostKey # NoKey

JobSpec == Job!Spec

-----------------------------------------------------------------------------
(* client.py:55 calls AuthExpiredError "The stored hostKey was rejected by *)
(* the server": the key a step deletes is the key its task had used.       *)
DeletesTheRejectedKey ==
    [][\A t \in Task :
          hostKey # NoKey /\ Live(t) /\ ~Live(t)' /\ error' = "auth_expired"
             => hostKey = local[t].key]_vars

(* README.md:18 says the program "asks the user to choose and confirm a    *)
(* destructive direction when required": a download nobody confirmed finds *)
(* no review in the local collection that AnkiWeb does not have.           *)
UnconfirmedDownloadLosesNothing ==
    \A t \in Task : pc[t] = "auto_download" => ~unsynced
=============================================================================
