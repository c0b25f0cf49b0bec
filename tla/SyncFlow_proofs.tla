--------------------------- MODULE SyncFlow_proofs ---------------------------
(***************************************************************************)
(* Theorems about SyncFlow, for any number of task slots, requests, keys   *)
(* and endpoints.                                                          *)
(***************************************************************************)
EXTENDS SyncFlow, TLAPS

(* Every definition an action is built from. *)
USE DEF Keys, Endpoints, Statuses, MediaPhases, Phases, Units, ErrorCodes, Directions,
        Locking, Places

(* The types of the variables are kept by every step.                      *)
LEMMA TypeStep == TypeOK /\ [Next]_vars => TypeOK'
<1> SUFFICES ASSUME TypeOK, [Next]_vars PROVE TypeOK'
  OBVIOUS
<1> USE DEF TypeOK, vars, stateVars, conflictVars, reqVars, taskVars, dataVars
<1>1. ASSUME NEW r \in Req, SyncPostBegin(r)
      PROVE  TypeOK'
  BY <1>1 DEF SyncPostBegin
<1>2. ASSUME NEW r \in Req, SyncPostRedirect(r)
      PROVE  TypeOK'
  BY <1>2 DEF SyncPostRedirect, EndRequest
<1>3. ASSUME NEW r \in Req, NEW t \in Task, SyncPostStart(r, t)
      PROVE  TypeOK'
  BY <1>3 DEF SyncPostStart, EndRequest, StartCollectionTask, Create, Goto, NoLocal
<1>4. ASSUME NEW choice \in Directions \cup {"cancel"}, SyncConflictPost(choice)
      PROVE  TypeOK'
  <2>1. pending' \in BOOLEAN /\ cards' \in BOOLEAN /\ unsynced' \in BOOLEAN
    BY <1>4, Zenon DEF SyncConflictPost, ResetConflict
  <2>2. direction' \in Directions \cup {"none"} /\ conflictEndpoint' \in Endpoints
    BY <1>4 DEF SyncConflictPost, ResetConflict
  <2> QED
    BY <1>4, <2>1, <2>2 DEF SyncConflictPost
<1>5. ASSUME NEW choice \in Directions, SyncFullPostWithoutKey(choice)
      PROVE  TypeOK'
  <2>1. pending' \in BOOLEAN /\ cards' \in BOOLEAN /\ unsynced' \in BOOLEAN
    BY <1>5, Zenon DEF SyncFullPostWithoutKey, ResetConflict
  <2>2. direction' \in Directions \cup {"none"} /\ conflictEndpoint' \in Endpoints
    BY <1>5 DEF SyncFullPostWithoutKey, ResetConflict
  <2> QED
    BY <1>5, <2>1, <2>2 DEF SyncFullPostWithoutKey
<1>6. ASSUME NEW choice \in Directions, NEW t \in Task, SyncFullPost(choice, t)
      PROVE  TypeOK'
  <2>1. pending' \in BOOLEAN /\ cards' \in BOOLEAN /\ unsynced' \in BOOLEAN
    BY <1>6, Zenon DEF SyncFullPost, StartFullTask, ResetConflict
  <2>2. direction' \in Directions \cup {"none"} /\ conflictEndpoint' \in Endpoints
    BY <1>6 DEF SyncFullPost, StartFullTask, ResetConflict
  <2>3. pc' \in [Task -> Places]
    BY <1>6 DEF SyncFullPost, StartFullTask, Create, Goto
  <2>4. local' \in [Task -> [key : Keys, endpoint : Endpoints,
                           direction : Directions \cup {"none"}]]
    BY <1>6 DEF SyncFullPost, StartFullTask, Create
  <2> QED
    BY <1>6, <2>1, <2>2, <2>3, <2>4 DEF SyncFullPost, StartFullTask
<1>7. ASSUME NEW k \in Key, Login(k)
      PROVE  TypeOK'
  BY <1>7 DEF Login
<1>8. ASSUME Study
      PROVE  TypeOK'
  BY <1>8 DEF Study
<1>9. ASSUME Restart
      PROVE  TypeOK'
  BY <1>9 DEF Restart, ResetConflict, NoLocal
<1>10. ASSUME NEW t \in Task, AcquireLock(t)
      PROVE  TypeOK'
  BY <1>10 DEF AcquireLock
<1>11. ASSUME NEW t \in Task, CollectionBegin(t)
      PROVE  TypeOK'
  BY <1>11 DEF CollectionBegin, BeginRun, StartPoller, Goto
<1>12. ASSUME NEW t \in Task, NEW e \in Endpoints, CollectionSynced(t, e)
      PROVE  TypeOK'
  <2>1. pending' \in BOOLEAN /\ cards' \in BOOLEAN /\ unsynced' \in BOOLEAN
    BY <1>12, Zenon DEF CollectionSynced, Overwritten
  <2> QED
    BY <1>12, <2>1 DEF CollectionSynced, Completes, Goto
<1>13. ASSUME NEW t \in Task, NEW k \in FullSyncKinds, NEW e \in Endpoints, CollectionConflict(t, k, e)
      PROVE  TypeOK'
  BY <1>13 DEF CollectionConflict, Completes, BeginConflict, StopPoller, Return, Goto, NoLocal, FullSyncKinds
<1>14. ASSUME NEW t \in Task, NEW code \in ErrorCodes, CollectionFailed(t, code)
      PROVE  TypeOK'
  BY <1>14 DEF CollectionFailed, Completes, FailTask, FailSync, StopPoller, Return, Goto, NoLocal
<1>15. ASSUME NEW t \in Task, NEW raised \in BOOLEAN, CardsCounted(t, raised)
      PROVE  TypeOK'
  BY <1>15 DEF CardsCounted, Completes, Goto, StopPoller
<1>16. ASSUME NEW t \in Task, AutoDownloaded(t)
      PROVE  TypeOK'
  <2>1. pending' \in BOOLEAN /\ cards' \in BOOLEAN /\ unsynced' \in BOOLEAN
    BY <1>16, Zenon DEF AutoDownloaded, Overwritten
  <2> QED
    BY <1>16, <2>1 DEF AutoDownloaded, Completes, StopPoller, Goto
<1>17. ASSUME NEW t \in Task, NEW code \in ErrorCodes, AutoDownloadFailed(t, code)
      PROVE  TypeOK'
  BY <1>17 DEF AutoDownloadFailed, Completes, FailTask, FailSync, StopPoller, Return, Goto, NoLocal
<1>18. ASSUME NEW t \in Task, FullBegin(t)
      PROVE  TypeOK'
  BY <1>18 DEF FullBegin, BeginRun, StartPoller, Goto
<1>19. ASSUME NEW t \in Task, FullTransferred(t)
      PROVE  TypeOK'
  <2>1. pending' \in BOOLEAN /\ cards' \in BOOLEAN /\ unsynced' \in BOOLEAN
    BY <1>19, Zenon DEF FullTransferred, Overwritten
  <2> QED
    BY <1>19, <2>1 DEF FullTransferred, Completes, StopPoller, Goto
<1>20. ASSUME NEW t \in Task, NEW code \in ErrorCodes, FullFailed(t, code)
      PROVE  TypeOK'
  BY <1>20 DEF FullFailed, Completes, FailTask, FailSync, StopPoller, Return, Goto, NoLocal
<1>21. ASSUME NEW t \in Task, StartMedia(t)
      PROVE  TypeOK'
  BY <1>21 DEF StartMedia, BeginRun, Goto
<1>22. ASSUME NEW t \in Task, MediaBegin(t)
      PROVE  TypeOK'
  BY <1>22 DEF MediaBegin, BeginRun, Goto
<1>23. ASSUME NEW t \in Task, NEW p \in MediaPhases, MediaProgress(t, p)
      PROVE  TypeOK'
  BY <1>23 DEF MediaProgress
<1>24. ASSUME NEW t \in Task, MediaDone(t)
      PROVE  TypeOK'
  BY <1>24 DEF MediaDone, Return, Goto, NoLocal
<1>25. ASSUME NEW t \in Task, MediaFailed(t)
      PROVE  TypeOK'
  BY <1>25 DEF MediaFailed, FailSync, Return, Goto, NoLocal
<1>26. ASSUME NEW t \in Task, PollerPeek(t)
      PROVE  TypeOK'
  BY <1>26 DEF PollerPeek
<1>27. ASSUME NEW t \in Task, NEW seen \in {"nothing", "bytes", "cards"}, PollerApply(t, seen)
      PROVE  TypeOK'
  BY <1>27 DEF PollerApply
<1>28. CASE UNCHANGED vars
  BY <1>28
<1> HIDE DEF TypeOK, vars, stateVars, conflictVars, reqVars, taskVars,
             dataVars
<1>29. QED
  BY <1>1, <1>2, <1>3, <1>4, <1>5, <1>6, <1>7, <1>8, <1>9, <1>10, <1>11, <1>12, <1>13,
     <1>14, <1>15, <1>16, <1>17, <1>18, <1>19, <1>20, <1>21, <1>22, <1>23, <1>24, <1>25,
     <1>26, <1>27, <1>28 DEF Next, UserStep, TaskStep, ProgressStep

-----------------------------------------------------------------------------
(* One live task at most, "running" exactly while there is one, and none   *)
(* while the user is asked: the three facts need each other.  A POST finds *)
(* status other than "running", hence no live task, hence it makes the     *)
(* only one; a task that returns was the only one, hence none is left.     *)
Flight == SingleFlight /\ ConflictIsExclusive

LEMMA FlightStep == TypeOK /\ Flight /\ [Next]_vars => Flight'
<1> SUFFICES ASSUME TypeOK, Flight, [Next]_vars PROVE Flight'
  OBVIOUS
<1> USE DEF Flight, SingleFlight, ConflictIsExclusive, Live, TypeOK,
            vars, stateVars, conflictVars, reqVars, taskVars, dataVars
<1>1. ASSUME NEW r \in Req, SyncPostBegin(r)
      PROVE  Flight'
  BY <1>1 DEF SyncPostBegin
<1>2. ASSUME NEW r \in Req, SyncPostRedirect(r)
      PROVE  Flight'
  BY <1>2 DEF SyncPostRedirect, EndRequest
<1>3. ASSUME NEW r \in Req, NEW t \in Task, SyncPostStart(r, t)
      PROVE  Flight'
  BY <1>3 DEF SyncPostStart, EndRequest, StartCollectionTask, Create, Goto, NoLocal
<1>4. ASSUME NEW choice \in Directions \cup {"cancel"}, SyncConflictPost(choice)
      PROVE  Flight'
  BY <1>4 DEF SyncConflictPost, ResetConflict
<1>5. ASSUME NEW choice \in Directions, SyncFullPostWithoutKey(choice)
      PROVE  Flight'
  BY <1>5 DEF SyncFullPostWithoutKey, ResetConflict
<1>6. ASSUME NEW choice \in Directions, NEW t \in Task, SyncFullPost(choice, t)
      PROVE  Flight'
  BY <1>6 DEF SyncFullPost, StartFullTask, ResetConflict, Create, Goto
<1>7. ASSUME NEW k \in Key, Login(k)
      PROVE  Flight'
  BY <1>7 DEF Login
<1>8. ASSUME Study
      PROVE  Flight'
  BY <1>8 DEF Study
<1>9. ASSUME Restart
      PROVE  Flight'
  BY <1>9 DEF Restart, ResetConflict, NoLocal
<1>10. ASSUME NEW t \in Task, AcquireLock(t)
      PROVE  Flight'
  BY <1>10 DEF AcquireLock
<1>11. ASSUME NEW t \in Task, CollectionBegin(t)
      PROVE  Flight'
  BY <1>11 DEF CollectionBegin, BeginRun, StartPoller, Goto
<1>12. ASSUME NEW t \in Task, NEW e \in Endpoints, CollectionSynced(t, e)
      PROVE  Flight'
  BY <1>12 DEF CollectionSynced, Completes, Goto, Overwritten
<1>13. ASSUME NEW t \in Task, NEW k \in FullSyncKinds, NEW e \in Endpoints, CollectionConflict(t, k, e)
      PROVE  Flight'
  BY <1>13 DEF CollectionConflict, Completes, BeginConflict, StopPoller, Return, Goto, NoLocal, FullSyncKinds
<1>14. ASSUME NEW t \in Task, NEW code \in ErrorCodes, CollectionFailed(t, code)
      PROVE  Flight'
  BY <1>14 DEF CollectionFailed, Completes, FailTask, FailSync, StopPoller, Return, Goto, NoLocal
<1>15. ASSUME NEW t \in Task, NEW raised \in BOOLEAN, CardsCounted(t, raised)
      PROVE  Flight'
  BY <1>15 DEF CardsCounted, Completes, Goto, StopPoller
<1>16. ASSUME NEW t \in Task, AutoDownloaded(t)
      PROVE  Flight'
  BY <1>16 DEF AutoDownloaded, Completes, Overwritten, StopPoller, Goto
<1>17. ASSUME NEW t \in Task, NEW code \in ErrorCodes, AutoDownloadFailed(t, code)
      PROVE  Flight'
  BY <1>17 DEF AutoDownloadFailed, Completes, FailTask, FailSync, StopPoller, Return, Goto, NoLocal
<1>18. ASSUME NEW t \in Task, FullBegin(t)
      PROVE  Flight'
  BY <1>18 DEF FullBegin, BeginRun, StartPoller, Goto
<1>19. ASSUME NEW t \in Task, FullTransferred(t)
      PROVE  Flight'
  BY <1>19 DEF FullTransferred, Completes, Overwritten, StopPoller, Goto
<1>20. ASSUME NEW t \in Task, NEW code \in ErrorCodes, FullFailed(t, code)
      PROVE  Flight'
  BY <1>20 DEF FullFailed, Completes, FailTask, FailSync, StopPoller, Return, Goto, NoLocal
<1>21. ASSUME NEW t \in Task, StartMedia(t)
      PROVE  Flight'
  BY <1>21 DEF StartMedia, BeginRun, Goto
<1>22. ASSUME NEW t \in Task, MediaBegin(t)
      PROVE  Flight'
  BY <1>22 DEF MediaBegin, BeginRun, Goto
<1>23. ASSUME NEW t \in Task, NEW p \in MediaPhases, MediaProgress(t, p)
      PROVE  Flight'
  BY <1>23 DEF MediaProgress
<1>24. ASSUME NEW t \in Task, MediaDone(t)
      PROVE  Flight'
  BY <1>24 DEF MediaDone, Return, Goto, NoLocal
<1>25. ASSUME NEW t \in Task, MediaFailed(t)
      PROVE  Flight'
  BY <1>25 DEF MediaFailed, FailSync, Return, Goto, NoLocal
<1>26. ASSUME NEW t \in Task, PollerPeek(t)
      PROVE  Flight'
  BY <1>26 DEF PollerPeek
<1>27. ASSUME NEW t \in Task, NEW seen \in {"nothing", "bytes", "cards"}, PollerApply(t, seen)
      PROVE  Flight'
  BY <1>27 DEF PollerApply
<1>28. CASE UNCHANGED vars
  BY <1>28
<1> HIDE DEF Flight, SingleFlight, ConflictIsExclusive, Live, TypeOK, vars,
             stateVars, conflictVars, reqVars, taskVars, dataVars
<1>29. QED
  BY <1>1, <1>2, <1>3, <1>4, <1>5, <1>6, <1>7, <1>8, <1>9, <1>10, <1>11, <1>12, <1>13,
     <1>14, <1>15, <1>16, <1>17, <1>18, <1>19, <1>20, <1>21, <1>22, <1>23, <1>24, <1>25,
     <1>26, <1>27, <1>28 DEF Next, UserStep, TaskStep, ProgressStep

-----------------------------------------------------------------------------
(* A poller writes only in the collection phase: it is stopped in the same *)
(* stretch that ends its task or moves it on, and the media phases belong  *)
(* to the places past that point.                                          *)
MediaPlaces == {"media_created", "media_run"}

Progress ==
    /\ PollerConfined
    /\ phase \in MediaPhases => \E t \in Task : pc[t] \in MediaPlaces
    /\ UnitMatchesPhase

LEMMA ProgressStepKept == TypeOK /\ Flight /\ Progress /\ [Next]_vars => Progress'
<1> SUFFICES ASSUME TypeOK, Flight, Progress, [Next]_vars PROVE Progress'
  OBVIOUS
<1> USE DEF Progress, PollerConfined, MediaPlaces, UnitMatchesPhase, Flight, SingleFlight,
            ConflictIsExclusive, Live, TypeOK,
            vars, stateVars, conflictVars, reqVars, taskVars, dataVars
<1>1. ASSUME NEW r \in Req, SyncPostBegin(r)
      PROVE  Progress'
  BY <1>1 DEF SyncPostBegin
<1>2. ASSUME NEW r \in Req, SyncPostRedirect(r)
      PROVE  Progress'
  BY <1>2 DEF SyncPostRedirect, EndRequest
<1>3. ASSUME NEW r \in Req, NEW t \in Task, SyncPostStart(r, t)
      PROVE  Progress'
  BY <1>3 DEF SyncPostStart, EndRequest, StartCollectionTask, Create, Goto, NoLocal
<1>4. ASSUME NEW choice \in Directions \cup {"cancel"}, SyncConflictPost(choice)
      PROVE  Progress'
  BY <1>4 DEF SyncConflictPost, ResetConflict
<1>5. ASSUME NEW choice \in Directions, SyncFullPostWithoutKey(choice)
      PROVE  Progress'
  BY <1>5 DEF SyncFullPostWithoutKey, ResetConflict
<1>6. ASSUME NEW choice \in Directions, NEW t \in Task, SyncFullPost(choice, t)
      PROVE  Progress'
  BY <1>6 DEF SyncFullPost, StartFullTask, ResetConflict, Create, Goto
<1>7. ASSUME NEW k \in Key, Login(k)
      PROVE  Progress'
  BY <1>7 DEF Login
<1>8. ASSUME Study
      PROVE  Progress'
  BY <1>8 DEF Study
<1>9. ASSUME Restart
      PROVE  Progress'
  BY <1>9 DEF Restart, ResetConflict, NoLocal
<1>10. ASSUME NEW t \in Task, AcquireLock(t)
      PROVE  Progress'
  BY <1>10 DEF AcquireLock
<1>11. ASSUME NEW t \in Task, CollectionBegin(t)
      PROVE  Progress'
  BY <1>11 DEF CollectionBegin, BeginRun, StartPoller, Goto
<1>12. ASSUME NEW t \in Task, NEW e \in Endpoints, CollectionSynced(t, e)
      PROVE  Progress'
  BY <1>12 DEF CollectionSynced, Completes, Goto, Overwritten
<1>13. ASSUME NEW t \in Task, NEW k \in FullSyncKinds, NEW e \in Endpoints, CollectionConflict(t, k, e)
      PROVE  Progress'
  BY <1>13 DEF CollectionConflict, Completes, BeginConflict, StopPoller, Return, Goto, NoLocal, FullSyncKinds
<1>14. ASSUME NEW t \in Task, NEW code \in ErrorCodes, CollectionFailed(t, code)
      PROVE  Progress'
  BY <1>14 DEF CollectionFailed, Completes, FailTask, FailSync, StopPoller, Return, Goto, NoLocal
<1>15. ASSUME NEW t \in Task, NEW raised \in BOOLEAN, CardsCounted(t, raised)
      PROVE  Progress'
  BY <1>15 DEF CardsCounted, Completes, Goto, StopPoller
<1>16. ASSUME NEW t \in Task, AutoDownloaded(t)
      PROVE  Progress'
  BY <1>16 DEF AutoDownloaded, Completes, Overwritten, StopPoller, Goto
<1>17. ASSUME NEW t \in Task, NEW code \in ErrorCodes, AutoDownloadFailed(t, code)
      PROVE  Progress'
  BY <1>17 DEF AutoDownloadFailed, Completes, FailTask, FailSync, StopPoller, Return, Goto, NoLocal
<1>18. ASSUME NEW t \in Task, FullBegin(t)
      PROVE  Progress'
  BY <1>18 DEF FullBegin, BeginRun, StartPoller, Goto
<1>19. ASSUME NEW t \in Task, FullTransferred(t)
      PROVE  Progress'
  BY <1>19 DEF FullTransferred, Completes, Overwritten, StopPoller, Goto
<1>20. ASSUME NEW t \in Task, NEW code \in ErrorCodes, FullFailed(t, code)
      PROVE  Progress'
  BY <1>20 DEF FullFailed, Completes, FailTask, FailSync, StopPoller, Return, Goto, NoLocal
<1>21. ASSUME NEW t \in Task, StartMedia(t)
      PROVE  Progress'
  BY <1>21 DEF StartMedia, BeginRun, Goto
<1>22. ASSUME NEW t \in Task, MediaBegin(t)
      PROVE  Progress'
  BY <1>22 DEF MediaBegin, BeginRun, Goto
<1>23. ASSUME NEW t \in Task, NEW p \in MediaPhases, MediaProgress(t, p)
      PROVE  Progress'
  BY <1>23 DEF MediaProgress
<1>24. ASSUME NEW t \in Task, MediaDone(t)
      PROVE  Progress'
  BY <1>24 DEF MediaDone, Return, Goto, NoLocal
<1>25. ASSUME NEW t \in Task, MediaFailed(t)
      PROVE  Progress'
  BY <1>25 DEF MediaFailed, FailSync, Return, Goto, NoLocal
<1>26. ASSUME NEW t \in Task, PollerPeek(t)
      PROVE  Progress'
  BY <1>26 DEF PollerPeek
<1>27. ASSUME NEW t \in Task, NEW seen \in {"nothing", "bytes", "cards"}, PollerApply(t, seen)
      PROVE  Progress'
  BY <1>27 DEF PollerApply
<1>28. CASE UNCHANGED vars
  BY <1>28
<1> HIDE DEF Progress, PollerConfined, MediaPlaces, UnitMatchesPhase, Flight,
             SingleFlight, ConflictIsExclusive, Live, TypeOK, vars,
             stateVars, conflictVars, reqVars, taskVars, dataVars
<1>29. QED
  BY <1>1, <1>2, <1>3, <1>4, <1>5, <1>6, <1>7, <1>8, <1>9, <1>10, <1>11, <1>12, <1>13,
     <1>14, <1>15, <1>16, <1>17, <1>18, <1>19, <1>20, <1>21, <1>22, <1>23, <1>24, <1>25,
     <1>26, <1>27, <1>28 DEF Next, UserStep, TaskStep, ProgressStep

-----------------------------------------------------------------------------
(* The endpoint AnkiWeb named changes only in the step that gives it to    *)
(* the conflict or to the one live task.                                   *)
LEMMA EndpointStep == TypeOK /\ Flight /\ EndpointCarried /\ [Next]_vars => EndpointCarried'
<1> SUFFICES ASSUME TypeOK, Flight, EndpointCarried, [Next]_vars PROVE EndpointCarried'
  OBVIOUS
<1> USE DEF EndpointCarried, Flight, SingleFlight,
            ConflictIsExclusive, Live, TypeOK,
            vars, stateVars, conflictVars, reqVars, taskVars, dataVars
<1>1. ASSUME NEW r \in Req, SyncPostBegin(r)
      PROVE  EndpointCarried'
  BY <1>1 DEF SyncPostBegin
<1>2. ASSUME NEW r \in Req, SyncPostRedirect(r)
      PROVE  EndpointCarried'
  BY <1>2 DEF SyncPostRedirect, EndRequest
<1>3. ASSUME NEW r \in Req, NEW t \in Task, SyncPostStart(r, t)
      PROVE  EndpointCarried'
  BY <1>3 DEF SyncPostStart, EndRequest, StartCollectionTask, Create, Goto, NoLocal
<1>4. ASSUME NEW choice \in Directions \cup {"cancel"}, SyncConflictPost(choice)
      PROVE  EndpointCarried'
  BY <1>4 DEF SyncConflictPost, ResetConflict
<1>5. ASSUME NEW choice \in Directions, SyncFullPostWithoutKey(choice)
      PROVE  EndpointCarried'
  BY <1>5 DEF SyncFullPostWithoutKey, ResetConflict
<1>6. ASSUME NEW choice \in Directions, NEW t \in Task, SyncFullPost(choice, t)
      PROVE  EndpointCarried'
  BY <1>6 DEF SyncFullPost, StartFullTask, ResetConflict, Create, Goto
<1>7. ASSUME NEW k \in Key, Login(k)
      PROVE  EndpointCarried'
  BY <1>7 DEF Login
<1>8. ASSUME Study
      PROVE  EndpointCarried'
  BY <1>8 DEF Study
<1>9. ASSUME Restart
      PROVE  EndpointCarried'
  BY <1>9 DEF Restart, ResetConflict, NoLocal
<1>10. ASSUME NEW t \in Task, AcquireLock(t)
      PROVE  EndpointCarried'
  BY <1>10 DEF AcquireLock
<1>11. ASSUME NEW t \in Task, CollectionBegin(t)
      PROVE  EndpointCarried'
  BY <1>11 DEF CollectionBegin, BeginRun, StartPoller, Goto
<1>12. ASSUME NEW t \in Task, NEW e \in Endpoints, CollectionSynced(t, e)
      PROVE  EndpointCarried'
  BY <1>12 DEF CollectionSynced, Completes, Goto, Overwritten
<1>13. ASSUME NEW t \in Task, NEW k \in FullSyncKinds, NEW e \in Endpoints, CollectionConflict(t, k, e)
      PROVE  EndpointCarried'
  BY <1>13 DEF CollectionConflict, Completes, BeginConflict, StopPoller, Return, Goto, NoLocal, FullSyncKinds
<1>14. ASSUME NEW t \in Task, NEW code \in ErrorCodes, CollectionFailed(t, code)
      PROVE  EndpointCarried'
  BY <1>14 DEF CollectionFailed, Completes, FailTask, FailSync, StopPoller, Return, Goto, NoLocal
<1>15. ASSUME NEW t \in Task, NEW raised \in BOOLEAN, CardsCounted(t, raised)
      PROVE  EndpointCarried'
  BY <1>15 DEF CardsCounted, Completes, Goto, StopPoller
<1>16. ASSUME NEW t \in Task, AutoDownloaded(t)
      PROVE  EndpointCarried'
  BY <1>16 DEF AutoDownloaded, Completes, Overwritten, StopPoller, Goto
<1>17. ASSUME NEW t \in Task, NEW code \in ErrorCodes, AutoDownloadFailed(t, code)
      PROVE  EndpointCarried'
  BY <1>17 DEF AutoDownloadFailed, Completes, FailTask, FailSync, StopPoller, Return, Goto, NoLocal
<1>18. ASSUME NEW t \in Task, FullBegin(t)
      PROVE  EndpointCarried'
  BY <1>18 DEF FullBegin, BeginRun, StartPoller, Goto
<1>19. ASSUME NEW t \in Task, FullTransferred(t)
      PROVE  EndpointCarried'
  BY <1>19 DEF FullTransferred, Completes, Overwritten, StopPoller, Goto
<1>20. ASSUME NEW t \in Task, NEW code \in ErrorCodes, FullFailed(t, code)
      PROVE  EndpointCarried'
  BY <1>20 DEF FullFailed, Completes, FailTask, FailSync, StopPoller, Return, Goto, NoLocal
<1>21. ASSUME NEW t \in Task, StartMedia(t)
      PROVE  EndpointCarried'
  BY <1>21 DEF StartMedia, BeginRun, Goto
<1>22. ASSUME NEW t \in Task, MediaBegin(t)
      PROVE  EndpointCarried'
  BY <1>22 DEF MediaBegin, BeginRun, Goto
<1>23. ASSUME NEW t \in Task, NEW p \in MediaPhases, MediaProgress(t, p)
      PROVE  EndpointCarried'
  BY <1>23 DEF MediaProgress
<1>24. ASSUME NEW t \in Task, MediaDone(t)
      PROVE  EndpointCarried'
  BY <1>24 DEF MediaDone, Return, Goto, NoLocal
<1>25. ASSUME NEW t \in Task, MediaFailed(t)
      PROVE  EndpointCarried'
  BY <1>25 DEF MediaFailed, FailSync, Return, Goto, NoLocal
<1>26. ASSUME NEW t \in Task, PollerPeek(t)
      PROVE  EndpointCarried'
  BY <1>26 DEF PollerPeek
<1>27. ASSUME NEW t \in Task, NEW seen \in {"nothing", "bytes", "cards"}, PollerApply(t, seen)
      PROVE  EndpointCarried'
  BY <1>27 DEF PollerApply
<1>28. CASE UNCHANGED vars
  BY <1>28
<1> HIDE DEF EndpointCarried, Flight, SingleFlight, ConflictIsExclusive,
             Live, TypeOK, vars, stateVars, conflictVars, reqVars, taskVars,
             dataVars
<1>29. QED
  BY <1>1, <1>2, <1>3, <1>4, <1>5, <1>6, <1>7, <1>8, <1>9, <1>10, <1>11, <1>12, <1>13,
     <1>14, <1>15, <1>16, <1>17, <1>18, <1>19, <1>20, <1>21, <1>22, <1>23, <1>24, <1>25,
     <1>26, <1>27, <1>28 DEF Next, UserStep, TaskStep, ProgressStep

-----------------------------------------------------------------------------
(* A direction is there only while a conflict waits, and a task that       *)
(* transfers has one.                                                      *)
Decided ==
    /\ ~pending => direction = "none"
    /\ \A t \in Task : Transfers(t) => local[t].direction \in Directions

LEMMA DecidedStep == TypeOK /\ Flight /\ Decided /\ [Next]_vars => Decided'
<1> SUFFICES ASSUME TypeOK, Flight, Decided, [Next]_vars PROVE Decided'
  OBVIOUS
<1> USE DEF Decided, Transfers, Flight, SingleFlight, ConflictIsExclusive, Live, TypeOK,
            vars, stateVars, conflictVars, reqVars, taskVars, dataVars
<1>1. ASSUME NEW r \in Req, SyncPostBegin(r)
      PROVE  Decided'
  BY <1>1 DEF SyncPostBegin
<1>2. ASSUME NEW r \in Req, SyncPostRedirect(r)
      PROVE  Decided'
  BY <1>2 DEF SyncPostRedirect, EndRequest
<1>3. ASSUME NEW r \in Req, NEW t \in Task, SyncPostStart(r, t)
      PROVE  Decided'
  BY <1>3 DEF SyncPostStart, EndRequest, StartCollectionTask, Create, Goto, NoLocal
<1>4. ASSUME NEW choice \in Directions \cup {"cancel"}, SyncConflictPost(choice)
      PROVE  Decided'
  BY <1>4 DEF SyncConflictPost, ResetConflict
<1>5. ASSUME NEW choice \in Directions, SyncFullPostWithoutKey(choice)
      PROVE  Decided'
  BY <1>5 DEF SyncFullPostWithoutKey, ResetConflict
<1>6. ASSUME NEW choice \in Directions, NEW t \in Task, SyncFullPost(choice, t)
      PROVE  Decided'
  BY <1>6 DEF SyncFullPost, StartFullTask, ResetConflict, Create, Goto
<1>7. ASSUME NEW k \in Key, Login(k)
      PROVE  Decided'
  BY <1>7 DEF Login
<1>8. ASSUME Study
      PROVE  Decided'
  BY <1>8 DEF Study
<1>9. ASSUME Restart
      PROVE  Decided'
  BY <1>9 DEF Restart, ResetConflict, NoLocal
<1>10. ASSUME NEW t \in Task, AcquireLock(t)
      PROVE  Decided'
  BY <1>10 DEF AcquireLock
<1>11. ASSUME NEW t \in Task, CollectionBegin(t)
      PROVE  Decided'
  BY <1>11 DEF CollectionBegin, BeginRun, StartPoller, Goto
<1>12. ASSUME NEW t \in Task, NEW e \in Endpoints, CollectionSynced(t, e)
      PROVE  Decided'
  BY <1>12 DEF CollectionSynced, Completes, Goto, Overwritten
<1>13. ASSUME NEW t \in Task, NEW k \in FullSyncKinds, NEW e \in Endpoints, CollectionConflict(t, k, e)
      PROVE  Decided'
  BY <1>13 DEF CollectionConflict, Completes, BeginConflict, StopPoller, Return, Goto, NoLocal, FullSyncKinds
<1>14. ASSUME NEW t \in Task, NEW code \in ErrorCodes, CollectionFailed(t, code)
      PROVE  Decided'
  BY <1>14 DEF CollectionFailed, Completes, FailTask, FailSync, StopPoller, Return, Goto, NoLocal
<1>15. ASSUME NEW t \in Task, NEW raised \in BOOLEAN, CardsCounted(t, raised)
      PROVE  Decided'
  BY <1>15 DEF CardsCounted, Completes, Goto, StopPoller
<1>16. ASSUME NEW t \in Task, AutoDownloaded(t)
      PROVE  Decided'
  BY <1>16 DEF AutoDownloaded, Completes, Overwritten, StopPoller, Goto
<1>17. ASSUME NEW t \in Task, NEW code \in ErrorCodes, AutoDownloadFailed(t, code)
      PROVE  Decided'
  BY <1>17 DEF AutoDownloadFailed, Completes, FailTask, FailSync, StopPoller, Return, Goto, NoLocal
<1>18. ASSUME NEW t \in Task, FullBegin(t)
      PROVE  Decided'
  BY <1>18 DEF FullBegin, BeginRun, StartPoller, Goto
<1>19. ASSUME NEW t \in Task, FullTransferred(t)
      PROVE  Decided'
  BY <1>19 DEF FullTransferred, Completes, Overwritten, StopPoller, Goto
<1>20. ASSUME NEW t \in Task, NEW code \in ErrorCodes, FullFailed(t, code)
      PROVE  Decided'
  BY <1>20 DEF FullFailed, Completes, FailTask, FailSync, StopPoller, Return, Goto, NoLocal
<1>21. ASSUME NEW t \in Task, StartMedia(t)
      PROVE  Decided'
  BY <1>21 DEF StartMedia, BeginRun, Goto
<1>22. ASSUME NEW t \in Task, MediaBegin(t)
      PROVE  Decided'
  BY <1>22 DEF MediaBegin, BeginRun, Goto
<1>23. ASSUME NEW t \in Task, NEW p \in MediaPhases, MediaProgress(t, p)
      PROVE  Decided'
  BY <1>23 DEF MediaProgress
<1>24. ASSUME NEW t \in Task, MediaDone(t)
      PROVE  Decided'
  BY <1>24 DEF MediaDone, Return, Goto, NoLocal
<1>25. ASSUME NEW t \in Task, MediaFailed(t)
      PROVE  Decided'
  BY <1>25 DEF MediaFailed, FailSync, Return, Goto, NoLocal
<1>26. ASSUME NEW t \in Task, PollerPeek(t)
      PROVE  Decided'
  BY <1>26 DEF PollerPeek
<1>27. ASSUME NEW t \in Task, NEW seen \in {"nothing", "bytes", "cards"}, PollerApply(t, seen)
      PROVE  Decided'
  BY <1>27 DEF PollerApply
<1>28. CASE UNCHANGED vars
  BY <1>28
<1> HIDE DEF Decided, Transfers, Flight, SingleFlight, ConflictIsExclusive, Live, TypeOK, vars,
             stateVars, conflictVars, reqVars, taskVars, dataVars
<1>29. QED
  BY <1>1, <1>2, <1>3, <1>4, <1>5, <1>6, <1>7, <1>8, <1>9, <1>10, <1>11, <1>12, <1>13,
     <1>14, <1>15, <1>16, <1>17, <1>18, <1>19, <1>20, <1>21, <1>22, <1>23, <1>24, <1>25,
     <1>26, <1>27, <1>28 DEF Next, UserStep, TaskStep, ProgressStep

-----------------------------------------------------------------------------
LEMMA InitInv == Init => TypeOK /\ Flight /\ Progress /\ EndpointCarried /\ Decided
<1> SUFFICES ASSUME Init PROVE TypeOK /\ Flight /\ Progress /\ EndpointCarried /\ Decided
  OBVIOUS
<1>1. cards \in BOOLEAN /\ unsynced \in BOOLEAN
  BY Zenon DEF Init
<1>2. TypeOK
  BY <1>1 DEF Init, TypeOK, NoLocal
<1>3. Flight
  BY DEF Init, Flight, SingleFlight, ConflictIsExclusive, Live
<1>4. Progress
  BY DEF Init, Progress, PollerConfined, UnitMatchesPhase
<1>5. EndpointCarried
  BY DEF Init, EndpointCarried
<1>6. Decided
  BY DEF Init, Decided, Transfers
<1>7. QED
  BY <1>2, <1>3, <1>4, <1>5, <1>6

IInv == TypeOK /\ Flight /\ Progress /\ EndpointCarried /\ Decided

LEMMA InductiveInv == Spec => []IInv
<1>1. Init => IInv
  BY InitInv DEF IInv
<1>2. IInv /\ [Next]_vars => IInv'
  BY TypeStep, FlightStep, ProgressStepKept, EndpointStep, DecidedStep DEF IInv
<1>3. QED
  BY <1>1, <1>2, PTL DEF Spec

(* Every variable of the flow keeps its type.                              *)
THEOREM TypeCorrect == Spec => []TypeOK
BY InductiveInv, PTL DEF IInv

(* However many requests overlap, one background task runs at a time, and  *)
(* "running" is shown exactly while it does.                               *)
THEOREM AlwaysSingleFlight == Spec => []SingleFlight
BY InductiveInv, PTL DEF IInv, Flight

(* Nothing runs while the user is asked for a direction.                   *)
THEOREM AlwaysConflictIsExclusive == Spec => []ConflictIsExclusive
BY InductiveInv, PTL DEF IInv, Flight

(* A job's transfers go to the server AnkiWeb last named.                  *)
THEOREM AlwaysEndpointCarried == Spec => []EndpointCarried
BY InductiveInv, PTL DEF IInv

(* A stopped poller never writes over the media progress.                  *)
THEOREM AlwaysUnitMatchesPhase == Spec => []UnitMatchesPhase
BY InductiveInv, PTL DEF IInv, Progress
-----------------------------------------------------------------------------
(* A transfer goes on in its direction, or begins in the one the conflict  *)
(* was decided.                                                            *)
GoesOn(s) == Transfers(s) /\ local'[s].direction = local[s].direction
Begins(s) == pending /\ local'[s].direction = direction

LEMMA TransferStep ==
    ASSUME TypeOK, Flight, [Next]_vars, NEW s \in Task, Transfers(s)'
    PROVE  GoesOn(s) \/ Begins(s)
<1> USE DEF GoesOn, Begins, Transfers, Flight, SingleFlight, ConflictIsExclusive, Live, TypeOK,
            vars, stateVars, conflictVars, reqVars, taskVars, dataVars
<1>1. ASSUME NEW r \in Req, SyncPostBegin(r)
      PROVE  GoesOn(s) \/ Begins(s)
  BY <1>1 DEF SyncPostBegin
<1>2. ASSUME NEW r \in Req, SyncPostRedirect(r)
      PROVE  GoesOn(s) \/ Begins(s)
  BY <1>2 DEF SyncPostRedirect, EndRequest
<1>3. ASSUME NEW r \in Req, NEW t \in Task, SyncPostStart(r, t)
      PROVE  GoesOn(s) \/ Begins(s)
  BY <1>3 DEF SyncPostStart, EndRequest, StartCollectionTask, Create, Goto, NoLocal
<1>4. ASSUME NEW choice \in Directions \cup {"cancel"}, SyncConflictPost(choice)
      PROVE  GoesOn(s) \/ Begins(s)
  BY <1>4 DEF SyncConflictPost, ResetConflict
<1>5. ASSUME NEW choice \in Directions, SyncFullPostWithoutKey(choice)
      PROVE  GoesOn(s) \/ Begins(s)
  BY <1>5 DEF SyncFullPostWithoutKey, ResetConflict
<1>6. ASSUME NEW choice \in Directions, NEW t \in Task, SyncFullPost(choice, t)
      PROVE  GoesOn(s) \/ Begins(s)
  BY <1>6 DEF SyncFullPost, StartFullTask, ResetConflict, Create, Goto
<1>7. ASSUME NEW k \in Key, Login(k)
      PROVE  GoesOn(s) \/ Begins(s)
  BY <1>7 DEF Login
<1>8. ASSUME Study
      PROVE  GoesOn(s) \/ Begins(s)
  BY <1>8 DEF Study
<1>9. ASSUME Restart
      PROVE  GoesOn(s) \/ Begins(s)
  BY <1>9 DEF Restart, ResetConflict, NoLocal
<1>10. ASSUME NEW t \in Task, AcquireLock(t)
      PROVE  GoesOn(s) \/ Begins(s)
  BY <1>10 DEF AcquireLock
<1>11. ASSUME NEW t \in Task, CollectionBegin(t)
      PROVE  GoesOn(s) \/ Begins(s)
  BY <1>11 DEF CollectionBegin, BeginRun, StartPoller, Goto
<1>12. ASSUME NEW t \in Task, NEW e \in Endpoints, CollectionSynced(t, e)
      PROVE  GoesOn(s) \/ Begins(s)
  BY <1>12 DEF CollectionSynced, Completes, Goto, Overwritten
<1>13. ASSUME NEW t \in Task, NEW k \in FullSyncKinds, NEW e \in Endpoints, CollectionConflict(t, k, e)
      PROVE  GoesOn(s) \/ Begins(s)
  BY <1>13 DEF CollectionConflict, Completes, BeginConflict, StopPoller, Return, Goto, NoLocal, FullSyncKinds
<1>14. ASSUME NEW t \in Task, NEW code \in ErrorCodes, CollectionFailed(t, code)
      PROVE  GoesOn(s) \/ Begins(s)
  BY <1>14 DEF CollectionFailed, Completes, FailTask, FailSync, StopPoller, Return, Goto, NoLocal
<1>15. ASSUME NEW t \in Task, NEW raised \in BOOLEAN, CardsCounted(t, raised)
      PROVE  GoesOn(s) \/ Begins(s)
  BY <1>15 DEF CardsCounted, Completes, Goto, StopPoller
<1>16. ASSUME NEW t \in Task, AutoDownloaded(t)
      PROVE  GoesOn(s) \/ Begins(s)
  BY <1>16 DEF AutoDownloaded, Completes, Overwritten, StopPoller, Goto
<1>17. ASSUME NEW t \in Task, NEW code \in ErrorCodes, AutoDownloadFailed(t, code)
      PROVE  GoesOn(s) \/ Begins(s)
  BY <1>17 DEF AutoDownloadFailed, Completes, FailTask, FailSync, StopPoller, Return, Goto, NoLocal
<1>18. ASSUME NEW t \in Task, FullBegin(t)
      PROVE  GoesOn(s) \/ Begins(s)
  BY <1>18 DEF FullBegin, BeginRun, StartPoller, Goto
<1>19. ASSUME NEW t \in Task, FullTransferred(t)
      PROVE  GoesOn(s) \/ Begins(s)
  BY <1>19 DEF FullTransferred, Completes, Overwritten, StopPoller, Goto
<1>20. ASSUME NEW t \in Task, NEW code \in ErrorCodes, FullFailed(t, code)
      PROVE  GoesOn(s) \/ Begins(s)
  BY <1>20 DEF FullFailed, Completes, FailTask, FailSync, StopPoller, Return, Goto, NoLocal
<1>21. ASSUME NEW t \in Task, StartMedia(t)
      PROVE  GoesOn(s) \/ Begins(s)
  BY <1>21 DEF StartMedia, BeginRun, Goto
<1>22. ASSUME NEW t \in Task, MediaBegin(t)
      PROVE  GoesOn(s) \/ Begins(s)
  BY <1>22 DEF MediaBegin, BeginRun, Goto
<1>23. ASSUME NEW t \in Task, NEW p \in MediaPhases, MediaProgress(t, p)
      PROVE  GoesOn(s) \/ Begins(s)
  BY <1>23 DEF MediaProgress
<1>24. ASSUME NEW t \in Task, MediaDone(t)
      PROVE  GoesOn(s) \/ Begins(s)
  BY <1>24 DEF MediaDone, Return, Goto, NoLocal
<1>25. ASSUME NEW t \in Task, MediaFailed(t)
      PROVE  GoesOn(s) \/ Begins(s)
  BY <1>25 DEF MediaFailed, FailSync, Return, Goto, NoLocal
<1>26. ASSUME NEW t \in Task, PollerPeek(t)
      PROVE  GoesOn(s) \/ Begins(s)
  BY <1>26 DEF PollerPeek
<1>27. ASSUME NEW t \in Task, NEW seen \in {"nothing", "bytes", "cards"}, PollerApply(t, seen)
      PROVE  GoesOn(s) \/ Begins(s)
  BY <1>27 DEF PollerApply
<1>28. CASE UNCHANGED vars
  BY <1>28
<1> HIDE DEF GoesOn, Begins, Transfers, Flight, SingleFlight, ConflictIsExclusive, Live, TypeOK, vars,
             stateVars, conflictVars, reqVars, taskVars, dataVars
<1>29. QED
  BY <1>1, <1>2, <1>3, <1>4, <1>5, <1>6, <1>7, <1>8, <1>9, <1>10, <1>11, <1>12, <1>13,
     <1>14, <1>15, <1>16, <1>17, <1>18, <1>19, <1>20, <1>21, <1>22, <1>23, <1>24, <1>25,
     <1>26, <1>27, <1>28 DEF Next, UserStep, TaskStep, ProgressStep

(* The mapping picks the direction of the only task that transfers.        *)
LEMMA GoingIs ==
    ASSUME Flight, Decided, NEW t \in Task, Transfers(t)
    PROVE  Stage = "transfer" /\ Going = local[t].direction
<1>1. \A s \in Task : Transfers(s) => s = t
  BY DEF Flight, SingleFlight, Live, Transfers
<1>2. Stage = "transfer"
  BY DEF Flight, SingleFlight, Live, Transfers, Stage
<1>3. local[t].direction \in Directions
  BY DEF Decided
<1>4. QED
  BY <1>1, <1>2, <1>3 DEF Going

LEMMA GoingIsNext ==
    ASSUME Flight', Decided', NEW t \in Task, Transfers(t)'
    PROVE  Stage' = "transfer" /\ Going' = local'[t].direction
<1>1. \A s \in Task : Transfers(s)' => s = t
  BY DEF Flight, SingleFlight, Live, Transfers
<1>2. Stage' = "transfer"
  BY DEF Flight, SingleFlight, Live, Transfers, Stage
<1>3. local'[t].direction \in Directions
  BY DEF Decided
<1>4. QED
  BY <1>1, <1>2, <1>3 DEF Going

LEMMA GoingStep ==
    ASSUME TypeOK, Flight, Decided, Flight', Decided', [Next]_vars
    PROVE  /\ Stage # "transfer" => Going = "none"
           /\ Stage' # "transfer" => Going' = "none"
           /\ Stage' = "transfer" => Going' = IF Stage = "transfer" THEN Going ELSE direction
<1>1. ASSUME Stage' = "transfer"
      PROVE  Going' = IF Stage = "transfer" THEN Going ELSE direction
  <2>1. PICK s \in Task : Transfers(s)'
    BY <1>1 DEF Stage
  <2>2. Going' = local'[s].direction
    BY <2>1, GoingIsNext
  <2>3. CASE GoesOn(s)
    BY <2>2, <2>3, GoingIs DEF GoesOn
  <2>4. CASE Begins(s)
    <3>1. Stage # "transfer"
      BY <2>4 DEF Begins, Stage, Flight, ConflictIsExclusive
    <3>2. QED
      BY <2>2, <2>4, <3>1 DEF Begins
  <2>5. QED
    BY <2>1, <2>3, <2>4, TransferStep
<1>2. QED
  BY <1>1 DEF Going

(* Every step of SyncFlow is a step of SyncJob, seen through the mapping   *)
(* of SyncFlow's Job, or leaves the job as it is.                          *)
LEMMA JobStep ==
    ASSUME TypeOK, Flight, Decided, TypeOK', Flight', Decided', [Next]_vars
    PROVE  [Job!Next]_(Job!jobVars)
<1>0. /\ Stage # "transfer" => Going = "none"
      /\ Stage' # "transfer" => Going' = "none"
      /\ Stage' = "transfer" => Going' = IF Stage = "transfer" THEN Going ELSE direction
  BY GoingStep
<1> USE DEF Flight, SingleFlight, ConflictIsExclusive, Live, TypeOK, Stage,
            Transfers, Job!jobVars, Job!Goto, Job!Choice, Job!Directions,
            vars, stateVars, conflictVars, reqVars, taskVars, dataVars
<1> USE <1>0
<1>1. ASSUME NEW r \in Req, SyncPostBegin(r)
      PROVE  [Job!Next]_(Job!jobVars)
  BY <1>1 DEF SyncPostBegin
<1>2. ASSUME NEW r \in Req, SyncPostRedirect(r)
      PROVE  [Job!Next]_(Job!jobVars)
  BY <1>2 DEF SyncPostRedirect, EndRequest
<1>3. ASSUME NEW r \in Req, NEW t \in Task, SyncPostStart(r, t)
      PROVE  [Job!Next]_(Job!jobVars)
  <2>1. pc' = [s \in Task |-> IF s = t THEN "collection_created" ELSE "free"]
    BY <1>3 DEF SyncPostStart, StartCollectionTask, Create, Goto
  <2>2. status' = "running" /\ Stage' = "exchange"
    BY <1>3, <2>1 DEF SyncPostStart, StartCollectionTask
  <2>3. Stage = "none" /\ status \in {"idle", "done", "error"} /\ ~pending /\ ~pending'
    <3>1. status \in Statuses /\ pending \in BOOLEAN
      OBVIOUS
    <3>2. status # "running" /\ ~pending /\ pending' = pending
      BY <1>3 DEF SyncPostStart, StartCollectionTask
    <3> QED
      BY <3>1, <3>2, Zenon DEF Statuses
  <2>4. UNCHANGED <<direction, hostKey>> /\ Going = "none" /\ Going' = "none"
    BY <1>3, <2>2, <2>3 DEF SyncPostStart, StartCollectionTask
  <2>5. Job!Start
    BY <2>2, <2>3, <2>4 DEF Job!Start
  <2> QED
    BY <2>5 DEF Job!Next
<1>4. ASSUME NEW choice \in Directions \cup {"cancel"}, SyncConflictPost(choice)
      PROVE  [Job!Next]_(Job!jobVars)
  <2>1. /\ pending /\ Stage = "none" /\ Stage' = "none" /\ UNCHANGED <<status, error, hostKey>>
    BY <1>4 DEF SyncConflictPost
  <2>2. CASE choice = "cancel"
    BY <1>4, <2>1, <2>2 DEF SyncConflictPost, ResetConflict, Job!Next, Job!Cancel
  <2>3. CASE choice # "cancel"
    <3>1. choice \in Directions /\ direction' = choice /\ pending' = pending
      BY <1>4, <2>3 DEF SyncConflictPost
    <3>2. Job!Choose(choice)
      BY <2>1, <3>1 DEF Job!Choose
    <3> QED
      BY <3>1, <3>2 DEF Job!Next
  <2> QED
    BY <2>2, <2>3
<1>5. ASSUME NEW choice \in Directions, SyncFullPostWithoutKey(choice)
      PROVE  [Job!Next]_(Job!jobVars)
  BY <1>5 DEF SyncFullPostWithoutKey, ResetConflict, Job!Next, Job!Cancel
<1>6. ASSUME NEW choice \in Directions, NEW t \in Task, SyncFullPost(choice, t)
      PROVE  [Job!Next]_(Job!jobVars)
  BY <1>6 DEF SyncFullPost, StartFullTask, ResetConflict, Create, Goto, Job!Next, Job!Confirm
<1>7. ASSUME NEW k \in Key, Login(k)
      PROVE  [Job!Next]_(Job!jobVars)
  <2>1. hostKey' # NoKey /\ Stage' = Stage /\ Going' = Going
    BY <1>7, NoKeyAssumption DEF Login
  <2>2. Job!Login
    BY <1>7, <2>1 DEF Login, Job!Login
  <2> QED
    BY <2>2 DEF Job!Next
<1>8. ASSUME Study
      PROVE  [Job!Next]_(Job!jobVars)
  BY <1>8 DEF Study
<1>9. ASSUME Restart
      PROVE  [Job!Next]_(Job!jobVars)
  <2>1. /\ status' = "idle" /\ error' = "none" /\ pending' = FALSE /\ direction' = "none"
        /\ Stage' = "none" /\ Going' = "none" /\ hostKey' = hostKey
    BY <1>9 DEF Restart, ResetConflict
  <2>2. CASE pending \/ status # "idle"
    BY <2>1, <2>2 DEF Job!Next, Job!Restart
  <2>3. CASE ~pending /\ status = "idle"
    BY <2>1, <2>3 DEF Decided
  <2> QED
    BY <2>2, <2>3
<1>10. ASSUME NEW t \in Task, AcquireLock(t)
      PROVE  [Job!Next]_(Job!jobVars)
  BY <1>10 DEF AcquireLock
<1>11. ASSUME NEW t \in Task, CollectionBegin(t)
      PROVE  [Job!Next]_(Job!jobVars)
  BY <1>11 DEF CollectionBegin, BeginRun, StartPoller, Goto, Job!Next
<1>12. ASSUME NEW t \in Task, NEW e \in Endpoints, CollectionSynced(t, e)
      PROVE  [Job!Next]_(Job!jobVars)
  BY <1>12 DEF CollectionSynced, Completes, Goto, Overwritten, Job!Next
<1>13. ASSUME NEW t \in Task, NEW k \in FullSyncKinds, NEW e \in Endpoints, CollectionConflict(t, k, e)
      PROVE  [Job!Next]_(Job!jobVars)
  BY <1>13 DEF CollectionConflict, Completes, BeginConflict, StopPoller, Return, Goto, NoLocal, FullSyncKinds, Job!Next, Job!Ask
<1>14. ASSUME NEW t \in Task, NEW code \in ErrorCodes, CollectionFailed(t, code)
      PROVE  [Job!Next]_(Job!jobVars)
  BY <1>14 DEF CollectionFailed, Completes, FailTask, FailSync, StopPoller, Return, Goto, NoLocal, Job!Next, Job!Fail
<1>15. ASSUME NEW t \in Task, NEW raised \in BOOLEAN, CardsCounted(t, raised)
      PROVE  [Job!Next]_(Job!jobVars)
  BY <1>15 DEF CardsCounted, Completes, Goto, StopPoller, Job!Next, Job!Cancel, Job!Restart, Job!Media
<1>16. ASSUME NEW t \in Task, AutoDownloaded(t)
      PROVE  [Job!Next]_(Job!jobVars)
  BY <1>16 DEF AutoDownloaded, Completes, Overwritten, StopPoller, Goto, Job!Next, Job!Media
<1>17. ASSUME NEW t \in Task, NEW code \in ErrorCodes, AutoDownloadFailed(t, code)
      PROVE  [Job!Next]_(Job!jobVars)
  BY <1>17 DEF AutoDownloadFailed, Completes, FailTask, FailSync, StopPoller, Return, Goto, NoLocal, Job!Next, Job!Fail
<1>18. ASSUME NEW t \in Task, FullBegin(t)
      PROVE  [Job!Next]_(Job!jobVars)
  BY <1>18 DEF FullBegin, BeginRun, StartPoller, Goto, Job!Next
<1>19. ASSUME NEW t \in Task, FullTransferred(t)
      PROVE  [Job!Next]_(Job!jobVars)
  BY <1>19 DEF FullTransferred, Completes, Overwritten, StopPoller, Goto, Job!Next, Job!Media
<1>20. ASSUME NEW t \in Task, NEW code \in ErrorCodes, FullFailed(t, code)
      PROVE  [Job!Next]_(Job!jobVars)
  BY <1>20 DEF FullFailed, Completes, FailTask, FailSync, StopPoller, Return, Goto, NoLocal, Job!Next, Job!Fail
<1>21. ASSUME NEW t \in Task, StartMedia(t)
      PROVE  [Job!Next]_(Job!jobVars)
  BY <1>21 DEF StartMedia, BeginRun, Goto, Job!Next
<1>22. ASSUME NEW t \in Task, MediaBegin(t)
      PROVE  [Job!Next]_(Job!jobVars)
  BY <1>22 DEF MediaBegin, BeginRun, Goto, Job!Next
<1>23. ASSUME NEW t \in Task, NEW p \in MediaPhases, MediaProgress(t, p)
      PROVE  [Job!Next]_(Job!jobVars)
  BY <1>23 DEF MediaProgress
<1>24. ASSUME NEW t \in Task, MediaDone(t)
      PROVE  [Job!Next]_(Job!jobVars)
  BY <1>24 DEF MediaDone, Return, Goto, NoLocal, Job!Next, Job!Finish
<1>25. ASSUME NEW t \in Task, MediaFailed(t)
      PROVE  [Job!Next]_(Job!jobVars)
  BY <1>25 DEF MediaFailed, FailSync, Return, Goto, NoLocal, Job!Next, Job!Fail
<1>26. ASSUME NEW t \in Task, PollerPeek(t)
      PROVE  [Job!Next]_(Job!jobVars)
  BY <1>26 DEF PollerPeek
<1>27. ASSUME NEW t \in Task, NEW seen \in {"nothing", "bytes", "cards"}, PollerApply(t, seen)
      PROVE  [Job!Next]_(Job!jobVars)
  BY <1>27 DEF PollerApply
<1>28. CASE UNCHANGED vars
  BY <1>28
<1> HIDE DEF Flight, SingleFlight, ConflictIsExclusive, Live, TypeOK, Stage,
             Job!jobVars, Job!Goto, vars, stateVars, conflictVars, reqVars,
             taskVars, dataVars
<1>29. QED
  BY <1>1, <1>2, <1>3, <1>4, <1>5, <1>6, <1>7, <1>8, <1>9, <1>10, <1>11, <1>12, <1>13,
     <1>14, <1>15, <1>16, <1>17, <1>18, <1>19, <1>20, <1>21, <1>22, <1>23, <1>24, <1>25,
     <1>26, <1>27, <1>28 DEF Next, UserStep, TaskStep, ProgressStep

(* The safety part of SyncJob: what every client of the routes may rely on *)
(* holds of the handlers and tasks, whatever the interleaving.             *)
THEOREM ImplementsJob == Spec => Job!Init /\ [][Job!Next]_(Job!jobVars)
<1>1. Init => Job!Init
  BY DEF Init, Job!Init, Stage, Going
<1>2. IInv /\ IInv' /\ [Next]_vars => [Job!Next]_(Job!jobVars)
  BY JobStep, Zenon DEF IInv
<1>3. QED
  BY <1>1, <1>2, InductiveInv, PTL DEF Spec

(* Whatever the users click meanwhile, a task transfers in the direction   *)
(* it has, and it got the one the conflict was decided.                    *)
TransfersAsDecided == \A t \in Task : Transfers(t)' => GoesOn(t) \/ Begins(t)

THEOREM AlwaysTransfersAsDecided == Spec => [][TransfersAsDecided]_vars
<1>1. IInv /\ [Next]_vars => TransfersAsDecided
  BY TransferStep DEF IInv, TransfersAsDecided
<1>2. QED
  BY <1>1, InductiveInv, PTL DEF Spec

(* The hostKey is lost only with a job that ends in auth_expired, so that  *)
(* the wait page sends its user to sign in.                                *)
KeyLostByExpiry ==
    hostKey # NoKey /\ hostKey' = NoKey => status' = "error" /\ error' = "auth_expired"

THEOREM AlwaysKeyLostByExpiry == Spec => [][KeyLostByExpiry]_vars
<1>1. ASSUME [Job!Next]_(Job!jobVars)
      PROVE  KeyLostByExpiry
  BY <1>1 DEF KeyLostByExpiry, Job!Next, Job!jobVars, Job!Goto, Job!Start, Job!Ask, Job!Choose,
              Job!Cancel, Job!Confirm, Job!Media, Job!Finish, Job!Fail, Job!Login, Job!Restart
<1>2. IInv /\ IInv' /\ [Next]_vars => KeyLostByExpiry
  BY <1>1, JobStep DEF IInv
<1>3. QED
  BY <1>2, InductiveInv, PTL DEF Spec
=============================================================================
