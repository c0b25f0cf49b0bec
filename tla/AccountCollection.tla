-------------------------- MODULE AccountCollection --------------------------
(***************************************************************************)
(* The Anki collection of one account and who may touch it: Account.run    *)
(* and run_extended (storage/account.py), the sweeper that closes idle     *)
(* collections (storage/eviction.py), full transfers, which take the       *)
(* collection apart and put it back (sync/client.py), and the status check *)
(* of the study pages, which gives up after three seconds.                 *)
(*                                                                         *)
(* A coroutine waits for the asyncio.Lock in arrival order, opens the      *)
(* collection if it is closed, hands its function to the thread pool and   *)
(* holds the lock while it awaits the thread.  A coroutine that gives up   *)
(* releases the lock, but a thread that runs cannot be stopped.            *)
(*                                                                         *)
(* Left out: Account.peek, which takes no lock and changes nothing, and    *)
(* what the functions do to the collection's content.                      *)
(***************************************************************************)
EXTENDS Naturals, FiniteSets

CONSTANTS
    Caller,      \* coroutines that may call Account.run
    Sweeper,     \* the coroutine of idle_collection_sweeper
    Nobody,
    PoolSize     \* worker threads of the default executor

ASSUME ActorAssumption == Sweeper \notin Caller /\ Nobody \notin Caller \cup {Sweeper}
ASSUME PoolAssumption == PoolSize \in Nat \ {0}

Actor == Caller \cup {Sweeper}

VARIABLES
    place,      \* where each coroutine is: "idle", "waiting" or "running"
    function,   \* the function a caller wants to run
    holder,     \* who holds Account._lock
    ahead,      \* the lock's queue: who came before each waiter
    thread,     \* the worker thread of each coroutine's call
    collection, \* Account._collection
    recent      \* accessed within _IDLE_SECONDS_OPENED_COLLECTION

lockVars == <<holder, ahead>>
vars == <<place, function, lockVars, thread, collection, recent>>

(* "status" is the one function called under asyncio.wait_for; "transfer"  *)
(* is a full upload or download; "study" is any other.                     *)
Functions == {"study", "status", "transfer"}

(* "queued" in the executor, "running", or, for a transfer, between        *)
(* close_for_full_sync and reopen.                                         *)
Threads == {"none", "queued", "running", "transferring"}

(* "detached": the Collection object is there and its database is closed.  *)
Collections == {"closed", "open", "detached"}

TypeOK ==
    /\ place \in [Actor -> {"idle", "waiting", "running"}]
    /\ function \in [Caller -> Functions]
    /\ holder \in Actor \cup {Nobody}
    /\ ahead \in [Actor -> SUBSET Actor]
    /\ thread \in [Actor -> Threads]
    /\ collection \in Collections
    /\ recent \in BOOLEAN

Init ==
    /\ place = [a \in Actor |-> "idle"]
    /\ function = [c \in Caller |-> "study"]
    /\ holder = Nobody
    /\ ahead = [a \in Actor |-> {}]
    /\ thread = [a \in Actor |-> "none"]
    /\ collection = "closed"
    /\ recent = FALSE

Waiting == {a \in Actor : place[a] = "waiting"}

Enqueue(a) ==
    /\ place' = [place EXCEPT ![a] = "waiting"]
    /\ ahead' = [ahead EXCEPT ![a] = Waiting]
    /\ UNCHANGED holder

Dequeue(a) == ahead' = [b \in Actor |-> ahead[b] \ {a}]

(* The first waiter finds the lock free, ... *)
FirstAtLock(a) ==
    /\ holder = Nobody
    /\ place[a] = "waiting"
    /\ ahead[a] = {}
    /\ Dequeue(a)

(* ... keeps it while its thread works, ... *)
Admit(a) ==
    /\ FirstAtLock(a)
    /\ holder' = a
    /\ place' = [place EXCEPT ![a] = "running"]

(* ... or leaves at once. *)
PassBy(a) ==
    /\ FirstAtLock(a)
    /\ place' = [place EXCEPT ![a] = "idle"]
    /\ UNCHANGED holder

Leave(a) ==
    /\ place' = [place EXCEPT ![a] = "idle"]
    /\ holder' = Nobody
    /\ UNCHANGED ahead

-----------------------------------------------------------------------------
Call(c, f) ==
    /\ place[c] = "idle"
    /\ thread[c] = "none"
    /\ Enqueue(c)
    /\ function' = [function EXCEPT ![c] = f]
    /\ UNCHANGED <<thread, collection, recent>>

(* _ensure_collection_open succeeds, or there is nothing to open. *)
Enter(c) ==
    /\ Admit(c)
    /\ collection' = IF collection = "closed" THEN "open" ELSE collection
    /\ recent' = TRUE
    /\ thread' = [thread EXCEPT ![c] = "queued"]
    /\ UNCHANGED function

(* Opening raises: the exception leaves the `async with`. *)
OpenFails(c) ==
    /\ collection = "closed"
    /\ PassBy(c)
    /\ UNCHANGED <<function, thread, collection, recent>>

Busy == {a \in Actor : thread[a] \in {"running", "transferring"}}

ThreadStarts(a) ==
    /\ thread[a] = "queued"
    /\ Cardinality(Busy) < PoolSize
    /\ thread' = [thread EXCEPT ![a] = "running"]
    /\ UNCHANGED <<place, function, lockVars, collection, recent>>

(* close_for_full_sync, at the start of a full transfer. *)
Detach(c) ==
    /\ thread[c] = "running"
    /\ function[c] = "transfer"
    /\ thread' = [thread EXCEPT ![c] = "transferring"]
    /\ collection' = "detached"
    /\ UNCHANGED <<place, function, lockVars, recent>>

(* The thread is done; a coroutine that still waits for it goes on and     *)
(* releases the lock.                                                      *)
ThreadDone(c) ==
    /\ thread' = [thread EXCEPT ![c] = "none"]
    /\ IF place[c] = "running" THEN Leave(c) ELSE UNCHANGED <<place, lockVars>>
    /\ UNCHANGED <<function, recent>>

FunctionEnds(c) ==
    /\ thread[c] = "running"
    /\ function[c] # "transfer"
    /\ ThreadDone(c)
    /\ UNCHANGED collection

(* reopen succeeds, or fails: after a failed transfer that is only logged. *)
TransferEnds(c, reopened) ==
    /\ thread[c] = "transferring"
    /\ ThreadDone(c)
    /\ collection' = IF reopened THEN "open" ELSE collection

(* asyncio.wait_for: waiting for the lock or for the thread.  A thread     *)
(* that has not started is cancelled, one that has runs on.                *)
Cancelled(c) ==
    /\ place[c] # "idle"
    /\ place' = [place EXCEPT ![c] = "idle"]
    /\ Dequeue(c)
    /\ thread' = [thread EXCEPT ![c] = IF @ = "queued" THEN "none" ELSE @]
    /\ UNCHANGED <<function, collection, recent>>

ReleaseIfHeld(c) == holder' = IF holder = c THEN Nobody ELSE holder

GiveUp_LockKept(c) == function[c] = "status" /\ Cancelled(c) /\ UNCHANGED holder

GiveUp_AnyFunction(c) == Cancelled(c) /\ ReleaseIfHeld(c)

GiveUp(c) ==
    /\ function[c] = "status"
    /\ Cancelled(c)
    /\ ReleaseIfHeld(c)

(* _IDLE_SECONDS_OPENED_COLLECTION go by. *)
Age ==
    /\ recent
    /\ recent' = FALSE
    /\ UNCHANGED <<place, function, lockVars, thread, collection>>

-----------------------------------------------------------------------------
(* The sweeper tests is_idle without the lock, ... *)
Sweep ==
    /\ place[Sweeper] = "idle"
    /\ collection # "closed"
    /\ ~recent
    /\ Enqueue(Sweeper)
    /\ UNCHANGED <<function, thread, collection, recent>>

SweeperEnters_WithoutLock ==
    /\ collection # "closed"
    /\ place[Sweeper] = "waiting"
    /\ place' = [place EXCEPT ![Sweeper] = "running"]
    /\ Dequeue(Sweeper)
    /\ thread' = [thread EXCEPT ![Sweeper] = "queued"]
    /\ UNCHANGED <<function, holder, collection, recent>>

(* ... closes under the lock whatever it finds there (something is: only   *)
(* the sweeper calls close_collection), ...                                *)
SweeperEnters ==
    /\ collection # "closed"
    /\ Admit(Sweeper)
    /\ thread' = [thread EXCEPT ![Sweeper] = "queued"]
    /\ UNCHANGED <<function, collection, recent>>

(* ... and forgets the Collection object even if closing it failed. *)
SweeperDone ==
    /\ thread[Sweeper] = "running"
    /\ thread' = [thread EXCEPT ![Sweeper] = "none"]
    /\ Leave(Sweeper)
    /\ recent' = FALSE
    /\ UNCHANGED function

Closed_KeptIfDetached ==
    SweeperDone /\ collection' = IF collection = "detached" THEN "detached" ELSE "closed"

Closed == SweeperDone /\ collection' = "closed"

-----------------------------------------------------------------------------
CallerStep(c) ==
    \/ Enter(c)
    \/ OpenFails(c)
    \/ Detach(c)
    \/ FunctionEnds(c)
    \/ \E reopened \in BOOLEAN : TransferEnds(c, reopened)

SweeperStep == SweeperEnters \/ Closed

Next ==
    \/ \E c \in Caller, f \in Functions : Call(c, f)
    \/ \E c \in Caller : CallerStep(c) \/ GiveUp(c)
    \/ \E a \in Actor : ThreadStarts(a)
    \/ Sweep \/ SweeperStep \/ Age

(* The executor serves its queue, threads return, the loop resumes who is  *)
(* first at the lock, time passes and the sweeper wakes every minute.  No  *)
(* call is promised and none has to give up.                               *)
Fairness ==
    /\ \A c \in Caller : WF_vars(CallerStep(c))
    /\ \A a \in Actor : SF_vars(ThreadStarts(a))
    /\ WF_vars(SweeperStep) /\ WF_vars(Sweep) /\ WF_vars(Age)

Spec == Init /\ [][Next]_vars
FairSpec == Spec /\ Fairness
-----------------------------------------------------------------------------
(* A coroutine gave up and left its thread behind. *)
Abandoned(a) == thread[a] # "none" /\ place[a] = "idle"

(* At most one thread is at work on the collection, the sweeper's close    *)
(* included, apart from status checks nobody waits for any more.           *)
SerialUnlessAbandoned ==
    \A a, b \in Actor :
       a # b /\ thread[a] # "none" /\ thread[b] # "none" => Abandoned(a) \/ Abandoned(b)

(* A full transfer that has taken the collection apart holds the lock, and *)
(* nobody opens, closes or reopens the collection under it.  It is not     *)
(* alone for all that: threads of status checks that gave up may be at     *)
(* work beside it, and no other thread is.                                 *)
TransferAmongAbandoned ==
    \A c \in Caller :
       thread[c] = "transferring" =>
          /\ holder = c /\ collection = "detached"
          /\ \A a \in Actor \ {c} :
                thread[a] # "none" => a \in Caller /\ Abandoned(a) /\ function[a] = "status"

(* The sweeper tests is_idle without the lock and may wait long for it:    *)
(* still no call has its collection closed while its function is queued or *)
(* runs and its coroutine waits for it.                                    *)
OpenWhileWorking == \A c \in Caller : place[c] = "running" => collection # "closed"

(* Every call of Account.run returns, however many others come, sweeps     *)
(* included.                                                               *)
CallsReturn == \A c \in Caller : place[c] = "waiting" ~> place[c] = "idle"

Quiet == \A c \in Caller : place[c] = "idle"

(* An account left alone ends with its collection closed, so that the next *)
(* call opens it anew even if the last transfer could not reopen it.       *)
QuietAccountRecovers == <>[]Quiet => <>[](collection = "closed")

-----------------------------------------------------------------------------
(* account.py:110 says run "guarantees serial access via asyncio.Lock".    *)
SerialAccess ==
    \A a, b \in Actor :
       {thread[a], thread[b]} \subseteq {"running", "transferring"} => a = b

(* Nor does the code keep even a full transfer to itself: this is false    *)
(* too, when a status check has given up before the transfer began.        *)
TransferIsAlone ==
    \A c \in Caller :
       thread[c] = "transferring" => \A a \in Actor \ {c} : thread[a] = "none"

(* eviction.py:18 says the sweeper "closes idle collections": not one that *)
(* was used less than 300 seconds ago.                                     *)
ClosesOnlyIdle ==
    [][collection # "closed" /\ collection' = "closed" => ~recent]_vars
=============================================================================
