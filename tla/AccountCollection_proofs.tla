---------------------- MODULE AccountCollection_proofs ----------------------
(***************************************************************************)
(* Theorems about AccountCollection, for any number of callers and any     *)
(* size of the thread pool.                                                *)
(***************************************************************************)
EXTENDS AccountCollection, FiniteSetTheorems, WellFoundedInduction, TLAPS

(* The types of the variables are kept by every step.                      *)
LEMMA TypeStep == TypeOK /\ [Next]_vars => TypeOK'
<1> SUFFICES ASSUME TypeOK, [Next]_vars PROVE TypeOK'
  OBVIOUS
<1> USE ActorAssumption DEF TypeOK, Actor, Functions, Threads, Collections, vars, lockVars
<1>1. ASSUME NEW c \in Caller, NEW f \in Functions, Call(c, f)
      PROVE  TypeOK'
  BY <1>1 DEF Call, Enqueue, Waiting
<1>2. ASSUME NEW c \in Caller, Enter(c)
      PROVE  TypeOK'
  BY <1>2 DEF Enter, Admit, FirstAtLock, Dequeue
<1>3. ASSUME NEW c \in Caller, OpenFails(c)
      PROVE  TypeOK'
  BY <1>3 DEF OpenFails, PassBy, FirstAtLock, Dequeue
<1>4. ASSUME NEW c \in Caller, Detach(c)
      PROVE  TypeOK'
  BY <1>4 DEF Detach
<1>5. ASSUME NEW c \in Caller, FunctionEnds(c)
      PROVE  TypeOK'
  BY <1>5 DEF FunctionEnds, ThreadDone, Leave
<1>6. ASSUME NEW c \in Caller, NEW reopened \in BOOLEAN, TransferEnds(c, reopened)
      PROVE  TypeOK'
  BY <1>6 DEF TransferEnds, ThreadDone, Leave
<1>7. ASSUME NEW c \in Caller, GiveUp(c)
      PROVE  TypeOK'
  BY <1>7 DEF GiveUp, Cancelled, ReleaseIfHeld, Dequeue
<1>8. ASSUME NEW a \in Actor, ThreadStarts(a)
      PROVE  TypeOK'
  BY <1>8 DEF ThreadStarts
<1>9. ASSUME Sweep
      PROVE  TypeOK'
  BY <1>9 DEF Sweep, Enqueue, Waiting
<1>10. ASSUME SweeperEnters
      PROVE  TypeOK'
  BY <1>10 DEF SweeperEnters, Admit, FirstAtLock, Dequeue
<1>11. ASSUME Closed
      PROVE  TypeOK'
  BY <1>11 DEF Closed, SweeperDone, Leave
<1>12. ASSUME Age
      PROVE  TypeOK'
  BY <1>12 DEF Age
<1>13. CASE UNCHANGED vars
  BY <1>13
<1> HIDE DEF TypeOK, Actor, Functions, Threads, Collections, vars, lockVars
<1>14. QED
  BY <1>1, <1>2, <1>3, <1>4, <1>5, <1>6, <1>7, <1>8, <1>9, <1>10, <1>11, <1>12, <1>13
     DEF Next, CallerStep, SweeperStep

-----------------------------------------------------------------------------
(* The lock is held by exactly the coroutine that is past it.              *)
LockHeld == \A a \in Actor : place[a] = "running" <=> holder = a

(* A thread belongs to the coroutine that holds the lock, or to a status   *)
(* check that gave up after its thread had started.                        *)
ThreadOwned ==
    /\ \A a \in Actor :
          /\ thread[a] = "queued" => place[a] = "running"
          /\ place[a] = "waiting" => thread[a] = "none"
    /\ \A c \in Caller :
          /\ thread[c] # "none" /\ place[c] = "idle" => function[c] = "status"
          /\ thread[c] = "transferring" => function[c] = "transfer"
    /\ thread[Sweeper] # "transferring"
    /\ thread[Sweeper] # "none" => place[Sweeper] = "running"

LEMMA LockStep == TypeOK /\ LockHeld /\ ThreadOwned /\ [Next]_vars => LockHeld' /\ ThreadOwned'
<1> SUFFICES ASSUME TypeOK, LockHeld, ThreadOwned, [Next]_vars
             PROVE  LockHeld' /\ ThreadOwned'
  OBVIOUS
<1> USE ActorAssumption DEF TypeOK, Actor, LockHeld, ThreadOwned, Functions, Threads,
                            vars, lockVars
<1>1. ASSUME NEW c \in Caller, NEW f \in Functions, Call(c, f)
      PROVE  LockHeld' /\ ThreadOwned'
  BY <1>1 DEF Call, Enqueue, Waiting
<1>2. ASSUME NEW c \in Caller, Enter(c)
      PROVE  LockHeld' /\ ThreadOwned'
  BY <1>2 DEF Enter, Admit, FirstAtLock, Dequeue
<1>3. ASSUME NEW c \in Caller, OpenFails(c)
      PROVE  LockHeld' /\ ThreadOwned'
  BY <1>3 DEF OpenFails, PassBy, FirstAtLock, Dequeue
<1>4. ASSUME NEW c \in Caller, Detach(c)
      PROVE  LockHeld' /\ ThreadOwned'
  BY <1>4 DEF Detach
<1>5. ASSUME NEW c \in Caller, FunctionEnds(c)
      PROVE  LockHeld' /\ ThreadOwned'
  BY <1>5 DEF FunctionEnds, ThreadDone, Leave
<1>6. ASSUME NEW c \in Caller, NEW reopened \in BOOLEAN, TransferEnds(c, reopened)
      PROVE  LockHeld' /\ ThreadOwned'
  BY <1>6 DEF TransferEnds, ThreadDone, Leave
<1>7. ASSUME NEW c \in Caller, GiveUp(c)
      PROVE  LockHeld' /\ ThreadOwned'
  BY <1>7 DEF GiveUp, Cancelled, ReleaseIfHeld, Dequeue
<1>8. ASSUME NEW a \in Actor, ThreadStarts(a)
      PROVE  LockHeld' /\ ThreadOwned'
  BY <1>8 DEF ThreadStarts
<1>9. ASSUME Sweep
      PROVE  LockHeld' /\ ThreadOwned'
  BY <1>9 DEF Sweep, Enqueue, Waiting
<1>10. ASSUME SweeperEnters
      PROVE  LockHeld' /\ ThreadOwned'
  BY <1>10 DEF SweeperEnters, Admit, FirstAtLock, Dequeue
<1>11. ASSUME Closed
      PROVE  LockHeld' /\ ThreadOwned'
  BY <1>11 DEF Closed, SweeperDone, Leave
<1>12. ASSUME Age
      PROVE  LockHeld' /\ ThreadOwned'
  BY <1>12 DEF Age
<1>13. CASE UNCHANGED vars
  BY <1>13
<1> HIDE DEF TypeOK, Actor, LockHeld, ThreadOwned, Functions, Threads, vars,
             lockVars
<1>14. QED
  BY <1>1, <1>2, <1>3, <1>4, <1>5, <1>6, <1>7, <1>8, <1>9, <1>10, <1>11, <1>12, <1>13
     DEF Next, CallerStep, SweeperStep

(* What a transfer detached stays detached until the transfer reopens it,  *)
(* and what a call opened stays open: only the holder of the lock touches  *)
(* the collection.                                                         *)
Untouched ==
    /\ \A c \in Caller : thread[c] = "transferring" => collection = "detached"
    /\ OpenWhileWorking

LEMMA UntouchedStep ==
    TypeOK /\ LockHeld /\ ThreadOwned /\ Untouched /\ [Next]_vars => Untouched'
<1> SUFFICES ASSUME TypeOK, LockHeld, ThreadOwned, Untouched, [Next]_vars PROVE Untouched'
  OBVIOUS
<1> USE ActorAssumption DEF TypeOK, Actor, LockHeld, ThreadOwned, Untouched, Threads,
                            OpenWhileWorking, vars, lockVars
<1>1. ASSUME NEW c \in Caller, NEW f \in Functions, Call(c, f)
      PROVE  Untouched'
  BY <1>1 DEF Call, Enqueue, Waiting
<1>2. ASSUME NEW c \in Caller, Enter(c)
      PROVE  Untouched'
  BY <1>2 DEF Enter, Admit, FirstAtLock, Dequeue
<1>3. ASSUME NEW c \in Caller, OpenFails(c)
      PROVE  Untouched'
  BY <1>3 DEF OpenFails, PassBy, FirstAtLock, Dequeue
<1>4. ASSUME NEW c \in Caller, Detach(c)
      PROVE  Untouched'
  BY <1>4 DEF Detach
<1>5. ASSUME NEW c \in Caller, FunctionEnds(c)
      PROVE  Untouched'
  BY <1>5 DEF FunctionEnds, ThreadDone, Leave
<1>6. ASSUME NEW c \in Caller, NEW reopened \in BOOLEAN, TransferEnds(c, reopened)
      PROVE  Untouched'
  BY <1>6 DEF TransferEnds, ThreadDone, Leave
<1>7. ASSUME NEW c \in Caller, GiveUp(c)
      PROVE  Untouched'
  BY <1>7 DEF GiveUp, Cancelled, ReleaseIfHeld, Dequeue
<1>8. ASSUME NEW a \in Actor, ThreadStarts(a)
      PROVE  Untouched'
  BY <1>8 DEF ThreadStarts
<1>9. ASSUME Sweep
      PROVE  Untouched'
  BY <1>9 DEF Sweep, Enqueue, Waiting
<1>10. ASSUME SweeperEnters
      PROVE  Untouched'
  BY <1>10 DEF SweeperEnters, Admit, FirstAtLock, Dequeue
<1>11. ASSUME Closed
      PROVE  Untouched'
  BY <1>11 DEF Closed, SweeperDone, Leave
<1>12. ASSUME Age
      PROVE  Untouched'
  BY <1>12 DEF Age
<1>13. CASE UNCHANGED vars
  BY <1>13
<1> HIDE DEF TypeOK, Actor, LockHeld, ThreadOwned, Untouched, Threads,
             OpenWhileWorking, vars, lockVars
<1>14. QED
  BY <1>1, <1>2, <1>3, <1>4, <1>5, <1>6, <1>7, <1>8, <1>9, <1>10, <1>11, <1>12, <1>13
     DEF Next, CallerStep, SweeperStep

-----------------------------------------------------------------------------
IInv == TypeOK /\ LockHeld /\ ThreadOwned /\ Untouched

LEMMA InitInv == Init => IInv
<1> SUFFICES ASSUME Init PROVE IInv
  OBVIOUS
<1>1. TypeOK
  BY DEF Init, TypeOK, Functions, Threads, Collections
<1>2. LockHeld /\ ThreadOwned /\ Untouched
  BY ActorAssumption
     DEF Init, LockHeld, ThreadOwned, Untouched, OpenWhileWorking, Actor
<1>3. QED
  BY <1>1, <1>2 DEF IInv

LEMMA InductiveInv == Spec => []IInv
<1>1. IInv /\ [Next]_vars => IInv'
  BY TypeStep, LockStep, UntouchedStep DEF IInv
<1>2. QED
  BY InitInv, <1>1, PTL DEF Spec

(* Every variable keeps its type.                                          *)
THEOREM TypeCorrect == Spec => []TypeOK
BY InductiveInv, PTL DEF IInv

(* Two threads work on one collection only if nobody waits for one of them *)
(* any more.                                                               *)
THEOREM AlwaysSerialUnlessAbandoned == Spec => []SerialUnlessAbandoned
<1>1. IInv => SerialUnlessAbandoned
  BY DEF IInv, TypeOK, LockHeld, ThreadOwned, SerialUnlessAbandoned, Abandoned
<1>2. QED
  BY InductiveInv, <1>1, PTL

(* From close_for_full_sync to reopen a full transfer holds the lock and   *)
(* the detached collection, and no thread is at work beside it but those   *)
(* of status checks that nobody waits for.                                 *)
THEOREM AlwaysTransferAmongAbandoned == Spec => []TransferAmongAbandoned
<1>1. IInv => TransferAmongAbandoned
  <2> SUFFICES ASSUME IInv, NEW c \in Caller, thread[c] = "transferring"
               PROVE  /\ holder = c /\ collection = "detached"
                      /\ \A a \in Actor \ {c} :
                            thread[a] # "none" =>
                               a \in Caller /\ Abandoned(a) /\ function[a] = "status"
    BY DEF TransferAmongAbandoned
  <2> USE DEF IInv, TypeOK, LockHeld, ThreadOwned, Actor
  <2>1. holder = c /\ collection = "detached"
    BY DEF Untouched
  <2>2. ASSUME NEW a \in Actor \ {c}, thread[a] # "none"
        PROVE  a \in Caller /\ Abandoned(a) /\ function[a] = "status"
    <3>1. place[a] = "idle"
      BY <2>1, <2>2
    <3>2. QED
      BY <2>2, <3>1 DEF Abandoned
  <2>3. QED
    BY <2>1, <2>2
<1>2. QED
  BY InductiveInv, <1>1, PTL

(* No call loses the collection it works on to the sweeper.                *)
THEOREM AlwaysOpenWhileWorking == Spec => []OpenWhileWorking
BY InductiveInv, PTL DEF IInv, Untouched

-----------------------------------------------------------------------------
(* The queue of the lock is a line: whoever came before stands ahead of    *)
(* whoever came after.                                                     *)
InLine ==
    /\ IsFiniteSet(Waiting)
    /\ \A a \in Waiting :
          /\ ahead[a] \subseteq Waiting \ {a}
          /\ \A b \in ahead[a] : ahead[b] \subseteq ahead[a]
          /\ \A b \in Waiting \ {a} : a \in ahead[b] \/ b \in ahead[a]

(* The sweeper waits with something to close.                              *)
SomethingToClose == place[Sweeper] # "idle" => collection # "closed"

Comes(a) == a \notin Waiting /\ Waiting' = Waiting \cup {a} /\ ahead' = [ahead EXCEPT ![a] = Waiting]
Goes(a)  == Waiting' = Waiting \ {a} /\ Dequeue(a)
Stays    == Waiting' = Waiting /\ UNCHANGED ahead

(* Every step leaves the queue alone, or one joins or leaves it.           *)
LEMMA QueueEffect ==
    ASSUME TypeOK, ThreadOwned, [Next]_vars
    PROVE  Stays \/ \E a \in Actor : Comes(a) \/ Goes(a)
<1> DEFINE Effect == Stays \/ \E a \in Actor : Comes(a) \/ Goes(a)
<1> USE ActorAssumption DEF TypeOK, Actor, Waiting, vars, lockVars
<1>1. ASSUME NEW c \in Caller, NEW f \in Functions, Call(c, f)
      PROVE  Comes(c)
  BY <1>1 DEF Call, Enqueue, Comes
<1>2. ASSUME NEW c \in Caller, Enter(c)
      PROVE  Goes(c)
  BY <1>2 DEF Enter, Admit, FirstAtLock, Goes
<1>3. ASSUME NEW c \in Caller, OpenFails(c)
      PROVE  Goes(c)
  BY <1>3 DEF OpenFails, PassBy, FirstAtLock, Goes
<1>4. ASSUME NEW c \in Caller, Detach(c)
      PROVE  Stays
  BY <1>4 DEF Detach, Stays
<1>5. ASSUME NEW c \in Caller, FunctionEnds(c)
      PROVE  Stays
  BY <1>5 DEF FunctionEnds, ThreadDone, Leave, Stays
<1>6. ASSUME NEW c \in Caller, NEW reopened \in BOOLEAN, TransferEnds(c, reopened)
      PROVE  Stays
  BY <1>6 DEF TransferEnds, ThreadDone, Leave, Stays
<1>7. ASSUME NEW c \in Caller, GiveUp(c)
      PROVE  Goes(c)
  BY <1>7 DEF GiveUp, Cancelled, Goes
<1>8. ASSUME NEW a \in Actor, ThreadStarts(a)
      PROVE  Stays
  BY <1>8 DEF ThreadStarts, Stays
<1>9. ASSUME Sweep
      PROVE  Comes(Sweeper)
  BY <1>9 DEF Sweep, Enqueue, Comes
<1>10. ASSUME SweeperEnters
      PROVE  Goes(Sweeper)
  BY <1>10 DEF SweeperEnters, Admit, FirstAtLock, Goes
<1>11. ASSUME Closed
      PROVE  Stays
  BY <1>11 DEF Closed, SweeperDone, Leave, ThreadOwned, Stays
<1>12. ASSUME Age
      PROVE  Stays
  BY <1>12 DEF Age, Stays
<1>13. CASE UNCHANGED vars
  BY <1>13 DEF Stays
<1>14. Sweeper \in Actor /\ Caller \subseteq Actor
  OBVIOUS
<1> HIDE DEF TypeOK, Actor, Waiting, vars, lockVars
<1>15. QED
  BY <1>1, <1>2, <1>3, <1>4, <1>5, <1>6, <1>7, <1>8, <1>9, <1>10, <1>11, <1>12, <1>13, <1>14
     DEF Next, CallerStep, SweeperStep

LEMMA InLineStep ==
    ASSUME TypeOK, ThreadOwned, InLine, [Next]_vars
    PROVE  InLine'
<1>1. ASSUME NEW a \in Actor, Comes(a)
      PROVE  InLine'
  <2>1. IsFiniteSet(Waiting')
    BY <1>1, FS_AddElement DEF Comes, InLine
  <2>2. a \notin Waiting /\ Waiting' = Waiting \cup {a}
    BY <1>1 DEF Comes
  <2>3. ahead'[a] = Waiting /\ \A b \in Waiting : ahead'[b] = ahead[b]
    BY <1>1 DEF Comes, TypeOK, Waiting
  <2>4. QED
    BY <2>1, <2>2, <2>3 DEF InLine
<1>2. ASSUME NEW a \in Actor, Goes(a)
      PROVE  InLine'
  <2>1. IsFiniteSet(Waiting')
    BY <1>2, FS_RemoveElement DEF Goes, InLine
  <2>2. Waiting' = Waiting \ {a} /\ \A b \in Waiting : ahead'[b] = ahead[b] \ {a}
    BY <1>2 DEF Goes, Dequeue, Waiting
  <2>3. QED
    BY <2>1, <2>2 DEF InLine
<1>3. CASE Stays
  BY <1>3 DEF Stays, InLine
<1>4. QED
  BY <1>1, <1>2, <1>3, QueueEffect

LEMMA SweepStep ==
    ASSUME TypeOK, ThreadOwned, SomethingToClose, [Next]_vars
    PROVE  SomethingToClose'
<1> USE ActorAssumption DEF TypeOK, Actor, SomethingToClose, vars, lockVars
<1>1. ASSUME NEW c \in Caller, NEW f \in Functions, Call(c, f)
      PROVE  SomethingToClose'
  BY <1>1 DEF Call, Enqueue
<1>2. ASSUME NEW c \in Caller, Enter(c)
      PROVE  SomethingToClose'
  BY <1>2 DEF Enter, Admit
<1>3. ASSUME NEW c \in Caller, OpenFails(c)
      PROVE  SomethingToClose'
  BY <1>3 DEF OpenFails, PassBy
<1>4. ASSUME NEW c \in Caller, Detach(c)
      PROVE  SomethingToClose'
  BY <1>4 DEF Detach
<1>5. ASSUME NEW c \in Caller, FunctionEnds(c)
      PROVE  SomethingToClose'
  BY <1>5 DEF FunctionEnds, ThreadDone, Leave
<1>6. ASSUME NEW c \in Caller, NEW reopened \in BOOLEAN, TransferEnds(c, reopened)
      PROVE  SomethingToClose'
  BY <1>6 DEF TransferEnds, ThreadDone, Leave
<1>7. ASSUME NEW c \in Caller, GiveUp(c)
      PROVE  SomethingToClose'
  BY <1>7 DEF GiveUp, Cancelled
<1>8. ASSUME NEW a \in Actor, ThreadStarts(a)
      PROVE  SomethingToClose'
  BY <1>8 DEF ThreadStarts
<1>9. ASSUME Sweep
      PROVE  SomethingToClose'
  BY <1>9 DEF Sweep
<1>10. ASSUME SweeperEnters
      PROVE  SomethingToClose'
  BY <1>10 DEF SweeperEnters
<1>11. ASSUME Closed
      PROVE  SomethingToClose'
  BY <1>11 DEF Closed, SweeperDone, Leave
<1>12. ASSUME Age
      PROVE  SomethingToClose'
  BY <1>12 DEF Age
<1>13. CASE UNCHANGED vars
  BY <1>13
<1> HIDE DEF TypeOK, Actor, SomethingToClose, vars, lockVars
<1>14. QED
  BY <1>1, <1>2, <1>3, <1>4, <1>5, <1>6, <1>7, <1>8, <1>9, <1>10, <1>11, <1>12, <1>13
     DEF Next, CallerStep, SweeperStep

(* A line that is not empty has a first.                                   *)
LEMMA LineHasFirst ==
    ASSUME InLine, Waiting # {}
    PROVE  \E a \in Waiting : ahead[a] = {}
<1> DEFINE Sizes == {Cardinality(ahead[a]) : a \in Waiting}
<1>1. \A a \in Waiting : IsFiniteSet(ahead[a]) /\ Cardinality(ahead[a]) \in Nat
  <2> TAKE a \in Waiting
  <2>1. ahead[a] \subseteq Waiting /\ IsFiniteSet(Waiting)
    BY DEF InLine
  <2>2. QED
    BY <2>1, FS_Subset, FS_CardinalityType
<1>2. Sizes \in SUBSET Nat /\ Sizes # {}
  BY <1>1
<1>3. PICK n \in Sizes : \A m \in Sizes : ~(<<m, n>> \in OpToRel(<, Nat))
  BY <1>2, NatLessThanWellFounded, WFMin
<1>4. PICK a \in Waiting : n = Cardinality(ahead[a])
  BY <1>3
<1>5. ASSUME NEW b \in ahead[a] PROVE FALSE
  <2>1. b \in Waiting /\ ahead[b] \subseteq ahead[a] /\ b \notin ahead[b]
    BY <1>5 DEF InLine
  <2>2. Cardinality(ahead[b]) < Cardinality(ahead[a])
    BY <1>1, <1>4, <1>5, <2>1, FS_Subset
  <2>3. Cardinality(ahead[b]) \in Sizes /\ n \in Nat /\ Cardinality(ahead[b]) \in Nat
    BY <1>1, <1>4, <2>1
  <2>4. <<Cardinality(ahead[b]), n>> \in OpToRel(<, Nat)
    BY <1>4, <2>2, <2>3 DEF OpToRel
  <2>5. QED
    BY <1>3, <2>3, <2>4, Zenon
<1>6. QED
  BY <1>5

-----------------------------------------------------------------------------
(* Whenever the lock is free and somebody waits for it, the one who has    *)
(* waited longest can go on: it is at the front of the queue, and if it is *)
(* the sweeper it finds a collection to close.                             *)
LockIsHandedOn ==
    holder = Nobody /\ Waiting # {} =>
       \E a \in Waiting : ahead[a] = {} /\ (a = Sweeper => collection # "closed")

QueueInv == IInv /\ InLine /\ SomethingToClose

LEMMA InitQueueInv == Init => QueueInv
<1> SUFFICES ASSUME Init PROVE QueueInv
  OBVIOUS
<1>1. Waiting = {}
  BY DEF Init, Waiting
<1>2. InLine
  BY <1>1, FS_EmptySet DEF InLine
<1>3. SomethingToClose
  BY DEF Init, SomethingToClose, Actor
<1>4. QED
  BY <1>2, <1>3, InitInv DEF QueueInv

LEMMA InductiveQueueInv == Spec => []QueueInv
<1>1. IInv /\ [Next]_vars => IInv'
  BY TypeStep, LockStep, UntouchedStep DEF IInv
<1>2. QueueInv /\ [Next]_vars => QueueInv'
  BY <1>1, InLineStep, SweepStep DEF QueueInv, IInv
<1>3. QED
  BY InitQueueInv, <1>2, PTL DEF Spec

(* Nobody is stranded in the queue: the lock, when free, has somebody who  *)
(* can take it.                                                            *)
THEOREM AlwaysLockIsHandedOn == Spec => []LockIsHandedOn
<1>1. QueueInv => LockIsHandedOn
  <2> SUFFICES ASSUME QueueInv, Waiting # {}
               PROVE  \E a \in Waiting : ahead[a] = {} /\ (a = Sweeper => collection # "closed")
    BY DEF LockIsHandedOn
  <2>1. PICK a \in Waiting : ahead[a] = {}
    BY LineHasFirst DEF QueueInv
  <2>2. a = Sweeper => collection # "closed"
    BY <2>1 DEF QueueInv, SomethingToClose, Waiting
  <2>3. QED
    BY <2>1, <2>2
<1>2. QED
  BY InductiveQueueInv, <1>1, PTL

=============================================================================
