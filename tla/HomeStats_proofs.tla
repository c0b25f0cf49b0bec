--------------------------- MODULE HomeStats_proofs ---------------------------
(***************************************************************************)
(* Theorems about HomeStats, for any number of tabs and tasks and for any  *)
(* durations.                                                              *)
(***************************************************************************)
EXTENDS HomeStats, TLAPS

(* No request is from the future, and the collection does not change under *)
(* a task that reads it.                                                   *)
ReadsThePresent ==
    /\ \A b \in Tab : asked[b] <= version
    /\ \A t \in Task : state[t] = "reading" => read[t] = version

(* The account's entry is a task that was made, and stays one while it is  *)
(* the entry.                                                              *)
EntryIsMade == inflight # None => state[inflight] # "free"

(* The task a request waits for was made, and has not read before the      *)
(* request: its slot is not used again while someone waits.                *)
ReadsAfterAsked ==
    \A b \in Tab : waitsFor[b] # None =>
        /\ state[waitsFor[b]] # "free"
        /\ state[waitsFor[b]] # "created" => read[waitsFor[b]] >= asked[b]

-----------------------------------------------------------------------------
(* Every step keeps the types.                                             *)
LEMMA TypeStep ==
    ASSUME TypeOK, [Next]_vars
    PROVE  TypeOK'
<1> USE NoneAssumption DEF TypeOK, States, Pages, Ended, vars, taskVars,
            tabVars
<1>1. ASSUME NEW b \in Tab, Share(b), page[b] # "waiting" PROVE TypeOK'
  BY <1>1 DEF Share, WaitFor, Reusable
<1>2. ASSUME NEW b \in Tab, NEW t \in Task, Create(b, t), page[b] # "waiting"
      PROVE  TypeOK'
  BY <1>2 DEF Create, WaitFor
<1>3. ASSUME NEW b \in Tab, TimesOut(b) PROVE TypeOK'
  BY <1>3 DEF TimesOut, GivesUp, Leave
<1>4. ASSUME NEW b \in Tab, Resume(b) PROVE TypeOK'
  BY <1>4 DEF Resume, Leave
<1>5. ASSUME NEW t \in Task, Starts(t) PROVE TypeOK'
  BY <1>5 DEF Starts
<1>6. ASSUME NEW t \in Task, NEW how \in Ended, Ends(t, how) PROVE TypeOK'
  BY <1>6 DEF Ends
<1>7. ASSUME Tick PROVE TypeOK'
  BY <1>7 DEF Tick
<1>8. ASSUME Study PROVE TypeOK'
  BY <1>8 DEF Study
<1>9. CASE UNCHANGED vars
  BY <1>9
<1>10. QED
  BY <1>1, <1>2, <1>3, <1>4, <1>5, <1>6, <1>7, <1>8, <1>9
     DEF Next, Urgent, Open, Reload, Request

LEMMA PresentStep ==
    ASSUME TypeOK, ReadsThePresent, [Next]_vars
    PROVE  ReadsThePresent'
<1> USE NoneAssumption DEF TypeOK, States, Ended, ReadsThePresent, vars,
            taskVars, tabVars
<1>1. ASSUME NEW b \in Tab, Share(b), page[b] # "waiting"
      PROVE  ReadsThePresent'
  BY <1>1 DEF Share, WaitFor, Reusable
<1>2. ASSUME NEW b \in Tab, NEW t \in Task, Create(b, t), page[b] # "waiting"
      PROVE  ReadsThePresent'
  BY <1>2 DEF Create, WaitFor
<1>3. ASSUME NEW b \in Tab, TimesOut(b) PROVE ReadsThePresent'
  BY <1>3 DEF TimesOut, GivesUp, Leave
<1>4. ASSUME NEW b \in Tab, Resume(b) PROVE ReadsThePresent'
  BY <1>4 DEF Resume, Leave
<1>5. ASSUME NEW t \in Task, Starts(t) PROVE ReadsThePresent'
  BY <1>5 DEF Starts
<1>6. ASSUME NEW t \in Task, NEW how \in Ended, Ends(t, how)
      PROVE  ReadsThePresent'
  BY <1>6 DEF Ends
<1>7. ASSUME Tick PROVE ReadsThePresent'
  BY <1>7 DEF Tick
<1>8. ASSUME Study PROVE ReadsThePresent'
  BY <1>8 DEF Study
<1>9. CASE UNCHANGED vars
  BY <1>9
<1>10. QED
  BY <1>1, <1>2, <1>3, <1>4, <1>5, <1>6, <1>7, <1>8, <1>9
     DEF Next, Urgent, Open, Reload, Request

LEMMA EntryStep ==
    ASSUME TypeOK, EntryIsMade, [Next]_vars
    PROVE  EntryIsMade'
<1> USE NoneAssumption DEF TypeOK, States, Ended, EntryIsMade, vars,
            taskVars, tabVars
<1>1. ASSUME NEW b \in Tab, Share(b), page[b] # "waiting" PROVE EntryIsMade'
  BY <1>1 DEF Share, WaitFor, Reusable
<1>2. ASSUME NEW b \in Tab, NEW t \in Task, Create(b, t), page[b] # "waiting"
      PROVE  EntryIsMade'
  BY <1>2 DEF Create, WaitFor
<1>3. ASSUME NEW b \in Tab, TimesOut(b) PROVE EntryIsMade'
  BY <1>3 DEF TimesOut, GivesUp, Leave
<1>4. ASSUME NEW b \in Tab, Resume(b) PROVE EntryIsMade'
  BY <1>4 DEF Resume, Leave
<1>5. ASSUME NEW t \in Task, Starts(t) PROVE EntryIsMade'
  BY <1>5 DEF Starts
<1>6. ASSUME NEW t \in Task, NEW how \in Ended, Ends(t, how)
      PROVE  EntryIsMade'
  BY <1>6 DEF Ends
<1>7. ASSUME Tick PROVE EntryIsMade'
  BY <1>7 DEF Tick
<1>8. ASSUME Study PROVE EntryIsMade'
  BY <1>8 DEF Study
<1>9. CASE UNCHANGED vars
  BY <1>9
<1>10. QED
  BY <1>1, <1>2, <1>3, <1>4, <1>5, <1>6, <1>7, <1>8, <1>9
     DEF Next, Urgent, Open, Reload, Request

LEMMA AskedStep ==
    ASSUME TypeOK, ReadsThePresent, EntryIsMade, ReadsAfterAsked,
           [Next]_vars
    PROVE  ReadsAfterAsked'
<1> USE NoneAssumption DEF TypeOK, States, Ended, ReadsThePresent,
            EntryIsMade, ReadsAfterAsked, vars, taskVars, tabVars
<1>1. ASSUME NEW b \in Tab, Share(b), page[b] # "waiting"
      PROVE  ReadsAfterAsked'
  BY <1>1 DEF Share, WaitFor, Reusable
<1>2. ASSUME NEW b \in Tab, NEW t \in Task, Create(b, t), page[b] # "waiting"
      PROVE  ReadsAfterAsked'
  BY <1>2 DEF Create, WaitFor
<1>3. ASSUME NEW b \in Tab, TimesOut(b) PROVE ReadsAfterAsked'
  BY <1>3 DEF TimesOut, GivesUp, Leave
<1>4. ASSUME NEW b \in Tab, Resume(b) PROVE ReadsAfterAsked'
  BY <1>4 DEF Resume, Leave
<1>5. ASSUME NEW t \in Task, Starts(t) PROVE ReadsAfterAsked'
  BY <1>5 DEF Starts
<1>6. ASSUME NEW t \in Task, NEW how \in Ended, Ends(t, how)
      PROVE  ReadsAfterAsked'
  BY <1>6 DEF Ends
<1>7. ASSUME Tick PROVE ReadsAfterAsked'
  BY <1>7 DEF Tick
<1>8. ASSUME Study PROVE ReadsAfterAsked'
  BY <1>8 DEF Study
<1>9. CASE UNCHANGED vars
  BY <1>9
<1>10. QED
  BY <1>1, <1>2, <1>3, <1>4, <1>5, <1>6, <1>7, <1>8, <1>9
     DEF Next, Urgent, Open, Reload, Request

LEMMA ShownStep ==
    ASSUME TypeOK, ReadsAfterAsked, ShowsOwnReviews, [Next]_vars
    PROVE  ShowsOwnReviews'
<1> USE NoneAssumption DEF TypeOK, Pages, Ended, ReadsAfterAsked,
            ShowsOwnReviews, vars, taskVars, tabVars
<1>1. ASSUME NEW b \in Tab, Share(b), page[b] # "waiting"
      PROVE  ShowsOwnReviews'
  BY <1>1 DEF Share, WaitFor, Reusable
<1>2. ASSUME NEW b \in Tab, NEW t \in Task, Create(b, t), page[b] # "waiting"
      PROVE  ShowsOwnReviews'
  BY <1>2 DEF Create, WaitFor
<1>3. ASSUME NEW b \in Tab, TimesOut(b) PROVE ShowsOwnReviews'
  BY <1>3 DEF TimesOut, GivesUp, Leave
<1>4. ASSUME NEW b \in Tab, Resume(b) PROVE ShowsOwnReviews'
  BY <1>4 DEF Resume, Leave
<1>5. ASSUME NEW t \in Task, Starts(t) PROVE ShowsOwnReviews'
  BY <1>5 DEF Starts
<1>6. ASSUME NEW t \in Task, NEW how \in Ended, Ends(t, how)
      PROVE  ShowsOwnReviews'
  BY <1>6 DEF Ends
<1>7. ASSUME Tick PROVE ShowsOwnReviews'
  BY <1>7 DEF Tick
<1>8. ASSUME Study PROVE ShowsOwnReviews'
  BY <1>8 DEF Study
<1>9. CASE UNCHANGED vars
  BY <1>9
<1>10. QED
  BY <1>1, <1>2, <1>3, <1>4, <1>5, <1>6, <1>7, <1>8, <1>9
     DEF Next, Urgent, Open, Reload, Request

-----------------------------------------------------------------------------
IInv == TypeOK /\ ReadsThePresent /\ EntryIsMade /\ ReadsAfterAsked /\ ShowsOwnReviews

LEMMA InitInv == Init => IInv
BY NoneAssumption
   DEF Init, IInv, TypeOK, States, Pages, ReadsThePresent, EntryIsMade, ReadsAfterAsked,
       ShowsOwnReviews

LEMMA InductiveInv == Spec => []IInv
<1>1. IInv /\ [Next]_vars => IInv'
  BY TypeStep, PresentStep, EntryStep, AskedStep, ShownStep DEF IInv
<1>2. QED
  BY InitInv, <1>1, PTL DEF Spec

(* Every variable keeps its type; a task that reads holds the lock, and no *)
(* other does.                                                             *)
THEOREM TypeCorrect == Spec => []TypeOK
BY InductiveInv, PTL DEF IInv

(* However requests share, outwait and replace tasks, the home page never  *)
(* shows statistics that are older than the request for them: a review     *)
(* that was stored before it is in them.                                   *)
THEOREM AlwaysShowsOwnReviews == Spec => []ShowsOwnReviews
BY InductiveInv, PTL DEF IInv
=============================================================================
