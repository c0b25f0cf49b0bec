--------------------------- MODULE RateLimit_proofs ---------------------------
(***************************************************************************)
(* Theorems about web/ratelimit.py: LoginLimiter, for any limits and       *)
(* windows, any number of requests in flight and any number of addresses   *)
(* and users; then RedisClient, for any number of calls and clients.       *)
(***************************************************************************)
EXTENDS LoginLimiter, RedisClient, TLAPS

LEMMA KeyFacts ==
    ASSUME NEW k \in Key
    PROVE  LimitOf(k) \in Nat \ {0} /\ WindowOf(k) \in Nat \ {0} /\ 0 \in Ages(k)
<1>1. k[1] \in Kinds
  BY DEF Key, Kinds
<1>2. QED
  BY <1>1, LimitAssumption, WindowAssumption DEF LimitOf, WindowOf, Ages

LEMMA RequestKeys ==
    ASSUME TypeOK, NEW r \in Req
    PROVE  IpKey(r) \in Key /\ UserKey(r) \in Key /\ SyncKey(r) \in Key
BY DEF TypeOK, Key, IpKey, UserKey, SyncKey

(* What the Lua script and the verdict do to the state of one counter.     *)
HitOn(k) ==
    /\ count'[k] = IF count[k] > LimitOf(k) THEN count[k] ELSE count[k] + 1
    /\ left'[k] = IF count[k] = 0 THEN WindowOf(k) ELSE left[k]
    /\ granted'[k] = IF Allowed(k) THEN [granted[k] EXCEPT ![0] = @ + 1] ELSE granted[k]

LeftAlone(k) ==
    count'[k] = count[k] /\ left'[k] = left[k] /\ granted'[k] = granted[k]

(* ... and the script alone, when its reply is lost.                       *)
CountedOn(k) ==
    /\ count'[k] = IF count[k] > LimitOf(k) THEN count[k] ELSE count[k] + 1
    /\ left'[k] = IF count[k] = 0 THEN WindowOf(k) ELSE left[k]
    /\ granted'[k] = granted[k]

LEMMA HitEffect ==
    ASSUME TypeOK, NEW k \in Key, Hit(k)
    PROVE  HitOn(k) /\ \A j \in Key \ {k} : LeftAlone(j)
BY DEF TypeOK, Hit, Incr, HitOn, LeftAlone

LEMMA LostEffect ==
    ASSUME TypeOK, NEW k \in Key, Incr(k), UNCHANGED granted
    PROVE  CountedOn(k) /\ \A j \in Key \ {k} : LeftAlone(j)
BY DEF TypeOK, Incr, CountedOn, LeftAlone

(* What Redis may have done before it failed a request.                    *)
LEMMA FailureEffect ==
    ASSUME TypeOK, NEW r \in Req, RedisFails(r)
    PROVE  \/ UNCHANGED redisVars
           \/ \E k \in Key : Incr(k)
           \/ Clear(UserKey(r))
BY RequestKeys, Zenon DEF RedisFails, NoClient, ScriptFails, ResetFails

LEMMA ScriptTypes ==
    ASSUME TypeOK, NEW k \in Key, Incr(k)
    PROVE  count' \in [Key -> Nat] /\ left' \in [Key -> Nat]
BY KeyFacts DEF TypeOK, Incr

LEMMA HitTypes ==
    ASSUME TypeOK, NEW k \in Key, Hit(k)
    PROVE  /\ count' \in [Key -> Nat]
           /\ left' \in [Key -> Nat]
           /\ DOMAIN granted' = Key
           /\ \A j \in Key : granted'[j] \in [Ages(j) -> Nat]
<1>1. count' \in [Key -> Nat] /\ left' \in [Key -> Nat] /\ DOMAIN granted' = Key
  BY KeyFacts DEF TypeOK, Hit, Incr
<1>2. ASSUME NEW j \in Key
      PROVE  granted'[j] \in [Ages(j) -> Nat]
  <2>1. granted[j] \in [Ages(j) -> Nat] /\ 0 \in Ages(j)
    BY KeyFacts DEF TypeOK
  <2>2. \/ granted'[j] = granted[j]
        \/ granted'[j] = [granted[j] EXCEPT ![0] = @ + 1]
    BY HitEffect DEF HitOn, LeftAlone
  <2>3. QED
    BY <2>1, <2>2
<1>3. QED
  BY <1>1, <1>2

-----------------------------------------------------------------------------
(* The types of the variables are kept by every step.                      *)
LEMMA TypeStep ==
    ASSUME TypeOK, [Next]_vars
    PROVE  TypeOK'
<1> USE DEF TypeOK, Places, Verdicts, vars, redisVars, reqVars
<1>1. ASSUME NEW r \in Req, NEW i \in Ip, NEW u \in User,
            Login(r, i, u) \/ Sync(r, i, u)
      PROVE  TypeOK'
  <2> HIDE DEF TypeOK
  <2>1. PICK place \in {"count_ip", "count_sync"} : Arrive(r, i, u, place)
    BY <1>1, Zenon DEF Login, Sync
  <2>2. /\ pc' \in [Req -> Places]
        /\ ip' \in [Req -> Ip] /\ user' \in [Req -> User]
        /\ verdict' \in [Req -> Verdicts]
    BY <2>1 DEF TypeOK, Arrive
  <2>3. UNCHANGED <<count, left, granted, spotless>>
    BY <2>1 DEF Arrive
  <2>4. QED
    BY <2>2, <2>3, Zenon DEF TypeOK, Ages, WindowOf
<1>2. ASSUME NEW r \in Req, CountIp(r) PROVE TypeOK'
  BY <1>2, HitTypes, RequestKeys DEF CountIp, Goto, Answer
<1>3. ASSUME NEW r \in Req, NEW right \in BOOLEAN, CountUserAndLogin(r, right)
      PROVE  TypeOK'
  BY <1>3, HitTypes, RequestKeys DEF CountUserAndLogin, Goto, Answer
<1>4. ASSUME NEW r \in Req, CountSync(r) PROVE TypeOK'
  BY <1>4, HitTypes, RequestKeys DEF CountSync, Answer
<1>5. ASSUME NEW r \in Req, Reset(r) PROVE TypeOK'
  BY <1>5, RequestKeys DEF Reset, Clear, Answer
<1>6. ASSUME NEW r \in Req, RedisFails(r) PROVE TypeOK'
  <2>1. UNCHANGED <<ip, user, granted>> /\ spotless' = FALSE
    BY <1>6 DEF RedisFails, NoClient, ScriptFails, ResetFails, Answer
  <2>2. pc' \in [Req -> Places] /\ verdict' \in [Req -> Verdicts]
    BY <1>6 DEF RedisFails, NoClient, ScriptFails, ResetFails, Answer
  <2>3. count' \in [Key -> Nat] /\ left' \in [Key -> Nat]
    <3>1. CASE Clear(UserKey(r))
      BY <3>1 DEF Clear
    <3>2. QED
      BY <1>6, <3>1, ScriptTypes, FailureEffect
  <2> HIDE DEF TypeOK
  <2>4. QED
    BY <2>1, <2>2, <2>3, Zenon DEF TypeOK, Ages, WindowOf
<1>7. ASSUME Tick PROVE TypeOK'
  <2> HIDE DEF TypeOK
  <2>1. count' \in [Key -> Nat] /\ left' \in [Key -> Nat] /\ DOMAIN granted' = Key
    <3>1. count \in [Key -> Nat] /\ left \in [Key -> Nat]
      BY DEF TypeOK
    <3>2. \A n \in Nat : n # 0 => n - 1 \in Nat
      OBVIOUS
    <3>3. QED
      BY <1>7, <3>1, <3>2 DEF Tick
  <2>2. ASSUME NEW k \in Key
        PROVE  granted'[k] \in [Ages(k) -> Nat]
    <3>1. granted'[k] = [age \in Ages(k) |-> IF age = 0 THEN 0 ELSE granted[k][age - 1]]
      BY <1>7 DEF Tick
    <3>2. ASSUME NEW age \in Ages(k), age # 0
          PROVE  age - 1 \in Ages(k)
      BY <3>2, KeyFacts DEF Ages
    <3>3. granted[k] \in [Ages(k) -> Nat]
      BY DEF TypeOK
    <3>4. QED
      BY <3>1, <3>2, <3>3
  <2>3. QED
    BY <1>7, <2>1, <2>2 DEF TypeOK, Tick
<1>8. CASE UNCHANGED vars
  BY <1>8
<1>9. QED
  BY <1>1, <1>2, <1>3, <1>4, <1>5, <1>6, <1>7, <1>8
     DEF Next, Handle

-----------------------------------------------------------------------------
(* Seen from one counter a step is a hit, a hit nobody hears of, a reset,  *)
(* a tick or nothing; only the counters of users are reset.                *)
ResetOf(k) == k[1] = "user" /\ count'[k] = 0 /\ left'[k] = 0

TickOf(k) ==
    /\ left'[k] = IF left[k] = 0 THEN 0 ELSE left[k] - 1
    /\ count'[k] = IF left[k] <= 1 THEN 0 ELSE count[k]
    /\ granted'[k] = [age \in Ages(k) |-> IF age = 0 THEN 0 ELSE granted[k][age - 1]]

LEMMA CounterStep ==
    ASSUME TypeOK, [Next]_vars, NEW k \in Key
    PROVE  HitOn(k) \/ CountedOn(k) \/ ResetOf(k) \/ TickOf(k) \/ LeftAlone(k)
<1>1. ASSUME NEW j \in Key, Hit(j)
      PROVE  HitOn(k) \/ LeftAlone(k)
  BY <1>1, HitEffect
<1>2. ASSUME NEW r \in Req, Clear(UserKey(r)), UNCHANGED granted
      PROVE  ResetOf(k) \/ LeftAlone(k)
  <2>1. UserKey(r) \in Key /\ UserKey(r)[1] = "user"
    BY RequestKeys DEF UserKey
  <2>2. QED
    BY <1>2, <2>1 DEF Clear, TypeOK, ResetOf, LeftAlone
<1>3. ASSUME Tick
      PROVE  TickOf(k)
  BY <1>3 DEF Tick, TickOf
<1>4. ASSUME UNCHANGED <<redisVars, granted>>
      PROVE  LeftAlone(k)
  BY <1>4 DEF redisVars, LeftAlone
<1>5. ASSUME NEW r \in Req, Handle(r)
      PROVE  HitOn(k) \/ CountedOn(k) \/ ResetOf(k) \/ LeftAlone(k)
  <2>1. CASE RedisFails(r)
    <3>1. UNCHANGED granted
      BY <2>1 DEF RedisFails
    <3>2. ASSUME NEW j \in Key, Incr(j) PROVE CountedOn(k) \/ LeftAlone(k)
      BY <3>1, <3>2, LostEffect
    <3>3. QED
      BY <1>2, <1>4, <2>1, <3>1, <3>2, FailureEffect
  <2>2. CASE ~RedisFails(r)
    BY <1>1, <1>2, <1>5, <2>2, RequestKeys
       DEF Handle, CountIp, CountUserAndLogin, CountSync, Reset
  <2>3. QED
    BY <2>1, <2>2
<1>6. QED
  BY <1>3, <1>4, <1>5 DEF Next, Login, Sync, Arrive, vars

(* A counter and its expiry come and go together.                          *)
LEMMA ExpiryStep ==
    ASSUME TypeOK, TypeOK', CountersExpire, [Next]_vars
    PROVE  CountersExpire'
<1> SUFFICES ASSUME NEW k \in Key
             PROVE  left'[k] <= WindowOf(k) /\ (count'[k] > 0 <=> left'[k] > 0)
  BY DEF CountersExpire
<1> USE KeyFacts DEF TypeOK, CountersExpire
<1>1. CASE HitOn(k)
  BY <1>1 DEF HitOn
<1>2. CASE CountedOn(k)
  BY <1>2 DEF CountedOn
<1>3. CASE ResetOf(k)
  BY <1>3 DEF ResetOf
<1>4. CASE TickOf(k)
  BY <1>4 DEF TickOf
<1>5. CASE LeftAlone(k)
  BY <1>5 DEF LeftAlone
<1>6. QED
  BY <1>1, <1>2, <1>3, <1>4, <1>5, CounterStep

-----------------------------------------------------------------------------
(* The hits of one window of time, which lie in two windows of the counter *)
(* at most: those at ages up to that of the running window are no more     *)
(* than it has counted, and those before it are no more than the limit.    *)
Totals(total, k) ==
    /\ total \in [0 .. WindowOf(k) -> Nat]
    /\ RunningTotal(total, k)
    /\ \A i, j \in 0 .. WindowOf(k) : i <= j => total[i] <= total[j]
    /\ left[k] = 0 =>
          granted[k][0] = 0 /\ total[WindowOf(k)] <= LimitOf(k)
    /\ left[k] > 0 =>
          LET current == total[WindowOf(k) - left[k] + 1] IN
          /\ current <= count[k] /\ current <= LimitOf(k)
          /\ total[WindowOf(k)] <= current + LimitOf(k)

TwoWindows == \A k \in Key : k[1] # "user" => \E total : Totals(total, k)

(* A hit adds one to every total but that of no ages.                      *)
LEMMA TotalsAfterHit ==
    ASSUME TypeOK, CountersExpire, NEW k \in Key, NEW total, Totals(total, k),
           HitOn(k), Allowed(k)
    PROVE  \E more : Totals(more, k)'
<1>1. PICK W : W = WindowOf(k)
  OBVIOUS
<1>2. /\ W \in Nat /\ W > 0 /\ LimitOf(k) \in Nat /\ LimitOf(k) > 0
      /\ count[k] \in Nat /\ left[k] \in Nat /\ left[k] <= W
      /\ count[k] > 0 <=> left[k] > 0
  BY <1>1, KeyFacts DEF TypeOK, CountersExpire
<1>3. /\ total \in [0 .. W -> Nat] /\ total[0] = 0
      /\ \A i, j \in 0 .. W : i <= j => total[i] <= total[j]
  BY <1>1 DEF Totals, RunningTotal
<1>4. \A age \in 0 .. W - 1 : total[age + 1] = total[age] + granted[k][age]
  BY <1>1 DEF Totals, RunningTotal, Ages
<1>5. /\ granted[k] \in [0 .. W - 1 -> Nat]
      /\ granted'[k] = [granted[k] EXCEPT ![0] = @ + 1]
      /\ 0 \in 0 .. W - 1
  BY <1>1, <1>2 DEF TypeOK, Ages, HitOn
<1>6. PICK more : /\ more \in [0 .. W -> Nat]
                  /\ more[0] = 0 /\ \A n \in 1 .. W : more[n] = total[n] + 1
  <2> DEFINE f == [n \in 0 .. W |-> IF n = 0 THEN 0 ELSE total[n] + 1]
  <2>1. \A n \in 1 .. W : n \in 0 .. W /\ n # 0
    BY <1>2
  <2>2. f \in [0 .. W -> Nat]
    BY <1>3
  <2>3. f[0] = 0 /\ \A n \in 1 .. W : f[n] = total[n] + 1
    BY <1>2, <2>1
  <2>4. QED
    BY <2>2, <2>3
<1>7. \A age \in 0 .. W - 1 : more[age + 1] = more[age] + granted'[k][age]
  <2> SUFFICES ASSUME NEW age \in 0 .. W - 1
               PROVE  more[age + 1] = more[age] + granted'[k][age]
    OBVIOUS
  <2>1. age + 1 \in 1 .. W /\ age \in Nat /\ (age = 0 \/ age \in 1 .. W)
    BY <1>2
  <2>2. more[age + 1] = total[age + 1] + 1
    BY <1>6, <2>1
  <2>3. total[age + 1] = total[age] + granted[k][age]
    BY <1>4
  <2>4. age \in 0 .. W
    BY <1>2
  <2>5. total[age] \in Nat /\ granted[k][age] \in Nat
    BY <1>3, <1>5, <2>4
  <2>6. CASE age = 0
    <3>1. granted'[k][0] = granted[k][0] + 1
      BY <1>5
    <3>2. more[0] = 0 /\ total[0] = 0
      BY <1>3, <1>6
    <3>3. QED
      BY <2>2, <2>3, <2>5, <2>6, <3>1, <3>2
  <2>7. CASE age \in 1 .. W
    <3>1. granted'[k][age] = granted[k][age]
      BY <1>5, <2>7
    <3>2. more[age] = total[age] + 1
      BY <1>6, <2>7
    <3>3. QED
      BY <2>2, <2>3, <2>5, <3>1, <3>2
  <2>8. QED
    BY <2>1, <2>6, <2>7
<1>8. \A i, j \in 0 .. W : i <= j => more[i] <= more[j]
  <2> SUFFICES ASSUME NEW i \in 0 .. W, NEW j \in 0 .. W, i <= j
               PROVE  more[i] <= more[j]
    OBVIOUS
  <2>1. total[i] <= total[j] /\ total[i] \in Nat /\ total[j] \in Nat
    BY <1>3
  <2>2. CASE i = 0
    <3>1. more[j] \in Nat /\ more[i] = 0
      BY <1>6, <2>2
    <3>2. QED
      BY <3>1
  <2>3. CASE i # 0
    <3>1. i \in 1 .. W /\ j \in 1 .. W
      BY <1>2, <2>3
    <3>2. more[i] = total[i] + 1 /\ more[j] = total[j] + 1
      BY <1>6, <3>1
    <3>3. QED
      BY <2>1, <3>2
  <2>4. QED
    BY <2>2, <2>3
<1>9. count'[k] = count[k] + 1 /\ count[k] < LimitOf(k)
  BY <1>2 DEF HitOn, Allowed
<1>10. PICK n : n = W - left'[k] + 1
  OBVIOUS
<1>11. left'[k] > 0 /\ more[n] <= count'[k] /\ more[n] <= LimitOf(k)
       /\ more[W] <= more[n] + LimitOf(k)
  <2>1. W \in 1 .. W /\ 1 \in 1 .. W /\ W \in 0 .. W
    BY <1>2
  <2>2. more[W] = total[W] + 1 /\ total[W] \in Nat
    BY <1>3, <1>6, <2>1
  <2>3. CASE left[k] = 0
    <3>1. left'[k] = W /\ count[k] = 0 /\ n = 1
      BY <1>1, <1>2, <1>10, <2>3 DEF HitOn
    <3>2. granted[k][0] = 0 /\ total[W] <= LimitOf(k)
      BY <1>1, <2>3 DEF Totals
    <3>3. total[1] = total[0] + granted[k][0]
      BY <1>4, <1>5
    <3>4. more[1] = total[1] + 1
      BY <1>6, <2>1
    <3>5. more[1] = 1
      BY <1>3, <3>2, <3>3, <3>4
    <3>6. QED
      BY <1>2, <1>9, <2>2, <3>1, <3>2, <3>5
  <2>4. CASE left[k] > 0
    <3>1. left'[k] = left[k] /\ n = W - left[k] + 1
      BY <1>2, <1>10, <2>4 DEF HitOn
    <3>2. n \in 1 .. W /\ n \in 0 .. W
      BY <1>2, <2>4, <3>1
    <3>3. total[n] <= count[k] /\ total[W] <= total[n] + LimitOf(k)
      BY <1>1, <2>4, <3>1 DEF Totals
    <3>4. more[n] = total[n] + 1 /\ total[n] \in Nat
      BY <1>3, <1>6, <3>2
    <3>5. QED
      BY <1>2, <1>9, <2>2, <2>4, <3>1, <3>3, <3>4
  <2>5. QED
    BY <1>2, <2>3, <2>4
<1>12. RunningTotal(more, k)'
  BY <1>1, <1>6, <1>7 DEF RunningTotal, Ages, WindowOf
<1>13. left'[k] # 0
  BY <1>11
<1>14. QED
  BY <1>1, <1>6, <1>8, <1>10, <1>11, <1>12, <1>13 DEF Totals, WindowOf, LimitOf

(* A tick moves every total up by one age and drops the oldest hits.       *)
LEMMA TotalsAfterTick ==
    ASSUME TypeOK, CountersExpire, NEW k \in Key, NEW total, Totals(total, k),
           TickOf(k)
    PROVE  \E older : Totals(older, k)'
<1>1. PICK W : W = WindowOf(k)
  OBVIOUS
<1>2. /\ W \in Nat /\ W > 0 /\ LimitOf(k) \in Nat
      /\ count[k] \in Nat /\ left[k] \in Nat /\ left[k] <= W
  BY <1>1, KeyFacts DEF TypeOK, CountersExpire
<1>3. /\ total \in [0 .. W -> Nat] /\ total[0] = 0
      /\ \A i, j \in 0 .. W : i <= j => total[i] <= total[j]
  BY <1>1 DEF Totals, RunningTotal
<1>4. \A age \in 0 .. W - 1 : total[age + 1] = total[age] + granted[k][age]
  BY <1>1 DEF Totals, RunningTotal, Ages
<1>5. granted'[k] =
         [age \in 0 .. W - 1 |-> IF age = 0 THEN 0 ELSE granted[k][age - 1]]
  BY <1>1 DEF TickOf, Ages
<1>6. PICK older : /\ older \in [0 .. W -> Nat]
                   /\ older[0] = 0 /\ \A n \in 1 .. W : older[n] = total[n - 1]
  <2> DEFINE f == [n \in 0 .. W |-> IF n = 0 THEN 0 ELSE total[n - 1]]
  <2>1. \A n \in 1 .. W : n \in 0 .. W /\ n # 0
    BY <1>2
  <2>2. \A n \in 0 .. W : n # 0 => n - 1 \in 0 .. W
    BY <1>2
  <2>3. f \in [0 .. W -> Nat]
    BY <1>3, <2>2
  <2>4. f[0] = 0 /\ \A n \in 1 .. W : f[n] = total[n - 1]
    BY <1>2, <2>1
  <2>5. QED
    BY <2>3, <2>4
<1>7. \A age \in 0 .. W - 1 : older[age + 1] = older[age] + granted'[k][age]
  <2> SUFFICES ASSUME NEW age \in 0 .. W - 1
               PROVE  older[age + 1] = older[age] + granted'[k][age]
    OBVIOUS
  <2>1. age + 1 \in 1 .. W /\ (age + 1) - 1 = age /\ age \in 0 .. W
    BY <1>2
  <2>2. older[age + 1] = total[age] /\ total[age] \in Nat
    BY <1>3, <1>6, <2>1
  <2>3. CASE age = 0
    <3>1. granted'[k][0] = 0
      BY <1>5, <2>3
    <3>2. older[0] = 0 /\ total[0] = 0
      BY <1>3, <1>6
    <3>3. QED
      BY <2>2, <2>3, <3>1, <3>2
  <2>4. CASE age # 0
    <3>1. age - 1 \in 0 .. W - 1 /\ (age - 1) + 1 = age /\ age \in 1 .. W
      BY <1>2, <2>4
    <3>2. total[(age - 1) + 1] = total[age - 1] + granted[k][age - 1]
      BY <1>4, <3>1
    <3>3. older[age] = total[age - 1]
      BY <1>6, <3>1
    <3>4. granted'[k][age] = granted[k][age - 1]
      BY <1>5, <2>4
    <3>5. QED
      BY <2>2, <3>1, <3>2, <3>3, <3>4
  <2>5. QED
    BY <2>3, <2>4
<1>8. \A i, j \in 0 .. W : i <= j => older[i] <= older[j]
  <2> SUFFICES ASSUME NEW i \in 0 .. W, NEW j \in 0 .. W, i <= j
               PROVE  older[i] <= older[j]
    OBVIOUS
  <2>1. CASE i = 0
    <3>1. older[j] \in Nat /\ older[i] = 0
      BY <1>6, <2>1
    <3>2. QED
      BY <3>1
  <2>2. CASE i # 0
    <3>1. i \in 1 .. W /\ j \in 1 .. W
      BY <1>2, <2>2
    <3>2. i - 1 \in 0 .. W /\ j - 1 \in 0 .. W /\ i - 1 <= j - 1
      BY <1>2, <3>1
    <3>3. older[i] = total[i - 1] /\ older[j] = total[j - 1]
      BY <1>6, <3>1
    <3>4. QED
      BY <1>3, <3>2, <3>3
  <2>3. QED
    BY <2>1, <2>2
<1>9. /\ W \in 1 .. W /\ W \in 0 .. W /\ W - 1 \in 0 .. W
      /\ W - 1 <= W /\ 0 \in 0 .. W - 1
  BY <1>2
<1>10. /\ older[W] = total[W - 1] /\ total[W - 1] <= total[W]
       /\ total[W] \in Nat /\ total[W - 1] \in Nat
  BY <1>3, <1>6, <1>9
<1>11. ASSUME left'[k] = 0
       PROVE  granted'[k][0] = 0 /\ older[W] <= LimitOf(k)
  <2>1. granted'[k][0] = 0
    BY <1>5, <1>9
  <2>2. left[k] = 0 \/ left[k] = 1
    BY <1>2, <1>11 DEF TickOf
  <2>3. W - 1 + 1 = W
    BY <1>2
  <2>4. total[W] <= LimitOf(k)
    BY <1>1, <2>2, <2>3 DEF Totals
  <2>5. QED
    BY <1>2, <1>10, <2>1, <2>4
<1>12. PICK n : n = W - left'[k] + 1
  OBVIOUS
<1>13. ASSUME left'[k] > 0
       PROVE  /\ older[n] <= count'[k] /\ older[n] <= LimitOf(k)
              /\ older[W] <= older[n] + LimitOf(k)
  <2>1. left[k] > 1 /\ left'[k] = left[k] - 1 /\ count'[k] = count[k]
    BY <1>2, <1>13 DEF TickOf
  <2>2. /\ n \in 1 .. W /\ n - 1 \in 0 .. W /\ n - 1 = W - left[k] + 1
        /\ left[k] > 0
    BY <1>2, <1>12, <2>1
  <2>3. older[n] = total[n - 1] /\ total[n - 1] \in Nat
    BY <1>3, <1>6, <2>2
  <2>4. /\ total[n - 1] <= count[k] /\ total[n - 1] <= LimitOf(k)
        /\ total[W] <= total[n - 1] + LimitOf(k)
    BY <1>1, <2>2 DEF Totals
  <2>5. QED
    BY <1>2, <1>10, <2>1, <2>3, <2>4
<1>14. RunningTotal(older, k)'
  BY <1>1, <1>6, <1>7 DEF RunningTotal, Ages, WindowOf
<1>15. QED
  BY <1>1, <1>6, <1>8, <1>11, <1>12, <1>13, <1>14 DEF Totals, WindowOf, LimitOf

LEMMA TotalsStep ==
    ASSUME TypeOK, CountersExpire, TwoWindows, [Next]_vars
    PROVE  TwoWindows'
<1> SUFFICES ASSUME NEW k \in Key, k[1] # "user"
             PROVE  \E total : Totals(total, k)'
  BY DEF TwoWindows
<1>1. PICK total : Totals(total, k)
  BY DEF TwoWindows
<1>2. CASE HitOn(k) /\ Allowed(k)
  BY <1>1, <1>2, TotalsAfterHit
<1>3. CASE CountedOn(k) /\ count[k] # 0
  <2>1. LimitOf(k) > 0 /\ LimitOf(k) \in Nat /\ count[k] \in Nat /\ left[k] > 0
    BY <1>3, KeyFacts DEF TypeOK, CountersExpire
  <2>2. left'[k] = left[k] /\ granted'[k] = granted[k] /\ count'[k] >= count[k]
    BY <1>3, <2>1, KeyFacts DEF CountedOn
  <2>3. Totals(total, k)'
    <3>1. RunningTotal(total, k)'
      BY <1>1, <2>2 DEF Totals, RunningTotal, Ages, WindowOf
    <3>2. left'[k] > 0 /\ left'[k] # 0
      BY <2>1, <2>2
    <3>3. PICK n : n = WindowOf(k) - left[k] + 1
      OBVIOUS
    <3>4. total[n] <= count[k] /\ count[k] <= count'[k] /\ n \in 0 .. WindowOf(k)
      <4>1. left[k] \in Nat /\ left[k] <= WindowOf(k) /\ WindowOf(k) \in Nat
        BY KeyFacts DEF TypeOK, CountersExpire
      <4>2. QED
        BY <1>1, <2>1, <2>2, <3>3, <4>1 DEF Totals
    <3>5. total[n] \in Nat /\ count'[k] \in Nat
      BY <1>1, <1>3, <2>1, <3>4 DEF Totals, CountedOn
    <3>6. total[n] <= count'[k]
      BY <2>1, <3>4, <3>5
    <3>7. QED
      BY <1>1, <2>1, <2>2, <3>1, <3>2, <3>3, <3>6 DEF Totals, WindowOf, LimitOf
  <2>4. QED
    BY <2>3
<1>4. CASE ResetOf(k)
  BY <1>4 DEF ResetOf
<1>5. CASE TickOf(k)
  BY <1>1, <1>5, TotalsAfterTick
<1>6. CASE LeftAlone(k)
  BY <1>1, <1>6 DEF Totals, RunningTotal, LeftAlone, Ages, WindowOf, LimitOf
<1>7. CASE CountedOn(k) /\ count[k] = 0
  <2>1. PICK W : W = WindowOf(k)
    OBVIOUS
  <2>2. W \in Nat /\ W > 0 /\ LimitOf(k) \in Nat /\ left[k] = 0
    BY <1>7, <2>1, KeyFacts DEF TypeOK, CountersExpire
  <2>3. left'[k] = W /\ count'[k] = 1 /\ granted'[k] = granted[k] /\ left'[k] # 0
    BY <1>7, <2>1, <2>2 DEF CountedOn
  <2>4. total[1] = 0 /\ total[W] <= LimitOf(k) /\ W - left'[k] + 1 = 1
    <3>1. total[0] = 0 /\ granted[k][0] = 0 /\ total[0 + 1] = total[0] + granted[k][0]
      BY <1>1, <2>2, KeyFacts DEF Totals, RunningTotal
    <3>2. QED
      BY <1>1, <2>1, <2>2, <2>3, <3>1 DEF Totals
  <2>5. RunningTotal(total, k)'
    BY <1>1, <2>3 DEF Totals, RunningTotal, Ages, WindowOf
  <2>6. PICK n : n = W - left'[k] + 1
    OBVIOUS
  <2>7. /\ total[n] = 0 /\ 0 <= count'[k] /\ 0 <= LimitOf(k)
        /\ total[W] <= 0 + LimitOf(k)
    <3>1. total[W] \in Nat
      BY <1>1, <2>1, <2>2 DEF Totals
    <3>2. QED
      BY <2>2, <2>3, <2>4, <2>6, <3>1
  <2>8. /\ total \in [0 .. W -> Nat]
        /\ \A i, j \in 0 .. W : i <= j => total[i] <= total[j]
    BY <1>1, <2>1 DEF Totals
  <2>9. QED
    BY <2>1, <2>3, <2>5, <2>6, <2>7, <2>8 DEF Totals, WindowOf, LimitOf
<1>8. HitOn(k) => Allowed(k) \/ CountedOn(k)
  BY DEF HitOn, CountedOn
<1>9. QED
  BY <1>2, <1>3, <1>4, <1>5, <1>6, <1>7, <1>8, CounterStep

-----------------------------------------------------------------------------
IInv == TypeOK /\ CountersExpire /\ TwoWindows

LEMMA InitInv == Init => IInv
<1> SUFFICES ASSUME Init PROVE IInv
  OBVIOUS
<1>1. TypeOK
  BY DEF Init, TypeOK, Places, Verdicts
<1>2. CountersExpire
  BY KeyFacts DEF Init, CountersExpire
<1>3. ASSUME NEW k \in Key
      PROVE  \E total : Totals(total, k)
  <2>1. PICK total : total = [n \in 0 .. WindowOf(k) |-> 0]
    OBVIOUS
  <2>2. /\ WindowOf(k) \in Nat /\ LimitOf(k) \in Nat /\ 0 \in Ages(k)
        /\ \A age \in Ages(k) : age \in 0 .. WindowOf(k) /\ age + 1 \in 0 .. WindowOf(k)
    BY KeyFacts DEF Ages
  <2>3. left[k] = 0 /\ granted[k] = [age \in Ages(k) |-> 0]
    BY DEF Init
  <2>4. RunningTotal(total, k)
    BY <2>1, <2>2, <2>3 DEF RunningTotal
  <2>5. QED
    BY <2>1, <2>2, <2>3, <2>4 DEF Totals
<1>4. QED
  BY <1>1, <1>2, <1>3 DEF IInv, TwoWindows

LEMMA InductiveInv == Spec => []IInv
<1>1. IInv /\ [Next]_vars => IInv'
  BY TypeStep, ExpiryStep, TotalsStep DEF IInv
<1>2. QED
  BY InitInv, <1>1, PTL DEF Spec

(* Every variable keeps its type.                                          *)
THEOREM TypeCorrect == Spec => []TypeOK
BY InductiveInv, PTL DEF IInv

(* No counter is left without an expiry, and none outlives its window: no  *)
(* client is locked out for ever.                                          *)
THEOREM AlwaysCountersExpire == Spec => []CountersExpire
BY InductiveInv, PTL DEF IInv

(* Any stretch of one window lets at most twice the limit through, for     *)
(* every limit and every length of the window.                             *)
THEOREM AlwaysTwiceTheLimit == Spec => []TwiceTheLimit
<1>1. IInv => TwiceTheLimit
  <2> SUFFICES ASSUME IInv, NEW k \in Key, k[1] # "user"
               PROVE  AtMost(2 * LimitOf(k), k)
    BY DEF TwiceTheLimit
  <2>1. PICK total : Totals(total, k)
    BY DEF IInv, TwoWindows
  <2>2. PICK W : W = WindowOf(k)
    OBVIOUS
  <2>3. PICK n : n = W - left[k] + 1
    OBVIOUS
  <2>4. /\ W \in Nat /\ W > 0 /\ LimitOf(k) \in Nat
        /\ left[k] \in Nat /\ left[k] <= W
    BY <2>2, KeyFacts DEF IInv, TypeOK, CountersExpire
  <2>5. W \in 0 .. W /\ (left[k] > 0 => n \in 0 .. W)
    BY <2>3, <2>4
  <2>6. total \in [0 .. W -> Nat] /\ \A i \in 0 .. W : total[i] <= total[W]
    BY <2>1, <2>2, <2>5 DEF Totals
  <2>7. total[W] <= 2 * LimitOf(k)
    <3>1. CASE left[k] = 0
      BY <2>1, <2>2, <2>4, <2>5, <2>6, <3>1 DEF Totals
    <3>2. CASE left[k] > 0
      <4>1. total[n] <= LimitOf(k) /\ total[W] <= total[n] + LimitOf(k)
        BY <2>1, <2>2, <2>3, <3>2 DEF Totals
      <4>2. total[n] \in Nat /\ total[W] \in Nat
        BY <2>5, <2>6, <3>2
      <4>3. QED
        BY <2>4, <4>1, <4>2
    <3>3. QED
      BY <2>4, <3>1, <3>2
  <2>8. \A i \in 0 .. W : total[i] \in 0 .. 2 * LimitOf(k)
    <3> SUFFICES ASSUME NEW i \in 0 .. W
                 PROVE  total[i] \in 0 .. 2 * LimitOf(k)
      OBVIOUS
    <3>1. total[i] \in Nat /\ total[W] \in Nat /\ total[i] <= total[W]
      BY <2>5, <2>6
    <3>2. QED
      BY <2>4, <2>7, <3>1
  <2>9. total \in [0 .. W -> 0 .. 2 * LimitOf(k)] /\ RunningTotal(total, k)
    BY <2>1, <2>6, <2>8 DEF Totals
  <2>10. QED
    BY <2>2, <2>9 DEF AtMost
<1>2. QED
  BY InductiveInv, <1>1, PTL

-----------------------------------------------------------------------------
(* What PingAnswered will return: the object that answers, or one that     *)
(* another call has put in its place and that answered during this call.   *)
PingsTheGlobal ==
    \A c \in Call : at[c] = "ping" =>
        /\ pinged[c] \in Client
        /\ client \in {None, pinged[c]} \cup verified[c]

(* A call that nothing has disturbed pings the global, and only the first  *)
(* round can meet a broken connection.                                     *)
AloneSoFar ==
    \A c \in Call : undisturbed[c] /\ at[c] # "idle" =>
        /\ up
        /\ \A d \in Call \ {c} : at[d] = "idle"
        /\ at[c] = "ping" =>
              /\ client = pinged[c]
              /\ attempt[c] = 1 \/ client \notin broken
        /\ at[c] = "close" => attempt[c] = 1

-----------------------------------------------------------------------------
(* Every step keeps the types.                                             *)
LEMMA ClientTypeStep ==
    ASSUME ClientTypeOK, PingsTheGlobal, [ClientNext]_clientVars
    PROVE  ClientTypeOK'
<1> USE DEF ClientTypeOK, PingsTheGlobal, Clients, Results, ClientPlaces, clientVars, callVars
<1>1. ASSUME NEW c \in Call, EnsureClient(c) PROVE ClientTypeOK'
  BY <1>1 DEF EnsureClient, Begins, Round, GoesTo
<1>2. ASSUME NEW c \in Call, NEW new \in Client, Connected(c, new)
      PROVE  ClientTypeOK'
  BY <1>2 DEF Connected, InUse, Round, Answered, GoesTo
<1>3. ASSUME NEW c \in Call, ConnectFails(c) PROVE ClientTypeOK'
  BY <1>3 DEF ConnectFails, NextRound, Round, Leave, GoesTo
<1>4. ASSUME NEW c \in Call, PingAnswered(c) PROVE ClientTypeOK'
  BY <1>4 DEF PingAnswered, Leave, Answered, GoesTo
<1>5. ASSUME NEW c \in Call, PingFails(c) PROVE ClientTypeOK'
  BY <1>5 DEF PingFails, NextRound, Round, Leave, GoesTo
<1>6. ASSUME NEW c \in Call, Closed(c) PROVE ClientTypeOK'
  BY <1>6 DEF Closed, NextRound, Round, Leave, GoesTo
<1>7. ASSUME RedisStops PROVE ClientTypeOK'
  BY <1>7 DEF RedisStops, InUse
<1>8. ASSUME RedisStarts PROVE ClientTypeOK'
  BY <1>8 DEF RedisStarts
<1>9. CASE UNCHANGED clientVars
  BY <1>9
<1>10. QED
  BY <1>1, <1>2, <1>3, <1>4, <1>5, <1>6, <1>7, <1>8, <1>9
     DEF ClientNext, Step

LEMMA PingStep ==
    ASSUME ClientTypeOK, PingsTheGlobal, [ClientNext]_clientVars
    PROVE  PingsTheGlobal'
<1> USE NoneAssumption DEF ClientTypeOK, Clients, PingsTheGlobal, clientVars, callVars
<1>1. ASSUME NEW c \in Call, EnsureClient(c) PROVE PingsTheGlobal'
  BY <1>1 DEF EnsureClient, Begins, Round, GoesTo
<1>2. ASSUME NEW c \in Call, NEW new \in Client, Connected(c, new)
      PROVE  PingsTheGlobal'
  BY <1>2 DEF Connected, InUse, Round, Answered, GoesTo
<1>3. ASSUME NEW c \in Call, ConnectFails(c) PROVE PingsTheGlobal'
  BY <1>3 DEF ConnectFails, NextRound, Round, Leave, GoesTo
<1>4. ASSUME NEW c \in Call, PingAnswered(c) PROVE PingsTheGlobal'
  BY <1>4 DEF PingAnswered, Leave, Answered, GoesTo
<1>5. ASSUME NEW c \in Call, PingFails(c) PROVE PingsTheGlobal'
  BY <1>5 DEF PingFails, NextRound, Round, Leave, GoesTo
<1>6. ASSUME NEW c \in Call, Closed(c) PROVE PingsTheGlobal'
  BY <1>6 DEF Closed, NextRound, Round, Leave, GoesTo
<1>7. ASSUME RedisStops PROVE PingsTheGlobal'
  BY <1>7 DEF RedisStops, InUse
<1>8. ASSUME RedisStarts PROVE PingsTheGlobal'
  BY <1>8 DEF RedisStarts
<1>9. CASE UNCHANGED clientVars
  BY <1>9
<1>10. QED
  BY <1>1, <1>2, <1>3, <1>4, <1>5, <1>6, <1>7, <1>8, <1>9
     DEF ClientNext, Step

LEMMA VerifiedStep ==
    ASSUME ClientTypeOK, PingsTheGlobal, ReturnsVerified, [ClientNext]_clientVars
    PROVE  ReturnsVerified'
<1> USE NoneAssumption, ResultAssumption DEF ClientTypeOK, Clients,
            PingsTheGlobal, ReturnsVerified, clientVars, callVars
<1>1. ASSUME NEW c \in Call, EnsureClient(c) PROVE ReturnsVerified'
  BY <1>1 DEF EnsureClient, Begins, Round, GoesTo
<1>2. ASSUME NEW c \in Call, NEW new \in Client, Connected(c, new)
      PROVE  ReturnsVerified'
  BY <1>2 DEF Connected, InUse, Round, Answered, GoesTo
<1>3. ASSUME NEW c \in Call, ConnectFails(c) PROVE ReturnsVerified'
  BY <1>3 DEF ConnectFails, NextRound, Round, Leave, GoesTo
<1>4. ASSUME NEW c \in Call, PingAnswered(c) PROVE ReturnsVerified'
  BY <1>4 DEF PingAnswered, Leave, Answered, GoesTo
<1>5. ASSUME NEW c \in Call, PingFails(c) PROVE ReturnsVerified'
  BY <1>5 DEF PingFails, NextRound, Round, Leave, GoesTo
<1>6. ASSUME NEW c \in Call, Closed(c) PROVE ReturnsVerified'
  BY <1>6 DEF Closed, NextRound, Round, Leave, GoesTo
<1>7. ASSUME RedisStops PROVE ReturnsVerified'
  BY <1>7 DEF RedisStops, InUse
<1>8. ASSUME RedisStarts PROVE ReturnsVerified'
  BY <1>8 DEF RedisStarts
<1>9. CASE UNCHANGED clientVars
  BY <1>9
<1>10. QED
  BY <1>1, <1>2, <1>3, <1>4, <1>5, <1>6, <1>7, <1>8, <1>9
     DEF ClientNext, Step

LEMMA AloneStep ==
    ASSUME ClientTypeOK, PingsTheGlobal, AloneSoFar, [ClientNext]_clientVars
    PROVE  AloneSoFar'
<1> USE NoneAssumption DEF ClientTypeOK, Clients, PingsTheGlobal, AloneSoFar,
            Others, clientVars, callVars
<1>1. ASSUME NEW c \in Call, EnsureClient(c) PROVE AloneSoFar'
  BY <1>1 DEF EnsureClient, Begins, Round, GoesTo
<1>2. ASSUME NEW c \in Call, NEW new \in Client, Connected(c, new)
      PROVE  AloneSoFar'
  BY <1>2 DEF Connected, InUse, Round, Answered, GoesTo
<1>3. ASSUME NEW c \in Call, ConnectFails(c) PROVE AloneSoFar'
  BY <1>3 DEF ConnectFails, NextRound, Round, Leave, GoesTo
<1>4. ASSUME NEW c \in Call, PingAnswered(c) PROVE AloneSoFar'
  BY <1>4 DEF PingAnswered, Leave, Answered, GoesTo
<1>5. ASSUME NEW c \in Call, PingFails(c) PROVE AloneSoFar'
  BY <1>5 DEF PingFails, NextRound, Round, Leave, GoesTo
<1>6. ASSUME NEW c \in Call, Closed(c) PROVE AloneSoFar'
  BY <1>6 DEF Closed, NextRound, Round, Leave, GoesTo
<1>7. ASSUME RedisStops PROVE AloneSoFar'
  BY <1>7 DEF RedisStops, InUse
<1>8. ASSUME RedisStarts PROVE AloneSoFar'
  BY <1>8 DEF RedisStarts
<1>9. CASE UNCHANGED clientVars
  BY <1>9
<1>10. QED
  BY <1>1, <1>2, <1>3, <1>4, <1>5, <1>6, <1>7, <1>8, <1>9
     DEF ClientNext, Step

LEMMA ReconnectStep ==
    ASSUME ClientTypeOK, PingsTheGlobal, AloneSoFar, AloneReconnects, [ClientNext]_clientVars
    PROVE  AloneReconnects'
<1> USE NoneAssumption DEF ClientTypeOK, Clients, PingsTheGlobal, AloneSoFar,
            AloneReconnects, clientVars, callVars
<1>1. ASSUME NEW c \in Call, EnsureClient(c) PROVE AloneReconnects'
  BY <1>1 DEF EnsureClient, Begins, Round, GoesTo
<1>2. ASSUME NEW c \in Call, NEW new \in Client, Connected(c, new)
      PROVE  AloneReconnects'
  BY <1>2 DEF Connected, InUse, Round, Answered, GoesTo
<1>3. ASSUME NEW c \in Call, ConnectFails(c) PROVE AloneReconnects'
  BY <1>3 DEF ConnectFails, NextRound, Round, Leave, GoesTo
<1>4. ASSUME NEW c \in Call, PingAnswered(c) PROVE AloneReconnects'
  BY <1>4 DEF PingAnswered, Leave, Answered, GoesTo
<1>5. ASSUME NEW c \in Call, PingFails(c) PROVE AloneReconnects'
  BY <1>5 DEF PingFails, NextRound, Round, Leave, GoesTo
<1>6. ASSUME NEW c \in Call, Closed(c) PROVE AloneReconnects'
  BY <1>6 DEF Closed, NextRound, Round, Leave, GoesTo
<1>7. ASSUME RedisStops PROVE AloneReconnects'
  BY <1>7 DEF RedisStops, InUse
<1>8. ASSUME RedisStarts PROVE AloneReconnects'
  BY <1>8 DEF RedisStarts
<1>9. CASE UNCHANGED clientVars
  BY <1>9
<1>10. QED
  BY <1>1, <1>2, <1>3, <1>4, <1>5, <1>6, <1>7, <1>8, <1>9
     DEF ClientNext, Step

-----------------------------------------------------------------------------
ClientInv ==
    /\ ClientTypeOK /\ PingsTheGlobal /\ AloneSoFar
    /\ ReturnsVerified /\ AloneReconnects

LEMMA ClientInitInv == ClientInit => ClientInv
BY NoneAssumption, ResultAssumption
   DEF ClientInit, ClientInv, ClientTypeOK, Clients, Results, ClientPlaces, PingsTheGlobal, AloneSoFar,
       ReturnsVerified, AloneReconnects

LEMMA ClientInductiveInv == ClientSpec => []ClientInv
<1>1. ClientInv /\ [ClientNext]_clientVars => ClientInv'
  BY ClientTypeStep, PingStep, VerifiedStep, AloneStep, ReconnectStep DEF ClientInv
<1>2. QED
  BY ClientInitInv, <1>1, PTL DEF ClientSpec

(* Every variable keeps its type.                                          *)
THEOREM ClientTypeCorrect == ClientSpec => []ClientTypeOK
BY ClientInductiveInv, PTL DEF ClientInv

(* Whatever the other calls do to the global at each await, the client a   *)
(* call returns has answered since that call began.                        *)
THEOREM AlwaysReturnsVerified == ClientSpec => []ReturnsVerified
BY ClientInductiveInv, PTL DEF ClientInv

(* One reconnection is enough for a call that is alone while Redis is up.  *)
THEOREM AlwaysAloneReconnects == ClientSpec => []AloneReconnects
BY ClientInductiveInv, PTL DEF ClientInv
=============================================================================
