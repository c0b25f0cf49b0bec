---------------------------- MODULE LoginLimiter ----------------------------
(***************************************************************************)
(* The counters in Redis that limit how often a client may sign in and     *)
(* sync (web/ratelimit.py), and POST /login, which consults them           *)
(* (web/routes/auth.py).                                                   *)
(*                                                                         *)
(* A counter lives for a window that starts with its first hit.  A request *)
(* is suspended at each call of Redis; AnkiWeb is asked without suspending *)
(* the event loop.  Time passes in ticks.                                  *)
(*                                                                         *)
(* Left out: how the client's address is found, names that are refused     *)
(* before anything is counted, and what a successful login stores, which   *)
(* is in SyncFlow.  A registration refused for lack of space is a login    *)
(* that AnkiWeb refuses.  The connection to Redis is RedisClient's.        *)
(***************************************************************************)
EXTENDS Naturals

CONSTANTS
    Req,       \* requests in flight
    Ip,
    User,
    Limit,     \* attempts per window, for each kind of counter
    Window     \* ticks a counter lives, for each kind of counter

Kinds == {"ip", "user", "sync"}

ASSUME LimitAssumption  == Limit \in [Kinds -> Nat \ {0}]
ASSUME WindowAssumption == Window \in [Kinds -> Nat \ {0}]

(* The keys of the counters. *)
Key == ({"ip"} \X Ip) \cup ({"user", "sync"} \X User)

LimitOf(k)  == Limit[k[1]]
WindowOf(k) == Window[k[1]]

VARIABLES
    count,      \* the value of each counter in Redis, 0 if there is none
    left,       \* ticks until it expires
    pc,         \* the await each request is at
    ip, user,   \* whose request it is
    verdict,    \* how it ended
    granted,    \* observer: hits let through, by age in ticks
    spotless    \* observer: so far all passwords were right and Redis answered

redisVars == <<count, left>>
reqVars   == <<pc, ip, user, verdict>>
vars == <<redisVars, reqVars, granted, spotless>>

Places   == {"idle", "count_ip", "count_user", "reset", "count_sync"}
Verdicts == {"none", "signed in", "wrong", "too many", "unavailable",
            "may sync", "no sync", "error"}
Ages(k)  == 0 .. WindowOf(k) - 1

TypeOK ==
    /\ count \in [Key -> Nat]
    /\ left \in [Key -> Nat]
    /\ pc \in [Req -> Places]
    /\ ip \in [Req -> Ip]
    /\ user \in [Req -> User]
    /\ verdict \in [Req -> Verdicts]
    /\ DOMAIN granted = Key
    /\ \A k \in Key : granted[k] \in [Ages(k) -> Nat]
    /\ spotless \in BOOLEAN

Init ==
    /\ count = [k \in Key |-> 0]
    /\ left = [k \in Key |-> 0]
    /\ pc = [r \in Req |-> "idle"]
    /\ ip \in [Req -> Ip]
    /\ user \in [Req -> User]
    /\ verdict = [r \in Req |-> "none"]
    /\ granted = [k \in Key |-> [age \in Ages(k) |-> 0]]
    /\ spotless = TRUE

-----------------------------------------------------------------------------
IpKey(r)   == <<"ip", ip[r]>>
UserKey(r) == <<"user", user[r]>>
SyncKey(r) == <<"sync", user[r]>>

Goto(r, place) ==
    /\ pc' = [pc EXCEPT ![r] = place]
    /\ UNCHANGED <<ip, user, verdict>>

Answer(r, what) ==
    /\ pc' = [pc EXCEPT ![r] = "idle"]
    /\ verdict' = [verdict EXCEPT ![r] = what]
    /\ UNCHANGED <<ip, user>>

Arrive(r, i, u, place) ==
    /\ pc[r] = "idle"
    /\ pc' = [pc EXCEPT ![r] = place]
    /\ ip' = [ip EXCEPT ![r] = i]
    /\ user' = [user EXCEPT ![r] = u]
    /\ verdict' = [verdict EXCEPT ![r] = "none"]
    /\ UNCHANGED <<redisVars, granted, spotless>>

Login(r, i, u) == Arrive(r, i, u, "count_ip")
Sync(r, i, u)  == Arrive(r, i, u, "count_sync")

Incr_ExpiryForgotten(k) ==
    count' = [count EXCEPT ![k] = IF @ > LimitOf(k) THEN @ ELSE @ + 1] /\ UNCHANGED left

Incr_ExpiryRenewed(k) ==
    /\ count' = [count EXCEPT ![k] = IF @ > LimitOf(k) THEN @ ELSE @ + 1]
    /\ left' = [left EXCEPT ![k] = WindowOf(k)]

(* The Lua script: INCR, and PEXPIRE on the first hit.  Past the limit the *)
(* value no longer matters.                                                *)
Incr(k) ==
    /\ count' = [count EXCEPT ![k] = IF @ > LimitOf(k) THEN @ ELSE @ + 1]
    /\ left' = [left EXCEPT ![k] = IF count[k] = 0 THEN WindowOf(k) ELSE @]

Allowed_OneMore(k) == count[k] <= LimitOf(k)

Allowed(k) == count[k] < LimitOf(k)

Hit(k) ==
    /\ Incr(k)
    /\ granted' = IF Allowed(k) THEN [granted EXCEPT ![k][0] = @ + 1] ELSE granted

CountIp(r) ==
    /\ pc[r] = "count_ip"
    /\ Hit(IpKey(r))
    /\ IF Allowed(IpKey(r)) THEN Goto(r, "count_user") ELSE Answer(r, "too many")
    /\ UNCHANGED spotless

(* Within both limits AnkiWeb is asked, in the same step. *)
CountUserAndLogin(r, right) ==
    /\ pc[r] = "count_user"
    /\ Hit(UserKey(r))
    /\ \/ ~Allowed(UserKey(r)) /\ Answer(r, "too many") /\ UNCHANGED spotless
       \/ Allowed(UserKey(r)) /\ right /\ Goto(r, "reset") /\ UNCHANGED spotless
       \/ Allowed(UserKey(r)) /\ ~right /\ Answer(r, "wrong") /\ spotless' = FALSE

CountSync(r) ==
    /\ pc[r] = "count_sync"
    /\ Hit(SyncKey(r))
    /\ Answer(r, IF Allowed(SyncKey(r)) THEN "may sync" ELSE "no sync")
    /\ UNCHANGED spotless

Clear(k) ==
    /\ count' = [count EXCEPT ![k] = 0]
    /\ left' = [left EXCEPT ![k] = 0]

(* LoginRateLimiter.reset, and the rest of the handler. *)
Reset(r) ==
    /\ pc[r] = "reset"
    /\ Clear(UserKey(r))
    /\ Answer(r, "signed in")
    /\ UNCHANGED <<granted, spotless>>

(* _ensure_client gives up before the first counter: the login is refused  *)
(* with 503, the sync is not begun.                                        *)
NoClient(r) ==
    /\ \/ pc[r] = "count_ip"   /\ Answer(r, "unavailable")
       \/ pc[r] = "count_sync" /\ Answer(r, "no sync")
    /\ UNCHANGED redisVars

(* The script fails, or its reply is lost: nothing handles the exception   *)
(* (HTTP 500), and Redis may have counted.                                 *)
ScriptFails(r, k) ==
    /\ Answer(r, "error")
    /\ Incr(k) \/ UNCHANGED redisVars

(* A reset that fails is only logged; Redis may have deleted the counter. *)
ResetFails(r) ==
    /\ pc[r] = "reset"
    /\ Answer(r, "signed in")
    /\ Clear(UserKey(r)) \/ UNCHANGED redisVars

RedisFails(r) ==
    /\ \/ NoClient(r)
       \/ pc[r] = "count_ip"   /\ ScriptFails(r, IpKey(r))
       \/ pc[r] = "count_user" /\ ScriptFails(r, UserKey(r))
       \/ pc[r] = "count_sync" /\ ScriptFails(r, SyncKey(r))
       \/ ResetFails(r)
    /\ spotless' = FALSE
    /\ UNCHANGED granted

Tick ==
    /\ left' = [k \in Key |-> IF left[k] = 0 THEN 0 ELSE left[k] - 1]
    /\ count' = [k \in Key |-> IF left[k] <= 1 THEN 0 ELSE count[k]]
    /\ granted' = [k \in Key |->
          [age \in Ages(k) |-> IF age = 0 THEN 0 ELSE granted[k][age - 1]]]
    /\ UNCHANGED <<reqVars, spotless>>

Handle(r) ==
    \/ CountIp(r)
    \/ \E right \in BOOLEAN : CountUserAndLogin(r, right)
    \/ CountSync(r)
    \/ Reset(r)
    \/ RedisFails(r)

Next ==
    \/ \E r \in Req, i \in Ip, u \in User : Login(r, i, u) \/ Sync(r, i, u)
    \/ \E r \in Req : Handle(r)
    \/ Tick

Spec == Init /\ [][Next]_vars
FairSpec == Spec /\ WF_vars(Tick)
-----------------------------------------------------------------------------
(* total[n] is the number of hits let through at ages below n.             *)
RunningTotal(total, k) ==
    /\ total[0] = 0
    /\ \A age \in Ages(k) : total[age + 1] = total[age] + granted[k][age]

(* At most n hits were let through within the last window of a counter.    *)
AtMost(n, k) == \E total \in [0 .. WindowOf(k) -> 0 .. n] : RunningTotal(total, k)

(* A counter that exists expires, within its window.                       *)
CountersExpire ==
    \A k \in Key : left[k] <= WindowOf(k) /\ (count[k] > 0 <=> left[k] > 0)

(* Any stretch of one window meets two windows of a counter at most, so it *)
(* lets at most twice the limit through, unless successful logins reset    *)
(* the counter.                                                            *)
TwiceTheLimit ==
    \A k \in Key : k[1] # "user" => AtMost(2 * LimitOf(k), k)

(* A client over its limit is let in again, however often it retries.      *)
LetInAgain == \A k \in Key : count[k] > LimitOf(k) ~> count[k] = 0
-----------------------------------------------------------------------------
(* config.py:94 calls it a "Rolling window for the per-IP login rate       *)
(* limit": no stretch of one window lets more than the limit through.      *)
RollingWindow == \A k \in Key : k[1] = "ip" => AtMost(LimitOf(k), k)

(* ratelimit.py:15: "On a successful login the counters are cleared so a   *)
(* legitimate user logging in and out is not penalised."                   *)
SuccessIsNotPenalised == spotless => \A r \in Req : verdict[r] # "too many"
=============================================================================
