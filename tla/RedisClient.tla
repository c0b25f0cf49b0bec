----------------------------- MODULE RedisClient -----------------------------
(***************************************************************************)
(* The Redis client that all requests share: _ensure_client of             *)
(* web/ratelimit.py and its global _client.                                *)
(*                                                                         *)
(* A call pings the cached client and, if that fails, closes it and        *)
(* connects anew, once.  It reads and writes the global at each step and   *)
(* keeps no reference of its own, so that calls see each other's changes   *)
(* at every await: connecting, pinging, closing.                           *)
(*                                                                         *)
(* Left out: close_redis, which runs when no request is left.              *)
(***************************************************************************)
EXTENDS Naturals

CONSTANTS
    Call,      \* requests inside _ensure_client
    Client,    \* Redis client objects
    None

ASSUME NoneAssumption   == None \notin Client
ASSUME ResultAssumption == "pending" \notin Client /\ "RuntimeError" \notin Client

Clients == Client \cup {None}

VARIABLES
    client,         \* the global _client
    at,             \* the await each call is at
    attempt,        \* 1 or 2
    pinged,         \* the object a call has sent PING on
    result,         \* what the call returned or raised
    up,             \* Redis answers
    broken,         \* clients whose connection was cut
    verified,       \* observer: the clients that answered during the call
    undisturbed     \* observer: no outage and no other call during the call

callVars == <<at, attempt, pinged, result>>
clientVars == <<client, callVars, up, broken, verified, undisturbed>>

ClientPlaces == {"idle", "connect", "ping", "close"}
Results      == Clients \cup {"pending", "RuntimeError"}

ClientTypeOK ==
    /\ client \in Clients
    /\ at \in [Call -> ClientPlaces]
    /\ attempt \in [Call -> {1, 2}]
    /\ pinged \in [Call -> Clients]
    /\ result \in [Call -> Results]
    /\ up \in BOOLEAN
    /\ broken \subseteq Client
    /\ verified \in [Call -> SUBSET Client]
    /\ undisturbed \in [Call -> BOOLEAN]

ClientInit ==
    /\ client = None
    /\ at = [c \in Call |-> "idle"]
    /\ attempt = [c \in Call |-> 1]
    /\ pinged = [c \in Call |-> None]
    /\ result = [c \in Call |-> "pending"]
    /\ up = TRUE
    /\ broken = {}
    /\ verified = [c \in Call |-> {}]
    /\ undisturbed = [c \in Call |-> FALSE]

-----------------------------------------------------------------------------
GoesTo(c, place) == at' = [at EXCEPT ![c] = place]

(* The head of the loop: the global as it is now is pinged, or made. *)
Round(c, current) ==
    /\ GoesTo(c, IF current = None THEN "connect" ELSE "ping")
    /\ pinged' = [pinged EXCEPT ![c] = current]

Leave(c, what) ==
    /\ GoesTo(c, "idle")
    /\ pinged' = [pinged EXCEPT ![c] = None]
    /\ result' = [result EXCEPT ![c] = what]

(* After a failed attempt. *)
NextRound(c, current) ==
    \/ /\ attempt[c] = 1
       /\ attempt' = [attempt EXCEPT ![c] = 2]
       /\ Round(c, current)
       /\ UNCHANGED result
    \/ /\ attempt[c] = 2
       /\ Leave(c, "RuntimeError")
       /\ UNCHANGED attempt

Others(c) == {d \in Call \ {c} : at[d] # "idle"}

Begins(c) ==
    /\ at[c] = "idle"
    /\ attempt' = [attempt EXCEPT ![c] = 1]
    /\ verified' = [verified EXCEPT ![c] = {}]
    /\ undisturbed' = [d \in Call |->
          IF d = c THEN up /\ Others(c) = {} ELSE undisturbed[d] /\ at[d] = "idle"]
    /\ UNCHANGED <<client, up, broken>>

EnsureClient_CachedUntested(c) ==
    /\ Begins(c)
    /\ IF client = None THEN Round(c, client) /\ result' = [result EXCEPT ![c] = "pending"]
                        ELSE Leave(c, client)

EnsureClient(c) ==
    /\ Begins(c)
    /\ Round(c, client)
    /\ result' = [result EXCEPT ![c] = "pending"]

(* The objects a call or the global still refers to. *)
InUse == Client \cap ({client} \cup {pinged[c] : c \in Call})

Answered(k) ==
    verified' = [c \in Call |-> IF at[c] = "idle" THEN verified[c] ELSE verified[c] \cup {k}]

(* _new_client has pinged the new client; the loop pings it again. *)
Connected(c, new) ==
    /\ at[c] = "connect"
    /\ up
    /\ new \notin InUse
    /\ client' = new
    /\ broken' = (broken \cap InUse) \ {new}
    /\ Round(c, new)
    /\ Answered(new)
    /\ UNCHANGED <<attempt, result, up, undisturbed>>

ConnectFails(c) ==
    /\ at[c] = "connect"
    /\ ~up
    /\ NextRound(c, client)
    /\ UNCHANGED <<client, up, broken, verified, undisturbed>>

(* `return _client`: the global, not the object that was pinged.  A broken *)
(* connection may have been replaced by the client object itself.          *)
PingAnswered(c) ==
    /\ at[c] = "ping"
    /\ up
    /\ Leave(c, client)
    /\ Answered(pinged[c])
    /\ broken' = broken \ {pinged[c]}
    /\ UNCHANGED <<client, attempt, up, undisturbed>>

PingFails_FirstRoundOnly(c) ==
    /\ at[c] = "ping" /\ (~up \/ pinged[c] \in broken)
    /\ Leave(c, "RuntimeError")
    /\ UNCHANGED <<client, attempt, up, broken, verified, undisturbed>>

(* _safe_close(_client) closes the global, whatever it is by now, and does *)
(* not suspend if another call has cleared it.                             *)
PingFails(c) ==
    /\ at[c] = "ping"
    /\ ~up \/ pinged[c] \in broken
    /\ IF client = None
       THEN NextRound(c, None) /\ UNCHANGED broken
       ELSE GoesTo(c, "close") /\ broken' = broken \cup {client}
                             /\ UNCHANGED <<attempt, pinged, result>>
    /\ UNCHANGED <<client, up, verified, undisturbed>>

Closed(c) ==
    /\ at[c] = "close"
    /\ client' = None
    /\ NextRound(c, None)
    /\ UNCHANGED <<up, broken, verified, undisturbed>>

-----------------------------------------------------------------------------
(* Redis stops, and with it all its connections. *)
RedisStops ==
    /\ up
    /\ up' = FALSE
    /\ broken' = InUse
    /\ undisturbed' = [c \in Call |-> undisturbed[c] /\ at[c] = "idle"]
    /\ UNCHANGED <<client, callVars, verified>>

RedisStarts ==
    /\ ~up
    /\ up' = TRUE
    /\ UNCHANGED <<client, callVars, broken, verified, undisturbed>>

Step(c) ==
    \/ \E new \in Client : Connected(c, new)
    \/ ConnectFails(c)
    \/ PingAnswered(c)
    \/ PingFails(c)
    \/ Closed(c)

ClientNext ==
    \/ \E c \in Call : EnsureClient(c) \/ Step(c)
    \/ RedisStops \/ RedisStarts

ClientSpec == ClientInit /\ [][ClientNext]_clientVars
-----------------------------------------------------------------------------
(* A client that is returned has answered since the call began, to this    *)
(* call or to another one that replaced it.                                *)
ReturnsVerified == \A c \in Call : result[c] \in Client => result[c] \in verified[c]

(* A call that has Redis and the global to itself gets a client, whatever  *)
(* happened to the cached connection before.                               *)
AloneReconnects ==
    \A c \in Call : undisturbed[c] /\ at[c] = "idle" => result[c] \in Client
-----------------------------------------------------------------------------
(* ratelimit.py:90: _ensure_client "Returns a working Redis client".       *)
ReturnsAClient == \A c \in Call : result[c] # None
=============================================================================
