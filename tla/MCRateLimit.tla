---------------------------- MODULE MCRateLimit ----------------------------
(* An instance for TLC of web/ratelimit.py.  Its two halves, the counters  *)
(* and the client, share no variable and each allows for all that the      *)
(* other and Redis may do, so that an execution follows one of them.       *)
EXTENDS LoginLimiter, RedisClient

Limits  == [ip |-> 2, user |-> 1, sync |-> 1]
Windows == [ip |-> 2, user |-> 2, sync |-> 1]

VARIABLE half      \* the one that is followed

halves == <<half, vars, clientVars>>

HalvesInit == half \in {"counters", "client"} /\ Init /\ ClientInit

InCounters == half = "counters" /\ UNCHANGED <<half, clientVars>>
InClient   == half = "client" /\ UNCHANGED <<half, vars>>

HalvesNext ==
    \/ Next /\ InCounters
    \/ ClientNext /\ InClient

HalvesSpec ==
    /\ HalvesInit /\ [][HalvesNext]_halves
    /\ WF_halves(Tick /\ InCounters)
=============================================================================
