------------------------------- MODULE SyncJob -------------------------------
(***************************************************************************)
(* What the routes of web/routes/sync.py promise the browser about one     *)
(* account: there is one synchronisation job at a time.  A job exchanges   *)
(* the collection, then the media; it may stop in the middle to ask the    *)
(* user for a direction, and then it goes on only in the direction the     *)
(* conflict was decided.  A job that runs comes to an end, and the hostKey *)
(* is forgotten only with a job whose login has expired.                   *)
(***************************************************************************)

VARIABLES
    job,        \* what /sync/wait shows
    stage,      \* what the running job is doing: "none" unless job is "running"
    direction,  \* conflict_direction
    going,      \* the direction of the transfer, "none" in the other stages
    expired,    \* the job has ended with auth_expired
    key         \* there is a hostKey

jobVars == <<job, stage, direction, going, expired, key>>

Jobs   == {"idle", "running", "conflict", "done", "error"}
Stages == {"none", "exchange", "transfer", "media"}
Directions == {"upload", "download"}
Choice     == Directions \cup {"none"}

JobTypeOK ==
    /\ job \in Jobs /\ stage \in Stages
    /\ direction \in Choice /\ going \in Choice
    /\ expired \in BOOLEAN /\ key \in BOOLEAN

Init ==
    /\ job = "idle" /\ stage = "none"
    /\ direction = "none" /\ going = "none"
    /\ expired = FALSE
    /\ key \in BOOLEAN

Goto(j, s) == job' = j /\ stage' = s

(* POST /sync *)
Start ==
    /\ job \in {"idle", "done", "error"} /\ Goto("running", "exchange")
    /\ expired' = FALSE
    /\ UNCHANGED <<direction, going, key>>

(* AnkiWeb cannot merge: it leaves the choice to the user, or makes it. *)
Ask ==
    /\ job = "running" /\ stage = "exchange" /\ Goto("conflict", "none")
    /\ direction' \in Choice
    /\ UNCHANGED <<going, expired, key>>

(* POST /sync/conflict *)
Choose(choice) ==
    /\ job = "conflict" /\ direction' = choice
    /\ UNCHANGED <<job, stage, going, expired, key>>

(* The user gives up, or has to sign in again. *)
Cancel ==
    /\ job = "conflict" /\ Goto("idle", "none")
    /\ direction' = "none"
    /\ UNCHANGED <<going, expired, key>>

(* POST /sync/full *)
Confirm ==
    /\ job = "conflict" /\ direction # "none" /\ key /\ Goto("running", "transfer")
    /\ going' = direction /\ direction' = "none"
    /\ UNCHANGED <<expired, key>>

(* The collection is exchanged: the media follow, in the same job. *)
Media ==
    /\ job = "running" /\ stage \in {"exchange", "transfer"} /\ Goto("running", "media")
    /\ going' = "none"
    /\ UNCHANGED <<direction, expired, key>>

Finish ==
    /\ job = "running" /\ stage = "media" /\ Goto("done", "none")
    /\ UNCHANGED <<direction, going, expired, key>>

(* A login expires in an exchange or a transfer. *)
Fail ==
    /\ job = "running" /\ Goto("error", "none")
    /\ expired' \in {FALSE, stage # "media"}
    /\ key' = (key /\ ~expired')
    /\ going' = "none"
    /\ UNCHANGED direction

(* POST /login *)
Login == key' = TRUE /\ UNCHANGED <<job, stage, direction, going, expired>>

(* The process restarts and forgets the job. *)
Restart ==
    /\ job # "idle" /\ Goto("idle", "none")
    /\ direction' = "none" /\ going' = "none" /\ expired' = FALSE
    /\ UNCHANGED key

Leave == Ask \/ Finish \/ Fail

Next ==
    \/ Start \/ Ask \/ Cancel \/ Confirm \/ Media \/ Finish \/ Fail \/ Login \/ Restart
    \/ \E choice \in Directions : Choose(choice)

Spec == Init /\ [][Next]_jobVars /\ WF_jobVars(Media \/ Leave)
=============================================================================
