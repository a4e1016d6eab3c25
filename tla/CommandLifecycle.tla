-------------------------- MODULE CommandLifecycle --------------------------
(***************************************************************************)
(* What the queue of durable execution commands promises, with no store:   *)
(* a command is enqueued once, belongs to the one worker that claimed it,  *)
(* is evaluated at most once, by that worker, and moves along the allowed  *)
(* transitions until it reaches a terminal state it never leaves.          *)
(***************************************************************************)
CONSTANTS Commands, Workers

\* _ALLOWED_TRANSITIONS
Allowed ==
    [queued                  |-> {"claimed", "cancelled"},
     claimed                 |-> {"submitted", "reconciliation_required", "cancelled", "rejected"},
     submitted               |-> {"accepted", "partially_filled", "filled", "cancelled",
                                  "rejected", "reconciliation_required"},
     accepted                |-> {"partially_filled", "filled", "cancelled", "rejected",
                                  "reconciliation_required"},
     partially_filled        |-> {"partially_filled", "filled", "cancelled",
                                  "reconciliation_required"},
     reconciliation_required |-> {"accepted", "partially_filled", "filled", "cancelled",
                                  "rejected"},
     filled |-> {}, cancelled |-> {}, rejected |-> {}]

States == DOMAIN Allowed

Terminal == {"filled", "cancelled", "rejected"}

VARIABLES
    state,      \* of every command, "absent" until it is enqueued
    owner,      \* the worker that claimed it, or "none"
    evaluated   \* the commands some worker has begun to reconcile

lifecycle == <<state, owner, evaluated>>

Init ==
    /\ state = [c \in Commands |-> "absent"]
    /\ owner = [c \in Commands |-> "none"]
    /\ evaluated = {}

Enqueue(c) ==
    /\ state[c] = "absent"
    /\ state' = [state EXCEPT ![c] = "queued"]
    /\ UNCHANGED <<owner, evaluated>>

Claim(w, c) ==
    /\ state[c] = "queued" /\ owner[c] = "none"
    /\ state' = [state EXCEPT ![c] = "claimed"]
    /\ owner' = [owner EXCEPT ![c] = w]
    /\ UNCHANGED evaluated

Evaluate(w, c) ==
    /\ owner[c] = w /\ c \notin evaluated
    /\ evaluated' = evaluated \cup {c}
    /\ UNCHANGED <<state, owner>>

Advance(c) ==
    /\ state[c] \in States
    /\ \E s \in Allowed[state[c]] \ {"claimed"} : state' = [state EXCEPT ![c] = s]
    /\ UNCHANGED <<owner, evaluated>>

Next ==
    \E c \in Commands :
        \/ Enqueue(c) \/ Advance(c)
        \/ \E w \in Workers : Claim(w, c) \/ Evaluate(w, c)

Spec == Init /\ [][Next]_lifecycle
=============================================================================
