---------------------------- MODULE SubmissionLedger ----------------------------
(***************************************************************************)
(* What the journal of an account promises, without sessions, locks,       *)
(* appends and valuations: a ledger of orders and what the broker was told *)
(* of them.  An order is entered once per intent, while nothing before it  *)
(* is unclear; it is sent once, while it is prepared; what is known of it  *)
(* is only added to; and no new risk passes the circuit breaker.           *)
(***************************************************************************)
EXTENDS Integers

CONSTANTS
    Attempts,          \* the places of the ledger
    Intents, Orders,
    Quantity           \* [Orders -> Nat]

VARIABLES
    ledger,            \* what is known of each attempt
    open,              \* the circuit breaker is open
    sent               \* how often each attempt was handed to the broker

vars == <<ledger, open, sent>>

Blank == [certainty |-> "ABSENT", intent |-> "none", order |-> "none", newRisk |-> FALSE,
          id |-> "none", filled |-> 0]

Init ==
    /\ ledger = [a \in Attempts |-> Blank]
    /\ open = FALSE
    /\ sent = [a \in Attempts |-> 0]

\* Nothing is on its way to the broker or of unknown outcome.
Clear == \A a \in Attempts : ledger[a].certainty \notin {"PREPARED", "UNKNOWN"}

Entered(i, o) ==
    \E a \in Attempts :
        ledger[a].certainty # "ABSENT" /\ ledger[a].intent = i /\ ledger[a].order = o

\* An order of an intent is entered.
Entry(new) ==
    new \in [certainty: {"PREPARED"}, intent: Intents, order: Orders, newRisk: BOOLEAN,
             id: {"none"}, filled: {0}]

\* The broker is known to have given the order an id and to have filled a part of it.
Learns(old, new) ==
    /\ old.certainty \in {"PREPARED", "KNOWN_PENDING"}
    /\ new.certainty \in {"KNOWN_PENDING", "UNKNOWN", "TERMINAL"}
    /\ old.id # "none" => new.id = old.id
    /\ new.filled \in old.filled..Quantity[old.order]
    /\ new = [old EXCEPT !.certainty = new.certainty, !.id = new.id, !.filled = new.filled]

Changes(a) == ledger' = [ledger EXCEPT ![a] = ledger'[a]] /\ UNCHANGED <<open, sent>>

Prepare(a) ==
    /\ ledger[a].certainty = "ABSENT" /\ Entry(ledger'[a])
    /\ Clear /\ ~Entered(ledger'[a].intent, ledger'[a].order)
    /\ ledger'[a].newRisk => ~open
    /\ Changes(a)

Observe(a) == Learns(ledger[a], ledger'[a]) /\ Changes(a)

Send(a) ==
    /\ ledger[a].certainty = "PREPARED" /\ sent[a] = 0
    /\ ledger[a].newRisk => ~open
    /\ sent' = [sent EXCEPT ![a] = 1]
    /\ UNCHANGED <<ledger, open>>

Open == ~open /\ open' = TRUE /\ UNCHANGED <<ledger, sent>>

Next == Open \/ \E a \in Attempts : Prepare(a) \/ Send(a) \/ Observe(a)

Spec == Init /\ [][Next]_vars
=============================================================================
