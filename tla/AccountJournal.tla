--------------------------- MODULE AccountJournal ---------------------------
(***************************************************************************)
(* The account submission journal (account_submission.v1): the events one  *)
(* brokerage account's journal may hold, what replaying an event checks,   *)
(* and what it changes.                                                    *)
(*                                                                         *)
(* The code keeps a gap-free, hash-chained sequence of immutable events    *)
(* and re-reads all of it before every decision.  The journal is modelled  *)
(* by the state that replay computes; `generation' is the number of        *)
(* events, and an attempt is named by the generation of its PREPARED       *)
(* event, which the code stores with the attempt.                          *)
(*                                                                         *)
(* Data abstraction.  Instants are natural numbers.  A snapshot's          *)
(* source_digest is identified with its valuation_at.  Money is a number,  *)
(* a natural one except for cash; a unit of every order loses at least 1;  *)
(* fees, the 3x exposure cap, the currency, reception watermarks and       *)
(* pending-order evidence are left out.  One instrument is traded, and the *)
(* account stays in one capital band, whose drawdown brake is BrakePercent.*)
(***************************************************************************)
EXTENDS Integers, FiniteSets

CONSTANTS
    Orders,         \* order descriptors, by content digest
    Quantity,       \* [Orders -> 1..MaxQuantity]
    Sells,          \* the orders that sell
    Intents,        \* allocation intents, by digest
    Domains,        \* account domains a journal can be bound to
    BrokerIds,      \* identities a broker can assign to an order
    MaxQuantity,
    BrakePercent,   \* drawdown at which the capital brake trips
    MaxEvents       \* bound: length of the journal

ASSUME JournalAssumption ==
    /\ MaxQuantity \in Nat /\ MaxEvents \in Nat /\ BrakePercent \in Nat
    /\ IsFiniteSet(Orders) /\ Quantity \in [Orders -> 1..MaxQuantity]
    /\ Sells \subseteq Orders
    /\ "none" \notin Domains \cup BrokerIds

AttemptIds == 1..MaxEvents

(***************************************************************************)
(* Records.                                                                *)
(***************************************************************************)
\* The broker's answer as record_observation stores it.  "Submitted" stands for
\* the acknowledgement statuses, "Partial" for the partial ones, "Cancelled" for
\* cancellation and rejection, "Unknown" for any other text.
Statuses == {"Submitted", "Partial", "Filled", "Cancelled", "Unknown"}

ReportSet == [status: Statuses, id: BrokerIds \cup {"none"},
              filled: 0..MaxQuantity + 1, priced: BOOLEAN]

NoReport == [status |-> "Unknown", id |-> "none", filled |-> 0, priced |-> FALSE]

Certainties == {"ABSENT", "PREPARED", "UNKNOWN", "KNOWN_PENDING", "TERMINAL"}

OnlyUnknown == {"UNKNOWN"}      \* mutant: a prepared attempt does not block
OnlyTerminal == {"TERMINAL"}    \* mutant: UNKNOWN can be resolved later

\* An attempt that blocks the account: it may still become a position.
Unresolved == {"PREPARED", "UNKNOWN"}

\* An attempt no observation may change any more.
Settled == {"UNKNOWN", "TERMINAL"}

NoAttempt ==
    [certainty |-> "ABSENT", intent |-> "none", order |-> "none", newRisk |-> FALSE,
     reduction |-> FALSE, source |-> 0, seen |-> NoReport, filled |-> 0, snapshotAt |-> 0]

\* equity_observation is None: no snapshot was recorded yet.
NoEquity ==
    [at |-> 0, equity |-> 0, peak |-> 0, covered |-> [a \in AttemptIds |-> -1],
     positionRisk |-> 0, position |-> 0, ordersEmpty |-> FALSE]

NoRisk == [perUnit |-> 0, remaining |-> 0, reconciled |-> 0, at |-> 0]

EmptyJournal ==
    [generation |-> 0, breakerOpen |-> FALSE, domain |-> "none", equity |-> NoEquity,
     risk |-> [o \in Orders |-> NoRisk], positionRisk |-> 0,
     attempts |-> [a \in AttemptIds |-> NoAttempt]]

(***************************************************************************)
(* Sums.  A sum of numbers is the number of the units they count (a number *)
(* below 1 counts none).                                                   *)
(***************************************************************************)
Units(f, S) == UNION {{x} \X (1..f[x]) : x \in S}

Total(f, S) == Cardinality(Units(f, S))

(***************************************************************************)
(* Derived facts of a journal j.                                           *)
(***************************************************************************)
Present(j) == {a \in AttemptIds : j.attempts[a].certainty # "ABSENT"}

HasUnresolved(j) == \E a \in AttemptIds : j.attempts[a].certainty \in Unresolved

\* The (intent, order) pair was already prepared once.
PairUsed(j, i, o) ==
    \E a \in Present(j) : j.attempts[a].intent = i /\ j.attempts[a].order = o

\* The order's reservation already backs an attempt that is not a reduction.
ReservationUsed(j, o) ==
    \E a \in Present(j) : j.attempts[a].order = o /\ ~j.attempts[a].reduction

Reserved(j, o) == j.risk[o].perUnit > 0

\* Risk in the latest complete snapshot plus what reservations still hold.
AccountedRisk(j) == j.positionRisk + Total([o \in Orders |-> j.risk[o].remaining], Orders)

Bought(j) == {a \in Present(j) : j.attempts[a].order \notin Sells}
Sold(j) == {a \in Present(j) : j.attempts[a].order \in Sells}

\* The position that fills of j's attempts add up to.
Net(j, fills) == Total(fills, Bought(j)) - Total(fills, Sold(j))

Larger(x, y) == IF x > y THEN x ELSE y

\* The peak carried to a new observation, adjusted for money paid in.
NextPeak(j, equity, flow) ==
    IF j.equity.at = 0 THEN equity ELSE Larger(equity, j.equity.peak + flow)

Braked(equity, peak) == 100 * (peak - equity) >= BrakePercent * peak

\* How sure a report makes the account of an order of quantity q.
Certainty(r, q) ==
    LET sound    == r.filled <= q /\ (r.filled > 0 => r.priced)
        named    == r.id # "none"
        terminal == \/ r.status = "Cancelled"
                    \/ r.status = "Filled" /\ named /\ r.filled = q
        pending  == \/ r.status = "Submitted" /\ named
                    \/ r.status = "Partial" /\ named /\ r.filled \in 1..(q - 1)
    IN  IF ~sound THEN "UNKNOWN"
        ELSE IF terminal THEN "TERMINAL"
        ELSE IF pending THEN "KNOWN_PENDING" ELSE "UNKNOWN"

(***************************************************************************)
(* Replay: read_state accepts or refuses each event in turn.  A refused    *)
(* event makes every later read of the journal fail.                       *)
(***************************************************************************)
AcceptsOpen(j, e) == ~j.breakerOpen

AcceptsBound(j, e) == j.domain = "none"

AcceptsEquity(j, e) ==
    /\ j.domain # "none"
    /\ e.snapshot.peak = NextPeak(j, e.snapshot.equity, e.flow)
    /\ e.snapshot.at > j.equity.at
    /\ e.snapshot.position >= 0
    /\ e.cash >= 0

AcceptsRisk(j, e) == j.domain # "none" /\ e.perUnit > 0 /\ ~Reserved(j, e.order)

\* Mutant: the snapshot need not cover the fill.
ReconcilableUncovered(j, a, filled) ==
    LET att == j.attempts[a]
        res == j.risk[att.order]
    IN  /\ att.certainty \in {"TERMINAL", "KNOWN_PENDING"}
        /\ Reserved(j, att.order)
        /\ j.equity.at > res.at
        /\ filled = att.filled
        /\ filled >= res.reconciled

\* The facts that move an attempt's filled part from its reservation into the
\* recorded snapshot.
Reconcilable(j, a, filled) ==
    LET att == j.attempts[a]
        res == j.risk[att.order]
    IN  /\ att.certainty \in {"TERMINAL", "KNOWN_PENDING"}
        /\ Reserved(j, att.order)
        /\ j.equity.covered[a] = filled
        /\ j.equity.at > res.at
        /\ filled = att.filled
        /\ filled >= res.reconciled

AcceptsReconciled(j, e) == e.source = j.equity.at /\ Reconcilable(j, e.attempt, e.filled)

AcceptsPrepared(j, e) ==
    /\ e.newRisk => ~j.breakerOpen
    /\ ~HasUnresolved(j)
    /\ ~PairUsed(j, e.intent, e.order)
    /\ j.domain # "none" /\ ~e.reduction =>
            Reserved(j, e.order) /\ ~ReservationUsed(j, e.order)

AcceptsObserved(j, e) ==
    LET att == j.attempts[e.attempt]
    IN  /\ att.certainty \notin Settled \cup {"ABSENT"}
        /\ e.report.filled \in att.filled..Quantity[att.order]
        /\ att.seen.id # "none" => e.report.id = att.seen.id

ReplayAccepts(j, e) ==
    CASE e.kind = "CIRCUIT_BREAKER_OPEN" -> AcceptsOpen(j, e)
      [] e.kind = "DOMAIN_BOUND"         -> AcceptsBound(j, e)
      [] e.kind = "EQUITY_OBSERVED"      -> AcceptsEquity(j, e)
      [] e.kind = "RISK_RESERVED"        -> AcceptsRisk(j, e)
      [] e.kind = "RISK_RECONCILED"      -> AcceptsReconciled(j, e)
      [] e.kind = "PREPARED"             -> AcceptsPrepared(j, e)
      [] e.kind = "OBSERVED"             -> AcceptsObserved(j, e)

\* The reservation left once `filled' units are in the snapshot: nothing for a
\* terminal attempt, the unfilled share otherwise.
AfterReconcile(j, e) ==
    LET att == j.attempts[e.attempt]
        res == j.risk[att.order]
    IN  [res EXCEPT !.reconciled = e.filled,
                    !.remaining = IF att.certainty = "TERMINAL" THEN 0
                                  ELSE res.perUnit * (Quantity[att.order] - e.filled)]

PreparedAttempt(j, e) ==
    [certainty |-> "PREPARED", intent |-> e.intent, order |-> e.order, newRisk |-> e.newRisk,
     reduction |-> e.reduction, source |-> e.source, seen |-> NoReport, filled |-> 0,
     snapshotAt |-> j.equity.at]

ObservedAttempt(j, e) ==
    LET att == j.attempts[e.attempt]
    IN  [att EXCEPT !.certainty = Certainty(e.report, Quantity[att.order]),
                    !.seen = e.report, !.filled = e.report.filled]

\* The journal state after one more accepted event.
Replay(j, e) ==
    LET k == [j EXCEPT !.generation = @ + 1] IN
    CASE e.kind = "CIRCUIT_BREAKER_OPEN" -> [k EXCEPT !.breakerOpen = TRUE]
      [] e.kind = "DOMAIN_BOUND" -> [k EXCEPT !.domain = e.domain]
      [] e.kind = "EQUITY_OBSERVED" ->
            [k EXCEPT !.equity = e.snapshot, !.positionRisk = e.snapshot.positionRisk]
      [] e.kind = "RISK_RESERVED" ->
            [k EXCEPT !.risk[e.order] =
                [perUnit |-> e.perUnit, remaining |-> e.perUnit * Quantity[e.order],
                 reconciled |-> 0, at |-> e.at]]
      [] e.kind = "RISK_RECONCILED" ->
            [k EXCEPT !.risk[j.attempts[e.attempt].order] = AfterReconcile(j, e),
                      !.positionRisk = j.equity.positionRisk]
      [] e.kind = "PREPARED" -> [k EXCEPT !.attempts[k.generation] = PreparedAttempt(j, e)]
      [] e.kind = "OBSERVED" -> [k EXCEPT !.attempts[e.attempt] = ObservedAttempt(j, e)]
=============================================================================
