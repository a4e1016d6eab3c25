------------------------ MODULE MCAccountSubmission ------------------------
(* Small instances of AccountSubmission: sessions, orders and broker reports. *)
EXTENDS AccountSubmission, TLC

CONSTANTS s1, s2, s3, p1, p2, buy, buy2, sell, i1, i2, dom, x1, x2

Report(status, id, filled, priced) ==
    [status |-> status, id |-> id, filled |-> filled, priced |-> priced]

\* Sessions with an intent each are interchangeable together with it.
SameRole == {(s1 :> s2) @@ (s2 :> s1) @@ (i1 :> i2) @@ (i2 :> i1)}

\* Two units of everything: an order can be half filled.
TwoBuys == (buy :> 2) @@ (buy2 :> 2)
OneBuy == (buy :> 2)
TwoUnits == (buy :> 2) @@ (sell :> 2)

\* Acknowledged and filled; a submit that raises leaves the outcome unknown.
FewReports == {Report("Submitted", x1, 0, FALSE), Report("Filled", x1, 2, TRUE)}

\* Half filled and filled, cancelled before the broker named it, and an answer
\* about another order.
OddReports ==
    {Report("Partial", x1, 1, TRUE), Report("Filled", x1, 2, TRUE),
     Report("Cancelled", "none", 0, FALSE), Report("Filled", x2, 2, TRUE)}

\* Cash of an account without debt, and of one that owes its broker.
Owing == {0, -1}

TwoOfThree == (s1 :> p1) @@ (s2 :> p1) @@ (s3 :> p2)
OneProcess == [s \in {s1, s2} |-> p1]
OneEach    == (s1 :> p1) @@ (s2 :> p2)
SameIntent3 == [s \in {s1, s2, s3} |-> i1]
SameIntent2 == [s \in {s1, s2} |-> i1]
OwnIntents == (s1 :> i1) @@ (s2 :> i2)
NoDomain3 == [s \in {s1, s2, s3} |-> "none"]
WithDomain2 == [s \in {s1, s2} |-> dom]
Decide3 == [s \in {s1, s2, s3} |-> 0]
Decide2One == [s \in {s1, s2} |-> 1]
Decide2Late == [s \in {s1, s2} |-> 2]
=============================================================================
