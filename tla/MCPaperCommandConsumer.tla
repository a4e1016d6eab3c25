----------------------- MODULE MCPaperCommandConsumer -----------------------
(* Small instances of PaperCommandConsumer: two accounts. *)
EXTENDS PaperCommandConsumer, TLC

CONSTANTS c1, c2, w1, w2, w3

Release == [id |-> "r2", policy |-> "p1", revision |-> 2]

\* A receipt that was issued for the command it is in.
Receipt(disposition) ==
    [sealed |-> TRUE, disposition |-> disposition,
     reasons |-> IF disposition = "allow_new_risk" THEN {} ELSE {"DRAWDOWN"},
     decision |-> "d1", profile |-> "soxl", session |-> 1, release |-> "r2", policy |-> "p1"]

Command(account, receipt) ==
    [platform |-> "longbridge", account |-> account, profile |-> "soxl", mode |-> "paper",
     date |-> 1, decision |-> "d1", release |-> Release, hasReceipt |-> TRUE, receipt |-> receipt]

\* A command that may only reduce, and one for another account that may add risk;
\* both are due on one date.
TwoAccounts ==
    [c \in Commands |-> IF c = c1 THEN Command("paper-sg", Receipt("reducing_only"))
                                  ELSE Command("paper-hk", Receipt("allow_new_risk"))]

RuntimeOf(account) ==
    [platform |-> "longbridge", account |-> account, profile |-> "soxl",
     attested |-> TRUE, expected |-> Release, loaded |-> Release]

\* The workers of two accounts share the command store.
SharedStore == [w \in Workers |-> RuntimeOf(IF w = w1 THEN "paper-sg" ELSE "paper-hk")]

OneAccount == [w \in Workers |-> RuntimeOf("paper-sg")]

\* The platform reports nothing, or stale data.
FreshOrStale == {{}, {"data_stale"}}

\* Nothing to do, a reduction, and a reduction with an order that adds risk.
NoneSomeMixed == {{}, {"reduces"}, {"reduces", "increases"}}
=============================================================================
