----------------------------- MODULE MCReports ------------------------------
(* An instance of ReportsProperties for TLC: the sample payment, its payout  *)
(* and a corrected one that comes late.                                      *)
EXTENDS ReportsProperties

CONSTANTS p1, q1, q2

MCCorridor == [p \in Payments |-> "PHP"]
MCFrom     == [p \in Payments |-> "USD"]
MCQuoted   == [p \in Payments |-> 10000]
MCSource   == [p \in Payments |-> [asset |-> "USDC", amount |-> 2500]]

Fiat(n, p, kind, amount) ==
  [id |-> n, payment |-> p, kind |-> kind, currency |-> "PHP", amount |-> amount]

MCOnce     == [e \in Events |-> 1]
MCSigned   == [e \in Events |-> {TRUE}]

MCEvents == {Fiat(1, p1, "payment.completed", 10100), Fiat(2, p1, "payment.completed", 9950)}

RequestSymmetry == Permutations({q1, q2})
=============================================================================
