-------------------------- MODULE MCReconciliation --------------------------
(* Instances of Reconciliation for TLC.                                    *)
EXTENDS ReconciliationProperties, TLC

CONSTANTS p1, p2, h1, h2

HookSymmetry == Permutations({h1, h2})

MCCorridor == [p \in Payments |-> "PHP"]
MCQuoted   == [p \in Payments |-> 10000]

Fiat(n, p, kind, currency, amount) ==
  [id |-> n, payment |-> p, kind |-> kind, currency |-> currency, amount |-> amount]

\* Exactly on the 1 % tolerance, just outside it, failed, and on chain.
Ok(p)       == Fiat(1, p, "payment.completed", "PHP", 10100)
Off(p)      == Fiat(2, p, "payment.completed", "PHP", 10101)
Failed(p)   == Fiat(3, p, "payment.failed", "PHP", 10000)
OnChain(p)  == Fiat(4, p, "chain", "none", 0)

AllEvents   == {Ok(p1), Off(p1), Failed(p1), OnChain(p1)}
LiveEvents  == {Ok(p1), Failed(p1), OnChain(p1)}

\* A provider may redeliver the completion, and somebody forge the failure.
Once        == [e \in Events |-> 1]
Twice       == [e \in Events |-> 2]
OkTwice     == [e \in Events |-> IF e = Ok(p1) THEN 2 ELSE 1]
Signed      == [e \in Events |-> {TRUE}]
Unsigned    == [e \in Events |-> BOOLEAN]
FailedForged == [e \in Events |-> IF e = Failed(p1) THEN BOOLEAN ELSE {TRUE}]
=============================================================================
