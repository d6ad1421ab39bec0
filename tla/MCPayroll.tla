----------------------------- MODULE MCPayroll -----------------------------
(* One employee and two concurrent administrators.                         *)
EXTENDS PayrollProperties, TLC

CONSTANTS e1, h1, h2

HandlerSymmetry == Permutations({h1, h2})

MCDates == {<<1, 2>>, <<2, 2>>}
MCAdvancePolicies == {[maxPercent |-> 100, fee |-> 10, cap |-> 30, auto |-> 10]}
MCConversionPolicies == {[rate |-> 50, fee |-> 10, cap |-> 10]}
=============================================================================
