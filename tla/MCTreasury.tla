----------------------------- MODULE MCTreasury -----------------------------
(* One payment, within the buffer for some settings, two requests.          *)
EXTENDS TreasuryProperties, TLC

CONSTANTS p1, r1, r2

Form(buffer, fee) ==
  [enabled |-> TRUE, minIdleBuffer |-> buffer, sweepThreshold |-> 100, feeBps |-> fee]

\* 5000 bps of an odd accrual is a tie; 20000 bps is refused.
MCForms == {Form(0, 5000), Form(7300, 100), Form(0, 20000)}
MCHolds == {-1, 50, 73}
=============================================================================
