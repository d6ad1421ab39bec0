------------------------- MODULE SettlementContract -------------------------
(***************************************************************************)
(* What the reconciliation spine really promises about a payment, without  *)
(* rows, queues and handlers: evidence accumulates and is never lost; a    *)
(* payment is settled only while it is open and both kinds of evidence are *)
(* there; a settlement is taken back as a failure only on a failure        *)
(* notice; a failed payment has to be reopened before it can be settled;   *)
(* a receipt needs the evidence of a settlement.                           *)
(***************************************************************************)
CONSTANT Payments

VARIABLES
  outcome,     \* "open", "settled" or "failed"
  onchain,     \* payments whose on-chain event has been seen
  paid,        \* payments with a verified, matching fiat completion
  bounced,     \* payments with a verified fiat failure
  receipts     \* payments that have a receipt

cvars == <<outcome, onchain, paid, bounced, receipts>>

CInit ==
  /\ outcome = [p \in Payments |-> "open"]
  /\ onchain \in SUBSET Payments
  /\ paid = {} /\ bounced = {} /\ receipts = {}

Witness(p) ==
  /\ \/ onchain' = onchain \cup {p} /\ UNCHANGED <<paid, bounced>>
     \/ paid' = paid \cup {p} /\ UNCHANGED <<onchain, bounced>>
     \/ bounced' = bounced \cup {p} /\ UNCHANGED <<onchain, paid>>
  /\ UNCHANGED <<outcome, receipts>>

Settle(p) ==
  /\ outcome[p] = "open" /\ p \in onchain \cap paid
  /\ outcome' = [outcome EXCEPT ![p] = "settled"]
  /\ UNCHANGED <<onchain, paid, bounced, receipts>>

\* An open payment fails for any reason, a settled one only when it bounced.
Fail(p) ==
  /\ outcome[p] = "open" \/ p \in bounced
  /\ outcome' = [outcome EXCEPT ![p] = "failed"]
  /\ UNCHANGED <<onchain, paid, bounced, receipts>>

\* Reopening may withdraw the receipt (demo reset) or leave it (late watcher).
Reopen(p) ==
  /\ outcome' = [outcome EXCEPT ![p] = "open"]
  /\ receipts' \in {receipts, receipts \ {p}}
  /\ UNCHANGED <<onchain, paid, bounced>>

Issue(p) ==
  /\ p \in onchain \cap paid
  /\ receipts' = receipts \cup {p}
  /\ UNCHANGED <<outcome, onchain, paid, bounced>>

CNext == \E p \in Payments : \/ Witness(p) \/ Settle(p) \/ Fail(p)
                             \/ Reopen(p) \/ Issue(p)

CSpec == CInit /\ [][CNext]_cvars
=============================================================================
