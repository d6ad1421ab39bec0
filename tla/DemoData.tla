------------------------------ MODULE DemoData ------------------------------
(***************************************************************************)
(* The demo dataset (prisma/seed.ts) and the demo batches                  *)
(* (scripts/seed-demo-batches.ts): payments of both rails in every status, *)
(* with the legs and receipts the scripts give them.  They are what the    *)
(* reports of a freshly seeded tenant are made of.                         *)
(***************************************************************************)
EXTENDS Documents

PhpPerUsd == 5670   \* quoteTargetAmount: centavos per unit
PhpPerXlm == 624
FlowRate  == 640    \* seed-demo-batches quotes for itself

Onchain(tx, status)  == [txHash |-> tx, status |-> status]
FiatLeg(ref, amount) == [bankRef |-> ref, amount |-> amount]

\* mkPayment: a payment of `amount` without legs and receipt, `ago` days old.
Plain(status, ago, asset, amount, target, quote) ==
  [status |-> status, day |-> -ago, method |-> "FIAT", asset |-> asset,
   source |-> amount, target |-> target, quote |-> quote, position |-> "none",
   onchain |-> None, fiat |-> None, receipt |-> None]

UsdPhp(status, ago, amount) == Plain(status, ago, "USDC", amount, "PHP", amount * PhpPerUsd)

Pool(status, ago, amount, method) ==
  LET bank == method = "POOL_BANK" IN
  [Plain(status, ago, "XLM", amount, IF bank THEN "PHP" ELSE "XLM",
        IF bank THEN amount * PhpPerXlm ELSE amount)
     EXCEPT !.method = method]

Sent(id, p, status) == [p EXCEPT !.onchain = Onchain(<<"tx", id>>, status)]

Banked(id, p) ==
  [Sent(id, p, "CONFIRMED") EXCEPT !.fiat = FiatLeg(<<"ref", id>>, p.quote)]

\* fiatReceiptJson: source and destination as paid, the leg's bank reference.
WithFiatReceipt(id, p) ==
  [Banked(id, p) EXCEPT
     !.receipt = Receipt(<<"rcpt", id>>, p.asset, p.source, p.target, p.quote,
                         <<"tx", id>>, <<"ref", id>>)]

\* poolReceiptJson: XLM on both sides and no bank reference.
WithPoolReceipt(id, p) ==
  [Sent(id, p, "CONFIRMED") EXCEPT
     !.receipt = Receipt(<<"rcpt", id>>, "XLM", p.source, "XLM", p.source, <<"tx", id>>, None)]

\* The standalone payments, in every status and on both rails.
Standalone ==
  [fiat_settled_1     |-> WithFiatReceipt("f1", UsdPhp("SETTLED", 40, 1500)),
   fiat_settled_2     |-> WithFiatReceipt("f2", UsdPhp("SETTLED", 25, 3200)),
   pool_settled_1     |-> WithPoolReceipt("p1", Pool("SETTLED", 18, 120, "POOL_WALLET")),
   poolbank_settled_1 |-> WithFiatReceipt("b1", Pool("SETTLED", 12, 200, "POOL_BANK")),
   pending_1          |-> Sent("n1", UsdPhp("PENDING", 3, 800), "PENDING"),
   onchain_drift_1    |-> Sent("d1", UsdPhp("ONCHAIN_CONFIRMED", 5, 950), "CONFIRMED"),
   reconciling_1      |-> Banked("r1", UsdPhp("RECONCILING", 2, 1750)),
   failed_custody_1   |-> Sent("c1", Pool("FAILED", 4, 90, "POOL_BANK"), "CONFIRMED"),
   draft_1            |-> UsdPhp("DRAFT", 1, 500)]

\* The batch of three claimed and two unclaimed notes.
SeedBatch ==
  [batch_claim_wallet_1 |-> WithPoolReceipt("w1", Pool("SETTLED", 20, 15, "POOL_WALLET")),
   batch_claim_wallet_2 |-> WithPoolReceipt("w2", Pool("SETTLED", 20, 22, "POOL_WALLET")),
   batch_claim_bank_1   |-> WithFiatReceipt("b2", Pool("SETTLED", 20, 30, "POOL_BANK")),
   batch_unclaimed_1    |-> Pool("PENDING", 20, 18, "POOL_WALLET"),
   batch_unclaimed_2    |-> Pool("PENDING", 20, 12, "POOL_WALLET")]

\* A child of a demo batch, by where its money went; a settled one has a
\* receipt that holds nothing but its id.
FlowChild(id, amount, ago, dest) ==
  LET method == IF dest \in {"BANK", "PENDING_BANK"} THEN "POOL_BANK" ELSE "POOL_WALLET"
      status == CASE dest \in {"WALLET", "BANK"} -> "SETTLED"
                  [] dest = "FAILED" -> "FAILED"
                  [] OTHER -> "PENDING"
      p    == [Pool(status, ago, amount, method) EXCEPT
                 !.quote = IF method = "POOL_BANK" THEN amount * FlowRate ELSE @]
      paid == CASE dest = "BANK" -> Banked(id, p)
                [] dest \in {"WALLET", "FAILED"} -> Sent(id, p, "CONFIRMED")
                [] OTHER -> p
  IN [paid EXCEPT !.receipt = IF status = "SETTLED" THEN BareReceipt(<<"rcpt", id>>) ELSE None]

\* One disbursement of each kind, from the five batches.
FlowBatches ==
  [week_wallet     |-> FlowChild("q1", 420, 9, "WALLET"),
   vendors_bank    |-> FlowChild("q2", 900, 7, "BANK"),
   vendors_failed  |-> FlowChild("q3", 480, 7, "FAILED"),
   bonuses_pending |-> FlowChild("q4", 260, 5, "PENDING_WALLET"),
   week_pending    |-> FlowChild("q5", 285, 1, "PENDING_BANK")]

DemoLedger ==
  [p \in DOMAIN Standalone \cup DOMAIN SeedBatch \cup DOMAIN FlowBatches |->
     CASE p \in DOMAIN Standalone -> Standalone[p]
       [] p \in DOMAIN SeedBatch -> SeedBatch[p]
       [] p \in DOMAIN FlowBatches -> FlowBatches[p]]
=============================================================================
