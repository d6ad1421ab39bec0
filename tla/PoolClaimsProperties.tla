------------------------ MODULE PoolClaimsProperties ------------------------
(* What must hold of the private payout rail of PoolClaims.                *)
EXTENDS PoolClaims, PayrollRegister

ClaimRow ==
  {Idle} \cup [pc : {"withdraw", "poll", "record", "receipt", "payout", "reconcile",
                     "clear"},
               row : Rows, method : Method, by : Receivers, tx : Nat]

\* Rows are well formed, and a handler past its submission names a transaction
\* that exists: the withdrawal of its own note, to where its claimant asked.
TypeOK ==
  /\ deposits \in [Rows -> {"none", "sent", "included"}]
  /\ txs \in Seq(TransactionRow)
  /\ payments \in [Rows -> PaymentRow \cup {Absent}]
  /\ fiat \subseteq Rows /\ bounced \subseteq fiat
  /\ jobs \subseteq Rows /\ settling \subseteq Rows
  /\ payouts \in Seq([note : Rows, tx : Nat])
  /\ accounts \subseteq Receivers /\ delivered \subseteq Rows /\ unsure \subseteq Rows
  /\ notice \in [Rows -> {"none", "unread", "read", "claimed"}]
  /\ link \in [Rows -> {"none", "sent"}]
  /\ claim \in [Claims -> ClaimRow]
  /\ \A c \in Claims : claim[c].pc \notin {"idle", "withdraw"} =>
       /\ claim[c].tx \in DOMAIN txs
       /\ txs[claim[c].tx].note = claim[c].row
       /\ txs[claim[c].tx].to = claim[c].method /\ txs[claim[c].tx].by = claim[c].by

ToWallet(r) == {t \in Landed(r) : txs[t].to = "wallet"}
PaidToBank(r) == {i \in DOMAIN payouts : payouts[i].note = r}

\* claim.ts:64 "Double-claim is rejected here (DB pre-check) AND on-chain (the
\* spent nullifier)": whatever claims of one note race and wherever they die, it
\* pays once, to a wallet or to a bank, and a bank is paid only for XLM that
\* custody received.  A note for which a poll gave up is excepted: such a claim
\* acts as if its withdrawal had landed (withdraw.ts:120-131).
PaidOnce ==
  \A r \in Rows \ unsure :
    /\ \A t, u \in Landed(r) : t = u
    /\ \A i, j \in PaidToBank(r) : i = j
    /\ \A i \in PaidToBank(r) : /\ payouts[i].tx \in Landed(r)
                                /\ txs[payouts[i].tx].to = "bank"

\* claim.ts:96 and :161 write over whatever the row says by then: still, a payment
\* that is marked spent, SETTLED or FAILED names the withdrawal that spent its note
\* and the receiver who asked for it; one settled by a bank was paid out and the bank
\* did not refuse; one that FAILED went into custody and no further, the bank having
\* refused it (claim.ts:121 "the XLM sits in custody"); and a receipt tells the same
\* transaction on the same rail.  A note for which a poll gave up is excepted, as in
\* PaidOnce: its payment is marked spent although nothing may have landed.
SettledIsPaid ==
  \A r \in Rows \ unsure : Exists(r) =>
    LET p == payments[r] IN
    /\ p.nullifier \/ p.status \in {"SETTLED", "FAILED"} =>
         /\ p.onchain \in Landed(r)
         /\ txs[p.onchain].to = p.method /\ txs[p.onchain].by = p.by
    /\ p.status = "SETTLED" /\ p.method = "bank" =>
         PaidToBank(r) # {} /\ r \in fiat \ bounced
    /\ p.status = "FAILED" => p.method = "bank" /\ r \in bounced /\ PaidToBank(r) # {}
    /\ p.receipt # NoReceipt =>
         /\ p.status = "SETTLED"
         /\ p.receipt = [rail |-> p.method, tx |-> p.onchain]

\* The chain as the claims see it: a row whose deposit landed holds its amount until
\* a withdrawal lands.
Included == {r \in Rows : deposits[r] = "included"}
Holds(r) == Amount[r] * ((IF r \in Included THEN 1 ELSE 0) - Cardinality(Landed(r)))
Custody == INSTANCE PoolCustody WITH
  Notes   <- Rows,
  unspent <- {r \in Included : Landed(r) = {}},
  paid    <- {r \in Rows : Landed(r) # {}},
  held    <- SumFunctionOnSet([r \in Rows |-> Holds(r)], Rows)

\* service.ts:82 looks for the leaf before it proves: however batch, claims and late
\* inclusions interleave, the rail asks of its chain what the pool promises
\* (ShieldedPool), no withdrawal of a note that has not been deposited.  (KSpec, where
\* only the steps that change the chain are looked at.)
RailUsesCustody ==
  Custody!KInit /\ [][chain' # chain => Custody!KNext]_(Custody!kvars)

\* The batch in the register: the columns of its row and its payments.
Child(r) ==
  [amount |-> Amount[r], method |-> payments[r].method, status |-> payments[r].status,
   banked |-> r \in fiat, onchain |-> payments[r].onchain,
   receipt |-> payments[r].receipt # NoReceipt]

Children == [r \in {r \in Rows : Exists(r)} |-> Child(r)]
Group    == GroupOf(stored, Children)
Detail   == BatchDetail(stored, Children)

\* The register lists each child once and in one state, its map puts each in one
\* destination, and a child that is shown as paid says where its money went: a
\* claimed wallet row its transaction, a bank row its reference.  One that failed is
\* shown apart, with the withdrawal that brought its XLM into custody.  (After a poll
\* that gave up, a wallet claim may settle a row a bank claim marked: it is shown
\* as paid to a bank and has no reference.)
RegisterAddsUp(group) ==
  LET totals == TotalsOf(group) flow == FlowGroups(group) IN
  /\ group.claimed + group.unclaimed + group.failed = totals.disbursements
  /\ SumFunction([type \in DOMAIN flow |-> flow[type].total]) = totals.total
  /\ \A r \in DOMAIN group.rows :
       Cardinality({type \in DOMAIN flow : r \in DOMAIN flow[type].leaves}) = 1
  /\ group.failed = Cardinality(IF "FAILED" \in DOMAIN flow
                                  THEN DOMAIN flow["FAILED"].leaves ELSE {})
  /\ \A r \in InState(group.rows, "failed") : group.rows[r].withdrawTx # NoTx
  /\ "WALLET" \in DOMAIN flow => \A r \in DOMAIN flow["WALLET"].leaves :
                                    flow["WALLET"].leaves[r] = "tx"
  /\ "BANK" \in DOMAIN flow => \A r \in DOMAIN flow["BANK"].leaves \ unsure :
                                  flow["BANK"].leaves[r] = "bank reference"

\* The two files of the register: what the roll-up of the PDF prints, the columns
\* of the batch, is what the cells of the CSV add up to, and its rails are theirs.
RegisterFilesAgree(group) ==
  LET csv == RegisterDownload(group, "csv") pdf == RegisterDownload(group, "pdf")
      claimed == {r \in DOMAIN csv.cells : csv.cells[r].claimState = "claimed"}
  IN /\ pdf.rollup.count = Cardinality(DOMAIN csv.cells)
     /\ pdf.rollup.total = SumAmounts(csv.cells, DOMAIN csv.cells)
     /\ pdf.rollup.counts.claimed = Cardinality(claimed)
     /\ pdf.rollup.counts.failed =
          Cardinality({r \in DOMAIN csv.cells : csv.cells[r].claimState = "failed"})
     /\ pdf.totals.claimedTotal = SumAmounts(csv.cells, claimed)
     /\ \A r \in claimed : pdf.disbursements[r].rail = csv.cells[r].method

\* The batch page, which counts statuses, and the register, which counts states of
\* claims, tell the same of each payment.
PageAgrees(group, detail) ==
  /\ detail.rollup["SETTLED"] = group.claimed /\ detail.rollup["FAILED"] = group.failed
  /\ detail.rollup["PENDING"] + detail.rollup["ONCHAIN_CONFIRMED"] = group.unclaimed
  /\ \A r \in DOMAIN group.rows :
       /\ detail.children[r].onchainTx = group.rows[r].withdrawTx
       /\ detail.children[r].hasBankRef /\ detail.children[r].payoutMethod = "bank" <=>
            group.rows[r].destination = "bank reference"

\* The register's page counts what its group counts, and its map leads to every
\* payment of a batch by exactly one path once the batch is opened, and to none of
\* them while it is folded up.
RegisterPageAgrees(group) ==
  LET batches  == [b \in {"batch"} |-> group]
      page(x)  == RegisterPage("ADMIN", batches, x)
      opened   == Toggle(Expanded({}), "batch")
      shown    == page(opened)
      leaves   == {e \in shown.edges : e[2][1] = "leaf"}
  IN /\ "error" \in DOMAIN RegisterPage("MEMBER", batches, opened)
     /\ shown.cards = [disbursements |-> TotalsOf(group).disbursements] @@ Counts(group)
     /\ {e[2][3] : e \in leaves} = DOMAIN group.rows
     /\ Cardinality(leaves) = Cardinality(DOMAIN group.rows)
     /\ \A e \in shown.edges : e[1] # <<"root">> =>
          \E f \in shown.edges : f[2] = e[1]
     /\ {e[2][3] : e \in shown.edges \ (leaves \cup {<<<<"root">>, <<"batch", "batch">>>>})}
          = shown.pills["batch"].dots
     /\ page(Toggle(opened, "batch")).edges = {<<<<"root">>, <<"batch", "batch">>>>}
     /\ \A x \in DOMAIN shown.rows :
          shown.rows[x].rail = RegisterDoc(group).disbursements[x[2]].rail

\* A claim may die after any of its steps, so whatever it leaves in the rows is also
\* there in a state in which none runs.
NoClaimRuns == \A c \in Claims : At(c, "idle")

\* batch.ts:238 "Reconcile the batch roll-up to what actually landed": the answer
\* of a batch counts exactly the payments it left behind, in number and in XLM,
\* as the batch page and the disbursement register do, and every one of their
\* notes was handed over.
BatchCountsItsPayments ==
  batch.pc = "done" =>
    LET rows == UNION {Rollup[s] : s \in DOMAIN Rollup} IN
    /\ stored.count = Cardinality(rows)
    /\ stored.total = TotalsOf(Group).total
    /\ rows = DOMAIN Group.rows /\ rows \subseteq delivered

\* payroll.ts:160 and batch-data.ts:80 read the same rows at different times: at
\* any time after the batch has answered, the register adds up, on its page and map
\* and in both its files, with the columns of the batch and with the batch page.
RegisterAgrees ==
  batch.pc = "done" /\ NoClaimRuns =>
    /\ RegisterAddsUp(Group) /\ RegisterFilesAgree(Group) /\ RegisterPageAgrees(Group)
    /\ PageAgrees(Group, Detail)
=============================================================================
