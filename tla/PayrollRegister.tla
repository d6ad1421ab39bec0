-------------------------- MODULE PayrollRegister ---------------------------
(***************************************************************************)
(* The disbursement register of finance (lib/reports/payroll.ts) and the   *)
(* flow map drawn from it (lib/reports/payroll-flow.ts), as functions of   *)
(* batches and their payments, with the files it is downloaded as, its     *)
(* page and the page of a batch.  Dates and wording are left out.          *)
(***************************************************************************)
EXTENDS Integers, FiniteSets, Functions, TLC

ClaimStateOf(status) ==
  CASE status = "SETTLED" -> "claimed"
    [] status = "FAILED"  -> "failed"
    [] OTHER              -> "unclaimed"

\* A bank row names the reference of its FIAT leg, whatever its status; a wallet
\* row only says that it is one.
Destination(p) ==
  IF p.method = "bank" THEN IF p.banked THEN "bank reference" ELSE ""
  ELSE IF p.status = "SETTLED" THEN "on-chain wallet" ELSE ""

RegisterRow(p) ==
  [amount |-> p.amount, method |-> p.method, claimState |-> ClaimStateOf(p.status),
   destination |-> Destination(p), withdrawTx |-> p.onchain, receipt |-> p.receipt]

InState(rows, s) == {r \in DOMAIN rows : rows[r].claimState = s}

\* What is neither claimed nor failed is unclaimed; count and total are the
\* batch's own columns.
GroupOf(batch, children) ==
  LET rows    == [r \in DOMAIN children |-> RegisterRow(children[r])]
      claimed == Cardinality(InState(rows, "claimed"))
      failed  == Cardinality(InState(rows, "failed"))
  IN [count |-> batch.count, total |-> batch.total, rows |-> rows,
      claimed |-> claimed, failed |-> failed,
      unclaimed |-> Cardinality(DOMAIN rows) - claimed - failed]

\* sumByCurrency: the pool pays one asset.
SumAmounts(rows, R) == SumFunction([r \in R |-> rows[r].amount])

\* The totals of a register are taken over all its rows.
TotalsOf(group) ==
  LET rows == group.rows IN
  [disbursements |-> Cardinality(DOMAIN rows),
   total         |-> SumAmounts(rows, DOMAIN rows),
   claimedTotal  |-> SumAmounts(rows, InState(rows, "claimed"))]

-----------------------------------------------------------------------------
(* The files. *)

RegisterColumns == {"amount", "method", "claimState", "destination", "withdrawTx", "receipt"}

Counts(group) ==
  [claimed |-> group.claimed, unclaimed |-> group.unclaimed, failed |-> group.failed]

\* A spreadsheet of the rows, and the totals taken over them.
RegisterCsv(group) ==
  [cells  |-> [r \in DOMAIN group.rows |-> [c \in RegisterColumns |-> group.rows[r][c]]],
   totals |-> TotalsOf(group), counts |-> Counts(group)]

\* The PDF names the rail of a row where one was chosen, and adds the roll-up of
\* the batch: its own columns beside the counts.
RegisterDoc(group) ==
  [disbursements |-> [r \in DOMAIN group.rows |->
     [amount |-> group.rows[r].amount,
      rail   |-> IF group.rows[r].method = "" THEN ""
                 ELSE IF group.rows[r].method = "bank" THEN "bank" ELSE "wallet",
      claim  |-> group.rows[r].claimState, destination |-> group.rows[r].destination]],
   rollup |-> [count |-> group.count, total |-> group.total, counts |-> Counts(group)],
   totals |-> TotalsOf(group)]

\* GET /api/reports/payroll for the batch.
RegisterDownload(group, format) == IF format = "pdf" THEN RegisterDoc(group) ELSE RegisterCsv(group)

-----------------------------------------------------------------------------
(* The page of a batch (lib/pool/batch-data.ts). *)

RollupOf(children) ==
  [s \in {"PENDING", "ONCHAIN_CONFIRMED", "RECONCILING", "SETTLED", "FAILED", "DRAFT"} |->
     Cardinality({c \in DOMAIN children : children[c].status = s})]

BatchChild(p) ==
  [amount |-> p.amount, status |-> p.status, payoutMethod |-> p.method,
   hasReceipt |-> p.receipt, onchainTx |-> p.onchain, hasBankRef |-> p.banked]

BatchDetail(batch, children) ==
  [count |-> batch.count, total |-> batch.total, rollup |-> RollupOf(children),
   children |-> [c \in DOMAIN children |-> BatchChild(children[c])]]

-----------------------------------------------------------------------------
(* The flow map. *)

\* (fault) A row goes where its payment method says, paid or not.
DestTypeOfMethod(row) ==
  IF row.claimState = "failed" THEN "FAILED"
  ELSE IF row.method = "bank" THEN "BANK"
  ELSE IF row.claimState = "claimed" THEN "WALLET" ELSE "PENDING"

DestTypeOf(row) ==
  IF row.claimState = "failed" THEN "FAILED"
  ELSE IF row.claimState = "unclaimed" THEN "PENDING"
  ELSE IF row.method = "bank" THEN "BANK" ELSE "WALLET"

LeafDetail(row, type) ==
  CASE type = "WALLET" -> IF row.withdrawTx # 0 THEN "tx" ELSE "on-chain wallet"
    [] type = "BANK"   -> IF row.destination # "" THEN row.destination ELSE "bank payout"
    [] OTHER           -> type

\* The groups of a batch in the map, empty ones omitted.
FlowGroups(group) ==
  LET rows     == group.rows
      of(type) == {r \in DOMAIN rows : DestTypeOf(rows[r]) = type}
  IN [type \in {DestTypeOf(rows[r]) : r \in DOMAIN rows} |->
        [leaves |-> [r \in of(type) |-> LeafDetail(rows[r], type)],
         total  |-> SumAmounts(rows, of(type))]]

-----------------------------------------------------------------------------
(* The register's page and the map drawn on it.  The page may show all batches *)
(* or one; "batches" are their groups by their ids.                            *)

\* A batch asked for by its id is drawn open, all others folded up.
Expanded(scoped) == scoped

Toggle(expanded, b) == IF b \in expanded THEN expanded \ {b} ELSE expanded \cup {b}

\* The connectors: from the treasury to every batch, and of an open batch to its
\* groups and their leaves.  The nodes are what is rendered.
FlowEdges(batches, expanded) ==
  LET flow(b)   == FlowGroups(batches[b])
      open      == DOMAIN batches \cap expanded
      groups(b) == {<<<<"batch", b>>, <<"group", b, type>>>> : type \in DOMAIN flow(b)}
      leaves(b) == UNION {{<<<<"group", b, type>>, <<"leaf", b, r>>>> :
                             r \in DOMAIN flow(b)[type].leaves} : type \in DOMAIN flow(b)}
  IN {<<<<"root">>, <<"batch", b>>>> : b \in DOMAIN batches}
     \cup (UNION {groups(b) : b \in open}) \cup (UNION {leaves(b) : b \in open})

\* A folded batch shows a dot for each of its groups, and its counts.
BatchPill(group) == [dots |-> DOMAIN FlowGroups(group), count |-> group.count,
                     total |-> SumAmounts(group.rows, DOMAIN group.rows), counts |-> Counts(group)]

\* One row of the page's table.
PageRow(row) ==
  [amount |-> row.amount, claim |-> row.claimState,
   rail |-> IF row.method = "" THEN "" ELSE IF row.method = "bank" THEN "bank" ELSE "wallet",
   destination |-> row.destination, receipt |-> row.receipt]

RegisterPage(role, batches, expanded) ==
  IF role # "ADMIN" THEN [error |-> 404]
  ELSE LET all == {<<b, r>> : b \in DOMAIN batches, r \in UNION {DOMAIN batches[c].rows : c \in DOMAIN batches}}
           rows == {x \in all : x[2] \in DOMAIN batches[x[1]].rows}
           state(x) == batches[x[1]].rows[x[2]].claimState
       IN [cards |-> [disbursements |-> Cardinality(rows)]
                     @@ [s \in {"claimed", "unclaimed", "failed"} |->
                           Cardinality({x \in rows : state(x) = s})],
           rows  |-> [x \in rows |-> PageRow(batches[x[1]].rows[x[2]])],
           pills |-> [b \in DOMAIN batches |-> BatchPill(batches[b])],
           edges |-> FlowEdges(batches, expanded)]
=============================================================================
