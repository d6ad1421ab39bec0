----------------------------- MODULE PoolClaims -----------------------------
(***************************************************************************)
(* The private payout rail: a batch of pool deposits (lib/pool/batch.ts),  *)
(* the ways a note reaches its receiver (the payer's copy, an in-app       *)
(* notice, an e-mailed link) and the claims that spend it, to a wallet or  *)
(* through custody to a bank (lib/receiver/claim.ts).                      *)
(*                                                                         *)
(* The chain is the environment: it includes a submitted transaction       *)
(* whenever it likes, also after its sender has given up, or never: one    *)
(* that was dropped stays "sent", as the polls see it.  ShieldedPool       *)
(* models the contract; here it pays a note once.  Each database           *)
(* transaction is one step and a call that throws has no effect.           *)
(***************************************************************************)
EXTENDS Integers, Sequences, FiniteSets

CONSTANTS
  NumRows,       \* rows of the batch
  Email,         \* the address in a row, or NoEmail
  Amount,        \* XLM of a row
  Receivers,     \* addresses of people who may open a receiver account
  NoEmail,
  Claims,        \* claim requests that run at once
  MaxTxs         \* bound: withdrawals submitted

Rows == 1 .. NumRows

\* poolBatchSchema: 1 to 50 rows of positive amounts up to 10000 XLM.
ASSUME BatchInput ==
  /\ NumRows \in 1 .. 50
  /\ Email \in [Rows -> Receivers \cup {NoEmail}] /\ NoEmail \notin Receivers
  /\ Amount \in [Rows -> Nat \ {0}] /\ \A r \in Rows : Amount[r] <= 10000
  /\ MaxTxs \in Nat

VARIABLES
  deposits,   \* the deposit transaction of a row, as the chain sees it
  txs,        \* withdrawals submitted, oldest first
  payments,   \* the Payment of a row with its ONCHAIN leg and its receipt
  fiat,       \* rows with a FIAT leg
  bounced,    \* those of them whose FIAT leg is FAILED
  jobs,       \* rows with a reconcile job
  settling,   \* rows the worker has settled and owes a receipt
  payouts,    \* what the off-ramp was told to pay out
  accounts,   \* Receiver rows
  notice,     \* the Notification of a row
  link,       \* the ClaimLink of a row: whether somebody holds one that works
  delivered,  \* rows whose note a receiver holds
  batch,      \* the request that runs the batch
  stored,     \* the roll-up in the PaymentBatch row
  claim,      \* the claim requests
  unsure      \* auxiliary: rows for which a poll gave up

chain   == <<deposits, txs>>
spine   == <<payments, fiat, bounced, jobs, settling, payouts>>
inbox   == <<accounts, notice, link, delivered>>
sending == <<batch, stored>>
vars == <<chain, spine, inbox, sending, claim, unsure>>

Method  == {"wallet", "bank"}
Absent  == [status |-> "absent"]
Idle    == [pc |-> "idle"]
NoTx    == 0

PaymentRow ==
  [status : {"PENDING", "ONCHAIN_CONFIRMED", "SETTLED", "FAILED"}, method : Method,
   onchain : Nat, by : Receivers \cup {NoEmail}, nullifier : BOOLEAN,
   receipt : [rail : Method \cup {"none"}, tx : Nat]]

NoReceipt == [rail |-> "none", tx |-> NoTx]

NewPayment ==
  [status |-> "PENDING", method |-> "wallet", onchain |-> NoTx, by |-> NoEmail,
   nullifier |-> FALSE, receipt |-> NoReceipt]

TransactionRow ==
  [note : Rows, to : Method, by : Receivers, state : {"sent", "success", "failed"}]

Landed(r) == {t \in DOMAIN txs : txs[t].note = r /\ txs[t].state = "success"}
Exists(r) == payments[r] # Absent

Init ==
  /\ deposits = [r \in Rows |-> "none"] /\ txs = << >>
  /\ payments = [r \in Rows |-> Absent]
  /\ fiat = {} /\ bounced = {} /\ jobs = {} /\ settling = {} /\ payouts = << >>
  /\ accounts = {} /\ delivered = {}
  /\ notice = [r \in Rows |-> "none"] /\ link = [r \in Rows |-> "none"]
  /\ batch = [pc |-> "idle", row |-> 1, count |-> 0, total |-> 0, ok |-> {}]
  /\ stored = [count |-> 0, total |-> 0]
  /\ claim = [c \in Claims |-> Idle]
  /\ unsure = {}

-----------------------------------------------------------------------------
(* The chain. *)

LandDeposit(r) ==
  /\ deposits[r] = "sent"
  /\ deposits' = [deposits EXCEPT ![r] = "included"]
  /\ UNCHANGED <<txs, spine, inbox, sending, claim, unsure>>

\* A second withdrawal of a note meets its nullifier and fails.
LandWithdraw(t) ==
  /\ txs[t].state = "sent"
  /\ txs' = [txs EXCEPT ![t].state =
               IF Landed(txs[t].note) = {} THEN "success" ELSE "failed"]
  /\ UNCHANGED <<deposits, spine, inbox, sending, claim, unsure>>

-----------------------------------------------------------------------------
(* createPoolBatch: the rows one after the other. *)

Goto(pc) == batch' = [batch EXCEPT !.pc = pc]

NextRow(b) ==
  IF b.row = NumRows THEN [b EXCEPT !.pc = "rollup"]
                     ELSE [b EXCEPT !.pc = "deposit", !.row = @ + 1]

CreateBatch ==
  /\ batch.pc = "idle"
  /\ Goto("deposit")
  /\ UNCHANGED <<chain, spine, inbox, stored, claim, unsure>>

SubmitDeposit ==
  /\ batch.pc = "deposit"
  /\ deposits' = [deposits EXCEPT ![batch.row] = "sent"]
  /\ Goto("await")
  /\ UNCHANGED <<txs, spine, inbox, stored, claim, unsure>>

\* SUCCESS, or thirty polls without an answer.
AwaitDeposit ==
  /\ batch.pc = "await"
  /\ Goto("persist")
  /\ UNCHANGED <<chain, spine, inbox, stored, claim, unsure>>

\* The catch of a row: the batch goes on without it.
RowFails ==
  /\ batch.pc \in {"deposit", "await", "persist"}
  /\ batch' = NextRow(batch)
  /\ UNCHANGED <<chain, spine, inbox, stored, claim, unsure>>

CreatePayment ==
  /\ batch.pc = "persist"
  /\ payments' = [payments EXCEPT ![batch.row] = NewPayment]
  /\ Goto("notify")
  /\ UNCHANGED <<chain, fiat, bounced, jobs, settling, payouts, inbox, stored, claim,
                 unsure>>

\* notifyOnPlatformReceiver; an upsert that throws counts as not notified.
Notify ==
  LET r == batch.row IN
  /\ batch.pc = "notify"
  /\ \/ /\ Email[r] = NoEmail
        /\ Goto("count") /\ UNCHANGED notice
     \/ /\ Email[r] \in accounts
        /\ notice' = [notice EXCEPT ![r] = "unread"]
        /\ Goto("count")
     \/ /\ Email[r] # NoEmail
        /\ Goto("email") /\ UNCHANGED notice
  /\ UNCHANGED <<chain, spine, accounts, link, delivered, stored, claim, unsure>>

\* (fault) A mail that cannot be sent fails the row.
EmailLinkOrThrow ==
  /\ batch.pc = "email"
  /\ \/ /\ link' = [link EXCEPT ![batch.row] = "sent"]
        /\ Goto("count")
     \/ /\ batch' = NextRow(batch) /\ UNCHANGED link
  /\ UNCHANGED <<chain, spine, accounts, notice, delivered, stored, claim, unsure>>

\* emailClaimLink never throws: a link that is not stored, or not sent, is one that
\* nobody holds.
EmailLink ==
  /\ batch.pc = "email"
  /\ \E outcome \in {"none", "sent"} : link' = [link EXCEPT ![batch.row] = outcome]
  /\ Goto("count")
  /\ UNCHANGED <<chain, spine, accounts, notice, delivered, stored, claim, unsure>>

CountRow ==
  /\ batch.pc = "count"
  /\ batch' = NextRow([batch EXCEPT !.count = @ + 1, !.total = @ + Amount[batch.row],
                                    !.ok = @ \cup {batch.row}])
  /\ UNCHANGED <<chain, spine, inbox, stored, claim, unsure>>

\* The answer echoes the notes, once.
RollUp ==
  /\ batch.pc = "rollup"
  /\ stored' = [count |-> batch.count, total |-> batch.total]
  /\ delivered' = delivered \cup batch.ok
  /\ Goto("done")
  /\ UNCHANGED <<chain, spine, accounts, notice, link, claim, unsure>>

\* The process dies, or the roll-up throws: the notes in memory are gone.
BatchDies ==
  /\ batch.pc \notin {"idle", "done", "dead"}
  /\ Goto("dead")
  /\ UNCHANGED <<chain, spine, inbox, stored, claim, unsure>>

\* The children's statuses, as the batch page counts them.
Rollup == [s \in {"PENDING", "ONCHAIN_CONFIRMED", "SETTLED", "FAILED"} |->
             {r \in Rows : Exists(r) /\ payments[r].status = s}]

-----------------------------------------------------------------------------
(* Receivers. *)

RegisterReceiver(e) ==
  /\ e \notin accounts
  /\ accounts' = accounts \cup {e}
  /\ UNCHANGED <<chain, spine, notice, link, delivered, sending, claim, unsure>>

\* The token and a receiver session are enough; whose session does not matter.
RevealClaimLink(r) ==
  /\ link[r] = "sent" /\ accounts # {}
  /\ delivered' = delivered \cup {r}
  /\ UNCHANGED <<chain, spine, accounts, notice, link, sending, claim, unsure>>

LinkExpires(r) ==
  /\ link[r] = "sent"
  /\ link' = [link EXCEPT ![r] = "none"]
  /\ UNCHANGED <<chain, spine, accounts, notice, delivered, sending, claim, unsure>>

MarkAllRead(e) ==
  /\ e \in accounts
  /\ notice' = [r \in Rows |-> IF Email[r] = e /\ notice[r] = "unread"
                               THEN "read" ELSE notice[r]]
  /\ UNCHANGED <<chain, spine, accounts, link, delivered, sending, claim, unsure>>

-----------------------------------------------------------------------------
(* Claims. *)

At(c, pc) == claim[c].pc = pc
Step(c, pc) == claim' = [claim EXCEPT ![c].pc = pc]

\* The checks both claim functions begin with.
Claimable(r) == Exists(r) /\ payments[r].status # "SETTLED" /\ ~payments[r].nullifier

StartClaim(c, r, method, e) ==
  /\ At(c, "idle") /\ e \in accounts /\ r \in delivered
  /\ Claimable(r)
  /\ claim' = [claim EXCEPT ![c] =
       [pc |-> "withdraw", row |-> r, method |-> method, by |-> e, tx |-> NoTx]]
  /\ UNCHANGED <<chain, spine, inbox, sending, unsure>>

\* (fault) A note is not looked for among the deposits.
SubmitWithdrawUnknown(c) ==
  LET k == claim[c] IN
  /\ At(c, "withdraw") /\ Len(txs) < MaxTxs
  /\ txs' = Append(txs, [note |-> k.row, to |-> k.method, by |-> k.by, state |-> "sent"])
  /\ claim' = [claim EXCEPT ![c] = [k EXCEPT !.pc = "poll", !.tx = Len(txs) + 1]]
  /\ UNCHANGED <<deposits, spine, inbox, sending, unsure>>

\* createPoolWithdraw: the leaf is in the tree and the simulation finds it unspent.
SubmitWithdraw(c) ==
  LET k == claim[c] IN
  /\ At(c, "withdraw") /\ Len(txs) < MaxTxs
  /\ deposits[k.row] = "included" /\ Landed(k.row) = {}
  /\ txs' = Append(txs, [note |-> k.row, to |-> k.method, by |-> k.by, state |-> "sent"])
  /\ claim' = [claim EXCEPT ![c] = [k EXCEPT !.pc = "poll", !.tx = Len(txs) + 1]]
  /\ UNCHANGED <<deposits, spine, inbox, sending, unsure>>

\* (fault) A transaction that failed on chain is not told from a late one.
PollSeesAnything(c) ==
  /\ At(c, "poll") /\ txs[claim[c].tx].state \in {"success", "failed"}
  /\ Step(c, "record")
  /\ UNCHANGED <<chain, spine, inbox, sending, unsure>>

PollSucceeds(c) ==
  /\ At(c, "poll") /\ txs[claim[c].tx].state = "success"
  /\ Step(c, "record")
  /\ UNCHANGED <<chain, spine, inbox, sending, unsure>>

\* Thirty polls without SUCCESS or FAILED end like a success.
PollGivesUp(c) ==
  /\ At(c, "poll") /\ txs[claim[c].tx].state = "sent"
  /\ unsure' = unsure \cup {claim[c].row}
  /\ Step(c, "record")
  /\ UNCHANGED <<chain, spine, inbox, sending>>

\* claimToWallet: the ONCHAIN leg and SETTLED in one transaction.
SettleWallet(c) ==
  LET k == claim[c] IN
  /\ At(c, "record") /\ k.method = "wallet"
  /\ payments' = [payments EXCEPT ![k.row] =
       [@ EXCEPT !.status = "SETTLED", !.onchain = k.tx, !.by = k.by, !.nullifier = TRUE]]
  /\ Step(c, "receipt")
  /\ UNCHANGED <<chain, fiat, bounced, jobs, settling, payouts, inbox, sending, unsure>>

\* (fault) Custody counts as settlement, as it does for a wallet.
SettleBank(c) ==
  LET k == claim[c] IN
  /\ At(c, "record") /\ k.method = "bank"
  /\ payments' = [payments EXCEPT ![k.row] =
       [@ EXCEPT !.status = "SETTLED", !.method = "bank", !.onchain = k.tx,
                 !.by = k.by, !.nullifier = TRUE]]
  /\ Step(c, "payout")
  /\ UNCHANGED <<chain, fiat, bounced, jobs, settling, payouts, inbox, sending, unsure>>

\* claimToBank: the ONCHAIN leg and the fiat corridor in one transaction.
ConfirmBank(c) ==
  LET k == claim[c] IN
  /\ At(c, "record") /\ k.method = "bank"
  /\ payments' = [payments EXCEPT ![k.row] =
       [@ EXCEPT !.status = "ONCHAIN_CONFIRMED", !.method = "bank", !.onchain = k.tx,
                 !.by = k.by, !.nullifier = TRUE]]
  /\ Step(c, "payout")
  /\ UNCHANGED <<chain, fiat, bounced, jobs, settling, payouts, inbox, sending, unsure>>

Fail(r) == payments' = [payments EXCEPT ![r].status = "FAILED"]

\* triggerMockPayout tells the bank.  The fiat webhook upserts the leg, and a refusal
\* fails the payment whatever it was; it may die behind the leg, or do nothing, and
\* nobody looks at what it answers.
TriggerPayout(c) ==
  LET k == claim[c] r == k.row IN
  /\ At(c, "payout")
  /\ payouts' = Append(payouts, [note |-> r, tx |-> k.tx])
  /\ \/ /\ fiat' = fiat \cup {r} /\ bounced' = bounced \ {r} /\ jobs' = jobs \cup {r}
        /\ UNCHANGED payments
     \/ /\ fiat' = fiat \cup {r} /\ bounced' = bounced \cup {r} /\ jobs' = jobs \cup {r}
        /\ Fail(r)
     \/ /\ fiat' = fiat \cup {r} /\ bounced' = bounced \cup {r}
        /\ UNCHANGED <<payments, jobs>>
     \/ UNCHANGED <<payments, fiat, bounced, jobs>>
  /\ Step(c, "reconcile")
  /\ UNCHANGED <<chain, settling, inbox, sending, unsure>>

\* tryReconcile; Reconciliation models it step by step.
Matched(r) ==
  /\ payments[r].status = "ONCHAIN_CONFIRMED" /\ payments[r].method = "bank"
  /\ r \in fiat \ bounced

Refused(r) == r \in bounced /\ payments[r].status \in {"PENDING", "ONCHAIN_CONFIRMED"}

Settle(r) == payments' = [payments EXCEPT ![r].status = "SETTLED"]

\* A payment that failed answers 502: the XLM stays in custody, the notice unread.
ReconcileClaim(c) ==
  LET r == claim[c].row IN
  /\ At(c, "reconcile")
  /\ \/ Matched(r) /\ Settle(r) /\ Step(c, "receipt")
     \/ /\ Refused(r) \/ payments[r].status = "FAILED"
        /\ Fail(r)
        /\ claim' = [claim EXCEPT ![c] = Idle]
     \/ /\ ~Matched(r) /\ ~Refused(r) /\ payments[r].status # "FAILED"
        /\ Step(c, "clear") /\ UNCHANGED payments
  /\ UNCHANGED <<chain, fiat, bounced, jobs, settling, payouts, inbox, sending, unsure>>

\* buildPoolWalletReceipt and buildReceipt print the leg they find.
Receipt(r, rail) ==
  payments' = [payments EXCEPT ![r].receipt = [rail |-> rail, tx |-> payments[r].onchain]]

WriteReceipt(c) ==
  /\ At(c, "receipt")
  /\ Receipt(claim[c].row, claim[c].method)
  /\ Step(c, "clear")
  /\ UNCHANGED <<chain, fiat, bounced, jobs, settling, payouts, inbox, sending, unsure>>

ClearNotices(c) ==
  LET r == claim[c].row IN
  /\ At(c, "clear")
  /\ notice' = [notice EXCEPT ![r] = IF @ = "none" THEN @ ELSE "claimed"]
  /\ claim' = [claim EXCEPT ![c] = Idle]
  /\ UNCHANGED <<chain, spine, accounts, link, delivered, sending, unsure>>

\* An answer that is an error, or a crash: nothing is undone.
ClaimStops(c) ==
  /\ ~At(c, "idle")
  /\ claim' = [claim EXCEPT ![c] = Idle]
  /\ UNCHANGED <<chain, spine, inbox, sending, unsure>>

-----------------------------------------------------------------------------
(* The reconcile job the fiat webhook adds. *)

WorkerReconcile(r) ==
  /\ r \in jobs /\ jobs' = jobs \ {r}
  /\ \/ Matched(r) /\ Settle(r) /\ settling' = settling \cup {r}
     \/ Refused(r) /\ Fail(r) /\ UNCHANGED settling
     \/ ~Matched(r) /\ ~Refused(r) /\ UNCHANGED <<payments, settling>>
  /\ UNCHANGED <<chain, fiat, bounced, payouts, inbox, sending, claim, unsure>>

WorkerReceipt(r) ==
  /\ r \in settling /\ settling' = settling \ {r}
  /\ Receipt(r, "bank")
  /\ UNCHANGED <<chain, fiat, bounced, jobs, payouts, inbox, sending, claim, unsure>>

\* buildReceipt throws, or the worker dies: the retried job finds SETTLED.
WorkerDies(r) ==
  /\ r \in settling /\ settling' = settling \ {r}
  /\ UNCHANGED <<chain, payments, fiat, bounced, jobs, payouts, inbox, sending, claim,
                 unsure>>

-----------------------------------------------------------------------------
BatchStep ==
  \/ CreateBatch \/ SubmitDeposit \/ AwaitDeposit \/ RowFails \/ CreatePayment
  \/ Notify \/ EmailLink \/ CountRow \/ RollUp \/ BatchDies

ClaimStep(c) ==
  \/ \E r \in Rows, method \in Method, e \in Receivers : StartClaim(c, r, method, e)
  \/ SubmitWithdraw(c) \/ PollSucceeds(c) \/ PollGivesUp(c)
  \/ SettleWallet(c) \/ ConfirmBank(c) \/ TriggerPayout(c) \/ ReconcileClaim(c)
  \/ WriteReceipt(c) \/ ClearNotices(c) \/ ClaimStops(c)

Next ==
  \/ BatchStep
  \/ \E c \in Claims : ClaimStep(c)
  \/ \E t \in DOMAIN txs : LandWithdraw(t)
  \/ \E r \in Rows : \/ LandDeposit(r)
                     \/ RevealClaimLink(r) \/ LinkExpires(r)
                     \/ WorkerReconcile(r) \/ WorkerReceipt(r) \/ WorkerDies(r)
  \/ \E e \in Receivers : RegisterReceiver(e) \/ MarkAllRead(e)

Spec == Init /\ [][Next]_vars
=============================================================================
