-------------------------- MODULE PoolClaimsProofs --------------------------
(***************************************************************************)
(* For any batch, any receivers and any number of claims at once: a note   *)
(* pays once, and a payment that says it was claimed names the withdrawal  *)
(* that spent its note (PaidOnce and SettledIsPaid of PoolClaims).         *)
(*                                                                         *)
(* The argument follows a withdrawal.  The claim that submitted it owns    *)
(* it, no two claims own one; unless its poll gave up, a claim that goes   *)
(* on owns the one withdrawal of its note that landed; so nobody else can  *)
(* have recorded the note, nor told a bank to pay for it, before it does.  *)
(***************************************************************************)
EXTENDS PoolClaimsProperties, NumberLemmas, SequenceTheorems, TLAPS

BatchType ==
  [pc : {"idle", "deposit", "await", "persist", "notify", "email", "count", "rollup",
         "done", "dead"},
   row : Rows, count : Nat, total : Nat, ok : SUBSET Rows]

\* The rows a batch has not come to have no payment.
BatchInv ==
  /\ batch \in BatchType
  /\ batch.pc \in {"idle", "deposit", "await", "persist"} =>
       \A r \in Rows : r >= batch.row => payments[r] = Absent
  /\ batch.pc \in {"notify", "email", "count"} =>
       \A r \in Rows : r > batch.row => payments[r] = Absent

Owns(c)    == claim[c].pc \notin {"idle", "withdraw"}
Landing    == {"poll", "record", "payout"}
Past       == {"record", "receipt", "payout", "reconcile", "clear"}

TxInv ==
  /\ \A r \in Rows : \A t, u \in Landed(r) : t = u
  /\ \A c, d \in Claims : Owns(c) /\ Owns(d) /\ claim[c].tx = claim[d].tx => c = d
  /\ \A c \in Claims :
       /\ claim[c].pc \in {"payout", "reconcile"} => claim[c].method = "bank"
       /\ claim[c].pc \in Past /\ claim[c].row \notin unsure => claim[c].tx \in Landed(claim[c].row)
       /\ claim[c].pc \in Landing => \A i \in DOMAIN payouts : payouts[i].tx # claim[c].tx
  /\ \A i \in DOMAIN payouts :
       /\ payouts[i].tx \in DOMAIN txs
       /\ \A j \in DOMAIN payouts : payouts[i].tx = payouts[j].tx => i = j
       /\ payouts[i].note \notin unsure =>
            payouts[i].tx \in Landed(payouts[i].note) /\ txs[payouts[i].tx].to = "bank"

\* A payment that nobody has recorded a withdrawal for is untouched; one that is
\* marked names the withdrawal that landed, which no claim is still to record; the
\* bank was told before it has a FIAT leg, and its leg says how it ended.
PaymentInv(r) ==
  LET p == payments[r] IN
  /\ IF p.nullifier
     THEN /\ p.onchain \in Landed(r)
          /\ txs[p.onchain].to = p.method /\ txs[p.onchain].by = p.by
     ELSE p.status = "PENDING" /\ p.method = "wallet" /\ p.receipt = NoReceipt
  /\ r \in fiat => p.nullifier /\ p.method = "bank"
  /\ p.status = "SETTLED" /\ p.method = "bank" => r \in fiat \ bounced
  /\ p.status = "FAILED" => r \in bounced
  /\ p.receipt # NoReceipt =>
       p.status = "SETTLED" /\ p.receipt = [rail |-> p.method, tx |-> p.onchain]

RowInv ==
  /\ \A r \in Rows : Exists(r) => payments[r].onchain \in DOMAIN txs \cup {NoTx}
  /\ \A c \in Claims :
       claim[c].pc \in {"poll", "record"} => payments[claim[c].row].onchain # claim[c].tx
  /\ \A r \in fiat : PaidToBank(r) # {} /\ Exists(r)
  /\ \A r \in Rows \ unsure : Exists(r) => PaymentInv(r)
  /\ \A c \in Claims : claim[c].pc = "payout" /\ claim[c].row \notin unsure =>
       payments[claim[c].row].status = "ONCHAIN_CONFIRMED"
  /\ \A c \in Claims : claim[c].pc = "receipt" /\ claim[c].row \notin unsure =>
       /\ payments[claim[c].row].status = "SETTLED"
       /\ payments[claim[c].row].method = claim[c].method
  /\ \A r \in settling \ unsure :
       payments[r].status = "SETTLED" /\ payments[r].method = "bank"

Active == \A c \in Claims : claim[c].pc # "idle" => Exists(claim[c].row)
Settling == \A r \in settling : Exists(r)
TypeInv == TypeOK /\ BatchInv /\ Active /\ Settling

-----------------------------------------------------------------------------
(* How a step changes a claim, and the transactions. *)

ClaimPc == {"withdraw"} \cup {"poll"} \cup Past
ActiveClaim == [pc : ClaimPc, row : Rows, method : Method, by : Receivers, tx : Nat]

LEMMA ClaimRows == ClaimRow = {Idle} \cup ActiveClaim
  BY DEF ClaimRow, ActiveClaim, ClaimPc, Past

LEMMA ActiveIs ==
  ASSUME TypeOK, NEW c \in Claims, claim[c].pc # "idle" PROVE claim[c] \in ActiveClaim
BY ClaimRows DEF TypeOK, Idle

OtherClaims(c) == \A d \in Claims \ {c} : claim'[d] = claim[d]

LEMMA StepShape ==
  ASSUME TypeOK, NEW c \in Claims, claim[c].pc # "idle", NEW pc \in ClaimPc, Step(c, pc)
  PROVE  /\ claim' \in [Claims -> ClaimRow] /\ OtherClaims(c)
         /\ claim'[c].pc = pc /\ claim'[c].row = claim[c].row
         /\ claim'[c].method = claim[c].method /\ claim'[c].by = claim[c].by
         /\ claim'[c].tx = claim[c].tx
<1>1. claim[c] \in ActiveClaim BY ActiveIs
<1>2. claim \in [Claims -> ClaimRow] BY DEF TypeOK
<1>3. claim' = [claim EXCEPT ![c] = [claim[c] EXCEPT !.pc = pc]] BY <1>2 DEF Step
<1>4. [claim[c] EXCEPT !.pc = pc] \in ActiveClaim BY <1>1 DEF ActiveClaim
<1>5. claim'[c] = [claim[c] EXCEPT !.pc = pc] BY <1>2, <1>3
<1>6. OtherClaims(c) BY <1>2, <1>3 DEF OtherClaims
<1>7. claim' \in [Claims -> ClaimRow] BY <1>2, <1>3, <1>4, ClaimRows
<1>8. /\ claim'[c].pc = pc /\ claim'[c].row = claim[c].row
      /\ claim'[c].method = claim[c].method /\ claim'[c].by = claim[c].by
      /\ claim'[c].tx = claim[c].tx
  BY <1>1, <1>5 DEF ActiveClaim
<1> QED BY <1>6, <1>7, <1>8

LEMMA StopShape ==
  ASSUME TypeOK, NEW c \in Claims, claim' = [claim EXCEPT ![c] = Idle]
  PROVE  /\ claim' \in [Claims -> ClaimRow] /\ OtherClaims(c)
         /\ claim'[c] = Idle /\ claim'[c].pc = "idle"
<1>1. claim \in [Claims -> ClaimRow] BY DEF TypeOK
<1> QED BY <1>1 DEF OtherClaims, Idle, ClaimRow

Fits(k) == k.pc \notin {"idle", "withdraw"} =>
  /\ k.tx \in DOMAIN txs
  /\ txs[k.tx].note = k.row /\ txs[k.tx].to = k.method /\ txs[k.tx].by = k.by

LEMMA TypeParts ==
  TypeOK <=>
    /\ deposits \in [Rows -> {"none", "sent", "included"}]
    /\ txs \in Seq(TransactionRow)
    /\ payments \in [Rows -> PaymentRow \cup {Absent}]
    /\ fiat \subseteq Rows /\ bounced \subseteq fiat /\ jobs \subseteq Rows
    /\ settling \subseteq Rows
    /\ payouts \in Seq([note : Rows, tx : Nat])
    /\ accounts \subseteq Receivers /\ delivered \subseteq Rows /\ unsure \subseteq Rows
    /\ notice \in [Rows -> {"none", "unread", "read", "claimed"}]
    /\ link \in [Rows -> {"none", "sent"}]
    /\ claim \in [Claims -> ClaimRow]
    /\ \A c \in Claims : Fits(claim[c])
BY DEF TypeOK, Fits

\* What is submitted keeps its note, destination and receiver.
LEMMA ChangeState ==
  ASSUME TypeOK, NEW t \in DOMAIN txs, NEW s \in {"sent", "success", "failed"},
         txs' = [txs EXCEPT ![t].state = s]
  PROVE  /\ txs' \in Seq(TransactionRow) /\ DOMAIN txs' = DOMAIN txs
         /\ \A u \in DOMAIN txs : /\ txs'[u].note = txs[u].note /\ txs'[u].to = txs[u].to
                                  /\ txs'[u].by = txs[u].by
         /\ \A u \in DOMAIN txs \ {t} : txs'[u] = txs[u]
         /\ txs'[t].state = s
<1>1. txs \in Seq(TransactionRow) BY DEF TypeOK
<1>2. txs[t] \in TransactionRow BY <1>1
<1> DEFINE x == [txs[t] EXCEPT !.state = s]
<1>3. /\ x \in TransactionRow /\ x.state = s /\ x.note = txs[t].note
      /\ x.to = txs[t].to /\ x.by = txs[t].by
  BY <1>2 DEF TransactionRow
<1>4. txs' = [txs EXCEPT ![t] = x] BY <1>1
<1> HIDE DEF x
<1>5. t \in 1 .. Len(txs) /\ DOMAIN txs = 1 .. Len(txs) BY <1>1
<1>6. txs' \in Seq(TransactionRow) /\ DOMAIN txs' = DOMAIN txs /\ txs'[t] = x
      /\ \A u \in DOMAIN txs \ {t} : txs'[u] = txs[u]
  BY <1>1, <1>3, <1>4, <1>5, ExceptSeq
<1> QED BY <1>3, <1>6

LEMMA AppendTx ==
  ASSUME TypeOK, NEW x \in TransactionRow, txs' = Append(txs, x)
  PROVE  /\ txs' \in Seq(TransactionRow) /\ DOMAIN txs' = DOMAIN txs \cup {Len(txs) + 1}
         /\ Len(txs) + 1 \notin DOMAIN txs /\ Len(txs) + 1 \in Nat
         /\ \A u \in DOMAIN txs : txs'[u] = txs[u]
         /\ txs'[Len(txs) + 1] = x
<1>1. txs \in Seq(TransactionRow) BY DEF TypeOK
<1> QED BY <1>1

-----------------------------------------------------------------------------
(* Types. *)

LEMMA RowsAreFinite == IsFiniteSet(Rows)
<1>1. 1 \in Int /\ NumRows \in Int BY BatchInput
<1> QED BY <1>1, FS_Interval DEF Rows

LEMMA RowsAreNumbers ==
  /\ 1 \in Rows /\ NumRows \in Rows /\ Rows \subseteq Nat
  /\ \A r \in Rows : Amount[r] \in Nat
<1>1. 1 \in Rows /\ NumRows \in Rows /\ Rows \subseteq Nat BY BatchInput DEF Rows
<1>2. Amount \in [Rows -> Nat \ {0}] BY BatchInput
<1>3. \A r \in Rows : Amount[r] \in Nat BY <1>2
<1> QED BY <1>1, <1>3

\* No step but CreatePayment makes a payment, and none removes one.
SamePayments == \A r \in Rows : payments'[r] = Absent <=> payments[r] = Absent

LEMMA PaymentExists ==
  ASSUME TypeOK, NEW r \in Rows, Exists(r) PROVE payments[r] \in PaymentRow
BY DEF TypeOK, Exists

LEMMA PresentRow == \A p \in PaymentRow : p # Absent
<1> SUFFICES ASSUME NEW p \in PaymentRow PROVE p # Absent OBVIOUS
<1>1. p.status \in {"PENDING", "ONCHAIN_CONFIRMED", "SETTLED", "FAILED"} BY DEF PaymentRow
<1> QED BY <1>1 DEF Absent

LEMMA UpdatePayment ==
  ASSUME TypeOK, NEW r \in Rows, Exists(r), NEW x \in PaymentRow,
         payments' = [payments EXCEPT ![r] = x]
  PROVE  /\ payments' \in [Rows -> PaymentRow \cup {Absent}] /\ SamePayments
         /\ payments'[r] = x /\ \A q \in Rows \ {r} : payments'[q] = payments[q]
<1>1. payments \in [Rows -> PaymentRow \cup {Absent}] BY DEF TypeOK
<1>2. x # Absent BY PresentRow
<1>3. payments[r] # Absent BY DEF Exists
<1>4. payments'[r] = x /\ \A q \in Rows \ {r} : payments'[q] = payments[q] BY <1>1
<1>5. payments' \in [Rows -> PaymentRow \cup {Absent}] BY <1>1
<1> QED BY <1>2, <1>3, <1>4, <1>5 DEF SamePayments

LEMMA KeptBatchInv ==
  ASSUME TypeInv, SamePayments, UNCHANGED batch PROVE BatchInv'
BY DEF TypeInv, BatchInv, SamePayments, BatchType

\* A step that leaves the rail alone.
LEMMA TypeQuiet ==
  ASSUME TypeInv, UNCHANGED <<txs, spine, claim>>, unsure' = unsure,
         deposits' \in [Rows -> {"none", "sent", "included"}],
         accounts' \subseteq Receivers, delivered' \subseteq Rows,
         notice' \in [Rows -> {"none", "unread", "read", "claimed"}],
         link' \in [Rows -> {"none", "sent"}],
         BatchInv'
  PROVE  TypeInv'
<1>1. TypeOK' BY DEF TypeInv, TypeOK, spine
<1>2. Active' /\ Settling' BY DEF TypeInv, Active, Settling, Exists, spine
<1> QED BY <1>1, <1>2 DEF TypeInv

LEMMA NextRowType ==
  ASSUME TypeInv, NEW b \in BatchType, b.row = batch.row,
         \A r \in Rows : r > batch.row => payments[r] = Absent,
         UNCHANGED payments, batch' = NextRow(b)
  PROVE  BatchInv'
<1>1. CASE b.row = NumRows
  <2>1. batch' = [b EXCEPT !.pc = "rollup"] BY <1>1 DEF NextRow
  <2>2. batch'.pc = "rollup" /\ batch' \in BatchType BY <2>1 DEF BatchType
  <2> QED BY <2>2 DEF BatchInv, BatchType
<1>2. CASE b.row # NumRows
  <2>0. NumRows \in 1 .. 50 BY BatchInput
  <2>1. b.row \in Rows /\ b.row + 1 \in Rows BY <1>2, <2>0 DEF BatchType, Rows
  <2>2. batch' = [b EXCEPT !.pc = "deposit", !.row = @ + 1] BY <1>2 DEF NextRow
  <2>3. batch'.pc = "deposit" /\ batch'.row = b.row + 1 /\ batch' \in BatchType
    BY <2>1, <2>2 DEF BatchType
  <2>4. \A r \in Rows : r >= batch'.row => payments'[r] = Absent
    <3> TAKE r \in Rows
    <3> HAVE r >= batch'.row
    <3>1. r \in Nat /\ b.row \in Nat /\ r >= b.row + 1 BY <2>1, <2>3, RowsAreNumbers
    <3>2. r > b.row BY <3>1
    <3> QED BY <3>2
  <2> QED BY <2>3, <2>4 DEF BatchInv, BatchType
<1> QED BY <1>1, <1>2

LEMMA GotoType ==
  ASSUME TypeInv, UNCHANGED payments, NEW pc, Goto(pc),
         pc \in {"deposit", "await", "persist", "notify", "email", "count", "done", "dead"},
         pc \in {"deposit", "await", "persist"} =>
           batch.pc \in {"idle", "deposit", "await", "persist"},
         pc \in {"notify", "email", "count"} => batch.pc \in {"notify", "email"}
  PROVE  BatchInv'
<1>1. batch \in BatchType BY DEF TypeInv, BatchInv
<1>2. batch' = [batch EXCEPT !.pc = pc] BY DEF Goto
<1>3. batch' \in BatchType /\ batch'.pc = pc /\ batch'.row = batch.row BY <1>1, <1>2 DEF BatchType
<1>4. \A r \in Rows : payments'[r] = payments[r] OBVIOUS
<1>5. CASE pc \in {"deposit", "await", "persist"} BY <1>3, <1>4, <1>5 DEF TypeInv, BatchInv
<1>6. CASE pc \in {"notify", "email", "count"} BY <1>3, <1>4, <1>6 DEF TypeInv, BatchInv
<1>7. CASE pc \in {"done", "dead"} BY <1>3, <1>7 DEF BatchInv
<1> QED BY <1>5, <1>6, <1>7

LEMMA TypeBatch ==
  ASSUME TypeInv, BatchStep PROVE TypeInv'
<1>1. /\ TypeOK /\ batch \in BatchType /\ batch.row \in Rows /\ BatchInv
      /\ deposits \in [Rows -> {"none", "sent", "included"}]
      /\ accounts \subseteq Receivers /\ delivered \subseteq Rows
      /\ notice \in [Rows -> {"none", "unread", "read", "claimed"}]
      /\ link \in [Rows -> {"none", "sent"}]
  BY DEF TypeInv, TypeOK, BatchInv, BatchType
<1>2. CASE CreateBatch
  <2>1. BatchInv' BY <1>2, GotoType DEF CreateBatch, spine
  <2> QED BY <1>1, <1>2, <2>1, TypeQuiet DEF CreateBatch, chain, inbox
<1>3. CASE SubmitDeposit
  <2>1. BatchInv' BY <1>3, GotoType DEF SubmitDeposit, spine
  <2>2. deposits' \in [Rows -> {"none", "sent", "included"}]
    BY <1>1, <1>3 DEF SubmitDeposit
  <2> QED BY <1>1, <1>3, <2>1, <2>2, TypeQuiet DEF SubmitDeposit, inbox
<1>4. CASE AwaitDeposit
  <2>1. BatchInv' BY <1>4, GotoType DEF AwaitDeposit, spine
  <2> QED BY <1>1, <1>4, <2>1, TypeQuiet DEF AwaitDeposit, chain, inbox
<1>5. CASE RowFails
  <2>1. \A r \in Rows : r > batch.row => payments[r] = Absent
    <3>1. batch.pc \in {"deposit", "await", "persist"} BY <1>5 DEF RowFails
    <3>2. \A r \in Rows : r > batch.row => r >= batch.row
      <4>1. \A x, y \in Nat : x > y => x >= y OBVIOUS
      <4>2. batch.row \in Nat /\ \A r \in Rows : r \in Nat BY <1>1, RowsAreNumbers
      <4> QED BY <4>1, <4>2
    <3> QED BY <1>1, <3>1, <3>2 DEF BatchInv
  <2>2. BatchInv' BY <1>1, <1>5, <2>1, NextRowType DEF RowFails, spine
  <2> QED BY <1>1, <1>5, <2>2, TypeQuiet DEF RowFails, chain, inbox
<1>6. CASE CreatePayment
  <2>1. NewPayment \in PaymentRow
    BY DEF NewPayment, PaymentRow, Method, NoReceipt, NoTx
  <2>2. payments' = [payments EXCEPT ![batch.row] = NewPayment] BY <1>6 DEF CreatePayment
  <2>3. /\ payments' \in [Rows -> PaymentRow \cup {Absent}]
        /\ payments'[batch.row] = NewPayment
        /\ \A r \in Rows \ {batch.row} : payments'[r] = payments[r]
    BY <1>1, <2>1, <2>2 DEF TypeOK
  <2>4. NewPayment # Absent BY <2>1, PresentRow
  <2>5. BatchInv'
    <3>1. batch.pc = "persist" /\ batch' = [batch EXCEPT !.pc = "notify"]
      BY <1>6 DEF CreatePayment, Goto
    <3>2. batch' \in BatchType /\ batch'.pc = "notify" /\ batch'.row = batch.row
      BY <1>1, <3>1 DEF BatchType
    <3>3. \A r \in Rows : r > batch.row => r # batch.row /\ payments[r] = Absent
      BY <1>1, <3>1, RowsAreNumbers DEF BatchInv
    <3> QED BY <2>3, <3>2, <3>3 DEF BatchInv
  <2>6. TypeOK' BY <1>1, <1>6, <2>3 DEF CreatePayment, TypeOK, chain, inbox
  <2>7. Active' /\ Settling'
    BY <1>1, <1>6, <2>3, <2>4 DEF CreatePayment, TypeInv, Active, Settling, Exists, TypeOK
  <2> QED BY <2>5, <2>6, <2>7 DEF TypeInv
<1>7. CASE Notify
  <2>1. BatchInv' BY <1>7, GotoType DEF Notify, spine
  <2>2. notice' \in [Rows -> {"none", "unread", "read", "claimed"}]
    BY <1>1, <1>7 DEF Notify
  <2> QED BY <1>1, <1>7, <2>1, <2>2, TypeQuiet DEF Notify, chain
<1>8. CASE EmailLink
  <2>1. BatchInv' BY <1>8, GotoType DEF EmailLink, spine
  <2>2. link' \in [Rows -> {"none", "sent"}]
    BY <1>1, <1>8 DEF EmailLink
  <2> QED BY <1>1, <1>8, <2>1, <2>2, TypeQuiet DEF EmailLink, chain
<1>9. CASE CountRow
  <2> DEFINE b == [batch EXCEPT !.count = @ + 1, !.total = @ + Amount[batch.row],
                                !.ok = @ \cup {batch.row}]
  <2>1. Amount[batch.row] \in Nat BY <1>1, RowsAreNumbers
  <2>2. b \in BatchType /\ b.row = batch.row
    <3> DEFINE amount == Amount[batch.row]
    <3>1. /\ batch.count + 1 \in Nat /\ batch.total + amount \in Nat
          /\ batch.ok \cup {batch.row} \in SUBSET Rows
      BY <1>1, <2>1 DEF BatchType
    <3>2. b = [batch EXCEPT !.count = batch.count + 1, !.total = batch.total + amount,
                            !.ok = batch.ok \cup {batch.row}]
      OBVIOUS
    <3> HIDE DEF b, amount
    <3> QED BY <1>1, <3>1, <3>2 DEF BatchType
  <2>3. \A r \in Rows : r > batch.row => payments[r] = Absent
    BY <1>1, <1>9 DEF CountRow, BatchInv
  <2>4. batch' = NextRow(b) /\ UNCHANGED payments BY <1>9 DEF CountRow, spine
  <2> HIDE DEF b
  <2>5. BatchInv' BY <2>2, <2>3, <2>4, NextRowType
  <2> QED BY <1>1, <1>9, <2>5, TypeQuiet DEF CountRow, chain, inbox
<1>10. CASE RollUp
  <2>1. BatchInv' BY <1>10, GotoType DEF RollUp, spine
  <2>2. delivered' \subseteq Rows BY <1>1, <1>10 DEF RollUp, BatchType
  <2> QED BY <1>1, <1>10, <2>1, <2>2, TypeQuiet DEF RollUp, chain
<1>11. CASE BatchDies
  <2>1. BatchInv' BY <1>11, GotoType DEF BatchDies, spine
  <2> QED BY <1>1, <1>11, <2>1, TypeQuiet DEF BatchDies, chain, inbox
<1> QED BY <1>2, <1>3, <1>4, <1>5, <1>6, <1>7, <1>8, <1>9, <1>10, <1>11 DEF BatchStep

LEMMA TypeEnvironment ==
  ASSUME TypeInv,
         \/ \E r \in Rows : LandDeposit(r) \/ RevealClaimLink(r) \/ LinkExpires(r)
         \/ \E e \in Receivers : RegisterReceiver(e) \/ MarkAllRead(e)
  PROVE  TypeInv'
<1>1. /\ deposits \in [Rows -> {"none", "sent", "included"}]
      /\ accounts \subseteq Receivers /\ delivered \subseteq Rows
      /\ notice \in [Rows -> {"none", "unread", "read", "claimed"}]
      /\ link \in [Rows -> {"none", "sent"}]
  BY DEF TypeInv, TypeOK
<1>2. ASSUME UNCHANGED <<spine, batch>> PROVE BatchInv'
  BY <1>2, KeptBatchInv DEF spine, SamePayments
<1>3. ASSUME NEW r \in Rows, LandDeposit(r) PROVE TypeInv'
  <2>1. deposits' \in [Rows -> {"none", "sent", "included"}]
    BY <1>1, <1>3 DEF LandDeposit
  <2>2. UNCHANGED <<txs, spine, inbox, sending, claim, unsure>>
    BY <1>3 DEF LandDeposit
  <2> QED BY <1>1, <1>2, <2>1, <2>2, TypeQuiet DEF inbox, sending
<1>4. ASSUME NEW r \in Rows, RevealClaimLink(r) \/ LinkExpires(r) PROVE TypeInv'
  <2>1. /\ delivered' \subseteq Rows /\ link' \in [Rows -> {"none", "sent"}]
    BY <1>1, <1>4 DEF RevealClaimLink, LinkExpires
  <2>2. UNCHANGED <<chain, spine, accounts, notice, sending, claim, unsure>>
    BY <1>4 DEF RevealClaimLink, LinkExpires
  <2> QED BY <1>1, <1>2, <2>1, <2>2, TypeQuiet DEF chain, sending
<1>5. ASSUME NEW e \in Receivers, RegisterReceiver(e) \/ MarkAllRead(e) PROVE TypeInv'
  <2>1. /\ accounts' \subseteq Receivers
        /\ notice' \in [Rows -> {"none", "unread", "read", "claimed"}]
    BY <1>1, <1>5 DEF RegisterReceiver, MarkAllRead
  <2>2. UNCHANGED <<chain, spine, link, delivered, sending, claim, unsure>>
    BY <1>5 DEF RegisterReceiver, MarkAllRead
  <2> QED BY <1>1, <1>2, <2>1, <2>2, TypeQuiet DEF chain, sending
<1> QED BY <1>3, <1>4, <1>5

\* A step of a claim that keeps its note, and touches neither the transactions nor
\* which payments there are.
LEMMA TypeClaim ==
  ASSUME TypeInv, NEW c \in Claims, UNCHANGED <<txs, deposits, accounts, link, delivered, batch>>,
         SamePayments, payments' \in [Rows -> PaymentRow \cup {Absent}],
         fiat' \subseteq Rows, bounced' \subseteq fiat', jobs' \subseteq Rows,
         settling' = settling,
         payouts' \in Seq([note : Rows, tx : Nat]), unsure' \subseteq Rows,
         notice' \in [Rows -> {"none", "unread", "read", "claimed"}],
         claim' \in [Claims -> ClaimRow], OtherClaims(c),
         \/ claim'[c].pc = "idle"
         \/ /\ claim[c].pc \notin {"idle", "withdraw"} /\ claim'[c].row = claim[c].row
            /\ claim'[c].method = claim[c].method /\ claim'[c].by = claim[c].by
            /\ claim'[c].tx = claim[c].tx
  PROVE  TypeInv'
<1>1. BatchInv' BY KeptBatchInv
<1>2. \A d \in Claims : Fits(claim[d]) BY TypeParts DEF TypeInv
<1>3. \A d \in Claims : Fits(claim[d])'
  <2> TAKE d \in Claims
  <2>1. Fits(claim[d]) BY <1>2
  <2>2. CASE d = c BY <2>1, <2>2 DEF Fits
  <2>3. CASE d # c
    <3>1. claim'[d] = claim[d] BY <2>3 DEF OtherClaims
    <3> QED BY <2>1, <3>1 DEF Fits
  <2> QED BY <2>2, <2>3
<1>4. TypeOK'
  <2>1. \A d \in Claims : claim'[d].pc \notin {"idle", "withdraw"} =>
          /\ claim'[d].tx \in DOMAIN txs'
          /\ txs'[claim'[d].tx].note = claim'[d].row
          /\ txs'[claim'[d].tx].to = claim'[d].method /\ txs'[claim'[d].tx].by = claim'[d].by
    BY <1>3 DEF Fits
  <2> QED BY <2>1 DEF TypeInv, TypeOK
<1>5. \A r \in Rows : Exists(r) <=> payments'[r] # Absent BY DEF SamePayments, Exists
<1>6. Settling' BY <1>5 DEF TypeInv, TypeOK, Settling, Exists
<1>7. Active'
  <2> SUFFICES ASSUME NEW d \in Claims, claim'[d].pc # "idle"
               PROVE  payments'[claim'[d].row] # Absent
    BY DEF Active, Exists
  <2>1. claim[d].pc # "idle" /\ claim'[d].row = claim[d].row BY DEF OtherClaims
  <2>2. claim[d].row \in Rows BY <2>1, ActiveIs DEF TypeInv, ActiveClaim
  <2> QED BY <1>5, <2>1, <2>2 DEF TypeInv, Active
<1> QED BY <1>1, <1>4, <1>6, <1>7 DEF TypeInv

LEMMA Same == UNCHANGED payments => SamePayments
BY DEF SamePayments

LEMMA TypeFacts ==
  TypeInv => /\ TypeOK /\ BatchInv /\ Active /\ Settling
             /\ payments \in [Rows -> PaymentRow \cup {Absent}]
             /\ fiat \subseteq Rows /\ bounced \subseteq fiat
             /\ jobs \subseteq Rows /\ settling \subseteq Rows
             /\ payouts \in Seq([note : Rows, tx : Nat]) /\ unsure \subseteq Rows
             /\ notice \in [Rows -> {"none", "unread", "read", "claimed"}]
             /\ claim \in [Claims -> ClaimRow]
BY DEF TypeInv, TypeOK

LEMMA WorkingClaim ==
  ASSUME TypeInv, NEW c \in Claims, claim[c].pc # "idle"
  PROVE  /\ claim[c] \in ActiveClaim /\ claim[c].row \in Rows /\ claim[c].tx \in Nat
         /\ claim[c].by \in Receivers /\ claim[c].method \in Method
         /\ payments[claim[c].row] \in PaymentRow /\ Exists(claim[c].row)
         /\ Fits(claim[c])
<1>1. claim[c] \in ActiveClaim BY ActiveIs, TypeFacts
<1>2. claim[c].row \in Rows BY <1>1 DEF ActiveClaim
<1>3. Exists(claim[c].row) BY TypeFacts DEF Active
<1>4. payments[claim[c].row] \in PaymentRow BY <1>2, <1>3, PaymentExists, TypeFacts
<1>5. Fits(claim[c]) BY TypeParts, TypeFacts
<1> QED BY <1>1, <1>2, <1>3, <1>4, <1>5 DEF ActiveClaim

LEMMA TypePoll ==
  ASSUME TypeInv, NEW c \in Claims, PollSucceeds(c) \/ PollGivesUp(c)
  PROVE  TypeInv'
<1>1. /\ Step(c, "record") /\ claim[c].pc = "poll"
      /\ UNCHANGED <<chain, spine, inbox, sending>> /\ unsure' \subseteq unsure \cup {claim[c].row}
  BY DEF PollSucceeds, PollGivesUp, At
<1>2. claim[c].row \in Rows BY <1>1, WorkingClaim
<1>3. "record" \in ClaimPc BY DEF ClaimPc, Past
<1>4. /\ claim' \in [Claims -> ClaimRow] /\ OtherClaims(c) /\ claim'[c].row = claim[c].row
      /\ claim'[c].method = claim[c].method /\ claim'[c].by = claim[c].by
      /\ claim'[c].tx = claim[c].tx
  BY <1>1, <1>3, StepShape, TypeFacts
<1> QED BY <1>1, <1>2, <1>4, TypeClaim, TypeFacts, Same DEF chain, spine, inbox, sending

\* The two ways as one: what the payment and the claim are afterwards.
LEMMA RecordShape ==
  ASSUME TypeInv, NEW c \in Claims, SettleWallet(c) \/ ConfirmBank(c)
  PROVE  LET r == claim[c].row k == claim[c] IN
         /\ k.pc = "record" /\ r \in Rows
         /\ UNCHANGED <<chain, fiat, bounced, jobs, settling, payouts, inbox, sending, unsure>>
         /\ payments' \in [Rows -> PaymentRow \cup {Absent}] /\ SamePayments
         /\ \A q \in Rows \ {r} : payments'[q] = payments[q]
         /\ payments'[r].onchain = k.tx /\ payments'[r].by = k.by /\ payments'[r].nullifier = TRUE
         /\ payments'[r].receipt = payments[r].receipt
         /\ \/ /\ k.method = "wallet" /\ claim'[c].pc = "receipt"
               /\ payments'[r].status = "SETTLED" /\ payments'[r].method = payments[r].method
            \/ /\ k.method = "bank" /\ claim'[c].pc = "payout"
               /\ payments'[r].status = "ONCHAIN_CONFIRMED" /\ payments'[r].method = "bank"
         /\ claim' \in [Claims -> ClaimRow] /\ OtherClaims(c)
         /\ claim'[c].row = r /\ claim'[c].method = k.method /\ claim'[c].by = k.by
         /\ claim'[c].tx = k.tx
<1> DEFINE k == claim[c]
           r == claim[c].row
<1>1. /\ k.pc = "record" /\ k.pc # "idle"
      /\ UNCHANGED <<chain, fiat, bounced, jobs, settling, payouts, inbox, sending, unsure>>
  BY DEF SettleWallet, ConfirmBank, At
<1>2. r \in Rows /\ Exists(r) /\ payments[r] \in PaymentRow BY <1>1, WorkingClaim
<1>3. {"receipt", "payout"} \subseteq ClaimPc BY DEF ClaimPc, Past
<1>4. payments \in [Rows -> PaymentRow \cup {Absent}] BY TypeFacts
<1>5. CASE SettleWallet(c)
  <2> DEFINE x == [payments[r] EXCEPT !.status = "SETTLED", !.method = payments[r].method,
                                      !.onchain = k.tx, !.by = k.by, !.nullifier = TRUE]
  <2>1. payments[r].method \in Method BY <1>2 DEF PaymentRow, Method
  <2>2. payments' = [payments EXCEPT ![r] = x]
    <3>1. [payments[r] EXCEPT !.status = "SETTLED", !.onchain = k.tx, !.by = k.by,
                              !.nullifier = TRUE] = x
      BY <1>2 DEF PaymentRow
    <3>2. payments' = [payments EXCEPT ![r] =
             [payments[r] EXCEPT !.status = "SETTLED", !.onchain = k.tx, !.by = k.by,
                                 !.nullifier = TRUE]]
      BY <1>2, <1>4, <1>5 DEF SettleWallet
    <3> QED BY <3>1, <3>2
  <2>3. /\ x \in PaymentRow /\ x.status = "SETTLED" /\ x.method = payments[r].method
        /\ x.onchain = k.tx /\ x.by = k.by /\ x.nullifier = TRUE /\ x.receipt = payments[r].receipt
    <3>1. k.tx \in Nat /\ k.by \in Receivers BY <1>1, WorkingClaim
    <3> QED BY <1>2, <2>1, <3>1 DEF PaymentRow
  <2> HIDE DEF x
  <2>4. /\ payments' \in [Rows -> PaymentRow \cup {Absent}] /\ SamePayments
        /\ payments'[r] = x /\ \A q \in Rows \ {r} : payments'[q] = payments[q]
    BY <1>2, <2>2, <2>3, UpdatePayment, TypeFacts
  <2>5. k.method = "wallet" /\ Step(c, "receipt") BY <1>5 DEF SettleWallet
  <2>6. /\ claim' \in [Claims -> ClaimRow] /\ OtherClaims(c) /\ claim'[c].pc = "receipt"
        /\ claim'[c].row = r /\ claim'[c].method = k.method /\ claim'[c].by = k.by
        /\ claim'[c].tx = k.tx
    BY <1>1, <1>3, <2>5, StepShape, TypeFacts
  <2> QED BY <1>1, <1>2, <2>3, <2>4, <2>5, <2>6
<1>6. CASE ConfirmBank(c)
  <2> DEFINE x == [payments[r] EXCEPT !.status = "ONCHAIN_CONFIRMED", !.method = "bank",
                                      !.onchain = k.tx, !.by = k.by, !.nullifier = TRUE]
  <2>1. "bank" \in Method BY <1>2 DEF PaymentRow, Method
  <2>2. payments' = [payments EXCEPT ![r] = x] BY <1>2, <1>4, <1>6 DEF ConfirmBank
  <2>3. /\ x \in PaymentRow /\ x.status = "ONCHAIN_CONFIRMED" /\ x.method = "bank"
        /\ x.onchain = k.tx /\ x.by = k.by /\ x.nullifier = TRUE /\ x.receipt = payments[r].receipt
    <3>1. k.tx \in Nat /\ k.by \in Receivers BY <1>1, WorkingClaim
    <3> QED BY <1>2, <2>1, <3>1 DEF PaymentRow
  <2> HIDE DEF x
  <2>4. /\ payments' \in [Rows -> PaymentRow \cup {Absent}] /\ SamePayments
        /\ payments'[r] = x /\ \A q \in Rows \ {r} : payments'[q] = payments[q]
    BY <1>2, <2>2, <2>3, UpdatePayment, TypeFacts
  <2>5. k.method = "bank" /\ Step(c, "payout") BY <1>6 DEF ConfirmBank
  <2>6. /\ claim' \in [Claims -> ClaimRow] /\ OtherClaims(c) /\ claim'[c].pc = "payout"
        /\ claim'[c].row = r /\ claim'[c].method = k.method /\ claim'[c].by = k.by
        /\ claim'[c].tx = k.tx
    BY <1>1, <1>3, <2>5, StepShape, TypeFacts
  <2> QED BY <1>1, <1>2, <2>3, <2>4, <2>5, <2>6
<1> QED BY <1>5, <1>6

\* Only these fields of a payment change.
SameMarks(r) ==
  /\ payments'[r].onchain = payments[r].onchain /\ payments'[r].by = payments[r].by
  /\ payments'[r].method = payments[r].method /\ payments'[r].nullifier = payments[r].nullifier

LEMMA StatusShape ==
  ASSUME TypeInv, NEW r \in Rows, Exists(r), NEW status \in {"SETTLED", "FAILED"},
         payments' = [payments EXCEPT ![r].status = status]
  PROVE  /\ payments' \in [Rows -> PaymentRow \cup {Absent}] /\ SamePayments
         /\ \A q \in Rows \ {r} : payments'[q] = payments[q]
         /\ payments'[r].status = status /\ payments'[r].receipt = payments[r].receipt
         /\ SameMarks(r)
<1> DEFINE x == [payments[r] EXCEPT !.status = status]
<1>1. payments[r] \in PaymentRow BY PaymentExists, TypeFacts
<1>2. payments' = [payments EXCEPT ![r] = x] BY TypeFacts
<1>3. /\ x \in PaymentRow /\ x.status = status /\ x.receipt = payments[r].receipt
      /\ x.onchain = payments[r].onchain /\ x.by = payments[r].by
      /\ x.method = payments[r].method /\ x.nullifier = payments[r].nullifier
  BY <1>1 DEF PaymentRow
<1> HIDE DEF x
<1>4. /\ payments' \in [Rows -> PaymentRow \cup {Absent}] /\ SamePayments
      /\ payments'[r] = x /\ \A q \in Rows \ {r} : payments'[q] = payments[q]
  BY <1>2, <1>3, UpdatePayment, TypeFacts
<1> QED BY <1>3, <1>4 DEF SameMarks

LEMMA SettleShape ==
  ASSUME TypeInv, NEW r \in Rows, Exists(r), Settle(r)
  PROVE  /\ payments' \in [Rows -> PaymentRow \cup {Absent}] /\ SamePayments
         /\ \A q \in Rows \ {r} : payments'[q] = payments[q]
         /\ payments'[r].status = "SETTLED" /\ payments'[r].receipt = payments[r].receipt
         /\ SameMarks(r)
BY StatusShape DEF Settle

LEMMA FailShape ==
  ASSUME TypeInv, NEW r \in Rows, Exists(r), Fail(r)
  PROVE  /\ payments' \in [Rows -> PaymentRow \cup {Absent}] /\ SamePayments
         /\ \A q \in Rows \ {r} : payments'[q] = payments[q]
         /\ payments'[r].status = "FAILED" /\ payments'[r].receipt = payments[r].receipt
         /\ SameMarks(r)
BY StatusShape DEF Fail

LEMMA ReceiptShape ==
  ASSUME TypeInv, NEW r \in Rows, Exists(r), NEW rail \in Method, Receipt(r, rail)
  PROVE  /\ payments' \in [Rows -> PaymentRow \cup {Absent}] /\ SamePayments
         /\ \A q \in Rows \ {r} : payments'[q] = payments[q]
         /\ payments'[r].status = payments[r].status
         /\ payments'[r].receipt = [rail |-> rail, tx |-> payments[r].onchain]
         /\ SameMarks(r)
<1> DEFINE y == [rail |-> rail, tx |-> payments[r].onchain]
           x == [payments[r] EXCEPT !.receipt = y]
<1>1. payments[r] \in PaymentRow BY PaymentExists, TypeFacts
<1>2. payments' = [payments EXCEPT ![r] = x] BY TypeFacts DEF Receipt
<1>3. y \in [rail : Method \cup {"none"}, tx : Nat] BY <1>1 DEF PaymentRow
<1>4. /\ x \in PaymentRow /\ x.status = payments[r].status /\ x.receipt = y
      /\ x.onchain = payments[r].onchain /\ x.by = payments[r].by
      /\ x.method = payments[r].method /\ x.nullifier = payments[r].nullifier
  <2> HIDE DEF y
  <2> QED BY <1>1, <1>3 DEF PaymentRow
<1> HIDE DEF x
<1>5. /\ payments' \in [Rows -> PaymentRow \cup {Absent}] /\ SamePayments
      /\ payments'[r] = x /\ \A q \in Rows \ {r} : payments'[q] = payments[q]
  BY <1>2, <1>4, UpdatePayment, TypeFacts
<1> QED BY <1>4, <1>5 DEF SameMarks

\* A claim that may reconcile or be given a receipt has its payment.
LEMMA MatchedExists ==
  ASSUME TypeInv, NEW r \in Rows, Matched(r) PROVE Exists(r)
BY DEF Matched, Exists, Absent

LEMMA RefusedExists ==
  ASSUME TypeInv, NEW r \in Rows, Refused(r) PROVE Exists(r)
BY DEF Refused, Exists, Absent

LEMMA TypeRecord ==
  ASSUME TypeInv, NEW c \in Claims, SettleWallet(c) \/ ConfirmBank(c) PROVE TypeInv'
<1>1. /\ claim[c].pc = "record"
      /\ UNCHANGED <<chain, fiat, bounced, jobs, settling, payouts, inbox, sending, unsure>>
      /\ payments' \in [Rows -> PaymentRow \cup {Absent}] /\ SamePayments
      /\ claim' \in [Claims -> ClaimRow] /\ OtherClaims(c)
      /\ claim'[c].row = claim[c].row /\ claim'[c].method = claim[c].method
      /\ claim'[c].by = claim[c].by /\ claim'[c].tx = claim[c].tx
  BY RecordShape
<1> QED BY <1>1, TypeClaim, TypeFacts DEF chain, inbox, sending

LEMMA TypeFinish ==
  ASSUME TypeInv, NEW c \in Claims,
         TriggerPayout(c) \/ ReconcileClaim(c) \/ WriteReceipt(c) \/ ClearNotices(c) \/ ClaimStops(c)
  PROVE  TypeInv'
<1>1. {"reconcile", "receipt", "clear"} \subseteq ClaimPc BY DEF ClaimPc, Past
<1>2. CASE TriggerPayout(c)
  <2>1. claim[c].pc = "payout" /\ Step(c, "reconcile") BY <1>2 DEF TriggerPayout, At
  <2>2. claim[c].row \in Rows /\ claim[c].tx \in Nat BY <2>1, WorkingClaim
  <2>3. /\ payouts' = Append(payouts, [note |-> claim[c].row, tx |-> claim[c].tx])
        /\ fiat' \subseteq Rows /\ bounced' \subseteq fiat' /\ jobs' \subseteq Rows
        /\ UNCHANGED <<chain, settling, inbox, sending, unsure>>
        /\ UNCHANGED payments \/ Fail(claim[c].row)
    BY <1>2, <2>2, TypeFacts DEF TriggerPayout
  <2>4. payouts' \in Seq([note : Rows, tx : Nat]) BY <2>2, <2>3, TypeFacts
  <2>5. /\ claim' \in [Claims -> ClaimRow] /\ OtherClaims(c) /\ claim'[c].row = claim[c].row
        /\ claim'[c].method = claim[c].method /\ claim'[c].by = claim[c].by
        /\ claim'[c].tx = claim[c].tx
    BY <1>1, <2>1, StepShape, TypeFacts
  <2>6. Exists(claim[c].row) BY <2>1, WorkingClaim
  <2>7. payments' \in [Rows -> PaymentRow \cup {Absent}] /\ SamePayments
    BY <2>2, <2>3, <2>6, FailShape, Same, TypeFacts
  <2> QED BY <2>1, <2>3, <2>4, <2>5, <2>7, TypeClaim, TypeFacts DEF chain, inbox, sending
<1>3. CASE ReconcileClaim(c)
  <2>1. /\ claim[c].pc = "reconcile"
        /\ UNCHANGED <<chain, fiat, bounced, jobs, settling, payouts, inbox, sending, unsure>>
    BY <1>3 DEF ReconcileClaim, At
  <2>2. claim[c].row \in Rows /\ Exists(claim[c].row) BY <2>1, WorkingClaim
  <2>3. \/ Step(c, "receipt") \/ Step(c, "clear")
        \/ claim' = [claim EXCEPT ![c] = Idle]
    BY <1>3 DEF ReconcileClaim
  <2>4. /\ claim' \in [Claims -> ClaimRow] /\ OtherClaims(c)
        /\ \/ claim'[c].pc = "idle"
           \/ /\ claim'[c].row = claim[c].row
              /\ claim'[c].method = claim[c].method /\ claim'[c].by = claim[c].by
              /\ claim'[c].tx = claim[c].tx
    BY <1>1, <2>1, <2>3, StepShape, StopShape, TypeFacts
  <2>5. payments' \in [Rows -> PaymentRow \cup {Absent}] /\ SamePayments
    BY <1>3, <2>2, SettleShape, FailShape, TypeFacts, Same DEF ReconcileClaim
  <2> QED BY <2>1, <2>4, <2>5, TypeClaim, TypeFacts DEF chain, inbox, sending
<1>4. CASE WriteReceipt(c)
  <2>1. /\ claim[c].pc = "receipt" /\ Step(c, "clear") /\ Receipt(claim[c].row, claim[c].method)
        /\ UNCHANGED <<chain, fiat, bounced, jobs, settling, payouts, inbox, sending, unsure>>
    BY <1>4 DEF WriteReceipt, At
  <2>2. claim[c].row \in Rows /\ Exists(claim[c].row) /\ claim[c].method \in Method
    BY <2>1, WorkingClaim
  <2>3. /\ claim' \in [Claims -> ClaimRow] /\ OtherClaims(c) /\ claim'[c].row = claim[c].row
        /\ claim'[c].method = claim[c].method /\ claim'[c].by = claim[c].by
        /\ claim'[c].tx = claim[c].tx
    BY <1>1, <2>1, StepShape, TypeFacts
  <2>4. payments' \in [Rows -> PaymentRow \cup {Absent}] /\ SamePayments
    BY <2>1, <2>2, ReceiptShape
  <2> QED BY <2>1, <2>3, <2>4, TypeClaim, TypeFacts DEF chain, inbox, sending
<1>5. CASE ClearNotices(c)
  <2>1. /\ claim' = [claim EXCEPT ![c] = Idle]
        /\ notice' \in [Rows -> {"none", "unread", "read", "claimed"}]
        /\ UNCHANGED <<chain, spine, accounts, link, delivered, sending, unsure>>
    BY <1>5, TypeFacts DEF ClearNotices
  <2>2. claim' \in [Claims -> ClaimRow] /\ OtherClaims(c) /\ claim'[c].pc = "idle"
    BY <2>1, StopShape, TypeFacts
  <2> QED BY <2>1, <2>2, TypeClaim, TypeFacts, Same DEF chain, spine, sending
<1>6. CASE ClaimStops(c)
  <2>1. /\ claim' = [claim EXCEPT ![c] = Idle]
        /\ UNCHANGED <<chain, spine, inbox, sending, unsure>>
    BY <1>6 DEF ClaimStops
  <2>2. claim' \in [Claims -> ClaimRow] /\ OtherClaims(c) /\ claim'[c].pc = "idle"
    BY <2>1, StopShape, TypeFacts
  <2> QED BY <2>1, <2>2, TypeClaim, TypeFacts, Same DEF chain, spine, inbox, sending
<1> QED BY <1>2, <1>3, <1>4, <1>5, <1>6

LEMMA StartShape ==
  ASSUME TypeInv, NEW c \in Claims, NEW r \in Rows, NEW method \in Method, NEW e \in Receivers,
         StartClaim(c, r, method, e)
  PROVE  /\ claim[c].pc = "idle" /\ Exists(r)
         /\ UNCHANGED <<chain, spine, inbox, sending, unsure>>
         /\ claim' \in [Claims -> ClaimRow] /\ OtherClaims(c)
         /\ claim'[c].pc = "withdraw" /\ claim'[c].row = r
<1> DEFINE x == [pc |-> "withdraw", row |-> r, method |-> method, by |-> e, tx |-> NoTx]
<1>1. /\ claim' = [claim EXCEPT ![c] = x] /\ claim[c].pc = "idle" /\ Exists(r)
      /\ UNCHANGED <<chain, spine, inbox, sending, unsure>>
  BY DEF StartClaim, At, Claimable
<1>2. x \in ClaimRow /\ x.pc = "withdraw" /\ x.row = r BY DEF ClaimRow, NoTx
<1> HIDE DEF x
<1> QED BY <1>1, <1>2, TypeFacts DEF OtherClaims

LEMMA SubmitShape ==
  ASSUME TypeInv, NEW c \in Claims, SubmitWithdraw(c)
  PROVE  LET k == claim[c] n == Len(txs) + 1 IN
         /\ k.pc = "withdraw" /\ UNCHANGED <<deposits, spine, inbox, sending, unsure>>
         /\ txs' \in Seq(TransactionRow) /\ DOMAIN txs' = DOMAIN txs \cup {n}
         /\ n \notin DOMAIN txs /\ n \in Nat
         /\ \A u \in DOMAIN txs : txs'[u] = txs[u]
         /\ txs'[n].note = k.row /\ txs'[n].to = k.method /\ txs'[n].by = k.by
         /\ txs'[n].state = "sent"
         /\ claim' \in [Claims -> ClaimRow] /\ OtherClaims(c)
         /\ claim'[c].pc = "poll" /\ claim'[c].tx = n
         /\ claim'[c].row = k.row /\ claim'[c].method = k.method /\ claim'[c].by = k.by
<1> DEFINE k == claim[c]
           n == Len(txs) + 1
           x == [note |-> k.row, to |-> k.method, by |-> k.by, state |-> "sent"]
           y == [k EXCEPT !.pc = "poll", !.tx = n]
<1>1. /\ k.pc = "withdraw" /\ UNCHANGED <<deposits, spine, inbox, sending, unsure>>
      /\ txs' = Append(txs, x) /\ claim' = [claim EXCEPT ![c] = y]
  BY DEF SubmitWithdraw, At
<1>2. k \in ActiveClaim BY <1>1, WorkingClaim
<1>3. x \in TransactionRow BY <1>2 DEF ActiveClaim, TransactionRow
<1>4. /\ x.note = k.row /\ x.to = k.method /\ x.by = k.by /\ x.state = "sent"
  OBVIOUS
<1>5. /\ txs' \in Seq(TransactionRow) /\ DOMAIN txs' = DOMAIN txs \cup {n}
      /\ n \notin DOMAIN txs /\ n \in Nat
      /\ \A u \in DOMAIN txs : txs'[u] = txs[u]
      /\ txs'[n] = x
  <2> HIDE DEF x, y
  <2> QED BY <1>1, <1>3, AppendTx, TypeFacts
<1>6. /\ y \in ActiveClaim /\ y.pc = "poll" /\ y.tx = n
      /\ y.row = k.row /\ y.method = k.method /\ y.by = k.by
  <2> HIDE DEF n
  <2> QED BY <1>2, <1>5 DEF ActiveClaim, ClaimPc
<1>7. claim' \in [Claims -> ClaimRow] /\ claim'[c] = y /\ OtherClaims(c)
  <2> HIDE DEF y
  <2> QED BY <1>1, <1>6, ClaimRows, TypeFacts DEF OtherClaims
<1> QED BY <1>1, <1>4, <1>5, <1>6, <1>7

LEMMA TypeStart ==
  ASSUME TypeInv, NEW c \in Claims, NEW r \in Rows, NEW method \in Method, NEW e \in Receivers,
         StartClaim(c, r, method, e)
  PROVE  TypeInv'
<1>1. /\ Exists(r) /\ UNCHANGED <<chain, spine, inbox, sending, unsure>>
      /\ claim' \in [Claims -> ClaimRow] /\ OtherClaims(c)
      /\ claim'[c].pc = "withdraw" /\ claim'[c].row = r
  BY StartShape
<1>2. \A d \in Claims : Fits(claim[d]) BY TypeParts, TypeFacts
<1>3. \A d \in Claims : claim'[d].pc \notin {"idle", "withdraw"} => claim'[d] = claim[d]
  BY <1>1 DEF OtherClaims
<1>4. TypeOK'
  <2>1. \A d \in Claims : claim'[d].pc \notin {"idle", "withdraw"} =>
          /\ claim'[d].tx \in DOMAIN txs'
          /\ txs'[claim'[d].tx].note = claim'[d].row
          /\ txs'[claim'[d].tx].to = claim'[d].method /\ txs'[claim'[d].tx].by = claim'[d].by
    BY <1>1, <1>2, <1>3 DEF Fits, chain
  <2> QED BY <1>1, <2>1, TypeFacts DEF TypeOK, chain, spine, inbox
<1>5. BatchInv' BY <1>1, KeptBatchInv, Same DEF spine, sending
<1>6. Active' /\ Settling'
  BY <1>1, TypeFacts DEF OtherClaims, Active, Settling, Exists, spine
<1> QED BY <1>4, <1>5, <1>6 DEF TypeInv

LEMMA TypeSubmit ==
  ASSUME TypeInv, NEW c \in Claims, SubmitWithdraw(c) PROVE TypeInv'
<1> DEFINE k == claim[c]
           n == Len(txs) + 1
<1>1. /\ k.pc = "withdraw" /\ UNCHANGED <<deposits, spine, inbox, sending, unsure>>
      /\ txs' \in Seq(TransactionRow) /\ DOMAIN txs' = DOMAIN txs \cup {n}
      /\ \A u \in DOMAIN txs : txs'[u] = txs[u]
      /\ txs'[n].note = k.row /\ txs'[n].to = k.method /\ txs'[n].by = k.by
      /\ claim' \in [Claims -> ClaimRow] /\ OtherClaims(c)
      /\ claim'[c].pc = "poll" /\ claim'[c].tx = n
      /\ claim'[c].row = k.row /\ claim'[c].method = k.method /\ claim'[c].by = k.by
  BY SubmitShape
<1> HIDE DEF n
<1>2. \A d \in Claims : Fits(claim[d]) BY TypeParts, TypeFacts
<1>3. \A d \in Claims : claim'[d].pc \notin {"idle", "withdraw"} =>
        /\ claim'[d].tx \in DOMAIN txs'
        /\ txs'[claim'[d].tx].note = claim'[d].row
        /\ txs'[claim'[d].tx].to = claim'[d].method /\ txs'[claim'[d].tx].by = claim'[d].by
  <2> TAKE d \in Claims
  <2>1. CASE d = c BY <1>1, <2>1
  <2>2. CASE d # c BY <1>1, <1>2, <2>2 DEF OtherClaims, Fits
  <2> QED BY <2>1, <2>2
<1>4. TypeOK' BY <1>1, <1>3, TypeFacts DEF TypeOK, spine, inbox
<1>5. BatchInv' BY <1>1, KeptBatchInv, Same DEF spine, sending
<1>6. Active' /\ Settling'
  BY <1>1, TypeFacts DEF OtherClaims, Active, Settling, Exists, spine
<1> QED BY <1>4, <1>5, <1>6 DEF TypeInv

\* What the chain does with a withdrawal.
LEMMA ChainShape ==
  ASSUME TypeInv, NEW t \in DOMAIN txs, LandWithdraw(t)
  PROVE  /\ txs[t].state = "sent" /\ UNCHANGED <<deposits, spine, inbox, sending, claim, unsure>>
         /\ txs' \in Seq(TransactionRow) /\ DOMAIN txs' = DOMAIN txs
         /\ \A u \in DOMAIN txs : /\ txs'[u].note = txs[u].note /\ txs'[u].to = txs[u].to
                                  /\ txs'[u].by = txs[u].by
         /\ \A u \in DOMAIN txs \ {t} : txs'[u] = txs[u]
         /\ txs'[t].state = "success" => Landed(txs[t].note) = {}
<1>1. PICK s \in {"success", "failed"} :
        /\ txs' = [txs EXCEPT ![t].state = s]
        /\ s = "success" => Landed(txs[t].note) = {}
  BY DEF LandWithdraw
<1>2. txs[t].state = "sent" /\ UNCHANGED <<deposits, spine, inbox, sending, claim, unsure>>
  BY DEF LandWithdraw
<1> QED BY <1>1, <1>2, ChangeState, TypeFacts

LEMMA TypeChain ==
  ASSUME TypeInv, NEW t \in DOMAIN txs, LandWithdraw(t) PROVE TypeInv'
<1>1. /\ UNCHANGED <<deposits, spine, inbox, sending, claim, unsure>>
      /\ txs' \in Seq(TransactionRow) /\ DOMAIN txs' = DOMAIN txs
      /\ \A u \in DOMAIN txs : /\ txs'[u].note = txs[u].note /\ txs'[u].to = txs[u].to
                               /\ txs'[u].by = txs[u].by
  BY ChainShape
<1>2. \A d \in Claims : Fits(claim[d]) BY TypeParts, TypeFacts
<1>3. \A d \in Claims : claim'[d].pc \notin {"idle", "withdraw"} =>
        /\ claim'[d].tx \in DOMAIN txs'
        /\ txs'[claim'[d].tx].note = claim'[d].row
        /\ txs'[claim'[d].tx].to = claim'[d].method /\ txs'[claim'[d].tx].by = claim'[d].by
  BY <1>1, <1>2 DEF Fits
<1>4. TypeOK' BY <1>1, <1>3, TypeFacts DEF TypeOK, spine, inbox
<1>5. BatchInv' BY <1>1, KeptBatchInv, Same DEF spine, sending
<1>6. Active' /\ Settling' BY <1>1, TypeFacts DEF Active, Settling, Exists, spine
<1> QED BY <1>4, <1>5, <1>6 DEF TypeInv

LEMMA TypeWorker ==
  ASSUME TypeInv, NEW r \in Rows, WorkerReconcile(r) \/ WorkerReceipt(r) \/ WorkerDies(r)
  PROVE  TypeInv'
<1>1. /\ payments' \in [Rows -> PaymentRow \cup {Absent}] /\ SamePayments
      /\ UNCHANGED <<chain, fiat, bounced, payouts, inbox, sending, claim, unsure>>
      /\ jobs' \subseteq Rows /\ settling' \subseteq Rows
      /\ \A q \in settling' : Exists(q)
  <2>1. CASE WorkerReconcile(r)
    <3>1. /\ UNCHANGED <<chain, fiat, bounced, payouts, inbox, sending, claim, unsure>>
          /\ jobs' \subseteq Rows /\ settling' \subseteq Rows
      BY <2>1, TypeFacts DEF WorkerReconcile
    <3>2. CASE Matched(r) /\ Settle(r) /\ settling' = settling \cup {r}
      BY <3>1, <3>2, SettleShape, MatchedExists, TypeFacts DEF Settling
    <3>3. CASE UNCHANGED <<payments, settling>>
      BY <3>1, <3>3, Same, TypeFacts DEF Settling
    <3>4. CASE Refused(r) /\ Fail(r) /\ UNCHANGED settling
      BY <3>1, <3>4, FailShape, RefusedExists, TypeFacts DEF Settling
    <3> QED BY <2>1, <3>2, <3>3, <3>4 DEF WorkerReconcile
  <2>2. CASE WorkerReceipt(r)
    <3>1. /\ r \in settling /\ settling' = settling \ {r} /\ Receipt(r, "bank")
          /\ UNCHANGED <<chain, fiat, bounced, jobs, payouts, inbox, sending, claim, unsure>>
      BY <2>2 DEF WorkerReceipt
    <3>2. "bank" \in Method /\ Exists(r) BY <3>1, TypeFacts DEF Method, Settling
    <3>3. payments' \in [Rows -> PaymentRow \cup {Absent}] /\ SamePayments
      BY <3>1, <3>2, ReceiptShape
    <3> QED BY <3>1, <3>3, TypeFacts DEF Settling
  <2>3. CASE WorkerDies(r)
    BY <2>3, Same, TypeFacts DEF WorkerDies, Settling
  <2> QED BY <2>1, <2>2, <2>3
<1>2. BatchInv' BY <1>1, KeptBatchInv DEF sending
<1>3. TypeOK' BY <1>1, TypeFacts DEF TypeOK, chain, inbox
<1>4. \A q \in Rows : Exists(q) <=> payments'[q] # Absent BY <1>1 DEF SamePayments, Exists
<1>5. Settling' BY <1>1, <1>4 DEF Settling, Exists
<1>6. Active'
  <2> SUFFICES ASSUME NEW d \in Claims, claim[d].pc # "idle"
               PROVE  payments'[claim[d].row] # Absent
    BY <1>1 DEF Active, Exists
  <2> QED BY <1>4, WorkingClaim
<1> QED BY <1>2, <1>3, <1>5, <1>6 DEF TypeInv

LEMMA TypeInit == Init => TypeInv
<1> SUFFICES ASSUME Init PROVE TypeInv OBVIOUS
<1>1. TypeOK BY DEF Init, TypeOK, ClaimRow, Idle
<1>2. BatchInv BY RowsAreNumbers DEF Init, BatchInv, BatchType
<1>3. Active /\ Settling BY DEF Init, Active, Settling, Idle
<1> QED BY <1>1, <1>2, <1>3 DEF TypeInv

LEMMA TypeNext == TypeInv /\ [Next]_vars => TypeInv'
<1> SUFFICES ASSUME TypeInv, [Next]_vars PROVE TypeInv' OBVIOUS
<1>1. CASE BatchStep BY <1>1, TypeBatch
<1>2. ASSUME NEW c \in Claims, ClaimStep(c) PROVE TypeInv'
  BY <1>2, TypeStart, TypeSubmit, TypePoll, TypeRecord, TypeFinish DEF ClaimStep
<1>3. ASSUME NEW t \in DOMAIN txs, LandWithdraw(t) PROVE TypeInv'
  BY <1>3, TypeChain
<1>4. ASSUME NEW r \in Rows, WorkerReconcile(r) \/ WorkerReceipt(r) \/ WorkerDies(r) PROVE TypeInv'
  BY <1>4, TypeWorker
<1>5. CASE \/ \E r \in Rows : LandDeposit(r) \/ RevealClaimLink(r) \/ LinkExpires(r)
           \/ \E e \in Receivers : RegisterReceiver(e) \/ MarkAllRead(e)
  BY <1>5, TypeEnvironment
<1>6. CASE UNCHANGED vars
  <2>1. UNCHANGED <<chain, spine, inbox, sending, claim, unsure>> BY <1>6 DEF vars
  <2>2. BatchInv' BY <2>1, KeptBatchInv, Same DEF spine, sending
  <2> QED BY <2>1, <2>2, TypeQuiet, TypeFacts DEF chain, spine, inbox, sending, TypeOK
<1> QED BY <1>1, <1>2, <1>3, <1>4, <1>5, <1>6 DEF Next

\* Rows are well formed, and a claim past its submission names the withdrawal of its
\* own note to where its claimant asked, for any batch and any number of claims.
THEOREM ClaimTypes == Spec => []TypeOK
<1>1. Spec => []TypeInv BY TypeInit, TypeNext, PTL DEF Spec
<1>2. TypeInv => TypeOK BY DEF TypeInv
<1> QED BY <1>1, <1>2, PTL

-----------------------------------------------------------------------------
(* Who owns a withdrawal. *)

SameLanded == \A r : Landed(r)' = Landed(r)

LEMMA KeptLanded == UNCHANGED txs => SameLanded
BY DEF SameLanded, Landed

LEMMA LandedIn == \A r : \A t \in Landed(r) : t \in DOMAIN txs /\ txs[t].note = r
BY DEF Landed

\* A step of one claim at most, that neither submits nor pays out.
LEMMA TxQuiet ==
  ASSUME TxInv, UNCHANGED <<txs, payouts>>, unsure \subseteq unsure',
         NEW c \in Claims, OtherClaims(c),
         \/ claim'[c].pc \in {"idle", "withdraw"}
         \/ /\ Owns(c) /\ claim'[c].row = claim[c].row /\ claim'[c].tx = claim[c].tx
            /\ claim'[c].pc \in Past
            /\ claim'[c].pc \in Landing => claim[c].pc \in Landing
            /\ claim'[c].pc \in {"payout", "reconcile"} => claim'[c].method = "bank"
            /\ claim[c].row \notin unsure' => claim[c].tx \in Landed(claim[c].row)
  PROVE  TxInv'
<1>1. SameLanded BY KeptLanded
<1>2. \A d \in Claims \ {c} : claim'[d] = claim[d] BY DEF OtherClaims
<1>3. \A r \in Rows : \A t, u \in Landed(r)' : t = u BY <1>1 DEF TxInv, SameLanded
<1>4. \A d \in Claims : Owns(d)' => Owns(d) /\ claim'[d].tx = claim[d].tx
  BY <1>2 DEF Owns, Past
<1>5. \A d, e \in Claims : Owns(d)' /\ Owns(e)' /\ claim'[d].tx = claim'[e].tx => d = e
  BY <1>4 DEF TxInv
<1>6. ASSUME NEW d \in Claims
      PROVE  /\ claim'[d].pc \in {"payout", "reconcile"} => claim'[d].method = "bank"
             /\ claim'[d].pc \in Past /\ claim'[d].row \notin unsure' =>
                  claim'[d].tx \in Landed(claim[d].row)' /\ claim'[d].row = claim[d].row
             /\ claim'[d].pc \in Landing => \A i \in DOMAIN payouts : payouts[i].tx # claim'[d].tx
  <2>1. CASE d = c BY <1>1, <2>1 DEF TxInv, SameLanded, Past, Landing
  <2>2. CASE d # c BY <1>1, <1>2, <2>2 DEF TxInv, SameLanded
  <2> QED BY <2>1, <2>2
<1>7. \A r : Landed(r)' = Landed(r) BY <1>1 DEF SameLanded
<1> QED BY <1>3, <1>5, <1>6, <1>7 DEF TxInv

\* A step of somebody else.
LEMMA TxStill ==
  ASSUME TxInv, UNCHANGED <<txs, payouts, claim, unsure>> PROVE TxInv'
BY DEF TxInv, Landed, Owns

LEMMA TxSubmit ==
  ASSUME TypeInv, TxInv, NEW c \in Claims, SubmitWithdraw(c) PROVE TxInv'
<1> DEFINE k == claim[c]
           n == Len(txs) + 1
<1>1. /\ UNCHANGED <<payouts, unsure>>
      /\ DOMAIN txs' = DOMAIN txs \cup {n} /\ n \notin DOMAIN txs
      /\ \A u \in DOMAIN txs : txs'[u] = txs[u]
      /\ txs'[n].state = "sent"
      /\ OtherClaims(c) /\ claim'[c].pc = "poll" /\ claim'[c].tx = n
  BY SubmitShape DEF spine
<1> HIDE DEF n
<1>2. \A r : Landed(r)' = Landed(r) BY <1>1 DEF Landed
<1>3. \A d \in Claims \ {c} : claim'[d] = claim[d] BY <1>1 DEF OtherClaims
<1>4. \A d \in Claims \ {c} : Owns(d)' => Owns(d) /\ claim[d].tx \in DOMAIN txs
  <2> TAKE d \in Claims \ {c}
  <2> HAVE Owns(d)'
  <2>1. Owns(d) BY <1>3 DEF Owns
  <2>2. Fits(claim[d]) BY <2>1, WorkingClaim DEF Owns
  <2> QED BY <2>1, <2>2 DEF Fits, Owns
<1>5. \A d, e \in Claims : Owns(d)' /\ Owns(e)' /\ claim'[d].tx = claim'[e].tx => d = e
  BY <1>1, <1>3, <1>4 DEF TxInv
<1>6. ASSUME NEW d \in Claims
      PROVE  /\ claim'[d].pc \in {"payout", "reconcile"} => claim'[d].method = "bank"
             /\ claim'[d].pc \in Past /\ claim'[d].row \notin unsure' =>
                  claim'[d].tx \in Landed(claim'[d].row)
             /\ claim'[d].pc \in Landing => \A i \in DOMAIN payouts : payouts[i].tx # claim'[d].tx
  <2>1. CASE d = c
    <3>1. \A i \in DOMAIN payouts : payouts[i].tx # n BY <1>1 DEF TxInv
    <3> QED BY <1>1, <2>1, <3>1 DEF Past
  <2>2. CASE d # c BY <1>1, <1>3, <2>2 DEF TxInv
  <2> QED BY <2>1, <2>2
<1>7. \A i \in DOMAIN payouts : payouts[i].tx \in DOMAIN txs /\ txs'[payouts[i].tx] = txs[payouts[i].tx]
  BY <1>1 DEF TxInv
<1> QED BY <1>1, <1>2, <1>5, <1>6, <1>7 DEF TxInv

LEMMA TxChain ==
  ASSUME TypeInv, TxInv, NEW t \in DOMAIN txs, LandWithdraw(t) PROVE TxInv'
<1>1. /\ txs[t].state = "sent" /\ UNCHANGED <<payouts, claim, unsure>>
      /\ DOMAIN txs' = DOMAIN txs
      /\ \A u \in DOMAIN txs : txs'[u].note = txs[u].note /\ txs'[u].to = txs[u].to
      /\ \A u \in DOMAIN txs \ {t} : txs'[u] = txs[u]
      /\ txs'[t].state = "success" => Landed(txs[t].note) = {}
  BY ChainShape DEF spine
<1>2. \A r : Landed(r) \subseteq Landed(r)' BY <1>1 DEF Landed
<1>3. \A r : \A u \in Landed(r)' \ Landed(r) :
        u = t /\ r = txs[t].note /\ txs'[t].state = "success"
  BY <1>1 DEF Landed
<1>4. \A r \in Rows : \A u, v \in Landed(r)' : u = v
  <2> TAKE r \in Rows
  <2>1. CASE Landed(r)' = Landed(r) BY <2>1 DEF TxInv
  <2>2. CASE Landed(r)' # Landed(r)
    <3>1. PICK u \in Landed(r)' : u \notin Landed(r) BY <1>2, <2>2
    <3>2. Landed(r) = {} BY <1>1, <1>3, <3>1
    <3> QED BY <1>3, <3>2
  <2> QED BY <2>1, <2>2
<1>5. \A d, e \in Claims : Owns(d)' /\ Owns(e)' /\ claim'[d].tx = claim'[e].tx => d = e
  BY <1>1 DEF TxInv, Owns
<1>6. \A d \in Claims :
        /\ claim'[d].pc \in {"payout", "reconcile"} => claim'[d].method = "bank"
        /\ claim'[d].pc \in Past /\ claim'[d].row \notin unsure' =>
             claim'[d].tx \in Landed(claim[d].row)' /\ claim'[d].row = claim[d].row
        /\ claim'[d].pc \in Landing => \A i \in DOMAIN payouts : payouts[i].tx # claim'[d].tx
  BY <1>1, <1>2 DEF TxInv
<1>7. \A i \in DOMAIN payouts' :
        /\ payouts'[i].tx \in DOMAIN txs'
        /\ \A j \in DOMAIN payouts' : payouts'[i].tx = payouts'[j].tx => i = j
        /\ payouts'[i].note \notin unsure' =>
             payouts'[i].tx \in Landed(payouts[i].note)' /\ txs'[payouts'[i].tx].to = "bank"
  BY <1>1, <1>2 DEF TxInv
<1>8. \A d \in Claims : claim'[d] = claim[d] BY <1>1
<1> QED BY <1>1, <1>4, <1>5, <1>6, <1>7 DEF TxInv

LEMMA AppendPayout ==
  ASSUME TypeInv, NEW x \in [note : Rows, tx : Nat], payouts' = Append(payouts, x)
  PROVE  /\ DOMAIN payouts' = DOMAIN payouts \cup {Len(payouts) + 1}
         /\ Len(payouts) + 1 \notin DOMAIN payouts
         /\ \A i \in DOMAIN payouts : payouts'[i] = payouts[i]
         /\ payouts'[Len(payouts) + 1] = x
<1>1. payouts \in Seq([note : Rows, tx : Nat]) BY TypeFacts
<1> QED BY <1>1

LEMMA TriggerShape ==
  ASSUME TypeInv, NEW c \in Claims, TriggerPayout(c)
  PROVE  LET k == claim[c] n == Len(payouts) + 1 IN
         /\ k.pc = "payout" /\ k.row \in Rows
         /\ UNCHANGED <<chain, settling, unsure, delivered, sending>>
         /\ fiat \subseteq fiat' /\ fiat' \subseteq fiat \cup {k.row}
         /\ bounced' \ {k.row} = bounced \ {k.row}
         /\ SamePayments /\ \A q \in Rows \ {k.row} : payments'[q] = payments[q]
         /\ SameMarks(k.row) /\ payments'[k.row].receipt = payments[k.row].receipt
         /\ \/ payments'[k.row].status = payments[k.row].status
            \/ payments'[k.row].status = "FAILED" /\ k.row \in bounced'
         /\ OtherClaims(c) /\ claim'[c].pc = "reconcile" /\ claim'[c].tx = k.tx
         /\ claim'[c].row = k.row /\ claim'[c].method = k.method
         /\ DOMAIN payouts' = DOMAIN payouts \cup {n} /\ n \notin DOMAIN payouts
         /\ \A i \in DOMAIN payouts : payouts'[i] = payouts[i]
         /\ payouts'[n].note = k.row /\ payouts'[n].tx = k.tx
<1> DEFINE x == [note |-> claim[c].row, tx |-> claim[c].tx]
<1>1. /\ claim[c].pc = "payout" /\ Step(c, "reconcile") /\ payouts' = Append(payouts, x)
      /\ UNCHANGED <<chain, settling, unsure, delivered, sending>>
      /\ fiat \subseteq fiat' /\ fiat' \subseteq fiat \cup {claim[c].row}
      /\ bounced' \ {claim[c].row} = bounced \ {claim[c].row}
      /\ UNCHANGED payments \/ (Fail(claim[c].row) /\ claim[c].row \in bounced')
  BY DEF TriggerPayout, At, inbox
<1>2. claim[c].row \in Rows /\ claim[c].tx \in Nat /\ Exists(claim[c].row) BY <1>1, WorkingClaim
<1>3. "reconcile" \in ClaimPc BY DEF ClaimPc, Past
<1>4. /\ OtherClaims(c) /\ claim'[c].pc = "reconcile" /\ claim'[c].tx = claim[c].tx
      /\ claim'[c].row = claim[c].row /\ claim'[c].method = claim[c].method
  BY <1>1, <1>3, StepShape, TypeFacts
<1>5. x \in [note : Rows, tx : Nat] /\ x.note = claim[c].row /\ x.tx = claim[c].tx
  BY <1>2
<1> HIDE DEF x
<1>6. /\ DOMAIN payouts' = DOMAIN payouts \cup {Len(payouts) + 1}
      /\ Len(payouts) + 1 \notin DOMAIN payouts
      /\ \A i \in DOMAIN payouts : payouts'[i] = payouts[i]
      /\ payouts'[Len(payouts) + 1] = x
  BY <1>1, <1>5, AppendPayout
<1>7. /\ SamePayments /\ \A q \in Rows \ {claim[c].row} : payments'[q] = payments[q]
      /\ SameMarks(claim[c].row) /\ payments'[claim[c].row].receipt = payments[claim[c].row].receipt
      /\ \/ payments'[claim[c].row].status = payments[claim[c].row].status
         \/ payments'[claim[c].row].status = "FAILED" /\ claim[c].row \in bounced'
  <2>1. CASE UNCHANGED payments BY <2>1, Same DEF SameMarks
  <2>2. CASE Fail(claim[c].row) /\ claim[c].row \in bounced' BY <1>2, <2>2, FailShape
  <2> QED BY <1>1, <2>1, <2>2
<1> QED BY <1>1, <1>2, <1>4, <1>5, <1>6, <1>7

LEMMA TxTrigger ==
  ASSUME TypeInv, TxInv, NEW c \in Claims, TriggerPayout(c) PROVE TxInv'
<1> DEFINE k == claim[c]
           n == Len(payouts) + 1
<1>1. /\ k.pc = "payout" /\ UNCHANGED <<txs, unsure>>
      /\ OtherClaims(c) /\ claim'[c].pc = "reconcile" /\ claim'[c].tx = k.tx
      /\ claim'[c].row = k.row /\ claim'[c].method = k.method
      /\ DOMAIN payouts' = DOMAIN payouts \cup {n} /\ n \notin DOMAIN payouts
      /\ \A i \in DOMAIN payouts : payouts'[i] = payouts[i]
      /\ payouts'[n].note = k.row /\ payouts'[n].tx = k.tx
  BY TriggerShape DEF chain
<1> HIDE DEF n
<1>2. \A r : Landed(r)' = Landed(r) BY <1>1, KeptLanded DEF SameLanded
<1>3. \A d \in Claims \ {c} : claim'[d] = claim[d] BY <1>1 DEF OtherClaims
<1>4. k.tx \in DOMAIN txs /\ txs[k.tx].to = k.method BY <1>1, WorkingClaim DEF Fits
<1>5. /\ k.method = "bank" /\ Owns(c) /\ \A i \in DOMAIN payouts : payouts[i].tx # k.tx
      /\ k.row \notin unsure => k.tx \in Landed(k.row)
  BY <1>1 DEF TxInv, Landing, Past, Owns
<1>6. \A d \in Claims : Owns(d)' => Owns(d) /\ claim'[d].tx = claim[d].tx
  BY <1>1, <1>3 DEF Owns
<1>7. \A d, e \in Claims : Owns(d)' /\ Owns(e)' /\ claim'[d].tx = claim'[e].tx => d = e
  BY <1>6 DEF TxInv
<1>8. ASSUME NEW d \in Claims
      PROVE  /\ claim'[d].pc \in {"payout", "reconcile"} => claim'[d].method = "bank"
             /\ claim'[d].pc \in Past /\ claim'[d].row \notin unsure' =>
                  claim'[d].tx \in Landed(claim'[d].row)
             /\ claim'[d].pc \in Landing => \A i \in DOMAIN payouts' : payouts'[i].tx # claim'[d].tx
  <2>1. CASE d = c BY <1>1, <1>5, <2>1 DEF Landing
  <2>2. CASE d # c
    <3>1. claim'[d] = claim[d] BY <1>3, <2>2
    <3>2. claim[d].pc \in Landing => claim[d].tx # k.tx
      BY <1>5, <2>2 DEF TxInv, Landing, Owns
    <3> QED BY <1>1, <3>1, <3>2 DEF TxInv
  <2> QED BY <2>1, <2>2
<1>9. ASSUME NEW i \in DOMAIN payouts'
      PROVE  /\ payouts'[i].tx \in DOMAIN txs
             /\ \A j \in DOMAIN payouts' : payouts'[i].tx = payouts'[j].tx => i = j
             /\ payouts'[i].note \notin unsure =>
                  payouts'[i].tx \in Landed(payouts'[i].note) /\ txs[payouts'[i].tx].to = "bank"
  <2>1. CASE i = n BY <1>1, <1>4, <1>5, <2>1
  <2>2. CASE i # n
    <3>1. i \in DOMAIN payouts /\ payouts'[i] = payouts[i] BY <1>1, <2>2
    <3> QED BY <1>1, <1>5, <3>1 DEF TxInv
  <2> QED BY <2>1, <2>2
<1> QED BY <1>1, <1>2, <1>7, <1>8, <1>9 DEF TxInv

LEMMA TxClaim ==
  ASSUME TypeInv, TxInv, NEW c \in Claims, ClaimStep(c) PROVE TxInv'
<1>1. ASSUME NEW r \in Rows, NEW method \in Method, NEW e \in Receivers,
             StartClaim(c, r, method, e)
      PROVE  TxInv'
  <2>1. /\ UNCHANGED <<chain, spine, unsure>> /\ OtherClaims(c) /\ claim'[c].pc = "withdraw"
    BY <1>1, StartShape
  <2> QED BY <2>1, TxQuiet DEF chain, spine
<1>2. CASE PollSucceeds(c) \/ PollGivesUp(c)
  <2>1. /\ Step(c, "record") /\ claim[c].pc = "poll" /\ UNCHANGED <<chain, spine>>
        /\ unsure \subseteq unsure'
    BY <1>2 DEF PollSucceeds, PollGivesUp, At
  <2>2. "record" \in ClaimPc BY DEF ClaimPc, Past
  <2>3. /\ OtherClaims(c) /\ claim'[c].pc = "record" /\ claim'[c].row = claim[c].row
        /\ claim'[c].tx = claim[c].tx
    BY <2>1, <2>2, StepShape, TypeFacts
  <2>4. claim[c].tx \in DOMAIN txs /\ txs[claim[c].tx].note = claim[c].row
    BY <2>1, WorkingClaim DEF Fits
  <2>5. claim[c].row \notin unsure' => claim[c].tx \in Landed(claim[c].row)
    BY <1>2, <2>4 DEF PollSucceeds, PollGivesUp, Landed
  <2> QED BY <2>1, <2>3, <2>5, TxQuiet DEF chain, spine, Owns, Past, Landing
<1>3. CASE SettleWallet(c) \/ ConfirmBank(c)
  <2>1. /\ claim[c].pc = "record" /\ UNCHANGED <<chain, payouts, unsure>>
        /\ OtherClaims(c) /\ claim'[c].row = claim[c].row /\ claim'[c].tx = claim[c].tx
        /\ \/ claim'[c].pc = "receipt"
           \/ claim'[c].pc = "payout" /\ claim'[c].method = "bank"
    BY <1>3, RecordShape
  <2>2. claim[c].row \notin unsure => claim[c].tx \in Landed(claim[c].row)
    BY <2>1 DEF TxInv, Past
  <2> QED BY <2>1, <2>2, TxQuiet DEF chain, Owns, Past, Landing
<1>4. CASE ReconcileClaim(c) \/ WriteReceipt(c)
  <2>1. /\ claim[c].pc \in {"reconcile", "receipt"} /\ UNCHANGED <<chain, payouts, unsure>>
        /\ \/ Step(c, "receipt") \/ Step(c, "clear")
           \/ claim' = [claim EXCEPT ![c] = Idle]
    BY <1>4 DEF ReconcileClaim, WriteReceipt, At
  <2>2. {"receipt", "clear"} \subseteq ClaimPc BY DEF ClaimPc, Past
  <2>3. /\ OtherClaims(c)
        /\ \/ claim'[c].pc = "idle"
           \/ /\ claim'[c].row = claim[c].row /\ claim'[c].tx = claim[c].tx
              /\ claim'[c].pc \in {"receipt", "clear"}
    BY <2>1, <2>2, StepShape, StopShape, TypeFacts
  <2>4. claim[c].row \notin unsure => claim[c].tx \in Landed(claim[c].row)
    BY <2>1 DEF TxInv, Past
  <2> QED BY <2>1, <2>3, <2>4, TxQuiet DEF chain, Owns, Past, Landing
<1>5. CASE ClearNotices(c) \/ ClaimStops(c)
  <2>1. UNCHANGED <<chain, spine, unsure>> /\ claim' = [claim EXCEPT ![c] = Idle]
    BY <1>5 DEF ClearNotices, ClaimStops
  <2>2. OtherClaims(c) /\ claim'[c].pc = "idle" BY <2>1, StopShape, TypeFacts
  <2> QED BY <2>1, <2>2, TxQuiet DEF chain, spine
<1> QED BY <1>1, <1>2, <1>3, <1>4, <1>5, TxSubmit, TxTrigger DEF ClaimStep

LEMMA TxNext == TypeInv /\ TxInv /\ [Next]_vars => TxInv'
<1> SUFFICES ASSUME TypeInv, TxInv, [Next]_vars PROVE TxInv' OBVIOUS
<1>1. CASE BatchStep
  BY <1>1, TxStill DEF BatchStep, CreateBatch, SubmitDeposit, AwaitDeposit, RowFails, CreatePayment,
     Notify, EmailLink, CountRow, RollUp, BatchDies, chain, spine
<1>2. ASSUME NEW c \in Claims, ClaimStep(c) PROVE TxInv' BY <1>2, TxClaim
<1>3. ASSUME NEW t \in DOMAIN txs, LandWithdraw(t) PROVE TxInv'
  BY <1>3, TxChain
<1>4. ASSUME NEW r \in Rows, \/ LandDeposit(r) \/ RevealClaimLink(r)
                             \/ LinkExpires(r) \/ WorkerReconcile(r) \/ WorkerReceipt(r)
                             \/ WorkerDies(r)
      PROVE  TxInv'
  BY <1>4, TxStill DEF LandDeposit, RevealClaimLink, LinkExpires, WorkerReconcile,
     WorkerReceipt, WorkerDies, chain, spine
<1>5. ASSUME NEW e \in Receivers, RegisterReceiver(e) \/ MarkAllRead(e) PROVE TxInv'
  BY <1>5, TxStill DEF RegisterReceiver, MarkAllRead, chain, spine
<1>6. CASE UNCHANGED vars BY <1>6, TxStill DEF vars, chain, spine
<1> QED BY <1>1, <1>2, <1>3, <1>4, <1>5, <1>6 DEF Next

LEMMA TxInit == Init => TxInv
<1> SUFFICES ASSUME Init PROVE TxInv OBVIOUS
<1>1. /\ DOMAIN txs = {} /\ DOMAIN payouts = {} /\ \A c \in Claims : claim[c].pc = "idle"
  BY DEF Init, Idle
<1>2. \A r : Landed(r) = {} BY <1>1 DEF Landed
<1> QED BY <1>1, <1>2 DEF TxInv, Owns, Past, Landing

\* For any batch and any number of claims at once, whatever the chain drops, however
\* late it answers and wherever a claim dies: a note for which no poll gave up pays one
\* withdrawal, and a bank is told once, and only for XLM that custody received.  (Where a
\* poll gave up the code goes on as if the withdrawal had landed, withdraw.ts:120-131.)
THEOREM NotesPayOnce == Spec => []PaidOnce
<1>1. Spec => [](TypeInv /\ TxInv) BY TypeInit, TypeNext, TxInit, TxNext, PTL DEF Spec
<1>2. TypeInv /\ TxInv => PaidOnce
  <2> SUFFICES ASSUME TypeInv, TxInv, NEW r \in Rows \ unsure
               PROVE  /\ \A t, u \in Landed(r) : t = u
                      /\ \A i, j \in PaidToBank(r) : i = j
                      /\ \A i \in PaidToBank(r) : /\ payouts[i].tx \in Landed(r)
                                                  /\ txs[payouts[i].tx].to = "bank"
    BY DEF PaidOnce
  <2>1. \A t, u \in Landed(r) : t = u BY DEF TxInv
  <2>2. \A i \in PaidToBank(r) : payouts[i].tx \in Landed(r) /\ txs[payouts[i].tx].to = "bank"
    BY DEF TxInv, PaidToBank
  <2>3. \A i, j \in PaidToBank(r) : payouts[i].tx = payouts[j].tx => i = j
    BY DEF TxInv, PaidToBank
  <2> QED BY <2>1, <2>2, <2>3
<1> QED BY <1>1, <1>2, PTL

-----------------------------------------------------------------------------
(* The chain of the rail is the pool's: what is withdrawn has been deposited. *)

\* The batch deposits a row when it comes to it.
Ahead(r) == r > batch.row \/ (r = batch.row /\ batch.pc \in {"idle", "deposit"})

DepositInv ==
  /\ \A r \in Rows : Ahead(r) => deposits[r] = "none"
  /\ \A t \in DOMAIN txs : deposits[txs[t].note] = "included"

\* Where a batch goes on: not back.
Onwards ==
  \/ batch'.row = batch.row
     /\ (batch'.pc \in {"idle", "deposit"} => batch.pc \in {"idle", "deposit"})
  \/ batch'.row = batch.row + 1

LEMMA GotoOnwards ==
  ASSUME TypeInv, NEW pc, Goto(pc), pc \in {"idle", "deposit"} => batch.pc = "idle"
  PROVE  Onwards
<1>1. batch \in BatchType BY DEF TypeInv, BatchInv
<1>2. batch'.row = batch.row /\ batch'.pc = pc BY <1>1 DEF Goto, BatchType
<1> QED BY <1>2 DEF Onwards

LEMMA NextRowOnwards ==
  ASSUME NEW b \in BatchType, b.row = batch.row, batch' = NextRow(b)
  PROVE  Onwards
<1>1. CASE b.row = NumRows
  <2>1. batch'.row = batch.row /\ batch'.pc = "rollup" BY <1>1 DEF NextRow, BatchType
  <2> QED BY <2>1 DEF Onwards
<1>2. CASE b.row # NumRows
  <2>1. batch' = [b EXCEPT !.pc = "deposit", !.row = b.row + 1] BY <1>2 DEF NextRow
  <2>2. batch'.row = batch.row + 1 BY <2>1 DEF BatchType
  <2> QED BY <2>2 DEF Onwards
<1> QED BY <1>1, <1>2

LEMMA BatchGoesOn ==
  ASSUME TypeInv, BatchStep, ~SubmitDeposit PROVE Onwards /\ UNCHANGED chain
<1>1. batch \in BatchType BY DEF TypeInv, BatchInv
<1>2. UNCHANGED chain
  BY DEF BatchStep, CreateBatch, AwaitDeposit, RowFails, CreatePayment, Notify,
     EmailLink, CountRow, RollUp, BatchDies
<1>3. CASE CreateBatch \/ AwaitDeposit \/ CreatePayment \/ RollUp \/ BatchDies
  BY <1>3, GotoOnwards DEF CreateBatch, AwaitDeposit, CreatePayment, RollUp, BatchDies
<1>4. CASE Notify \/ EmailLink
  <2>1. Goto("count") \/ Goto("email") BY <1>4 DEF Notify, EmailLink
  <2> QED BY <1>2, <2>1, GotoOnwards
<1>5. CASE RowFails BY <1>1, <1>5, NextRowOnwards DEF RowFails
<1>6. CASE CountRow
  <2> DEFINE amount == Amount[batch.row]
             b == [batch EXCEPT !.count = @ + 1, !.total = @ + amount, !.ok = @ \cup {batch.row}]
  <2>1. amount \in Nat BY <1>1, RowsAreNumbers DEF BatchType
  <2>2. batch' = NextRow(b) BY <1>6 DEF CountRow
  <2>3. b = [batch EXCEPT !.count = batch.count + 1, !.total = batch.total + amount,
                          !.ok = batch.ok \cup {batch.row}]
    OBVIOUS
  <2> HIDE DEF amount
  <2>4. /\ batch.count + 1 \in Nat /\ batch.total + amount \in Nat
        /\ batch.ok \cup {batch.row} \in SUBSET Rows
    BY <1>1, <2>1 DEF BatchType
  <2> HIDE DEF b
  <2>5. b \in BatchType /\ b.row = batch.row BY <1>1, <2>3, <2>4 DEF BatchType
  <2> QED BY <1>2, <2>2, <2>5, NextRowOnwards
<1> QED BY <1>2, <1>3, <1>4, <1>5, <1>6 DEF BatchStep

LEMMA DepositInit == Init => DepositInv
BY DEF Init, DepositInv

\* A step that moves the batch at most onwards, and no note back.
LEMMA DepositKept ==
  ASSUME TypeInv, DepositInv, Onwards \/ UNCHANGED batch,
         \A r \in Rows : deposits'[r] # deposits[r] => deposits[r] = "sent",
         DOMAIN txs' = DOMAIN txs, \A t \in DOMAIN txs : txs'[t].note = txs[t].note
  PROVE  DepositInv'
<1>1. batch.row \in Nat /\ \A r \in Rows : r \in Nat
  BY RowsAreNumbers DEF TypeInv, BatchInv, BatchType
<1>2. \A r \in Rows : Ahead(r)' => Ahead(r)
  <2>1. CASE UNCHANGED batch BY <2>1 DEF Ahead
  <2>2. CASE batch'.row = batch.row
             /\ (batch'.pc \in {"idle", "deposit"} => batch.pc \in {"idle", "deposit"})
    BY <2>2 DEF Ahead
  <2>3. CASE batch'.row = batch.row + 1
    <3> TAKE r \in Rows
    <3> HAVE Ahead(r)'
    <3>1. r > batch.row + 1 \/ r = batch.row + 1 BY <2>3 DEF Ahead
    <3>2. r > batch.row BY <1>1, <3>1
    <3> QED BY <3>2 DEF Ahead
  <2> QED BY <2>1, <2>2, <2>3 DEF Onwards
<1>3. \A t \in DOMAIN txs : txs[t].note \in Rows
  <2>1. txs \in Seq(TransactionRow) BY DEF TypeInv, TypeOK
  <2>2. \A t \in DOMAIN txs : txs[t] \in TransactionRow BY <2>1
  <2> QED BY <2>2 DEF TransactionRow
<1>4. \A r \in Rows : Ahead(r)' => deposits'[r] = "none" BY <1>2 DEF DepositInv
<1>5. \A t \in DOMAIN txs' : deposits'[txs'[t].note] = "included"
  BY <1>3 DEF DepositInv
<1> QED BY <1>4, <1>5 DEF DepositInv

LEMMA DepositSubmitted ==
  ASSUME TypeInv, DepositInv, SubmitDeposit PROVE DepositInv' /\ deposits[batch.row] = "none"
<1>1. batch \in BatchType /\ batch.row \in Nat /\ \A r \in Rows : r \in Nat
  BY RowsAreNumbers DEF TypeInv, BatchInv, BatchType
<1>2. /\ batch.pc = "deposit" /\ batch' = [batch EXCEPT !.pc = "await"] /\ txs' = txs
      /\ deposits' = [deposits EXCEPT ![batch.row] = "sent"]
  BY DEF SubmitDeposit, Goto
<1>3. batch'.row = batch.row /\ batch'.pc = "await" BY <1>1, <1>2 DEF BatchType
<1>4. deposits[batch.row] = "none" BY <1>1, <1>2 DEF DepositInv, Ahead, BatchType
<1>5. DOMAIN deposits = Rows BY DEF TypeInv, TypeOK
<1>6. \A r : r # batch.row => deposits'[r] = deposits[r] BY <1>2
<1>7. \A r \in Rows : Ahead(r)' => Ahead(r) /\ r # batch.row
  <2>1. \A x, y \in Nat : x > y => x # y OBVIOUS
  <2> QED BY <1>1, <1>3, <2>1 DEF Ahead
<1>8. \A t \in DOMAIN txs : txs[t].note # batch.row BY <1>4 DEF DepositInv
<1> QED BY <1>2, <1>4, <1>6, <1>7, <1>8 DEF DepositInv

LEMMA DepositNext == TypeInv /\ DepositInv /\ [Next]_vars => DepositInv'
<1> SUFFICES ASSUME TypeInv, DepositInv, [Next]_vars PROVE DepositInv' OBVIOUS
<1>1. CASE SubmitDeposit BY <1>1, DepositSubmitted
<1>2. CASE BatchStep /\ ~SubmitDeposit BY <1>2, BatchGoesOn, DepositKept DEF chain
<1>3. ASSUME UNCHANGED <<deposits, txs, batch>> PROVE DepositInv'
  BY <1>3, DepositKept
<1>4. ASSUME NEW c \in Claims, SubmitWithdraw(c) PROVE DepositInv'
  <2>1. /\ deposits[claim[c].row] = "included" BY <1>4 DEF SubmitWithdraw
  <2>2. /\ UNCHANGED <<deposits, batch>>
        /\ DOMAIN txs' = DOMAIN txs \cup {Len(txs) + 1}
        /\ \A u \in DOMAIN txs : txs'[u] = txs[u]
        /\ txs'[Len(txs) + 1].note = claim[c].row
    BY <1>4, SubmitShape DEF sending
  <2> QED BY <2>1, <2>2 DEF DepositInv, Ahead
<1>5. ASSUME NEW c \in Claims, ClaimStep(c), ~SubmitWithdraw(c) PROVE DepositInv'
  BY <1>3, <1>5 DEF ClaimStep, StartClaim, PollSucceeds, PollGivesUp, SettleWallet, ConfirmBank,
     TriggerPayout, ReconcileClaim, WriteReceipt, ClearNotices, ClaimStops, chain, sending
<1>6. ASSUME NEW t \in DOMAIN txs, LandWithdraw(t) PROVE DepositInv'
  BY <1>6, ChainShape, DepositKept DEF sending
<1>7. ASSUME NEW r \in Rows, LandDeposit(r) PROVE DepositInv'
  <2>1. deposits[r] = "sent" /\ deposits' = [deposits EXCEPT ![r] = "included"]
    BY <1>7 DEF LandDeposit
  <2>2. UNCHANGED <<txs, batch>> BY <1>7 DEF LandDeposit, sending
  <2>3. \A q \in Rows : deposits'[q] # deposits[q] => deposits[q] = "sent" BY <2>1
  <2> QED BY <2>2, <2>3, DepositKept
<1>8. ASSUME NEW r \in Rows, \/ RevealClaimLink(r) \/ LinkExpires(r) \/ WorkerReconcile(r)
                             \/ WorkerReceipt(r) \/ WorkerDies(r)
      PROVE  DepositInv'
  BY <1>3, <1>8 DEF RevealClaimLink, LinkExpires, WorkerReconcile, WorkerReceipt, WorkerDies,
     chain, sending
<1>9. ASSUME NEW e \in Receivers, RegisterReceiver(e) \/ MarkAllRead(e) PROVE DepositInv'
  BY <1>3, <1>9 DEF RegisterReceiver, MarkAllRead, chain, sending
<1>10. CASE UNCHANGED vars BY <1>3, <1>10 DEF vars, chain, sending
<1> QED BY <1>1, <1>2, <1>4, <1>5, <1>6, <1>7, <1>8, <1>9, <1>10 DEF Next

LEMMA LandedAre ==
  ASSUME TypeInv, NEW r PROVE IsFiniteSet(Landed(r)) /\ Cardinality(Landed(r)) \in Nat
<1>1. txs \in Seq(TransactionRow) BY DEF TypeInv, TypeOK
<1>2. DOMAIN txs = 1 .. Len(txs) /\ Len(txs) \in Nat BY <1>1
<1>3. IsFiniteSet(1 .. Len(txs)) BY <1>2, FS_Interval
<1>4. Landed(r) \subseteq 1 .. Len(txs) BY <1>2 DEF Landed
<1> QED BY <1>3, <1>4, FS_Subset, FS_CardinalityType

LEMMA RowsFinite == IsFiniteSet(Rows)
<1>1. NumRows \in Nat BY RowsAreNumbers
<1> QED BY <1>1, FS_Interval DEF Rows

HeldBy == [r \in Rows |-> Holds(r)]

\* A row holds its amount, or nothing.
LEMMA HoldsIs ==
  ASSUME TypeInv, TxInv, DepositInv, NEW r \in Rows
  PROVE  /\ HeldBy[r] = (IF r \in Included /\ Landed(r) = {} THEN Amount[r] ELSE 0)
         /\ HeldBy[r] \in Nat
<1>1. Amount[r] \in Nat BY RowsAreNumbers
<1>2. CASE Landed(r) = {}
  <2>1. Cardinality(Landed(r)) = 0 BY <1>2, FS_EmptySet
  <2> QED BY <1>1, <1>2, <2>1 DEF HeldBy, Holds
<1>3. CASE Landed(r) # {}
  <2>1. PICK t \in Landed(r) : TRUE BY <1>3
  <2>2. Landed(r) = {t} BY <2>1 DEF TxInv
  <2>3. Cardinality(Landed(r)) = 1 BY <2>2, FS_Singleton
  <2>4. r \in Included BY <2>1 DEF Landed, DepositInv, Included
  <2> QED BY <1>1, <1>3, <2>3, <2>4 DEF HeldBy, Holds
<1> QED BY <1>2, <1>3

\* A row that changes changes what is held by as much.
LEMMA HeldChanges ==
  ASSUME TypeInv, TypeInv', NEW r \in Rows, \A q \in Rows \ {r} : Holds(q)' = Holds(q)
  PROVE  /\ SumFunctionOnSet(HeldBy, Rows)' =
              SumFunctionOnSet(HeldBy, Rows) - HeldBy[r] + HeldBy[r]'
         /\ SumFunctionOnSet(HeldBy, Rows) \in Int
<1>1. ASSUME NEW q \in Rows PROVE HeldBy[q] \in Int /\ HeldBy'[q] \in Int
  <2>1. Amount[q] \in Nat BY RowsAreNumbers
  <2>2. Cardinality(Landed(q)) \in Nat BY LandedAre
  <2>3. Cardinality(Landed(q)') \in Nat
    <3>1. txs' \in Seq(TransactionRow) BY DEF TypeInv, TypeOK
    <3>2. DOMAIN txs' = 1 .. Len(txs') /\ Len(txs') \in Nat BY <3>1
    <3>3. IsFiniteSet(1 .. Len(txs')) BY <3>2, FS_Interval
    <3>4. Landed(q)' \subseteq 1 .. Len(txs') BY <3>2 DEF Landed
    <3> QED BY <3>3, <3>4, FS_Subset, FS_CardinalityType
  <2> DEFINE a == Amount[q]
             c == Cardinality(Landed(q))
             d == Cardinality(Landed(q)')
             x == IF q \in Included THEN 1 ELSE 0
             y == IF q \in Included' THEN 1 ELSE 0
  <2>4. HeldBy[q] = a * (x - c) /\ HeldBy'[q] = a * (y - d) BY DEF HeldBy, Holds
  <2>5. a \in Nat /\ c \in Nat /\ d \in Nat /\ x \in Nat /\ y \in Nat BY <2>1, <2>2, <2>3
  <2> HIDE DEF a, c, d, x, y
  <2> QED BY <2>4, <2>5
<1>2. \A q \in Rows \ {r} : HeldBy'[q] = HeldBy[q] BY DEF HeldBy
<1>3. SumFunctionOnSet(HeldBy', Rows) = SumFunctionOnSet(HeldBy, Rows) - HeldBy[r] + HeldBy'[r]
  <2> HIDE DEF HeldBy
  <2> QED BY <1>1, <1>2, RowsFinite, SumChange
<1>4. SumFunctionOnSet(HeldBy, Rows) \in Int BY <1>1, RowsFinite, SumInt
<1>5. SumFunctionOnSet(HeldBy, Rows)' = SumFunctionOnSet(HeldBy', Rows) OBVIOUS
<1> QED BY <1>3, <1>4, <1>5

LEMMA NothingLands ==
  ASSUME Included' = Included, \A r \in Rows : Landed(r)' = Landed(r)
  PROVE  UNCHANGED Custody!kvars
<1>1. \A r \in Rows : Holds(r)' = Holds(r) BY DEF Holds
<1>2. HeldBy' = HeldBy BY <1>1 DEF HeldBy
<1>3. SumFunctionOnSet(HeldBy, Rows)' = SumFunctionOnSet(HeldBy, Rows) BY <1>2
<1>4. Included \subseteq Rows BY DEF Included
<1>5. {r \in Included : Landed(r) = {}}' = {r \in Included : Landed(r) = {}} BY <1>4
<1>6. {r \in Rows : Landed(r) # {}}' = {r \in Rows : Landed(r) # {}} OBVIOUS
<1> QED BY <1>3, <1>5, <1>6 DEF Custody!kvars, HeldBy

LEMMA DepositLands ==
  ASSUME TypeInv, TypeInv', TxInv, DepositInv, NEW r \in Rows, LandDeposit(r)
  PROVE  Custody!Accept(r)
<1>1. /\ deposits[r] = "sent" /\ deposits' = [deposits EXCEPT ![r] = "included"] /\ txs' = txs
  BY DEF LandDeposit
<1>2. DOMAIN deposits = Rows BY DEF TypeInv, TypeOK
<1>3. Included' = Included \cup {r} /\ r \notin Included BY <1>1, <1>2 DEF Included
<1>4. \A q : Landed(q)' = Landed(q) BY <1>1 DEF Landed
<1>5. Landed(r) = {} BY <1>1 DEF Landed, DepositInv
<1>6. Holds(r)' = Amount[r] /\ HeldBy[r] = 0
  <2>1. Cardinality(Landed(r)) = 0 BY <1>5, FS_EmptySet
  <2>2. Amount[r] \in Nat BY RowsAreNumbers
  <2> QED BY <1>3, <1>4, <2>1, <2>2 DEF Holds, HeldBy
<1>7. \A q \in Rows \ {r} : Holds(q)' = Holds(q) BY <1>3, <1>4 DEF Holds
<1>8. HeldBy'[r] = Amount[r] BY <1>6 DEF HeldBy
<1>9. SumFunctionOnSet(HeldBy, Rows)' = SumFunctionOnSet(HeldBy, Rows) + Amount[r]
  <2> DEFINE s == SumFunctionOnSet(HeldBy, Rows)
             t == SumFunctionOnSet(HeldBy, Rows)'
             h == HeldBy[r]
             k == HeldBy'[r]
  <2>1. t = s - h + k /\ s \in Int BY <1>7, HeldChanges
  <2>2. h = 0 /\ k = Amount[r] /\ Amount[r] \in Nat BY <1>6, <1>8, RowsAreNumbers
  <2> HIDE DEF s, t, h, k
  <2>3. t = s + Amount[r] BY <2>1, <2>2
  <2> QED BY <2>3 DEF s, t
<1>10. {q \in Included : Landed(q) = {}}' = {q \in Included : Landed(q) = {}} \cup {r}
  BY <1>3, <1>4, <1>5
<1>11. {q \in Rows : Landed(q) # {}}' = {q \in Rows : Landed(q) # {}} BY <1>4
<1>12. r \notin {q \in Included : Landed(q) = {}} \cup {q \in Rows : Landed(q) # {}}
  BY <1>3, <1>5
<1> QED BY <1>9, <1>10, <1>11, <1>12 DEF Custody!Accept, HeldBy

LEMMA WithdrawLands ==
  ASSUME TypeInv, TypeInv', TxInv, DepositInv, NEW t \in DOMAIN txs, LandWithdraw(t),
         txs'[t].state = "success"
  PROVE  Custody!PayOut(txs[t].note) /\ txs[t].note \in Rows
<1>0. PICK r : r = txs[t].note OBVIOUS
<1>1. /\ txs[t].state = "sent" /\ UNCHANGED deposits
      /\ DOMAIN txs' = DOMAIN txs
      /\ \A u \in DOMAIN txs : txs'[u].note = txs[u].note
      /\ \A u \in DOMAIN txs \ {t} : txs'[u] = txs[u]
      /\ Landed(r) = {}
  BY <1>0, ChainShape
<1>2. r \in Rows
  <2>1. txs \in Seq(TransactionRow) BY DEF TypeInv, TypeOK
  <2>2. txs[t] \in TransactionRow BY <2>1
  <2> QED BY <1>0, <2>2 DEF TransactionRow
<1>3. r \in Included /\ Included' = Included BY <1>0, <1>1, <1>2 DEF DepositInv, Included
<1>4. \A q : Landed(q)' = IF q = r THEN {t} ELSE Landed(q)
  <2> TAKE q
  <2>1. \A u \in Landed(q)' : u \in Landed(q) \/ (u = t /\ q = r) BY <1>0, <1>1 DEF Landed
  <2>2. \A u \in Landed(q) : u \in Landed(q)' BY <1>1 DEF Landed
  <2>3. t \in Landed(r)' BY <1>0, <1>1 DEF Landed
  <2> QED BY <1>1, <2>1, <2>2, <2>3
<1>5. HeldBy[r] = Amount[r] BY <1>1, <1>2, <1>3, HoldsIs
<1>6. HeldBy'[r] = 0
  <2>1. Cardinality(Landed(r)') = 1 BY <1>4, FS_Singleton
  <2>2. Amount[r] \in Nat BY <1>2, RowsAreNumbers
  <2> QED BY <1>2, <1>3, <2>1, <2>2 DEF Holds, HeldBy
<1>7. \A q \in Rows \ {r} : Holds(q)' = Holds(q) BY <1>3, <1>4 DEF Holds
<1>8. SumFunctionOnSet(HeldBy, Rows) >= Amount[r]
  <2>1. \A q \in Rows : HeldBy[q] \in Nat BY HoldsIs
  <2>2. SumFunctionOnSet(HeldBy, {r}) = HeldBy[r] BY <1>2, <2>1, SumSingle
  <2>3. SumFunctionOnSet(HeldBy, {r}) <= SumFunctionOnSet(HeldBy, Rows)
    BY <1>2, <2>1, RowsFinite, SumSubset
  <2>4. SumFunctionOnSet(HeldBy, Rows) \in Nat BY <2>1, RowsFinite, SumNat
  <2>5. Amount[r] \in Nat BY <1>2, RowsAreNumbers
  <2> DEFINE s == SumFunctionOnSet(HeldBy, Rows)
             a == Amount[r]
  <2>6. a <= s /\ s \in Nat /\ a \in Nat BY <1>5, <2>2, <2>3, <2>4, <2>5
  <2> HIDE DEF s, a
  <2>7. s >= a BY <2>6
  <2> QED BY <2>7 DEF s, a
<1>9. SumFunctionOnSet(HeldBy, Rows)' = SumFunctionOnSet(HeldBy, Rows) - Amount[r]
  <2> DEFINE s == SumFunctionOnSet(HeldBy, Rows)
             z == SumFunctionOnSet(HeldBy, Rows)'
             h == HeldBy[r]
             k == HeldBy'[r]
  <2>1. z = s - h + k /\ s \in Int BY <1>2, <1>7, HeldChanges
  <2>2. h = Amount[r] /\ k = 0 /\ Amount[r] \in Nat BY <1>2, <1>5, <1>6, RowsAreNumbers
  <2> HIDE DEF s, z, h, k
  <2>3. z = s - Amount[r] BY <2>1, <2>2
  <2> QED BY <2>3 DEF s, z
<1>10. {q \in Included : Landed(q) = {}}' = {q \in Included : Landed(q) = {}} \ {r}
  BY <1>3, <1>4
<1>11. {q \in Rows : Landed(q) # {}}' = {q \in Rows : Landed(q) # {}} \cup {r} BY <1>2, <1>4
<1>12. r \in {q \in Included : Landed(q) = {}} BY <1>1, <1>3
<1>13. Custody!PayOut(r) BY <1>8, <1>9, <1>10, <1>11, <1>12 DEF Custody!PayOut, HeldBy
<1> QED BY <1>0, <1>2, <1>13

LEMMA RailStep ==
  ASSUME TypeInv, TypeInv', TxInv, DepositInv, [Next]_vars
  PROVE  [Custody!KNext]_(Custody!kvars)
<1>1. ASSUME NEW r \in Rows, LandDeposit(r) PROVE Custody!KNext
  BY <1>1, DepositLands DEF Custody!KNext
<1>2. ASSUME NEW t \in DOMAIN txs, LandWithdraw(t), txs'[t].state = "success" PROVE Custody!KNext
  BY <1>2, WithdrawLands DEF Custody!KNext
<1>3. ASSUME NEW t \in DOMAIN txs, LandWithdraw(t), txs'[t].state # "success"
      PROVE  UNCHANGED Custody!kvars
  <2>1. /\ txs[t].state = "sent" /\ UNCHANGED deposits /\ DOMAIN txs' = DOMAIN txs
        /\ \A u \in DOMAIN txs \ {t} : txs'[u] = txs[u]
    BY <1>3, ChainShape
  <2>2. \A r \in Rows : Landed(r)' = Landed(r) BY <1>3, <2>1 DEF Landed
  <2>3. Included' = Included BY <2>1 DEF Included
  <2> QED BY <2>2, <2>3, NothingLands
<1>4. ASSUME NEW c \in Claims, SubmitWithdraw(c) PROVE UNCHANGED Custody!kvars
  <2>1. /\ DOMAIN txs' = DOMAIN txs \cup {Len(txs) + 1} /\ UNCHANGED deposits
        /\ \A u \in DOMAIN txs : txs'[u] = txs[u]
        /\ Len(txs) + 1 \notin DOMAIN txs /\ txs'[Len(txs) + 1].state = "sent"
    BY <1>4, SubmitShape
  <2>2. \A r \in Rows : Landed(r)' = Landed(r) BY <2>1 DEF Landed
  <2>3. Included' = Included BY <2>1 DEF Included
  <2> QED BY <2>2, <2>3, NothingLands
<1>5. CASE SubmitDeposit
  <2>1. deposits[batch.row] = "none" BY <1>5, DepositSubmitted
  <2>2. Included' = Included BY <1>5, <2>1 DEF SubmitDeposit, Included, TypeInv, TypeOK
  <2> QED BY <1>5, <2>2, KeptLanded, NothingLands DEF SubmitDeposit, SameLanded
<1>6. ASSUME UNCHANGED chain PROVE UNCHANGED Custody!kvars
  <2>1. Included' = Included BY <1>6 DEF chain, Included
  <2> QED BY <1>6, <2>1, KeptLanded, NothingLands DEF SameLanded, chain
<1>7. ASSUME NEW c \in Claims, ClaimStep(c), ~SubmitWithdraw(c) PROVE UNCHANGED chain
  BY <1>7 DEF ClaimStep, StartClaim, PollSucceeds, PollGivesUp, SettleWallet, ConfirmBank,
     TriggerPayout, ReconcileClaim, WriteReceipt, ClearNotices, ClaimStops
<1>8. ASSUME NEW r \in Rows, \/ RevealClaimLink(r) \/ LinkExpires(r) \/ WorkerReconcile(r)
                              \/ WorkerReceipt(r) \/ WorkerDies(r)
       PROVE  UNCHANGED chain
  BY <1>8 DEF RevealClaimLink, LinkExpires, WorkerReconcile, WorkerReceipt, WorkerDies
<1>9. ASSUME NEW e \in Receivers, RegisterReceiver(e) \/ MarkAllRead(e) PROVE UNCHANGED chain
  BY <1>9 DEF RegisterReceiver, MarkAllRead
<1>10. CASE UNCHANGED vars BY <1>6, <1>10 DEF vars
<1>11. CASE BatchStep BY <1>5, <1>6, <1>11, BatchGoesOn
<1> QED
  BY <1>1, <1>2, <1>3, <1>4, <1>6, <1>7, <1>8, <1>9, <1>10, <1>11 DEF Next

LEMMA RailInit == Init => Custody!KInit
<1> SUFFICES ASSUME Init PROVE Custody!KInit OBVIOUS
<1>1. Included = {} /\ \A r : Landed(r) = {} BY DEF Init, Included, Landed
<1>2. \A r \in Rows : HeldBy[r] = 0
  <2> TAKE r \in Rows
  <2>1. Cardinality(Landed(r)) = 0 /\ Amount[r] \in Nat BY <1>1, FS_EmptySet, RowsAreNumbers
  <2> QED BY <1>1, <2>1 DEF HeldBy, Holds
<1>3. SumFunctionOnSet(HeldBy, Rows) = 0 BY <1>2, RowsFinite, SumZero
<1> QED BY <1>1, <1>3 DEF Custody!KInit, HeldBy

\* The chain as batch, claims and their late, lost and repeated submissions drive it is
\* the ledger of notes that the contract implements (PoolImplementsCustody): of any
\* batch and any number of claims, none withdraws a note before its deposit, or twice.
THEOREM RailRespectsCustody == Spec => RailUsesCustody /\ Custody!KSpec
<1>1. Spec => [](TypeInv /\ TxInv /\ DepositInv)
  BY TypeInit, TypeNext, TxInit, TxNext, DepositInit, DepositNext, PTL DEF Spec
<1>2. TypeInv /\ TypeInv' /\ TxInv /\ DepositInv /\ [Next]_vars => [Custody!KNext]_(Custody!kvars)
  BY RailStep
<1>3. ASSUME [Custody!KNext]_(Custody!kvars)
      PROVE  [chain' # chain => Custody!KNext]_(Custody!kvars)
  BY <1>3
<1> QED BY <1>1, <1>2, <1>3, RailInit, PTL DEF Spec, RailUsesCustody, Custody!KSpec

-----------------------------------------------------------------------------
(* What the payments say of the withdrawals. *)

\* The chain and the payouts only grow around what a payment names.
Grows ==
  /\ \A r : Landed(r) \subseteq Landed(r)'
  /\ \A t \in DOMAIN txs : t \in DOMAIN txs' /\ txs'[t].to = txs[t].to /\ txs'[t].by = txs[t].by
  /\ \A r : PaidToBank(r) # {} => PaidToBank(r)' # {}
  /\ unsure \subseteq unsure'

LEMMA Stays == UNCHANGED <<txs, payouts>> /\ unsure \subseteq unsure' => Grows
BY DEF Grows, Landed, PaidToBank

\* No payment changes, and no claim comes to record or to print one.
LEMMA RowQuiet ==
  ASSUME RowInv, Grows, UNCHANGED <<payments, fiat, bounced>>, settling' \subseteq settling,
         \A c \in Claims :
           \/ claim'[c] = claim[c]
           \/ claim'[c].pc \notin {"poll", "record", "receipt", "payout"}
           \/ /\ claim'[c].pc \in {"poll", "record"} /\ claim[c].pc \in {"poll", "record"}
              /\ claim'[c].row = claim[c].row /\ claim'[c].tx = claim[c].tx
           \/ /\ claim'[c].pc = "poll" /\ payments[claim'[c].row].onchain # claim'[c].tx
  PROVE  RowInv'
<1>1. \A r \in Rows : Exists(r)' <=> Exists(r) BY DEF Exists
<1>2. \A r \in Rows : Exists(r) => payments'[r].onchain \in DOMAIN txs' \cup {NoTx}
  BY DEF RowInv, Grows
<1>3. \A c \in Claims :
        claim'[c].pc \in {"poll", "record"} => payments'[claim'[c].row].onchain # claim'[c].tx
  BY DEF RowInv
<1>4. ASSUME NEW r \in Rows \ unsure', Exists(r) PROVE PaymentInv(r)'
  <2>1. PaymentInv(r) BY <1>4 DEF RowInv, Grows
  <2>2. \A t \in Landed(r) : t \in DOMAIN txs BY LandedIn
  <2> QED BY <2>1, <2>2 DEF PaymentInv, Grows
<1>5. ASSUME NEW c \in Claims, claim'[c].pc = "receipt", claim'[c].row \notin unsure'
      PROVE  /\ payments'[claim'[c].row].status = "SETTLED"
             /\ payments'[claim'[c].row].method = claim'[c].method
  <2>1. claim'[c] = claim[c] BY <1>5
  <2> QED BY <1>5, <2>1 DEF RowInv, Grows
<1>6. \A r \in settling' \ unsure' :
        payments'[r].status = "SETTLED" /\ payments'[r].method = "bank"
  BY DEF RowInv, Grows
<1>7. \A r \in fiat' : PaidToBank(r)' # {} /\ Exists(r)' BY DEF RowInv, Grows, Exists
<1>8. ASSUME NEW c \in Claims, claim'[c].pc = "payout", claim'[c].row \notin unsure'
      PROVE  payments'[claim'[c].row].status = "ONCHAIN_CONFIRMED"
  <2>1. claim'[c] = claim[c] BY <1>8
  <2> QED BY <1>8, <2>1 DEF RowInv, Grows
<1> QED BY <1>1, <1>2, <1>3, <1>4, <1>5, <1>6, <1>7, <1>8 DEF RowInv

\* Until a claim has told the bank, nobody has told it to pay for the note.
LEMMA NotTold ==
  ASSUME TypeInv, TxInv, RowInv, NEW c \in Claims, claim[c].pc \in {"record", "payout"},
         claim[c].row \notin unsure
  PROVE  PaidToBank(claim[c].row) = {} /\ claim[c].row \notin fiat
<1>1. /\ claim[c].tx \in Landed(claim[c].row)
      /\ \A i \in DOMAIN payouts : payouts[i].tx # claim[c].tx
  BY DEF TxInv, Past, Landing
<1>2. claim[c].row \in Rows BY WorkingClaim
<1>3. \A i \in PaidToBank(claim[c].row) : payouts[i].tx = claim[c].tx
  BY <1>1, <1>2 DEF TxInv, PaidToBank
<1>4. PaidToBank(claim[c].row) = {} BY <1>1, <1>3 DEF PaidToBank
<1> QED BY <1>4 DEF RowInv

\* One payment changes and keeps the withdrawal it names.
LEMMA RowUpdate ==
  ASSUME TypeInv, TxInv, RowInv, UNCHANGED <<txs, payouts, fiat, bounced, unsure>>,
         NEW r \in Rows, Exists(r), payments'[r].status = payments[r].status \/ r \in fiat,
         SamePayments, \A q \in Rows \ {r} : payments'[q] = payments[q], SameMarks(r),
         r \notin unsure => PaymentInv(r)',
         payments[r].status = "SETTLED" => payments'[r].status = "SETTLED",
         settling' \subseteq settling \cup {r},
         r \in settling' \ unsure =>
           payments'[r].status = "SETTLED" /\ payments[r].method = "bank",
         \A c \in Claims :
           \/ claim'[c] = claim[c]
           \/ /\ claim'[c].pc \notin {"poll", "record"}
              /\ claim'[c].pc # "payout"
              /\ claim'[c].pc = "receipt" /\ claim'[c].row \notin unsure =>
                   /\ claim'[c].row = r /\ payments'[r].status = "SETTLED"
                   /\ payments[r].method = claim'[c].method
  PROVE  RowInv'
<1>1. \A q \in Rows : Exists(q)' <=> Exists(q) BY DEF Exists, SamePayments
<1>2. \A q \in Rows : /\ payments'[q].onchain = payments[q].onchain
                      /\ payments'[q].method = payments[q].method
                      /\ payments[q].status = "SETTLED" => payments'[q].status = "SETTLED"
  BY DEF SameMarks
<1>3. \A q \in Rows : Exists(q)' => payments'[q].onchain \in DOMAIN txs' \cup {NoTx}
  BY <1>1, <1>2 DEF RowInv
<1>4. \A c \in Claims : claim[c].pc # "idle" => claim[c].row \in Rows BY WorkingClaim
<1>5. \A c \in Claims :
        claim'[c].pc \in {"poll", "record"} => payments'[claim'[c].row].onchain # claim'[c].tx
  BY <1>2, <1>4 DEF RowInv
<1>6. \A q \in fiat' : PaidToBank(q)' # {} /\ Exists(q)'
  BY <1>1, TypeFacts DEF RowInv, PaidToBank
<1>7. ASSUME NEW q \in Rows \ unsure', Exists(q) PROVE PaymentInv(q)'
  <2>1. CASE q = r BY <1>7, <2>1
  <2>2. CASE q # r
    <3>1. PaymentInv(q) /\ payments'[q] = payments[q] BY <1>7, <2>2 DEF RowInv
    <3>2. Landed(q)' = Landed(q) /\ PaidToBank(q)' = PaidToBank(q) BY DEF Landed, PaidToBank
    <3> QED BY <3>1, <3>2 DEF PaymentInv
  <2> QED BY <2>1, <2>2
<1>8. ASSUME NEW c \in Claims, claim'[c].pc = "receipt", claim'[c].row \notin unsure'
      PROVE  /\ payments'[claim'[c].row].status = "SETTLED"
             /\ payments'[claim'[c].row].method = claim'[c].method
  <2>1. CASE claim'[c] = claim[c] BY <1>2, <1>4, <1>8, <2>1 DEF RowInv
  <2>2. CASE claim'[c] # claim[c] BY <1>2, <1>8, <2>2
  <2> QED BY <2>1, <2>2
<1>9. \A q \in settling' \ unsure' :
        payments'[q].status = "SETTLED" /\ payments'[q].method = "bank"
  BY <1>2, TypeFacts DEF RowInv
<1>10. ASSUME NEW c \in Claims, claim'[c].pc = "payout", claim'[c].row \notin unsure'
       PROVE  payments'[claim'[c].row].status = "ONCHAIN_CONFIRMED"
  <2>1. claim'[c] = claim[c] BY <1>10
  <2>2. /\ payments[claim[c].row].status = "ONCHAIN_CONFIRMED" /\ claim[c].row \in Rows
        /\ claim[c].row \notin fiat
    BY <1>4, <1>10, <2>1, NotTold DEF RowInv
  <2> QED BY <2>1, <2>2
<1> QED BY <1>1, <1>3, <1>5, <1>6, <1>7, <1>8, <1>9, <1>10 DEF RowInv

\* What tryReconcile writes is what the withdrawal and the payout of the note say.
LEMMA SettledRow ==
  ASSUME TypeInv, RowInv, UNCHANGED <<txs, fiat, bounced>>, NEW r \in Rows \ unsure,
         Matched(r), Settle(r)
  PROVE  PaymentInv(r)'
<1>1. /\ Exists(r) /\ payments[r].method = "bank" /\ payments[r].status = "ONCHAIN_CONFIRMED"
      /\ r \in fiat \ bounced
  BY MatchedExists DEF Matched
<1>2. PaymentInv(r) BY <1>1 DEF RowInv
<1>4. /\ payments'[r].status = "SETTLED" /\ payments'[r].receipt = payments[r].receipt
      /\ SameMarks(r)
  BY <1>1, SettleShape
<1>5. Landed(r)' = Landed(r) BY DEF Landed
<1>6. payments[r].nullifier /\ payments[r].receipt = NoReceipt
  BY <1>1, <1>2 DEF PaymentInv
<1> QED BY <1>1, <1>2, <1>4, <1>5, <1>6 DEF PaymentInv, SameMarks

LEMMA RefusedRow ==
  ASSUME TypeInv, RowInv, UNCHANGED <<txs, fiat, bounced>>, NEW r \in Rows \ unsure,
         Refused(r), Fail(r)
  PROVE  PaymentInv(r)'
<1>1. Exists(r) /\ r \in bounced /\ r \in fiat /\ payments[r].status # "SETTLED"
  BY RefusedExists, TypeFacts DEF Refused
<1>2. PaymentInv(r) BY <1>1 DEF RowInv
<1>3. /\ payments'[r].status = "FAILED" /\ payments'[r].receipt = payments[r].receipt
      /\ SameMarks(r)
  BY <1>1, FailShape
<1>4. Landed(r)' = Landed(r) BY DEF Landed
<1>5. payments[r].nullifier /\ payments[r].receipt = NoReceipt BY <1>1, <1>2 DEF PaymentInv
<1> QED BY <1>1, <1>2, <1>3, <1>4, <1>5 DEF PaymentInv, SameMarks

\* And a receipt prints what the payment says.
LEMMA PrintedRow ==
  ASSUME TypeInv, RowInv, UNCHANGED <<txs, fiat, bounced>>, NEW r \in Rows \ unsure, Exists(r),
         NEW rail \in Method, Receipt(r, rail),
         payments[r].status = "SETTLED", payments[r].method = rail
  PROVE  PaymentInv(r)'
<1>1. PaymentInv(r) BY DEF RowInv
<1>2. /\ payments'[r].status = "SETTLED"
      /\ payments'[r].receipt = [rail |-> rail, tx |-> payments[r].onchain]
      /\ SameMarks(r)
  BY ReceiptShape
<1>3. Landed(r)' = Landed(r) BY DEF Landed
<1>4. payments[r].nullifier BY <1>1 DEF PaymentInv
<1> QED BY <1>1, <1>2, <1>3, <1>4 DEF PaymentInv, SameMarks

LEMMA RowChain ==
  ASSUME TypeInv, RowInv, NEW t \in DOMAIN txs, LandWithdraw(t) PROVE RowInv'
<1>1. /\ txs[t].state = "sent"
      /\ UNCHANGED <<payments, fiat, bounced, settling, payouts, claim, unsure>>
      /\ DOMAIN txs' = DOMAIN txs
      /\ \A u \in DOMAIN txs : /\ txs'[u].note = txs[u].note /\ txs'[u].to = txs[u].to
                               /\ txs'[u].by = txs[u].by
      /\ \A u \in DOMAIN txs \ {t} : txs'[u] = txs[u]
  BY ChainShape DEF spine
<1>2. \A r : PaidToBank(r)' = PaidToBank(r) BY <1>1 DEF PaidToBank
<1>3. Grows BY <1>1, <1>2 DEF Grows, Landed
<1> QED BY <1>1, <1>3, RowQuiet

LEMMA RowSubmit ==
  ASSUME TypeInv, RowInv, NEW c \in Claims, SubmitWithdraw(c) PROVE RowInv'
<1> DEFINE n == Len(txs) + 1
           r == claim[c].row
<1>1. /\ claim[c].pc = "withdraw"
      /\ UNCHANGED <<payments, fiat, bounced, settling, payouts, unsure>>
      /\ DOMAIN txs' = DOMAIN txs \cup {n} /\ n \notin DOMAIN txs
      /\ \A u \in DOMAIN txs : txs'[u] = txs[u]
      /\ OtherClaims(c) /\ claim'[c].pc = "poll" /\ claim'[c].tx = n /\ claim'[c].row = r
  BY SubmitShape DEF spine
<1>2. n # NoTx
  <2>1. Len(txs) \in Nat BY TypeFacts DEF TypeOK
  <2> QED BY <2>1 DEF NoTx
<1>3. payments[r].onchain \in DOMAIN txs \cup {NoTx}
  BY <1>1, WorkingClaim DEF RowInv
<1> HIDE DEF n
<1>4. \A q : PaidToBank(q)' = PaidToBank(q) BY <1>1 DEF PaidToBank
<1>5. Grows BY <1>1, <1>4 DEF Grows, Landed
<1>6. payments[claim'[c].row].onchain # claim'[c].tx BY <1>1, <1>2, <1>3
<1>7. \A d \in Claims \ {c} : claim'[d] = claim[d] BY <1>1 DEF OtherClaims
<1> QED BY <1>1, <1>5, <1>6, <1>7, RowQuiet

\* The bank is told once of a note, before its payment can be settled; its answer is
\* the FIAT leg.
LEMMA RowTrigger ==
  ASSUME TypeInv, TxInv, RowInv, NEW c \in Claims, TriggerPayout(c) PROVE RowInv'
<1> DEFINE n == Len(payouts) + 1
           r == claim[c].row
<1>1. /\ claim[c].pc = "payout" /\ r \in Rows /\ UNCHANGED <<txs, settling, unsure>>
      /\ fiat \subseteq fiat' /\ fiat' \subseteq fiat \cup {r} /\ bounced' \ {r} = bounced \ {r}
      /\ SamePayments /\ \A q \in Rows \ {r} : payments'[q] = payments[q]
      /\ SameMarks(r) /\ payments'[r].receipt = payments[r].receipt
      /\ \/ payments'[r].status = payments[r].status
         \/ payments'[r].status = "FAILED" /\ r \in bounced'
      /\ OtherClaims(c) /\ claim'[c].pc = "reconcile"
      /\ DOMAIN payouts' = DOMAIN payouts \cup {n}
      /\ \A i \in DOMAIN payouts : payouts'[i] = payouts[i]
      /\ payouts'[n].note = r
  BY TriggerShape DEF chain
<1>2. Exists(r) /\ Fits(claim[c]) /\ payments[r] \in PaymentRow BY <1>1, WorkingClaim
<1>3. claim[c].method = "bank" /\ Owns(c) /\ (r \notin unsure => claim[c].tx \in Landed(r))
  BY <1>1 DEF TxInv, Owns, Past
<1>4. r \notin unsure => payments[r].status = "ONCHAIN_CONFIRMED" BY <1>1 DEF RowInv
<1>5. \A d \in Claims \ {c} : claim'[d] = claim[d] /\ (claim[d].pc # "idle" => claim[d].row \in Rows)
  BY <1>1, WorkingClaim DEF OtherClaims
<1>6. r \notin unsure => \A d \in Claims \ {c} : claim[d].pc = "payout" => claim[d].row # r
  <2> SUFFICES ASSUME r \notin unsure, NEW d \in Claims \ {c}, claim[d].pc = "payout",
                      claim[d].row = r
               PROVE  FALSE
    OBVIOUS
  <2>1. Owns(d) /\ claim[d].tx \in Landed(r) BY DEF TxInv, Owns, Past
  <2>2. claim[d].tx = claim[c].tx BY <1>1, <1>3, <2>1 DEF TxInv
  <2> QED BY <1>3, <2>1, <2>2 DEF TxInv
<1>7. r \notin unsure => /\ payments[r].nullifier /\ payments[r].method = "bank"
                         /\ payments[r].receipt = NoReceipt
  <2> HAVE r \notin unsure
  <2>1. PaymentInv(r) /\ payments[r].status = "ONCHAIN_CONFIRMED" BY <1>1, <1>2, <1>4 DEF RowInv
  <2>2. payments[r].nullifier /\ payments[r].receipt = NoReceipt BY <2>1 DEF PaymentInv
  <2>3. payments[r].onchain = claim[c].tx BY <1>1, <1>3, <2>1, <2>2 DEF PaymentInv, TxInv
  <2>4. txs[claim[c].tx].to = claim[c].method BY <1>1, <1>2 DEF Fits
  <2> QED BY <1>3, <2>1, <2>2, <2>3, <2>4 DEF PaymentInv
<1> HIDE DEF n, r
<1>8. \A q : PaidToBank(q) \subseteq PaidToBank(q)' /\ Landed(q)' = Landed(q)
  BY <1>1 DEF PaidToBank, Landed
<1>9. \E i \in DOMAIN payouts' : payouts'[i].note = r BY <1>1
<1>10. \A q \in Rows : Exists(q)' <=> Exists(q) BY <1>1 DEF Exists, SamePayments
<1>11. \A q \in Rows : payments'[q].onchain = payments[q].onchain BY <1>1 DEF SameMarks
<1>12. \A q \in Rows : Exists(q)' => payments'[q].onchain \in DOMAIN txs' \cup {NoTx}
  BY <1>1, <1>10, <1>11 DEF RowInv
<1>13. \A d \in Claims :
         claim'[d].pc \in {"poll", "record"} => payments'[claim'[d].row].onchain # claim'[d].tx
  BY <1>1, <1>5, <1>11 DEF RowInv
<1>14. ASSUME NEW q \in fiat' PROVE PaidToBank(q)' # {} /\ Exists(q)'
  <2>1. CASE q \in fiat BY <1>8, <1>10, <2>1, TypeFacts DEF RowInv
  <2>2. CASE q = r
    <3>1. q \in Rows /\ Exists(q) BY <1>1, <1>2, <2>2
    <3>2. PaidToBank(q)' # {} BY <1>9, <2>2 DEF PaidToBank
    <3> QED BY <1>10, <3>1, <3>2
  <2> QED BY <1>1, <1>14, <2>1, <2>2
<1>15. ASSUME NEW q \in Rows \ unsure', Exists(q)' PROVE PaymentInv(q)'
  <2>1. PaymentInv(q) BY <1>1, <1>10, <1>15 DEF RowInv
  <2>2. CASE q = r BY <1>1, <1>4, <1>7, <1>8, <1>15, <2>1, <2>2 DEF PaymentInv, SameMarks
  <2>3. CASE q # r
    <3>1. payments'[q] = payments[q] BY <1>1, <1>15, <2>3
    <3>2. (q \in fiat' <=> q \in fiat) /\ (q \in bounced' <=> q \in bounced)
      BY <1>1, <2>3
    <3> QED BY <1>1, <1>8, <2>1, <3>1, <3>2 DEF PaymentInv
  <2> QED BY <2>2, <2>3
<1>16. ASSUME NEW d \in Claims, claim'[d].pc \in {"receipt", "payout"}, claim'[d].row \notin unsure'
       PROVE  /\ claim'[d] = claim[d] /\ claim[d].row \in Rows
              /\ payments'[claim[d].row] = payments[claim[d].row]
  <2>1. d # c /\ claim'[d] = claim[d] /\ claim[d].row \in Rows BY <1>1, <1>5, <1>16
  <2>2. claim[d].row # r
    <3>1. CASE claim[d].pc = "receipt"
      <4>1. payments[claim[d].row].status = "SETTLED" BY <1>1, <1>16, <2>1, <3>1 DEF RowInv
      <4> QED BY <1>1, <1>4, <1>16, <2>1, <4>1
    <3>2. CASE claim[d].pc = "payout" BY <1>1, <1>6, <1>16, <2>1, <3>2
    <3> QED BY <1>16, <2>1, <3>1, <3>2
  <2> QED BY <1>1, <2>1, <2>2
<1>17. \A d \in Claims : claim'[d].pc = "receipt" /\ claim'[d].row \notin unsure' =>
         /\ payments'[claim'[d].row].status = "SETTLED"
         /\ payments'[claim'[d].row].method = claim'[d].method
  BY <1>1, <1>16 DEF RowInv
<1>18. \A d \in Claims : claim'[d].pc = "payout" /\ claim'[d].row \notin unsure' =>
         payments'[claim'[d].row].status = "ONCHAIN_CONFIRMED"
  BY <1>1, <1>16 DEF RowInv
<1>19. \A q \in settling' \ unsure' :
         payments'[q].status = "SETTLED" /\ payments'[q].method = "bank"
  <2> TAKE q \in settling' \ unsure'
  <2>1. /\ q \in Rows \ unsure
        /\ payments[q].status = "SETTLED" /\ payments[q].method = "bank"
    BY <1>1, TypeFacts DEF RowInv
  <2>2. q # r BY <1>4, <2>1
  <2> QED BY <1>1, <2>1, <2>2
<1> QED BY <1>12, <1>13, <1>14, <1>15, <1>17, <1>18, <1>19 DEF RowInv

\* The batch makes a payment only where there is none, so no claim is at work on it.
LEMMA RowCreate ==
  ASSUME TypeInv, RowInv, CreatePayment PROVE RowInv'
<1> DEFINE r == batch.row
<1>1. /\ UNCHANGED <<txs, fiat, bounced, settling, payouts, claim, unsure>>
      /\ batch.pc = "persist" /\ payments' = [payments EXCEPT ![r] = NewPayment]
  BY DEF CreatePayment, chain
<1>2. r \in Rows /\ payments[r] = Absent
  <2>1. BatchInv /\ batch \in BatchType BY DEF TypeInv, BatchInv
  <2>2. r \in Rows BY <2>1 DEF BatchType
  <2>3. \A q \in Nat : q >= q OBVIOUS
  <2> HIDE DEF r
  <2>4. r = batch.row /\ r >= r BY <2>2, <2>3, RowsAreNumbers DEF r
  <2> QED BY <1>1, <2>1, <2>2, <2>3, <2>4 DEF BatchInv
<1>3. /\ payments'[r] = NewPayment /\ \A q \in Rows \ {r} : payments'[q] = payments[q]
  BY <1>1, <1>2, TypeFacts
<1>4. /\ \A c \in Claims : claim[c].pc # "idle" => claim[c].row \in Rows \ {r}
      /\ \A q \in settling \cup fiat : q \in Rows \ {r}
  BY <1>2, WorkingClaim, TypeFacts DEF Settling, Exists, RowInv
<1> HIDE DEF r
<1>5. \A q \in Rows : Exists(q)' => payments'[q].onchain \in DOMAIN txs' \cup {NoTx}
  BY <1>1, <1>3 DEF RowInv, Exists, NewPayment
<1>6. \A c \in Claims :
        claim'[c].pc \in {"poll", "record"} => payments'[claim'[c].row].onchain # claim'[c].tx
  BY <1>1, <1>3, <1>4 DEF RowInv
<1>7. \A q \in fiat' : PaidToBank(q)' # {} /\ Exists(q)'
  BY <1>1, <1>3, <1>4 DEF RowInv, PaidToBank, Exists
<1>8. ASSUME NEW q \in Rows \ unsure', Exists(q)' PROVE PaymentInv(q)'
  <2>1. CASE q = r BY <1>1, <1>3, <1>4, <2>1 DEF PaymentInv, NewPayment
  <2>2. CASE q # r
    <3>1. payments'[q] = payments[q] BY <1>3, <1>8, <2>2
    <3>2. PaymentInv(q) BY <1>1, <1>8, <3>1 DEF RowInv, Exists
    <3>3. Landed(q)' = Landed(q) /\ PaidToBank(q)' = PaidToBank(q)
      BY <1>1 DEF Landed, PaidToBank
    <3> QED BY <1>1, <3>1, <3>2, <3>3 DEF PaymentInv
  <2> QED BY <2>1, <2>2
<1>9. ASSUME NEW c \in Claims, claim'[c].pc = "receipt", claim'[c].row \notin unsure'
      PROVE  /\ payments'[claim'[c].row].status = "SETTLED"
             /\ payments'[claim'[c].row].method = claim'[c].method
  <2>1. claim'[c] = claim[c] /\ claim[c].row \in Rows \ {r} BY <1>1, <1>4, <1>9
  <2> QED BY <1>1, <1>3, <1>9, <2>1 DEF RowInv
<1>10. \A q \in settling' \ unsure' :
         payments'[q].status = "SETTLED" /\ payments'[q].method = "bank"
  BY <1>1, <1>3, <1>4 DEF RowInv
<1>11. ASSUME NEW c \in Claims, claim'[c].pc = "payout", claim'[c].row \notin unsure'
       PROVE  payments'[claim'[c].row].status = "ONCHAIN_CONFIRMED"
  <2>1. claim'[c] = claim[c] /\ claim[c].row \in Rows \ {r} BY <1>1, <1>4, <1>11
  <2> QED BY <1>1, <1>3, <1>11, <2>1 DEF RowInv
<1> QED BY <1>5, <1>6, <1>7, <1>8, <1>9, <1>10, <1>11 DEF RowInv

\* A claim that records its withdrawal is the first to do so: the note had paid nobody
\* else, and no other claim owns what paid it.
LEMMA RowRecord ==
  ASSUME TypeInv, TxInv, RowInv, NEW c \in Claims, SettleWallet(c) \/ ConfirmBank(c)
  PROVE  RowInv'
<1> DEFINE r == claim[c].row
           k == claim[c]
<1>1. /\ k.pc = "record" /\ r \in Rows
      /\ UNCHANGED <<txs, fiat, bounced, settling, payouts, unsure>> /\ SamePayments
      /\ \A q \in Rows \ {r} : payments'[q] = payments[q]
      /\ payments'[r].onchain = k.tx /\ payments'[r].by = k.by /\ payments'[r].nullifier = TRUE
      /\ payments'[r].receipt = payments[r].receipt
      /\ \/ /\ k.method = "wallet" /\ claim'[c].pc = "receipt"
            /\ payments'[r].status = "SETTLED" /\ payments'[r].method = payments[r].method
         \/ /\ k.method = "bank" /\ claim'[c].pc = "payout"
            /\ payments'[r].status = "ONCHAIN_CONFIRMED" /\ payments'[r].method = "bank"
      /\ OtherClaims(c) /\ claim'[c].row = r /\ claim'[c].method = k.method
  BY RecordShape DEF chain
<1>2. /\ Exists(r) /\ k.tx \in DOMAIN txs /\ txs[k.tx].note = r
      /\ txs[k.tx].to = k.method /\ txs[k.tx].by = k.by
  BY <1>1, WorkingClaim DEF Fits
<1>3. Owns(c) /\ (r \notin unsure => k.tx \in Landed(r)) BY <1>1 DEF TxInv, Owns, Past
<1>4. r \notin unsure =>
        /\ r \notin fiat /\ r \notin bounced
        /\ ~payments[r].nullifier /\ payments[r].status = "PENDING"
        /\ payments[r].method = "wallet" /\ payments[r].receipt = NoReceipt
  <2> HAVE r \notin unsure
  <2>1. PaymentInv(r) BY <1>1, <1>2 DEF RowInv
  <2>2. payments[r].onchain # k.tx BY <1>1 DEF RowInv
  <2>3. payments[r].onchain \notin Landed(r) BY <1>1, <1>3, <2>2 DEF TxInv
  <2>4. payments[r].nullifier \in BOOLEAN BY <1>1, <1>2, PaymentExists, TypeFacts DEF PaymentRow
  <2>5. r \notin fiat /\ r \notin bounced BY <1>1, NotTold, TypeFacts
  <2> QED BY <2>1, <2>3, <2>4, <2>5 DEF PaymentInv
<1>5. ASSUME NEW d \in Claims \ {c}
      PROVE  /\ claim'[d] = claim[d]
             /\ claim[d].pc \in {"poll", "record"} => claim[d].tx # k.tx
             /\ claim[d].pc # "idle" => claim[d].row \in Rows
  <2>1. claim'[d] = claim[d] BY <1>1 DEF OtherClaims
  <2>2. claim[d].pc \in {"poll", "record"} => Owns(d) BY DEF Owns
  <2>3. Owns(d) => claim[d].tx # k.tx BY <1>3 DEF TxInv
  <2>4. claim[d].pc # "idle" => claim[d].row \in Rows BY WorkingClaim
  <2> QED BY <2>1, <2>2, <2>3, <2>4
<1> HIDE DEF r, k
<1>6. \A q \in Rows : Exists(q)' => payments'[q].onchain \in DOMAIN txs' \cup {NoTx}
  BY <1>1, <1>2 DEF RowInv, Exists, SamePayments
<1>7. \A d \in Claims :
        claim'[d].pc \in {"poll", "record"} => payments'[claim'[d].row].onchain # claim'[d].tx
  <2> TAKE d \in Claims
  <2> HAVE claim'[d].pc \in {"poll", "record"}
  <2>1. d # c BY <1>1
  <2>2. CASE claim[d].row = r BY <1>1, <1>5, <2>1, <2>2
  <2>3. CASE claim[d].row # r BY <1>1, <1>5, <2>1, <2>3 DEF RowInv
  <2> QED BY <2>2, <2>3
<1>8. \A q \in fiat' : PaidToBank(q)' # {} /\ Exists(q)'
  BY <1>1, TypeFacts DEF RowInv, PaidToBank, Exists, SamePayments
<1>9. \A q : Landed(q)' = Landed(q) /\ PaidToBank(q)' = PaidToBank(q)
  BY <1>1 DEF Landed, PaidToBank
<1>10. ASSUME NEW q \in Rows \ unsure', Exists(q)' PROVE PaymentInv(q)'
  <2>1. CASE q = r BY <1>1, <1>2, <1>3, <1>4, <1>9, <1>10, <2>1 DEF PaymentInv
  <2>2. CASE q # r
    <3>1. payments'[q] = payments[q] BY <1>1, <1>10, <2>2
    <3>2. PaymentInv(q) BY <1>1, <1>10, <3>1 DEF RowInv, Exists
    <3> QED BY <1>1, <1>9, <3>1, <3>2 DEF PaymentInv
  <2> QED BY <2>1, <2>2
<1>11. ASSUME NEW d \in Claims, claim'[d].pc = "receipt", claim'[d].row \notin unsure'
       PROVE  /\ payments'[claim'[d].row].status = "SETTLED"
              /\ payments'[claim'[d].row].method = claim'[d].method
  <2>1. CASE d = c BY <1>1, <1>4, <1>11, <2>1
  <2>2. CASE d # c
    <3>1. /\ claim'[d] = claim[d] /\ claim[d].row \in Rows
          /\ payments[claim[d].row].status = "SETTLED"
          /\ payments[claim[d].row].method = claim[d].method
      BY <1>1, <1>5, <1>11, <2>2 DEF RowInv
    <3>2. claim[d].row # r BY <1>1, <1>4, <1>11, <3>1
    <3> QED BY <1>1, <3>1, <3>2
  <2> QED BY <2>1, <2>2
<1>12. \A q \in settling' \ unsure' :
         payments'[q].status = "SETTLED" /\ payments'[q].method = "bank"
  <2> TAKE q \in settling' \ unsure'
  <2>1. /\ q \in Rows \ unsure
        /\ payments[q].status = "SETTLED" /\ payments[q].method = "bank"
    BY <1>1, TypeFacts DEF RowInv
  <2>2. q # r BY <1>4, <2>1
  <2> QED BY <1>1, <2>1, <2>2
<1>13. ASSUME NEW d \in Claims, claim'[d].pc = "payout", claim'[d].row \notin unsure'
       PROVE  payments'[claim'[d].row].status = "ONCHAIN_CONFIRMED"
  <2>1. CASE d = c BY <1>1, <1>13, <2>1
  <2>2. CASE d # c
    <3>1. /\ claim'[d] = claim[d] /\ claim[d].row \in Rows
          /\ payments[claim[d].row].status = "ONCHAIN_CONFIRMED"
      BY <1>1, <1>5, <1>13, <2>2 DEF RowInv
    <3>2. claim[d].row # r BY <1>1, <1>4, <1>13, <3>1
    <3> QED BY <1>1, <3>1, <3>2
  <2> QED BY <2>1, <2>2
<1> QED BY <1>6, <1>7, <1>8, <1>10, <1>11, <1>12, <1>13 DEF RowInv

LEMMA FailedStays ==
  ASSUME payments \in [Rows -> PaymentRow \cup {Absent}], NEW r \in Rows,
         payments[r] \in PaymentRow, payments[r].status = "FAILED", Fail(r)
  PROVE  UNCHANGED payments
<1>1. [payments[r] EXCEPT !.status = "FAILED"] = payments[r] BY DEF PaymentRow
<1>2. payments' = [payments EXCEPT ![r] = payments[r]] BY <1>1 DEF Fail
<1> QED BY <1>2

\* The claim's own tryReconcile, and its receipt.
LEMMA RowFinish ==
  ASSUME TypeInv, TxInv, RowInv, NEW c \in Claims, NEW r, r = claim[c].row,
         ReconcileClaim(c) \/ WriteReceipt(c)
  PROVE  RowInv'
<1>1. /\ claim[c].pc \in {"reconcile", "receipt"}
      /\ UNCHANGED <<txs, fiat, bounced, settling, payouts, unsure>>
      /\ \/ Step(c, "receipt") \/ Step(c, "clear")
         \/ claim' = [claim EXCEPT ![c] = Idle]
  BY DEF ReconcileClaim, WriteReceipt, At, chain
<1>2. r \in Rows /\ Exists(r) /\ claim[c].method \in Method BY <1>1, WorkingClaim
<1>3. {"receipt", "clear"} \subseteq ClaimPc BY DEF ClaimPc, Past
<1>4. /\ OtherClaims(c)
      /\ Step(c, "receipt") => /\ claim'[c].row = r /\ claim'[c].method = claim[c].method
                               /\ claim'[c].pc = "receipt"
      /\ Step(c, "clear") => claim'[c].pc = "clear"
      /\ claim' = [claim EXCEPT ![c] = Idle] => claim'[c].pc = "idle"
  BY <1>1, <1>3, StepShape, StopShape, TypeFacts
<1>5. \A d \in Claims \ {c} : claim'[d] = claim[d] BY <1>4 DEF OtherClaims
<1>6. CASE ReconcileClaim(c) /\ Matched(r) /\ Settle(r) /\ Step(c, "receipt")
  <2>1. /\ SamePayments /\ \A q \in Rows \ {r} : payments'[q] = payments[q]
        /\ payments'[r].status = "SETTLED" /\ SameMarks(r)
    BY <1>2, <1>6, SettleShape
  <2>2. r \notin unsure => PaymentInv(r)' BY <1>1, <1>2, <1>6, SettledRow
  <2>3. claim[c].method = "bank" /\ payments[r].method = "bank" /\ claim'[c].method = "bank"
    BY <1>4, <1>6 DEF ReconcileClaim, At, TxInv, Matched
  <2>4. r \in fiat BY <1>6 DEF Matched
  <2> QED BY <1>1, <1>2, <1>4, <1>5, <1>6, <2>1, <2>2, <2>3, <2>4, RowUpdate
<1>7. CASE ReconcileClaim(c) /\ UNCHANGED payments
           /\ (Step(c, "clear") \/ claim' = [claim EXCEPT ![c] = Idle])
  <2>1. claim'[c].pc \in {"clear", "idle"} BY <1>4, <1>7
  <2>2. Grows /\ settling' \subseteq settling BY <1>1, Stays
  <2> QED BY <1>1, <1>5, <1>7, <2>1, <2>2, RowQuiet
<1>9. CASE Refused(r) /\ Fail(r) /\ claim' = [claim EXCEPT ![c] = Idle]
  <2>1. /\ SamePayments /\ \A q \in Rows \ {r} : payments'[q] = payments[q]
        /\ payments'[r].status = "FAILED" /\ SameMarks(r)
    BY <1>2, <1>9, FailShape
  <2>2. r \notin unsure => PaymentInv(r)' BY <1>1, <1>2, <1>9, RefusedRow
  <2>3. claim'[c].pc = "idle" BY <1>4, <1>9
  <2>4. r \in fiat /\ payments[r].status # "SETTLED" BY <1>9, TypeFacts DEF Refused
  <2>5. r \notin settling \ unsure BY <2>4 DEF RowInv
  <2> QED BY <1>1, <1>2, <1>5, <2>1, <2>2, <2>3, <2>4, <2>5, RowUpdate
<1>10. ASSUME payments[r].status = "FAILED", Fail(r) PROVE UNCHANGED payments
  <2>1. payments[r] \in PaymentRow BY <1>1, WorkingClaim
  <2> QED BY <1>2, <1>10, <2>1, FailedStays, TypeFacts
<1>8. CASE WriteReceipt(c)
  <2>1. /\ claim[c].pc = "receipt" /\ Step(c, "clear") /\ Receipt(r, claim[c].method)
    BY <1>8 DEF WriteReceipt, At
  <2>2. /\ SamePayments /\ \A q \in Rows \ {r} : payments'[q] = payments[q]
        /\ payments'[r].status = payments[r].status /\ SameMarks(r)
    BY <1>2, <2>1, ReceiptShape
  <2>3. r \notin unsure => PaymentInv(r)'
    <3> HAVE r \notin unsure
    <3>1. payments[r].status = "SETTLED" /\ payments[r].method = claim[c].method
      BY <2>1 DEF RowInv
    <3> QED BY <1>1, <1>2, <2>1, <3>1, PrintedRow
  <2>4. \A q \in settling' : q \notin unsure =>
          payments[q].status = "SETTLED" /\ payments[q].method = "bank"
    BY <1>1 DEF RowInv
  <2>5. claim'[c].pc = "clear" BY <1>4, <2>1
  <2> QED BY <1>1, <1>2, <1>5, <2>2, <2>3, <2>4, <2>5, RowUpdate
<1> QED BY <1>6, <1>7, <1>8, <1>9, <1>10 DEF ReconcileClaim

\* What the worker settled stays settled until it prints the receipt.
LEMMA RowWorker ==
  ASSUME TypeInv, TxInv, RowInv, NEW r \in Rows,
         WorkerReconcile(r) \/ WorkerReceipt(r) \/ WorkerDies(r)
  PROVE  RowInv'
<1>1. UNCHANGED <<txs, fiat, bounced, payouts, claim, unsure>>
  BY DEF WorkerReconcile, WorkerReceipt, WorkerDies, chain
<1>2. CASE UNCHANGED payments /\ settling' \subseteq settling
  BY <1>1, <1>2, Stays, RowQuiet
<1>3. CASE Matched(r) /\ Settle(r) /\ settling' = settling \cup {r}
  <2>1. Exists(r) /\ payments[r].method = "bank" /\ r \in fiat
    BY <1>3, MatchedExists DEF Matched
  <2>2. /\ SamePayments /\ \A q \in Rows \ {r} : payments'[q] = payments[q]
        /\ payments'[r].status = "SETTLED" /\ SameMarks(r)
    BY <1>3, <2>1, SettleShape
  <2>3. r \notin unsure => PaymentInv(r)' BY <1>1, <1>3, SettledRow
  <2> QED BY <1>1, <1>3, <2>1, <2>2, <2>3, RowUpdate
<1>4. CASE WorkerReceipt(r)
  <2>1. r \in settling /\ settling' = settling \ {r} /\ Receipt(r, "bank") /\ Exists(r)
    BY <1>4 DEF WorkerReceipt, TypeInv, Settling
  <2>2. "bank" \in Method BY DEF Method
  <2>3. /\ SamePayments /\ \A q \in Rows \ {r} : payments'[q] = payments[q]
        /\ payments'[r].status = payments[r].status /\ SameMarks(r)
    BY <2>1, <2>2, ReceiptShape
  <2>4. r \notin unsure => PaymentInv(r)'
    <3> HAVE r \notin unsure
    <3>1. payments[r].status = "SETTLED" /\ payments[r].method = "bank" BY <2>1 DEF RowInv
    <3> QED BY <1>1, <2>1, <2>2, <3>1, PrintedRow
  <2> QED BY <1>1, <2>1, <2>3, <2>4, RowUpdate
<1>5. CASE Refused(r) /\ Fail(r) /\ UNCHANGED settling
  <2>1. Exists(r) /\ r \in fiat /\ payments[r].status # "SETTLED"
    BY <1>5, RefusedExists, TypeFacts DEF Refused
  <2>2. /\ SamePayments /\ \A q \in Rows \ {r} : payments'[q] = payments[q]
        /\ payments'[r].status = "FAILED" /\ SameMarks(r)
    BY <1>5, <2>1, FailShape
  <2>3. r \notin unsure => PaymentInv(r)' BY <1>1, <1>5, RefusedRow
  <2>4. r \notin settling \ unsure BY <2>1 DEF RowInv
  <2> QED BY <1>1, <1>5, <2>1, <2>2, <2>3, <2>4, RowUpdate
<1> QED BY <1>2, <1>3, <1>4, <1>5 DEF WorkerReconcile, WorkerDies

LEMMA RowStill ==
  ASSUME RowInv, UNCHANGED <<txs, payments, fiat, bounced, settling, payouts, claim, unsure>>
  PROVE  RowInv'
BY Stays, RowQuiet

LEMMA RowClaim ==
  ASSUME TypeInv, TxInv, RowInv, NEW c \in Claims, ClaimStep(c) PROVE RowInv'
<1>1. ASSUME UNCHANGED <<txs, payouts, payments, fiat, bounced, settling>>, unsure \subseteq unsure',
             OtherClaims(c),
             \/ claim'[c].pc \in {"idle", "withdraw", "clear"}
             \/ /\ claim'[c].pc = "record" /\ claim[c].pc = "poll"
                /\ claim'[c].row = claim[c].row /\ claim'[c].tx = claim[c].tx
      PROVE  RowInv'
  <2>1. \A d \in Claims \ {c} : claim'[d] = claim[d] BY <1>1 DEF OtherClaims
  <2>2. Grows BY <1>1, Stays
  <2> QED BY <1>1, <2>1, <2>2, RowQuiet
<1>2. ASSUME NEW r \in Rows, NEW method \in Method, NEW e \in Receivers,
             StartClaim(c, r, method, e)
      PROVE  RowInv'
  <2>1. /\ UNCHANGED <<chain, spine, unsure>> /\ OtherClaims(c) /\ claim'[c].pc = "withdraw"
    BY <1>2, StartShape
  <2> QED BY <1>1, <2>1 DEF chain, spine
<1>3. CASE PollSucceeds(c) \/ PollGivesUp(c)
  <2>1. /\ Step(c, "record") /\ claim[c].pc = "poll" /\ UNCHANGED <<chain, spine>>
        /\ unsure \subseteq unsure'
    BY <1>3 DEF PollSucceeds, PollGivesUp, At
  <2>2. "record" \in ClaimPc BY DEF ClaimPc, Past
  <2>3. /\ OtherClaims(c) /\ claim'[c].pc = "record" /\ claim'[c].row = claim[c].row
        /\ claim'[c].tx = claim[c].tx
    BY <2>1, <2>2, StepShape, TypeFacts
  <2> QED BY <1>1, <2>1, <2>3 DEF chain, spine
<1>4. CASE ClearNotices(c) \/ ClaimStops(c)
  <2>1. UNCHANGED <<chain, spine, unsure>> /\ claim' = [claim EXCEPT ![c] = Idle]
    BY <1>4 DEF ClearNotices, ClaimStops
  <2>2. OtherClaims(c) /\ claim'[c].pc = "idle" BY <2>1, StopShape, TypeFacts
  <2> QED BY <1>1, <2>1, <2>2 DEF chain, spine
<1>5. CASE SettleWallet(c) \/ ConfirmBank(c) BY <1>5, RowRecord
<1>6. CASE ReconcileClaim(c) \/ WriteReceipt(c) BY <1>6, RowFinish
<1> QED BY <1>2, <1>3, <1>4, <1>5, <1>6, RowSubmit, RowTrigger DEF ClaimStep

LEMMA RowNext == TypeInv /\ TxInv /\ RowInv /\ [Next]_vars => RowInv'
<1> SUFFICES ASSUME TypeInv, TxInv, RowInv, [Next]_vars PROVE RowInv' OBVIOUS
<1>1. CASE BatchStep
  <2>1. CASE CreatePayment BY <2>1, RowCreate
  <2>2. CASE ~CreatePayment
    BY <1>1, <2>2, RowStill DEF BatchStep, CreateBatch, SubmitDeposit, AwaitDeposit, RowFails,
       Notify, EmailLink, CountRow, RollUp, BatchDies, chain, spine
  <2> QED BY <2>1, <2>2
<1>2. ASSUME NEW c \in Claims, ClaimStep(c) PROVE RowInv' BY <1>2, RowClaim
<1>3. ASSUME NEW t \in DOMAIN txs, LandWithdraw(t) PROVE RowInv'
  BY <1>3, RowChain
<1>4. ASSUME NEW r \in Rows, \/ LandDeposit(r) \/ RevealClaimLink(r)
                             \/ LinkExpires(r)
      PROVE  RowInv'
  BY <1>4, RowStill DEF LandDeposit, RevealClaimLink, LinkExpires, chain, spine
<1>5. ASSUME NEW r \in Rows, WorkerReconcile(r) \/ WorkerReceipt(r) \/ WorkerDies(r)
      PROVE  RowInv'
  BY <1>5, RowWorker
<1>6. ASSUME NEW e \in Receivers, RegisterReceiver(e) \/ MarkAllRead(e) PROVE RowInv'
  BY <1>6, RowStill DEF RegisterReceiver, MarkAllRead, chain, spine
<1>7. CASE UNCHANGED vars BY <1>7, RowStill DEF vars, chain, spine
<1> QED BY <1>1, <1>2, <1>3, <1>4, <1>5, <1>6, <1>7 DEF Next

LEMMA RowInit == Init => RowInv
<1> SUFFICES ASSUME Init PROVE RowInv OBVIOUS
<1>1. /\ \A c \in Claims : claim[c].pc = "idle"
      /\ \A r \in Rows : payments[r] = Absent
      /\ fiat = {} /\ settling = {}
  BY DEF Init, Idle
<1> QED BY <1>1 DEF RowInv, Exists

\* Whatever claims race and the worker reconciles, and unless a poll gave up for the note:
\* a payment that is marked spent, SETTLED or FAILED names the withdrawal that spent its
\* note, a bank settlement was paid out and not refused, a payment failed because the
\* bank refused what custody holds, and a receipt tells the same.
THEOREM SettledClaimsArePaid == Spec => []SettledIsPaid
<1>1. Spec => [](TypeInv /\ TxInv /\ RowInv)
  BY TypeInit, TypeNext, TxInit, TxNext, RowInit, RowNext, PTL DEF Spec
<1>2. TypeInv /\ TxInv /\ RowInv => SettledIsPaid
  <2> SUFFICES ASSUME TypeInv, RowInv, NEW r \in Rows \ unsure, Exists(r)
               PROVE  LET p == payments[r] IN
                      /\ p.nullifier \/ p.status \in {"SETTLED", "FAILED"} =>
                           /\ p.onchain \in Landed(r)
                           /\ txs[p.onchain].to = p.method /\ txs[p.onchain].by = p.by
                      /\ p.status = "SETTLED" /\ p.method = "bank" =>
                           PaidToBank(r) # {} /\ r \in fiat \ bounced
                      /\ p.status = "FAILED" =>
                           p.method = "bank" /\ r \in bounced /\ PaidToBank(r) # {}
                      /\ p.receipt # NoReceipt =>
                           /\ p.status = "SETTLED"
                           /\ p.receipt = [rail |-> p.method, tx |-> p.onchain]
    BY DEF SettledIsPaid
  <2>1. bounced \subseteq fiat BY TypeFacts
  <2> QED BY <2>1 DEF RowInv, PaymentInv
<1> QED BY <1>1, <1>2, PTL

-----------------------------------------------------------------------------
(* What the batch counts, and what its rows show.                           *)

Recorded(q) == \E c \in Claims : claim[c].row = q /\ (SettleWallet(c) \/ ConfirmBank(c))

\* Somebody has written of a payment that a withdrawal was recorded on it, or is
\* about to.
After == {"payout", "reconcile"}

Told(r) ==
  \/ payments[r].status # "PENDING" \/ r \in fiat
  \/ \E c \in Claims : claim[c].pc \in After /\ claim[c].row = r

\* How the payments change outside of the batch: a claim records a withdrawal on one,
\* or it keeps the one it names and nobody tells more of it than before.
Moves ==
  /\ SamePayments /\ delivered \subseteq delivered' /\ UNCHANGED <<batch, stored>>
  /\ \A q \in Rows : \/ Recorded(q)
                     \/ /\ Exists(q) => payments'[q].onchain = payments[q].onchain
                        /\ Told(q)' => Told(q)

LEMMA MovesQuiet ==
  ASSUME UNCHANGED <<payments, fiat, sending>>, delivered \subseteq delivered',
         \A c \in Claims : claim'[c] = claim[c] \/ claim'[c].pc \notin After
  PROVE  Moves
<1>1. \A q \in Rows : Told(q)' => Told(q) BY DEF Told
<1> QED BY <1>1, Same DEF Moves, sending

\* Only what is told of r changes: nothing that was not, or it was told already.
LEMMA MovesRow ==
  ASSUME NEW r \in Rows, SamePayments, \A q \in Rows \ {r} : payments'[q] = payments[q],
         payments'[r].onchain = payments[r].onchain,
         UNCHANGED sending, delivered \subseteq delivered', fiat' \subseteq fiat \cup {r},
         Told(r) \/ (payments'[r].status = payments[r].status /\ fiat' = fiat),
         \A c \in Claims : \/ claim'[c] = claim[c] \/ claim'[c].pc \notin After
                           \/ Told(r) /\ claim'[c].row = r
  PROVE  Moves
<1>1. ASSUME NEW q \in Rows \ {r} PROVE Told(q)' => Told(q)
  <2>1. payments'[q] = payments[q] /\ (q \in fiat' => q \in fiat) OBVIOUS
  <2>2. ASSUME NEW c \in Claims, claim'[c].pc \in After, claim'[c].row = q PROVE claim'[c] = claim[c]
    BY <2>2
  <2> QED BY <2>1, <2>2 DEF Told
<1>2. Told(r)' => Told(r)
  <2>1. CASE Told(r) BY <2>1
  <2>2. CASE ~Told(r)
    <3>1. payments'[r].status = payments[r].status /\ fiat' = fiat BY <2>2
    <3>2. \A c \in Claims : claim'[c] = claim[c] \/ claim'[c].pc \notin After BY <2>2
    <3> QED BY <3>1, <3>2 DEF Told
  <2> QED BY <2>1, <2>2
<1>3. \A q \in Rows : Told(q)' => Told(q) BY <1>1, <1>2
<1>4. \A q \in Rows : Exists(q) => payments'[q].onchain = payments[q].onchain OBVIOUS
<1> QED BY <1>3, <1>4 DEF Moves, sending

LEMMA ClaimMoves ==
  ASSUME TypeInv, NEW c \in Claims, ClaimStep(c) PROVE Moves
<1>1. ASSUME NEW pc, Step(c, pc), pc \notin After
      PROVE  \A d \in Claims : claim'[d] = claim[d] \/ claim'[d].pc \notin After
  BY <1>1, TypeFacts DEF Step, ClaimRow
<1>2. ASSUME NEW k, claim' = [claim EXCEPT ![c] = k], k.pc \notin After
      PROVE  \A d \in Claims : claim'[d] = claim[d] \/ claim'[d].pc \notin After
  BY <1>2, TypeFacts
<1>3. ASSUME NEW r \in Rows, NEW method \in Method, NEW e \in Receivers,
             StartClaim(c, r, method, e)
      PROVE  Moves
  <2> DEFINE k == [pc |-> "withdraw", row |-> r, method |-> method, by |-> e, tx |-> NoTx]
  <2>1. /\ UNCHANGED <<payments, fiat, sending, delivered>>
        /\ claim' = [claim EXCEPT ![c] = k] /\ k.pc \notin After
    BY <1>3 DEF StartClaim, spine, inbox, After
  <2> HIDE DEF k
  <2> QED BY <1>2, <2>1, MovesQuiet
<1>4. CASE SubmitWithdraw(c)
  <2> DEFINE k == [claim[c] EXCEPT !.pc = "poll", !.tx = Len(txs) + 1]
  <2>1. /\ UNCHANGED <<payments, fiat, sending, delivered>> /\ claim[c].pc # "idle"
        /\ claim' = [claim EXCEPT ![c] = k]
    BY <1>4 DEF SubmitWithdraw, spine, inbox, At
  <2>2. k.pc \notin After
    <3>1. claim[c] \in ActiveClaim BY <2>1, WorkingClaim
    <3> QED BY <3>1 DEF ActiveClaim, After
  <2> HIDE DEF k
  <2> QED BY <1>2, <2>1, <2>2, MovesQuiet
<1>5. CASE PollSucceeds(c) \/ PollGivesUp(c)
  <2>1. UNCHANGED <<payments, fiat, sending, delivered>> /\ Step(c, "record")
    BY <1>5 DEF PollSucceeds, PollGivesUp, spine, inbox
  <2> QED BY <1>1, <2>1, MovesQuiet DEF After
<1>6. CASE SettleWallet(c) \/ ConfirmBank(c)
  <2> DEFINE r == claim[c].row
  <2>1. /\ claim[c].pc = "record" /\ r \in Rows /\ SamePayments
        /\ UNCHANGED <<fiat, inbox, sending>>
        /\ \A q \in Rows \ {r} : payments'[q] = payments[q]
        /\ OtherClaims(c) /\ claim'[c].row = r
    BY <1>6, RecordShape
  <2>2. Recorded(r) BY <1>6 DEF Recorded
  <2>3. ASSUME NEW q \in Rows \ {r} PROVE Told(q)' => Told(q)
    BY <2>1 DEF Told, OtherClaims
  <2> QED BY <2>1, <2>2, <2>3 DEF Moves, inbox, sending
<1>7. CASE TriggerPayout(c)
  <2> DEFINE r == claim[c].row
  <2>1. /\ claim[c].pc = "payout" /\ r \in Rows /\ UNCHANGED <<delivered, sending>>
        /\ fiat' \subseteq fiat \cup {r} /\ SamePayments /\ SameMarks(r)
        /\ \A q \in Rows \ {r} : payments'[q] = payments[q]
        /\ OtherClaims(c) /\ claim'[c].row = r
    BY <1>7, TriggerShape
  <2>2. Told(r) BY <2>1 DEF Told, After
  <2>3. payments'[r].onchain = payments[r].onchain BY <2>1 DEF SameMarks
  <2>4. \A d \in Claims : claim'[d] = claim[d] \/ (Told(r) /\ claim'[d].row = r)
    BY <2>1, <2>2 DEF OtherClaims
  <2> HIDE DEF r
  <2> QED BY <2>1, <2>2, <2>3, <2>4, MovesRow
<1>8. CASE ReconcileClaim(c)
  <2> DEFINE r == claim[c].row
  <2>1. /\ claim[c].pc = "reconcile" /\ UNCHANGED <<fiat, inbox, sending>>
        /\ \/ Settle(r) /\ Step(c, "receipt")
           \/ Fail(r) /\ claim' = [claim EXCEPT ![c] = Idle]
           \/ UNCHANGED payments /\ Step(c, "clear")
    BY <1>8 DEF ReconcileClaim, At
  <2>2. r \in Rows /\ Exists(r) BY <2>1, WorkingClaim
  <2>3. Told(r) BY <2>1 DEF Told, After
  <2>4. Idle.pc \notin After BY DEF Idle, After
  <2>5. \A d \in Claims : claim'[d] = claim[d] \/ claim'[d].pc \notin After
    BY <1>1, <1>2, <2>1, <2>4 DEF After
  <2>6. CASE UNCHANGED payments BY <2>1, <2>5, <2>6, MovesQuiet DEF inbox
  <2>7. CASE Settle(r) \/ Fail(r)
    <3>1. /\ SamePayments /\ SameMarks(r)
          /\ \A q \in Rows \ {r} : payments'[q] = payments[q]
      BY <2>2, <2>7, SettleShape, FailShape
    <3>2. payments'[r].onchain = payments[r].onchain BY <3>1 DEF SameMarks
    <3> HIDE DEF r
    <3> QED BY <2>1, <2>2, <2>3, <2>5, <3>1, <3>2, MovesRow DEF inbox
  <2> QED BY <2>1, <2>6, <2>7
<1>9. CASE WriteReceipt(c)
  <2> DEFINE r == claim[c].row
  <2>1. /\ claim[c].pc # "idle" /\ UNCHANGED <<fiat, inbox, sending>>
        /\ Receipt(r, claim[c].method) /\ Step(c, "clear")
    BY <1>9 DEF WriteReceipt, At
  <2>2. r \in Rows /\ Exists(r) /\ claim[c].method \in Method BY <2>1, WorkingClaim
  <2>3. /\ SamePayments /\ \A q \in Rows \ {r} : payments'[q] = payments[q]
        /\ payments'[r].status = payments[r].status /\ SameMarks(r)
    BY <2>1, <2>2, ReceiptShape
  <2>4. payments'[r].onchain = payments[r].onchain BY <2>3 DEF SameMarks
  <2>5. \A d \in Claims : claim'[d] = claim[d] \/ claim'[d].pc \notin After
    BY <1>1, <2>1 DEF After
  <2> HIDE DEF r
  <2> QED BY <2>1, <2>2, <2>3, <2>4, <2>5, MovesRow DEF inbox
<1>10. CASE ClearNotices(c) \/ ClaimStops(c)
  <2>1. /\ UNCHANGED <<payments, fiat, sending, delivered>>
        /\ claim' = [claim EXCEPT ![c] = Idle]
    BY <1>10 DEF ClearNotices, ClaimStops, spine, inbox
  <2>2. Idle.pc \notin After BY DEF Idle, After
  <2> QED BY <1>2, <2>1, <2>2, MovesQuiet
<1> QED BY <1>3, <1>4, <1>5, <1>6, <1>7, <1>8, <1>9, <1>10 DEF ClaimStep

LEMMA OtherMoves ==
  ASSUME TypeInv, [Next]_vars, ~BatchStep PROVE Moves
<1>1. ASSUME NEW t \in DOMAIN txs, LandWithdraw(t) PROVE Moves
  BY <1>1, MovesQuiet DEF LandWithdraw, spine, inbox
<1>2. ASSUME NEW r \in Rows, \/ LandDeposit(r) \/ RevealClaimLink(r)
                             \/ LinkExpires(r)
      PROVE  Moves
  BY <1>2, MovesQuiet DEF LandDeposit, RevealClaimLink, LinkExpires, spine, inbox
<1>3. ASSUME NEW r \in Rows, WorkerReconcile(r) \/ WorkerReceipt(r) \/ WorkerDies(r)
      PROVE  Moves
  <2>1. UNCHANGED <<fiat, inbox, sending, claim>>
    BY <1>3 DEF WorkerReconcile, WorkerReceipt, WorkerDies
  <2>2. CASE UNCHANGED payments BY <2>1, <2>2, MovesQuiet DEF inbox
  <2>3. CASE (Matched(r) /\ Settle(r)) \/ (Refused(r) /\ Fail(r))
    <3>1. Exists(r) BY <2>3, MatchedExists, RefusedExists
    <3>2. /\ SamePayments /\ SameMarks(r)
          /\ \A q \in Rows \ {r} : payments'[q] = payments[q]
      BY <2>3, <3>1, SettleShape, FailShape
    <3>3. Told(r)
      <4>1. bounced \subseteq fiat BY TypeFacts
      <4> QED BY <2>3, <4>1 DEF Told, Matched, Refused
    <3>4. payments'[r].onchain = payments[r].onchain BY <3>2 DEF SameMarks
    <3> QED BY <2>1, <3>2, <3>3, <3>4, MovesRow DEF inbox
  <2>4. CASE WorkerReceipt(r)
    <3>1. Exists(r) /\ Receipt(r, "bank") BY <2>4 DEF WorkerReceipt, TypeInv, Settling
    <3>2. "bank" \in Method BY DEF Method
    <3>3. /\ SamePayments /\ \A q \in Rows \ {r} : payments'[q] = payments[q]
          /\ payments'[r].status = payments[r].status /\ SameMarks(r)
      BY <3>1, <3>2, ReceiptShape
    <3>4. payments'[r].onchain = payments[r].onchain BY <3>3 DEF SameMarks
    <3> QED BY <2>1, <3>3, <3>4, MovesRow DEF inbox
  <2>5. CASE WorkerReconcile(r)
    <3>1. \/ (Matched(r) /\ Settle(r)) \/ (Refused(r) /\ Fail(r))
          \/ payments' = payments
      BY <2>5 DEF WorkerReconcile
    <3> QED BY <2>2, <2>3, <3>1
  <2>6. CASE WorkerDies(r) BY <2>2, <2>6 DEF WorkerDies
  <2> QED BY <1>3, <2>4, <2>5, <2>6
<1>4. ASSUME NEW e \in Receivers, RegisterReceiver(e) \/ MarkAllRead(e) PROVE Moves
  BY <1>4, MovesQuiet DEF RegisterReceiver, MarkAllRead, spine, inbox
<1>5. CASE UNCHANGED vars BY <1>5, MovesQuiet DEF vars, spine, inbox
<1> QED BY <1>1, <1>2, <1>3, <1>4, <1>5, ClaimMoves DEF Next

\* The row whose payment is made and not counted yet.
Pending == IF batch.pc \in {"notify", "email", "count"} THEN {batch.row} ELSE {}

\* A batch that lives has counted every payment it made but the one at hand; an
\* answered one has told so.
CountInv ==
  /\ batch.count = Cardinality(batch.ok)
  /\ batch.total = SumFunctionOnSet(Amount, batch.ok)
  /\ batch.pc # "dead" =>
       {r \in Rows : Exists(r)} = batch.ok \cup Pending /\ batch.ok \cap Pending = {}
  /\ batch.pc = "done" =>
       /\ stored = [count |-> batch.count, total |-> batch.total]
       /\ batch.ok \subseteq delivered

LEMMA CountQuiet ==
  ASSUME CountInv, Moves PROVE CountInv'
<1>1. {r \in Rows : Exists(r)}' = {r \in Rows : Exists(r)} BY DEF Moves, SamePayments, Exists
<1>2. UNCHANGED <<batch, stored>> /\ delivered \subseteq delivered' BY DEF Moves
<1>3. Pending' = Pending BY <1>2 DEF Pending
<1> QED BY <1>1, <1>2, <1>3 DEF CountInv

\* A step of the batch that makes no payment and counts none.
LEMMA CountGoto ==
  ASSUME TypeInv, CountInv, UNCHANGED payments, delivered \subseteq delivered',
         batch'.ok = batch.ok, batch'.count = batch.count, batch'.total = batch.total,
         batch.pc # "dead", Pending' = Pending \/ batch'.pc = "dead", batch'.pc # "done"
  PROVE  CountInv'
<1>1. {r \in Rows : Exists(r)}' = {r \in Rows : Exists(r)} BY DEF Exists
<1> QED BY <1>1 DEF CountInv

LEMMA CountBatch ==
  ASSUME TypeInv, CountInv, BatchStep PROVE CountInv'
<1>1. /\ batch \in BatchType /\ batch.row \in Rows /\ BatchInv /\ batch.ok \subseteq Rows
      /\ payments \in [Rows -> PaymentRow \cup {Absent}]
  BY TypeFacts DEF BatchInv, BatchType
<1>2. ASSUME NEW pc, Goto(pc)
      PROVE  /\ batch'.pc = pc /\ batch'.ok = batch.ok /\ batch'.count = batch.count
             /\ batch'.total = batch.total /\ batch'.row = batch.row
  BY <1>1, <1>2 DEF Goto, BatchType
<1>3. ASSUME NEW b \in BatchType, batch' = NextRow(b)
      PROVE  /\ batch'.pc \in {"rollup", "deposit"} /\ batch'.ok = b.ok
             /\ batch'.count = b.count /\ batch'.total = b.total
  BY <1>3 DEF NextRow, BatchType
<1>4. CASE CreateBatch \/ SubmitDeposit \/ AwaitDeposit
  <2>1. /\ UNCHANGED <<payments, delivered>>
        /\ Goto("deposit") \/ Goto("await") \/ Goto("persist")
        /\ batch.pc \in {"idle", "deposit", "await"}
    BY <1>4 DEF CreateBatch, SubmitDeposit, AwaitDeposit, spine, inbox
  <2>2. /\ batch'.pc \in {"deposit", "await", "persist"} /\ batch'.ok = batch.ok
        /\ batch'.count = batch.count /\ batch'.total = batch.total
    BY <1>2, <2>1
  <2>3. Pending' = Pending BY <2>1, <2>2 DEF Pending
  <2> QED BY <2>1, <2>2, <2>3, CountGoto
<1>5. CASE RowFails
  <2>1. /\ UNCHANGED <<payments, delivered>> /\ batch.pc \in {"deposit", "await", "persist"}
        /\ batch' = NextRow(batch)
    BY <1>5 DEF RowFails, spine, inbox
  <2>2. Pending' = Pending BY <1>1, <1>3, <2>1 DEF Pending
  <2> QED BY <1>1, <1>3, <2>1, <2>2, CountGoto
<1>6. CASE CreatePayment
  <2> DEFINE r == batch.row
  <2>1. batch.pc = "persist" /\ Goto("notify") /\ payments' = [payments EXCEPT ![r] = NewPayment]
    BY <1>6 DEF CreatePayment
  <2>2. payments[r] = Absent
    <3>1. r \in Nat BY <1>1, RowsAreNumbers
    <3>2. r >= r BY <3>1
    <3> QED BY <1>1, <2>1, <3>2 DEF BatchInv
  <2>3. NewPayment # Absent
    BY DEF NewPayment, Absent
  <2>4. payments'[r] = NewPayment /\ \A q \in Rows \ {r} : payments'[q] = payments[q]
    BY <1>1, <2>1
  <2>5. {q \in Rows : Exists(q)}' = {q \in Rows : Exists(q)} \cup {r} /\ ~Exists(r)
    BY <1>1, <2>2, <2>3, <2>4 DEF Exists
  <2>6. Pending = {} /\ Pending' = {r} BY <1>2, <2>1 DEF Pending
  <2> HIDE DEF r
  <2> QED BY <1>2, <2>1, <2>5, <2>6 DEF CountInv
<1>7. CASE Notify \/ EmailLink
  <2>1. /\ UNCHANGED <<payments, delivered>> /\ batch.pc \in {"notify", "email"}
        /\ Goto("email") \/ Goto("count")
    BY <1>7 DEF Notify, EmailLink, spine
  <2>2. Pending' = Pending /\ batch'.pc \in {"email", "count"} BY <1>2, <2>1 DEF Pending
  <2> QED BY <1>2, <2>1, <2>2, CountGoto
<1>8. CASE CountRow
  <2> DEFINE r == batch.row
             b == [batch EXCEPT !.count = batch.count + 1, !.total = batch.total + Amount[r],
                                !.ok = batch.ok \cup {r}]
  <2>1. batch.pc = "count" /\ batch' = NextRow(b) /\ UNCHANGED payments
    BY <1>8 DEF CountRow, spine
  <2>2. /\ batch.count + 1 \in Nat /\ batch.total + Amount[r] \in Nat
        /\ batch.ok \cup {r} \in SUBSET Rows
    <3>1. batch.count \in Nat /\ batch.total \in Nat BY <1>1 DEF BatchType
    <3>2. Amount[r] \in Nat BY <1>1, RowsAreNumbers
    <3> HIDE DEF r
    <3>3. batch.total + Amount[r] \in Nat BY <3>1, <3>2
    <3> QED BY <1>1, <3>1, <3>3 DEF r
  <2>3. /\ b \in BatchType /\ b.count = batch.count + 1 /\ b.total = batch.total + Amount[r]
        /\ b.ok = batch.ok \cup {r}
    <3> DEFINE total == batch.total + Amount[r]
    <3>1. total \in Nat BY <2>2
    <3>2. b = [batch EXCEPT !.count = batch.count + 1, !.total = total, !.ok = batch.ok \cup {r}]
      OBVIOUS
    <3> HIDE DEF total, b
    <3>3. /\ b \in BatchType /\ b.count = batch.count + 1 /\ b.total = total
          /\ b.ok = batch.ok \cup {r}
      BY <1>1, <2>2, <3>1, <3>2 DEF BatchType
    <3> QED BY <3>3 DEF total
  <2> HIDE DEF b
  <2>4. /\ batch'.pc \in {"rollup", "deposit"} /\ batch'.ok = batch.ok \cup {r}
        /\ batch'.count = batch.count + 1 /\ batch'.total = batch.total + Amount[r]
    BY <1>3, <2>1, <2>3
  <2>5. Pending = {r} /\ Pending' = {} BY <2>1, <2>4 DEF Pending
  <2>6. r \notin batch.ok BY <2>1, <2>5 DEF CountInv
  <2>7. IsFiniteSet(batch.ok) /\ \A x \in batch.ok \cup {r} : Amount[x] \in Int
    <3>1. IsFiniteSet(Rows) BY RowsAreFinite
    <3>2. \A x \in batch.ok \cup {r} : x \in Rows BY <1>1
    <3>3. \A x \in Rows : Amount[x] \in Int BY RowsAreNumbers
    <3> QED BY <1>1, <3>1, <3>2, <3>3, FS_Subset
  <2>8. SumFunctionOnSet(Amount, batch.ok \cup {r}) = Amount[r] + SumFunctionOnSet(Amount, batch.ok)
    BY <2>6, <2>7, SumAdd
  <2>9. Cardinality(batch.ok \cup {r}) = Cardinality(batch.ok) + 1 BY <2>6, <2>7, FS_AddElement
  <2>10. SumFunctionOnSet(Amount, batch.ok) \in Int /\ Amount[r] \in Int BY <2>7, SumInt
  <2>11. {q \in Rows : Exists(q)}' = {q \in Rows : Exists(q)} BY <2>1 DEF Exists
  <2>12. batch'.total = SumFunctionOnSet(Amount, batch'.ok)
    <3> DEFINE before == SumFunctionOnSet(Amount, batch.ok)
               amount == Amount[r]
    <3>1. batch.total = before /\ batch'.total = batch.total + amount BY <2>4 DEF CountInv
    <3>2. SumFunctionOnSet(Amount, batch'.ok) = amount + before BY <2>4, <2>8
    <3>3. before \in Int /\ amount \in Int BY <2>10
    <3> HIDE DEF before, amount
    <3> QED BY <3>1, <3>2, <3>3
  <2>13. batch'.count = Cardinality(batch'.ok) BY <2>4, <2>9 DEF CountInv
  <2> HIDE DEF r
  <2>14. {q \in Rows : Exists(q)}' = batch'.ok \cup Pending' /\ batch'.ok \cap Pending' = {}
    BY <2>1, <2>4, <2>5, <2>11 DEF CountInv
  <2> QED BY <2>4, <2>12, <2>13, <2>14 DEF CountInv
<1>9. CASE RollUp
  <2>1. /\ batch.pc = "rollup" /\ stored' = [count |-> batch.count, total |-> batch.total]
        /\ delivered' = delivered \cup batch.ok /\ Goto("done") /\ UNCHANGED payments
    BY <1>9 DEF RollUp, spine
  <2>2. Pending = {} /\ Pending' = {} BY <1>2, <2>1 DEF Pending
  <2>3. {q \in Rows : Exists(q)}' = {q \in Rows : Exists(q)} BY <2>1 DEF Exists
  <2> QED BY <1>2, <2>1, <2>2, <2>3 DEF CountInv
<1>10. CASE BatchDies
  <2>1. UNCHANGED <<payments, delivered>> /\ batch.pc # "dead" /\ Goto("dead")
    BY <1>10 DEF BatchDies, spine, inbox
  <2> QED BY <1>2, <2>1, CountGoto
<1> QED BY <1>4, <1>5, <1>6, <1>7, <1>8, <1>9, <1>10 DEF BatchStep

LEMMA CountNext == TypeInv /\ CountInv /\ [Next]_vars => CountInv'
BY CountBatch, CountQuiet, OtherMoves

LEMMA CountInit == Init => CountInv
<1> SUFFICES ASSUME Init PROVE CountInv OBVIOUS
<1>1. /\ batch.pc = "idle" /\ batch.count = 0 /\ batch.total = 0 /\ batch.ok = {}
      /\ \A r \in Rows : payments[r] = Absent
  BY DEF Init
<1>2. {r \in Rows : Exists(r)} = {} /\ Pending = {} BY <1>1 DEF Exists, Pending
<1> QED BY <1>1, <1>2, SumEmpty, FS_EmptySet DEF CountInv

LEMMA ExistingRows ==
  ASSUME TypeInv
  PROVE  UNION {Rollup[s] : s \in DOMAIN Rollup} = {r \in Rows : Exists(r)}
<1> DEFINE st == {"PENDING", "ONCHAIN_CONFIRMED", "SETTLED", "FAILED"}
<1>1. \A r \in Rows : Exists(r) => payments[r].status \in st
  BY PaymentExists, TypeFacts DEF PaymentRow
<1>2. DOMAIN Rollup = st BY DEF Rollup
<1>3. \A s \in st : Rollup[s] = {r \in Rows : Exists(r) /\ payments[r].status = s} BY DEF Rollup
<1> HIDE DEF st
<1> QED BY <1>1, <1>2, <1>3

LEMMA GroupRows ==
  /\ DOMAIN Group.rows = {r \in Rows : Exists(r)}
  /\ \A r \in DOMAIN Group.rows : Group.rows[r] = RegisterRow(Child(r))
  /\ Group.count = stored.count /\ Group.total = stored.total
BY DEF Group, GroupOf, Children

\* Whatever fails in a batch of any length and whatever else runs meanwhile, its answer
\* counts exactly the payments it left behind, in number and in XLM, and it handed over
\* every one of their notes.
THEOREM BatchesAreCounted == Spec => []BatchCountsItsPayments
<1>1. TypeInv /\ CountInv => BatchCountsItsPayments
  <2> SUFFICES ASSUME TypeInv, CountInv, batch.pc = "done"
               PROVE  LET rows == UNION {Rollup[s] : s \in DOMAIN Rollup} IN
                      /\ stored.count = Cardinality(rows)
                      /\ stored.total = TotalsOf(Group).total
                      /\ rows = DOMAIN Group.rows /\ rows \subseteq delivered
    BY DEF BatchCountsItsPayments
  <2> DEFINE S == {r \in Rows : Exists(r)}
  <2>1. S = batch.ok BY DEF CountInv, Pending
  <2>2. /\ stored.count = Cardinality(S) /\ stored.total = SumFunctionOnSet(Amount, S)
        /\ S \subseteq delivered
    BY <2>1 DEF CountInv
  <2>3. TotalsOf(Group).total = SumFunctionOnSet(Amount, S)
    <3> DEFINE f == [r \in S |-> Group.rows[r].amount]
    <3>1. TotalsOf(Group).total = SumFunction(f) BY GroupRows DEF TotalsOf, SumAmounts
    <3>2. IsFiniteSet(S)
      <4>1. IsFiniteSet(Rows) BY RowsAreFinite
      <4> QED BY <4>1, FS_Subset
    <3>3. ASSUME NEW r \in S PROVE f[r] = Amount[r]
      <4>1. Group.rows[r] = RegisterRow(Child(r)) BY GroupRows
      <4>2. f[r] = Group.rows[r].amount OBVIOUS
      <4> QED BY <4>1, <4>2 DEF RegisterRow, Child
    <3>4. DOMAIN f = S OBVIOUS
    <3> HIDE DEF f, S
    <3> QED BY <3>1, <3>2, <3>3, <3>4, SumWhole, SumEqual
  <2>4. UNION {Rollup[s] : s \in DOMAIN Rollup} = S BY ExistingRows
  <2> HIDE DEF S
  <2> QED BY <2>2, <2>3, <2>4, GroupRows DEF S
<1>2. Spec => [](TypeInv /\ CountInv)
  BY TypeInit, TypeNext, CountInit, CountNext, PTL DEF Spec
<1> QED BY <1>1, <1>2, PTL

\* A payment of which anything is told names a transaction.
ShownInv == \A r \in Rows : Exists(r) /\ Told(r) => payments[r].onchain # NoTx

LEMMA ShownMoves ==
  ASSUME TypeInv, ShownInv, Moves PROVE ShownInv'
<1> SUFFICES ASSUME NEW r \in Rows, Exists(r)', Told(r)'
             PROVE  payments'[r].onchain # NoTx
  BY DEF ShownInv
<1>1. Exists(r) BY DEF Moves, SamePayments, Exists
<1>2. CASE payments'[r].onchain = payments[r].onchain /\ (Told(r)' => Told(r))
  BY <1>1, <1>2 DEF ShownInv
<1>3. CASE Recorded(r)
  <2>1. PICK c \in Claims : claim[c].row = r /\ (SettleWallet(c) \/ ConfirmBank(c))
    BY <1>3 DEF Recorded
  <2>2. claim[c].pc = "record" /\ payments'[r].onchain = claim[c].tx BY <2>1, RecordShape
  <2>3. claim[c].tx \in DOMAIN txs BY <2>2, WorkingClaim DEF Fits
  <2>4. txs \in Seq(TransactionRow) BY TypeFacts DEF TypeOK
  <2>5. DOMAIN txs = 1 .. Len(txs) BY <2>4
  <2> QED BY <2>2, <2>3, <2>5 DEF NoTx
<1> QED BY <1>1, <1>2, <1>3 DEF Moves

LEMMA ShownBatch ==
  ASSUME TypeInv, RowInv, ShownInv, BatchStep PROVE ShownInv'
<1>1. CASE UNCHANGED <<payments, fiat, claim>> BY <1>1 DEF ShownInv, Exists, Told
<1>2. CASE CreatePayment
  <2> DEFINE r == batch.row
  <2>1. /\ batch.pc = "persist" /\ payments' = [payments EXCEPT ![r] = NewPayment]
        /\ UNCHANGED <<fiat, claim>>
    BY <1>2 DEF CreatePayment
  <2>2. r \in Rows /\ r \in Nat BY TypeFacts, RowsAreNumbers DEF BatchInv, BatchType
  <2>3. ~Exists(r)
    <3>1. r >= r BY <2>2
    <3> QED BY <2>1, <2>2, <3>1, TypeFacts DEF BatchInv, Exists
  <2>4. payments'[r] = NewPayment /\ \A q \in Rows \ {r} : payments'[q] = payments[q]
    BY <2>1, <2>2, TypeFacts
  <2>5. ASSUME NEW q \in Rows, q = r PROVE ~Told(q)'
    <3>1. q \notin fiat' BY <2>1, <2>3, <2>5 DEF RowInv
    <3>2. \A c \in Claims : claim'[c].pc \in After => claim'[c].row # q
      BY <2>1, <2>3, <2>5, TypeFacts DEF Active, After
    <3>3. payments'[q].status = "PENDING" BY <2>4, <2>5 DEF NewPayment
    <3> QED BY <3>1, <3>2, <3>3 DEF Told
  <2>6. ASSUME NEW q \in Rows, q # r
        PROVE  /\ payments'[q] = payments[q]
               /\ (Told(q)' <=> Told(q)) /\ (Exists(q)' <=> Exists(q))
    <3>1. payments'[q] = payments[q] BY <2>4, <2>6
    <3> QED BY <2>1, <3>1 DEF Told, Exists
  <2> HIDE DEF r
  <2> QED BY <2>5, <2>6 DEF ShownInv
<1> QED BY <1>1, <1>2 DEF BatchStep, CreateBatch, SubmitDeposit, AwaitDeposit, RowFails, Notify,
       EmailLink, CountRow, RollUp, BatchDies, spine

LEMMA ShownNext == TypeInv /\ RowInv /\ ShownInv /\ [Next]_vars => ShownInv'
BY ShownBatch, ShownMoves, OtherMoves

LEMMA ShownInit == Init => ShownInv
BY DEF Init, ShownInv, Exists

-----------------------------------------------------------------------------
(* The register of any group of payments: what its rows, its counts, its    *)
(* map, its page and its files say of each other.                           *)

RegisterChild ==
  [amount : Nat, method : Method, status : {"PENDING", "ONCHAIN_CONFIRMED", "SETTLED", "FAILED"},
   banked : BOOLEAN, onchain : Nat, receipt : BOOLEAN]

\* g lists the payments C of S.
Lists(g, C, S) ==
  /\ IsFiniteSet(S) /\ DOMAIN C = S /\ DOMAIN g.rows = S
  /\ \A r \in S :
       /\ C[r] \in RegisterChild
       /\ g.rows[r].amount = C[r].amount /\ g.rows[r].method = C[r].method
       /\ g.rows[r].claimState = ClaimStateOf(C[r].status)
       /\ g.rows[r].destination = Destination(C[r]) /\ g.rows[r].withdrawTx = C[r].onchain
       /\ g.rows[r].receipt = C[r].receipt
  /\ g.claimed = Cardinality(InState(g.rows, "claimed"))
  /\ g.unclaimed = Cardinality(InState(g.rows, "unclaimed"))
  /\ g.failed = Cardinality(InState(g.rows, "failed"))
  /\ g.claimed \in Nat /\ g.unclaimed \in Nat /\ g.failed \in Nat
  /\ g.claimed + g.unclaimed + g.failed = Cardinality(S)

\* Each payment of a list is in the state that its status tells.
LEMMA StatesOf ==
  ASSUME NEW g, NEW C, NEW S, Lists(g, C, S)
  PROVE  /\ InState(g.rows, "claimed") = {r \in S : C[r].status = "SETTLED"}
         /\ InState(g.rows, "failed") = {r \in S : C[r].status = "FAILED"}
         /\ InState(g.rows, "unclaimed") = {r \in S : C[r].status \notin {"SETTLED", "FAILED"}}
<1>1. DOMAIN g.rows = S /\ \A r \in S : g.rows[r].claimState = ClaimStateOf(C[r].status)
  BY DEF Lists
<1> QED BY <1>1 DEF InState, ClaimStateOf

LEMMA GroupLists ==
  ASSUME NEW S, IsFiniteSet(S), NEW C \in [S -> RegisterChild], NEW columns
  PROVE  /\ Lists(GroupOf(columns, C), C, S)
         /\ GroupOf(columns, C).count = columns.count /\ GroupOf(columns, C).total = columns.total
<1> DEFINE g    == GroupOf(columns, C)
           rows == [r \in S |-> RegisterRow(C[r])]
           A    == {r \in S : C[r].status = "SETTLED"}
           F    == {r \in S : C[r].status = "FAILED"}
<1>1. DOMAIN C = S OBVIOUS
<1>2. /\ g.rows = rows /\ g.count = columns.count /\ g.total = columns.total
      /\ g.claimed = Cardinality(InState(rows, "claimed"))
      /\ g.failed = Cardinality(InState(rows, "failed"))
      /\ g.unclaimed = Cardinality(DOMAIN rows) - g.claimed - g.failed
  BY <1>1 DEF GroupOf
<1>3. ASSUME NEW r \in S
      PROVE  /\ C[r] \in RegisterChild
             /\ rows[r].amount = C[r].amount /\ rows[r].method = C[r].method
             /\ rows[r].claimState = ClaimStateOf(C[r].status)
             /\ rows[r].destination = Destination(C[r]) /\ rows[r].withdrawTx = C[r].onchain
             /\ rows[r].receipt = C[r].receipt
  BY DEF RegisterRow
<1>4. DOMAIN rows = S OBVIOUS
<1> HIDE DEF rows
<1>5. /\ InState(rows, "claimed") = A /\ InState(rows, "unclaimed") = (S \ A) \ F
      /\ InState(rows, "failed") = F
  BY <1>3, <1>4 DEF InState, ClaimStateOf
<1>6. A \in SUBSET S /\ F \in SUBSET (S \ A) OBVIOUS
<1> HIDE DEF A, F, g
<1>7. IsFiniteSet(S \ A) BY FS_Difference
<1>8. /\ Cardinality(A) \in Nat /\ Cardinality(S \ A) \in Nat /\ Cardinality(S) \in Nat
      /\ Cardinality(S \ A) = Cardinality(S) - Cardinality(A)
  BY <1>6, CardinalityOfParts
<1>9. /\ Cardinality(F) \in Nat /\ Cardinality((S \ A) \ F) \in Nat
      /\ Cardinality((S \ A) \ F) = Cardinality(S \ A) - Cardinality(F)
  BY <1>6, <1>7, CardinalityOfParts
<1>10. /\ g.failed = Cardinality(F) /\ g.claimed = Cardinality(A)
       /\ g.unclaimed = Cardinality((S \ A) \ F)
  BY <1>2, <1>4, <1>5, <1>8, <1>9
<1>11. Lists(g, C, S)
  <2>1. g.rows = rows /\ DOMAIN g.rows = S BY <1>2, <1>4
  <2>2. /\ g.claimed = Cardinality(InState(g.rows, "claimed"))
        /\ g.unclaimed = Cardinality(InState(g.rows, "unclaimed"))
        /\ g.failed = Cardinality(InState(g.rows, "failed"))
    BY <1>5, <1>10, <2>1
  <2>3. /\ g.claimed \in Nat /\ g.unclaimed \in Nat /\ g.failed \in Nat
        /\ g.claimed + g.unclaimed + g.failed = Cardinality(S)
    BY <1>8, <1>9, <1>10
  <2> QED BY <1>1, <1>3, <2>1, <2>2, <2>3 DEF Lists
<1> QED BY <1>2, <1>11 DEF g

\* Every amount that is added up is the amount of a payment.
LEMMA SumOfRows ==
  ASSUME NEW g, NEW C, NEW S, Lists(g, C, S), NEW R \in SUBSET S
  PROVE  /\ SumAmounts(g.rows, R) = SumFunctionOnSet([r \in S |-> C[r].amount], R)
         /\ IsFiniteSet(R)
<1> DEFINE f == [r \in R |-> g.rows[r].amount]
           h == [r \in S |-> C[r].amount]
<1>1. IsFiniteSet(R) BY FS_Subset DEF Lists
<1>2. DOMAIN f = R /\ \A r \in R : f[r] = h[r] BY DEF Lists
<1>3. SumAmounts(g.rows, R) = SumFunction(f) BY DEF SumAmounts
<1> HIDE DEF f, h
<1>4. SumFunction(f) = SumFunctionOnSet(h, R) BY <1>1, <1>2, SumWhole, SumEqual
<1> QED BY <1>1, <1>3, <1>4 DEF h

\* The group of the map that a payment is in.
Dest(C, r) ==
  IF C[r].status = "FAILED" THEN "FAILED" ELSE IF C[r].status # "SETTLED" THEN "PENDING"
  ELSE IF C[r].method = "bank" THEN "BANK" ELSE "WALLET"

Dests(C, S) == {Dest(C, r) : r \in S}
Into(C, S, type) == {r \in S : Dest(C, r) = type}

LEMMA FlowOf ==
  ASSUME NEW g, NEW C, NEW S, Lists(g, C, S)
  PROVE  /\ DOMAIN FlowGroups(g) = Dests(C, S)
         /\ \A type \in Dests(C, S) :
              /\ DOMAIN FlowGroups(g)[type].leaves = Into(C, S, type)
              /\ \A r \in Into(C, S, type) :
                   FlowGroups(g)[type].leaves[r] = LeafDetail(g.rows[r], type)
              /\ FlowGroups(g)[type].total = SumAmounts(g.rows, Into(C, S, type))
<1>1. \A r \in S : DestTypeOf(g.rows[r]) = Dest(C, r)
  <2> TAKE r \in S
  <2>1. /\ g.rows[r].method = C[r].method
        /\ g.rows[r].claimState = ClaimStateOf(C[r].status)
    BY DEF Lists
  <2> QED BY <2>1 DEF DestTypeOf, Dest, ClaimStateOf
<1>2. DOMAIN g.rows = S BY DEF Lists
<1> DEFINE of(type) == {r \in DOMAIN g.rows : DestTypeOf(g.rows[r]) = type}
           F(type)  == [leaves |-> [r \in of(type) |-> LeafDetail(g.rows[r], type)],
                        total  |-> SumAmounts(g.rows, of(type))]
           K        == {DestTypeOf(g.rows[r]) : r \in DOMAIN g.rows}
<1>3. FlowGroups(g) = [type \in K |-> F(type)] BY DEF FlowGroups
<1>4. K = Dests(C, S) BY <1>1, <1>2 DEF Dests
<1>5. \A type : of(type) = Into(C, S, type) BY <1>1, <1>2 DEF Into
<1>6. \A type : /\ DOMAIN F(type).leaves = of(type)
                /\ \A r \in of(type) : F(type).leaves[r] = LeafDetail(g.rows[r], type)
                /\ F(type).total = SumAmounts(g.rows, of(type))
  OBVIOUS
<1> HIDE DEF K, F, of
<1>7. DOMAIN FlowGroups(g) = K /\ \A type \in K : FlowGroups(g)[type] = F(type) BY <1>3
<1>8. ASSUME NEW type \in Dests(C, S)
      PROVE  /\ DOMAIN FlowGroups(g)[type].leaves = Into(C, S, type)
             /\ \A r \in Into(C, S, type) :
                  FlowGroups(g)[type].leaves[r] = LeafDetail(g.rows[r], type)
             /\ FlowGroups(g)[type].total = SumAmounts(g.rows, Into(C, S, type))
  <2>1. FlowGroups(g)[type] = F(type) BY <1>4, <1>7
  <2>2. \A r \in Into(C, S, type) : r \in of(type) BY <1>5
  <2>3. of(type) = Into(C, S, type) BY <1>5
  <2>4. FlowGroups(g)[type].total = SumAmounts(g.rows, of(type)) BY <1>6, <2>1
  <2> QED BY <1>6, <2>1, <2>2, <2>3, <2>4
<1> QED BY <1>4, <1>7, <1>8

\* What was paid to a wallet, or failed, names its transaction; what was paid to a bank,
\* its reference.
Paid(C, S, U) ==
  /\ \A r \in S : C[r].status \in {"SETTLED", "FAILED"} => C[r].onchain # 0
  /\ \A r \in S \ U : C[r].status = "SETTLED" /\ C[r].method = "bank" => C[r].banked

LEMMA RowsAddUp ==
  ASSUME NEW g, NEW C, NEW S, Lists(g, C, S), Paid(C, S, unsure)
  PROVE  RegisterAddsUp(g)
<1> DEFINE K    == Dests(C, S)
           t    == [r \in S |-> Dest(C, r)]
           f    == [r \in S |-> C[r].amount]
           flow == FlowGroups(g)
           P(k) == {r \in S : t[r] = k}
           h    == [type \in DOMAIN flow |-> flow[type].total]
<1>1. IsFiniteSet(S) /\ \A r \in S : C[r] \in RegisterChild BY DEF Lists
<1>2. \A r \in S : f[r] \in Int /\ t[r] \in K BY <1>1 DEF RegisterChild, Dests
<1>3. K = {t[r] : r \in S} BY DEF Dests
<1>4. IsFiniteSet(K)
  <2> HIDE DEF K, t
  <2> QED BY <1>1, <1>3, ImageIsFinite
<1>5. \A k : P(k) = {r \in S : Dest(C, r) = k} OBVIOUS
<1>6. /\ DOMAIN flow = K
      /\ \A k \in K : /\ DOMAIN flow[k].leaves = P(k)
                      /\ \A r \in P(k) : flow[k].leaves[r] = LeafDetail(g.rows[r], k)
                      /\ flow[k].total = SumAmounts(g.rows, P(k))
  <2> HIDE DEF P, K
  <2>1. DOMAIN flow = K BY FlowOf DEF K
  <2>2. ASSUME NEW k \in K
        PROVE  /\ DOMAIN flow[k].leaves = P(k)
               /\ \A r \in P(k) : flow[k].leaves[r] = LeafDetail(g.rows[r], k)
               /\ flow[k].total = SumAmounts(g.rows, P(k))
    <3>1. k \in Dests(C, S) BY DEF K
    <3>2. /\ DOMAIN flow[k].leaves = Into(C, S, k)
          /\ \A r \in Into(C, S, k) : flow[k].leaves[r] = LeafDetail(g.rows[r], k)
          /\ flow[k].total = SumAmounts(g.rows, Into(C, S, k))
      BY <3>1, FlowOf
    <3>3. P(k) = Into(C, S, k) BY <1>5 DEF Into
    <3> QED BY <3>2, <3>3
  <2> QED BY <2>1, <2>2
<1>7. g.claimed + g.unclaimed + g.failed = TotalsOf(g).disbursements
  <2>1. TotalsOf(g).disbursements = Cardinality(DOMAIN g.rows) BY DEF TotalsOf
  <2> QED BY <2>1 DEF Lists
<1>8. SumFunction(h) = TotalsOf(g).total
  <2> DEFINE q == [k \in K |-> SumFunctionOnSet(f, P(k))]
  <2>1. \A k : P(k) \in SUBSET S OBVIOUS
  <2>2. \A k \in K : h[k] = q[k]
    <3> TAKE k \in K
    <3>1. h[k] = SumAmounts(g.rows, P(k)) BY <1>6
    <3>2. SumAmounts(g.rows, P(k)) = SumFunctionOnSet(f, P(k))
      <4> HIDE DEF P
      <4> QED BY <2>1, SumOfRows
    <3> QED BY <3>1, <3>2
  <2>3. DOMAIN h = K BY <1>6
  <2>4. SumFunctionOnSet(q, K) = SumFunctionOnSet(f, S)
    <3> HIDE DEF f, K, t
    <3> QED BY <1>1, <1>2, <1>4, SumParts
  <2>5. TotalsOf(g).total = SumFunctionOnSet(f, S)
    <3>1. TotalsOf(g).total = SumAmounts(g.rows, S) BY DEF TotalsOf, Lists
    <3> QED BY <3>1, SumOfRows
  <2> HIDE DEF h, q, K
  <2>6. SumFunction(h) = SumFunctionOnSet(h, K) BY <2>3, SumWhole
  <2>7. SumFunctionOnSet(h, K) = SumFunctionOnSet(q, K) BY <1>4, <2>2, SumEqual
  <2> QED BY <2>4, <2>5, <2>6, <2>7
<1>9. ASSUME NEW r \in DOMAIN g.rows
      PROVE  Cardinality({type \in DOMAIN flow : r \in DOMAIN flow[type].leaves}) = 1
  <2>1. r \in S BY DEF Lists
  <2>2. \A k \in K : r \in DOMAIN flow[k].leaves <=> k = t[r]
    <3>1. \A k : r \in P(k) <=> k = t[r] BY <2>1
    <3> HIDE DEF P, K, flow, t
    <3> QED BY <1>6, <3>1
  <2>3. t[r] \in K BY <1>2, <2>1
  <2> HIDE DEF flow, K, t
  <2>4. {type \in DOMAIN flow : r \in DOMAIN flow[type].leaves} = {t[r]} BY <1>6, <2>2, <2>3
  <2> QED BY <2>4, FS_Singleton
<1>10. ASSUME "WALLET" \in DOMAIN flow, NEW r \in DOMAIN flow["WALLET"].leaves
       PROVE  flow["WALLET"].leaves[r] = "tx"
  <2>1. r \in P("WALLET") /\ flow["WALLET"].leaves[r] = LeafDetail(g.rows[r], "WALLET")
    <3> HIDE DEF P, K, flow
    <3> QED BY <1>6, <1>10
  <2>2. r \in S /\ C[r].status = "SETTLED" BY <2>1 DEF Dest
  <2>3. g.rows[r].withdrawTx # 0 BY <2>2 DEF Paid, Lists
  <2> QED BY <2>1, <2>3 DEF LeafDetail
<1>11. ASSUME "BANK" \in DOMAIN flow, NEW r \in DOMAIN flow["BANK"].leaves \ unsure
       PROVE  flow["BANK"].leaves[r] = "bank reference"
  <2>1. r \in P("BANK") /\ flow["BANK"].leaves[r] = LeafDetail(g.rows[r], "BANK")
    <3> HIDE DEF P, K, flow
    <3> QED BY <1>6, <1>11
  <2>2. r \in S \ unsure /\ C[r].status = "SETTLED" /\ C[r].method = "bank" BY <2>1 DEF Dest
  <2>3. g.rows[r].destination = "bank reference" BY <2>2 DEF Paid, Lists, Destination
  <2> QED BY <2>1, <2>3 DEF LeafDetail
<1>12. g.failed = Cardinality(IF "FAILED" \in DOMAIN flow THEN DOMAIN flow["FAILED"].leaves
                                                             ELSE {})
  <2>1. P("FAILED") = {r \in S : C[r].status = "FAILED"} BY DEF Dest
  <2>2. P("FAILED") = InState(g.rows, "failed") BY <2>1, StatesOf
  <2>3. g.failed = Cardinality(P("FAILED")) BY <2>2 DEF Lists
  <2>4. CASE "FAILED" \in K
    <3> HIDE DEF P, K, flow
    <3> QED BY <1>6, <2>3, <2>4
  <2>5. CASE "FAILED" \notin K
    <3>1. \A r \in S : t[r] # "FAILED" BY <1>2, <2>5
    <3>2. P("FAILED") = {} BY <3>1
    <3> HIDE DEF P, K, flow
    <3> QED BY <1>6, <2>3, <2>5, <3>2
  <2> QED BY <2>4, <2>5
<1>13. ASSUME NEW r \in InState(g.rows, "failed") PROVE g.rows[r].withdrawTx # NoTx
  <2>1. r \in S /\ C[r].status = "FAILED" BY <1>13, StatesOf
  <2> QED BY <2>1 DEF Paid, Lists, NoTx
<1> HIDE DEF h
<1>14. SumFunction([type \in DOMAIN flow |-> flow[type].total]) = TotalsOf(g).total
  BY <1>8 DEF h
<1> QED BY <1>7, <1>9, <1>10, <1>11, <1>12, <1>13, <1>14 DEF RegisterAddsUp

LEMMA FilesAgree ==
  ASSUME NEW g, NEW C, NEW S, Lists(g, C, S), g.count = Cardinality(S),
         g.total = SumFunctionOnSet([r \in S |-> C[r].amount], S)
  PROVE  RegisterFilesAgree(g)
<1> DEFINE csv == RegisterDownload(g, "csv")
           pdf == RegisterDownload(g, "pdf")
           A   == {r \in DOMAIN csv.cells : csv.cells[r].claimState = "claimed"}
           F   == {r \in DOMAIN csv.cells : csv.cells[r].claimState = "failed"}
<1>1. /\ csv.cells = [r \in S |-> [c \in RegisterColumns |-> g.rows[r][c]]]
      /\ DOMAIN g.rows = S
  BY DEF RegisterDownload, RegisterCsv, Lists
<1>2. DOMAIN csv.cells = S BY <1>1
<1>3. \A r \in S : /\ csv.cells[r].claimState = g.rows[r].claimState
                   /\ csv.cells[r].amount = g.rows[r].amount
                   /\ csv.cells[r].method = g.rows[r].method
  <2> TAKE r \in S
  <2>1. csv.cells[r] = [c \in RegisterColumns |-> g.rows[r][c]] BY <1>1
  <2> QED BY <2>1 DEF RegisterColumns
<1>4. /\ pdf.rollup.count = g.count /\ pdf.rollup.total = g.total
      /\ pdf.rollup.counts.claimed = g.claimed /\ pdf.rollup.counts.failed = g.failed
      /\ pdf.totals.claimedTotal = SumAmounts(g.rows, InState(g.rows, "claimed"))
      /\ \A r \in S : pdf.disbursements[r].rail = IF g.rows[r].method = "" THEN ""
                        ELSE IF g.rows[r].method = "bank" THEN "bank" ELSE "wallet"
  BY <1>1 DEF RegisterDownload, RegisterDoc, Counts, TotalsOf
<1> HIDE DEF csv, pdf
<1>5. A = InState(g.rows, "claimed") /\ A \in SUBSET S /\ F = InState(g.rows, "failed")
  BY <1>1, <1>2, <1>3 DEF InState
<1> HIDE DEF A, F
<1>6. ASSUME NEW R \in SUBSET S PROVE SumAmounts(csv.cells, R) = SumAmounts(g.rows, R)
  <2>1. \A r \in R : csv.cells[r].amount = g.rows[r].amount BY <1>3
  <2>2. [r \in R |-> csv.cells[r].amount] = [r \in R |-> g.rows[r].amount] BY <2>1
  <2> QED BY <2>2 DEF SumAmounts
<1>7. pdf.rollup.total = SumAmounts(csv.cells, S)
  <2>1. SumAmounts(g.rows, S) = SumFunctionOnSet([r \in S |-> C[r].amount], S) BY SumOfRows
  <2> QED BY <1>4, <1>6, <2>1
<1>8. pdf.totals.claimedTotal = SumAmounts(csv.cells, A) BY <1>4, <1>5, <1>6
<1>9. pdf.rollup.counts.claimed = Cardinality(A) /\ pdf.rollup.counts.failed = Cardinality(F)
  BY <1>4, <1>5 DEF Lists
<1>10. \A r \in A : pdf.disbursements[r].rail = csv.cells[r].method
  <2> TAKE r \in A
  <2>1. r \in S /\ g.rows[r].method \in {"wallet", "bank"}
    BY <1>5 DEF Lists, RegisterChild, Method
  <2> QED BY <1>3, <1>4, <2>1
<1>11. pdf.rollup.count = Cardinality(DOMAIN csv.cells) BY <1>2, <1>4
<1> QED BY <1>2, <1>7, <1>8, <1>9, <1>10, <1>11 DEF RegisterFilesAgree, csv, pdf, A, F

LEMMA PagesAgree ==
  ASSUME NEW g, NEW C, NEW S, Lists(g, C, S), NEW columns
  PROVE  PageAgrees(g, BatchDetail(columns, C))
<1> DEFINE d == BatchDetail(columns, C)
           A == {r \in S : C[r].status = "SETTLED"}
           F == {r \in S : C[r].status = "FAILED"}
           B == {r \in S : C[r].status = "PENDING"}
           X == {r \in S : C[r].status = "ONCHAIN_CONFIRMED"}
           U == {r \in S : C[r].status \notin {"SETTLED", "FAILED"}}
<1>1. IsFiniteSet(S) /\ DOMAIN C = S /\ \A r \in S : C[r] \in RegisterChild BY DEF Lists
<1>2. /\ d.rollup["SETTLED"] = Cardinality(A) /\ d.rollup["PENDING"] = Cardinality(B)
      /\ d.rollup["ONCHAIN_CONFIRMED"] = Cardinality(X) /\ d.rollup["FAILED"] = Cardinality(F)
  BY <1>1 DEF BatchDetail, RollupOf
<1>3. \A r \in S : d.children[r] = BatchChild(C[r]) BY <1>1 DEF BatchDetail
<1>4. /\ A = InState(g.rows, "claimed") /\ F = InState(g.rows, "failed")
      /\ U = InState(g.rows, "unclaimed")
  BY StatesOf
<1>5. X = U \ B
  <2>1. \A r \in S : C[r].status \in {"PENDING", "ONCHAIN_CONFIRMED", "SETTLED", "FAILED"}
    BY <1>1 DEF RegisterChild
  <2> QED BY <2>1
<1>6. B \in SUBSET U /\ U \in SUBSET S OBVIOUS
<1> HIDE DEF A, F, B, X, U, d
<1>7. IsFiniteSet(U) BY <1>1, <1>6, FS_Subset
<1>8. /\ Cardinality(B) \in Nat /\ Cardinality(X) \in Nat /\ Cardinality(U) \in Nat
      /\ Cardinality(X) = Cardinality(U) - Cardinality(B)
  BY <1>5, <1>6, <1>7, CardinalityOfParts
<1>9. d.rollup["SETTLED"] = g.claimed /\ d.rollup["FAILED"] = g.failed
  BY <1>2, <1>4 DEF Lists
<1>10. d.rollup["PENDING"] + d.rollup["ONCHAIN_CONFIRMED"] = g.unclaimed
  <2>1. g.unclaimed = Cardinality(U) BY <1>4 DEF Lists
  <2> QED BY <1>2, <1>8, <2>1
<1>11. ASSUME NEW r \in DOMAIN g.rows
       PROVE  /\ d.children[r].onchainTx = g.rows[r].withdrawTx
              /\ d.children[r].hasBankRef /\ d.children[r].payoutMethod = "bank" <=>
                   g.rows[r].destination = "bank reference"
  <2>1. r \in S /\ C[r] \in RegisterChild BY <1>1 DEF Lists
  <2>2. d.children[r] = BatchChild(C[r]) BY <1>3, <2>1
  <2>3. /\ g.rows[r].withdrawTx = C[r].onchain /\ g.rows[r].destination = Destination(C[r])
    BY <2>1 DEF Lists
  <2>4. C[r].banked \in BOOLEAN /\ C[r].method \in {"wallet", "bank"}
    BY <2>1 DEF RegisterChild, Method
  <2>5. /\ d.children[r].onchainTx = C[r].onchain /\ d.children[r].hasBankRef = C[r].banked
        /\ d.children[r].payoutMethod = C[r].method
    BY <2>2 DEF BatchChild
  <2>6. (C[r].banked /\ C[r].method = "bank") <=> (Destination(C[r]) = "bank reference")
    BY <2>4 DEF Destination
  <2> QED BY <2>3, <2>5, <2>6
<1> QED BY <1>9, <1>10, <1>11 DEF PageAgrees, d

\* The connectors of the map of one batch.
One(g)          == [b \in {"batch"} |-> g]
ToBatch         == <<<<"root">>, <<"batch", "batch">>>>
ToGroup(type)   == <<<<"batch", "batch">>, <<"group", "batch", type>>>>
ToLeaf(type, r) == <<<<"group", "batch", type>>, <<"leaf", "batch", r>>>>

LEMMA Connectors ==
  /\ ToBatch[1] = <<"root">> /\ ToBatch[2] = <<"batch", "batch">> /\ ToBatch[2][1] = "batch"
  /\ \A type : /\ ToGroup(type)[1] = ToBatch[2] /\ ToGroup(type)[2][1] = "group"
               /\ ToGroup(type)[2][3] = type
  /\ \A type, r : /\ ToLeaf(type, r)[1] = ToGroup(type)[2] /\ ToLeaf(type, r)[2][1] = "leaf"
                  /\ ToLeaf(type, r)[2][3] = r
BY DEF ToBatch, ToGroup, ToLeaf

LEMMA EdgesOf ==
  ASSUME NEW g, NEW C, NEW S, Lists(g, C, S)
  PROVE  /\ FlowEdges(One(g), {}) = {ToBatch}
         /\ FlowEdges(One(g), {"batch"}) =
              {ToBatch} \cup {ToGroup(k) : k \in Dests(C, S)} \cup {ToLeaf(Dest(C, r), r) : r \in S}
<1> DEFINE flow == FlowGroups(g)
           K    == Dests(C, S)
<1>1. DOMAIN One(g) = {"batch"} /\ One(g)["batch"] = g BY DEF One
<1>2. DOMAIN flow = K /\ \A k \in K : DOMAIN flow[k].leaves = Into(C, S, k) BY FlowOf
<1>3. FlowEdges(One(g), {}) = {ToBatch} BY <1>1 DEF FlowEdges, ToBatch
<1>4. FlowEdges(One(g), {"batch"}) =
        {ToBatch} \cup {ToGroup(k) : k \in DOMAIN flow}
          \cup (UNION {{ToLeaf(k, r) : r \in DOMAIN flow[k].leaves} : k \in DOMAIN flow})
  <2> DEFINE G(b) == {<<<<"batch", b>>, <<"group", b, type>>>> : type \in DOMAIN FlowGroups(One(g)[b])}
             L(b) == UNION {{<<<<"group", b, type>>, <<"leaf", b, r>>>> :
                               r \in DOMAIN FlowGroups(One(g)[b])[type].leaves} :
                             type \in DOMAIN FlowGroups(One(g)[b])}
             R(b) == <<<<"root">>, <<"batch", b>>>>
             X    == {R(b) : b \in DOMAIN One(g)}
             Y    == UNION {G(b) : b \in DOMAIN One(g) \cap {"batch"}}
             Z    == UNION {L(b) : b \in DOMAIN One(g) \cap {"batch"}}
  <2>1. FlowEdges(One(g), {"batch"}) = X \cup Y \cup Z BY DEF FlowEdges
  <2>2. R("batch") = ToBatch BY DEF ToBatch
  <2>3. G("batch") = {ToGroup(k) : k \in DOMAIN flow} BY <1>1 DEF ToGroup
  <2>4. L("batch") = UNION {{ToLeaf(k, r) : r \in DOMAIN flow[k].leaves} : k \in DOMAIN flow}
    BY <1>1 DEF ToLeaf
  <2>5. DOMAIN One(g) \cap {"batch"} = {"batch"} BY <1>1
  <2> HIDE DEF R, G, L, flow
  <2>6. FlowEdges(One(g), {"batch"}) = {R("batch")} \cup G("batch") \cup L("batch")
    <3>1. X = {R("batch")} /\ Y = G("batch") /\ Z = L("batch") BY <1>1, <2>5
    <3> HIDE DEF X, Y, Z
    <3> QED BY <2>1, <3>1
  <2> QED BY <2>2, <2>3, <2>4, <2>6
<1>5. UNION {{ToLeaf(k, r) : r \in DOMAIN flow[k].leaves} : k \in DOMAIN flow}
        = {ToLeaf(Dest(C, r), r) : r \in S}
  <2> HIDE DEF flow, K
  <2>1. \A k \in K : {ToLeaf(k, r) : r \in DOMAIN flow[k].leaves}
                       = {ToLeaf(Dest(C, r), r) : r \in Into(C, S, k)}
    BY <1>2 DEF Into
  <2>2. \A r \in S : Dest(C, r) \in K /\ r \in Into(C, S, Dest(C, r)) BY DEF K, Dests, Into
  <2>3. \A k \in K : \A r \in Into(C, S, k) : r \in S BY DEF Into
  <2> DEFINE of(k)  == {ToLeaf(k, r) : r \in DOMAIN flow[k].leaves}
             leaf   == [r \in S |-> ToLeaf(Dest(C, r), r)]
  <2>4. \A k \in K : of(k) = {leaf[r] : r \in Into(C, S, k)}
    <3>1. \A k \in K : \A r \in Into(C, S, k) : leaf[r] = ToLeaf(Dest(C, r), r) BY <2>3
    <3> HIDE DEF leaf
    <3> QED BY <2>1, <3>1
  <2>5. {ToLeaf(Dest(C, r), r) : r \in S} = {leaf[r] : r \in S} OBVIOUS
  <2> HIDE DEF of, leaf
  <2>6. UNION {of(k) : k \in K} = {leaf[r] : r \in S}
    <3>1. ASSUME NEW r \in S PROVE leaf[r] \in UNION {of(k) : k \in K}
      <4>1. Dest(C, r) \in K /\ leaf[r] \in of(Dest(C, r)) BY <2>2, <2>4
      <4> QED BY <4>1
    <3>2. ASSUME NEW k \in K, NEW e \in of(k) PROVE e \in {leaf[r] : r \in S}
      BY <2>3, <2>4
    <3> QED BY <3>1, <3>2
  <2> QED BY <1>2, <2>5, <2>6 DEF of
<1> HIDE DEF flow, K
<1> QED BY <1>2, <1>3, <1>4, <1>5 DEF K

\* The cards of the page count the rows of its table, which are those of its batches.
LEMMA CardsOf ==
  ASSUME NEW g, NEW C, NEW S, Lists(g, C, S), NEW x
  PROVE  /\ RegisterPage("ADMIN", One(g), x).cards =
              [disbursements |-> TotalsOf(g).disbursements] @@ Counts(g)
         /\ \A y \in DOMAIN RegisterPage("ADMIN", One(g), x).rows :
              RegisterPage("ADMIN", One(g), x).rows[y].rail = RegisterDoc(g).disbursements[y[2]].rail
<1> DEFINE page == RegisterPage("ADMIN", One(g), x)
           pair == [r \in S |-> <<"batch", r>>]
           rows == {pair[r] : r \in S}
           told(y) == One(g)[y[1]].rows[y[2]].claimState
           full == {y \in {<<b, r>> : b \in DOMAIN One(g),
                                      r \in UNION {DOMAIN One(g)[c].rows : c \in DOMAIN One(g)}} :
                      y[2] \in DOMAIN One(g)[y[1]].rows}
<1>1. DOMAIN One(g) = {"batch"} /\ One(g)["batch"] = g /\ DOMAIN g.rows = S BY DEF One, Lists
<1>2. full = rows
  <2>1. UNION {DOMAIN One(g)[c].rows : c \in DOMAIN One(g)} = S BY <1>1
  <2>2. {<<b, r>> : b \in DOMAIN One(g), r \in S} = rows BY <1>1
  <2>3. \A y \in rows : y[2] \in DOMAIN One(g)[y[1]].rows BY <1>1
  <2> HIDE DEF rows
  <2> QED BY <2>1, <2>2, <2>3
<1>3. /\ page.cards = [disbursements |-> Cardinality(full)]
                        @@ [s \in {"claimed", "unclaimed", "failed"} |->
                              Cardinality({y \in full : told(y) = s})]
      /\ page.rows = [y \in full |-> PageRow(One(g)[y[1]].rows[y[2]])]
  BY DEF RegisterPage
<1>4. \A r, q \in S : pair[r] = pair[q] => r = q OBVIOUS
<1>5. \A r \in S : pair[r][1] = "batch" /\ pair[r][2] = r OBVIOUS
<1>6. \A r \in S : told(pair[r]) = g.rows[r].claimState BY <1>1, <1>5
<1>7. IsFiniteSet(S) BY DEF Lists
<1> HIDE DEF page, pair, full
<1>8. Cardinality(full) = Cardinality(S) BY <1>2, <1>4, <1>7, ImageOneToOne
<1>9. ASSUME NEW s PROVE Cardinality({y \in full : told(y) = s}) = Cardinality(InState(g.rows, s))
  <2> DEFINE T == InState(g.rows, s)
  <2>1. T \in SUBSET S /\ \A r \in S : r \in T <=> g.rows[r].claimState = s BY <1>1 DEF InState
  <2>2. {y \in full : told(y) = s} = {pair[r] : r \in T}
    <3> HIDE DEF T, told
    <3> QED BY <1>2, <1>6, <2>1
  <2> HIDE DEF T
  <2>3. IsFiniteSet(T) BY <1>7, <2>1, FS_Subset
  <2>4. \A r, q \in T : pair[r] = pair[q] => r = q BY <1>4, <2>1
  <2>5. Cardinality({pair[r] : r \in T}) = Cardinality(T) BY <2>3, <2>4, ImageOneToOne
  <2> QED BY <2>2, <2>5 DEF T
<1>10. [s \in {"claimed", "unclaimed", "failed"} |-> Cardinality({y \in full : told(y) = s})]
         = Counts(g)
  <2> DEFINE n(s) == Cardinality({y \in full : told(y) = s})
  <2>1. n("claimed") = g.claimed /\ n("unclaimed") = g.unclaimed /\ n("failed") = g.failed
    BY <1>9 DEF Lists
  <2> HIDE DEF n
  <2>2. [s \in {"claimed", "unclaimed", "failed"} |-> n(s)] = Counts(g) BY <2>1 DEF Counts
  <2> QED BY <2>2 DEF n
<1>11. TotalsOf(g).disbursements = Cardinality(S) BY <1>1 DEF TotalsOf
<1>12. page.cards = [disbursements |-> TotalsOf(g).disbursements] @@ Counts(g)
  BY <1>3, <1>8, <1>10, <1>11
<1>13. ASSUME NEW y \in DOMAIN page.rows
       PROVE  page.rows[y].rail = RegisterDoc(g).disbursements[y[2]].rail
  <2>1. y \in full /\ page.rows[y] = PageRow(One(g)[y[1]].rows[y[2]]) BY <1>3
  <2>2. PICK r \in S : y = pair[r] BY <1>2, <2>1
  <2>3. page.rows[y] = PageRow(g.rows[r]) /\ y[2] = r BY <1>1, <1>5, <2>1, <2>2
  <2>4. RegisterDoc(g).disbursements[r].rail = IF g.rows[r].method = "" THEN ""
          ELSE IF g.rows[r].method = "bank" THEN "bank" ELSE "wallet"
    BY <1>1 DEF RegisterDoc
  <2>5. PageRow(g.rows[r]).rail = IF g.rows[r].method = "" THEN ""
          ELSE IF g.rows[r].method = "bank" THEN "bank" ELSE "wallet"
    BY DEF PageRow
  <2> QED BY <2>3, <2>4, <2>5
<1> QED BY <1>12, <1>13 DEF page

LEMMA PageOfOne ==
  ASSUME NEW g, NEW x
  PROVE  /\ "error" \in DOMAIN RegisterPage("MEMBER", One(g), x)
         /\ RegisterPage("ADMIN", One(g), x).edges = FlowEdges(One(g), x)
         /\ RegisterPage("ADMIN", One(g), x).pills["batch"].dots = DOMAIN FlowGroups(g)
<1>1. "error" \in DOMAIN RegisterPage("MEMBER", One(g), x) BY DEF RegisterPage
<1>2. /\ RegisterPage("ADMIN", One(g), x).edges = FlowEdges(One(g), x)
      /\ RegisterPage("ADMIN", One(g), x).pills = [b \in DOMAIN One(g) |-> BatchPill(One(g)[b])]
  BY DEF RegisterPage
<1>3. RegisterPage("ADMIN", One(g), x).pills["batch"] = BatchPill(g) BY <1>2 DEF One
<1>4. BatchPill(g).dots = DOMAIN FlowGroups(g) BY DEF BatchPill
<1> QED BY <1>1, <1>2, <1>3, <1>4

LEMMA MapAgrees ==
  ASSUME NEW g, NEW C, NEW S, Lists(g, C, S)
  PROVE  RegisterPageAgrees(g)
<1> DEFINE page(x) == RegisterPage("ADMIN", One(g), x)
           opened  == Toggle(Expanded({}), "batch")
           shown   == page(opened)
           leaves  == {e \in shown.edges : e[2][1] = "leaf"}
           K       == Dests(C, S)
           leaf    == [r \in S |-> ToLeaf(Dest(C, r), r)]
<1>1. opened = {"batch"} /\ Toggle(opened, "batch") = {} BY DEF Toggle, Expanded
<1>2. /\ shown.edges = FlowEdges(One(g), {"batch"}) /\ page(Toggle(opened, "batch")).edges = {ToBatch}
      /\ shown.pills["batch"].dots = K
  <2>1. \A x : page(x).edges = FlowEdges(One(g), x) BY PageOfOne
  <2>2. FlowEdges(One(g), {}) = {ToBatch} BY EdgesOf
  <2>3. shown.pills["batch"].dots = DOMAIN FlowGroups(g) BY PageOfOne
  <2>4. DOMAIN FlowGroups(g) = K BY FlowOf
  <2> HIDE DEF page, opened
  <2> QED BY <1>1, <2>1, <2>2, <2>3, <2>4
<1>3. shown.edges = {ToBatch} \cup {ToGroup(k) : k \in K} \cup {leaf[r] : r \in S}
  BY <1>2, EdgesOf
<1>4. \A r \in S : /\ leaf[r][1] = ToGroup(Dest(C, r))[2] /\ leaf[r][2][1] = "leaf"
                   /\ leaf[r][2][3] = r /\ Dest(C, r) \in K
  BY Connectors DEF Dests
<1>5. DOMAIN g.rows = S /\ IsFiniteSet(S) BY DEF Lists
<1> HIDE DEF leaf, K, shown
<1>6. leaves = {leaf[r] : r \in S} BY <1>3, <1>4, Connectors
<1>7. {e[2][3] : e \in leaves} = DOMAIN g.rows BY <1>4, <1>5, <1>6
<1>8. Cardinality(leaves) = Cardinality(DOMAIN g.rows)
  <2>1. \A r, q \in S : leaf[r] = leaf[q] => r = q BY <1>4
  <2> QED BY <1>5, <1>6, <2>1, ImageOneToOne
<1>9. ASSUME NEW e \in shown.edges, e[1] # <<"root">>
      PROVE  \E f \in shown.edges : f[2] = e[1]
  <2>1. CASE e = ToBatch BY <1>9, <2>1, Connectors
  <2>2. ASSUME NEW k \in K, e = ToGroup(k) PROVE \E f \in shown.edges : f[2] = e[1]
    <3>1. ToBatch \in shown.edges /\ ToBatch[2] = e[1] BY <1>3, <2>2, Connectors
    <3> QED BY <3>1
  <2>3. ASSUME NEW r \in S, e = leaf[r] PROVE \E f \in shown.edges : f[2] = e[1]
    <3>1. ToGroup(Dest(C, r)) \in shown.edges /\ ToGroup(Dest(C, r))[2] = e[1]
      BY <1>3, <1>4, <2>3
    <3> QED BY <3>1
  <2> QED BY <1>3, <2>1, <2>2, <2>3
<1>10. {e[2][3] : e \in shown.edges \ (leaves \cup {ToBatch})} = K
  <2>1. shown.edges \ (leaves \cup {ToBatch}) = {ToGroup(k) : k \in K}
    <3>1. \A k \in K : ToGroup(k) # ToBatch /\ ToGroup(k) \notin leaves BY Connectors
    <3> HIDE DEF leaves
    <3> QED BY <1>3, <1>6, <3>1
  <2>2. \A k \in K : ToGroup(k)[2][3] = k BY Connectors
  <2> HIDE DEF leaves
  <2> QED BY <2>1, <2>2
<1>11. "error" \in DOMAIN RegisterPage("MEMBER", One(g), opened) BY PageOfOne
<1>12. /\ shown.cards = [disbursements |-> TotalsOf(g).disbursements] @@ Counts(g)
       /\ \A y \in DOMAIN shown.rows : shown.rows[y].rail = RegisterDoc(g).disbursements[y[2]].rail
  BY CardsOf DEF shown
<1>13. shown.pills["batch"].dots = K BY <1>2
<1>14. page(Toggle(opened, "batch")).edges = {ToBatch} BY <1>2
<1> QED
  BY <1>7, <1>8, <1>9, <1>10, <1>11, <1>12, <1>13, <1>14
  DEF RegisterPageAgrees, One, shown, ToBatch

\* At any time after a batch has answered, whatever its payments have gone through, the
\* register's counts, totals, map, page and files and the batch's own page say the same.
THEOREM RegistersAgree == Spec => []RegisterAgrees
<1>1. TypeInv /\ RowInv /\ CountInv /\ ShownInv => RegisterAgrees
  <2> SUFFICES ASSUME TypeInv, RowInv, CountInv, ShownInv, batch.pc = "done"
               PROVE  /\ RegisterAddsUp(Group) /\ RegisterFilesAgree(Group)
                      /\ RegisterPageAgrees(Group) /\ PageAgrees(Group, Detail)
    BY DEF RegisterAgrees
  <2> DEFINE S == {r \in Rows : Exists(r)}
             C == Children
  <2>1. IsFiniteSet(S)
    <3>1. IsFiniteSet(Rows) BY RowsAreFinite
    <3> QED BY <3>1, FS_Subset
  <2>2. C = [r \in S |-> Child(r)] BY DEF Children
  <2>3. ASSUME NEW r \in S
        PROVE  /\ Child(r) \in RegisterChild /\ Child(r).amount = Amount[r]
               /\ Child(r).status = payments[r].status /\ Child(r).onchain = payments[r].onchain
               /\ Child(r).method = payments[r].method /\ Child(r).banked = (r \in fiat)
    <3>1. payments[r] \in PaymentRow BY PaymentExists, TypeFacts
    <3>2. Amount[r] \in Nat BY RowsAreNumbers
    <3>3. /\ payments[r].method \in Method /\ payments[r].onchain \in Nat
          /\ payments[r].status \in {"PENDING", "ONCHAIN_CONFIRMED", "SETTLED", "FAILED"}
      BY <3>1 DEF PaymentRow
    <3>4. (r \in fiat) \in BOOLEAN /\ (payments[r].receipt # NoReceipt) \in BOOLEAN OBVIOUS
    <3> QED BY <3>2, <3>3, <3>4 DEF Child, RegisterChild
  <2>4. C \in [S -> RegisterChild] BY <2>2, <2>3
  <2>5. /\ stored.count = Cardinality(S) /\ stored.total = SumFunctionOnSet(Amount, S)
    <3>1. S = batch.ok BY DEF CountInv, Pending
    <3> QED BY <3>1 DEF CountInv
  <2>6. SumFunctionOnSet(Amount, S) = SumFunctionOnSet([r \in S |-> C[r].amount], S)
    <3>1. \A r \in S : [q \in S |-> C[q].amount][r] = Amount[r] BY <2>2, <2>3
    <3> HIDE DEF C, S
    <3> QED BY <2>1, <3>1, SumEqual
  <2>7. Paid(C, S, unsure)
    <3>1. \A r \in S : C[r] = Child(r) BY <2>2
    <3>2. \A r \in S : Child(r).status \in {"SETTLED", "FAILED"} => Child(r).onchain # 0
      BY <2>3 DEF ShownInv, Told, NoTx
    <3>3. \A r \in S \ unsure : Child(r).status = "SETTLED" /\ Child(r).method = "bank" =>
            Child(r).banked
      <4> SUFFICES ASSUME NEW r \in S \ unsure, Child(r).status = "SETTLED",
                          Child(r).method = "bank"
                   PROVE  Child(r).banked
        OBVIOUS
      <4>1. r \in Rows \ unsure /\ Exists(r) OBVIOUS
      <4>2. PaymentInv(r) BY <4>1 DEF RowInv
      <4> QED BY <2>3, <4>2 DEF PaymentInv
    <3> HIDE DEF C, S
    <3> QED BY <3>1, <3>2, <3>3 DEF Paid
  <2>8. Group = GroupOf(stored, C) /\ Detail = BatchDetail(stored, C) BY DEF Group, Detail
  <2> HIDE DEF S, C
  <2>9. Lists(Group, C, S) /\ Group.count = stored.count /\ Group.total = stored.total
    BY <2>1, <2>4, <2>8, GroupLists
  <2>10. RegisterAddsUp(Group) BY <2>7, <2>9, RowsAddUp
  <2>11. RegisterFilesAgree(Group) BY <2>5, <2>6, <2>9, FilesAgree
  <2>12. RegisterPageAgrees(Group) BY <2>9, MapAgrees
  <2>13. PageAgrees(Group, Detail) BY <2>8, <2>9, PagesAgree
  <2> QED BY <2>10, <2>11, <2>12, <2>13
<1>2. Spec => [](TypeInv /\ TxInv /\ RowInv)
  BY TypeInit, TypeNext, TxInit, TxNext, RowInit, RowNext, PTL DEF Spec
<1>3. Spec => [](TypeInv /\ CountInv)
  BY TypeInit, TypeNext, CountInit, CountNext, PTL DEF Spec
<1>4. Spec => []ShownInv
  BY <1>2, ShownInit, ShownNext, PTL DEF Spec
<1> QED BY <1>1, <1>2, <1>3, <1>4, PTL
=============================================================================
