--------------------------- MODULE ReportsProofs ---------------------------
(***************************************************************************)
(* The reports and disclosures of Reports, for any number of payments,     *)
(* links, requests and runs of the seed script: every answer is audited,   *)
(* no dead link comes back, the evidence of a settlement survives the      *)
(* seed script, and the documents agree - of any ledger whose rows are as  *)
(* LedgerOK says, which the live rows always are and the seeded ones too.  *)
(***************************************************************************)
EXTENDS ReportsProperties, ReconciliationProofs, NumberLemmas, SequenceTheorems

-----------------------------------------------------------------------------
(* The audit trail: owed counts, for every audit row, the requests that     *)
(* have written it and have not answered yet.                              *)

Covering(x) == {q \in Requests : request[q].pc = "answer" /\ x \in request[q].rows}

AuditInv ==
  /\ DOMAIN request = Requests /\ \A q \in Requests : "pc" \in DOMAIN request[q]
  /\ \A x \in AuditRows : IsFiniteSet(Covering(x)) /\ owed[x] = Cardinality(Covering(x))

\* A step of a request that neither begins nor ends to cover an audit row.
LEMMA CoveringStays ==
  ASSUME AuditInv, NEW q \in Requests, NEW r, "pc" \in DOMAIN r,
         request' = [request EXCEPT ![q] = r], owed' = owed,
         r.pc # "answer", request[q].pc # "answer"
  PROVE  AuditInv'
<1>1. /\ DOMAIN request' = Requests
      /\ \A s \in Requests : request'[s] = IF s = q THEN r ELSE request[s]
  BY DEF AuditInv
<1>2. \A x \in AuditRows : Covering(x)' = Covering(x) BY <1>1 DEF Covering
<1>3. \A s \in Requests : "pc" \in DOMAIN request'[s] BY <1>1 DEF AuditInv
<1> QED BY <1>1, <1>2, <1>3 DEF AuditInv

\* A request that answers, or dies when it might have, is not covering any more.
LEMMA CoveringEnds ==
  ASSUME AuditInv, NEW q \in Requests, request[q].pc = "answer",
         request' = [request EXCEPT ![q] = Quiet], owed' = Without(request[q].rows)
  PROVE  AuditInv'
<1>1. /\ DOMAIN request' = Requests
      /\ \A s \in Requests : request'[s] = IF s = q THEN Quiet ELSE request[s]
  BY DEF AuditInv
<1>2. "pc" \in DOMAIN Quiet /\ Quiet.pc # "answer" BY DEF Quiet
<1>3. ASSUME NEW x \in AuditRows
      PROVE  IsFiniteSet(Covering(x)') /\ owed'[x] = Cardinality(Covering(x)')
  <2>1. IsFiniteSet(Covering(x)) /\ owed[x] = Cardinality(Covering(x))
        /\ Cardinality(Covering(x)) \in Nat
    BY FS_CardinalityType DEF AuditInv
  <2>2. owed'[x] = owed[x] - IF x \in request[q].rows THEN 1 ELSE 0 BY DEF Without
  <2>3. CASE x \in request[q].rows
    <3>1. q \in Covering(x) BY <2>3 DEF Covering
    <3>2. Covering(x)' = Covering(x) \ {q} BY <1>1, <1>2 DEF Covering
    <3>3. /\ IsFiniteSet(Covering(x) \ {q})
          /\ Cardinality(Covering(x) \ {q}) = Cardinality(Covering(x)) - 1
      BY <2>1, <3>1, FS_RemoveElement
    <3> QED BY <2>1, <2>2, <2>3, <3>2, <3>3
  <2>4. CASE x \notin request[q].rows
    <3>1. Covering(x)' = Covering(x) BY <1>1, <1>2, <2>4 DEF Covering
    <3> QED BY <2>1, <2>2, <2>4, <3>1
  <2> QED BY <2>3, <2>4
<1>4. \A s \in Requests : "pc" \in DOMAIN request'[s] BY <1>1, <1>2 DEF AuditInv
<1> QED BY <1>1, <1>3, <1>4 DEF AuditInv

\* A request that writes its audit rows covers its answer with them.
LEMMA CoveringBegins ==
  ASSUME AuditInv, NEW q \in Requests, Audit(q)
  PROVE  AuditInv'
<1> DEFINE r == [request[q] EXCEPT !.pc = "answer"]
<1>1. /\ request[q].pc = "audit" /\ request' = [request EXCEPT ![q] = r]
      /\ owed' = [x \in AuditRows |-> owed[x] + IF x \in request[q].rows THEN 1 ELSE 0]
  BY DEF Audit, Go
<1>2. "pc" \in DOMAIN r /\ r.pc = "answer" /\ r.rows = request[q].rows BY DEF AuditInv
<1>3. /\ DOMAIN request' = Requests
      /\ \A s \in Requests : request'[s] = IF s = q THEN r ELSE request[s]
  BY <1>1 DEF AuditInv
<1> HIDE DEF r
<1>4. ASSUME NEW x \in AuditRows
      PROVE  IsFiniteSet(Covering(x)') /\ owed'[x] = Cardinality(Covering(x)')
  <2>1. IsFiniteSet(Covering(x)) /\ owed[x] = Cardinality(Covering(x))
        /\ Cardinality(Covering(x)) \in Nat
    BY FS_CardinalityType DEF AuditInv
  <2>2. owed'[x] = owed[x] + IF x \in request[q].rows THEN 1 ELSE 0 BY <1>1
  <2>3. q \notin Covering(x) BY <1>1 DEF Covering
  <2>4. CASE x \in request[q].rows
    <3>1. Covering(x)' = Covering(x) \cup {q} BY <1>2, <1>3, <2>4 DEF Covering
    <3>2. /\ IsFiniteSet(Covering(x) \cup {q})
          /\ Cardinality(Covering(x) \cup {q}) = Cardinality(Covering(x)) + 1
      BY <2>1, <2>3, FS_AddElement
    <3> QED BY <2>1, <2>2, <2>4, <3>1, <3>2
  <2>5. CASE x \notin request[q].rows
    <3>1. Covering(x)' = Covering(x) BY <1>1, <1>2, <1>3, <2>5 DEF Covering
    <3> QED BY <2>1, <2>2, <2>5, <3>1
  <2> QED BY <2>4, <2>5
<1>5. \A s \in Requests : "pc" \in DOMAIN request'[s] BY <1>2, <1>3 DEF AuditInv
<1> QED BY <1>3, <1>4, <1>5 DEF AuditInv

LEMMA AuditStep == AuditInv /\ [ReportsNext]_allVars => AuditInv'
<1> SUFFICES ASSUME AuditInv, [ReportsNext]_allVars PROVE AuditInv' OBVIOUS
<1>1. CASE UNCHANGED <<request, owed>> BY <1>1 DEF AuditInv, Covering
<1>2. CASE UNCHANGED allVars BY <1>1, <1>2 DEF allVars, reportVars
<1>3. CASE Next /\ UNCHANGED reportVars BY <1>1, <1>3 DEF reportVars
<1>4. ASSUME NEW p \in Payments, Mint(p) \/ LinkDies(p) PROVE AuditInv'
  BY <1>1, <1>4 DEF Mint, LinkDies
<1>5. CASE SeedStep
  BY <1>1, <1>5 DEF SeedStep, SeedViewKey, SeedPayment, SeedOnchainLeg, SeedFiatLeg, SeedReceipt
<1>6. ASSUME NEW q \in Requests, Start(q) PROVE AuditInv'
  <2>1. PICK r : Begin(q, r) /\ "pc" \in DOMAIN r /\ r.pc # "answer" /\ owed' = owed
    BY <1>6 DEF Start, ReadPayloads, OpenLink
  <2>2. request' = [request EXCEPT ![q] = r] /\ request[q].pc # "answer"
    BY <2>1 DEF Begin, Quiet
  <2> HIDE DEF AuditInv
  <2> QED BY <2>1, <2>2, CoveringStays
<1>7. ASSUME NEW q \in Requests,
             ViewAttest(q) \/ ViewCount(q) \/ VerifyProve(q) \/ LoadViewKey(q)
      PROVE  AuditInv'
  <2>1. request[q].pc # "answer" /\ owed' = owed
    BY <1>7 DEF ViewAttest, ViewCount, VerifyProve, LoadViewKey
  <2>2. \/ Go(q, "count") \/ End(q) \/ \E rows : AuditNext(q, rows)
    BY <1>7 DEF ViewAttest, ViewCount, VerifyProve, LoadViewKey
  <2>3. CASE Go(q, "count")
    <3> DEFINE r == [request[q] EXCEPT !.pc = "count"]
    <3>1. request' = [request EXCEPT ![q] = r] BY <2>3 DEF Go
    <3>2. "pc" \in DOMAIN r /\ r.pc # "answer" BY DEF AuditInv
    <3> HIDE DEF AuditInv, r
    <3> QED BY <2>1, <3>1, <3>2, CoveringStays
  <2>4. CASE End(q)
    <3>1. request' = [request EXCEPT ![q] = Quiet] BY <2>4 DEF End
    <3>2. "pc" \in DOMAIN Quiet /\ Quiet.pc # "answer" BY DEF Quiet
    <3> HIDE DEF AuditInv
    <3> QED BY <2>1, <3>1, <3>2, CoveringStays
  <2>5. ASSUME NEW rows, AuditNext(q, rows) PROVE AuditInv'
    <3> DEFINE r == [pc |-> "audit", rows |-> rows]
    <3>1. request' = [request EXCEPT ![q] = r] BY <2>5 DEF AuditNext
    <3>2. "pc" \in DOMAIN r /\ r.pc # "answer" OBVIOUS
    <3> HIDE DEF AuditInv, r
    <3> QED BY <2>1, <3>1, <3>2, CoveringStays
  <2> QED BY <2>2, <2>3, <2>4, <2>5
<1>8. ASSUME NEW q \in Requests, Answer(q) PROVE AuditInv'
  BY <1>8, CoveringEnds DEF Answer, End
<1>9. ASSUME NEW q \in Requests, RequestFails(q) PROVE AuditInv'
  <2>1. request' = [request EXCEPT ![q] = Quiet] BY <1>9 DEF RequestFails, End
  <2>2. CASE request[q].pc = "answer"
    <3>1. owed' = Without(request[q].rows) BY <1>9, <2>2 DEF RequestFails
    <3> HIDE DEF AuditInv
    <3> QED BY <2>1, <2>2, <3>1, CoveringEnds
  <2>3. CASE request[q].pc # "answer"
    <3>1. owed' = owed BY <1>9, <2>3 DEF RequestFails
    <3>2. "pc" \in DOMAIN Quiet /\ Quiet.pc # "answer" BY DEF Quiet
    <3> HIDE DEF AuditInv
    <3> QED BY <2>1, <2>3, <3>1, <3>2, CoveringStays
  <2> QED BY <2>2, <2>3
<1>10. ASSUME NEW q \in Requests, Audit(q) PROVE AuditInv' BY <1>10, CoveringBegins
<1> QED BY <1>2, <1>3, <1>4, <1>5, <1>6, <1>7, <1>8, <1>9, <1>10 DEF ReportsNext, Continue

\* Whatever a disclosure, a link's view or the decrypt route reveals is covered by an
\* audit row of its own, with any number of requests that overlap and die anywhere.
THEOREM EveryAnswerIsAudited == ReportsSpec => []DisclosuresAudited
<1>1. ReportsInit => AuditInv
  <2> SUFFICES ASSUME ReportsInit PROVE AuditInv OBVIOUS
  <2>1. request = [q \in Requests |-> Quiet] /\ owed = [x \in AuditRows |-> 0] BY DEF ReportsInit
  <2>2. "pc" \in DOMAIN Quiet /\ Quiet.pc # "answer" BY DEF Quiet
  <2>3. \A x \in AuditRows : Covering(x) = {} BY <2>1, <2>2 DEF Covering
  <2> QED BY <2>1, <2>2, <2>3, FS_EmptySet DEF AuditInv
<1>2. AuditInv => DisclosuresAudited
  <2> SUFFICES ASSUME AuditInv, NEW x \in AuditRows PROVE owed[x] >= 0 BY DEF DisclosuresAudited
  <2>1. owed[x] = Cardinality(Covering(x)) /\ Cardinality(Covering(x)) \in Nat
    BY FS_CardinalityType DEF AuditInv
  <2> QED BY <2>1
<1> QED BY <1>1, <1>2, AuditStep, PTL DEF ReportsSpec

-----------------------------------------------------------------------------
(* The links. *)

\* A link's token is one that was handed out, or none.
LinkInv ==
  /\ minted \in Nat /\ DOMAIN link = Payments
  /\ \A p \in Payments : DOMAIN link[p] = {"token", "dead"} /\ link[p].token \in 0..minted

\* What a step does to the links.
LEMMA LinkSteps ==
  ASSUME [ReportsNext]_allVars
  PROVE  \/ UNCHANGED <<link, minted>>
         \/ \E p \in Payments : Mint(p) \/ LinkDies(p)
<1>1. CASE UNCHANGED allVars BY <1>1 DEF allVars, reportVars
<1>2. CASE Next /\ UNCHANGED reportVars BY <1>2 DEF reportVars
<1>3. CASE SeedStep
  BY <1>3 DEF SeedStep, SeedViewKey, SeedPayment, SeedOnchainLeg, SeedFiatLeg, SeedReceipt
<1>4. ASSUME NEW q \in Requests, Start(q) \/ Continue(q) \/ RequestFails(q)
      PROVE  UNCHANGED <<link, minted>>
  BY <1>4 DEF Start, Continue, ReadPayloads, OpenLink, ViewAttest, ViewCount, VerifyProve,
              LoadViewKey, Audit, Answer, RequestFails
<1> QED BY <1>1, <1>2, <1>3, <1>4 DEF ReportsNext

LEMMA LinkStep == LinkInv /\ [ReportsNext]_allVars => LinkInv'
<1> SUFFICES ASSUME LinkInv, [ReportsNext]_allVars PROVE LinkInv' OBVIOUS
<1>1. CASE UNCHANGED <<link, minted>> BY <1>1 DEF LinkInv
<1>2. ASSUME NEW p \in Payments, Mint(p) PROVE LinkInv'
  BY <1>2 DEF Mint, LinkInv, NoLink
<1>3. ASSUME NEW p \in Payments, LinkDies(p) PROVE LinkInv'
  BY <1>3 DEF LinkDies, LinkInv
<1> QED BY <1>1, <1>2, <1>3, LinkSteps

\* A token that is rotated, revoked or expired never opens anything again, for any
\* number of payments, links and requests.
THEOREM DeadLinksNeverOpen == ReportsSpec => DeadLinksStayDead
<1>1. ReportsInit => LinkInv BY DEF ReportsInit, LinkInv, NoLink
<1>2. LinkInv /\ [ReportsNext]_allVars => [\A t \in 1 .. minted : ~Opens(t) => ~Opens(t)']_allVars
  <2> SUFFICES ASSUME LinkInv, [ReportsNext]_allVars, NEW t \in 1 .. minted, ~Opens(t)
               PROVE  ~Opens(t)'
    OBVIOUS
  <2>1. CASE UNCHANGED <<link, minted>> BY <2>1 DEF Opens
  <2>2. ASSUME NEW p \in Payments, Mint(p) PROVE ~Opens(t)'
    <3>1. /\ link'[p].token = minted + 1 /\ t # minted + 1
          /\ \A r \in Payments \ {p} : link'[r] = link[r]
      BY <2>2 DEF Mint, LinkInv, NoLink
    <3> QED BY <3>1 DEF Opens
  <2>3. ASSUME NEW p \in Payments, LinkDies(p) PROVE ~Opens(t)'
    <3>1. /\ link'[p].dead /\ \A r \in Payments \ {p} : link'[r] = link[r]
      BY <2>3 DEF LinkDies, LinkInv
    <3> QED BY <3>1 DEF Opens
  <2> QED BY <2>1, <2>2, <2>3, LinkSteps
<1> QED BY <1>1, <1>2, LinkStep, PTL DEF ReportsSpec, DeadLinksStayDead

-----------------------------------------------------------------------------
(* The evidence of a settlement, with a seed script beside the spine. *)

\* The sample payments are there from the start.
SamplesExist == \A p \in SamplePayments : status[p] # "NONE"

SpineInv == EvidenceInv /\ SamplesExist

\* What a statement of the seed script does to the rows: it writes those of sample
\* payments, and only to PENDING, CONFIRMED, or nothing.
Rewritten == /\ UNCHANGED <<row, queue, creation, hook, watcher, runner, env>>
             /\ TypeOK' /\ SamplesExist'
             /\ \A p \in Payments :
                  /\ status'[p] # status[p] => p \in SamplePayments /\ status'[p] = "PENDING"
                  /\ onchainLeg'[p] # onchainLeg[p] => p \in SamplePayments /\ onchainLeg'[p] = "CONFIRMED"
                  /\ fiatLeg'[p] \in {fiatLeg[p], None} /\ receipt'[p] \in {receipt[p], None}

LEMMA SeedRewrites == ASSUME TypeOK, SamplesExist, SeedStep PROVE Rewritten
<1>1. SamplePayments \subseteq Payments BY EventAssumption
<1> USE <1>1 DEF Rewritten, TypeOK, PaymentStatus, SamplesExist, db, queue, env
<1>2. CASE SeedViewKey BY <1>2 DEF SeedViewKey, vars
<1>3. ASSUME NEW p \in SamplePayments, SeedPayment(p) PROVE Rewritten BY <1>3 DEF SeedPayment
<1>4. ASSUME NEW p \in SamplePayments, SeedOnchainLeg(p) PROVE Rewritten BY <1>4 DEF SeedOnchainLeg
<1>5. ASSUME NEW p \in SamplePayments, SeedFiatLeg(p) PROVE Rewritten BY <1>5 DEF SeedFiatLeg
<1>6. ASSUME NEW p \in SamplePayments, SeedReceipt(p) PROVE Rewritten BY <1>6 DEF SeedReceipt
<1> QED BY <1>2, <1>3, <1>4, <1>5, <1>6 DEF SeedStep

\* A statement of the seed script takes no evidence away, so what the handlers have
\* read before it stays good enough to act on.
LEMMA SeedKeepsEvidence == SpineInv /\ SeedStep => SpineInv'
<1> SUFFICES ASSUME SpineInv, SeedStep PROVE SpineInv' OBVIOUS
<1> USE DEF SpineInv, EvidenceInv
<1>1. Rewritten BY SeedRewrites
<1>2. Grows BY <1>1 DEF Rewritten, Grows, Verified, SamplesExist
<1>3. Creations' BY <1>1 DEF Rewritten, Creations, SamplesExist, queue
<1>4. \A p \in Payments : /\ Evidenced(p) => Evidenced(p)'
                          /\ FailureNotice(p) => FailureNotice(p)'
                          /\ \A e \in Events : FiatEventOf(e, p) => FiatEventOf(e, p)'
  BY <1>2, EvidenceGrows
<1>5. Provenance'
  <2>1. ASSUME NEW p \in Payments, fiatLeg'[p] # None PROVE FiatEventOf(fiatLeg[p], p)'
    BY <1>1, <2>1 DEF Rewritten, Provenance, FiatEventOf, Verified
  <2>2. \A h \in Hooks : hook[h].pc # "idle" => hook[h].evt.payment \in Payments
    BY EventAssumption DEF TypeOK
  <2> QED BY <1>1, <1>2, <2>1, <2>2 DEF Rewritten, Provenance, Grows, Verified
<1>6. Decisions'
  <2>1. \A r \in Runners : runner[r].pc # "idle" => runner[r].payment \in Payments BY DEF TypeOK
  <2> QED BY <1>1, <1>2, <1>4, <2>1 DEF Rewritten, Decisions, Grows
<1>7. SettledOnEvidence' BY <1>1, <1>4 DEF Rewritten, SettledOnEvidence
<1>8. ReceiptOnEvidence'
  <2> SUFFICES ASSUME NEW p \in Payments, receipt'[p] # None
               PROVE  FiatEventOf(receipt[p], p)' /\ Evidenced(p)'
    BY DEF ReceiptOnEvidence
  <2>1. receipt'[p] = receipt[p] BY <1>1 DEF Rewritten
  <2> QED BY <1>1, <1>4, <2>1 DEF ReceiptOnEvidence, Rewritten, FiatEventOf, Verified
<1> QED BY <1>1, <1>3, <1>5, <1>6, <1>7, <1>8 DEF Rewritten

LEMMA SpineStarts == ReportsInit => SpineInv
<1>1. Init => EvidenceInv BY EvidenceInit
<1>2. Init => SamplesExist BY EventAssumption DEF Init, SamplesExist
<1> QED BY <1>1, <1>2 DEF ReportsInit, SpineInv

\* The spine's own steps and the reports' keep it too.
LEMMA SpineSteps == SpineInv /\ [ReportsNext]_allVars => SpineInv'
<1> SUFFICES ASSUME SpineInv, [ReportsNext]_allVars PROVE SpineInv' OBVIOUS
<1>1. ASSUME [Next]_vars PROVE SpineInv'
  <2>1. EvidenceInv' BY <1>1, EvidenceStep DEF SpineInv
  <2>2. Grows BY <1>1, GrowsStep DEF SpineInv, EvidenceInv
  <2>3. SamplesExist' BY <2>2, EventAssumption DEF SpineInv, SamplesExist, Grows
  <2> QED BY <2>1, <2>3 DEF SpineInv
<1>2. ASSUME NEW q \in Requests, Start(q) \/ Continue(q) \/ RequestFails(q) PROVE UNCHANGED vars
  BY <1>2 DEF Start, Continue, ReadPayloads, OpenLink, ViewAttest, ViewCount, VerifyProve,
              LoadViewKey, Audit, Answer, RequestFails
<1>3. ASSUME NEW p \in Payments, Mint(p) \/ LinkDies(p) PROVE UNCHANGED vars
  BY <1>3 DEF Mint, LinkDies
<1>4. CASE UNCHANGED allVars BY <1>1, <1>4 DEF allVars
<1> QED BY <1>1, <1>2, <1>3, <1>4, SeedKeepsEvidence DEF ReportsNext

\* The seed script (prisma/seed.ts) may run at any time, statement by statement, beside
\* the webhooks, the watcher and the runners: a payment is still settled only on
\* evidence, and a receipt still tells of a verified fiat event of its payment.
THEOREM SeedingKeepsEvidence == ReportsSpec => [](SettledOnEvidence /\ ReceiptOnEvidence)
<1>1. SpineInv => SettledOnEvidence /\ ReceiptOnEvidence BY DEF SpineInv, EvidenceInv
<1> QED BY <1>1, SpineStarts, SpineSteps, PTL DEF ReportsSpec

-----------------------------------------------------------------------------
(* The documents of a ledger agree. *)

\* The figures an FX row compares are numbers, whichever of the receipt, the leg and
\* the quote it takes them from.
Figures(r) == r.realized \in Int /\ r.reference \in Int /\ r.gainLoss = r.realized - r.reference

\* A column of an FX summary is the difference of two others.
LEMMA GainsAddUp ==
  ASSUME NEW rows, NEW some, IsFiniteSet(some), \A p \in some : Figures(rows[p])
  PROVE  Total(rows, some, "realized") - Total(rows, some, "reference")
           = Total(rows, some, "gainLoss")
<1> DEFINE f == [p \in some |-> rows[p]["realized"]]
           g == [p \in some |-> rows[p]["reference"]]
           h == [p \in some |-> rows[p]["gainLoss"]]
<1>1. \A p \in some : g[p] \in Int /\ h[p] \in Int /\ f[p] = g[p] + h[p] BY DEF Figures
<1>2. /\ Total(rows, some, "realized") = SumFunctionOnSet(f, some)
      /\ Total(rows, some, "reference") = SumFunctionOnSet(g, some)
      /\ Total(rows, some, "gainLoss") = SumFunctionOnSet(h, some)
  BY DEF Total, SumFunction, SumFunctionOnSet, FoldFunction
<1> HIDE DEF f, g, h
<1>3. SumFunctionOnSet(f, some) = SumFunctionOnSet(g, some) + SumFunctionOnSet(h, some)
  BY <1>1, SumPlus
<1>4. SumFunctionOnSet(g, some) \in Int /\ SumFunctionOnSet(h, some) \in Int BY <1>1, SumInt
<1> QED BY <1>2, <1>3, <1>4

\* What the four documents tell of one payment is read from the same fields.
LEMMA SameOfOne ==
  ASSUME NEW ledger, NEW scope, NEW p,
         p \in HasStatus(scope, "SETTLED"), scope[p] = ledger[p]
  PROVE  SameFigures(ledger, p, Statement(scope), FxSummary(scope))
<1>1. Statement(scope).settled[p] = SettledRow(ledger[p]) BY DEF Statement
<1> DEFINE listed == {FxSummary(scope).rows[q] : q \in {p} \cap DOMAIN FxSummary(scope).rows}
<1>2. /\ listed \subseteq {FxRow(ledger[p])}
      /\ listed # {} => ledger[p].fiat # None
  BY DEF FxSummary
<1>3. /\ Attestation(ledger[p]).txHash = SettledRow(ledger[p]).txHash
      /\ Entry(ledger[p]).txHash = SettledRow(ledger[p]).txHash
      /\ Attestation(ledger[p]).bankRef = SettledRow(ledger[p]).bankRef
      /\ Entry(ledger[p]).bankRef = SettledRow(ledger[p]).bankRef
      /\ Attestation(ledger[p]).receiptId = SettledRow(ledger[p]).receiptId
      /\ Entry(ledger[p]).receiptId = SettledRow(ledger[p]).receiptId
  BY DEF SettledRow, Attestation, Entry
<1>4. /\ Attestation(ledger[p]).sourceAsset = SettledRow(ledger[p]).sourceAsset
      /\ Attestation(ledger[p]).sourceAmount = SettledRow(ledger[p]).sourceAmount
  BY DEF SettledRow, Attestation
<1>5. /\ FxRow(ledger[p]).bankRef = SettledRow(ledger[p]).bankRef
      /\ FxRow(ledger[p]).txHash = SettledRow(ledger[p]).txHash
      /\ FxRow(ledger[p]).sourceAmount = SettledRow(ledger[p]).sourceAmount
  BY DEF SettledRow, FxRow
<1>6. SameReceived(ledger[p], SettledRow(ledger[p]), Attestation(ledger[p]), listed)
  <2>1. /\ SettledRow(ledger[p]).targetAmount = Or(Stored(ledger[p], "targetAmount"), ledger[p].quote)
        /\ Attestation(ledger[p]).targetAmount
             = Or(Stored(ledger[p], "targetAmount"), Or(ledger[p].quote, SettledRow(ledger[p]).sourceAmount))
        /\ ledger[p].fiat # None =>
             FxRow(ledger[p]).realized
               = Or(Stored(ledger[p], "targetAmount"),
                    Or(ledger[p].fiat.amount, Or(ledger[p].quote, 0)))
    BY DEF SettledRow, Attestation, FxRow
  <2> HIDE DEF listed
  <2>2. CASE Stored(ledger[p], "targetAmount") # None BY <1>2, <2>1, <2>2 DEF SameReceived, Or
  <2>3. CASE Stored(ledger[p], "targetAmount") = None
    <3>1. \A y : Or(None, y) = y BY DEF Or
    <3> QED BY <1>2, <2>1, <2>3, <3>1 DEF SameReceived
  <2> QED BY <2>2, <2>3
<1> HIDE DEF listed
<1>7. \A f \in listed : /\ f.bankRef = SettledRow(ledger[p]).bankRef
                        /\ f.txHash = SettledRow(ledger[p]).txHash
                        /\ f.sourceAmount = SettledRow(ledger[p]).sourceAmount
  BY <1>2, <1>5
<1> QED BY <1>1, <1>3, <1>4, <1>6, <1>7 DEF SameFigures, listed

\* The rows of a report, at their payments.
LEMMA RowsOf ==
  ASSUME NEW scope
  PROVE  /\ DOMAIN Statement(scope).settled = HasStatus(scope, "SETTLED")
         /\ DOMAIN FxSummary(scope).rows = {p \in HasStatus(scope, "SETTLED") : scope[p].fiat # None}
         /\ HasStatus(scope, "SETTLED") \subseteq DOMAIN scope
         /\ \A p \in HasStatus(scope, "SETTLED") : Statement(scope).settled[p] = SettledRow(scope[p])
         /\ \A p \in DOMAIN FxSummary(scope).rows : FxSummary(scope).rows[p] = FxRow(scope[p])
BY DEF Statement, FxSummary, HasStatus

\* The aggregates of an FX summary are those of the statement's pairs of currencies.
LEMMA GainsOfPairs ==
  ASSUME NEW scope, IsFiniteSet(DOMAIN scope), \A p \in DOMAIN scope : Figures(FxRow(scope[p])),
         NEW c \in DOMAIN FxSummary(scope).aggregates
  PROVE  LET fx == FxSummary(scope)
             settled == Statement(scope).settled
             pair == {p \in DOMAIN fx.rows : <<settled[p].sourceAsset, settled[p].targetCurrency>> = c}
         IN fx.aggregates[c].gainLoss = Total(fx.rows, pair, "gainLoss")
<1> DEFINE rows == FxSummary(scope).rows
           settled == Statement(scope).settled
           same == {p \in DOMAIN rows : <<rows[p].sourceAsset, rows[p].targetCurrency>> = c}
           pair == {p \in DOMAIN rows : <<settled[p].sourceAsset, settled[p].targetCurrency>> = c}
<1>1. FxSummary(scope).aggregates = Aggregate(rows) BY DEF FxSummary
<1>2. c \in DOMAIN Aggregate(rows) BY <1>1
<1>3. Aggregate(rows)[c].gainLoss = Total(rows, same, "realized") - Total(rows, same, "reference")
  BY <1>2 DEF Aggregate
<1>4. \A p \in DOMAIN rows : /\ rows[p] = FxRow(scope[p]) /\ settled[p] = SettledRow(scope[p])
                             /\ p \in DOMAIN scope
  BY RowsOf
<1>5. \A p \in DOMAIN rows : /\ rows[p].sourceAsset = settled[p].sourceAsset
                             /\ rows[p].targetCurrency = settled[p].targetCurrency
  <2>1. \A r : /\ FxRow(r).sourceAsset = SettledRow(r).sourceAsset
               /\ FxRow(r).targetCurrency = SettledRow(r).targetCurrency
    BY DEF FxRow, SettledRow
  <2> HIDE DEF rows, settled
  <2> QED BY <1>4, <2>1
<1>6. same = pair BY <1>5
<1>7. IsFiniteSet(same)
  <2>1. same \subseteq DOMAIN scope BY <1>4
  <2> QED BY <2>1, FS_Subset
<1>8. \A p \in same : Figures(rows[p]) BY <1>4
<1>9. Total(rows, same, "realized") - Total(rows, same, "reference") = Total(rows, same, "gainLoss")
  BY <1>7, <1>8, GainsAddUp
<1> QED BY <1>1, <1>3, <1>6, <1>9

\* A ledger's documents agree when no unwind has failed (such a payment is listed
\* twice, on purpose) and its figures are numbers.
LEMMA LedgersAgree ==
  ASSUME NEW ledger, IsFiniteSet(DOMAIN ledger),
         \A p \in DOMAIN ledger : ~YieldException(ledger[p]) /\ Figures(FxRow(ledger[p]))
  PROVE  Agree(ledger)
<1> SUFFICES ASSUME NEW range \in Ranges
             PROVE  LET scope == Within(ledger, range)
                        statement == Statement(scope)
                        fx == FxSummary(scope)
                        listed == {x[1] : x \in statement.exceptions}
                        settled == statement.settled
                    IN /\ listed \cap DOMAIN settled = {}
                       /\ listed \cup DOMAIN settled = DOMAIN scope
                       /\ DOMAIN fx.rows \subseteq DOMAIN settled
                       /\ \A p \in DOMAIN settled : SameFigures(ledger, p, statement, fx)
                       /\ \A c \in DOMAIN fx.aggregates :
                            LET pair == {p \in DOMAIN fx.rows :
                                           <<settled[p].sourceAsset, settled[p].targetCurrency>> = c}
                            IN fx.aggregates[c].gainLoss = Total(fx.rows, pair, "gainLoss")
  BY DEF Agree
<1> DEFINE scope == Within(ledger, range)
           listed == {x[1] : x \in Statement(scope).exceptions}
<1>1. /\ DOMAIN scope \subseteq DOMAIN ledger
      /\ \A p \in DOMAIN scope : scope[p] = ledger[p]
  BY DEF Within, Restrict
<1>2. IsFiniteSet(DOMAIN scope) BY <1>1, FS_Subset
<1>3. \A p \in DOMAIN scope : ~YieldException(scope[p]) /\ Figures(FxRow(scope[p])) BY <1>1
<1> HIDE DEF scope
<1>4. listed = DOMAIN scope \ HasStatus(scope, "SETTLED")
  <2>1. Statement(scope).exceptions
          = {<<p, ExceptionReason(scope[p])>> : p \in DOMAIN scope \ HasStatus(scope, "SETTLED")}
            \cup {<<p, {"unwind failed"}>> :
                    p \in {q \in HasStatus(scope, "SETTLED") : YieldException(scope[q])}}
    BY DEF Statement
  <2>2. {q \in HasStatus(scope, "SETTLED") : YieldException(scope[q])} = {} BY <1>3, RowsOf
  <2>3. Statement(scope).exceptions
          = {<<p, ExceptionReason(scope[p])>> : p \in DOMAIN scope \ HasStatus(scope, "SETTLED")}
    BY <2>1, <2>2
  <2> DEFINE open == DOMAIN scope \ HasStatus(scope, "SETTLED")
             pair(p) == <<p, ExceptionReason(scope[p])>>
  <2>4. \A p : pair(p)[1] = p OBVIOUS
  <2>5. Statement(scope).exceptions = {pair(p) : p \in open} BY <2>3
  <2> HIDE DEF open, pair
  <2>6. listed = open BY <2>4, <2>5
  <2> QED BY <2>6 DEF open
<1>5. \A p \in HasStatus(scope, "SETTLED") :
        SameFigures(ledger, p, Statement(scope), FxSummary(scope))
  BY <1>1, SameOfOne, RowsOf
<1> HIDE DEF listed
<1>6. /\ listed \cap DOMAIN Statement(scope).settled = {}
      /\ listed \cup DOMAIN Statement(scope).settled = DOMAIN scope
      /\ DOMAIN FxSummary(scope).rows \subseteq DOMAIN Statement(scope).settled
      /\ \A p \in DOMAIN Statement(scope).settled :
           SameFigures(ledger, p, Statement(scope), FxSummary(scope))
  BY <1>4, <1>5, RowsOf
<1> QED BY <1>2, <1>3, <1>6, GainsOfPairs DEF scope, listed

\* The rows of a payment as they are.
Read(p) == RowOf(p, status[p], onchainLeg[p], fiatLeg[p], receipt[p])

\* The live rows: amounts of fiat events and quotes are numbers.
LEMMA LiveFigures ==
  ASSUME SpineInv, NEW p \in Payments
  PROVE  ~YieldException(Read(p)) /\ Figures(FxRow(Read(p)))
<1> USE DEF SpineInv, EvidenceInv
<1>1. \A e \in Events : FiatEventOf(e, p) => e.amount \in Nat
  BY EventAssumption DEF FiatEventOf, FiatKinds
<1>2. /\ receipt[p] # None => receipt[p].amount \in Nat
      /\ fiatLeg[p] # None => fiatLeg[p].amount \in Nat
  BY <1>1 DEF TypeOK, ReceiptOnEvidence, Provenance
<1> DEFINE r == Read(p)
           leg == IF r.fiat = None THEN None ELSE r.fiat.amount
<1>3. Stored(r, "targetAmount") = None \/ Stored(r, "targetAmount") \in Nat
  BY <1>2 DEF Stored, Read, RowOf
<1>4. leg = None \/ leg \in Nat BY <1>2 DEF Read, RowOf
<1>5. r.quote = None \/ r.quote \in Nat BY EventAssumption DEF Read, RowOf
<1>6. r.position = "none" BY DEF Read, RowOf
<1> HIDE DEF r
<1>7. /\ FxRow(r).realized = Or(Stored(r, "targetAmount"), Or(leg, Or(r.quote, 0)))
      /\ FxRow(r).reference = Or(r.quote, FxRow(r).realized)
      /\ FxRow(r).gainLoss = FxRow(r).realized - FxRow(r).reference
  BY DEF FxRow
<1> HIDE DEF leg
<1>8. FxRow(r).realized \in Nat BY <1>3, <1>4, <1>5, <1>7 DEF Or
<1>9. FxRow(r).reference \in Nat BY <1>5, <1>7, <1>8 DEF Or
<1>10. ~YieldException(r) BY <1>6 DEF YieldException
<1> QED BY <1>7, <1>8, <1>9, <1>10 DEF Figures, r

\* A row as the reports may find one.  A receipt with amounts tells all of them, and
\* a transaction and a reference if there are any.
RowOK(p) ==
  /\ {"status", "fiat", "receipt"} \subseteq DOMAIN p
  /\ p.status \in PAYMENT_STATUSES /\ p.day \in Int
  /\ p.source \in Int /\ Stored(p, "sourceAmount") \in {None, p.source}
  /\ ~YieldException(p) /\ Figures(FxRow(p))
  /\ p.receipt # None => p.receipt.id # None
  /\ p.receipt # None /\ p.receipt.targetAmount # None =>
       /\ p.receipt.sourceAsset # None /\ p.receipt.sourceAmount # None
       /\ p.receipt.targetCurrency # None
       /\ Or(p.receipt.txHash, LegTx(p)) = p.receipt.txHash
       /\ Or(p.receipt.bankRef, LegRef(p)) = p.receipt.bankRef

LedgerOK(ledger) ==
  /\ IsFiniteSet(DOMAIN ledger) /\ None \notin DOMAIN ledger
  /\ \A p \in DOMAIN ledger : RowOK(ledger[p])

-----------------------------------------------------------------------------
(* The files of a period. *)

LEMMA NoneIs == None \notin Int /\ None \notin Currencies
BY NullAssumption

\* What the two downloads of a period hold, by format.
LEMMA DownloadsOf ==
  ASSUME NEW ledger, NEW period,
         DOMAIN period = {"from", "to", "month"},
         NEW scope, scope = Within(ledger, ParseDateRange(period.from, period.to, period.month))
  PROVE  /\ StatementDownload(ledger, With(period, "format", "csv")) = StatementCsv(Statement(scope))
         /\ StatementDownload(ledger, With(period, "format", "pdf")) = StatementDoc(Statement(scope))
         /\ FxDownload(ledger, With(period, "format", "csv")) = FxCsv(FxSummary(scope))
         /\ FxDownload(ledger, With(period, "format", "pdf")) = FxDoc(FxSummary(scope))
<1>1. ASSUME NEW format
      PROVE  /\ With(period, "format", format).from = period.from
             /\ With(period, "format", format).to = period.to
             /\ With(period, "format", format).month = period.month
             /\ With(period, "format", format).format = format
  BY DEF With
<1>2. "csv" # "pdf" OBVIOUS
<1> QED BY <1>1, <1>2 DEF StatementDownload, FxDownload

LEMMA CellValue == \A column, value : Cell(column, value).value = value
BY DEF Cell

\* A cell of the statement holds the field it prints.
LEMMA StatementCells ==
  ASSUME NEW scope
  PROVE  LET s == Statement(scope) csv == StatementCsv(s) IN
         /\ DOMAIN csv.rows = DOMAIN s.settled
         /\ \A p \in DOMAIN s.settled :
              /\ csv.rows[p].sourceAmount.value = s.settled[p].sourceAmount
              /\ csv.rows[p].sourceAsset.value = s.settled[p].sourceAsset
              /\ csv.rows[p].targetAmount.value = s.settled[p].targetAmount
              /\ csv.rows[p].targetCurrency.value = s.settled[p].targetCurrency
<1> DEFINE s == Statement(scope)
<1>1. StatementCsv(s).rows = Table(SettledColumns, s.settled) BY DEF StatementCsv
<1> HIDE DEF s
<1>2. ASSUME NEW p \in DOMAIN s.settled, NEW c \in SettledColumns
      PROVE  Table(SettledColumns, s.settled)[p][c].value = s.settled[p][c]
  BY CellValue DEF Table
<1>3. {"sourceAmount", "sourceAsset", "targetAmount", "targetCurrency"} \subseteq SettledColumns
  BY DEF SettledColumns
<1>4. DOMAIN Table(SettledColumns, s.settled) = DOMAIN s.settled BY DEF Table
<1> QED BY <1>1, <1>2, <1>3, <1>4 DEF s

\* Adding up the cells of a column adds up the column.
LEMMA SumsOfCells ==
  ASSUME NEW rows, NEW settled, NEW value, NEW currency, DOMAIN rows = DOMAIN settled,
         \A p \in DOMAIN settled : /\ rows[p][value].value = settled[p][value]
                                   /\ rows[p][currency].value = settled[p][currency]
  PROVE  ColumnSums(rows, value, currency) = SumByCurrency(settled, currency, value)
<1> DEFINE priced == {p \in DOMAIN settled : settled[p][value] # None}
           of(c) == {p \in priced : settled[p][currency] = c}
           filled == {p \in DOMAIN rows : rows[p][value].value # None}
           oc(c) == {p \in filled : rows[p][currency].value = c}
<1>1. filled = priced OBVIOUS
<1>2. \A c : oc(c) = of(c) OBVIOUS
<1>3. {rows[p][currency].value : p \in filled} = {settled[p][currency] : p \in priced} OBVIOUS
<1>4. ASSUME NEW c PROVE [p \in oc(c) |-> rows[p][value].value] = [p \in of(c) |-> settled[p][value]]
  OBVIOUS
<1>5. SumByCurrency(settled, currency, value) = [c \in {settled[p][currency] : p \in priced} |->
         SumFunction([p \in of(c) |-> settled[p][value]])]
  BY DEF SumByCurrency, Total
<1>6. ColumnSums(rows, value, currency) = [c \in {rows[p][currency].value : p \in filled} |->
         SumFunction([p \in oc(c) |-> rows[p][value].value])]
  BY DEF ColumnSums
<1> HIDE DEF priced, of, filled, oc
<1> QED BY <1>3, <1>4, <1>5, <1>6

\* The months a report may be asked for.
LEMMA PeriodsAre ==
  ASSUME NEW q \in Periods
  PROVE  /\ DOMAIN q = {"from", "to", "month"}
         /\ q.month = Month
         /\ q.from \in Int \cup {None} /\ q.to \in Int \cup {None}
         /\ Month.from \in Int /\ Month.to \in Int
BY DEF Periods, Month

\* The rows of a period are as good as those of the ledger.
LEMMA WithinIs ==
  ASSUME NEW ledger, LedgerOK(ledger), NEW range, NEW scope, scope = Within(ledger, range)
  PROVE  /\ LedgerOK(scope) /\ DOMAIN scope \subseteq DOMAIN ledger
         /\ \A p \in DOMAIN scope : scope[p] = ledger[p]
<1>1. DOMAIN scope \subseteq DOMAIN ledger /\ \A p \in DOMAIN scope : scope[p] = ledger[p]
  BY DEF Within, Restrict
<1>2. IsFiniteSet(DOMAIN scope) BY <1>1, FS_Subset DEF LedgerOK
<1> QED BY <1>1, <1>2 DEF LedgerOK

\* Amounts beside their currencies.
LEMMA MoneyIs ==
  \A amount, currency : /\ amount # None => Money(amount, currency) = <<amount, currency>>
                        /\ amount = None => Money(amount, currency) = <<>>
BY DEF Money

\* Both files of a statement print its rows and sums.
LEMMA StatementFiles ==
  ASSUME NEW scope, LedgerOK(scope), NEW csv, NEW pdf,
         csv = StatementCsv(Statement(scope)), pdf = StatementDoc(Statement(scope))
  PROVE  /\ DOMAIN csv.rows = DOMAIN pdf.rows
         /\ \A p \in DOMAIN csv.rows :
              /\ pdf.rows[p].source = Both(csv.rows[p], "sourceAmount", "sourceAsset")
              /\ pdf.rows[p].target # <<>> =>
                   pdf.rows[p].target = Both(csv.rows[p], "targetAmount", "targetCurrency")
         /\ pdf.totals.sources = ColumnSums(csv.rows, "sourceAmount", "sourceAsset")
         /\ pdf.totals.paidOut = ColumnSums(csv.rows, "targetAmount", "targetCurrency")
<1>1. PICK s : s = Statement(scope) OBVIOUS
<1>2. /\ DOMAIN csv.rows = DOMAIN s.settled
      /\ \A p \in DOMAIN s.settled :
           /\ csv.rows[p].sourceAmount.value = s.settled[p].sourceAmount
           /\ csv.rows[p].sourceAsset.value = s.settled[p].sourceAsset
           /\ csv.rows[p].targetAmount.value = s.settled[p].targetAmount
           /\ csv.rows[p].targetCurrency.value = s.settled[p].targetCurrency
  BY <1>1, StatementCells
<1>3. /\ DOMAIN pdf.rows = DOMAIN s.settled
      /\ \A p \in DOMAIN s.settled :
           /\ pdf.rows[p].source = Money(s.settled[p].sourceAmount, s.settled[p].sourceAsset)
           /\ pdf.rows[p].target = Money(s.settled[p].targetAmount, s.settled[p].targetCurrency)
  BY <1>1 DEF StatementDoc
<1>4. \A p \in DOMAIN s.settled : s.settled[p].sourceAmount # None
  <2>1. DOMAIN s.settled = HasStatus(scope, "SETTLED") /\ HasStatus(scope, "SETTLED") \subseteq DOMAIN scope
    BY <1>1, RowsOf
  <2>2. \A p \in DOMAIN s.settled : s.settled[p] = SettledRow(scope[p]) BY <1>1, <2>1, RowsOf
  <2>3. \A p \in DOMAIN scope : Stored(scope[p], "sourceAmount") \in {None, scope[p].source}
                                /\ scope[p].source \in Int
    BY DEF LedgerOK, RowOK
  <2>4. \A p \in DOMAIN scope : SettledRow(scope[p]).sourceAmount # None
    BY <2>3, NoneIs DEF SettledRow, Or
  <2> QED BY <2>1, <2>2, <2>4
<1>5. /\ pdf.totals.sources = SumByCurrency(s.settled, "sourceAsset", "sourceAmount")
      /\ pdf.totals.paidOut = SumByCurrency(s.settled, "targetCurrency", "targetAmount")
  BY <1>1 DEF StatementDoc, StatementTotals, Statement
<1>6. ColumnSums(csv.rows, "sourceAmount", "sourceAsset")
        = SumByCurrency(s.settled, "sourceAsset", "sourceAmount")
  BY <1>2, SumsOfCells
<1>7. ColumnSums(csv.rows, "targetAmount", "targetCurrency")
        = SumByCurrency(s.settled, "targetCurrency", "targetAmount")
  BY <1>2, SumsOfCells
<1>8. \A p \in DOMAIN s.settled :
        pdf.rows[p].source = Both(csv.rows[p], "sourceAmount", "sourceAsset")
  BY <1>2, <1>3, <1>4, MoneyIs DEF Both
<1>9. \A p \in DOMAIN s.settled :
        pdf.rows[p].target # <<>> =>
          pdf.rows[p].target = Both(csv.rows[p], "targetAmount", "targetCurrency")
  BY <1>2, <1>3, MoneyIs DEF Both
<1> QED BY <1>2, <1>3, <1>5, <1>6, <1>7, <1>8, <1>9

\* A cell of the FX summary holds the number it prints, a loss too.
LEMMA FxCells ==
  ASSUME NEW scope
  PROVE  LET fx == FxSummary(scope) csv == FxCsv(fx) IN
         /\ DOMAIN csv.rows = DOMAIN fx.rows
         /\ \A p \in DOMAIN fx.rows :
              /\ csv.rows[p].sourceAsset.value = fx.rows[p].sourceAsset
              /\ csv.rows[p].targetCurrency.value = fx.rows[p].targetCurrency
              /\ csv.rows[p].realized.value = fx.rows[p].realized
              /\ csv.rows[p].gainLoss.value = fx.rows[p].gainLoss
<1>1. PICK fx : fx = FxSummary(scope) OBVIOUS
<1>2. FxCsv(fx).rows = Table(FxColumns, fx.rows) BY DEF FxCsv
<1>3. ASSUME NEW p \in DOMAIN fx.rows, NEW c \in FxColumns
      PROVE  Table(FxColumns, fx.rows)[p][c].value = fx.rows[p][c]
  BY CellValue DEF Table
<1>4. {"sourceAsset", "targetCurrency", "realized", "gainLoss"} \subseteq FxColumns
  BY DEF FxColumns
<1>5. DOMAIN Table(FxColumns, fx.rows) = DOMAIN fx.rows BY DEF Table
<1> QED BY <1>1, <1>2, <1>3, <1>4, <1>5

\* The FX rows of a ledger compare numbers.
LEMMA FxRowsAre ==
  ASSUME NEW scope, LedgerOK(scope)
  PROVE  /\ DOMAIN FxSummary(scope).rows \subseteq DOMAIN scope
         /\ IsFiniteSet(DOMAIN FxSummary(scope).rows)
         /\ \A p \in DOMAIN FxSummary(scope).rows : Figures(FxSummary(scope).rows[p])
<1>1. DOMAIN FxSummary(scope).rows \subseteq DOMAIN scope BY RowsOf
<1>2. IsFiniteSet(DOMAIN FxSummary(scope).rows) BY <1>1, FS_Subset DEF LedgerOK
<1>3. \A p \in DOMAIN FxSummary(scope).rows : FxSummary(scope).rows[p] = FxRow(scope[p]) BY RowsOf
<1>4. \A p \in DOMAIN scope : Figures(FxRow(scope[p])) BY DEF LedgerOK, RowOK
<1> QED BY <1>1, <1>2, <1>3, <1>4

\* A pair's aggregate gain is the sum of the gains of its rows.
LEMMA GainOfPair ==
  ASSUME NEW scope, LedgerOK(scope), NEW fx, fx = FxSummary(scope), NEW c \in DOMAIN fx.aggregates,
         NEW pair, pair = {p \in DOMAIN fx.rows : <<fx.rows[p].sourceAsset, fx.rows[p].targetCurrency>> = c}
  PROVE  /\ fx.aggregates[c].gainLoss = Total(fx.rows, pair, "gainLoss")
         /\ fx.aggregates[c].gainLoss \in Int
<1>1. fx.aggregates = Aggregate(fx.rows) BY DEF FxSummary
<1>2. fx.aggregates[c].gainLoss = Total(fx.rows, pair, "realized") - Total(fx.rows, pair, "reference")
  BY <1>1 DEF Aggregate
<1>3. IsFiniteSet(pair) /\ \A p \in pair : Figures(fx.rows[p])
  <2>1. pair \subseteq DOMAIN fx.rows OBVIOUS
  <2> QED BY <2>1, FxRowsAre, FS_Subset
<1>4. fx.aggregates[c].gainLoss = Total(fx.rows, pair, "gainLoss") BY <1>2, <1>3, GainsAddUp
<1>5. Total(fx.rows, pair, "gainLoss") \in Int
  <2> DEFINE h == [p \in pair |-> fx.rows[p]["gainLoss"]]
  <2>1. \A p \in pair : h[p] \in Int BY <1>3 DEF Figures
  <2>2. DOMAIN h = pair OBVIOUS
  <2>3. Total(fx.rows, pair, "gainLoss") = SumFunctionOnSet(h, pair) BY <2>2, SumWhole DEF Total
  <2> HIDE DEF h
  <2> QED BY <1>3, <2>1, <2>3, SumInt
<1> QED BY <1>4, <1>5

\* Both files of an FX summary print its rows and gains.
LEMMA FxFiles ==
  ASSUME NEW scope, LedgerOK(scope), NEW csv, NEW pdf,
         csv = FxCsv(FxSummary(scope)), pdf = FxDoc(FxSummary(scope))
  PROVE  /\ \A p \in DOMAIN csv.rows :
              pdf.rows[p].realized = Both(csv.rows[p], "realized", "targetCurrency")
         /\ \A c \in DOMAIN pdf.aggregates :
              LET pair == {p \in DOMAIN csv.rows : c = <<csv.rows[p].sourceAsset.value,
                                                       csv.rows[p].targetCurrency.value>>}
              IN pdf.aggregates[c].gainLoss[1] = SumFunction([p \in pair |-> csv.rows[p].gainLoss.value])
<1>1. PICK fx : fx = FxSummary(scope) OBVIOUS
<1>2. /\ DOMAIN csv.rows = DOMAIN fx.rows
      /\ \A p \in DOMAIN fx.rows :
           /\ csv.rows[p].sourceAsset.value = fx.rows[p].sourceAsset
           /\ csv.rows[p].targetCurrency.value = fx.rows[p].targetCurrency
           /\ csv.rows[p].realized.value = fx.rows[p].realized
           /\ csv.rows[p].gainLoss.value = fx.rows[p].gainLoss
  BY <1>1, FxCells
<1>3. \A p \in DOMAIN fx.rows : fx.rows[p].realized # None BY <1>1, FxRowsAre, NoneIs DEF Figures
<1>4. \A p \in DOMAIN fx.rows :
        pdf.rows[p].realized = Money(fx.rows[p].realized, fx.rows[p].targetCurrency)
  BY <1>1 DEF FxDoc
<1>5. \A p \in DOMAIN fx.rows : pdf.rows[p].realized = Both(csv.rows[p], "realized", "targetCurrency")
  BY <1>2, <1>3, <1>4, MoneyIs DEF Both
<1>6. ASSUME NEW c \in DOMAIN pdf.aggregates
      PROVE  LET pair == {p \in DOMAIN csv.rows : c = <<csv.rows[p].sourceAsset.value,
                                                      csv.rows[p].targetCurrency.value>>}
             IN pdf.aggregates[c].gainLoss[1] = SumFunction([p \in pair |-> csv.rows[p].gainLoss.value])
  <2> DEFINE pair == {p \in DOMAIN csv.rows : c = <<csv.rows[p].sourceAsset.value,
                                                  csv.rows[p].targetCurrency.value>>}
             same == {p \in DOMAIN fx.rows : <<fx.rows[p].sourceAsset, fx.rows[p].targetCurrency>> = c}
  <2>1. c \in DOMAIN fx.aggregates /\ pdf.aggregates[c].gainLoss = Money(fx.aggregates[c].gainLoss, c[2])
    BY <1>1 DEF FxDoc
  <2>2. pair = same BY <1>2
  <2>3. fx.aggregates[c].gainLoss = Total(fx.rows, same, "gainLoss") /\ fx.aggregates[c].gainLoss \in Int
    BY <1>1, <2>1, GainOfPair
  <2>4. pdf.aggregates[c].gainLoss[1] = fx.aggregates[c].gainLoss BY <2>1, <2>3, MoneyIs, NoneIs
  <2>5. [p \in pair |-> csv.rows[p].gainLoss.value] = [p \in same |-> fx.rows[p]["gainLoss"]]
    BY <1>2, <2>2
  <2>6. SumFunction([p \in pair |-> csv.rows[p].gainLoss.value]) = Total(fx.rows, same, "gainLoss")
    BY <2>5 DEF Total
  <2> QED BY <2>3, <2>4, <2>6
<1> QED BY <1>2, <1>5, <1>6

LEMMA FilesDoAgree == ASSUME NEW ledger, LedgerOK(ledger) PROVE FilesAgree(ledger)
<1> SUFFICES ASSUME NEW period \in Periods
             PROVE  LET q(format) == With(period, "format", format)
                        csv   == StatementDownload(ledger, q("csv"))
                        pdf   == StatementDownload(ledger, q("pdf"))
                        fxCsv == FxDownload(ledger, q("csv"))
                        fxPdf == FxDownload(ledger, q("pdf"))
                    IN /\ DOMAIN csv.rows = DOMAIN pdf.rows
                       /\ \A p \in DOMAIN csv.rows :
                            /\ pdf.rows[p].source = Both(csv.rows[p], "sourceAmount", "sourceAsset")
                            /\ pdf.rows[p].target # <<>> =>
                                 pdf.rows[p].target = Both(csv.rows[p], "targetAmount", "targetCurrency")
                       /\ pdf.totals.sources = ColumnSums(csv.rows, "sourceAmount", "sourceAsset")
                       /\ pdf.totals.paidOut = ColumnSums(csv.rows, "targetAmount", "targetCurrency")
                       /\ \A p \in DOMAIN fxCsv.rows :
                            fxPdf.rows[p].realized = Both(fxCsv.rows[p], "realized", "targetCurrency")
                       /\ \A c \in DOMAIN fxPdf.aggregates :
                            LET pair == {p \in DOMAIN fxCsv.rows : c = <<fxCsv.rows[p].sourceAsset.value,
                                                                       fxCsv.rows[p].targetCurrency.value>>}
                            IN fxPdf.aggregates[c].gainLoss[1] =
                                 SumFunction([p \in pair |-> fxCsv.rows[p].gainLoss.value])
  BY DEF FilesAgree
<1>1. PICK scope : scope = Within(ledger, ParseDateRange(period.from, period.to, period.month)) OBVIOUS
<1>2. LedgerOK(scope) BY <1>1, WithinIs
<1>3. DOMAIN period = {"from", "to", "month"} BY PeriodsAre
<1>4. /\ StatementDownload(ledger, With(period, "format", "csv")) = StatementCsv(Statement(scope))
      /\ StatementDownload(ledger, With(period, "format", "pdf")) = StatementDoc(Statement(scope))
      /\ FxDownload(ledger, With(period, "format", "csv")) = FxCsv(FxSummary(scope))
      /\ FxDownload(ledger, With(period, "format", "pdf")) = FxDoc(FxSummary(scope))
  BY <1>1, <1>3, DownloadsOf
<1> QED BY <1>2, <1>4, StatementFiles, FxFiles

-----------------------------------------------------------------------------
(* Attestations, packs and details. *)

\* Signing adds a field to the facts.
LEMMA SignedIs ==
  ASSUME NEW p
  PROVE  LET doc == Signed(Attestation(p)) IN
         /\ DOMAIN doc = SignedFacts \cup {"signature"}
         /\ \A f \in SignedFacts : doc[f] = Attestation(p)[f]
         /\ doc.signature = <<"HMAC-SHA256", Attestation(p)>>
<1>1. DOMAIN Attestation(p) = SignedFacts BY DEF Attestation, SignedFacts
<1>2. Attestation(p) = [f \in SignedFacts |-> Attestation(p)[f]]
  <2>1. ASSUME NEW a, DOMAIN a = SignedFacts, a = [f \in DOMAIN a |-> a[f]]
        PROVE  a = [f \in SignedFacts |-> a[f]]
    BY <2>1
  <2>2. Attestation(p) = [f \in DOMAIN Attestation(p) |-> Attestation(p)[f]] BY DEF Attestation
  <2> QED BY <1>1, <2>1, <2>2
<1>3. Restrict(Attestation(p), SignedFacts) = Attestation(p) BY <1>2 DEF Restrict
<1>4. Sign(Attestation(p)) = <<"HMAC-SHA256", Attestation(p)>> BY <1>3 DEF Sign
<1>5. "signature" \notin SignedFacts BY DEF SignedFacts
<1> QED BY <1>1, <1>4, <1>5 DEF Signed, With

\* A signature is right for the facts it was made of, and for no others.
LEMMA SignatureOf ==
  ASSUME NEW p, NEW doc, DOMAIN doc = SignedFacts \cup {"signature"},
         \A f \in SignedFacts : doc[f] = Attestation(p)[f]
  PROVE  VerifyAttestation(doc) <=> doc.signature = <<"HMAC-SHA256", Attestation(p)>>
<1>1. [f \in SignedFacts |-> doc[f]] = [f \in SignedFacts |-> Attestation(p)[f]] OBVIOUS
<1>2. DOMAIN Attestation(p) = SignedFacts BY DEF Attestation, SignedFacts
<1>3. Attestation(p) = [f \in SignedFacts |-> Attestation(p)[f]]
  <2>1. ASSUME NEW a, DOMAIN a = SignedFacts, a = [f \in DOMAIN a |-> a[f]]
        PROVE  a = [f \in SignedFacts |-> a[f]]
    BY <2>1
  <2>2. Attestation(p) = [f \in DOMAIN Attestation(p) |-> Attestation(p)[f]] BY DEF Attestation
  <2> QED BY <1>2, <2>1, <2>2
<1>4. Restrict(doc, SignedFacts) = Attestation(p) BY <1>1, <1>3 DEF Restrict
<1> QED BY <1>4 DEF VerifyAttestation, Sign

\* What is issued, and for which payments.
LEMMA DownloadIs ==
  ASSUME NEW ledger, LedgerOK(ledger), NEW p \in DOMAIN ledger
  PROVE  /\ ledger[p].status # "SETTLED" =>
              \A format : AttestationDownload(ledger, p, format) = [error |-> 409]
         /\ ledger[p].status = "SETTLED" =>
              /\ AttestationDownload(ledger, p, "json") = Signed(Attestation(ledger[p]))
              /\ AttestationDownload(ledger, p, "pdf")
                   = AttestationDoc(Signed(Attestation(ledger[p])), ledger[p])
<1>1. p # None BY DEF LedgerOK
<1>2. "pdf" # "json" OBVIOUS
<1> QED BY <1>1, <1>2 DEF AttestationDownload

\* An attestation tells what was paid.
LEMMA PaidIs ==
  ASSUME NEW r, RowOK(r)
  PROVE  Attestation(r).sourceAmount # None /\ Attestation(r).sourceAmount = SettledRow(r).sourceAmount
         /\ Attestation(r).sourceAsset = SettledRow(r).sourceAsset
<1>1. Stored(r, "sourceAmount") \in {None, r.source} /\ r.source \in Int BY DEF RowOK
<1>2. Attestation(r).sourceAmount = Or(Stored(r, "sourceAmount"), r.source) BY DEF Attestation
<1>3. SettledRow(r).sourceAmount = Or(Stored(r, "sourceAmount"), r.source) BY DEF SettledRow
<1>4. Attestation(r).sourceAsset = SettledRow(r).sourceAsset BY DEF Attestation, SettledRow
<1> QED BY <1>1, <1>2, <1>3, <1>4, NoneIs DEF Or

LEMMA AttestationsDoVerify ==
  ASSUME NEW ledger, LedgerOK(ledger) PROVE AttestationsVerify(ledger)
<1> DEFINE doc(p) == AttestationDownload(ledger, p, "json")
           issued == {p \in DOMAIN ledger : ledger[p].status = "SETTLED"}
<1>1. \A p \in DOMAIN ledger \ issued : doc(p) = [error |-> 409] BY DownloadIs
<1>2. ASSUME NEW p \in issued
      PROVE  /\ VerifyAttestation(doc(p))
             /\ AttestationDownload(ledger, p, "pdf").paid
                  = <<SettledRow(ledger[p]).sourceAmount, SettledRow(ledger[p]).sourceAsset>>
  <2>1. PICK d : d = Signed(Attestation(ledger[p])) OBVIOUS
  <2>2. doc(p) = d /\ AttestationDownload(ledger, p, "pdf") = AttestationDoc(d, ledger[p])
    BY <2>1, DownloadIs
  <2>3. /\ DOMAIN d = SignedFacts \cup {"signature"}
        /\ \A f \in SignedFacts : d[f] = Attestation(ledger[p])[f]
        /\ d.signature = <<"HMAC-SHA256", Attestation(ledger[p])>>
    BY <2>1, SignedIs
  <2>4. VerifyAttestation(d) BY <2>3, SignatureOf
  <2>5. RowOK(ledger[p]) BY DEF LedgerOK
  <2>6. d.sourceAmount = Attestation(ledger[p]).sourceAmount
        /\ d.sourceAsset = Attestation(ledger[p]).sourceAsset
    BY <2>3 DEF SignedFacts
  <2>7. AttestationDoc(d, ledger[p]).paid = Money(d.sourceAmount, d.sourceAsset) BY DEF AttestationDoc
  <2> QED BY <2>2, <2>4, <2>5, <2>6, <2>7, PaidIs, MoneyIs
<1>3. ASSUME NEW p \in issued, NEW r \in issued, Attestation(ledger[p]) # Attestation(ledger[r])
      PROVE  ~VerifyAttestation([doc(p) EXCEPT !.signature = doc(r).signature])
  <2>1. PICK d, e : d = Signed(Attestation(ledger[p])) /\ e = Signed(Attestation(ledger[r])) OBVIOUS
  <2>2. doc(p) = d /\ doc(r) = e BY <2>1, DownloadIs
  <2>3. /\ DOMAIN d = SignedFacts \cup {"signature"}
        /\ \A f \in SignedFacts : d[f] = Attestation(ledger[p])[f]
        /\ e.signature = <<"HMAC-SHA256", Attestation(ledger[r])>>
    BY <2>1, SignedIs
  <2>4. PICK x : x = [d EXCEPT !.signature = e.signature] OBVIOUS
  <2>5. "signature" \notin SignedFacts BY DEF SignedFacts
  <2>6. /\ DOMAIN x = SignedFacts \cup {"signature"} /\ x.signature = e.signature
        /\ \A f \in SignedFacts : x[f] = Attestation(ledger[p])[f]
    BY <2>3, <2>4, <2>5
  <2>7. VerifyAttestation(x) <=> x.signature = <<"HMAC-SHA256", Attestation(ledger[p])>>
    BY <2>6, SignatureOf
  <2>8. <<"HMAC-SHA256", Attestation(ledger[p])>> # <<"HMAC-SHA256", Attestation(ledger[r])>> BY <1>3
  <2> QED BY <2>2, <2>3, <2>4, <2>6, <2>7, <2>8
<1> QED BY <1>1, <1>2, <1>3 DEF AttestationsVerify

LEMMA PacksDoAgree == ASSUME NEW ledger PROVE PacksAgree(ledger)
<1> SUFFICES ASSUME NEW p \in DOMAIN Statement(ledger).settled
             PROVE  LET pack == Pack(ledger, {}) IN
                    /\ PackDownload(pack, "csv").rows[p].bankRef.value = Statement(ledger).settled[p].bankRef
                    /\ PackDownload(pack, "pdf").settlement[p].txHash = Statement(ledger).settled[p].txHash
  BY DEF PacksAgree
<1>1. PICK pack : pack = Pack(ledger, {}) OBVIOUS
<1>2. p \in DOMAIN ledger /\ Statement(ledger).settled[p] = SettledRow(ledger[p])
  BY RowsOf
<1>3. pack.entries = [q \in DOMAIN ledger |-> Entry(ledger[q])] BY <1>1 DEF Pack
<1>4. PackDownload(pack, "csv") = PackCsv(pack) /\ PackDownload(pack, "pdf") = PackDoc(pack)
  BY DEF PackDownload
<1>5. "bankRef" \in PackColumns BY DEF PackColumns
<1>6. PackCsv(pack).rows[p].bankRef.value = Entry(ledger[p]).bankRef
  BY <1>2, <1>3, <1>5, CellValue DEF PackCsv, Table
<1>7. PackDoc(pack).settlement[p] = Entry(ledger[p]) BY <1>2, <1>3 DEF PackDoc
<1>8. /\ Entry(ledger[p]).bankRef = SettledRow(ledger[p]).bankRef
      /\ Entry(ledger[p]).txHash = SettledRow(ledger[p]).txHash
  BY DEF Entry, SettledRow
<1> QED BY <1>1, <1>2, <1>4, <1>6, <1>7, <1>8

-----------------------------------------------------------------------------
(* The page of a payment. *)

\* Somebody who polls a payment until it is settled sees what a later load shows.
LEMMA PolledIsLoaded ==
  ASSUME NEW r, RowOK(r), r.status = "SETTLED", NEW before,
         before = [r EXCEPT !.status = "RECONCILING", !.fiat = None, !.receipt = None]
  PROVE  Screen(Polled(TriggerPayout(Lifecycle(before)), r)) = Screen(Lifecycle(r))
<1>1. before.status = "RECONCILING" /\ before.fiat = None /\ before.receipt = None BY DEF RowOK
<1>2. Lifecycle(before) = [matched |-> FALSE, polling |-> FALSE, failed |-> FALSE,
                           fiatRef |-> None, receipt |-> None]
  <2>1. "RECONCILING" # "SETTLED" OBVIOUS
  <2> QED BY <1>1, <2>1 DEF Lifecycle, LegRef
<1>3. PICK w : w = TriggerPayout(Lifecycle(before)) OBVIOUS
<1>4. /\ DOMAIN w = {"matched", "polling", "failed", "fiatRef", "receipt"}
      /\ w.matched = FALSE /\ w.polling = TRUE /\ w.failed = FALSE
      /\ w.fiatRef = None /\ w.receipt = None
  <2>1. PICK v : v = Lifecycle(before) OBVIOUS
  <2>2. /\ DOMAIN v = {"matched", "polling", "failed", "fiatRef", "receipt"}
        /\ v.matched = FALSE /\ v.fiatRef = None /\ v.receipt = None
    BY <1>2, <2>1
  <2>3. w = [v EXCEPT !.polling = TRUE, !.failed = FALSE] BY <1>3, <2>1, <2>2 DEF TriggerPayout
  <2> QED BY <2>2, <2>3
<1>6. LET x == Polled(w, r) IN
      /\ x.matched = TRUE /\ x.polling = FALSE /\ x.failed = FALSE
      /\ x.fiatRef = LegRef(r) /\ x.receipt = r.receipt
  <2>1. "SETTLED" # "FAILED" OBVIOUS
  <2>2. PICK seen : seen = [w EXCEPT !.fiatRef = Or(LegRef(r), @)] OBVIOUS
  <2>3. /\ DOMAIN seen = {"matched", "polling", "failed", "fiatRef", "receipt"}
        /\ seen.fiatRef = LegRef(r) /\ seen.receipt = None /\ seen.failed = FALSE
    BY <1>4, <2>2 DEF Or
  <2>4. Polled(w, r) = [seen EXCEPT !.polling = FALSE, !.matched = TRUE, !.receipt = Or(r.receipt, @)]
    BY <1>4, <2>1, <2>2 DEF Polled
  <2> QED BY <2>3, <2>4 DEF Or
<1>5. LET y == Lifecycle(r) IN
      /\ y.matched = TRUE /\ y.polling = FALSE /\ y.failed = FALSE
      /\ y.fiatRef = LegRef(r) /\ y.receipt = r.receipt
  BY DEF Lifecycle
<1> QED BY <1>3, <1>5, <1>6 DEF Screen, LegBadges

LEMMA PaymentPagesDoAgree ==
  ASSUME NEW ledger, LedgerOK(ledger) PROVE PaymentPagesAgree(ledger)
<1> SUFFICES ASSUME NEW p \in DOMAIN ledger
             PROVE  LET page   == PaymentPage(ledger, p)
                        panel  == page.screen.panel
                        before == [ledger[p] EXCEPT !.status = "RECONCILING", !.fiat = None, !.receipt = None]
                        after  == Polled(TriggerPayout(Lifecycle(before)), ledger[p])
                    IN /\ \A format \in {"pdf", "json"} :
                            format \in page.links <=>
                              "error" \notin DOMAIN AttestationDownload(ledger, p, format)
                       /\ "error" \notin DOMAIN panel =>
                            LET doc == AttestationDownload(ledger, p, "pdf") IN
                            /\ panel.paid = doc.paid /\ panel.received = doc.received
                            /\ panel.txHash = doc.proof.txHash /\ panel.bankRef = doc.bankRef
                       /\ panel = Locked => ledger[p].status # "SETTLED" \/ ReceiptApi(ledger, p) = NotFound
                       /\ ledger[p].status = "SETTLED" => Screen(after) = page.screen
  BY DEF PaymentPagesAgree
<1>1. PICK r : r = ledger[p] OBVIOUS
<1>2. RowOK(r) BY <1>1 DEF LedgerOK
<1>3. PICK page : page = PaymentPage(ledger, p) OBVIOUS
<1>4. page.screen = Screen(Lifecycle(r))
      /\ page.links = IF r.status = "SETTLED" THEN {"pdf", "json", "share"} ELSE {}
  BY <1>1, <1>3 DEF PaymentPage
<1>5. PICK doc : doc = Signed(Attestation(r)) OBVIOUS
<1>6. /\ DOMAIN doc = SignedFacts \cup {"signature"}
      /\ \A f \in SignedFacts : doc[f] = Attestation(r)[f]
  BY <1>5, SignedIs
<1>7. r.status = "SETTLED" => /\ AttestationDownload(ledger, p, "json") = doc
                              /\ AttestationDownload(ledger, p, "pdf") = AttestationDoc(doc, r)
  BY <1>1, <1>5, DownloadIs
<1>8. r.status # "SETTLED" => \A format : AttestationDownload(ledger, p, format) = [error |-> 409]
  BY <1>1, DownloadIs
<1>9. "error" \notin DOMAIN doc BY <1>6 DEF SignedFacts
<1>10. "error" \notin DOMAIN AttestationDoc(doc, r) BY DEF AttestationDoc
<1>11. \A format \in {"pdf", "json"} :
         format \in page.links <=> "error" \notin DOMAIN AttestationDownload(ledger, p, format)
  BY <1>4, <1>7, <1>8, <1>9, <1>10
<1>12. page.screen.panel = IF r.status = "SETTLED" /\ r.receipt # None THEN ReceiptPanel(r.receipt) ELSE Locked
  <2>1. PICK v : v = Lifecycle(r) OBVIOUS
  <2>2. (v.matched <=> r.status = "SETTLED") /\ v.receipt = r.receipt BY <2>1 DEF Lifecycle
  <2>3. Screen(v).panel = IF v.matched /\ v.receipt # None THEN ReceiptPanel(v.receipt) ELSE Locked
    BY DEF Screen
  <2> QED BY <1>4, <2>1, <2>2, <2>3
<1>13. ASSUME "error" \notin DOMAIN page.screen.panel
       PROVE  LET panel == page.screen.panel
                  pdf == AttestationDownload(ledger, p, "pdf") IN
              /\ panel.paid = pdf.paid /\ panel.received = pdf.received
              /\ panel.txHash = pdf.proof.txHash /\ panel.bankRef = pdf.bankRef
  <2>1. "error" \in DOMAIN Locked BY DEF Locked
  <2>2. r.status = "SETTLED" /\ r.receipt # None /\ page.screen.panel = ReceiptPanel(r.receipt)
    BY <1>12, <1>13, <2>1
  <2>3. r.receipt.targetAmount # None BY <1>13, <2>2 DEF ReceiptPanel
  <2>4. PICK x : x = r.receipt OBVIOUS
  <2>5. LET panel == page.screen.panel IN
        /\ panel.received = Money(x.targetAmount, x.targetCurrency)
        /\ panel.paid = Money(x.sourceAmount, x.sourceAsset)
        /\ panel.txHash = x.txHash /\ panel.bankRef = x.bankRef
    BY <2>2, <2>3, <2>4 DEF ReceiptPanel
  <2>6. /\ x.sourceAsset # None /\ x.sourceAmount # None /\ x.targetCurrency # None
        /\ Or(x.txHash, LegTx(r)) = x.txHash /\ Or(x.bankRef, LegRef(r)) = x.bankRef
    BY <1>2, <2>2, <2>3, <2>4 DEF RowOK
  <2>7. \A f : Stored(r, f) = x[f] BY <2>2, <2>4 DEF Stored
  <2>8. LET a == Attestation(r) IN
        /\ a.sourceAsset = x.sourceAsset /\ a.sourceAmount = x.sourceAmount
        /\ a.targetCurrency = x.targetCurrency /\ a.targetAmount = x.targetAmount
        /\ a.txHash = x.txHash /\ a.bankRef = x.bankRef
    <3>1. \A y, z : y # None => Or(y, z) = y BY DEF Or
    <3>2. x.targetAmount # None BY <2>3, <2>4
    <3> QED BY <2>6, <2>7, <3>1, <3>2 DEF Attestation
  <2>9. /\ doc.sourceAsset = x.sourceAsset /\ doc.sourceAmount = x.sourceAmount
        /\ doc.targetCurrency = x.targetCurrency /\ doc.targetAmount = x.targetAmount
        /\ doc.txHash = x.txHash /\ doc.bankRef = x.bankRef
    BY <1>6, <2>8 DEF SignedFacts
  <2>10. LET pdf == AttestationDownload(ledger, p, "pdf") IN
         /\ pdf.paid = Money(doc.sourceAmount, doc.sourceAsset)
         /\ pdf.received = Money(doc.targetAmount, doc.targetCurrency)
         /\ pdf.proof.txHash = doc.txHash /\ pdf.bankRef = doc.bankRef
    BY <1>7, <2>2 DEF AttestationDoc
  <2> QED BY <2>5, <2>9, <2>10
<1>14. page.screen.panel = Locked => r.status # "SETTLED" \/ ReceiptApi(ledger, p) = NotFound
  <2>1. SUFFICES ASSUME page.screen.panel = Locked, r.status = "SETTLED", r.receipt # None PROVE FALSE
    BY <1>1 DEF ReceiptApi
  <2>2. ReceiptPanel(r.receipt) = Locked BY <1>12, <2>1
  <2>3. Locked.error = "locked" /\ DOMAIN Locked = {"error"} BY DEF Locked
  <2>4. CASE r.receipt.targetAmount = None
    <3>1. ReceiptPanel(r.receipt).error = "throws" BY <2>4 DEF ReceiptPanel
    <3> QED BY <2>2, <2>3, <3>1
  <2>5. CASE r.receipt.targetAmount # None
    <3>1. "paid" \in DOMAIN ReceiptPanel(r.receipt) BY <2>5 DEF ReceiptPanel
    <3> QED BY <2>2, <2>3, <3>1
  <2> QED BY <2>4, <2>5
<1>15. r.status = "SETTLED" =>
         LET before == [r EXCEPT !.status = "RECONCILING", !.fiat = None, !.receipt = None]
         IN  Screen(Polled(TriggerPayout(Lifecycle(before)), r)) = page.screen
  BY <1>2, <1>4, PolledIsLoaded
<1> QED BY <1>1, <1>3, <1>11, <1>13, <1>14, <1>15

-----------------------------------------------------------------------------
(* Details and dashboard. *)

\* The sum of the sums of all currencies.
LEMMA SumOfSums ==
  ASSUME NEW rows, IsFiniteSet(DOMAIN rows), NEW value, NEW currency,
         \A p \in DOMAIN rows : rows[p][value] \in Int
  PROVE  SumFunction(SumByCurrency(rows, currency, value)) = Total(rows, DOMAIN rows, value)
<1> DEFINE D == DOMAIN rows
           f == [p \in D |-> rows[p][value]]
           t == [p \in D |-> rows[p][currency]]
           K == {t[p] : p \in D}
           part(k) == {p \in D : t[p] = k}
           g == [k \in K |-> SumFunctionOnSet(f, part(k))]
           h == SumByCurrency(rows, currency, value)
<1>1. {p \in D : rows[p][value] # None} = D BY NoneIs
<1>2. h = [c \in {rows[p][currency] : p \in D} |-> Total(rows, {p \in D : rows[p][currency] = c}, value)]
  BY <1>1 DEF SumByCurrency
<1>3. K = {rows[p][currency] : p \in D} OBVIOUS
<1>4. IsFiniteSet(K) BY ImageIsFinite
<1>5. \A p \in D : f[p] \in Int OBVIOUS
<1>6. ASSUME NEW k \in K PROVE h[k] = g[k]
  <2>1. part(k) = {p \in D : rows[p][currency] = k} OBVIOUS
  <2>2. IsFiniteSet(part(k)) BY FS_Subset
  <2> DEFINE e == [p \in part(k) |-> rows[p][value]]
  <2>3. Total(rows, part(k), value) = SumFunctionOnSet(e, part(k)) BY SumWhole DEF Total
  <2>4. \A p \in part(k) : e[p] = f[p] OBVIOUS
  <2> HIDE DEF e, f
  <2>5. SumFunctionOnSet(e, part(k)) = SumFunctionOnSet(f, part(k)) BY <2>2, <2>4, SumEqual
  <2>6. h[k] = Total(rows, part(k), value) BY <1>2, <1>3, <2>1
  <2>7. g[k] = SumFunctionOnSet(f, part(k)) OBVIOUS
  <2> QED BY <2>3, <2>5, <2>6, <2>7
<1>7. DOMAIN h = K BY <1>2, <1>3
<1>8. Total(rows, D, value) = SumFunctionOnSet(f, D) BY SumWhole DEF Total
<1> HIDE DEF h, K
<1>9. SumFunctionOnSet(h, K) = SumFunctionOnSet(g, K)
  <2> HIDE DEF g
  <2> QED BY <1>4, <1>6, SumEqual
<1>10. SumFunctionOnSet(g, K) = SumFunctionOnSet(f, D)
  <2>1. \A p \in D : t[p] \in K BY DEF K
  <2> HIDE DEF f, t
  <2> QED BY <1>4, <1>5, <2>1, SumParts
<1> QED BY <1>7, <1>8, <1>9, <1>10, SumWhole DEF h

\* The volume is what the sums per currency of the statement add up to.
LEMMA VolumeIs ==
  ASSUME NEW ledger, LedgerOK(ledger)
  PROVE  DashboardKpis(ledger).volume = SumFunction(Statement(ledger).sources)
<1>1. PICK rows : rows = [p \in HasStatus(ledger, "SETTLED") |-> SettledRow(ledger[p])] OBVIOUS
<1>2. Statement(ledger).sources = SumByCurrency(rows, "sourceAsset", "sourceAmount")
  BY <1>1 DEF Statement
<1>3. ASSUME NEW p \in DOMAIN rows
      PROVE  rows[p].sourceAmount = ledger[p].source /\ ledger[p].source \in Int
  <2>1. p \in DOMAIN ledger /\ rows[p] = SettledRow(ledger[p]) BY <1>1, RowsOf
  <2>2. /\ Stored(ledger[p], "sourceAmount") \in {None, ledger[p].source}
        /\ ledger[p].source \in Int
    BY <2>1 DEF LedgerOK, RowOK
  <2> QED BY <2>1, <2>2, NoneIs DEF SettledRow, Or
<1>4. IsFiniteSet(DOMAIN rows)
  <2>1. DOMAIN rows \subseteq DOMAIN ledger BY <1>1, RowsOf
  <2> QED BY <2>1, FS_Subset DEF LedgerOK
<1>5. SumFunction(SumByCurrency(rows, "sourceAsset", "sourceAmount"))
        = Total(rows, DOMAIN rows, "sourceAmount")
  BY <1>3, <1>4, SumOfSums
<1>6. Total(rows, DOMAIN rows, "sourceAmount")
        = SumFunction([p \in HasStatus(ledger, "SETTLED") |-> ledger[p].source])
  <2>1. DOMAIN rows = HasStatus(ledger, "SETTLED") BY <1>1
  <2>2. [p \in DOMAIN rows |-> rows[p].sourceAmount]
          = [p \in HasStatus(ledger, "SETTLED") |-> ledger[p].source]
    BY <1>3, <2>1
  <2> QED BY <2>2 DEF Total
<1> QED BY <1>2, <1>5, <1>6 DEF DashboardKpis

\* The badges of the payments that are under way.
LEMMA PendingIs ==
  ASSUME NEW ledger, LedgerOK(ledger)
  PROVE  DashboardKpis(ledger).pending + Cardinality(HasStatus(ledger, "DRAFT")) =
           Cardinality(UNION {{p \in DOMAIN ledger : ToBadgeState(ledger[p].status) = b} :
                                b \in {"PENDING", "VERIFIED", "RECONCILING"}})
<1> DEFINE waiting == UNION {HasStatus(ledger, s) : s \in {"PENDING", "RECONCILING", "ONCHAIN_CONFIRMED"}}
           drafts == HasStatus(ledger, "DRAFT")
           shown == UNION {{p \in DOMAIN ledger : ToBadgeState(ledger[p].status) = b} :
                             b \in {"PENDING", "VERIFIED", "RECONCILING"}}
<1>1. \A p \in DOMAIN ledger : ledger[p].status \in PAYMENT_STATUSES BY DEF LedgerOK, RowOK
<1>2. \A p : p \in waiting <=> /\ p \in DOMAIN ledger
                               /\ ledger[p].status \in {"PENDING", "RECONCILING", "ONCHAIN_CONFIRMED"}
  BY DEF HasStatus
<1>3. \A p : p \in drafts <=> p \in DOMAIN ledger /\ ledger[p].status = "DRAFT" BY DEF HasStatus
<1>4. \A p : p \in shown <=>
        /\ p \in DOMAIN ledger
        /\ ToBadgeState(ledger[p].status) \in {"PENDING", "VERIFIED", "RECONCILING"}
  OBVIOUS
<1>5. \A s \in PAYMENT_STATUSES :
        ToBadgeState(s) \in {"PENDING", "VERIFIED", "RECONCILING"} <=>
          s \in {"DRAFT", "PENDING", "RECONCILING", "ONCHAIN_CONFIRMED"}
  BY DEF PAYMENT_STATUSES, ToBadgeState
<1>6. DashboardKpis(ledger).pending = Cardinality(waiting) BY DEF DashboardKpis
<1> HIDE DEF waiting, drafts, shown
<1>7. shown = waiting \cup drafts /\ waiting \cap drafts = {}
  BY <1>1, <1>2, <1>3, <1>4, <1>5
<1>8. IsFiniteSet(waiting) /\ IsFiniteSet(drafts)
  <2>1. waiting \subseteq DOMAIN ledger /\ drafts \subseteq DOMAIN ledger BY <1>2, <1>3
  <2> QED BY <2>1, FS_Subset DEF LedgerOK
<1>9. Cardinality(waiting \cup drafts) = Cardinality(waiting) + Cardinality(drafts)
  <2>1. Cardinality({}) = 0 BY FS_EmptySet
  <2>2. Cardinality(waiting) \in Nat /\ Cardinality(drafts) \in Nat BY <1>8, FS_CardinalityType
  <2>3. Cardinality(waiting \cup drafts)
          = Cardinality(waiting) + Cardinality(drafts) - Cardinality(waiting \cap drafts)
    BY <1>8, FS_Union
  <2>4. Cardinality(waiting \cap drafts) = 0 BY <1>7, <2>1
  <2> QED BY <2>2, <2>3, <2>4
<1> QED BY <1>6, <1>7, <1>9 DEF shown, drafts

LEMMA ViewsDoAgree ==
  ASSUME NEW ledger, LedgerOK(ledger) PROVE ViewsAgree(ledger)
<1> DEFINE badge(b) == {p \in DOMAIN ledger : ToBadgeState(ledger[p].status) = b}
<1>1. DashboardKpis(ledger).volume = SumFunction(Statement(ledger).sources) BY VolumeIs
<1>2. \A p \in DOMAIN ledger : ToBadgeState(ledger[p].status) = "SETTLED" <=> ledger[p].status = "SETTLED"
  <2>1. \A p \in DOMAIN ledger : ledger[p].status \in PAYMENT_STATUSES BY DEF LedgerOK, RowOK
  <2>2. \A s \in PAYMENT_STATUSES : ToBadgeState(s) = "SETTLED" <=> s = "SETTLED"
    BY DEF PAYMENT_STATUSES, ToBadgeState
  <2> QED BY <2>1, <2>2
<1>3. badge("SETTLED") = DOMAIN Statement(ledger).settled BY <1>2, RowsOf DEF HasStatus
<1>4. DashboardKpis(ledger).pending + Cardinality(HasStatus(ledger, "DRAFT")) =
        Cardinality(UNION {badge(b) : b \in {"PENDING", "VERIFIED", "RECONCILING"}})
  BY PendingIs
<1>5. ASSUME NEW p \in DOMAIN ledger
      PROVE  /\ GetPaymentById(ledger, p).hasReceipt <=> Entry(ledger[p]).receiptId # None
             /\ Summary(ledger[p]).settled <=> p \in DOMAIN Statement(ledger).settled
  <2>1. GetPaymentById(ledger, p) = With(PaymentDetail(ledger[p]), "receipt", ledger[p].receipt)
    BY DEF GetPaymentById
  <2>2. "hasReceipt" \in DOMAIN PaymentDetail(ledger[p])
        /\ (PaymentDetail(ledger[p]).hasReceipt <=> ledger[p].receipt # None)
    BY DEF PaymentDetail
  <2>3. GetPaymentById(ledger, p).hasReceipt = PaymentDetail(ledger[p]).hasReceipt
    <3>1. "hasReceipt" # "receipt" OBVIOUS
    <3> QED BY <2>1, <2>2, <3>1 DEF With
  <2>4. Entry(ledger[p]).receiptId # None <=> ledger[p].receipt # None
    <3>1. RowOK(ledger[p]) BY DEF LedgerOK
    <3> QED BY <3>1 DEF Entry, Stored, RowOK
  <2>5. Summary(ledger[p]).settled <=> ledger[p].status = "SETTLED" BY DEF Summary
  <2> QED BY <2>2, <2>3, <2>4, <2>5, RowsOf DEF HasStatus
<1> QED BY <1>1, <1>3, <1>4, <1>5 DEF ViewsAgree

-----------------------------------------------------------------------------
(* The rows of a findMany: each of those wanted once, the newest first. *)

\* There is a latest one of some rows.
LEMMA LatestIs ==
  ASSUME NEW ledger, NEW S, IsFiniteSet(S), S # {}, \A p \in S : ledger[p].day \in Int
  PROVE  Latest(ledger, S) \in S /\ \A q \in S : ledger[Latest(ledger, S)].day >= ledger[q].day
<1> DEFINE Best(T, p) == p \in T /\ \A q \in T : ledger[p].day >= ledger[q].day
           Bad == {T \in SUBSET S : T # {} /\ ~ \E p : Best(T, p)}
<1>1. ASSUME NEW T \in Bad PROVE \E x \in T : T \ {x} \in Bad
  <2>1. T \in SUBSET S /\ T # {} /\ ~ \E p : Best(T, p) OBVIOUS
  <2>2. PICK x \in T : TRUE BY <2>1
  <2>3. T \ {x} # {}
    <3> SUFFICES ASSUME T = {x} PROVE FALSE BY <2>2
    <3>1. ledger[x].day >= ledger[x].day BY <2>1, <2>2
    <3> QED BY <2>1, <3>1
  <2>4. ASSUME NEW p, Best(T \ {x}, p) PROVE FALSE
    <3>1. p \in T /\ ledger[p].day \in Int /\ ledger[x].day \in Int BY <2>1, <2>2, <2>4
    <3>2. CASE ledger[p].day >= ledger[x].day
      <4>1. Best(T, p) BY <2>4, <3>1, <3>2
      <4> QED BY <2>1, <4>1
    <3>3. CASE ledger[x].day > ledger[p].day
      <4>1. \A q \in T : ledger[q].day \in Int BY <2>1
      <4>2. \A q \in T \ {x} : ledger[x].day >= ledger[q].day BY <2>4, <3>1, <3>3, <4>1
      <4>3. Best(T, x) BY <2>2, <3>1, <4>2
      <4> QED BY <2>1, <4>3
    <3> QED BY <3>1, <3>2, <3>3
  <2> HIDE DEF Best
  <2> QED BY <2>1, <2>2, <2>3, <2>4
<1>2. {} \notin Bad OBVIOUS
<1>3. Bad = {}
  <2> HIDE DEF Bad
  <2>1. Bad \in SUBSET SUBSET S BY DEF Bad
  <2> QED BY <1>1, <1>2, <2>1, SubsetInduction
<1>4. \E p : Best(S, p) BY <1>3
<1> QED BY <1>4 DEF Latest

Before(x, rows) == <<x>> \o rows

\* The recursion that Newest unfolds.
NewestFirst(g, ledger, S) ==
  g = [s \in SUBSET S |-> IF s = {} THEN << >>
                          ELSE Before(Latest(ledger, s), g[s \ {Latest(ledger, s)}])]

LEMMA NewestValue ==
  ASSUME NEW g, NEW ledger, NEW S, NewestFirst(g, ledger, S), NEW T \in SUBSET S,
         NEW x, x = Latest(ledger, T)
  PROVE  /\ T = {} => g[T] = << >>
         /\ T # {} => g[T] = Before(x, g[T \ {x}])
<1>1. g[T] = IF T = {} THEN << >> ELSE Before(Latest(ledger, T), g[T \ {Latest(ledger, T)}])
  BY DEF NewestFirst
<1> QED BY <1>1

\* The list is determined by what it is made of, whatever function makes it.
LEMMA NewestOneWay ==
  ASSUME NEW ledger, NEW g, NEW g2, NEW S, NEW S2,
         NewestFirst(g, ledger, S), NewestFirst(g2, ledger, S2),
         NEW V, IsFiniteSet(V), V \subseteq S, V \subseteq S2, \A p \in V : ledger[p].day \in Int
  PROVE  g[V] = g2[V]
<1> DEFINE Bad == {T \in SUBSET V : g[T] # g2[T]}
<1>1. {} \notin Bad BY NewestValue
<1>2. ASSUME NEW T \in Bad PROVE \E x \in T : T \ {x} \in Bad
  <2>1. T \in SUBSET V /\ T # {} /\ T \in SUBSET S /\ T \in SUBSET S2 BY <1>1
  <2>2. PICK x : x = Latest(ledger, T) OBVIOUS
  <2>3. x \in T
    <3>1. IsFiniteSet(T) /\ \A p \in T : ledger[p].day \in Int BY <2>1, FS_Subset
    <3> QED BY <2>1, <2>2, <3>1, LatestIs
  <2>4. g[T] = Before(x, g[T \ {x}]) /\ g2[T] = Before(x, g2[T \ {x}])
    BY <2>1, <2>2, NewestValue
  <2>5. g[T \ {x}] # g2[T \ {x}] BY <2>4
  <2> QED BY <2>1, <2>3, <2>5
<1>3. Bad = {}
  <2> HIDE DEF Bad
  <2>1. Bad \in SUBSET SUBSET V BY DEF Bad
  <2> QED BY <1>1, <1>2, <2>1, SubsetInduction
<1> QED BY <1>3

\* There is such a function.
LEMMA NewestExists ==
  ASSUME NEW ledger, NEW S, IsFiniteSet(S), \A p \in S : ledger[p].day \in Int
  PROVE  \E g : NewestFirst(g, ledger, S)
<1> DEFINE Bad == {T \in SUBSET S : ~ \E g : NewestFirst(g, ledger, T)}
<1>1. {} \notin Bad
  <2> DEFINE g == [s \in SUBSET {} |-> << >>]
  <2>1. NewestFirst(g, ledger, {}) BY DEF NewestFirst
  <2> QED BY <2>1
<1>2. ASSUME NEW T \in Bad PROVE \E x \in T : T \ {x} \in Bad
  <2> SUFFICES ASSUME \A x \in T : \E g : NewestFirst(g, ledger, T \ {x}) PROVE FALSE
    OBVIOUS
  <2>1. T # {} /\ T \in SUBSET S /\ ~ \E g : NewestFirst(g, ledger, T) BY <1>1
  <2>2. IsFiniteSet(T) BY <2>1, FS_Subset
  <2> DEFINE c    == Latest(ledger, T)
             G(x) == CHOOSE g : NewestFirst(g, ledger, T \ {x})
             o(s) == CHOOSE x \in T : x \notin s
             h    == [s \in SUBSET T |-> IF s = T THEN Before(c, G(c)[T \ {c}]) ELSE G(o(s))[s]]
  <2>3. ASSUME NEW s \in SUBSET T, s # {} PROVE Latest(ledger, s) \in s
    <3>1. IsFiniteSet(s) /\ \A p \in s : ledger[p].day \in Int BY <2>1, <2>2, FS_Subset
    <3> QED BY <2>3, <3>1, LatestIs
  <2>4. \A x \in T : NewestFirst(G(x), ledger, T \ {x}) OBVIOUS
  <2>5. \A s \in SUBSET T : s # T => o(s) \in T /\ o(s) \notin s OBVIOUS
  <2>6. \A s \in SUBSET T : s = T => h[s] = Before(c, G(c)[T \ {c}]) OBVIOUS
  <2>7. \A s \in SUBSET T : s # T => h[s] = G(o(s))[s] OBVIOUS
  <2>c. c \in T BY <2>1, <2>3
  <2> HIDE DEF h, G, o, c, Bad
  <2>8. ASSUME NEW s \in SUBSET T
        PROVE  h[s] = IF s = {} THEN << >> ELSE Before(Latest(ledger, s), h[s \ {Latest(ledger, s)}])
    <3>1. CASE s = T
      <4>1. T \ {c} # T /\ T \ {c} \in SUBSET T BY <2>c
      <4>2. o(T \ {c}) = c BY <2>5, <4>1
      <4>3. h[T \ {c}] = G(c)[T \ {c}] BY <2>7, <4>1, <4>2
      <4>4. Latest(ledger, s) = c /\ s # {} BY <3>1, <2>c DEF c
      <4> QED BY <2>6, <3>1, <4>3, <4>4
    <3>2. CASE s # T /\ s = {}
      <4>1. NewestFirst(G(o(s)), ledger, T \ {o(s)}) BY <2>4, <2>5, <3>2
      <4>2. G(o(s))[s] = << >> BY <4>1, <3>2, NewestValue
      <4> QED BY <2>7, <3>2, <4>2
    <3>3. CASE s # T /\ s # {}
      <4>u. PICK u : u = s \ {Latest(ledger, s)} OBVIOUS
      <4>1. Latest(ledger, s) \in s /\ u \in SUBSET T /\ u # T /\ u \subseteq s
        BY <2>3, <3>3, <4>u
      <4>2. /\ o(s) \in T /\ o(s) \notin s /\ NewestFirst(G(o(s)), ledger, T \ {o(s)})
            /\ o(u) \in T /\ o(u) \notin u /\ NewestFirst(G(o(u)), ledger, T \ {o(u)})
        BY <2>4, <2>5, <3>3, <4>1
      <4>3. s \in SUBSET (T \ {o(s)}) /\ u \subseteq T \ {o(s)} /\ u \subseteq T \ {o(u)}
        BY <4>1, <4>2
      <4>4. G(o(s))[s] = Before(Latest(ledger, s), G(o(s))[u]) BY <3>3, <4>u, <4>2, <4>3, NewestValue
      <4>5. IsFiniteSet(u) /\ \A p \in u : ledger[p].day \in Int BY <2>1, <2>2, <4>1, FS_Subset
      <4>6. G(o(s))[u] = G(o(u))[u] BY <4>2, <4>3, <4>5, NewestOneWay
      <4>7. h[s] = G(o(s))[s] /\ h[u] = G(o(u))[u] BY <2>7, <3>3, <4>1
      <4> QED BY <3>3, <4>u, <4>4, <4>6, <4>7
    <3> QED BY <3>1, <3>2, <3>3
  <2>9. h = [s \in SUBSET T |-> h[s]] BY DEF h
  <2>10. NewestFirst(h, ledger, T)
    <3>1. h = [s \in SUBSET T |-> IF s = {} THEN << >>
                                  ELSE Before(Latest(ledger, s), h[s \ {Latest(ledger, s)}])]
      BY <2>8, <2>9
    <3> QED BY <3>1 DEF NewestFirst
  <2> QED BY <2>1, <2>10
<1>3. Bad = {}
  <2> HIDE DEF Bad
  <2>1. Bad \in SUBSET SUBSET S BY DEF Bad
  <2> QED BY <1>1, <1>2, <2>1, SubsetInduction
<1> QED BY <1>3

LEMMA NewestIs ==
  ASSUME NEW ledger, NEW S, IsFiniteSet(S), \A p \in S : ledger[p].day \in Int
  PROVE  \E g : NewestFirst(g, ledger, S) /\ Newest(ledger, S) = g[S]
<1> DEFINE It == CHOOSE g : g = [s \in SUBSET S |->
                   IF s = {} THEN << >>
                   ELSE LET x == Latest(ledger, s) IN Before(x, g[s \ {x}])]
<1>1. Newest(ledger, S) = It[S]
  BY DEF Newest, MapThenFoldSet, Before
<1>2. NewestFirst(It, ledger, S)
  <2>1. \E g : NewestFirst(g, ledger, S) BY NewestExists
  <2> QED BY <2>1, Zenon DEF NewestFirst
<1> QED BY <1>1, <1>2

\* Each of a set once, the newest first.
Enumerates(rows, ledger, S) ==
  /\ rows \in Seq(S) /\ Len(rows) = Cardinality(S)
  /\ {rows[i] : i \in DOMAIN rows} = S
  /\ \A i, j \in DOMAIN rows : i < j => /\ rows[i] # rows[j]
                                       /\ ledger[rows[i]].day >= ledger[rows[j]].day

\* Putting the latest one first keeps a list in order.
LEMMA Prepended ==
  ASSUME NEW ledger, NEW S, IsFiniteSet(S), NEW x \in S, NEW rows,
         Enumerates(rows, ledger, S \ {x}), \A q \in S : ledger[x].day >= ledger[q].day
  PROVE  Enumerates(Before(x, rows), ledger, S)
<1>1. PICK all : all = Before(x, rows) OBVIOUS
<1>2. rows \in Seq(S \ {x}) /\ Len(rows) \in Nat /\ DOMAIN rows = 1 .. Len(rows) BY DEF Enumerates
<1>3. rows \in Seq(S)
  <2>1. \A i \in 1 .. Len(rows) : rows[i] \in S BY <1>2
  <2> QED BY <1>2, <2>1
<1>4. /\ all \in Seq(S) /\ Len(all) = Len(rows) + 1 /\ DOMAIN all = 1 .. Len(rows) + 1
      /\ all[1] = x /\ \A i \in 2 .. Len(rows) + 1 : all[i] = rows[i - 1]
  BY <1>1, <1>2, <1>3 DEF Before
<1>5. Cardinality(S) = Len(rows) + 1
  <2>1. Cardinality(S \ {x}) = Cardinality(S) - 1 /\ Cardinality(S) \in Nat
    BY FS_RemoveElement, FS_CardinalityType
  <2> QED BY <2>1 DEF Enumerates
<1>6. {all[i] : i \in DOMAIN all} = S
  <2>1. {rows[i] : i \in DOMAIN rows} = S \ {x} BY DEF Enumerates
  <2>2. ASSUME NEW y \in S PROVE \E i \in DOMAIN all : all[i] = y
    <3>1. CASE y = x
      <4>1. 1 \in DOMAIN all BY <1>2, <1>4
      <4> QED BY <1>4, <3>1, <4>1
    <3>2. CASE y # x
      <4>1. PICK i \in 1 .. Len(rows) : rows[i] = y BY <1>2, <2>1, <3>2
      <4>2. i + 1 \in 2 .. Len(rows) + 1 /\ i + 1 \in DOMAIN all /\ (i + 1) - 1 = i BY <1>2, <1>4
      <4>3. all[i + 1] = y BY <1>4, <4>1, <4>2
      <4> QED BY <4>2, <4>3
    <3> QED BY <3>1, <3>2
  <2>3. \A i \in DOMAIN all : all[i] \in S BY <1>4
  <2> QED BY <2>2, <2>3
<1>7. ASSUME NEW i \in DOMAIN all, NEW j \in DOMAIN all, i < j
      PROVE  all[i] # all[j] /\ ledger[all[i]].day >= ledger[all[j]].day
  <2>1. j \in 2 .. Len(rows) + 1 /\ j - 1 \in 1 .. Len(rows) /\ all[j] = rows[j - 1] BY <1>2, <1>4, <1>7
  <2>2. rows[j - 1] \in S \ {x} BY <1>2, <2>1
  <2>3. CASE i = 1 BY <1>4, <2>1, <2>2, <2>3
  <2>4. CASE i # 1
    <3>1. i \in 2 .. Len(rows) + 1 /\ i - 1 \in 1 .. Len(rows) /\ all[i] = rows[i - 1] /\ i - 1 < j - 1
      BY <1>2, <1>4, <1>7, <2>1, <2>4
    <3> QED BY <1>2, <2>1, <3>1 DEF Enumerates
  <2> QED BY <2>3, <2>4
<1>8. Len(all) = Cardinality(S) BY <1>4, <1>5
<1>9. \A i, j \in DOMAIN all : i < j => all[i] # all[j] /\ ledger[all[i]].day >= ledger[all[j]].day
  BY <1>7
<1> HIDE DEF Before
<1>10. Enumerates(all, ledger, S) BY <1>4, <1>6, <1>8, <1>9 DEF Enumerates
<1> QED BY <1>1, <1>10

\* A findMany shows each row wanted once, the newest first.
LEMMA NewestEnumerates ==
  ASSUME NEW ledger, NEW S, IsFiniteSet(S), \A p \in S : ledger[p].day \in Int
  PROVE  Enumerates(Newest(ledger, S), ledger, S)
<1>1. PICK g : NewestFirst(g, ledger, S) /\ Newest(ledger, S) = g[S] BY NewestIs
<1> DEFINE Bad == {T \in SUBSET S : ~Enumerates(g[T], ledger, T)}
<1>2. {} \notin Bad
  <2>1. g[{}] = << >> BY <1>1, NewestValue
  <2>2. Enumerates(<< >>, ledger, {}) BY FS_EmptySet DEF Enumerates
  <2> QED BY <2>1, <2>2
<1>3. ASSUME NEW T \in Bad PROVE \E x \in T : T \ {x} \in Bad
  <2>1. T \in SUBSET S /\ T # {} /\ ~Enumerates(g[T], ledger, T) BY <1>2
  <2>2. IsFiniteSet(T) /\ \A p \in T : ledger[p].day \in Int BY <2>1, FS_Subset
  <2>3. PICK x : x = Latest(ledger, T) OBVIOUS
  <2>4. x \in T /\ \A q \in T : ledger[x].day >= ledger[q].day BY <2>1, <2>2, <2>3, LatestIs
  <2>5. g[T] = Before(x, g[T \ {x}]) BY <1>1, <2>1, <2>3, NewestValue
  <2>6. ~Enumerates(g[T \ {x}], ledger, T \ {x}) BY <2>1, <2>2, <2>4, <2>5, Prepended
  <2> QED BY <2>1, <2>4, <2>6
<1>4. Bad = {}
  <2> HIDE DEF Bad
  <2>1. Bad \in SUBSET SUBSET S BY DEF Bad
  <2> QED BY <1>2, <1>3, <2>1, SubsetInduction
<1> QED BY <1>1, <1>4

-----------------------------------------------------------------------------
(* Pages and walks. *)

Cut(n, L) == IF n <= L THEN n ELSE L

\* What a page shows that begins after the k-th row.
PageAt(rows, k, take) ==
  [items |-> SubSeq(rows, k + 1, Cut(k + take, Len(rows))),
   nextCursor |-> IF Len(rows) > k + take THEN rows[k + take] ELSE None]

CursorAt(rows, k) == IF k = 0 THEN None ELSE rows[k]

\* A piece of a list, and a piece of that.
LEMMA PieceIs ==
  ASSUME NEW T, NEW rows \in Seq(T), NEW a \in Nat \ {0}, NEW b \in Nat, b <= Len(rows), a <= b + 1,
         NEW x, x = SubSeq(rows, a, b)
  PROVE  x \in Seq(T) /\ Len(x) = b - a + 1 /\ \A i \in 1 .. b - a + 1 : x[i] = rows[a + i - 1]
<1>1. \A i \in a .. b : rows[i] \in T OBVIOUS
<1>2. /\ x \in Seq(T) /\ Len(x) = IF a <= b THEN b - a + 1 ELSE 0
      /\ \A i \in 1 .. b - a + 1 : x[i] = rows[a + i - 1]
  BY <1>1, SubSeqProperties
<1> QED BY <1>2

LEMMA PieceOfPiece ==
  ASSUME NEW T, NEW rows \in Seq(T), NEW a \in Nat \ {0}, NEW b \in Nat, NEW n \in Nat,
         a <= b, b <= Len(rows), n <= b - a + 1
  PROVE  SubSeq(SubSeq(rows, a, b), 1, n) = SubSeq(rows, a, a + n - 1)
<1>1. PICK read, c : read = SubSeq(rows, a, b) /\ c = a + n - 1 OBVIOUS
<1>2. read \in Seq(T) /\ Len(read) = b - a + 1 /\ \A i \in 1 .. b - a + 1 : read[i] = rows[a + i - 1]
  <2>1. a <= b + 1 OBVIOUS
  <2>2. read = SubSeq(rows, a, b) BY <1>1
  <2> QED BY <2>1, <2>2, PieceIs, SMTT(30)
<1>3. PICK x, y : x = SubSeq(read, 1, n) /\ y = SubSeq(rows, a, c) OBVIOUS
<1>4. x \in Seq(T) /\ Len(x) = n /\ \A i \in 1 .. n : x[i] = read[i]
  <2>1. x \in Seq(T) /\ Len(x) = n - 1 + 1 /\ \A i \in 1 .. n - 1 + 1 : x[i] = read[1 + i - 1]
    BY <1>2, <1>3, PieceIs
  <2> QED BY <2>1
<1>5. y \in Seq(T) /\ Len(y) = n /\ \A i \in 1 .. n : y[i] = rows[a + i - 1]
  <2>1. c \in Nat /\ c <= Len(rows) /\ a <= c + 1 /\ c - a + 1 = n BY <1>1
  <2> QED BY <1>3, <2>1, PieceIs
<1>6. \A i \in 1 .. n : x[i] = y[i]
  <2> TAKE i \in 1 .. n
  <2>1. i \in 1 .. b - a + 1 OBVIOUS
  <2> QED BY <1>2, <1>4, <1>5, <2>1
<1>7. x = y BY <1>4, <1>5, <1>6, SeqEqual
<1> QED BY <1>1, <1>3, <1>7

\* The page at the cursor of a row is that row and those after it.
LEMMA PageIs ==
  ASSUME NEW T, None \notin T, NEW rows \in Seq(T),
         \A i, j \in DOMAIN rows : i < j => rows[i] # rows[j],
         NEW take \in Nat \ {0}, NEW n \in 0 .. Len(rows)
  PROVE  Page(rows, CursorAt(rows, n), take) = PageAt(rows, n, take)
<1>1. PICK L : L = Len(rows) OBVIOUS
<1>2. L \in Nat /\ DOMAIN rows = 1 .. L /\ n \in 0 .. L BY <1>1
<1>3. PICK cursor : cursor = CursorAt(rows, n) OBVIOUS
<1> DEFINE c     == CHOOSE k \in DOMAIN rows : rows[k] = cursor
           first == IF cursor = None THEN 1 ELSE 1 + c
           read  == SubSeq(rows, first, Min({Len(rows), first + take}))
<1>9. Page(rows, cursor, take) =
        [items |-> IF Len(read) > take THEN SubSeq(read, 1, take) ELSE read,
         nextCursor |-> IF Len(read) > take THEN read[take] ELSE None]
  BY DEF Page
<1>c. \A k \in DOMAIN rows : rows[k] = cursor => c \in DOMAIN rows /\ rows[c] = cursor OBVIOUS
<1> HIDE DEF c
<1>5. first = n + 1
  <2>1. CASE n = 0 BY <1>3, <2>1 DEF CursorAt
  <2>2. CASE n # 0
    <3>1. n \in DOMAIN rows /\ cursor = rows[n] /\ cursor # None BY <1>2, <1>3, <2>2 DEF CursorAt
    <3>3. c \in DOMAIN rows /\ rows[c] = rows[n] BY <1>c, <3>1
    <3>4. c = n BY <1>2, <3>1, <3>3
    <3> QED BY <3>1, <3>4
  <2> QED BY <2>1, <2>2
<1>6. Min({L, first + take}) = Cut(n + 1 + take, L)
  <2>1. first + take = n + 1 + take /\ n + 1 + take \in Int /\ L \in Int BY <1>2, <1>5
  <2> QED BY <2>1, MinOfTwo DEF Cut
<1>7. PICK end : end = Cut(n + 1 + take, L) OBVIOUS
<1>8. read = SubSeq(rows, n + 1, end) BY <1>1, <1>5, <1>6, <1>7
<1> HIDE DEF read, first
<1>10. end \in Nat /\ n <= end /\ end <= L BY <1>2, <1>7 DEF Cut
<1>11. Len(read) = end - n
  <2>1. end \in Int /\ n + 1 \in Int BY <1>2, <1>10
  <2>2. CASE n + 1 <= end BY <1>1, <1>2, <1>8, <1>10, <2>2
  <2>3. CASE end = n BY <1>1, <1>2, <1>8, <1>10, <2>3
  <2> QED BY <1>2, <1>10, <2>2, <2>3
<1>12. CASE L > n + take
  <2>1. end = n + 1 + take /\ Cut(n + take, L) = n + take BY <1>2, <1>7, <1>12 DEF Cut
  <2>2. Len(read) > take BY <1>2, <1>11, <2>1
  <2>3. SubSeq(read, 1, take) = SubSeq(rows, n + 1, n + take) /\ read[take] = rows[n + take]
    <3>1. PICK a : a = n + 1 OBVIOUS
    <3>2. a \in Nat /\ 1 <= a /\ a <= end /\ end <= Len(rows) /\ 1 <= take /\ take <= end - a + 1
          /\ a + take - 1 = n + take
      BY <1>1, <1>2, <1>10, <2>1, <3>1
    <3>3. a \in Nat \ {0} /\ read = SubSeq(rows, a, end) BY <1>8, <3>1, <3>2
    <3>4. SubSeq(read, 1, take) = SubSeq(rows, a, a + take - 1) BY <1>10, <3>2, <3>3, PieceOfPiece
    <3>5. \A i \in 1 .. end - a + 1 : read[i] = rows[a + i - 1] BY <1>10, <3>2, <3>3, PieceIs
    <3>6. take \in 1 .. end - a + 1 BY <1>10, <3>2
    <3>7. read[take] = rows[a + take - 1] BY <3>5, <3>6
    <3> QED BY <3>1, <3>2, <3>4, <3>7
  <2>4. PageAt(rows, n, take) = [items |-> SubSeq(rows, n + 1, n + take), nextCursor |-> rows[n + take]]
    BY <1>1, <1>12, <2>1 DEF PageAt
  <2> QED BY <1>3, <1>9, <2>2, <2>3, <2>4
<1>13. CASE ~(L > n + take)
  <2>1. end = L /\ Cut(n + take, L) = L BY <1>2, <1>7, <1>13 DEF Cut
  <2>2. ~(Len(read) > take) BY <1>2, <1>11, <1>13, <2>1
  <2>3. PageAt(rows, n, take) = [items |-> read, nextCursor |-> None]
    BY <1>1, <1>8, <1>13, <2>1 DEF PageAt
  <2> QED BY <1>3, <1>9, <2>2, <2>3
<1> QED BY <1>12, <1>13

\* Two pieces that follow each other are one.
LEMMA Glued ==
  ASSUME NEW T, NEW rows \in Seq(T), NEW a \in Nat, NEW b \in Nat, a <= b, b <= Len(rows)
  PROVE  SubSeq(rows, 1, a) \o SubSeq(rows, a + 1, b) = SubSeq(rows, 1, b)
<1>1. PICK x, y, z : x = SubSeq(rows, 1, a) /\ y = SubSeq(rows, a + 1, b) /\ z = SubSeq(rows, 1, b)
  OBVIOUS
<1>2. x \in Seq(T) /\ Len(x) = a /\ \A i \in 1 .. a : x[i] = rows[i]
  <2>1. x \in Seq(T) /\ Len(x) = a - 1 + 1 /\ \A i \in 1 .. a - 1 + 1 : x[i] = rows[1 + i - 1]
    BY <1>1, PieceIs
  <2> QED BY <2>1
<1>3. z \in Seq(T) /\ Len(z) = b /\ \A i \in 1 .. b : z[i] = rows[i]
  <2>1. z \in Seq(T) /\ Len(z) = b - 1 + 1 /\ \A i \in 1 .. b - 1 + 1 : z[i] = rows[1 + i - 1]
    BY <1>1, PieceIs
  <2> QED BY <2>1
<1>4. y \in Seq(T) /\ Len(y) = b - a /\ \A i \in 1 .. b - a : y[i] = rows[a + i]
  <2>1. PICK c : c = a + 1 OBVIOUS
  <2>2. c \in Nat \ {0} /\ c <= b + 1 /\ y = SubSeq(rows, c, b) BY <1>1, <2>1
  <2>3. y \in Seq(T) /\ Len(y) = b - c + 1 /\ \A i \in 1 .. b - c + 1 : y[i] = rows[c + i - 1]
    BY <2>2, PieceIs
  <2>4. b - c + 1 = b - a /\ \A i \in Int : c + i - 1 = a + i BY <2>1
  <2> QED BY <2>3, <2>4
<1>5. PICK w : w = x \o y OBVIOUS
<1>6. /\ w \in Seq(T) /\ Len(w) = b
      /\ \A i \in 1 .. b : w[i] = IF i <= a THEN x[i] ELSE y[i - a]
  <2>1. /\ w \in Seq(T) /\ Len(w) = Len(x) + Len(y)
        /\ \A i \in 1 .. Len(x) + Len(y) : w[i] = IF i <= Len(x) THEN x[i] ELSE y[i - Len(x)]
    BY <1>2, <1>4, <1>5, ConcatProperties
  <2>2. Len(x) + Len(y) = b BY <1>2, <1>4
  <2> QED BY <1>2, <2>1, <2>2
<1>7. \A i \in 1 .. b : w[i] = z[i]
  <2> TAKE i \in 1 .. b
  <2>1. CASE i <= a
    <3>1. i \in 1 .. a BY <2>1
    <3> QED BY <1>2, <1>3, <1>6, <2>1, <3>1
  <2>2. CASE ~(i <= a)
    <3>1. i - a \in 1 .. b - a /\ a + (i - a) = i BY <2>2
    <3>2. w[i] = y[i - a] /\ y[i - a] = rows[a + (i - a)] BY <1>4, <1>6, <2>2, <3>1
    <3> QED BY <1>3, <3>1, <3>2
  <2> QED BY <2>1, <2>2
<1>8. w = z BY <1>3, <1>6, <1>7, SeqEqual
<1> QED BY <1>1, <1>5, <1>8

\* The pages of a list, from the first on.
Follows(g, reader, ledger, q, N) ==
  g = [n \in 0 .. N |->
        IF n = 0 THEN PageOf(reader, ledger, q)
        ELSE LET seen == g[n - 1]
                 next == PageOf(reader, ledger, [q EXCEPT !.cursor = seen.nextCursor])
             IN IF seen.nextCursor = None THEN seen
                ELSE [items |-> seen.items \o next.items, nextCursor |-> next.nextCursor]]

Both2(x, y) == [items |-> x.items \o y.items, nextCursor |-> y.nextCursor]

LEMMA FollowsValue ==
  ASSUME NEW g, NEW reader, NEW ledger, NEW q, NEW N \in Nat, Follows(g, reader, ledger, q, N)
  PROVE  /\ g[0] = PageOf(reader, ledger, q)
         /\ \A n \in 1 .. N :
              /\ g[n - 1].nextCursor = None => g[n] = g[n - 1]
              /\ g[n - 1].nextCursor # None =>
                   g[n] = Both2(g[n - 1], PageOf(reader, ledger, [q EXCEPT !.cursor = g[n - 1].nextCursor]))
<1>1. \A n \in 0 .. N : g[n] =
        IF n = 0 THEN PageOf(reader, ledger, q)
        ELSE IF g[n - 1].nextCursor = None THEN g[n - 1]
             ELSE Both2(g[n - 1], PageOf(reader, ledger, [q EXCEPT !.cursor = g[n - 1].nextCursor]))
  BY Zenon DEF Follows, Both2
<1>2. 0 \in 0 .. N /\ \A n \in 1 .. N : n \in 0 .. N /\ n # 0 OBVIOUS
<1> QED BY <1>1, <1>2

\* A walk is what the recursion over its pages gives.
LEMMA WalkFollows ==
  ASSUME NEW reader, NEW ledger, NEW q, NEW g,
         Follows(g, reader, ledger, q, Cardinality(DOMAIN ledger))
  PROVE  \E a : /\ Follows(a, reader, ledger, q, Cardinality(DOMAIN ledger))
                /\ Walk(reader, ledger, q) = a[Cardinality(DOMAIN ledger)]
<1> DEFINE N == Cardinality(DOMAIN ledger)
           a == CHOOSE h : h = [n \in 0 .. N |->
                  IF n = 0 THEN PageOf(reader, ledger, q)
                  ELSE LET seen == h[n - 1]
                           next == PageOf(reader, ledger, [q EXCEPT !.cursor = seen.nextCursor])
                       IN IF seen.nextCursor = None THEN seen
                          ELSE [items |-> seen.items \o next.items, nextCursor |-> next.nextCursor]]
<1>1. Walk(reader, ledger, q) = a[N] BY DEF Walk
<1>2. Follows(a, reader, ledger, q, N) BY Zenon DEF Follows
<1> QED BY <1>1, <1>2

\* After n + 1 pages one has seen the rows up to there.
SeenAfter(rows, take, n) ==
  [items |-> SubSeq(rows, 1, Cut((n + 1) * take, Len(rows))),
   nextCursor |-> IF Len(rows) > (n + 1) * take THEN rows[(n + 1) * take] ELSE None]

\* What has been seen after one more page.
LEMMA PageSeen ==
  ASSUME NEW T, None \notin T, NEW rows \in Seq(T),
         \A i, j \in DOMAIN rows : i < j => rows[i] # rows[j],
         NEW take \in Nat \ {0}, NEW n \in Nat \ {0}, NEW seen, seen = SeenAfter(rows, take, n - 1),
         seen.nextCursor # None
  PROVE  Both2(seen, Page(rows, seen.nextCursor, take)) = SeenAfter(rows, take, n)
<1>1. PICK k : k = n * take OBVIOUS
<1>2. k \in Nat \ {0} /\ (n - 1) + 1 = n /\ (n + 1) * take = k + take
  <2>1. n * take \in Nat /\ n * take > 0 OBVIOUS
  <2>2. (n + 1) * take = n * take + take OBVIOUS
  <2> QED BY <1>1, <2>1, <2>2
<1>3. PICK L : L = Len(rows) OBVIOUS
<1>4. L \in Nat /\ DOMAIN rows = 1 .. L BY <1>3
<1>5. seen = [items |-> SubSeq(rows, 1, Cut(k, L)), nextCursor |-> IF L > k THEN rows[k] ELSE None]
  BY <1>1, <1>2, <1>3 DEF SeenAfter
<1>6. L > k /\ seen.nextCursor = rows[k] /\ seen.items = SubSeq(rows, 1, k)
  BY <1>2, <1>4, <1>5 DEF Cut
<1>7. Page(rows, seen.nextCursor, take) = PageAt(rows, k, take)
  <2>1. k \in 0 .. Len(rows) /\ CursorAt(rows, k) = rows[k] BY <1>2, <1>3, <1>4, <1>6 DEF CursorAt
  <2> QED BY <1>6, <2>1, PageIs
<1>8. PICK b : b = Cut(k + take, L) OBVIOUS
<1>9. b \in Nat /\ k <= b /\ b <= L BY <1>2, <1>4, <1>6, <1>8 DEF Cut
<1>10. SubSeq(rows, 1, k) \o SubSeq(rows, k + 1, b) = SubSeq(rows, 1, b)
  BY <1>2, <1>3, <1>9, Glued
<1>11. PICK y : y = PageAt(rows, k, take) OBVIOUS
<1>12. y.items = SubSeq(rows, k + 1, b) /\ y.nextCursor = IF L > k + take THEN rows[k + take] ELSE None
  BY <1>3, <1>8, <1>11 DEF PageAt
<1>13. Both2(seen, y) = [items |-> SubSeq(rows, 1, b),
                         nextCursor |-> IF L > k + take THEN rows[k + take] ELSE None]
  BY <1>6, <1>10, <1>12 DEF Both2
<1>14. SeenAfter(rows, take, n) = [items |-> SubSeq(rows, 1, b),
                                  nextCursor |-> IF L > k + take THEN rows[k + take] ELSE None]
  BY <1>2, <1>3, <1>8 DEF SeenAfter
<1> QED BY <1>7, <1>11, <1>13, <1>14

\* Following the cursors of a list shows all of it.
LEMMA WalkIs ==
  ASSUME NEW ledger, LedgerOK(ledger), NEW q, NEW reader, NEW rows,
         Enumerates(rows, ledger, Wanted(ledger, q)), NEW take \in Nat \ {0},
         PageOf(reader, ledger, q) = Page(rows, None, take),
         \A cursor : PageOf(reader, ledger, [q EXCEPT !.cursor = cursor]) = Page(rows, cursor, take)
  PROVE  Walk(reader, ledger, q) = [items |-> rows, nextCursor |-> None]
<1>1. PICK N : N = Cardinality(DOMAIN ledger) OBVIOUS
<1>2. PICK T : T = Wanted(ledger, q) OBVIOUS
<1>3. T \subseteq DOMAIN ledger /\ None \notin T /\ N \in Nat /\ Cardinality(T) <= N
  <2>1. T \subseteq DOMAIN ledger BY <1>2 DEF Wanted, HasStatus
  <2> QED BY <1>1, <2>1, FS_CardinalityType, FS_Subset DEF LedgerOK
<1>4. /\ rows \in Seq(T) /\ Len(rows) = Cardinality(T) /\ Len(rows) \in Nat
      /\ \A i, j \in DOMAIN rows : i < j => rows[i] # rows[j]
  BY <1>2 DEF Enumerates
<1> DEFINE f == [n \in 0 .. N |-> SeenAfter(rows, take, n)]
<1>5. PageOf(reader, ledger, q) = SeenAfter(rows, take, 0)
  <2>1. 0 \in 0 .. Len(rows) /\ CursorAt(rows, 0) = None BY <1>4 DEF CursorAt
  <2>2. Page(rows, None, take) = PageAt(rows, 0, take) BY <1>3, <1>4, <2>1, PageIs
  <2>3. 0 + take = take /\ (0 + 1) * take = take /\ 0 + 1 = 1 OBVIOUS
  <2>4. PageAt(rows, 0, take) = SeenAfter(rows, take, 0) BY <2>3 DEF PageAt, SeenAfter
  <2> QED BY <2>2, <2>4
<1>6. ASSUME NEW n \in 1 .. N
      PROVE  LET seen == SeenAfter(rows, take, n - 1) IN
             /\ seen.nextCursor = None => SeenAfter(rows, take, n) = seen
             /\ seen.nextCursor # None =>
                  Both2(seen, PageOf(reader, ledger, [q EXCEPT !.cursor = seen.nextCursor]))
                    = SeenAfter(rows, take, n)
  <2>1. PICK seen : seen = SeenAfter(rows, take, n - 1) OBVIOUS
  <2>2. CASE seen.nextCursor = None
    <3>1. PICK k, m : k = n * take /\ m = (n + 1) * take OBVIOUS
    <3>2. k \in Nat \ {0} /\ m = k + take /\ (n - 1) + 1 = n
      <4>1. n \in Nat \ {0} /\ n * take \in Nat /\ n * take > 0 /\ (n + 1) * take = n * take + take OBVIOUS
      <4> QED BY <3>1, <4>1
    <3>3. seen = [items |-> SubSeq(rows, 1, Cut(k, Len(rows))),
                  nextCursor |-> IF Len(rows) > k THEN rows[k] ELSE None]
      BY <2>1, <3>1, <3>2 DEF SeenAfter
    <3>4. ~(Len(rows) > k)
      <4> SUFFICES ASSUME Len(rows) > k PROVE FALSE OBVIOUS
      <4>1. rows[k] \in T BY <1>4, <3>2
      <4> QED BY <1>3, <2>2, <3>3, <4>1
    <3>5. ~(Len(rows) > m) /\ Cut(k, Len(rows)) = Len(rows) /\ Cut(m, Len(rows)) = Len(rows)
      BY <1>4, <3>2, <3>4 DEF Cut
    <3>6. SeenAfter(rows, take, n) = [items |-> SubSeq(rows, 1, Len(rows)), nextCursor |-> None]
      BY <3>1, <3>5 DEF SeenAfter
    <3>7. seen = [items |-> SubSeq(rows, 1, Len(rows)), nextCursor |-> None] BY <3>3, <3>4, <3>5
    <3> QED BY <2>1, <2>2, <3>6, <3>7
  <2>3. CASE seen.nextCursor # None
    <3>1. PageOf(reader, ledger, [q EXCEPT !.cursor = seen.nextCursor]) = Page(rows, seen.nextCursor, take)
      OBVIOUS
    <3>2. n \in Nat \ {0} OBVIOUS
    <3>3. Both2(seen, Page(rows, seen.nextCursor, take)) = SeenAfter(rows, take, n)
      BY <1>3, <1>4, <2>1, <2>3, <3>2, PageSeen
    <3> QED BY <2>1, <2>3, <3>1, <3>3
  <2> QED BY <2>2, <2>3
<1>7. Follows(f, reader, ledger, q, N)
  <2>1. ASSUME NEW n \in 0 .. N
        PROVE  f[n] = IF n = 0 THEN PageOf(reader, ledger, q)
                      ELSE IF f[n - 1].nextCursor = None THEN f[n - 1]
                           ELSE Both2(f[n - 1], PageOf(reader, ledger, [q EXCEPT !.cursor = f[n - 1].nextCursor]))
    <3>1. f[n] = SeenAfter(rows, take, n) OBVIOUS
    <3>2. n # 0 => n \in 1 .. N /\ n - 1 \in 0 .. N BY <1>3
    <3>3. n # 0 => f[n - 1] = SeenAfter(rows, take, n - 1) BY <3>2
    <3> HIDE DEF f
    <3> QED BY <1>5, <1>6, <3>1, <3>2, <3>3
  <2>2. f = [n \in 0 .. N |-> f[n]] OBVIOUS
  <2> HIDE DEF f
  <2>3. f = [n \in 0 .. N |->
              IF n = 0 THEN PageOf(reader, ledger, q)
              ELSE IF f[n - 1].nextCursor = None THEN f[n - 1]
                   ELSE Both2(f[n - 1], PageOf(reader, ledger, [q EXCEPT !.cursor = f[n - 1].nextCursor]))]
    BY <2>1, <2>2
  <2> QED BY <2>3, Zenon DEF Follows, Both2
<1>8. PICK a : Follows(a, reader, ledger, q, N) /\ Walk(reader, ledger, q) = a[N]
  BY <1>1, <1>7, WalkFollows
<1> HIDE DEF f
<1>9. f[0] = a[0] /\ \A n \in 1 .. N : f[n - 1] = a[n - 1] => f[n] = a[n]
  <2>1. /\ f[0] = PageOf(reader, ledger, q)
        /\ \A n \in 1 .. N :
             /\ f[n - 1].nextCursor = None => f[n] = f[n - 1]
             /\ f[n - 1].nextCursor # None =>
                  f[n] = Both2(f[n - 1], PageOf(reader, ledger, [q EXCEPT !.cursor = f[n - 1].nextCursor]))
    BY <1>3, <1>7, FollowsValue
  <2>2. /\ a[0] = PageOf(reader, ledger, q)
        /\ \A n \in 1 .. N :
             /\ a[n - 1].nextCursor = None => a[n] = a[n - 1]
             /\ a[n - 1].nextCursor # None =>
                  a[n] = Both2(a[n - 1], PageOf(reader, ledger, [q EXCEPT !.cursor = a[n - 1].nextCursor]))
    BY <1>3, <1>8, FollowsValue
  <2> QED BY <2>1, <2>2, Zenon
<1>10. N \in 0 .. N /\ \A n \in 0 .. N : f[n] = a[n] BY <1>3, <1>9, RunsAreOne
<1>11. Walk(reader, ledger, q) = SeenAfter(rows, take, N) BY <1>8, <1>10 DEF f
<1>12. SeenAfter(rows, take, N) = [items |-> rows, nextCursor |-> None]
  <2>1. PICK m : m = (N + 1) * take OBVIOUS
  <2>2. m \in Nat /\ m > N
    <3>1. (N + 1) * take = N * take + take /\ N * take >= N BY <1>3
    <3> QED BY <1>3, <2>1, <3>1
  <2>3. ~(Len(rows) > m) /\ Cut(m, Len(rows)) = Len(rows) BY <1>3, <1>4, <2>2 DEF Cut
  <2>4. SubSeq(rows, 1, Len(rows)) = rows BY <1>4
  <2> QED BY <2>1, <2>3, <2>4 DEF SeenAfter
<1> QED BY <1>11, <1>12

\* The page both readers get of a list of the newest first.
LEMMA PageOfList ==
  ASSUME NEW ledger, NEW s \in {None, "SETTLED", "PENDING"}, NEW n \in {None, 1, 3, 7}, NEW cursor,
         NEW q, q = [status |-> s, limit |-> n, cursor |-> cursor], NEW reader \in {"user", "api"}
  PROVE  PageOf(reader, ledger, q)
           = Page(Newest(ledger, Wanted(ledger, q)), cursor, IF n = None THEN 20 ELSE n)
<1>1. PICK take : take = IF n = None THEN 20 ELSE n OBVIOUS
<1>2. take \in 1 .. 20 /\ Or(n, 20) = take BY <1>1, NoneIs DEF Or
<1>3. Min({take, 50}) = take /\ Min({take, 100}) = take
  <2>1. take \in Int /\ 50 \in Int /\ 100 \in Int /\ take <= 50 /\ take <= 100 BY <1>2
  <2> QED BY <2>1, MinOfTwo
<1>4. q.limit = n /\ q.status = s /\ q.cursor = cursor OBVIOUS
<1>5. ListPayments(ledger, q) = Page(Newest(ledger, Wanted(ledger, q)), cursor, take)
  BY <1>2, <1>3, <1>4 DEF ListPayments
<1>6. PICK q2 : q2 = [q EXCEPT !.limit = take] OBVIOUS
<1>7. q2.limit = take /\ q2.status = s /\ q2.cursor = cursor BY <1>6
<1>8. Wanted(ledger, q2) = Wanted(ledger, q) BY <1>4, <1>7 DEF Wanted
<1>9. ListPaymentsQuery(q) = q2
  <2>1. s \in PAYMENT_STATUSES \cup {None} /\ ~(take < 1) BY <1>2 DEF PAYMENT_STATUSES
  <2> QED BY <1>2, <1>3, <1>4, <1>6, <2>1 DEF ListPaymentsQuery
<1>10. "error" \notin DOMAIN q2 BY <1>6
<1>11. CASE reader = "user" BY <1>1, <1>5, <1>11 DEF PageOf
<1>12. CASE reader = "api"
  <2>1. "api" # "user" OBVIOUS
  <2>2. ListPaymentsApi(ledger, q) = Page(Newest(ledger, Wanted(ledger, q)), cursor, take)
    BY <1>7, <1>8, <1>9, <1>10 DEF ListPaymentsApi
  <2> QED BY <1>1, <1>12, <2>1, <2>2 DEF PageOf
<1> QED BY <1>11, <1>12

\* The lists of any ledger: following the cursors shows each row once.
LEMMA ListsDoAgree ==
  ASSUME NEW ledger, LedgerOK(ledger) PROVE ListsAgree(ledger)
<1> SUFFICES ASSUME NEW s \in {None, "SETTLED", "PENDING"}, NEW n \in {None, 1, 3, 7}
             PROVE  LET q     == [status |-> s, limit |-> n, cursor |-> None]
                        shown == Walk("user", ledger, q)
                        items == shown.items
                    IN /\ Walk("api", ledger, q) = shown /\ shown.nextCursor = None
                       /\ {items[i] : i \in DOMAIN items} = Wanted(ledger, q)
                       /\ \A i, j \in DOMAIN items : i < j => /\ items[i] # items[j]
                                                              /\ ledger[items[i]].day >= ledger[items[j]].day
  BY DEF ListsAgree
<1>1. PICK q : q = [status |-> s, limit |-> n, cursor |-> None] OBVIOUS
<1>2. PICK take : take = IF n = None THEN 20 ELSE n OBVIOUS
<1>3. take \in Nat \ {0} BY <1>2, NoneIs
<1>4. PICK rows : rows = Newest(ledger, Wanted(ledger, q)) OBVIOUS
<1>5. Enumerates(rows, ledger, Wanted(ledger, q))
  <2>1. Wanted(ledger, q) \subseteq DOMAIN ledger BY DEF Wanted, HasStatus
  <2>2. IsFiniteSet(Wanted(ledger, q)) /\ \A p \in Wanted(ledger, q) : ledger[p].day \in Int
    BY <2>1, FS_Subset DEF LedgerOK, RowOK
  <2> QED BY <1>4, <2>2, NewestEnumerates
<1>6. ASSUME NEW reader \in {"user", "api"}
      PROVE  Walk(reader, ledger, q) = [items |-> rows, nextCursor |-> None]
  <2>1. PageOf(reader, ledger, q) = Page(rows, None, take) BY <1>1, <1>2, <1>4, PageOfList
  <2>2. ASSUME NEW cursor
        PROVE  PageOf(reader, ledger, [q EXCEPT !.cursor = cursor]) = Page(rows, cursor, take)
    <3>1. PICK q2 : q2 = [q EXCEPT !.cursor = cursor] OBVIOUS
    <3>2. q2 = [status |-> s, limit |-> n, cursor |-> cursor] BY <1>1, <3>1
    <3>3. Wanted(ledger, q2) = Wanted(ledger, q)
      <4>1. q2.status = q.status BY <1>1, <3>2
      <4> QED BY <4>1 DEF Wanted
    <3>4. PageOf(reader, ledger, q2) = Page(Newest(ledger, Wanted(ledger, q2)), cursor, IF n = None THEN 20 ELSE n)
      BY <3>2, PageOfList
    <3>5. PageOf(reader, ledger, q2) = Page(rows, cursor, take) BY <1>2, <1>4, <3>3, <3>4
    <3> QED BY <3>1, <3>5
  <2> QED BY <1>3, <1>5, <2>1, <2>2, WalkIs
<1>7. PICK shown : shown = [items |-> rows, nextCursor |-> None] OBVIOUS
<1>8. Walk("user", ledger, q) = shown /\ Walk("api", ledger, q) = shown BY <1>6, <1>7
<1>9. shown.items = rows /\ shown.nextCursor = None BY <1>7
<1> QED BY <1>1, <1>5, <1>8, <1>9 DEF Enumerates

-----------------------------------------------------------------------------
(* The reports' pages. *)

\* The link of a page asks for the period of the page.
LEMMA LinkAsksTheSame ==
  ASSUME NEW q \in Periods, NEW range, range = ParseDateRange(q.from, q.to, q.month)
  PROVE  ParseDateRange(range.from, range.to, q.month) = range
<1>1. q.from \in Int \cup {None} /\ q.to \in Int \cup {None}
      /\ q.month.from \in Int /\ q.month.to \in Int
  BY PeriodsAre
<1>2. PICK f, t : f = Or(q.from, q.month.from) /\ t = Or(q.to, q.month.to) OBVIOUS
<1>3. f \in Int /\ t \in Int BY <1>1, <1>2 DEF Or
<1>4. range = IF f > t THEN [from |-> t, to |-> f] ELSE [from |-> f, to |-> t]
  BY <1>2 DEF ParseDateRange
<1>5. range.from \in Int /\ range.to \in Int /\ ~(range.from > range.to)
      /\ range = [from |-> range.from, to |-> range.to]
  BY <1>3, <1>4
<1>6. Or(range.from, q.month.from) = range.from /\ Or(range.to, q.month.to) = range.to
  BY <1>5, NoneIs DEF Or
<1> QED BY <1>5, <1>6 DEF ParseDateRange

\* The files behind the links of a page are those of the period asked for.
LEMMA LinkedFiles ==
  ASSUME NEW ledger, NEW q \in Periods, NEW range, range = ParseDateRange(q.from, q.to, q.month),
         NEW href, href = LinkOf(q, range), NEW scope, scope = Within(ledger, range)
  PROVE  /\ StatementDownload(ledger, With(href, "format", "pdf")) = StatementDoc(Statement(scope))
         /\ StatementDownload(ledger, With(q, "format", "pdf")) = StatementDoc(Statement(scope))
         /\ FxDownload(ledger, With(href, "format", "pdf")) = FxDoc(FxSummary(scope))
<1>1. DOMAIN q = {"from", "to", "month"} BY PeriodsAre
<1>2. DOMAIN href = {"from", "to", "month"} /\ href.from = range.from /\ href.to = range.to
      /\ href.month = q.month
  BY DEF LinkOf
<1>3. ParseDateRange(href.from, href.to, href.month) = range BY <1>2, LinkAsksTheSame
<1>4. scope = Within(ledger, ParseDateRange(href.from, href.to, href.month)) BY <1>3
<1> QED BY <1>1, <1>2, <1>4, DownloadsOf, ZenonT(60)

\* The page of the statement, and that of the FX summary.
LEMMA StatementPage ==
  ASSUME NEW ledger, NEW q \in Periods, NEW page, page = ReportsPage("ADMIN", ledger, q),
         NEW pdf, pdf = StatementDownload(ledger, With(page.link, "format", "pdf"))
  PROVE  /\ pdf = StatementDownload(ledger, With(q, "format", "pdf"))
         /\ page.cards.settled = Cardinality(DOMAIN pdf.rows)
         /\ page.cards.exceptions = Cardinality(pdf.exceptions)
         /\ \A c \in DOMAIN page.cards.paidOut : page.cards.paidOut[c] = pdf.totals.paidOut[c]
         /\ DOMAIN page.rows = DOMAIN pdf.rows
         /\ \A p \in DOMAIN pdf.rows : \A f \in {"source", "target", "txHash"} :
              page.rows[p][f] = pdf.rows[p][f]
<1>1. PICK range : range = ParseDateRange(q.from, q.to, q.month) OBVIOUS
<1>2. PICK scope : scope = Within(ledger, range) OBVIOUS
<1>3. PICK s : s = Statement(scope) OBVIOUS
<1>4. page = [link  |-> LinkOf(q, range),
              cards |-> [settled |-> Cardinality(DOMAIN s.settled),
                         exceptions |-> Cardinality(s.exceptions),
                         paidOut |-> FirstCards(s.paidOut, 2)],
              rows  |-> [p \in DOMAIN s.settled |->
                           [source |-> Money(s.settled[p].sourceAmount, s.settled[p].sourceAsset),
                            target |-> Money(s.settled[p].targetAmount, s.settled[p].targetCurrency),
                            txHash |-> s.settled[p].txHash]],
              exceptions |-> s.exceptions]
  BY <1>1, <1>2, <1>3 DEF ReportsPage
<1>5. page.link = LinkOf(q, range) BY <1>4
<1>6. pdf = StatementDoc(s) /\ StatementDownload(ledger, With(q, "format", "pdf")) = StatementDoc(s)
  BY <1>1, <1>2, <1>3, <1>5, LinkedFiles
<1>7. /\ DOMAIN pdf.rows = DOMAIN s.settled /\ pdf.exceptions = s.exceptions
      /\ pdf.totals.paidOut = s.paidOut
      /\ \A p \in DOMAIN s.settled :
           /\ pdf.rows[p].source = Money(s.settled[p].sourceAmount, s.settled[p].sourceAsset)
           /\ pdf.rows[p].target = Money(s.settled[p].targetAmount, s.settled[p].targetCurrency)
           /\ pdf.rows[p].txHash = s.settled[p].txHash
  BY <1>6 DEF StatementDoc, StatementTotals
<1>8. \A totals, room : \A c \in DOMAIN FirstCards(totals, room) : FirstCards(totals, room)[c] = totals[c]
  BY DEF FirstCards, Restrict
<1>9. /\ page.cards.settled = Cardinality(DOMAIN s.settled)
      /\ page.cards.exceptions = Cardinality(s.exceptions)
      /\ page.cards.paidOut = FirstCards(s.paidOut, 2)
  BY <1>4
<1>10. /\ DOMAIN page.rows = DOMAIN s.settled
       /\ \A p \in DOMAIN s.settled :
           /\ page.rows[p].source = Money(s.settled[p].sourceAmount, s.settled[p].sourceAsset)
           /\ page.rows[p].target = Money(s.settled[p].targetAmount, s.settled[p].targetCurrency)
           /\ page.rows[p].txHash = s.settled[p].txHash
  BY <1>4
<1> QED BY <1>6, <1>7, <1>8, <1>9, <1>10

LEMMA GainPage ==
  ASSUME NEW ledger, LedgerOK(ledger), NEW q \in Periods, NEW fx, fx = FxPage("ADMIN", ledger, q),
         NEW pdf, pdf = FxDownload(ledger, With(fx.link, "format", "pdf"))
  PROVE  /\ fx.cards.payments = Cardinality(DOMAIN pdf.rows)
         /\ DOMAIN fx.rows = DOMAIN pdf.rows
         /\ \A p \in DOMAIN pdf.rows : fx.rows[p].realized = pdf.rows[p].realized
         /\ \A c \in DOMAIN fx.aggregates : fx.aggregates[c].gainLoss = pdf.aggregates[c].gainLoss
<1>1. PICK range : range = ParseDateRange(q.from, q.to, q.month) OBVIOUS
<1>2. PICK scope : scope = Within(ledger, range) OBVIOUS
<1>3. PICK s : s = FxSummary(scope) OBVIOUS
<1>4. /\ fx.link = LinkOf(q, range)
      /\ fx.cards.payments = Cardinality(DOMAIN s.rows)
      /\ DOMAIN fx.rows = DOMAIN s.rows
      /\ \A p \in DOMAIN s.rows : fx.rows[p].realized = Money(s.rows[p].realized, s.rows[p].targetCurrency)
      /\ DOMAIN fx.aggregates = DOMAIN s.aggregates
      /\ \A c \in DOMAIN s.aggregates : fx.aggregates[c].gainLoss = Money(s.aggregates[c].gainLoss, c[2])
  BY <1>1, <1>2, <1>3 DEF FxPage
<1>5. pdf = FxDoc(s) BY <1>1, <1>2, <1>3, <1>4, LinkedFiles
<1>6. /\ DOMAIN pdf.rows = DOMAIN s.rows
      /\ \A p \in DOMAIN s.rows : pdf.rows[p].realized = Money(s.rows[p].realized, s.rows[p].targetCurrency)
      /\ \A c \in DOMAIN s.aggregates : pdf.aggregates[c].gainLoss = Money(s.aggregates[c].gainLoss, c[2])
  BY <1>5 DEF FxDoc
<1> QED BY <1>4, <1>6

LEMMA PagesDoAgree ==
  ASSUME NEW ledger, LedgerOK(ledger) PROVE PagesAgree(ledger)
<1>1. ASSUME NEW q \in Periods
      PROVE  /\ "error" \in DOMAIN ReportsPage("MEMBER", ledger, q)
             /\ "error" \in DOMAIN FxPage("MEMBER", ledger, q)
  <2>1. "MEMBER" # "ADMIN" OBVIOUS
  <2> QED BY <2>1 DEF ReportsPage, FxPage, NotFound
<1> QED BY <1>1, StatementPage, GainPage DEF PagesAgree

-----------------------------------------------------------------------------
(* The rows of a PDF. *)

Points == [page : Int, y : Int]

\* Further down on the page, or on a later one.
Beneath(a, b) == \/ b.page > a.page
                 \/ b.page = a.page /\ b.y >= a.y + 13

\* Where the cursor of a page can go.
LEMMA PointsMove ==
  ASSUME NEW at \in Points, NEW n \in Int
  PROVE  /\ EnsureSpace(at, n) \in Points /\ Below(at, n) \in Points
         /\ Below(at, n).page = at.page /\ Below(at, n).y = at.y + n
         /\ EnsureSpace(at, n).page >= at.page
         /\ EnsureSpace(at, n).page = at.page => EnsureSpace(at, n) = at
<1>1. at.page \in Int /\ at.y \in Int /\ at = [page |-> at.page, y |-> at.y]
  BY DEF Points
<1>2. Below(at, n) = [page |-> at.page, y |-> at.y + n] BY <1>1 DEF Below, Points
<1>3. EnsureSpace(at, n) = at \/ EnsureSpace(at, n) = [page |-> at.page + 1, y |-> 40]
  BY DEF EnsureSpace, Margin
<1> QED BY <1>1, <1>2, <1>3 DEF Points

LEMMA BelowIs ==
  ASSUME NEW at \in Points, NEW n \in Int, NEW b, b = Below(at, n)
  PROVE  b \in Points /\ b.page = at.page /\ b.y = at.y + n
BY PointsMove

LEMMA Moved ==
  \A at \in Points : \A n \in Int : EnsureSpace(at, n) \in Points /\ Below(at, n) \in Points
BY PointsMove

\* The row after one at "a", wherever it is printed.
LEMMA NextIsBeneath ==
  ASSUME NEW a \in Points, NEW b \in Points, b.page = a.page, b.y >= a.y + 13, NEW n \in Int
  PROVE  Beneath(a, EnsureSpace(b, n))
<1>1. PICK c : c = EnsureSpace(b, n) OBVIOUS
<1>2. c.page >= b.page /\ (c.page = b.page => c = b) BY <1>1, PointsMove
<1>3. c \in Points BY <1>1, Moved
<1>4. c.page \in Int /\ b.page \in Int /\ a.page \in Int BY <1>3 DEF Points
<1>5. c = b \/ c.page > b.page BY <1>2, <1>4
<1>6. Beneath(a, c)
  <2>1. CASE c = b BY <2>1 DEF Beneath
  <2>2. CASE c.page > b.page BY <2>2 DEF Beneath
  <2> QED BY <1>5, <2>1, <2>2
<1> QED BY <1>1, <1>6

\* A row begins where its 13 points still fit.
LEMMA RowFits ==
  ASSUME NEW a \in Points PROVE EnsureSpace(a, 14).y + 13 <= Bottom
<1>1. a.y \in Int BY DEF Points
<1>2. CASE a.y + 14 > Bottom BY <1>1, <1>2 DEF EnsureSpace, Bottom, Margin
<1>3. CASE ~(a.y + 14 > Bottom) BY <1>1, <1>3 DEF EnsureSpace, Bottom
<1> QED BY <1>2, <1>3

\* The cursors of one table.
Cursors(g, at, rows) ==
  g = [r \in 0 .. rows |-> IF r = 0 THEN Below(EnsureSpace(at, 48), 35)
                           ELSE Below(EnsureSpace(g[r - 1], 14), 13)]

LEMMA CursorsExist ==
  ASSUME NEW at \in Points, NEW rows \in Nat
  PROVE  \E g : Cursors(g, at, rows)
<1> DEFINE start == Below(EnsureSpace(at, 48), 35)
           step  == [x \in (1 .. rows) \X Points |-> Below(EnsureSpace(x[2], 14), 13)]
<1>1. start \in Points
  <2>1. EnsureSpace(at, 48) \in Points BY PointsMove
  <2> QED BY <2>1, PointsMove
<1>2. step \in [(1 .. rows) \X Points -> Points]
  <2>1. \A p \in Points : Below(EnsureSpace(p, 14), 13) \in Points
    <3> TAKE p \in Points
    <3>1. EnsureSpace(p, 14) \in Points BY PointsMove
    <3> QED BY <3>1, PointsMove
  <2> QED BY <2>1
<1>3. \A i \in 1 .. rows, p \in Points : step[<<i, p>>] = Below(EnsureSpace(p, 14), 13) OBVIOUS
<1> HIDE DEF start, step
<1>4. PICK x : Runs(x, rows, Points, start, step) BY <1>1, <1>2, RunsExist
<1>5. /\ x \in [0 .. rows -> Points] /\ x[0] = start
      /\ \A i \in 1 .. rows : x[i] = step[<<i, x[i - 1]>>]
  BY <1>4 DEF Runs
<1>6. ASSUME NEW r \in 0 .. rows, r # 0 PROVE x[r] = Below(EnsureSpace(x[r - 1], 14), 13)
  <2>1. r \in 1 .. rows /\ r - 1 \in 0 .. rows BY <1>6
  <2>2. x[r - 1] \in Points BY <1>5, <2>1
  <2> QED BY <1>3, <1>5, <2>1, <2>2
<1>7. x = [r \in 0 .. rows |-> x[r]] BY <1>5
<1>8. x = [r \in 0 .. rows |-> IF r = 0 THEN Below(EnsureSpace(at, 48), 35)
                               ELSE Below(EnsureSpace(x[r - 1], 14), 13)]
  <2>1. \A r \in 0 .. rows : x[r] = IF r = 0 THEN Below(EnsureSpace(at, 48), 35)
                                    ELSE Below(EnsureSpace(x[r - 1], 14), 13)
    BY <1>5, <1>6 DEF start
  <2> QED BY <1>7, <2>1
<1> QED BY <1>8 DEF Cursors

\* The cursor after each row of a table.
LEMMA CursorsAre ==
  ASSUME NEW at \in Points, NEW rows \in Nat, NEW g, g = RowCursors(at, rows)
  PROVE  /\ g[0] = Below(EnsureSpace(at, 48), 35)
         /\ \A r \in 1 .. rows : g[r] = Below(EnsureSpace(g[r - 1], 14), 13)
         /\ \A r \in 0 .. rows : g[r] \in Points
<1>1. Cursors(g, at, rows)
  <2> DEFINE after == CHOOSE h : h = [r \in 0 .. rows |->
                        IF r = 0 THEN Below(EnsureSpace(at, 48), 35)
                        ELSE Below(EnsureSpace(h[r - 1], 14), 13)]
  <2>1. g = after BY DEF RowCursors
  <2>2. \E h : Cursors(h, at, rows) BY CursorsExist
  <2>3. Cursors(after, at, rows) BY <2>2, Zenon DEF Cursors
  <2> QED BY <2>1, <2>3
<1>2. \A r \in 0 .. rows : g[r] = IF r = 0 THEN Below(EnsureSpace(at, 48), 35)
                                  ELSE Below(EnsureSpace(g[r - 1], 14), 13)
  BY <1>1, Zenon DEF Cursors
<1>3. 0 \in 0 .. rows /\ \A r \in 1 .. rows : r \in 0 .. rows /\ r # 0 OBVIOUS
<1>4. g[0] = Below(EnsureSpace(at, 48), 35)
      /\ \A r \in 1 .. rows : g[r] = Below(EnsureSpace(g[r - 1], 14), 13)
  BY <1>2, <1>3
<1> DEFINE Bad == {r \in 0 .. rows : g[r] \notin Points}
<1>5. 0 \notin Bad
  <2>1. 48 \in Int /\ 35 \in Int OBVIOUS
  <2> QED BY <1>4, <2>1, Moved
<1>6. \A r \in 1 .. rows : r \in Bad => r - 1 \in Bad
  <2> SUFFICES ASSUME NEW r \in 1 .. rows, g[r - 1] \in Points PROVE g[r] \in Points OBVIOUS
  <2>1. 14 \in Int /\ 13 \in Int OBVIOUS
  <2> QED BY <1>4, <2>1, Moved
<1>7. Bad = {}
  <2> HIDE DEF Bad
  <2>1. Bad \in SUBSET (0 .. rows) BY DEF Bad
  <2> QED BY <1>5, <1>6, <2>1, NoCounterexample
<1> QED BY <1>4, <1>7

\* The rows of one table: each fits, each beneath the one before it.
LEMMA TableFits ==
  ASSUME NEW at \in Points, NEW rows \in Nat, NEW g, g = RowCursors(at, rows)
  PROVE  /\ \A r \in 1 .. rows : /\ EnsureSpace(g[r - 1], 14) \in Points
                                 /\ EnsureSpace(g[r - 1], 14).y + 13 <= Bottom
         /\ \A r \in 2 .. rows : Beneath(EnsureSpace(g[r - 2], 14), EnsureSpace(g[r - 1], 14))
<1>1. ASSUME NEW r \in 1 .. rows
      PROVE  EnsureSpace(g[r - 1], 14) \in Points /\ EnsureSpace(g[r - 1], 14).y + 13 <= Bottom
  <2>1. r - 1 \in 0 .. rows /\ 14 \in Int OBVIOUS
  <2>2. \A i \in 0 .. rows : g[i] \in Points BY CursorsAre
  <2>3. g[r - 1] \in Points BY <2>1, <2>2
  <2> QED BY <2>1, <2>3, Moved, RowFits
<1>2. ASSUME NEW r \in 2 .. rows
      PROVE  Beneath(EnsureSpace(g[r - 2], 14), EnsureSpace(g[r - 1], 14))
  <2>1. PICK a, b : a = EnsureSpace(g[r - 2], 14) /\ b = g[r - 1] OBVIOUS
  <2>2. r - 1 \in 1 .. rows /\ (r - 1) - 1 = r - 2 OBVIOUS
  <2>3. a \in Points BY <1>1, <2>1, <2>2
  <2>4. b = Below(a, 13)
    <3>1. g[r - 1] = Below(EnsureSpace(g[(r - 1) - 1], 14), 13) BY <2>2, CursorsAre
    <3> QED BY <2>1, <2>2, <3>1
  <2>i. 13 \in Int OBVIOUS
  <2>5. b \in Points /\ b.page = a.page /\ b.y = a.y + 13 BY <2>i, <2>3, <2>4, PointsMove
  <2>6. b.y >= a.y + 13 BY <2>3, <2>5 DEF Points
  <2> QED BY <2>1, <2>3, <2>5, <2>6, NextIsBeneath
<1> QED BY <1>1, <1>2

\* The recursion over the tables, for two of them.
Tables(f, summary, tables) ==
  f = [t \in 0 .. Len(tables) |->
        IF t = 0 THEN Top(summary)
        ELSE LET last == RowCursors(f[t - 1], tables[t])[tables[t]]
             IN Below(last, IF tables[t] = 0 THEN 30 ELSE 14)]

After(at, rows) == Below(RowCursors(at, rows)[rows], IF rows = 0 THEN 30 ELSE 14)

LEMMA TopIs == ASSUME NEW summary \in Nat PROVE Top(summary) \in Points
<1>1. PICK y : y = 92 + IF summary = 0 THEN 0 ELSE 16 * ((summary - 1) \div 2) + 28 OBVIOUS
<1>2. y \in Int
  <2>1. CASE summary = 0 BY <1>1, <2>1
  <2>2. CASE summary # 0
    <3>1. summary - 1 \in Nat BY <2>2
    <3>2. (summary - 1) \div 2 \in Int BY <3>1
    <3> QED BY <1>1, <2>2, <3>2
  <2> QED BY <2>1, <2>2
<1>3. Top(summary) = [page |-> 1, y |-> y] BY <1>1 DEF Top
<1> QED BY <1>2, <1>3 DEF Points

LEMMA AfterIs ==
  ASSUME NEW at \in Points, NEW rows \in Nat PROVE After(at, rows) \in Points
<1>1. PICK g : g = RowCursors(at, rows) OBVIOUS
<1>2. g[rows] \in Points
  <2>1. rows \in 0 .. rows OBVIOUS
  <2> QED BY <1>1, <2>1, CursorsAre
<1>3. 30 \in Int /\ 14 \in Int OBVIOUS
<1> QED BY <1>1, <1>2, <1>3, Moved DEF After

\* The two tables of a report, one below the other.
LEMMA RenderIs ==
  ASSUME NEW summary \in Nat, NEW n \in Nat, NEW m \in Nat,
         NEW a, a = Top(summary), NEW b, b = After(a, n),
         NEW rows, rows = RenderReportPdf(summary, <<n, m>>)
  PROVE  /\ \A r \in 1 .. n : rows[1][r] = EnsureSpace(RowCursors(a, n)[r - 1], 14)
         /\ \A r \in 1 .. m : rows[2][r] = EnsureSpace(RowCursors(b, m)[r - 1], 14)
<1>1. PICK tables : tables = <<n, m>> OBVIOUS
<1>2. Len(tables) = 2 /\ tables[1] = n /\ tables[2] = m /\ DOMAIN tables = 1 .. 2 BY <1>1
<1> DEFINE from == CHOOSE f : f = [t \in 0 .. Len(tables) |->
                     IF t = 0 THEN Top(summary)
                     ELSE LET last == RowCursors(f[t - 1], tables[t])[tables[t]]
                          IN Below(last, IF tables[t] = 0 THEN 30 ELSE 14)]
<1>3. RenderReportPdf(summary, tables) = [t \in DOMAIN tables |->
        [r \in 1 .. tables[t] |-> EnsureSpace(RowCursors(from[t - 1], tables[t])[r - 1], 14)]]
  BY DEF RenderReportPdf
<1>4. \E f : Tables(f, summary, tables)
  <2> DEFINE f == [t \in 0 .. 2 |-> IF t = 0 THEN a ELSE IF t = 1 THEN b ELSE After(b, m)]
  <2>1. f[0] = a /\ f[1] = b /\ f[2] = After(b, m) /\ f = [t \in 0 .. 2 |-> f[t]]
    <3>1. 0 \in 0 .. 2 /\ 1 \in 0 .. 2 /\ 2 \in 0 .. 2 OBVIOUS
    <3> QED BY <3>1
  <2> HIDE DEF f
  <2>2. ASSUME NEW t \in 0 .. 2
        PROVE  f[t] = IF t = 0 THEN Top(summary) ELSE After(f[t - 1], tables[t])
    <3>1. t = 0 \/ t = 1 \/ t = 2 OBVIOUS
    <3>2. 1 - 1 = 0 /\ 2 - 1 = 1 OBVIOUS
    <3> QED BY <1>2, <2>1, <3>1, <3>2
  <2>3. f = [t \in 0 .. 2 |-> IF t = 0 THEN Top(summary) ELSE After(f[t - 1], tables[t])]
    BY <2>1, <2>2
  <2>4. Tables(f, summary, tables) BY <1>2, <2>3, Zenon DEF Tables, After
  <2> QED BY <2>4
<1>5. Tables(from, summary, tables) BY <1>4, Zenon DEF Tables
<1> HIDE DEF from
<1>6. \A t \in 0 .. 2 : from[t] = IF t = 0 THEN Top(summary) ELSE After(from[t - 1], tables[t])
  BY <1>2, <1>5, Zenon DEF Tables, After
<1>7. from[0] = a /\ from[1] = b
  <2>1. 0 \in 0 .. 2 /\ 1 \in 0 .. 2 /\ 1 # 0 /\ 1 - 1 = 0 OBVIOUS
  <2>2. from[0] = Top(summary) BY <1>6, <2>1
  <2>3. from[1] = After(from[1 - 1], tables[1]) BY <1>6, <2>1
  <2> QED BY <1>2, <2>1, <2>2, <2>3
<1>8. 1 \in DOMAIN tables /\ 2 \in DOMAIN tables /\ 1 - 1 = 0 /\ 2 - 1 = 1 BY <1>2
<1>9. rows[1] = [r \in 1 .. tables[1] |-> EnsureSpace(RowCursors(from[1 - 1], tables[1])[r - 1], 14)]
  BY <1>1, <1>3, <1>8
<1>10. rows[2] = [r \in 1 .. tables[2] |-> EnsureSpace(RowCursors(from[2 - 1], tables[2])[r - 1], 14)]
  BY <1>1, <1>3, <1>8
<1>11. rows[1] = [r \in 1 .. n |-> EnsureSpace(RowCursors(a, n)[r - 1], 14)]
  BY <1>2, <1>7, <1>8, <1>9
<1>12. rows[2] = [r \in 1 .. m |-> EnsureSpace(RowCursors(b, m)[r - 1], 14)]
  BY <1>2, <1>7, <1>8, <1>10
<1> QED BY <1>11, <1>12

AllRows(summary, n, m) ==
  LET rows == RenderReportPdf(summary, <<n, m>>)
  IN [i \in 1 .. n + m |-> IF i <= n THEN rows[1][i] ELSE rows[2][i - n]]

\* Whatever is printed above them, and however many rows the two tables of a report
\* have, none is printed below the end of a page or over the one before it.
THEOREM EveryRowFitsItsPage ==
  ASSUME NEW summary \in Nat, NEW n \in Nat, NEW m \in Nat,
         NEW all, all = AllRows(summary, n, m)
  PROVE  /\ \A i \in DOMAIN all : all[i].y + 13 <= Bottom
         /\ \A i \in 2 .. n + m : Beneath(all[i - 1], all[i])
<1>r. PICK rows : rows = RenderReportPdf(summary, <<n, m>>) OBVIOUS
<1>s. all = [i \in 1 .. n + m |-> IF i <= n THEN rows[1][i] ELSE rows[2][i - n]]
  BY <1>r DEF AllRows
<1>1. PICK a, b : a = Top(summary) /\ b = After(a, n) OBVIOUS
<1>2. a \in Points /\ b \in Points BY <1>1, TopIs, AfterIs
<1>3. PICK g, h : g = RowCursors(a, n) /\ h = RowCursors(b, m) OBVIOUS
<1>4. /\ \A r \in 1 .. n : rows[1][r] = EnsureSpace(g[r - 1], 14)
      /\ \A r \in 1 .. m : rows[2][r] = EnsureSpace(h[r - 1], 14)
  BY <1>r, <1>1, <1>3, RenderIs
<1>5. /\ \A r \in 1 .. n : /\ EnsureSpace(g[r - 1], 14) \in Points
                           /\ EnsureSpace(g[r - 1], 14).y + 13 <= Bottom
      /\ \A r \in 2 .. n : Beneath(EnsureSpace(g[r - 2], 14), EnsureSpace(g[r - 1], 14))
  BY <1>2, <1>3, TableFits
<1>6. /\ \A r \in 1 .. m : /\ EnsureSpace(h[r - 1], 14) \in Points
                           /\ EnsureSpace(h[r - 1], 14).y + 13 <= Bottom
      /\ \A r \in 2 .. m : Beneath(EnsureSpace(h[r - 2], 14), EnsureSpace(h[r - 1], 14))
  BY <1>2, <1>3, TableFits
<1>7. \A i \in 1 .. n : all[i] = rows[1][i]
  <2>1. \A i \in 1 .. n : i \in 1 .. n + m /\ i <= n OBVIOUS
  <2> QED BY <1>s, <2>1
<1>8. \A i \in n + 1 .. n + m : all[i] = rows[2][i - n]
  <2>1. \A i \in n + 1 .. n + m : i \in 1 .. n + m /\ ~(i <= n) OBVIOUS
  <2> QED BY <1>s, <2>1
<1>9. DOMAIN all = 1 .. n + m BY <1>s
<1>10. ASSUME NEW i \in 1 .. n + m PROVE all[i].y + 13 <= Bottom
  <2>1. CASE i \in 1 .. n BY <1>4, <1>5, <1>7, <2>1
  <2>2. CASE i \in n + 1 .. n + m
    <3>1. i - n \in 1 .. m BY <2>2
    <3> QED BY <1>4, <1>6, <1>8, <2>2, <3>1
  <2> QED BY <2>1, <2>2
<1>11. ASSUME NEW i \in 2 .. n + m PROVE Beneath(all[i - 1], all[i])
  <2>1. CASE i \in 2 .. n
    <3>1. i \in 1 .. n /\ i - 1 \in 1 .. n /\ (i - 1) - 1 = i - 2 BY <2>1
    <3>2. all[i] = EnsureSpace(g[i - 1], 14) BY <1>4, <1>7, <3>1
    <3>3. all[i - 1] = EnsureSpace(g[i - 2], 14) BY <1>4, <1>7, <3>1
    <3> QED BY <1>5, <2>1, <3>2, <3>3
  <2>2. CASE i \in n + 2 .. n + m
    <3>1. PICK r : r = i - n OBVIOUS
    <3>2. r \in 2 .. m /\ r \in 1 .. m /\ r - 1 \in 1 .. m /\ (r - 1) - 1 = r - 2 /\ (i - 1) - n = r - 1
          /\ i \in n + 1 .. n + m /\ i - 1 \in n + 1 .. n + m
      BY <2>2, <3>1
    <3>3. all[i] = rows[2][r] BY <1>8, <3>1, <3>2
    <3>4. all[i - 1] = rows[2][r - 1]
      <4>1. all[i - 1] = rows[2][(i - 1) - n] BY <1>8, <3>2
      <4> QED BY <3>2, <4>1
    <3>5. rows[2][r] = EnsureSpace(h[r - 1], 14) BY <1>4, <3>2
    <3>6. rows[2][r - 1] = EnsureSpace(h[r - 2], 14) BY <1>4, <3>2
    <3> QED BY <1>6, <3>2, <3>3, <3>4, <3>5, <3>6
  <2>3. CASE i = n + 1
    <3>1. n \in 1 .. n /\ i - 1 = n /\ 1 \in 1 .. m /\ i \in n + 1 .. n + m /\ i - n = 1 /\ 1 - 1 = 0
          /\ n \in Nat \ {0}
      BY <2>3
    <3>2. PICK e : e = EnsureSpace(g[n - 1], 14) OBVIOUS
    <3>3. e \in Points /\ all[i - 1] = e BY <1>4, <1>5, <1>7, <3>1, <3>2
    <3>4. all[i] = EnsureSpace(h[0], 14)
      <4>1. rows[2][1] = EnsureSpace(h[1 - 1], 14) BY <1>4, <3>1
      <4> QED BY <1>8, <3>1, <4>1
    <3>5. g[n] = Below(e, 13) BY <1>2, <1>3, <3>1, <3>2, CursorsAre
    <3>6. h[0] = Below(EnsureSpace(b, 48), 35) BY <1>2, <1>3, CursorsAre
    <3>7. b = Below(g[n], 14) BY <1>1, <1>3, <3>1 DEF After
    <3>8. 13 \in Int /\ 14 \in Int /\ 35 \in Int /\ 48 \in Int OBVIOUS
    <3>9. g[n] \in Points /\ g[n].page = e.page /\ g[n].y = e.y + 13 BY <3>3, <3>5, <3>8, BelowIs
    <3>10. b.page = e.page /\ b.y = e.y + 13 + 14
      <4>1. b.page = g[n].page /\ b.y = g[n].y + 14 BY <3>7, <3>8, <3>9, BelowIs
      <4> QED BY <3>9, <4>1
    <3>11. PICK c : c = EnsureSpace(b, 48) OBVIOUS
    <3>12. c \in Points /\ Beneath(e, c)
      <4>1. b.y >= e.y + 13 BY <3>3, <3>10 DEF Points
      <4> QED BY <1>2, <3>3, <3>8, <3>10, <3>11, <4>1, Moved, NextIsBeneath
    <3>13. h[0] \in Points /\ h[0].page = c.page /\ h[0].y = c.y + 35
      <4>1. h[0] = Below(c, 35) BY <3>6, <3>11
      <4> QED BY <3>8, <3>12, <4>1, BelowIs
    <3>14. PICK d : d = EnsureSpace(h[0], 14) OBVIOUS
    <3>15. d \in Points /\ d.page >= h[0].page /\ (d.page = h[0].page => d = h[0])
      BY <3>8, <3>13, <3>14, PointsMove
    <3>16. Beneath(e, d)
      <4>1. /\ e.page \in Int /\ c.page \in Int /\ d.page \in Int /\ h[0].page \in Int
            /\ e.y \in Int /\ c.y \in Int /\ d.y \in Int /\ h[0].y \in Int
        BY <3>3, <3>12, <3>13, <3>15 DEF Points
      <4>2. c.page > e.page \/ (c.page = e.page /\ c.y >= e.y + 13) BY <3>12 DEF Beneath
      <4>3. CASE d.page = h[0].page
        <5>1. d.page = c.page /\ d.y = c.y + 35 BY <3>13, <3>15, <4>3
        <5>2. CASE c.page > e.page
          <6>1. d.page > e.page BY <5>1, <5>2
          <6> QED BY <6>1 DEF Beneath
        <5>3. CASE c.page = e.page /\ c.y >= e.y + 13
          <6>1. d.page = e.page /\ d.y >= e.y + 13 BY <4>1, <5>1, <5>3
          <6> QED BY <6>1 DEF Beneath
        <5> QED BY <4>2, <5>2, <5>3
      <4>4. CASE d.page # h[0].page
        <5>1. d.page > e.page BY <3>13, <3>15, <4>1, <4>2, <4>4
        <5> QED BY <5>1 DEF Beneath
      <4> QED BY <4>3, <4>4
    <3> QED BY <3>3, <3>4, <3>14, <3>16
  <2> QED BY <2>1, <2>2, <2>3
<1> QED BY <1>9, <1>10, <1>11

LEMMA PagesDoHold == PagesHoldTheirRows
<1> SUFFICES ASSUME NEW summary \in {0, 5, 14}, NEW n \in {0, 1, 23, 33}, NEW m \in {0, 1, 33}
             PROVE  LET rows == RenderReportPdf(summary, <<n, m>>)
                        all  == [i \in 1 .. n + m |-> IF i <= n THEN rows[1][i] ELSE rows[2][i - n]]
                    IN /\ \A i \in DOMAIN all : all[i].y + 13 <= Bottom
                       /\ \A i \in 2 .. n + m :
                            \/ all[i].page > all[i - 1].page
                            \/ all[i].page = all[i - 1].page /\ all[i].y >= all[i - 1].y + 13
  BY DEF PagesHoldTheirRows
<1>1. summary \in Nat /\ n \in Nat /\ m \in Nat OBVIOUS
<1>2. PICK all : all = AllRows(summary, n, m) OBVIOUS
<1>3. /\ \A i \in DOMAIN all : all[i].y + 13 <= Bottom
      /\ \A i \in 2 .. n + m : Beneath(all[i - 1], all[i])
  BY <1>1, <1>2, EveryRowFitsItsPage
<1> QED BY <1>2, <1>3 DEF Beneath, AllRows

-----------------------------------------------------------------------------
(* The seeded rows. *)

Fields == {"status", "day", "method", "asset", "source", "target", "quote", "position",
           "onchain", "fiat", "receipt"}

\* What the scripts write of every payment.
Basic(p) ==
  /\ DOMAIN p = Fields
  /\ p.status \in PAYMENT_STATUSES /\ p.day \in Int /\ p.source \in Int /\ p.quote \in Int
  /\ p.asset \in Currencies /\ p.target \in Currencies /\ p.position = "none"

\* A receipt of the scripts' beside the legs of its payment.
ReceiptOK(p) ==
  \/ p.receipt = None
  \/ /\ p.receipt.id # None
     /\ p.receipt.sourceAmount \in {None, p.source}
     /\ p.receipt.targetAmount \in Int \cup {None}
     /\ p.receipt.targetAmount # None =>
          /\ p.receipt.sourceAsset # None /\ p.receipt.sourceAmount # None
          /\ p.receipt.targetCurrency # None
     /\ \/ /\ p.onchain # None => p.receipt.txHash = p.onchain.txHash
           /\ p.fiat # None => p.receipt.bankRef = p.fiat.bankRef
        \/ /\ p.receipt.targetAmount = None
           /\ p.receipt.txHash = None /\ p.receipt.bankRef = None

SeededRow(p) == /\ Basic(p) /\ ReceiptOK(p)
                /\ p.fiat # None => p.fiat.amount \in Int

\* A row the scripts write is one the reports may find.
LEMMA SeededIsOK ==
  ASSUME NEW p, SeededRow(p)
  PROVE  RowOK(p)
<1> USE DEF SeededRow, Basic, ReceiptOK
<1>1. {"status", "fiat", "receipt"} \subseteq DOMAIN p BY DEF Fields
<1>2. Stored(p, "sourceAmount") \in {None, p.source} BY DEF Stored
<1>3. ~YieldException(p) BY DEF YieldException
<1>4. Figures(FxRow(p))
  <2>1. PICK leg : leg = IF p.fiat = None THEN None ELSE p.fiat.amount OBVIOUS
  <2>2. leg = None \/ leg \in Int BY <2>1
  <2>3. Stored(p, "targetAmount") \in Int \cup {None} BY DEF Stored
  <2>4. p.quote \in Int /\ p.quote # None BY NoneIs
  <2>5. /\ FxRow(p).realized = Or(Stored(p, "targetAmount"), Or(leg, Or(p.quote, 0)))
        /\ FxRow(p).reference = Or(p.quote, FxRow(p).realized)
        /\ FxRow(p).gainLoss = FxRow(p).realized - FxRow(p).reference
    BY <2>1 DEF FxRow
  <2>6. FxRow(p).realized \in Int BY <2>2, <2>3, <2>4, <2>5 DEF Or
  <2>7. FxRow(p).reference \in Int BY <2>4, <2>5 DEF Or
  <2> QED BY <2>5, <2>6, <2>7 DEF Figures
<1>5. p.receipt # None => p.receipt.id # None OBVIOUS
<1>6. p.receipt # None /\ p.receipt.targetAmount # None =>
        /\ p.receipt.sourceAsset # None /\ p.receipt.sourceAmount # None
        /\ p.receipt.targetCurrency # None
        /\ Or(p.receipt.txHash, LegTx(p)) = p.receipt.txHash
        /\ Or(p.receipt.bankRef, LegRef(p)) = p.receipt.bankRef
  BY DEF Or, LegTx, LegRef
<1> QED BY <1>1, <1>2, <1>3, <1>4, <1>5, <1>6 DEF RowOK

\* Its legs are what its documents tell.
LEMMA SeededShowsLegs ==
  ASSUME NEW p, SeededRow(p)
  PROVE  /\ p.onchain # None => p.onchain.txHash = Entry(p).txHash
         /\ p.fiat # None => p.fiat.bankRef = Entry(p).bankRef
<1>1. CASE p.receipt = None BY <1>1 DEF Entry, Stored, Or, LegTx, LegRef
<1>2. CASE p.receipt # None
  <2>1. PICK r : r = p.receipt OBVIOUS
  <2>2. Entry(p).txHash = Or(r.txHash, LegTx(p)) /\ Entry(p).bankRef = Or(r.bankRef, LegRef(p))
    BY <1>2, <2>1 DEF Entry, Stored
  <2>3. \/ /\ p.onchain # None => r.txHash = p.onchain.txHash
           /\ p.fiat # None => r.bankRef = p.fiat.bankRef
        \/ r.txHash = None /\ r.bankRef = None
    BY <1>2, <2>1 DEF SeededRow, ReceiptOK
  <2> QED BY <2>2, <2>3 DEF Or, LegTx, LegRef
<1> QED BY <1>1, <1>2

\* Payments before their legs and receipts.
BarePayment(p) == Basic(p) /\ p.onchain = None /\ p.fiat = None /\ p.receipt = None

LEMMA PlainIs ==
  ASSUME NEW s \in PAYMENT_STATUSES, NEW ago \in Int, NEW asset \in Currencies, NEW amount \in Int,
         NEW target \in Currencies, NEW quote \in Int, NEW p, p = Demo!Plain(s, ago, asset, amount, target, quote)
  PROVE  BarePayment(p) /\ p.status = s
BY DEF BarePayment, Basic, Fields, Demo!Plain

LEMMA UsdIs ==
  ASSUME NEW s \in PAYMENT_STATUSES, NEW ago \in Int, NEW amount \in Int,
         NEW p, p = Demo!UsdPhp(s, ago, amount)
  PROVE  BarePayment(p) /\ p.status = s
<1>1. amount * Demo!PhpPerUsd \in Int BY DEF Demo!PhpPerUsd
<1>2. "USDC" \in Currencies /\ "PHP" \in Currencies BY DEF Currencies
<1> QED BY <1>1, <1>2, PlainIs DEF Demo!UsdPhp

\* A payment of a pool, in its own currency or in pesos.
LEMMA PoolIs ==
  ASSUME NEW s \in PAYMENT_STATUSES, NEW ago \in Int, NEW amount \in Int, NEW method,
         NEW p, p = Demo!Pool(s, ago, amount, method)
  PROVE  BarePayment(p) /\ p.status = s
<1>1. amount * Demo!PhpPerXlm \in Int BY DEF Demo!PhpPerXlm
<1>2. PICK bank \in BOOLEAN : bank = (method = "POOL_BANK") OBVIOUS
<1>3. PICK target : target = IF bank THEN "PHP" ELSE "XLM" OBVIOUS
<1>4. PICK quote : quote = IF bank THEN amount * Demo!PhpPerXlm ELSE amount OBVIOUS
<1>5. "XLM" \in Currencies /\ target \in Currencies /\ quote \in Int BY <1>1, <1>3, <1>4 DEF Currencies
<1>6. PICK b : b = Demo!Plain(s, ago, "XLM", amount, target, quote) OBVIOUS
<1>7. BarePayment(b) /\ b.status = s BY <1>5, <1>6, PlainIs
<1>8. p = [b EXCEPT !.method = method] BY <1>2, <1>3, <1>4, <1>6 DEF Demo!Pool
<1> QED BY <1>7, <1>8 DEF BarePayment, Basic, Fields

\* The payment with its legs.
LEMMA SentIs ==
  ASSUME NEW p, BarePayment(p), NEW id, NEW s, NEW x, x = Demo!Sent(id, p, s)
  PROVE  /\ Basic(x) /\ x.status = p.status /\ x.fiat = None /\ x.receipt = None
         /\ x.source = p.source /\ x.quote = p.quote /\ x.asset = p.asset /\ x.target = p.target
         /\ x.onchain = [txHash |-> <<"tx", id>>, status |-> s]
<1>1. x = [p EXCEPT !.onchain = [txHash |-> <<"tx", id>>, status |-> s]]
  BY DEF Demo!Sent, Demo!Onchain
<1> QED BY <1>1 DEF BarePayment, Basic, Fields

\* The payment that has reached a bank.
LEMMA BankedIs ==
  ASSUME NEW p, BarePayment(p), NEW id, NEW x, x = Demo!Banked(id, p)
  PROVE  /\ Basic(x) /\ x.status = p.status /\ x.receipt = None
         /\ x.source = p.source /\ x.quote = p.quote /\ x.asset = p.asset /\ x.target = p.target
         /\ x.onchain = [txHash |-> <<"tx", id>>, status |-> "CONFIRMED"]
         /\ x.fiat = [bankRef |-> <<"ref", id>>, amount |-> p.quote]
<1>1. PICK y : y = Demo!Sent(id, p, "CONFIRMED") OBVIOUS
<1>2. x = [y EXCEPT !.fiat = [bankRef |-> <<"ref", id>>, amount |-> p.quote]]
  BY <1>1 DEF Demo!Banked, Demo!FiatLeg
<1> QED BY <1>1, <1>2, SentIs DEF Basic, Fields

LEMMA IdIs == \A id \in SeededIds : <<"rcpt", id>> # None
BY NullAssumption

LEMMA BareIsSeeded == ASSUME NEW p, BarePayment(p) PROVE SeededRow(p)
BY DEF SeededRow, ReceiptOK, BarePayment

LEMMA SentIsSeeded ==
  ASSUME NEW p, BarePayment(p), NEW id, NEW s PROVE SeededRow(Demo!Sent(id, p, s))
<1>1. PICK x : x = Demo!Sent(id, p, s) OBVIOUS
<1>2. x = [p EXCEPT !.onchain = [txHash |-> <<"tx", id>>, status |-> s]]
  BY <1>1 DEF Demo!Sent, Demo!Onchain
<1>3. Basic(x) /\ x.receipt = None /\ x.fiat = None BY <1>2 DEF BarePayment, Basic, Fields
<1> QED BY <1>1, <1>3 DEF SeededRow, ReceiptOK

LEMMA BankedIsSeeded ==
  ASSUME NEW p, BarePayment(p), NEW id PROVE SeededRow(Demo!Banked(id, p))
<1>1. PICK y, x : y = Demo!Sent(id, p, "CONFIRMED") /\ x = Demo!Banked(id, p) OBVIOUS
<1>2. y = [p EXCEPT !.onchain = [txHash |-> <<"tx", id>>, status |-> "CONFIRMED"]]
  BY <1>1 DEF Demo!Sent, Demo!Onchain
<1>3. x = [y EXCEPT !.fiat = [bankRef |-> <<"ref", id>>, amount |-> p.quote]]
  BY <1>1 DEF Demo!Banked, Demo!FiatLeg
<1>4. Basic(x) /\ x.receipt = None /\ x.fiat = [bankRef |-> <<"ref", id>>, amount |-> p.quote]
      /\ p.quote \in Int
  BY <1>2, <1>3 DEF BarePayment, Basic, Fields
<1> QED BY <1>1, <1>4 DEF SeededRow, ReceiptOK

\* A receipt that tells the legs of its payment.
LEMMA ReceiptIsSeeded ==
  ASSUME NEW x, Basic(x), NEW r, r.id # None, r.sourceAsset # None, r.targetCurrency # None,
         x.fiat # None => x.fiat.amount \in Int,
         r.sourceAmount = x.source, r.targetAmount \in Int,
         x.onchain # None => r.txHash = x.onchain.txHash,
         x.fiat # None => r.bankRef = x.fiat.bankRef
  PROVE  SeededRow([x EXCEPT !.receipt = r])
<1>1. PICK y : y = [x EXCEPT !.receipt = r] OBVIOUS
<1>2. /\ Basic(y) /\ y.receipt = r /\ y.fiat = x.fiat /\ y.onchain = x.onchain /\ y.source = x.source
  BY <1>1 DEF Basic, Fields
<1>4. y.source # None BY <1>2, NoneIs DEF Basic
<1> QED BY <1>1, <1>2, <1>4 DEF SeededRow, ReceiptOK

LEMMA FiatReceiptIsSeeded ==
  ASSUME NEW p, BarePayment(p), NEW id \in SeededIds PROVE SeededRow(Demo!WithFiatReceipt(id, p))
<1>1. PICK x : x = Demo!Banked(id, p) OBVIOUS
<1>2. PICK r : r = Receipt(<<"rcpt", id>>, p.asset, p.source, p.target, p.quote, <<"tx", id>>, <<"ref", id>>)
  OBVIOUS
<1>3. Demo!WithFiatReceipt(id, p) = [x EXCEPT !.receipt = r]
  BY <1>1, <1>2 DEF Demo!WithFiatReceipt, Demo!Receipt, Receipt
<1>4. /\ Basic(x) /\ x.source = p.source
      /\ x.onchain = [txHash |-> <<"tx", id>>, status |-> "CONFIRMED"]
      /\ x.fiat = [bankRef |-> <<"ref", id>>, amount |-> p.quote]
  BY <1>1, BankedIs
<1>5. p.asset # None /\ p.target # None /\ p.quote \in Int BY NoneIs DEF BarePayment, Basic
<1>6. /\ r.id # None /\ r.sourceAsset = p.asset /\ r.targetCurrency = p.target
      /\ r.sourceAmount = p.source /\ r.targetAmount = p.quote
      /\ r.txHash = <<"tx", id>> /\ r.bankRef = <<"ref", id>>
  BY <1>2, IdIs DEF Receipt
<1>7. x.onchain.txHash = r.txHash /\ x.fiat.bankRef = r.bankRef /\ x.fiat.amount \in Int
  BY <1>4, <1>5, <1>6
<1> QED BY <1>3, <1>4, <1>5, <1>6, <1>7, ReceiptIsSeeded

LEMMA PoolReceiptIsSeeded ==
  ASSUME NEW p, BarePayment(p), NEW id \in SeededIds PROVE SeededRow(Demo!WithPoolReceipt(id, p))
<1>1. PICK x : x = Demo!Sent(id, p, "CONFIRMED") OBVIOUS
<1>2. PICK r : r = Receipt(<<"rcpt", id>>, "XLM", p.source, "XLM", p.source, <<"tx", id>>, None)
  OBVIOUS
<1>3. Demo!WithPoolReceipt(id, p) = [x EXCEPT !.receipt = r]
  BY <1>1, <1>2 DEF Demo!WithPoolReceipt, Demo!Receipt, Receipt
<1>4. /\ Basic(x) /\ x.source = p.source /\ x.fiat = None
      /\ x.onchain = [txHash |-> <<"tx", id>>, status |-> "CONFIRMED"]
  BY <1>1, SentIs
<1>5. "XLM" # None /\ p.source \in Int BY NoneIs DEF BarePayment, Basic, Currencies
<1>6. /\ r.id # None /\ r.sourceAsset # None /\ r.targetCurrency # None
      /\ r.sourceAmount = p.source /\ r.targetAmount = p.source /\ r.txHash = <<"tx", id>>
  BY <1>2, <1>5, IdIs DEF Receipt
<1>7. x.onchain.txHash = r.txHash BY <1>4, <1>6
<1> QED BY <1>3, <1>4, <1>5, <1>6, <1>7, ReceiptIsSeeded

\* The batch script gives a settled child a receipt without figures, others none.
LEMMA ChildIsSeeded ==
  ASSUME NEW id, NEW amount \in Int, NEW ago \in Int,
         NEW dest \in {"WALLET", "BANK", "FAILED", "PENDING_WALLET", "PENDING_BANK"},
         dest \in {"WALLET", "BANK"} => id \in SeededIds
  PROVE  SeededRow(Demo!FlowChild(id, amount, ago, dest))
<1>1. PICK method : method = IF dest \in {"BANK", "PENDING_BANK"} THEN "POOL_BANK" ELSE "POOL_WALLET"
  OBVIOUS
<1>2. PICK s : s = CASE dest \in {"WALLET", "BANK"} -> "SETTLED"
                     [] dest = "FAILED" -> "FAILED"
                     [] OTHER -> "PENDING"
  OBVIOUS
<1>3. s \in PAYMENT_STATUSES BY <1>2 DEF PAYMENT_STATUSES
<1>4. s = "SETTLED" <=> dest \in {"WALLET", "BANK"} BY <1>2
<1>5. PICK b : b = Demo!Pool(s, ago, amount, method) OBVIOUS
<1>6. PICK p : p = [b EXCEPT !.quote = IF method = "POOL_BANK" THEN amount * Demo!FlowRate ELSE @]
  OBVIOUS
<1>7. BarePayment(p)
  <2>1. BarePayment(b) BY <1>3, <1>5, PoolIs
  <2>2. amount * Demo!FlowRate \in Int BY DEF Demo!FlowRate
  <2>3. PICK n : n = IF method = "POOL_BANK" THEN amount * Demo!FlowRate ELSE b.quote OBVIOUS
  <2>4. n \in Int BY <2>1, <2>2, <2>3 DEF BarePayment, Basic
  <2>5. p = [b EXCEPT !.quote = n] BY <1>6, <2>3
  <2> QED BY <2>1, <2>4, <2>5 DEF BarePayment, Basic, Fields
<1>8. PICK paid : paid = CASE dest = "BANK" -> Demo!Banked(id, p)
                           [] dest \in {"WALLET", "FAILED"} -> Demo!Sent(id, p, "CONFIRMED")
                           [] OTHER -> p
  OBVIOUS
<1>9. SeededRow(paid)
  <2>1. CASE dest = "BANK" BY <1>7, <1>8, <2>1, BankedIsSeeded
  <2>2. CASE dest \in {"WALLET", "FAILED"} BY <1>7, <1>8, <2>2, SentIsSeeded
  <2>3. CASE dest \notin {"BANK", "WALLET", "FAILED"} BY <1>7, <1>8, <2>3, BareIsSeeded
  <2> QED BY <2>1, <2>2, <2>3
<1>10. PICK r : r = IF s = "SETTLED" THEN BareReceipt(<<"rcpt", id>>) ELSE None OBVIOUS
<1>11. Demo!FlowChild(id, amount, ago, dest) = [paid EXCEPT !.receipt = r]
  BY <1>1, <1>2, <1>5, <1>6, <1>8, <1>10
     DEF Demo!FlowChild, Demo!BareReceipt, BareReceipt, Demo!Receipt, Receipt
<1>12. PICK y : y = [paid EXCEPT !.receipt = r] OBVIOUS
<1>13. /\ Basic(y) /\ y.receipt = r /\ y.fiat = paid.fiat /\ y.onchain = paid.onchain
       /\ y.source = paid.source
  BY <1>9, <1>12 DEF SeededRow, Basic, Fields
<1>14. \/ r = None
       \/ /\ r.id # None /\ r.sourceAmount = None /\ r.targetAmount = None
          /\ r.txHash = None /\ r.bankRef = None
  BY <1>4, <1>10, IdIs DEF BareReceipt, Receipt
<1> QED BY <1>9, <1>11, <1>12, <1>13, <1>14 DEF SeededRow, ReceiptOK

-----------------------------------------------------------------------------
(* The rows, one by one. *)

LEMMA UsdRow ==
  ASSUME NEW s \in PAYMENT_STATUSES, NEW ago \in Int, NEW amount \in Int
  PROVE  BarePayment(Demo!UsdPhp(s, ago, amount))
BY UsdIs

LEMMA PoolRow ==
  ASSUME NEW s \in PAYMENT_STATUSES, NEW ago \in Int, NEW amount \in Int, NEW method
  PROVE  BarePayment(Demo!Pool(s, ago, amount, method))
BY PoolIs

LEMMA StandaloneRows ==
  /\ DOMAIN Demo!Standalone = {"fiat_settled_1", "fiat_settled_2", "pool_settled_1",
       "poolbank_settled_1", "pending_1", "onchain_drift_1", "reconciling_1", "failed_custody_1",
       "draft_1"}
  /\ \A p \in DOMAIN Demo!Standalone : SeededRow(Demo!Standalone[p])
<1>0. {"SETTLED", "PENDING", "ONCHAIN_CONFIRMED", "RECONCILING", "FAILED", "DRAFT"}
        \subseteq PAYMENT_STATUSES
      /\ {"f1", "f2", "p1", "b1"} \subseteq SeededIds
  BY DEF PAYMENT_STATUSES, SeededIds
<1>1. PICK a : a = Demo!WithFiatReceipt("f1", Demo!UsdPhp("SETTLED", 40, 1500)) OBVIOUS
<1>2. PICK b : b = Demo!WithFiatReceipt("f2", Demo!UsdPhp("SETTLED", 25, 3200)) OBVIOUS
<1>3. PICK c : c = Demo!WithPoolReceipt("p1", Demo!Pool("SETTLED", 18, 120, "POOL_WALLET")) OBVIOUS
<1>4. PICK d : d = Demo!WithFiatReceipt("b1", Demo!Pool("SETTLED", 12, 200, "POOL_BANK")) OBVIOUS
<1>5. PICK e : e = Demo!Sent("n1", Demo!UsdPhp("PENDING", 3, 800), "PENDING") OBVIOUS
<1>6. PICK f : f = Demo!Sent("d1", Demo!UsdPhp("ONCHAIN_CONFIRMED", 5, 950), "CONFIRMED") OBVIOUS
<1>7. PICK g : g = Demo!Banked("r1", Demo!UsdPhp("RECONCILING", 2, 1750)) OBVIOUS
<1>8. PICK h : h = Demo!Sent("c1", Demo!Pool("FAILED", 4, 90, "POOL_BANK"), "CONFIRMED") OBVIOUS
<1>9. PICK i : i = Demo!UsdPhp("DRAFT", 1, 500) OBVIOUS
<1>10. Demo!Standalone =
         [fiat_settled_1 |-> a, fiat_settled_2 |-> b, pool_settled_1 |-> c, poolbank_settled_1 |-> d,
          pending_1 |-> e, onchain_drift_1 |-> f, reconciling_1 |-> g, failed_custody_1 |-> h,
          draft_1 |-> i]
  BY <1>1, <1>2, <1>3, <1>4, <1>5, <1>6, <1>7, <1>8, <1>9 DEF Demo!Standalone
<1>11. SeededRow(a) BY <1>0, <1>1, UsdRow, FiatReceiptIsSeeded
<1>12. SeededRow(b) BY <1>0, <1>2, UsdRow, FiatReceiptIsSeeded
<1>13. SeededRow(c) BY <1>0, <1>3, PoolRow, PoolReceiptIsSeeded
<1>14. SeededRow(d) BY <1>0, <1>4, PoolRow, FiatReceiptIsSeeded
<1>15. SeededRow(e) BY <1>0, <1>5, UsdRow, SentIsSeeded
<1>16. SeededRow(f) BY <1>0, <1>6, UsdRow, SentIsSeeded
<1>17. SeededRow(g) BY <1>0, <1>7, UsdRow, BankedIsSeeded
<1>18. SeededRow(h) BY <1>0, <1>8, PoolRow, SentIsSeeded
<1>19. SeededRow(i) BY <1>0, <1>9, UsdRow, BareIsSeeded
<1> QED BY <1>10, <1>11, <1>12, <1>13, <1>14, <1>15, <1>16, <1>17, <1>18, <1>19

LEMMA BatchRows ==
  /\ DOMAIN Demo!SeedBatch = {"batch_claim_wallet_1", "batch_claim_wallet_2", "batch_claim_bank_1",
       "batch_unclaimed_1", "batch_unclaimed_2"}
  /\ \A p \in DOMAIN Demo!SeedBatch : SeededRow(Demo!SeedBatch[p])
<1>0. {"SETTLED", "PENDING"} \subseteq PAYMENT_STATUSES /\ {"w1", "w2", "b2"} \subseteq SeededIds
  BY DEF PAYMENT_STATUSES, SeededIds
<1>1. PICK a : a = Demo!WithPoolReceipt("w1", Demo!Pool("SETTLED", 20, 15, "POOL_WALLET")) OBVIOUS
<1>2. PICK b : b = Demo!WithPoolReceipt("w2", Demo!Pool("SETTLED", 20, 22, "POOL_WALLET")) OBVIOUS
<1>3. PICK c : c = Demo!WithFiatReceipt("b2", Demo!Pool("SETTLED", 20, 30, "POOL_BANK")) OBVIOUS
<1>4. PICK d : d = Demo!Pool("PENDING", 20, 18, "POOL_WALLET") OBVIOUS
<1>5. PICK e : e = Demo!Pool("PENDING", 20, 12, "POOL_WALLET") OBVIOUS
<1>6. Demo!SeedBatch = [batch_claim_wallet_1 |-> a, batch_claim_wallet_2 |-> b,
                        batch_claim_bank_1 |-> c, batch_unclaimed_1 |-> d, batch_unclaimed_2 |-> e]
  BY <1>1, <1>2, <1>3, <1>4, <1>5 DEF Demo!SeedBatch
<1>7. SeededRow(a) BY <1>0, <1>1, PoolRow, PoolReceiptIsSeeded
<1>8. SeededRow(b) BY <1>0, <1>2, PoolRow, PoolReceiptIsSeeded
<1>9. SeededRow(c) BY <1>0, <1>3, PoolRow, FiatReceiptIsSeeded
<1>10. SeededRow(d) BY <1>0, <1>4, PoolRow, BareIsSeeded
<1>11. SeededRow(e) BY <1>0, <1>5, PoolRow, BareIsSeeded
<1> QED BY <1>6, <1>7, <1>8, <1>9, <1>10, <1>11

LEMMA FlowRows ==
  /\ DOMAIN Demo!FlowBatches = {"week_wallet", "vendors_bank", "vendors_failed", "bonuses_pending",
       "week_pending"}
  /\ \A p \in DOMAIN Demo!FlowBatches : SeededRow(Demo!FlowBatches[p])
<1>0. {"q1", "q2"} \subseteq SeededIds BY DEF SeededIds
<1>1. PICK a : a = Demo!FlowChild("q1", 420, 9, "WALLET") OBVIOUS
<1>2. PICK b : b = Demo!FlowChild("q2", 900, 7, "BANK") OBVIOUS
<1>3. PICK c : c = Demo!FlowChild("q3", 480, 7, "FAILED") OBVIOUS
<1>4. PICK d : d = Demo!FlowChild("q4", 260, 5, "PENDING_WALLET") OBVIOUS
<1>5. PICK e : e = Demo!FlowChild("q5", 285, 1, "PENDING_BANK") OBVIOUS
<1>6. Demo!FlowBatches = [week_wallet |-> a, vendors_bank |-> b, vendors_failed |-> c,
                          bonuses_pending |-> d, week_pending |-> e]
  BY <1>1, <1>2, <1>3, <1>4, <1>5 DEF Demo!FlowBatches
<1>7. SeededRow(a) BY <1>0, <1>1, ChildIsSeeded
<1>8. SeededRow(b) BY <1>0, <1>2, ChildIsSeeded
<1>9. SeededRow(c) BY <1>3, ChildIsSeeded
<1>10. SeededRow(d) BY <1>4, ChildIsSeeded
<1>11. SeededRow(e) BY <1>5, ChildIsSeeded
<1> QED BY <1>6, <1>7, <1>8, <1>9, <1>10, <1>11

\* A set given by its elements is finite.
LEMMA FewAreFinite ==
  /\ \A a, b, c, d, e : IsFiniteSet({a, b, c, d, e})
  /\ \A a, b, c, d, e, f, g, h, i : IsFiniteSet({a, b, c, d, e, f, g, h, i})
<1>1. ASSUME NEW a, NEW b, NEW c, NEW d, NEW e PROVE IsFiniteSet({a, b, c, d, e})
  <2>1. IsFiniteSet({} \cup {a}) BY FS_EmptySet, FS_AddElement
  <2>2. IsFiniteSet(({} \cup {a}) \cup {b}) BY <2>1, FS_AddElement
  <2>3. IsFiniteSet((({} \cup {a}) \cup {b}) \cup {c}) BY <2>2, FS_AddElement
  <2>4. IsFiniteSet(((({} \cup {a}) \cup {b}) \cup {c}) \cup {d}) BY <2>3, FS_AddElement
  <2>5. IsFiniteSet((((({} \cup {a}) \cup {b}) \cup {c}) \cup {d}) \cup {e}) BY <2>4, FS_AddElement
  <2>6. ((((({} \cup {a}) \cup {b}) \cup {c}) \cup {d}) \cup {e}) = {a, b, c, d, e} OBVIOUS
  <2> QED BY <2>5, <2>6
<1>2. ASSUME NEW a, NEW b, NEW c, NEW d, NEW e, NEW f, NEW g, NEW h, NEW i
      PROVE  IsFiniteSet({a, b, c, d, e, f, g, h, i})
  <2>1. IsFiniteSet({a, b, c, d, e} \cup {e, f, g, h, i}) BY <1>1, FS_Union
  <2>2. {a, b, c, d, e} \cup {e, f, g, h, i} = {a, b, c, d, e, f, g, h, i} OBVIOUS
  <2> QED BY <2>1, <2>2
<1> QED BY <1>1, <1>2

LEMMA DemoRows ==
  /\ IsFiniteSet(DOMAIN Demo!DemoLedger)
  /\ \A p \in DOMAIN Demo!DemoLedger : SeededRow(Demo!DemoLedger[p])
<1>1. PICK A : A = Demo!Standalone OBVIOUS
<1>2. PICK B : B = Demo!SeedBatch OBVIOUS
<1>3. PICK C : C = Demo!FlowBatches OBVIOUS
<1>4. Demo!DemoLedger = [p \in DOMAIN A \cup DOMAIN B \cup DOMAIN C |->
         CASE p \in DOMAIN A -> A[p] [] p \in DOMAIN B -> B[p] [] p \in DOMAIN C -> C[p]]
  BY <1>1, <1>2, <1>3 DEF Demo!DemoLedger
<1>5. /\ \A p \in DOMAIN A : SeededRow(A[p])
      /\ \A p \in DOMAIN B : SeededRow(B[p])
  BY <1>1, <1>2, StandaloneRows, BatchRows
<1>6. \A p \in DOMAIN C : SeededRow(C[p]) BY <1>3, FlowRows
<1>7. DOMAIN A \cap DOMAIN B = {} /\ DOMAIN A \cap DOMAIN C = {} /\ DOMAIN B \cap DOMAIN C = {}
  BY <1>1, <1>2, <1>3, StandaloneRows, BatchRows, FlowRows
<1>8. IsFiniteSet(DOMAIN A) /\ IsFiniteSet(DOMAIN B) /\ IsFiniteSet(DOMAIN C)
  <2>1. IsFiniteSet({"fiat_settled_1", "fiat_settled_2", "pool_settled_1", "poolbank_settled_1",
          "pending_1", "onchain_drift_1", "reconciling_1", "failed_custody_1", "draft_1"})
    BY FewAreFinite
  <2>2. IsFiniteSet({"batch_claim_wallet_1", "batch_claim_wallet_2", "batch_claim_bank_1",
          "batch_unclaimed_1", "batch_unclaimed_2"})
    BY FewAreFinite
  <2>3. IsFiniteSet({"week_wallet", "vendors_bank", "vendors_failed", "bonuses_pending",
          "week_pending"})
    BY FewAreFinite
  <2>4. IsFiniteSet(DOMAIN A) BY <1>1, <2>1, StandaloneRows
  <2>5. IsFiniteSet(DOMAIN B) BY <1>2, <2>2, BatchRows
  <2>6. IsFiniteSet(DOMAIN C) BY <1>3, <2>3, FlowRows
  <2> QED BY <2>4, <2>5, <2>6
<1>9. IsFiniteSet(DOMAIN A \cup DOMAIN B \cup DOMAIN C) BY <1>8, FS_Union
<1>10. ASSUME NEW p \in DOMAIN Demo!DemoLedger PROVE SeededRow(Demo!DemoLedger[p])
  <2>1. p \in DOMAIN A \cup DOMAIN B \cup DOMAIN C BY <1>4
  <2>2. CASE p \in DOMAIN A
    <3>1. Demo!DemoLedger[p] = A[p] BY <1>4, <1>7, <2>1, <2>2
    <3> QED BY <1>5, <2>2, <3>1
  <2>3. CASE p \in DOMAIN B
    <3>1. Demo!DemoLedger[p] = B[p] BY <1>4, <1>7, <2>1, <2>3
    <3> QED BY <1>5, <2>3, <3>1
  <2>4. CASE p \in DOMAIN C
    <3>1. Demo!DemoLedger[p] = C[p] BY <1>4, <1>7, <2>1, <2>4
    <3> QED BY <1>6, <2>4, <3>1
  <2> QED BY <2>1, <2>2, <2>3, <2>4
<1> QED BY <1>4, <1>9, <1>10

LEMMA DemoIsOK == LedgerOK(Demo!DemoLedger)
BY DemoRows, SeededIsOK, NullAssumption DEF LedgerOK

LEMMA DemoShowsLegs == LegsShown(Demo!DemoLedger)
<1> SUFFICES ASSUME NEW p \in DOMAIN Demo!DemoLedger
             PROVE  LET legs == GetPaymentById(Demo!DemoLedger, p).legs e == Entry(Demo!DemoLedger[p]) IN
                    /\ legs.ONCHAIN # None => legs.ONCHAIN.txHash = e.txHash
                    /\ legs.FIAT # None => legs.FIAT.bankRef = e.bankRef
  BY DEF LegsShown
<1>1. PICK r : r = Demo!DemoLedger[p] OBVIOUS
<1>2. SeededRow(r) BY <1>1, DemoRows
<1>3. PICK d : d = GetPaymentById(Demo!DemoLedger, p) OBVIOUS
<1>4. d.legs.ONCHAIN = r.onchain /\ d.legs.FIAT = r.fiat
  BY <1>1, <1>3 DEF GetPaymentById, PaymentDetail, LegView, With
<1> QED BY <1>1, <1>2, <1>3, <1>4, SeededShowsLegs

-----------------------------------------------------------------------------
(* The documents of any ledger, of the live rows and of the seeded ones.    *)

\* Whatever rows a ledger has, its documents agree.
LEMMA ReportsDoAgree == ASSUME NEW ledger, LedgerOK(ledger) PROVE ReportsAgree(ledger)
<1>1. \A p \in DOMAIN ledger : ~YieldException(ledger[p]) /\ Figures(FxRow(ledger[p]))
  BY DEF LedgerOK, RowOK
<1>2. Agree(ledger) BY <1>1, LedgersAgree DEF LedgerOK
<1> QED BY <1>2, FilesDoAgree, AttestationsDoVerify, PacksDoAgree, ViewsDoAgree,
           PaymentPagesDoAgree DEF ReportsAgree

\* The receipt of a live row names an event of the provider and its amount.
LEMMA LiveIsOK == SpineInv => LedgerOK(Live)
<1> SUFFICES ASSUME SpineInv PROVE LedgerOK(Live) OBVIOUS
<1>1. DOMAIN Live \subseteq Payments /\ None \notin DOMAIN Live BY EventAssumption DEF Live, LedgerOf
<1>2. IsFiniteSet(DOMAIN Live) BY <1>1, ReportAssumption, FS_Subset
<1>3. ASSUME NEW p \in DOMAIN Live PROVE RowOK(Live[p])
  <2>1. p \in Payments /\ status[p] # "NONE" /\ Live[p] = Read(p) BY <1>1 DEF Live, LedgerOf, Read
  <2>2. PICK r : r = Read(p) OBVIOUS
  <2>3. /\ {"status", "fiat", "receipt"} \subseteq DOMAIN r
        /\ r.status = status[p] /\ r.day = 0 /\ r.source = Source[p].amount
        /\ r.onchain # None => r.onchain.txHash = <<"tx", p>>
    BY <2>2 DEF Read, RowOf
  <2>4. status[p] \in PAYMENT_STATUSES
    BY <2>1 DEF SpineInv, EvidenceInv, TypeOK, PaymentStatus, PAYMENT_STATUSES
  <2>5. r.source \in Int BY <2>1, <2>3, ReportAssumption
  <2>6. ~YieldException(r) /\ Figures(FxRow(r)) BY <2>1, <2>2, LiveFigures
  <2>7. CASE r.receipt = None
    <3>1. Stored(r, "sourceAmount") = None BY <2>7 DEF Stored
    <3> QED BY <2>1, <2>2, <2>3, <2>4, <2>5, <2>6, <2>7, <3>1 DEF RowOK
  <2>8. CASE r.receipt # None
    <3>1. receipt[p] # None BY <2>2, <2>8 DEF Read, RowOf
    <3>2. r.receipt =
            [id |-> <<"rcpt", p>>, txHash |-> <<"tx", p>>, sourceAsset |-> CorridorFrom[p],
             sourceAmount |-> Source[p].amount, targetCurrency |-> CorridorTo[p],
             targetAmount |-> receipt[p].amount, bankRef |-> receipt[p].id]
      BY <2>2, <3>1 DEF Read, RowOf
    <3>3. receipt[p] \in Events /\ receipt[p].kind # "chain"
      BY <2>1, <3>1, EventAssumption
         DEF SpineInv, EvidenceInv, TypeOK, ReceiptOnEvidence, FiatEventOf, FiatKinds
    <3>4. receipt[p].id # None BY <3>3, ReportAssumption
    <3>5. r.receipt.id # None BY <2>1, <3>2, NullAssumption
    <3>6. Source[p].amount # None /\ CorridorFrom[p] # None /\ CorridorTo[p] # None
      BY <2>1, NoneIs, ReportAssumption
    <3>7. Stored(r, "sourceAmount") = r.source BY <2>3, <2>8, <3>2 DEF Stored
    <3>8. LegTx(r) \in {None, <<"tx", p>>} BY <2>3 DEF LegTx
    <3>9. /\ Or(r.receipt.txHash, LegTx(r)) = r.receipt.txHash
          /\ Or(r.receipt.bankRef, LegRef(r)) = r.receipt.bankRef
      BY <3>2, <3>4, <3>8 DEF Or
    <3>10. /\ r.receipt.sourceAsset # None /\ r.receipt.sourceAmount # None
           /\ r.receipt.targetCurrency # None
      BY <3>2, <3>6
    <3> QED BY <2>1, <2>2, <2>3, <2>4, <2>5, <2>6, <3>5, <3>7, <3>9, <3>10 DEF RowOK
  <2> QED BY <2>7, <2>8
<1> QED BY <1>1, <1>2, <1>3 DEF LedgerOK

\* The live ledger is one of those the columns could hold.
LEMMA LiveIsALedger == SpineInv => Live \in Ledgers
<1> SUFFICES ASSUME SpineInv PROVE Live \in Ledgers OBVIOUS
<1> USE DEF SpineInv, EvidenceInv
<1>1. \A e \in Events, p \in Payments : FiatEventOf(e, p) => e \in BankEvents
  BY DEF FiatEventOf, FiatKinds, BankEvents
<1>2. /\ status \in [Payments -> PaymentStatus]
      /\ onchainLeg \in [Payments -> {"NONE", "PENDING", "CONFIRMED"}]
  BY DEF TypeOK
<1>3. fiatLeg \in [Payments -> BankEvents \cup {None}]
  BY <1>1 DEF TypeOK, Provenance
<1>4. receipt \in [Payments -> BankEvents \cup {None}]
  BY <1>1 DEF TypeOK, ReceiptOnEvidence
<1> QED BY <1>2, <1>3, <1>4 DEF Live, Ledgers

\* The leg the details show, and the gain of a payment that has no receipt yet.
LEMMA LegsDoTell == SpineInv => LegsAreTold
<1> SUFFICES ASSUME SpineInv, NEW p \in DOMAIN Live
             PROVE  LET leg == GetPaymentById(Live, p).legs.FIAT IN
                    /\ leg # None => (leg.bankRef = Entry(Live[p]).bankRef <=> ~Superseded(p))
                    /\ receipt[p] = None /\ fiatLeg[p] \in Completions /\ Quoted[p] > 0 =>
                         100 * FxRow(Live[p]).gainLoss \in -Quoted[p] .. Quoted[p]
  BY DEF LegsAreTold
<1> USE DEF SpineInv, EvidenceInv
<1>1. p \in Payments /\ Live[p] = Read(p) BY DEF Live, LedgerOf, Read
<1>2. PICK r : r = Read(p) OBVIOUS
<1>3. GetPaymentById(Live, p).legs.FIAT = r.fiat
  <2>1. PICK d : d = GetPaymentById(Live, p) OBVIOUS
  <2>2. d.legs.FIAT = Live[p].fiat BY <2>1 DEF GetPaymentById, PaymentDetail, LegView, With
  <2> QED BY <1>1, <1>2, <2>1, <2>2
<1>4. /\ r.fiat = IF fiatLeg[p] = None THEN None
                  ELSE [bankRef |-> fiatLeg[p].id, amount |-> fiatLeg[p].amount]
      /\ receipt[p] = None => r.receipt = None
      /\ receipt[p] # None => r.receipt # None /\ r.receipt.bankRef = receipt[p].id
  <2>1. /\ r.fiat = IF fiatLeg[p] = None THEN None
                    ELSE [bankRef |-> fiatLeg[p].id, amount |-> fiatLeg[p].amount]
        /\ receipt[p] = None => r.receipt = None
    BY <1>2 DEF Read, RowOf
  <2>2. ASSUME receipt[p] # None PROVE r.receipt # None /\ r.receipt.bankRef = receipt[p].id
    <3>1. r.receipt =
            [id |-> <<"rcpt", p>>, txHash |-> <<"tx", p>>, sourceAsset |-> CorridorFrom[p],
             sourceAmount |-> Source[p].amount, targetCurrency |-> CorridorTo[p],
             targetAmount |-> receipt[p].amount, bankRef |-> receipt[p].id]
      BY <1>2, <2>2 DEF Read, RowOf
    <3>2. receipt[p] \in Events BY <1>1, <2>2 DEF TypeOK
    <3>3. RowOf(p, "SETTLED", "CONFIRMED", receipt[p], receipt[p]).receipt # None
      BY <1>1, <3>2, NullAssumption
    <3>4. RowOf(p, "SETTLED", "CONFIRMED", receipt[p], receipt[p]).receipt = r.receipt
      BY <1>2 DEF Read, RowOf
    <3> QED BY <3>1, <3>3, <3>4
  <2> QED BY <2>1, <2>2
<1>5. r.fiat # None => (r.fiat.bankRef = Entry(r).bankRef <=> ~Superseded(p))
  <2> SUFFICES ASSUME r.fiat # None PROVE r.fiat.bankRef = Entry(r).bankRef <=> ~Superseded(p)
    OBVIOUS
  <2>1. fiatLeg[p] # None /\ r.fiat.bankRef = fiatLeg[p].id BY <1>4
  <2>2. Entry(r).bankRef = Or(Stored(r, "bankRef"), LegRef(r)) /\ LegRef(r) = r.fiat.bankRef
    BY DEF Entry, LegRef
  <2>3. CASE receipt[p] = None
    BY <1>4, <2>2, <2>3 DEF Superseded, Stored, Or
  <2>4. CASE receipt[p] # None
    <3>1. Stored(r, "bankRef") = receipt[p].id BY <1>4, <2>4 DEF Stored
    <3>2. receipt[p] \in Events /\ receipt[p].kind # "chain"
      BY <1>1, <2>4 DEF TypeOK, ReceiptOnEvidence, FiatEventOf, FiatKinds
    <3>3. receipt[p].id # None BY <3>2, ReportAssumption
    <3>4. Entry(r).bankRef = receipt[p].id BY <2>2, <3>1, <3>3 DEF Or
    <3> QED BY <2>1, <2>4, <3>4 DEF Superseded
  <2> QED BY <2>3, <2>4
<1>6. ASSUME receipt[p] = None, fiatLeg[p] \in Completions, Quoted[p] > 0
      PROVE  100 * FxRow(r).gainLoss \in -Quoted[p] .. Quoted[p]
  <2>1. /\ fiatLeg[p] # None /\ fiatLeg[p] \in Events
        /\ fiatLeg[p].payment = p /\ fiatLeg[p].kind # "chain"
    BY <1>1, <1>6, EventAssumption DEF Completions, Provenance, FiatEventOf, FiatKinds
  <2>2. PICK a \in Nat : a = fiatLeg[p].amount BY <2>1, EventAssumption
  <2>3. PICK q \in Nat : q = Quoted[p] BY <1>1, EventAssumption
  <2>4. 100 * a \in 99 * q .. 101 * q BY <1>6, <2>1, <2>2, <2>3 DEF Completions, InBand
  <2>5. r.quote = q /\ r.fiat.amount = a /\ Stored(r, "targetAmount") = None /\ r.fiat # None
    <3>1. r.fiat.amount = a /\ Stored(r, "targetAmount") = None
      BY <1>4, <1>6, <2>1, <2>2 DEF Stored
    <3>2. r.quote = q BY <1>2, <1>6, <2>3 DEF Read, RowOf
    <3>3. RowOf(p, "SETTLED", "CONFIRMED", fiatLeg[p], fiatLeg[p]).fiat = r.fiat
      BY <1>2 DEF Read, RowOf
    <3> QED BY <1>1, <2>1, <3>1, <3>2, <3>3, NullAssumption
  <2>6. a # None /\ q # None BY NoneIs
  <2>7. FxRow(r).gainLoss = a - q
    <3>1. Or(a, Or(q, 0)) = a /\ Or(q, a) = q /\ Or(None, a) = a BY <2>6 DEF Or
    <3>2. FxRow(r).gainLoss
            = Or(Stored(r, "targetAmount"), Or(IF r.fiat = None THEN None ELSE r.fiat.amount, Or(r.quote, 0)))
              - Or(r.quote, Or(Stored(r, "targetAmount"),
                               Or(IF r.fiat = None THEN None ELSE r.fiat.amount, Or(r.quote, 0))))
      BY DEF FxRow
    <3> QED BY <2>5, <3>1, <3>2
  <2> QED BY <2>3, <2>4, <2>7
<1> QED BY <1>1, <1>2, <1>3, <1>5, <1>6

\* In whatever order a payment is settled, receipted, hit by a late event, reset and
\* seeded again, the statement lists it exactly once; statement, FX summary,
\* attestation, pack, files and dashboard tell the same transaction, bank reference,
\* receipt and amount paid of it, and the same amount received once its receipt is
\* stored; before that each tells what SameReceived says.  The details show another
\* bank reference exactly when a later event has rewritten the leg, and the gain of
\* a payment without a receipt is within the tolerance while its leg would settle it
\* (lib/reports, lib/payments/service.ts).
THEOREM DocumentsAlwaysAgree == ReportsSpec => []DocumentsAgree
<1>1. SpineInv => DocumentsAgree
  BY LiveIsOK, LiveIsALedger, ReportsDoAgree, LegsDoTell DEF DocumentsAgree, AgreeingLedgers
<1> QED BY <1>1, SpineStarts, SpineSteps, PTL DEF ReportsSpec

\* The same of the rows that prisma/seed.ts and the batch script write, whose lists,
\* pages, details and printed rows agree as well.
THEOREM SeededDocumentsAlwaysAgree == ReportsSpec => []SeededDocumentsAgree
<1>1. SpineInv => SeededDocumentsAgree
  BY DemoIsOK, ReportsDoAgree, DemoShowsLegs, ListsDoAgree, PagesDoAgree, PagesDoHold
     DEF SeededDocumentsAgree, DemoAgrees
<1> QED BY <1>1, SpineStarts, SpineSteps, PTL DEF ReportsSpec

\* Following the cursors of a list shows every live payment once and newest first,
\* to a user as to the API (lib/payments/service.ts listPayments), and the pages of
\* the reports show the rows of the files behind their links.
THEOREM LiveListsAgree == ReportsSpec => [](ListsAgree(Live) /\ PagesAgree(Live))
<1>1. SpineInv => ListsAgree(Live) /\ PagesAgree(Live) BY LiveIsOK, ListsDoAgree, PagesDoAgree
<1> QED BY <1>1, SpineStarts, SpineSteps, PTL DEF ReportsSpec
=============================================================================
