------------------------------ MODULE Reports -------------------------------
(***************************************************************************)
(* The reports and disclosures of a tenant beside the reconciliation       *)
(* spine, which goes on changing the rows they read: the no-login links to *)
(* one settled payment (lib/reports/disclosure-link.ts), the disclosure    *)
(* pack and the decrypt route, which reveal shielded payloads under the    *)
(* tenant's view key, and the seed script, which replaces that key and     *)
(* rewrites the sample payment in statements of their own.                 *)
(*                                                                         *)
(* Every database call of a request is a step; a request that dies or      *)
(* whose call throws answers nothing.                                      *)
(***************************************************************************)
EXTENDS Reconciliation, Functions, TLC

CONSTANTS
  CorridorFrom,  \* Payment.corridorFrom, per payment
  Source,        \* Payment.sourceAsset and sourceAmount, per payment
  Requests,      \* report requests that run at once
  MaxTokens,     \* bound: links issued
  MaxSeeds       \* bound: runs of the seed script

ASSUME ReportAssumption ==
  /\ {MaxTokens, MaxSeeds} \subseteq Nat
  /\ IsFiniteSet(Payments)
  /\ \A p \in Payments : /\ Source[p].amount \in Int
                        /\ None \notin {Source[p].asset, CorridorFrom[p], CorridorTo[p]}
  /\ \A e \in Events : e.kind # "chain" => e.id # None

VARIABLES
  link,      \* the DisclosureLink row of a payment
  minted,    \* tokens handed out so far; a token is its number
  request,   \* the report requests
  owed,      \* auxiliary: audit rows less the answers they account for
  viewKey,   \* the tenant's view key, by its number
  sealed,    \* the key a payment's payload is encrypted under
  seed       \* the step the seed script is at

reportVars == <<link, minted, request, owed, viewKey, sealed, seed>>
allVars    == <<vars, reportVars>>

\* A link is dead once it is revoked or its days have run out.
NoLink == [token |-> 0, dead |-> FALSE]
Quiet  == [pc |-> "idle"]

\* An audit row: what was done, and to which payment (None for a whole pack).
Reveals == {"viewkey.decrypt", "report.disclosure", "disclosure.link.viewed",
            "disclosure.link.verified"}
AuditRows == Reveals \X (Payments \cup {None})

ReportsInit ==
  /\ Init
  /\ link = [p \in Payments |-> NoLink]
  /\ minted = 0
  /\ request = [q \in Requests |-> Quiet]
  /\ owed = [x \in AuditRows |-> 0]
  /\ viewKey = 1 /\ sealed = [p \in Payments |-> 1]
  /\ seed = "idle"

\* The spine as the reports see it: the rows of one payment, by its status, that of its
\* ONCHAIN leg, and the events its FIAT leg and its receipt were written from.
RowOf(p, state, chain, fiat, paid) ==
  [status |-> state, day |-> 0, method |-> "FIAT", position |-> "none",
   asset |-> Source[p].asset, source |-> Source[p].amount,
   target |-> CorridorTo[p], quote |-> IF Quoted[p] = 0 THEN None ELSE Quoted[p],
   onchain |-> IF chain = "NONE" THEN None ELSE [txHash |-> <<"tx", p>>, status |-> chain],
   fiat |-> IF fiat = None THEN None ELSE [bankRef |-> fiat.id, amount |-> fiat.amount],
   receipt |-> IF paid = None THEN None
               ELSE [id |-> <<"rcpt", p>>, txHash |-> <<"tx", p>>,
                     sourceAsset |-> CorridorFrom[p], sourceAmount |-> Source[p].amount,
                     targetCurrency |-> CorridorTo[p],
                     targetAmount |-> paid.amount, bankRef |-> paid.id]]

-----------------------------------------------------------------------------
(* Requests. *)

Begin(q, r) ==
  /\ request[q] = Quiet
  /\ request' = [request EXCEPT ![q] = r]

Go(q, pc)  == request' = [request EXCEPT ![q].pc = pc]
End(q)     == request' = [request EXCEPT ![q] = Quiet]

\* The row of a payment bears the token and is not dead.
Opens(t) == \E p \in Payments : link[p].token = t /\ ~link[p].dead
Linked(t) == CHOOSE p \in Payments : link[p].token = t

\* createDisclosureLink: only a settled payment may be shared, 409 otherwise.
\* The payment's one row takes a new token, and the old is gone.  The status is
\* read by an earlier call; a link to a payment reset since is the same state as
\* one reset after.  (The audit of a mint or a revocation is recordAudit's,
\* which may fail unseen.)
Mint(p) ==
  /\ status[p] = "SETTLED" /\ minted < MaxTokens
  /\ minted' = minted + 1
  /\ link' = [link EXCEPT ![p] = [NoLink EXCEPT !.token = minted + 1]]
  /\ UNCHANGED <<vars, request, owed, viewKey, sealed, seed>>

\* revokeDisclosureLink, an updateMany of a link not revoked yet, or the link's
\* last day passes.
LinkDies(p) ==
  /\ link[p].token # 0 /\ ~link[p].dead
  /\ link' = [link EXCEPT ![p].dead = TRUE]
  /\ UNCHANGED <<vars, minted, request, owed, viewKey, sealed, seed>>

\* activeLink: a token that opens nothing is answered "invalid".  A view goes on
\* with the attestation, a verification with the proof.
OpenLink(q, t, pc) ==
  /\ Opens(t)
  /\ Begin(q, [pc |-> pc, payment |-> Linked(t)])
  /\ UNCHANGED <<vars, link, minted, owed, viewKey, sealed, seed>>

\* buildAttestation: a payment that is not settled any more fails closed.
ViewAttest(q) ==
  /\ request[q].pc = "attest"
  /\ IF status[request[q].payment] = "SETTLED" THEN Go(q, "count") ELSE End(q)
  /\ UNCHANGED <<vars, link, minted, owed, viewKey, sealed, seed>>

AuditNext(q, rows) == request' = [request EXCEPT ![q] = [pc |-> "audit", rows |-> rows]]

\* (fault) The dates of the row that was read are written back with its count.
ViewCountWhole(q) ==
  LET p == request[q].payment IN
  /\ request[q].pc = "count"
  /\ link' = [link EXCEPT ![p].dead = FALSE]
  /\ AuditNext(q, {<<"disclosure.link.viewed", p>>})
  /\ UNCHANGED <<vars, minted, owed, viewKey, sealed, seed>>

\* The update writes only the counters of the payment's row (left out), which may
\* bear a new token or be revoked by now.
ViewCount(q) ==
  /\ request[q].pc = "count"
  /\ AuditNext(q, {<<"disclosure.link.viewed", request[q].payment>>})
  /\ UNCHANGED <<vars, link, minted, owed, viewKey, sealed, seed>>

\* verifyDisclosureOnChain does not look at the payment's status.
VerifyProve(q) ==
  /\ request[q].pc = "prove"
  /\ AuditNext(q, {<<"disclosure.link.verified", request[q].payment>>})
  /\ UNCHANGED <<vars, link, minted, owed, viewKey, sealed, seed>>

\* The decrypt route reads one payload, the pack those of all its payments; the
\* key is loaded by a later call.
ReadPayloads(q, scope, pack) ==
  /\ \A p \in scope : status[p] # "NONE"
  /\ Begin(q, [pc |-> "key", pack |-> pack, payloads |-> [p \in scope |-> sealed[p]]])
  /\ UNCHANGED <<vars, link, minted, owed, viewKey, sealed, seed>>

\* A payload under another key is unreadable: the pack lists the payment without
\* revealing it, the decrypt route answers 500.
LoadViewKey(q) ==
  LET payloads == request[q].payloads
      revealed == {p \in DOMAIN payloads : payloads[p] = viewKey}
      reveals  == {<<"viewkey.decrypt", p>> : p \in revealed}
  IN /\ request[q].pc = "key"
     /\ IF request[q].pack THEN AuditNext(q, reveals \cup {<<"report.disclosure", None>>})
        ELSE IF revealed = {} THEN End(q) ELSE AuditNext(q, reveals)
     /\ UNCHANGED <<vars, link, minted, owed, viewKey, sealed, seed>>

\* (fault) The audit of recordAudit, which swallows a write that fails.
AuditBestEffort(q) ==
  /\ request[q].pc = "audit"
  /\ owed' \in {owed, [x \in AuditRows |-> owed[x] + IF x \in request[q].rows THEN 1 ELSE 0]}
  /\ Go(q, "answer")
  /\ UNCHANGED <<vars, link, minted, viewKey, sealed, seed>>

\* The audit rows of a disclosure, in one transaction; if it throws, so does
\* the request.
Audit(q) ==
  /\ request[q].pc = "audit"
  /\ owed' = [x \in AuditRows |-> owed[x] + IF x \in request[q].rows THEN 1 ELSE 0]
  /\ Go(q, "answer")
  /\ UNCHANGED <<vars, link, minted, viewKey, sealed, seed>>

Without(rows) == [x \in AuditRows |-> owed[x] - IF x \in rows THEN 1 ELSE 0]

Answer(q) ==
  /\ request[q].pc = "answer"
  /\ owed' = Without(request[q].rows)
  /\ End(q)
  /\ UNCHANGED <<vars, link, minted, viewKey, sealed, seed>>

\* The process dies or a call throws; rows already written account for an answer
\* that nobody got.
RequestFails(q) ==
  /\ request[q] # Quiet
  /\ owed' = IF request[q].pc = "answer" THEN Without(request[q].rows) ELSE owed
  /\ End(q)
  /\ UNCHANGED <<vars, link, minted, viewKey, sealed, seed>>

-----------------------------------------------------------------------------
(* prisma/seed.ts, one statement after the other: a new view key, the sample *)
(* payment back to PENDING under that key, its ONCHAIN leg, then the FIAT    *)
(* leg and the receipt of the last replay are dropped.                       *)

SeedViewKey ==
  /\ seed = "idle" /\ viewKey <= MaxSeeds
  /\ viewKey' = viewKey + 1 /\ seed' = "payment"
  /\ UNCHANGED <<vars, link, minted, request, owed, sealed>>

SeedPayment(p) ==
  /\ seed = "payment"
  /\ status' = [status EXCEPT ![p] = "PENDING"]
  /\ sealed' = [sealed EXCEPT ![p] = viewKey]
  /\ seed' = "onchain"
  /\ UNCHANGED <<onchainLeg, fiatLeg, receipt, row, queue, creation, hook, watcher,
                 runner, env, link, minted, request, owed, viewKey>>

SeedOnchainLeg(p) ==
  /\ seed = "onchain"
  /\ onchainLeg' = [onchainLeg EXCEPT ![p] = "CONFIRMED"]
  /\ seed' = "fiat"
  /\ UNCHANGED <<status, fiatLeg, receipt, row, queue, creation, hook, watcher, runner,
                 env, link, minted, request, owed, viewKey, sealed>>

SeedFiatLeg(p) ==
  /\ seed = "fiat"
  /\ fiatLeg' = [fiatLeg EXCEPT ![p] = None]
  /\ seed' = "receipt"
  /\ UNCHANGED <<status, onchainLeg, receipt, row, queue, creation, hook, watcher,
                 runner, env, link, minted, request, owed, viewKey, sealed>>

SeedReceipt(p) ==
  /\ seed = "receipt"
  /\ receipt' = [receipt EXCEPT ![p] = None]
  /\ seed' = "idle"
  /\ UNCHANGED <<status, onchainLeg, fiatLeg, row, queue, creation, hook, watcher,
                 runner, env, link, minted, request, owed, viewKey, sealed>>

-----------------------------------------------------------------------------
Start(q) ==
  \/ \E p \in Payments : ReadPayloads(q, {p}, FALSE)
  \/ \E t \in 1 .. minted : OpenLink(q, t, "attest") \/ OpenLink(q, t, "prove")
  \/ ReadPayloads(q, {p \in Payments : status[p] # "NONE"}, TRUE)

Continue(q) == \/ ViewAttest(q) \/ ViewCount(q)
               \/ VerifyProve(q) \/ LoadViewKey(q) \/ Audit(q) \/ Answer(q)

SeedStep ==
  \/ SeedViewKey
  \/ \E p \in SamplePayments : SeedPayment(p) \/ SeedOnchainLeg(p) \/ SeedFiatLeg(p) \/ SeedReceipt(p)

ReportsNext ==
  \/ Next /\ UNCHANGED reportVars
  \/ \E q \in Requests : Start(q) \/ Continue(q) \/ RequestFails(q)
  \/ \E p \in Payments : Mint(p) \/ LinkDies(p)
  \/ SeedStep

ReportsSpec == ReportsInit /\ [][ReportsNext]_allVars
=============================================================================
