# TLA+ models of Trexure

Trexure is a Next.js application with a BullMQ worker, Postgres, Redis and
Soroban contracts. It creates private cross-border payments, joins their two
legs (on chain, and a provider's fiat payout) into a settled payment with a
receipt, and runs a shielded pool, payroll, a treasury-yield sweep and finance
reports beside it. This directory models the parts in which something can go
wrong that a test would hardly reach: the order of webhooks, jobs and retries,
two requests on one row, and what is left after a failure between two writes.

Everything is TLA+, checked with TLC and proved with TLAPS. Run from this
directory:

    tlc -workers 2 -config reconcile_legs.cfg MCReconciliation
    tlapm ReconciliationProofs.tla

1. [Inventory](#1-inventory): the system's parts
2. [Modules](#2-modules): which module models which part
3. [Runs](#3-runs): what TLC checks, with which bounds
4. [Proofs](#4-proofs)
5. [Where code and documentation
   disagree](#5-where-code-and-documentation-disagree)
6. [Not modelled](#6-not-modelled)
7. [Plan](#7-plan)

## 1. Inventory

For each part: the state it keeps, its operations, whom it meets, what makes it
hard and what makes it right.

**Reconciliation spine** (`lib/reconcile/`, `app/api/webhooks/`,
`worker/jobs/reconcile.ts`) - *modelled.*
State: `Payment.status`, one `PaymentLeg` per leg, `WebhookEvent` rows (unique
per provider and event id), `Receipt`; reconcile jobs in Redis.
Operations: the fiat webhook, the chain webhook, `tryReconcile`,
`buildReceipt`, `retry-reconcile`.
Meets: the watcher (second writer of the ONCHAIN leg), the demo reset (deletes
leg and receipt), the bank claim (calls `tryReconcile` in the request).
Hard: no handler opens a transaction around its work, so every database call of
one interleaves with every call of the others; events are redelivered, late, or
unverified; a job is run again after a failure anywhere.
Right: a payment settles only on a confirmed ONCHAIN leg and a verified
completion that passes corridor and tolerance; a receipt tells of such an
event; a redelivery changes nothing; whichever leg is written last, somebody
reconciles.

**On-chain watcher and queues** (`worker/`, `lib/queue/`) - *modelled.*
State: the `watch-onchain` job and its attempts. Operations: poll, confirm,
give up; BullMQ's retry. Hard: two limits on attempts in two files, a status
read once and overwritten three calls later. Right: every watched payment ends
confirmed or failed; a late watcher takes no settlement back as a failure.

**Payment creation** (`lib/payments/service.ts`, `lib/stellar/client.ts`,
`app/api/payments/route.ts`) - *modelled.*
State: Payment and ONCHAIN leg, inserted after the transaction is submitted.
Hard: a failure after the submission strands the transaction, one after the
insert leaves a payment nobody watches. Right: rows exist before anybody acts
on them, and both together; lists and pages show each payment once.

**Idempotency keys** (`lib/idempotency.ts`) - *modelled.*
State: one Redis key per request, reserved for five minutes, then the cached
answer for a day. Hard: the reservation expires while the work goes on;
`release` deletes the key whoever holds it by then; a failure of
`createPayment` releases the key though a payment may exist. Right: one payment
per key; a retry gets the first answer.

**Sessions, rate limits, API keys** (`lib/auth/`, `lib/receiver/session.ts`) -
*partly modelled.* State: session rows with a sliding and an absolute expiry,
counters in Redis. Hard: INCR and EXPIRE are two commands; two requests renew
one session from different reads, or renew one a logout deletes. Right: every
counter expires; a session ends by its hard cap and stays ended.

**Shielded pool contract** (`zk/verifier/src/`) - *modelled.*
State: an incremental Merkle tree (one remembered node per level), a ring of 30
roots, spent nullifiers, custody of the token. Operations: initialize, deposit,
withdraw. Hard: the tree and the hash must agree with two other
implementations; a proof is made against an old root; two withdrawals of a note
in flight. Right: the pool holds what has not been withdrawn, and no proof is
outdated.

**Pool client** (`lib/pool/`) - *partly modelled.*
State: none of its own; the tree is rebuilt from events. Operations: notes and
their text, sync, deposit, withdraw with simulation, submission and up to
thirty polls. Hard: events fall out of retention; no answer is taken for
success.
Right: a path satisfies the circuit; a complete sync gives an acceptable proof;
what is parsed is what was printed.

**Cryptography and ZK proofs** (`lib/crypto/`, `lib/zk/`, `zk/circuits/`) -
*partly modelled.* Stateless. The MiMC sponge is written three times and the
proof is encoded for a fourth reader. Right: all of them agree.

**Batch disbursement** (`lib/pool/batch.ts`, `lib/reports/payroll*.ts`) and
**receiver claims** (`lib/receiver/`) - *modelled.*
State: `PaymentBatch`, its payments with `poolCommitment` and
`poolNullifierHash`, notifications, claim links. Hard: a deposit succeeds and
the insert fails, so the note is gone; a withdrawal succeeds and the request
dies before the row knows; two claims race from the status check; an answer
that only means "not known to have failed" settles a payment. Right: SETTLED
means paid, by the withdrawal the row names; a note pays once; the batch, its
page and the register count what landed.

**Treasury yield** (`lib/yield/`, `app/api/mock-anchor/payout/route.ts`) -
*modelled.* State: `YieldConfig`, `YieldPosition` (one per payment), the
payment's SWEPT_* status. Operations: sweep in after creation, sweep out before
the payout, the fallback when the unwind throws, settings, four reports.
Hard: two payouts overlap, a sweep overtakes another, the fallback writes over
a status it has not read. Right: the figures of an unwind are recorded once and
told alike everywhere; the float comes back; the payout is never blocked.

**Payroll and HR** (`lib/hr/`, `app/api/hr/`) - *modelled.*
State: packages, policies, advances and conversions (requested, approved,
disbursed, repaid, rejected). Hard: caps are sums read before an insert at the
default isolation; approval pays through the pool first and marks afterwards; a
salary nets advances that a concurrent run nets too. Right: an advance or a
conversion is paid once; ledgers of repayments and reservations add up.

**Reports and exports** (`lib/reports/`, `app/api/reports/`, `prisma/seed.ts`)
- *partly modelled.* State: `DisclosureLink`, `AuditLog`, the tenant's view
key.
Operations: statement, FX summary, attestation, disclosure pack, decrypt, links
and their views; the seed script, which replaces the key. Hard: four documents
choose field by field between receipt, legs and payment; rows change under a
report; a link is rotated while it is being viewed. Right: the documents tell
the same; nothing is disclosed without its audit row; a dead link stays dead.

**Demo replay and mock anchor** (`lib/demo/`, `lib/anchor/mock.ts`,
`app/api/mock-anchor/`) - *partly modelled* and *modelled.* The reset returns a
payment to PENDING in one transaction while handlers are at work on it; the
anchor is a provider that signs and delivers events.

**Web interface** (`app/`, `components/`) - *partly modelled.* It keeps no
state of its own; what its pages show of a row, and what its panels start, is.

**Tenant isolation** (`lib/db.ts`), **heartbeat and health**, **storage and
e-mail**: see [Not modelled](#6-not-modelled).

## 2. Modules

| Module | What it is |
|---|---|
| `Reconciliation` | the spine: creation, webhooks, watcher, reconcile worker, operator routes |
| `SettlementContract` | what the spine promises, without rows, queues and handlers |
| `PoolTree`, `ShieldedPool` | the Merkle tree as contract, client and circuit compute it, over a free hash or over MiMC; the contract, the ledger, the clients |
| `PoolCustody` | what the pool promises about money, without tree, roots, proofs and clients: `ShieldedPool` implements it, `PoolClaims` relies on it |
| `MiMC`, `PoolNotes` | the sponge, written three times; notes, amounts, the withdraw circuit, proof encoding and pairing check, over a small field |
| `PoolClaims`, `PayrollRegister` | a batch, the ways its notes are delivered, the claims that spend them; the register with its flow map, page and files, and the batch page |
| `Payroll` | packages, advances, conversions, salaries |
| `Access` | throttle, signup, login, sessions, Idempotency-Key |
| `Treasury` | sweeps, payout, settings |
| `Reports` | disclosure links, packs, decrypt and the seed script; extends `Reconciliation`, whose rows it reads |
| `Documents`, `DemoData`, `ReportFiles`, `ReportPages`, `PaymentViews` | the documents as functions of rows; the seeded rows; CSV cells and PDF phrases; the pages of statement, FX summary and payment, with its polling; lists, KPIs and details |
| `NumberLemmas` | lemmas only: induction over finite sets, sums, cardinalities, powers, division |

Each state machine `X` has `XProperties` (its invariants and properties), `MCX`
(its instance for TLC) and `XProofs` (its theorems). A definition marked
`(fault)` is not part of the system: it is a definition of the code with one
plausible bug, kept to show that a property would notice it.

### Reconciliation

One action is one database, queue or RPC call, because that is how far the code
is atomic; a handler is a record with a program counter, and what it keeps in
local variables between two calls is in that record.

| TLA+ | Code |
|---|---|
| `status`, `onchainLeg`, `fiatLeg`, `receipt`, `row` | Payment, the two PaymentLegs, Receipt, WebhookEvent |
| `watchJob`, `tries`, `jobs` | BullMQ: the watch job with `attemptsMade`, the waiting reconcile jobs |
| `creation`, `hook`, `watcher`, `runner` | `createPayment`, a webhook request, `processWatchOnchain`, `tryReconcile` with `buildReceipt` |
| `onLedger`, `sent`, `used` | the ledger, deliveries so far, the bounds on faults, resets and retries |
| `Create*` | submit, insert, enqueue of `createPayment`; `CreateAbort` a failure in between |
| `Deliver`, `HookReject` ... `HookEnqueue` | the two webhook routes, one action per call, in their order |
| `WatchTake` ... `WatchGiveUp` | `processWatchOnchain`; `WatchThrows` is BullMQ's retry |
| `ReconcileTake`, `ReconcileFail`, `ReconcileSettle` | the reads, and the two updates of `tryReconcile`; only the second is guarded by the current status |
| `ReceiptRead`, `ReceiptWrite` | `buildReceipt` re-reads the rows, then upserts |
| `HookAbort`, `WatchAbort`, `ReconcileAbort` | a crash or a failing call; nothing done is undone, jobs come back |
| `RetryReconcile`, `DemoReset` | the operator routes |

Abstracted: a fiat leg and a receipt are the event they were written from (the
figures are a function of it); corridor and amount stay, because the tolerance
check reads them, in minor units; time (backoff, delays) is any interleaving;
an HMAC check is a choice among the event's `Signatures`. The two webhook
routes are one sequence of steps: they differ in when the payment is looked up
(fiat before the row is recorded, chain afterwards), which `Deliver` and
`HookLookup` keep. `None` for a receipt or a fiat leg is an absent row. SWEPT_*
statuses are left to `Treasury`: `createPayment` starts the sweep-in after it
has added the watch job.

### Shielded pool

A note stands for its commitment and its nullifier; in the state machine
hashing is free pairing, so two trees have equal roots only if they have equal
leaves. The contract's variables are its storage keys. A transaction is
simulated and submitted by a client (`SubmitDeposit`, `SubmitWithdraw`), and
included, failed or expired by the ledger (`IncludeDeposit`, `IncludeWithdraw`,
`Forgo`) at any later moment, also after the client has given up polling
(`Poll`). An answered request whose transaction is no longer pending is
forgotten (`Closed`). A withdrawal syncs first (`Sync`), possibly without the
oldest events (`AgeOut`), and proves with what it got. Synced pages are one
step: the result is a contiguous range of an append-only history, which is what
some single moment shows. The scan also ends after 50 pages (`sync.ts:58`),
which would drop the *newest* events. The model has no such cap: the scan
covers 120 000 ledgers at about 10 000 a page, and all deposits of a tree of 16
leaves fit one page.

A tree is named for what hashes it: `"pool"` pairs freely, `"client"`,
`"contract"` and `"circuit"` are the three MiMC programs.

`MiMC` and `PoolNotes` fill in the data: the Feistel sponge as `mimc.ts`,
`mimc.rs` and the circom template compute it, commitment and nullifier hash,
the note's text and its parser, XLM to stroops with `Decimal`'s precision, the
constraints of the withdraw circuit, the encoded proof and the pairing
equation. Their parameters (order of the field, rounds, constants, places) are
CONSTANTS; the code's values do not matter to the agreement they are checked
for. The pairing is external: a group element is its exponent.

`PoolCustody` is where the two models of a withdrawal meet. `ShieldedPool` has
the contract and its proofs but no rows, `PoolClaims` has the rows but only
says that a withdrawal lands or never does; both are shown to be the same
ledger of notes (`ImplementsCustody`, `RailUsesCustody`).

### Claims

The chain is the environment: `LandDeposit` and `LandWithdraw` happen whenever
they like, also after the sender gave up, or never: a transaction the ledger
drops is one that stays sent. `batch` is the one request that runs
`createPoolBatch`, row by row; `RowFails` is the catch of a row, `BatchDies` a
crash. `claim[c]` is a request in `claimToWallet` or `claimToBank`: check,
submit, poll, one database transaction, payout, reconcile, receipt, notices;
each of these is an action, each may be the last (`ClaimStops`). `jobs` and
`settling` are the worker's share of the bank claim. `TriggerPayout` is the
bank told, with every outcome of the fiat webhook that hears of it: the payout
completed or refused, the refusal recorded in the leg (`bounced`) and not yet
in the payment, or nothing recorded. The claim asks the mock for no failure; a
refusal is the provider's `payment.failed` event, as in `claim.test.ts:195`.
The payment is FAILED then, the claim answers 502 and the XLM stays in custody.
`unsure` collects the rows whose poll gave up, because the code goes on there
as if it had succeeded; the properties speak of the others.

### Payroll

A handler is a request of an administrator. A Prisma `$transaction` runs at
READ COMMITTED: what it read may be stale when it writes, so reads and writes
are two steps; rows it updates stay locked to its end, so its writes are one,
and the WHERE of an `updateMany` is evaluated again there. Approve pays first
(`PayAdvance`, `PayConversion`) and marks afterwards (`Mark...Disbursed`);
`PayoutFails` is the catch, `Abort` a crash. Payouts are single-row batches,
opaque here. Money is in stroops. `withheld` and `repaid` are auxiliary sums.
The lists of the employee page return the newest `ListLimit` rows (200 in the
code); what eligibility and a salary run add up is read without a limit.

### Access

Every call to Redis or Postgres is a step; `Tick` moves time, and Redis drops
what has run out. `lapsed` and `late` record the two ways the code lets a key
make a second payment (the record ran out under a request that was still at
work or dead, or `createPayment` failed after its insert and the route released
the key), so that `KeyMakesOnePayment` says that there is no third. `crashed`
names the counters whose own request died exactly between INCR and EXPIRE; no
other crash excuses `LockoutEnds`.

### Treasury

A request is the tail of `createPayment` (`SweepInPlan`, `SweepInStore`) or one
call of the payout route (`Payout`, `Unwind` or `Reread`, `Fallback`,
`TriggerPayout`). The swap is simulated in the code itself, so a failing unwind
is a failing database call (`UnwindThrows`), and so is a failing fallback
(`FallbackThrows`), after which the route pays nothing. `dropped` names the
requests that ended so, or died, after they had begun to unwind. Amounts are in
units of the eighth decimal, where the code rounds; read models (`Dashboard`,
`Attribution` with its files, `ReceiptYield`) are in the properties module.
`unseen` records a payout that ran before the sweep-in.

### Reports

`Reports` runs requests beside the whole spine: `Start` and `Continue` go
through the database calls of a view, a pack or a decrypt, `RequestFails` ends
one anywhere; `Mint` and `LinkDies` rotate, revoke and expire; `SeedStep` is
the seed script, statement by statement. `owed` counts audit rows less the
answers they cover. `RowOf` turns a row of the spine into the record `Documents`
works on. How many requests are made is not bounded, only how many run at once.

## 3. Runs

| Run | Question | Instance |
|---|---|---|
| `reconcile_legs` | is a settlement always evidenced, is no wake-up lost, and does the spine implement its contract? | one payment; a completion exactly on the 1 % tolerance, one just outside, a failure, the on-chain event; two concurrent requests, watcher, one runner; one fault, one call of an operator route |
| `reconcile_live` | does what must happen happen, and does a replay change nothing? | fair processes, no faults; the completion delivered twice, a failure that may be forged, the on-chain event; two requests; as many queue attempts as watch attempts |
| `shielded_pool` | do three trees and three hashes agree, is no proof outdated, is the pool solvent? | five notes for four leaves, four roots, two concurrent requests, two withdrawals, one aged event; a field of 13 |
| `claims` | does a note pay once, does SETTLED mean paid, does the batch count what landed, do register and pages agree? | two rows, one receiver with an address, two claims, two withdrawals, a bank that may refuse |
| `payroll` | is anything paid twice, do the books add up? | one employee, two administrators, three packages, two advances and conversions, three payouts, lists of one row |
| `access` | one payment per key, sessions within their bounds, no lockout without end? | one user, one key, two requests, five ticks, two faults |
| `treasury` | are figures recorded once and told alike, does the float come back, is the payout never blocked? | one payment, two requests, two amounts, three forms, three times held, two faults, one crash |
| `reports` | do the documents agree, is every disclosure audited, does a dead link stay dead? | the sample payment with two completions, two requests, two tokens, one run of the seed script; all seeded rows |
| `watch_doc`, `verified_wins_doc`, `receipt_doc`, `over_conversion_doc` | see [section 5](#5-where-code-and-documentation-disagree) | one payment each; the instance of `payroll` |

**What they show.**

*Spine.* `SettledOnEvidence` and `ReceiptOnEvidence`: however webhooks, resets
and second runners rewrite the rows under a runner, its settlement and its
receipt stand on verified events. `NoLostWakeup`: a matched payment that is not
terminal has a job or somebody on the way to add one. `ReplayNeverRewritesLeg`:
the unique row makes one handler of one recorded event the only writer (checked
without faults and resets; with them it is proved, `ReplaysChangeNothing`).
`SettledFailsOnlyOnFailedEvent`: only the provider takes a settlement back.
`ImplementsContract`: the whole of it refines `SettlementContract`.
`MatchedSettles`, `SettledGetsReceipt`, `VerifiedDeliveryProcessed` and
`WatchConcludes` say what must happen in the end.

*Pool.* `MirrorReproducesRoots`, `PathsSatisfyCircuit`: the trees, the hashes,
the circuit and the proof format agree. `PublishedRootsStayKnown`,
`CompleteMirrorIsAccepted`: a proof is good as long as its note is unspent.
`Solvent`: the pool's balance is the sum of the unspent deposits.
`ImplementsCustody`: a note is paid once, in full and after its deposit, and
nothing else moves the balance.

*Claims.* `PaidOnce`: two claims that both pass the check are told apart by the
nullifier on chain, and the loser touches no row. `SettledIsPaid`: whichever
unguarded update comes last, the row names the withdrawal that spent its note,
and one that the bank refused is FAILED, not settled. `BatchCountsItsPayments`:
the figures the batch stored are those of the rows it left, and every note of
them was handed over. `RailUsesCustody`: however deposits and withdrawals land
late or are lost, the chain that the claims see is the ledger of notes that the
pool implements. `RegisterAgrees`: register, flow map, files and pages show the
same of those rows whenever no claim is half done.

*Payroll.* `PaidAtMostOnce`: the compare-and-set on `status` holds approvals,
automatic approvals and rejections apart. `RepaymentsAddUp`,
`ReservationsAddUp`: no concurrent settlement or rejection counts twice. The
lists of the page add up to them as long as they hold every row.
`HasActivePackage`: the package set last is active, whatever overlaps or fails;
that it is the only one is false (section 5).

*Access.* `KeyMakesOnePayment`: a key makes one payment unless its record lapsed
or a creation failed late. `SessionBounded`: no session outlives its two bounds
or comes back. `LockoutEnds`: every counter runs out within a window from now,
but one whose own request died between INCR and EXPIRE.

*Treasury.* `RecordedOnce`: no fallback or second payout rewrites an unwind.
`FloatComesBack`, `PayoutNeverBlocked`: a failure costs yield, not the payout,
unless the paying request itself died or the write of its fallback failed.
`FiguresAgree`: dashboard, report, page and files tell the same of every
position, and so does the receipt, but for one unit of its net on a tie.

*Reports.* `DocumentsAgree`: in every state of the spine statement, FX summary,
attestation, pack, the CSV and PDF files, the payment's page and the dashboard
tell the same transaction, bank reference, receipt and amount paid of a
payment, and the same amount received once its receipt is stored. Two parts say
exactly what they tell where they differ: before that receipt the statement and
the attestation show the quote and the FX summary the leg (`SameReceived`),
whose gain is within the tolerance if it is a leg that settles; and the details
show the documents' bank reference exactly if no later event has rewritten the
leg (`LegsAreTold`). TLC decides `ReportsAgree` once for every ledger the live
columns could hold (`Ledgers`), and a state only looks its ledger up.
`SeededDocumentsAgree` is the same of the seeded rows, which bring both rails
and every status, and of their lists, pages and details. `DisclosuresAudited`:
the audit row comes before the answer. `DeadLinksStayDead`: a view that began
before a rotation revives no token.

**Bounds.** One payment is enough for the spine: no action reads or writes the
rows of two payments, and the shared resources are the watcher (whose one slot
a second payment could only delay) and the requests (two, so that any two
handlers overlap). `reconcile_legs` has 1 queue and 2 watch attempts instead of
5 and 10: the model compares them only with each other. `reconcile_live` has
three of each, so that the give-up branch is reached; the shipped 5 and 10 are
the subject of `watch_doc`. One fault and one reset or retry already separate
any two steps; a second fault of the same kind repeats the first from a state
the run reaches.

Five notes fill a tree of depth 2 and overrun it, and a ring of four comes
round exactly once. In a field of 13, x^5 is a permutation, as it is in the
real one, and a wrong round, constant or order of inputs shows in the result;
four rounds have the two zero constants of the real 220 and two others.

A batch needs two rows, one that is notified and one that is not, so that a
failed row precedes a good one; two claims race; a third withdrawal of a note
is refused like the second. Two administrators are the least that overlap, and
no rule of the code counts to three except the cap and the packages, of which
`OverConversionHasABound` and `ActivePackagesHaveABound` are proved for any
number. A page that lists one row of two is one that holds all of them at first
and some of them later. Five ticks let every record of `access` run out at
least once and the hard cap cut a renewal. A second payment in `treasury` would
make the run too large; the handlers touch one payment, and the sums over
several are what `FiguresAlwaysAgree` proves. Treasury's amounts lie on both
sides of the buffer, and a fee of 50 % of an odd accrual is the tie its
rounding is checked on; clock skew is a time held of -1 day. The reports' live
payment has a receipt, a late corrected completion, a reset by the seed and
everything between; the seeded data bring both rails and every status.

Requests, and notes of equal amount, are interchangeable, so their permutations
are factored out; runs with liveness properties use no symmetry.

**Deadlock** is not checked: every system here may stop, when all payments are
done and the bounded users, providers and faults have nothing left.

**Fairness.** `Reconciliation!Fairness`: weak fairness of each request's steps,
of the watcher's and the runners' steps, of taking a waiting job, and of
`createPayment` finishing what it started. Node runs a started handler on, and
BullMQ workers poll their queues as long as the process lives. Nothing is
assumed of users, providers, operators or the ledger. `Treasury!Spec`: weak
fairness of `RequestStep(r)`, the steps of a request that do not fail, for the
same reason; failures and crashes stay possible at any time, and
`PayoutNeverBlocked` excepts only a request that crashed itself or whose own
fallback failed. The other modules have none: claims and the pool depend on the
ledger for progress, payroll, access and reports on their users.

## 4. Proofs

All theorems hold for any sets of payments, events, rows, employees, requests
and runners and any bounds, under the named assumptions of the modules, which
state the shape of the constants. Where something is summed or counted the set
is finite: `Payments` in `Treasury` and `Reports`, the handlers of `Payroll`,
the rows of a batch.

**Spine.** `SettledOnEvidence` is not inductive: a runner in the middle of
`tryReconcile` settles on what it read earlier. `EvidenceInv` adds where
everything a handler acts on comes from:

- `Creations`: Payment and ONCHAIN leg appear together, and only then is there
  a watch job, so nobody confirms the leg of a payment that does not exist;
- `Provenance`: every fiat leg is a verified event of its payment, and a
  request past the signature check holds a recorded event;
- `Decisions`: what a runner decided stays justified while it acts. The key is
  that evidence only grows (`EvidenceGrows`): a confirmed leg is never
  unconfirmed and a recorded event never forgotten, even by a reset, which
  deletes the leg but not the event.

From it follow `TypeCorrect`, `SettlementIsEvidenced`, `ReceiptIsEvidenced`;
with `QueueAttempts < MaxWatchAttempts` (5 < 10, as shipped)
`WatcherNeverGivesUp` and `SettlementFailsOnNotice`. Under the same assumption
`SpineImplementsContract` maps the initial states and each step to
`SettlementContract`. `NoWakeupIsLost` has one lemma per process: each step
that makes a payment due leaves its actor on the way to the queue, and each
step that takes a wake-up away replaces it or makes the payment terminal.
`ReplaysChangeNothing` proves an action property from `HandledOnce`: one
request at most is at work on a recorded event, and none once the row is
processed.

**Pool.** `RootsAreNeverForgotten`, for any depth and any ring with at least as
many slots as leaves: the k-th root lies in slot k, because the tree is full
before the ring comes round. `PoolInv` bounds what a request in flight may
still do, so that `PoolIsSolvent` holds whatever lands late. `TreeInv` says that
the node the contract remembers on a level is the one the client's table has
there (`FilledOK`); from it an insertion climbs to the client's root
(`MirrorMatchesRoots`), by induction over the levels as a finite set. The same
induction over a path gives `PathsLeadToTheRoot`. `MirrorsAreAccepted` combines
the three: a synced request holds a prefix of the events (`ProverInv`), the
root of a prefix was published, and no published root is forgotten.
`PoolImplementsCustody` takes from `PoolInv` that a withdrawal in flight is of
a deposited note and of its amount.

**What is proved of the data.** `HashesDoAgree`, for every field, number of
rounds and constants of which the first and last are 0 (`MiMCAssumption`, as
shipped): each of the three sponges is brought to one canonical form,
`Sponged`, whose rounds are the values of one recursive function.
`TreesDoAgree`: over these hashes client, contract and circuit have the same
root of any sequence of leaves, and `PathsLeadToTheRoot` holds across them.
`NotesAlwaysRoundTrip` and `AmountsAlwaysExact`: a note survives being written
and read; no accepted amount is rounded, as long as its stroops have no more
digits than the precision. `NoteBinds`: the input a client builds for any note,
recipient and leaves satisfies the circuit, and the encoded proof verifies for
the root, nullifier hash, recipient and amount it was made for and for no other
value of any of them. The pairing equation is a polynomial in the exponents; a
changed signal changes it by a product of factors that are units, because
`NotesAssumption` excludes orders divisible by 2, 3 or 5 (the scalar field of
BLS12-381 has a prime order). What is *not* general: the keys are four and the
prover's randomness is one pair (`Keys`, `CallFor`), and a group element is its
exponent, so nothing is said about the hardness of forging one.
`PathsAlwaysSatisfyCircuit` collects all of it, with the paths of whatever part
of the history a request has synced.

**Claims.** `ClaimTypes`, `NotesPayOnce`, `SettledClaimsArePaid`: what makes
`PaidOnce` inductive is ownership. A claim past its submission owns one
withdrawal, no two claims share one, and the ledger lands one withdrawal per
note; so at most one claim of a note gets past its poll. `RowInv` carries it to
the row: whatever a claim is about to write is what the landed withdrawal says,
so the order of the writes does not matter; of a row without an unsure poll
only its one claim tells the bank, so a refusal finds the row that claim
confirmed. Rows for which a poll gave up (`unsure`) are excepted: the code goes
on as if their withdrawal had landed. `BatchesAreCounted`: `CountInv` says at
every row that the batch has counted all payments there are but the one it is
storing or delivering (`Pending`). `RegistersAgree`: `ShownInv` says what of a
row is shown as paid, or as failed, and that a payment of which anything is
told names a transaction; the totals of the register, of its groups and of the
edges of the flow map are then sums of one function over one set, split in
different ways (`SumParts`). The assumption `BatchInput` is the zod schema of
the route. `RailRespectsCustody` follows from what is known of the ledger: a
withdrawal can land only of a deposited note not withdrawn yet (`DepositInv`,
`TxInv`).

**Payroll.** `PaysOnce` is one argument used for advances and conversions: a
request that is about to pay found the row requested by compare-and-set, so no
other request can have done so, and nobody pays a row that is not approved; a
row says DISBURSED only with the payout that its own request made. The theorems
on money share `MoneyInv`, whose parts speak of a row together with the
handlers that are about to change it: of each employee's packages the newest is
open, and those open that a package change has not read are no more than the
other handlers (`Shows`); the balance of an item is the sum of its live
conversions (`Booked`); what is reserved and what handlers in flight will
reserve is at most the benefit times the handlers (`Bounded`), which is how far
the promise of `conversions.ts:14` can be broken; what the advances lost is
what was repaid, and that with what handlers have yet to apply is no more than
was withheld (`Lent`). From it: `MoneyTyped` (no balance below zero),
`BalancesMatchConversions`, `SettlementsMatchSalaries`,
`OverConversionHasABound`, `AlwaysAPackage`, and `ActivePackagesHaveABound`: of
n handlers at most n leave a package active, and one handler exactly one. The
sums are over the stored rows; a list adds up to them while it holds them all.

**Access.** `AccessTypes`, `LockoutsEnd`, `SessionsAreBounded`,
`KeysMakeOnePayment`. A counter without a clock is traced to the one request
between its INCR and EXPIRE, or to its death there; any other runs out within a
window. The renewal writes `min(now + sliding, absolute)` with the time it
began at, so the proof carries a bound on what a request remembers; it needs
`SlidingTtl <= AbsoluteTtl` (24 h and 7 d). For the key, the request at work
holds the reservation unless it lapsed, and no reservation is granted while
there is a record.

**Treasury.** `TreasuryInv` ties what a request keeps in its variables to the
row it will write, however stale its read is (`ReadsOK`): the principal and the
fee rate it computed with are still those of the row, and a row's figures are
those of one unwind or of none (`RowOK`); a request about to pay out does so
only with the float back, or of a payment whose position it did not find.
`UnwindIsRecordedOnce` (an action property), `FloatIsBack` and
`FiguresAlwaysAgree` follow; the last rests on the lemmas on rounding and on
sums, since dashboard and report add the same fees over different sets. That
two numbers which add up to an integer both round up on a tie, and only then,
is `NetRounds`.

**Reports.** `EveryAnswerIsAudited`: the audit rows not yet used up are as many
as the requests about to answer under one (`AuditInv`). `DeadLinksNeverOpen`:
tokens are numbered in the order of minting (`LinkInv`), and no later row of a
payment carries an earlier one. `SeedingKeepsEvidence` shows that the spine's
`EvidenceInv` survives the seed script, statement by statement.

`DocumentsAlwaysAgree` is two steps. Whatever rows a ledger has, its documents
agree if each row is as `RowOK` says (`ReportsDoAgree`): a receipt with amounts
tells all of them and, if the legs tell a transaction or a reference, one of
its own. And the live rows are such rows in every state that `EvidenceInv`
allows (`LiveIsOK`, `LiveIsALedger`), because a receipt is written from a
verified event. `LegsDoTell` adds the details: a leg is an event with its own
reference, and the tolerance bounds the gain of one that would settle its
payment. The same theorem gives `SeededDocumentsAlwaysAgree`, where each row of
the scripts is shown to be one (`DemoRows`), and `LiveListsAgree`, which no run
checks of the live rows: the list is proved to enumerate the rows wanted
(`NewestEnumerates`), a page to be the piece of it that begins at the cursor
(`PageIs`), and the walk to glue these pieces (`WalkIs`). `EveryRowFitsItsPage`
holds of any number of rows and follows the cursor of the PDF from row to row.
`NullAssumption` and `ReportAssumption` say that null is none of the values a
field can hold and that sources, corridors and event ids are given, as the
columns are NOT NULL and the webhook schemas require.

**Method.** The prover cannot instantiate an induction theorem that takes a
predicate. `NumberLemmas` states induction for a *set* of counterexamples
(`SubsetInduction`: a set of subsets each of which can lose an element and stay
in it, and that has not the empty set, is empty), which is enough for sums,
cardinalities and tree levels. It is the basis of every theorem above that adds
something up.

**Only model-checked.** `MatchedSettles`, `SettledGetsReceipt`,
`VerifiedDeliveryProcessed`, `WatchConcludes` and `PayoutNeverBlocked` are
liveness under fairness, which the prover does not treat. Every invariant and
every action property of a passing run, and the three refinements, are proved.

## 5. Where code and documentation disagree

Four are runs that TLC must find violated.

- `watch_doc`: the watcher marks a payment FAILED on its tenth attempt, but the
  queue grants five; the payment stays PENDING. `SPEC.md:203` and
  `README.md:220` promise FAILED after the attempts are exhausted.
- `verified_wins_doc`: `fiat/route.ts:83` says the first verified write wins;
  an unverified delivery stored first under the same event id makes the
  verified one a duplicate.
- `receipt_doc`: SETTLED is committed before the receipt is built, and the
  retried job stops at the terminal status. `SPEC.md:734` promises SETTLED and
  a receipt.
- `over_conversion_doc`: the balance is checked before the transaction that
  reserves it, so two overlapping requests convert more than the benefit;
  `conversions.ts:14` says that concurrent requests cannot.

The others are behaviours the models contain; each is named at the definition
it concerns, and where a property is near it the property says exactly how far
the code goes.

Spine:
- `matcher.ts:19` calls terminal states idempotent no-ops, but a watcher that
  read the status earlier sets ONCHAIN_CONFIRMED over SETTLED. The contract
  allows it, because the next reconciliation settles the payment again.

Pool:
- `proof-encoding.ts` and `address.ts:15` say the contract derives the
  recipient field again from the address; `pool.rs` takes it as an argument of
  its own.
- `xlmToStroops` "throws rather than rounding", but `Decimal` keeps 20 digits;
  amounts that long are stopped by the request schema, not here.
- The sponge of the circuit differs from `mimc.ts` for more than one output;
  the circuits only ask for one.

Claims:
- Thirty polls without an answer count as success for deposits and withdrawals.
- A crash between the withdrawal and the row's update strands the payment: the
  note is spent and the payment can no longer be claimed.
- A bank claim that is still WAITING is answered 200 and clears the notices.
- A payout the bank refused leaves the XLM in custody "for refund"
  (`claim.ts:193`); nothing in the code refunds it or lets the claim be retried.
- A crash of the batch, or a failing roll-up, loses the notes it had made: they
  are answered once and stored nowhere.

Payroll:
- Concurrent requests pass the cap of advances (`advances.ts:213`) as they
  over-convert a benefit: the check precedes the insert.
- Concurrent package changes leave two active packages, although
  `employees.ts:275` promises exactly one. `ActivePackagesHaveABound` proves how
  many there may be: as many as changes that overlap, and one without overlap.
- Of two overlapping salary runs both withhold an advance and one settles it;
  the other settles nothing and answers 200, although `pay-salary/route.ts:67`
  calls that failure one to surface loudly. A run that dies before the
  settlement leaves the same. `RepaymentsAddUp` says only that no settlement
  exceeds what was withheld.
- An automatically approved advance cannot be disbursed: the route asks for
  REQUESTED (`advances.ts:257`). A rejection during the payout leaves a paid
  advance REJECTED.

Treasury:
- `sweepOut` is documented never to throw (`sweep.ts:121`, and the payout route
  relies on it), but its first read (`:145`) and the update in its catch
  (`:229`) may; the route then answers an error and pays nothing. The first
  read precedes any unwind; the second is `FallbackThrows`, the one failure of
  another call than its own death that `PayoutNeverBlocked` excepts, for that
  request only.
- A payout that overtakes `createPayment` finds no position; the float is then
  swept in and stays.
- The fallback never checks that the buffer covers the principal, and a request
  that lost the race reports "unwound" also if the winner fell back.
- `receipt.ts:64` and `yield-attribution.ts:13` promise that nothing drifts, but
  the receipt derives the net from an unrounded fee: on a rounding tie it is one
  unit of the eighth decimal above the report's. `FiguresAgree` states that
  difference, and none otherwise.

Access:
- A `createPayment` that fails after its insert releases the key, and the retry
  makes a second payment; so does a request slower than its reservation.
- `release` deletes the key also if another request holds it by then.
- A crash between INCR and EXPIRE leaves a counter that never ends; a request
  renewing a session that a logout deletes answers 500.

Reports:
- `csv.ts:23` marks a leading minus sign as text, so sums over the FX file's
  column leave losses out.
- `attestation.ts:14` and `fx.ts:15` say that figures are taken from what the
  receipt stored. Until there is a receipt with figures, which a fault can make
  for ever (`receipt_doc`), the statement and the attestation show the quote as
  the amount received and the FX summary what the FIAT leg says; `SameReceived`
  states each. The attestation's signature changes when a receipt
  appears, and covers neither the counterparty nor the rail nor the legs.
- "Every generation is audit-logged", but `recordAudit` swallows failures; the
  disclosure routes, which insert the row themselves, do not.
- A completion that arrives after the receipt rewrites the fiat leg: the details
  page then shows the new bank reference and the documents the receipt's.
  `LegsAreTold` says that they differ then and only then.
- A view of a rotated link can be counted on its successor;
  `verifyDisclosureOnChain` does not look at the payment's status.
- Running the seed again replaces the view key in statements of its own, and
  whatever is revealed in between cannot be decrypted.
- The dashboard's KPIs are separate queries; its pending count leaves SWEPT_*
  out. Pages are ordered by creation time alone.

Web interface:
- Two polls of the payment page overlap, and a failed fetch of the receipt
  locks the panel until the page is loaded again.
- A settled payment of the seeded batch has a receipt without amounts, which
  the receipt panel cannot render (`ReceiptPanel`).

## 6. Not modelled

- Tenant isolation (`forTenant`) rewrites the arguments of a query; it has no
  state of its own. The models have one tenant.
- The heartbeat is one key with a time to live that the health route reads.
- Storage and e-mail are output. The claim link's e-mail is modelled by its
  outcome, which decides whether a link exists.
- AES-GCM, the wrapping of keys, password hashing and the trusted setup are
  data: a cipher is the key it was made under.
- CSRF and origin checks, and the lookup of an API key, test one request and
  change nothing.
- `replay.ts` and the pool's `demo.ts` drive the other operations in a fixed
  order.
- Wording, fonts, layout, forms and navigation; the lists' corridor filter (it
  works as the one by status) and the average time of settlement.
- The Groth16 verifier contract `shielded_transfer` of the payment rail emits
  an event and keeps no state: it is `LedgerEvent`.

## 7. Plan

What could follow, most useful first.

1. Receipts of claims: that each SETTLED row of a claim gets its receipt unless
   the worker dies, which needs fairness of the claim requests.
2. Outdated proofs in a claim: `PoolCustody` carries the money from the pool to
   the claims; that a claim with aged events fails *before* it is submitted
   would need the roots in between as well.
3. `NoteBinds` for any key and randomness of the prover: the pairing equation
   in the exponents is the same, the four keys of `Keys` are where it is
   evaluated.
4. Two tenants, once the arguments that `forTenant` rewrites matter to a
   property.
