---------------------------- MODULE ShieldedPool ----------------------------
(***************************************************************************)
(* The shielded pool: the Soroban contract (deposit commitments in a       *)
(* Merkle tree, a ring of recent roots, a set of spent nullifiers, custody *)
(* of the token) and the server-side clients that submit to it: deposits   *)
(* (lib/pool/deposit.ts) and withdrawals, which rebuild the tree from the  *)
(* deposit events (lib/pool/sync.ts) before they prove and submit          *)
(* (lib/pool/withdraw.ts).                                                 *)
(*                                                                         *)
(* A note stands for its commitment in the tree and for its nullifier.     *)
(* External: the ledger includes a submitted transaction or lets it        *)
(* expire, atomically and in any order; the RPC forgets old events.        *)
(***************************************************************************)
EXTENDS PoolTree, FiniteSets

CONSTANTS
  Notes,         \* the notes that may be minted
  Amount,        \* the amount a note is minted for
  Requests,      \* deposits and withdrawals the server may run at once
  RootHistory,   \* ROOT_HISTORY: recent roots the contract accepts (30)
  MaxClaims,     \* bound: withdrawals tried
  MaxAged,       \* bound: deposit events that fall out of RPC retention
  None           \* no note, no root

ASSUME PoolAssumption ==
  /\ Amount \in [Notes -> Nat \ {0}]
  /\ RootHistory \in Nat \ {0}
  /\ {MaxClaims, MaxAged} \subseteq Nat
  /\ None \notin Notes

VARIABLES
  \* contract storage
  initialized,   \* the instance has its Token, Depth and Vk
  nextIndex,     \* NextIndex
  filled,        \* FilledSubtree per level
  roots,         \* Root ring buffer
  rootIdx,       \* RootIdx
  spent,         \* Nullifier keys
  balance,       \* the contract's balance of the pool token
  \* ledger and RPC
  events,        \* deposit events: commitment and the root it led to
  aged,          \* oldest deposit events the RPC no longer serves
  \* clients
  note,          \* "fresh", "minted", "held" (handed out) or "lost"
  request,       \* the deposits and withdrawals in progress
  claims         \* withdrawals tried so far

contract == <<initialized, nextIndex, filled, roots, rootIdx, spent, balance>>
vars     == <<contract, events, aged, note, request, claims>>

RequestPc == {"idle", "prove", "poll", "answered"}
TxStatus  == {"none", "pending", "success", "failed", "expired"}

IdleRequest == [pc |-> "idle", op |-> "none", note |-> None, leaves |-> << >>,
                tx |-> "none"]

\* The caller has its answer; the slot is free once the ledger is done too.
Closed(req) == IF req.pc = "answered" /\ req.tx # "pending" THEN IdleRequest ELSE req

Commitments == [k \in 1..Len(events) |-> events[k].commitment]

\* (fault) Only the newest root is accepted.
IsNewestRoot(root) == roots[rootIdx] = root

IsKnownRoot(root) == \E i \in 0..RootHistory - 1 : roots[i] = root

-----------------------------------------------------------------------------
Init ==
  /\ initialized = FALSE
  /\ nextIndex = 0
  /\ filled = [i \in 0..Depth - 1 |-> None]
  /\ roots = [i \in 0..RootHistory - 1 |-> None]
  /\ rootIdx = 0
  /\ spent = {}
  /\ balance = 0
  /\ events = << >> /\ aged = 0
  /\ note = [n \in Notes |-> "fresh"]
  /\ request = [r \in Requests |-> IdleRequest]
  /\ claims = 0

\* The deploy script initializes the contract; a second call is refused.
Initialize ==
  /\ ~initialized
  /\ initialized' = TRUE
  /\ UNCHANGED <<nextIndex, filled, roots, rootIdx, spent, balance, events, aged,
                 note, request, claims>>

-----------------------------------------------------------------------------
(* The contract, when the ledger includes a transaction.                   *)

\* (fault) The ring index is not wrapped.
NextRootUnwrapped(i) == i + 1

\* (fault) The newest root replaces the last one.
NextRootSame(i) == i

NextRoot(i) == (i + 1) % RootHistory

CanDeposit == initialized /\ nextIndex < Capacity

Insert(leaf) ==
  LET root == Climb("pool", filled, nextIndex, leaf)[Depth] IN
  /\ filled' = FilledAfter("pool", filled, nextIndex, leaf)
  /\ roots' = [roots EXCEPT ![NextRoot(rootIdx)] = root]
  /\ rootIdx' = NextRoot(rootIdx)
  /\ nextIndex' = nextIndex + 1
  /\ events' = Append(events, [commitment |-> leaf, root |-> root])

\* The proof's public root, a fresh nullifier and funds; the proof itself
\* verifies because fullProve produced it.
CanWithdraw(n, root) == initialized /\ IsKnownRoot(root) /\ n \notin spent /\ balance >= Amount[n]

Settles(r, status) == request' = [request EXCEPT ![r] = Closed([@ EXCEPT !.tx = status])]

IncludeDeposit(r) ==
  LET n == request[r].note IN
  /\ request[r].op = "deposit" /\ request[r].tx = "pending"
  /\ IF CanDeposit
       THEN /\ balance' = balance + Amount[n]
            /\ Insert(n)
            /\ Settles(r, "success")
       ELSE /\ Settles(r, "failed")
            /\ UNCHANGED <<nextIndex, filled, roots, rootIdx, balance, events>>
  /\ UNCHANGED <<initialized, spent, aged, note, claims>>

\* (fault) The nullifier is not recorded.
IncludeWithdrawUnspent(r) ==
  LET n == request[r].note IN
  /\ request[r].op = "withdraw" /\ request[r].tx = "pending"
  /\ IF CanWithdraw(n, RootOf("pool", request[r].leaves))
       THEN balance' = balance - Amount[n] /\ Settles(r, "success")
       ELSE Settles(r, "failed") /\ UNCHANGED balance
  /\ UNCHANGED <<initialized, nextIndex, filled, roots, rootIdx, spent, events, aged, note, claims>>

IncludeWithdraw(r) ==
  LET n == request[r].note IN
  /\ request[r].op = "withdraw" /\ request[r].tx = "pending"
  /\ IF CanWithdraw(n, RootOf("pool", request[r].leaves))
       THEN /\ spent' = spent \cup {n}
            /\ balance' = balance - Amount[n]
            /\ Settles(r, "success")
       ELSE Settles(r, "failed") /\ UNCHANGED <<spent, balance>>
  /\ UNCHANGED <<initialized, nextIndex, filled, roots, rootIdx, events, aged, note, claims>>

\* A ledger applies it without effect (fees, resources, the depositor's
\* funds), or its time bounds pass before one includes it.
Forgo(r) ==
  /\ request[r].tx = "pending"
  /\ \E status \in {"failed", "expired"} : Settles(r, status)
  /\ UNCHANGED <<contract, events, aged, note, claims>>

AgeOut ==
  /\ aged < Len(events) /\ aged < MaxAged
  /\ aged' = aged + 1
  /\ UNCHANGED <<contract, events, note, request, claims>>

-----------------------------------------------------------------------------
(* The clients.                                                            *)

\* prepareTransaction simulates the call; sendTransaction queues it, drops it
\* (TRY_AGAIN_LATER, which the code takes for queued) or answers ERROR.
Submitted(req, simulated) ==
  {Closed([req EXCEPT !.pc = "answered"])}
    \cup (IF simulated THEN {[req EXCEPT !.pc = "poll", !.tx = t] : t \in {"pending", "expired"}}
          ELSE {})

\* submitDeposit mints a note and submits its commitment.
SubmitDeposit(r, n) ==
  /\ request[r].pc = "idle" /\ note[n] = "fresh"
  /\ \E req \in Submitted([IdleRequest EXCEPT !.op = "deposit", !.note = n], CanDeposit) :
       /\ request' = [request EXCEPT ![r] = req]
       /\ note' = [note EXCEPT ![n] = IF req.pc = "poll" THEN "minted" ELSE "lost"]
  /\ UNCHANGED <<contract, events, aged, claims>>

\* createPoolWithdraw rebuilds the leaves from the events the RPC still has;
\* a note that is not among them is answered 422.
Sync(r, n) ==
  LET leaves == SubSeq(Commitments, aged + 1, Len(events)) IN
  /\ request[r].pc = "idle" /\ note[n] = "held" /\ claims < MaxClaims
  /\ claims' = claims + 1
  /\ request' = [request EXCEPT ![r] = Closed(
       [IdleRequest EXCEPT
          !.op = "withdraw", !.note = n, !.leaves = leaves,
          !.pc = IF \E k \in 1..Len(leaves) : leaves[k] = n THEN "prove" ELSE "answered"])]
  /\ UNCHANGED <<contract, events, aged, note>>

\* submitWithdraw proves against the synced tree, however old it is by now.
SubmitWithdraw(r) ==
  LET req == request[r] IN
  /\ req.pc = "prove"
  /\ \E after \in Submitted(req, CanWithdraw(req.note, RootOf("pool", req.leaves))) :
       request' = [request EXCEPT ![r] = after]
  /\ UNCHANGED <<contract, events, aged, note, claims>>

\* getTransaction tells the status, or the thirty polls pass without one and
\* the submission is answered like a success, or a poll throws.
Poll(r) ==
  /\ request[r].pc = "poll"
  /\ request' = [request EXCEPT ![r] = Closed([@ EXCEPT !.pc = "answered"])]
  /\ \E ok \in {request[r].tx # "failed", FALSE} :
       note' = IF request[r].op = "withdraw" THEN note
               ELSE [note EXCEPT ![request[r].note] = IF ok THEN "held" ELSE "lost"]
  /\ UNCHANGED <<contract, events, aged, claims>>

-----------------------------------------------------------------------------
Next ==
  \/ Initialize \/ AgeOut
  \/ \E r \in Requests :
       \/ IncludeDeposit(r) \/ IncludeWithdraw(r) \/ Forgo(r)
       \/ SubmitWithdraw(r) \/ Poll(r)
       \/ \E n \in Notes : SubmitDeposit(r, n) \/ Sync(r, n)

Spec == Init /\ [][Next]_vars
=============================================================================
