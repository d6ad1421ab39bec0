------------------------- MODULE ShieldedPoolProofs -------------------------
(***************************************************************************)
(* The shielded pool, for every depth, history and number of clients: the  *)
(* ring of roots, the money and its refinement of PoolCustody (PoolInv     *)
(* says which requests may still deposit a note, and which may withdraw    *)
(* one), the tree, and what a client proves; then, for every field, the    *)
(* three hashes, the trees over them, notes, amounts and encoded proofs.   *)
(***************************************************************************)
EXTENDS ShieldedPoolProperties, SequenceTheorems, NumberLemmas

\* The slot of the root that the k-th deposit led to.
Slot(k) == IF k = RootHistory THEN 0 ELSE k

LEMMA SlotIsRemainder ==
  ASSUME NEW k \in 0..RootHistory PROVE k % RootHistory = Slot(k)
BY PoolAssumption, Z3 DEF Slot

LEMMA NextSlot ==
  ASSUME NEW k \in 0..RootHistory - 1 PROVE NextRoot(Slot(k)) = Slot(k + 1)
<1>1. Slot(k) = k BY PoolAssumption DEF Slot
<1>2. k + 1 \in 0..RootHistory BY PoolAssumption
<1>3. (k + 1) % RootHistory = Slot(k + 1) BY <1>2, SlotIsRemainder
<1> QED BY <1>1, <1>3 DEF NextRoot

LEMMA SlotsDiffer ==
  ASSUME NEW j \in 1..RootHistory, NEW k \in 1..RootHistory, j # k
  PROVE  Slot(j) # Slot(k) /\ Slot(j) \in 0..RootHistory - 1
BY PoolAssumption DEF Slot

\* The root of every deposit is where the ring put it, because the tree is
\* full before the ring comes round.
RingInv ==
  /\ nextIndex \in 0..Capacity /\ rootIdx = Slot(nextIndex)
  /\ \E S : roots \in [0..RootHistory - 1 -> S]
  /\ \E S : events \in Seq(S)
  /\ Len(events) = nextIndex
  /\ \A k \in 1..nextIndex : events[k].root = roots[Slot(k)]

LEMMA InsertKeepsRing ==
  ASSUME Capacity <= RootHistory, RingInv, NEW n, nextIndex < Capacity, Insert(n)
  PROVE  RingInv'
<1> DEFINE root == Climb("pool", filled, nextIndex, n)[Depth]
           x == [commitment |-> n, root |-> root]
<1>0. /\ Capacity \in Nat /\ RootHistory \in Nat \ {0} /\ nextIndex \in 0..RootHistory - 1
      /\ nextIndex + 1 \in 1..RootHistory
  BY DepthAssumption, PoolAssumption DEF RingInv
<1>1. rootIdx' = Slot(nextIndex + 1) /\ nextIndex' = nextIndex + 1 /\ nextIndex' \in 0..Capacity
  BY <1>0, NextSlot DEF RingInv, Insert
<1>2. roots' = [roots EXCEPT ![Slot(nextIndex + 1)] = root]
  BY <1>0, NextSlot DEF RingInv, Insert
<1>3. PICK S : roots \in [0..RootHistory - 1 -> S] BY DEF RingInv
<1>4. roots' \in [0..RootHistory - 1 -> S \cup {root}] BY <1>2, <1>3
<1>5. PICK T : events \in Seq(T) BY DEF RingInv
<1>6. events \in Seq(T \cup {x}) BY <1>5
<1>7. events' = Append(events, x) BY DEF Insert
<1>8. /\ events' \in Seq(T \cup {x})
      /\ Len(events') = nextIndex + 1
      /\ \A k \in 1..nextIndex : events'[k] = events[k]
      /\ events'[nextIndex + 1] = x
  <2> HIDE DEF x
  <2>1. Len(events) = nextIndex BY DEF RingInv
  <2> QED BY <1>6, <1>7, <2>1
<1>9. ASSUME NEW k \in 1..nextIndex + 1 PROVE events'[k].root = roots'[Slot(k)]
  <2>0. k \in 1..RootHistory BY <1>0
  <2>1. CASE k = nextIndex + 1
    <3>1. Slot(k) \in 0..RootHistory - 1 BY <2>0, PoolAssumption DEF Slot
    <3> QED BY <1>2, <1>3, <1>8, <2>1, <3>1
  <2>2. CASE k # nextIndex + 1
    <3>1. k \in 1..nextIndex BY <1>0, <2>2
    <3>2. events'[k].root = roots[Slot(k)] BY <1>8, <3>1 DEF RingInv
    <3>3. Slot(k) # Slot(nextIndex + 1) /\ Slot(k) \in 0..RootHistory - 1
      BY <1>0, <2>0, <2>2, SlotsDiffer
    <3> QED BY <1>2, <1>3, <3>2, <3>3
  <2> QED BY <2>1, <2>2
<1> QED BY <1>1, <1>4, <1>8, <1>9 DEF RingInv

LEMMA RingStep ==
  ASSUME Capacity <= RootHistory, RingInv, [Next]_vars PROVE RingInv'
<1>1. ASSUME NEW r \in Requests, IncludeDeposit(r), CanDeposit PROVE RingInv'
  BY <1>1, InsertKeepsRing DEF IncludeDeposit, CanDeposit
<1>2. CASE UNCHANGED <<nextIndex, roots, rootIdx, events>> BY <1>2 DEF RingInv
<1>3. ASSUME NEW r \in Requests, IncludeDeposit(r), ~CanDeposit PROVE RingInv'
  BY <1>2, <1>3 DEF IncludeDeposit
<1>4. CASE Initialize \/ AgeOut BY <1>2, <1>4 DEF Initialize, AgeOut, contract
<1>5. ASSUME NEW r \in Requests, IncludeWithdraw(r) \/ Forgo(r) \/ SubmitWithdraw(r) \/ Poll(r)
      PROVE  RingInv'
  BY <1>2, <1>5 DEF IncludeWithdraw, Forgo, SubmitWithdraw, Poll, contract
<1>6. ASSUME NEW r \in Requests, NEW n \in Notes, SubmitDeposit(r, n) \/ Sync(r, n)
      PROVE  RingInv'
  BY <1>2, <1>6 DEF SubmitDeposit, Sync, contract
<1>7. CASE UNCHANGED vars BY <1>2, <1>7 DEF vars, contract
<1> QED BY <1>1, <1>3, <1>4, <1>5, <1>6, <1>7 DEF Next

\* With a ring at least as long as the tree is wide (30 roots, 16 leaves), a
\* proof against any root the contract ever published is never outdated.
THEOREM RootsAreNeverForgotten ==
  ASSUME Capacity <= RootHistory PROVE Spec => []PublishedRootsStayKnown
<1>1. Init => RingInv
  <2> SUFFICES ASSUME Init PROVE RingInv OBVIOUS
  <2>1. roots \in [0..RootHistory - 1 -> {None}] BY DEF Init
  <2>2. events \in Seq({}) /\ Len(events) = 0 BY DEF Init
  <2>3. nextIndex \in 0..Capacity /\ rootIdx = Slot(nextIndex) /\ nextIndex = 0
    BY DepthAssumption, PoolAssumption DEF Init, Slot
  <2>4. \A k \in 1..nextIndex : FALSE BY <2>3
  <2> QED BY <2>1, <2>2, <2>3, <2>4 DEF RingInv
<1>2. RingInv /\ [Next]_vars => RingInv' BY RingStep
<1>3. RingInv => PublishedRootsStayKnown
  <2> SUFFICES ASSUME RingInv, NEW k \in 1..Len(events) PROVE IsKnownRoot(events[k].root)
    BY DEF PublishedRootsStayKnown
  <2>1. k \in 1..nextIndex /\ k \in 1..RootHistory
    BY DepthAssumption, PoolAssumption DEF RingInv
  <2>2. Slot(k) \in 0..RootHistory - 1 BY <2>1, PoolAssumption DEF Slot
  <2> QED BY <2>1, <2>2 DEF RingInv, IsKnownRoot
<1> QED BY <1>1, <1>2, <1>3, PTL DEF Spec

-----------------------------------------------------------------------------
(* The money. *)

Deposited == {events[k].commitment : k \in 1..Len(events)}

\* The ledger may still include the deposit, or the withdrawal, of a request.
Depositing(req) == req.op = "deposit" /\ req.tx = "pending"
Withdrawing(req) == req.op = "withdraw" /\ (req.pc = "prove" \/ req.tx = "pending")

\* A note is minted for one deposit, and withdrawn by clients that saw it deposited.
RequestFits(req, table, deposited) ==
  /\ Depositing(req) => table[req.note] # "fresh" /\ req.note \notin deposited
  /\ Withdrawing(req) => req.note \in deposited
  /\ req.pc = "poll" => req.op # "none"
  /\ req.pc = "prove" => req.op = "withdraw"

PoolInv ==
  /\ TypeOK
  /\ \E S : events \in Seq(S)
  /\ IsFiniteSet(Deposited) /\ spent \subseteq Deposited
  /\ Deposited # {} => initialized
  /\ \A n \in Deposited : note[n] # "fresh"
  /\ \A r \in Requests : RequestFits(request[r], note, Deposited)
  /\ \A q, r \in Requests : Depositing(request[q]) /\ Depositing(request[r])
                              /\ request[q].note = request[r].note => q = r
  /\ Solvent

LEMMA UnspentAre == TypeOK => Unspent = Deposited \ spent
BY DEF TypeOK, Unspent, Deposited

\* A step of one request, that keeps its deposit if it has one.
LEMMA RequestsFit ==
  ASSUME PoolInv, NEW r \in Requests, NEW req, RequestOK(req),
         request' = [request EXCEPT ![r] = req],
         UNCHANGED <<contract, events>>, aged' \in 0..Len(events), claims' \in 0..MaxClaims,
         note' \in [Notes -> {"fresh", "minted", "held", "lost"}],
         \A n \in Notes : note[n] # "fresh" => note'[n] # "fresh",
         Depositing(req) => \/ Depositing(request[r]) /\ request[r].note = req.note
                            \/ note[req.note] = "fresh" /\ note'[req.note] # "fresh",
         Withdrawing(req) => req.note \in Deposited,
         req.pc = "poll" => req.op # "none", req.pc = "prove" => req.op = "withdraw"
  PROVE  PoolInv'
<1>1. /\ DOMAIN request = Requests /\ \A q \in Requests : RequestOK(request[q])
      /\ \A n \in Deposited : note[n] # "fresh"
      /\ Deposited \subseteq Notes
  BY DEF PoolInv, TypeOK, Deposited
<1>2. \A q \in Requests : request'[q] = IF q = r THEN req ELSE request[q] BY <1>1
<1>3. Deposited' = Deposited BY DEF Deposited
<1>4. TypeOK'
  <2>1. DOMAIN request' = Requests /\ \A q \in Requests : RequestOK(request'[q]) BY <1>1, <1>2
  <2> QED BY <2>1 DEF PoolInv, TypeOK, contract
<1>5. Solvent'
  <2>1. Unspent' = Unspent BY DEF Unspent, contract
  <2> QED BY <2>1 DEF PoolInv, Solvent, contract
<1>6. \A q \in Requests : Depositing(request[q]) => request[q].note \in Notes
  BY <1>1 DEF RequestOK, Depositing
<1>7. Depositing(req) => req.note \in Notes BY DEF RequestOK, Depositing
<1>8. \A q \in Requests : RequestFits(request'[q], note', Deposited')
  <2> TAKE q \in Requests
  <2>1. RequestFits(request[q], note, Deposited) /\ RequestFits(request[r], note, Deposited)
    BY DEF PoolInv
  <2>2. CASE q = r
    BY <1>1, <1>2, <1>3, <1>7, <2>1, <2>2 DEF RequestFits
  <2>3. CASE q # r
    BY <1>2, <1>3, <1>6, <2>1, <2>3 DEF RequestFits
  <2> QED BY <2>2, <2>3
<1>9. \A q, s \in Requests : Depositing(request'[q]) /\ Depositing(request'[s])
                               /\ request'[q].note = request'[s].note => q = s
  <2>1. \A q, s \in Requests : Depositing(request[q]) /\ Depositing(request[s])
                                 /\ request[q].note = request[s].note => q = s
    BY DEF PoolInv
  <2>2. \A q \in Requests : Depositing(request[q]) => note[request[q].note] # "fresh"
    BY DEF PoolInv, RequestFits
  <2> QED BY <1>2, <2>1, <2>2
<1>10. \A n \in Deposited' : note'[n] # "fresh" BY <1>1, <1>3
<1>11. /\ \E S : events' \in Seq(S)
       /\ IsFiniteSet(Deposited') /\ spent' \subseteq Deposited'
       /\ Deposited' # {} => initialized'
  BY <1>3 DEF PoolInv, contract
<1> QED BY <1>4, <1>5, <1>8, <1>9, <1>10, <1>11 DEF PoolInv, Depositing

LEMMA RequestIs ==
  ASSUME PoolInv, NEW r \in Requests
  PROVE  /\ RequestOK(request[r]) /\ RequestFits(request[r], note, Deposited)
         /\ note \in [Notes -> {"fresh", "minted", "held", "lost"}]
         /\ aged \in 0..Len(events) /\ claims \in 0..MaxClaims
         /\ events \in Seq({events[k] : k \in 1..Len(events)}) /\ Len(events) \in Nat
BY DEF PoolInv, TypeOK

LEMMA IdleIsOK == RequestOK(IdleRequest)
<1>1. << >> \in Seq(Notes) OBVIOUS
<1> QED BY <1>1 DEF RequestOK, IdleRequest, RequestPc, TxStatus

\* A request is closed, or as it was.
LEMMA ClosedIs == \A req : Closed(req) \in {req, IdleRequest}
BY DEF Closed

LEMMA IdleIsQuiet == ~Depositing(IdleRequest) /\ ~Withdrawing(IdleRequest) /\ IdleRequest.pc = "idle"
BY DEF IdleRequest, Depositing, Withdrawing

\* The same of a step that may close the request.
LEMMA ClosedFit ==
  ASSUME PoolInv, NEW r \in Requests, NEW req, RequestOK(req), NEW next \in {req, IdleRequest},
         request' = [request EXCEPT ![r] = next],
         UNCHANGED <<contract, events>>, aged' \in 0..Len(events), claims' \in 0..MaxClaims,
         note' \in [Notes -> {"fresh", "minted", "held", "lost"}],
         \A n \in Notes : note[n] # "fresh" => note'[n] # "fresh",
         Depositing(req) => \/ Depositing(request[r]) /\ request[r].note = req.note
                            \/ note[req.note] = "fresh" /\ note'[req.note] # "fresh",
         Withdrawing(req) => req.note \in Deposited,
         req.pc = "poll" => req.op # "none", req.pc = "prove" => req.op = "withdraw"
  PROVE  PoolInv'
<1> HIDE DEF PoolInv
<1>1. CASE next = req BY <1>1, RequestsFit
<1>2. CASE next = IdleRequest BY <1>2, IdleIsOK, IdleIsQuiet, RequestsFit
<1> QED BY <1>1, <1>2

LEMMA SubmitDepositKeeps ==
  ASSUME PoolInv, NEW r \in Requests, NEW n \in Notes, SubmitDeposit(r, n)
  PROVE  PoolInv'
<1> DEFINE new == [IdleRequest EXCEPT !.op = "deposit", !.note = n]
<1>1. PICK req \in Submitted(new, CanDeposit) :
        /\ request' = [request EXCEPT ![r] = req]
        /\ note' = [note EXCEPT ![n] = IF req.pc = "poll" THEN "minted" ELSE "lost"]
  BY DEF SubmitDeposit
<1>2. /\ note[n] = "fresh" /\ UNCHANGED <<contract, events, aged, claims>>
  BY DEF SubmitDeposit
<1>3. \/ req = IdleRequest
      \/ req \in {[new EXCEPT !.pc = "answered"]}
                 \cup {[new EXCEPT !.pc = "poll", !.tx = t] : t \in {"pending", "expired"}}
  BY ClosedIs DEF Submitted
<1>n. /\ new.op = "deposit" /\ new.note = n /\ RequestOK(new)
  BY IdleIsOK DEF IdleRequest, RequestOK
<1> HIDE DEF new
<1>4. /\ RequestOK(req) /\ ~Withdrawing(req) /\ req.pc # "prove"
      /\ Depositing(req) => req.note = n
      /\ req.pc = "poll" => req.op # "none"
  <2>1. CASE req = IdleRequest BY <2>1, IdleIsOK, IdleIsQuiet
  <2>2. CASE req # IdleRequest
    <3>1. RequestOK(req) /\ req.op = "deposit" /\ req.note = n /\ req.pc # "prove"
      BY <1>3, <1>n, <2>2 DEF RequestOK, IdleRequest, RequestPc, TxStatus
    <3> QED BY <3>1 DEF Withdrawing
  <2> QED BY <2>1, <2>2
<1>5. /\ note \in [Notes -> {"fresh", "minted", "held", "lost"}]
      /\ aged' \in 0..Len(events) /\ claims' \in 0..MaxClaims
  BY <1>2, RequestIs
<1>6. /\ note' \in [Notes -> {"fresh", "minted", "held", "lost"}] /\ note'[n] # "fresh"
      /\ \A m \in Notes : note[m] # "fresh" => note'[m] # "fresh"
  BY <1>1, <1>5
<1> HIDE DEF PoolInv, new
<1> QED BY <1>1, <1>2, <1>4, <1>5, <1>6, RequestsFit

LEMMA SyncKeeps ==
  ASSUME PoolInv, NEW r \in Requests, NEW n \in Notes, Sync(r, n)
  PROVE  PoolInv'
<1> DEFINE leaves == SubSeq(Commitments, aged + 1, Len(events))
           req == [IdleRequest EXCEPT
                     !.op = "withdraw", !.note = n, !.leaves = leaves,
                     !.pc = IF \E k \in 1..Len(leaves) : leaves[k] = n THEN "prove" ELSE "answered"]
<1>1. /\ request' = [request EXCEPT ![r] = Closed(req)] /\ claims' = claims + 1 /\ claims < MaxClaims
      /\ UNCHANGED <<contract, events, aged, note>>
  BY DEF Sync
<1>2. Commitments \in Seq(Deposited) /\ Len(Commitments) = Len(events) /\ Deposited \subseteq Notes
  <2>1. Len(events) \in Nat BY RequestIs
  <2>2. Deposited \subseteq Notes BY DEF PoolInv, TypeOK, Deposited
  <2> QED BY <2>1, <2>2 DEF Commitments, Deposited
<1>3. aged \in 0..Len(events) /\ Len(events) \in Nat /\ claims \in 0..MaxClaims
      /\ note \in [Notes -> {"fresh", "minted", "held", "lost"}]
  BY RequestIs
<1>4. leaves \in Seq(Deposited)
  <2>1. \A k \in aged + 1 .. Len(events) : Commitments[k] \in Deposited BY <1>2, <1>3
  <2> QED BY <1>2, <1>3, <2>1, SubSeqProperties
<1>5. leaves \in Seq(Notes) BY <1>2, <1>4
<1>6. (\E k \in 1..Len(leaves) : leaves[k] = n) => n \in Deposited BY <1>4
<1> HIDE DEF leaves
<1>7. /\ RequestOK(req) /\ req.op = "withdraw" /\ req.note = n /\ req.tx = "none"
      /\ req.pc \in {"prove", "answered"}
      /\ req.pc = "prove" => \E k \in 1..Len(leaves) : leaves[k] = n
  BY <1>5 DEF RequestOK, IdleRequest, RequestPc, TxStatus
<1> HIDE DEF req
<1>8. ~Depositing(req) /\ (Withdrawing(req) => req.note \in Deposited)
  BY <1>6, <1>7 DEF Depositing, Withdrawing
<1>9. aged' \in 0..Len(events) /\ claims' \in 0..MaxClaims /\ req.pc # "poll"
  BY <1>1, <1>3, <1>7, PoolAssumption
<1>10. /\ note' \in [Notes -> {"fresh", "minted", "held", "lost"}]
       /\ \A m \in Notes : note[m] # "fresh" => note'[m] # "fresh"
  BY <1>1, <1>3
<1> HIDE DEF PoolInv
<1> QED BY <1>1, <1>7, <1>8, <1>9, <1>10, ClosedIs, ClosedFit

LEMMA SubmitWithdrawKeeps ==
  ASSUME PoolInv, NEW r \in Requests, SubmitWithdraw(r) PROVE PoolInv'
<1> DEFINE old == request[r]
<1>1. old.pc = "prove" /\ UNCHANGED <<contract, events, aged, note, claims>>
  BY DEF SubmitWithdraw
<1>2. PICK req \in {[old EXCEPT !.pc = "answered"]}
                   \cup {[old EXCEPT !.pc = "poll", !.tx = t] : t \in {"pending", "expired"}} :
        \E next \in {req, IdleRequest} : request' = [request EXCEPT ![r] = next]
  <2>1. PICK next \in Submitted(old, CanWithdraw(old.note, RootOf("pool", old.leaves))) :
          request' = [request EXCEPT ![r] = next]
    BY DEF SubmitWithdraw
  <2>2. \/ next \in {[old EXCEPT !.pc = "answered"], IdleRequest}
        \/ next \in {[old EXCEPT !.pc = "poll", !.tx = t] : t \in {"pending", "expired"}}
    BY <2>1, ClosedIs DEF Submitted
  <2> HIDE DEF old
  <2> QED BY <2>1, <2>2
<1>3. RequestOK(old) /\ RequestFits(old, note, Deposited)
      /\ note \in [Notes -> {"fresh", "minted", "held", "lost"}]
      /\ aged \in 0..Len(events) /\ claims \in 0..MaxClaims
  BY RequestIs
<1>4. old.op = "withdraw" /\ old.note \in Deposited
  BY <1>1, <1>3 DEF RequestFits, Withdrawing
<1>5. RequestOK(req) /\ req.op = "withdraw" /\ req.note = old.note /\ req.pc # "prove"
  <2> HIDE DEF old
  <2>1. CASE req = [old EXCEPT !.pc = "answered"]
    BY <1>3, <1>4, <2>1 DEF RequestOK, RequestPc, TxStatus, IdleRequest
  <2>2. ASSUME NEW t \in {"pending", "expired"}, req = [old EXCEPT !.pc = "poll", !.tx = t]
        PROVE  RequestOK(req) /\ req.op = "withdraw" /\ req.note = old.note /\ req.pc # "prove"
    BY <1>3, <1>4, <2>2 DEF RequestOK, RequestPc, TxStatus, IdleRequest
  <2> QED BY <1>2, <2>1, <2>2
<1>6. ~Depositing(req) BY <1>5 DEF Depositing
<1>7. Withdrawing(req) => req.note \in Deposited
  BY <1>4, <1>5
<1>8. /\ aged' \in 0..Len(events) /\ claims' \in 0..MaxClaims
      /\ note' \in [Notes -> {"fresh", "minted", "held", "lost"}]
      /\ \A n \in Notes : note[n] # "fresh" => note'[n] # "fresh"
  BY <1>1, <1>3
<1>9. PICK next \in {req, IdleRequest} : request' = [request EXCEPT ![r] = next]
  BY <1>2
<1> HIDE DEF PoolInv, old
<1> QED BY <1>1, <1>5, <1>6, <1>7, <1>8, <1>9, ClosedFit

LEMMA PollKeeps ==
  ASSUME PoolInv, NEW r \in Requests, Poll(r) PROVE PoolInv'
<1> DEFINE old == request[r]
           req == [old EXCEPT !.pc = "answered"]
<1>1. /\ old.pc = "poll" /\ request' = [request EXCEPT ![r] = Closed(req)]
      /\ UNCHANGED <<contract, events, aged, claims>>
  BY DEF Poll
<1>2. RequestOK(old) /\ RequestFits(old, note, Deposited)
      /\ note \in [Notes -> {"fresh", "minted", "held", "lost"}]
      /\ aged \in 0..Len(events) /\ claims \in 0..MaxClaims
  BY RequestIs
<1>3. RequestOK(req) /\ req.pc = "answered" /\ req.op = old.op /\ req.tx = old.tx /\ req.note = old.note
  BY <1>2 DEF RequestOK, RequestPc, IdleRequest
<1>4. \/ note' = note
      \/ \E s \in {"held", "lost"} : note' = [note EXCEPT ![old.note] = s]
  BY DEF Poll
<1>5. /\ note' \in [Notes -> {"fresh", "minted", "held", "lost"}]
      /\ \A m \in Notes : note[m] # "fresh" => note'[m] # "fresh"
  BY <1>2, <1>4
<1>6. Depositing(req) => Depositing(old) BY <1>3 DEF Depositing
<1>7. Withdrawing(req) => req.note \in Deposited
  BY <1>2, <1>3 DEF Withdrawing, RequestFits
<1> HIDE DEF PoolInv, req
<1> QED BY <1>1, <1>2, <1>3, <1>5, <1>6, <1>7, ClosedIs, ClosedFit

\* The ledger has decided without effect on the contract.
LEMMA SettlesKeeps ==
  ASSUME PoolInv, NEW r \in Requests, NEW status \in {"failed", "expired"}, Settles(r, status),
         UNCHANGED <<contract, events, aged, note, claims>>
  PROVE  PoolInv'
<1> DEFINE old == request[r]
           req == [old EXCEPT !.tx = status]
<1>1. request' = [request EXCEPT ![r] = Closed(req)] BY DEF Settles
<1>2. RequestOK(old) /\ RequestFits(old, note, Deposited)
      /\ note \in [Notes -> {"fresh", "minted", "held", "lost"}]
      /\ aged \in 0..Len(events) /\ claims \in 0..MaxClaims
  BY RequestIs
<1>3. RequestOK(req) /\ req.pc = old.pc /\ req.op = old.op /\ req.tx = status /\ req.note = old.note
  BY <1>2 DEF RequestOK, TxStatus, IdleRequest
<1> HIDE DEF req
<1>4. ~Depositing(req) BY <1>3 DEF Depositing
<1>5. Withdrawing(req) => req.note \in Deposited
  BY <1>2, <1>3 DEF Withdrawing, RequestFits
<1>6. (req.pc = "poll" => req.op # "none") /\ (req.pc = "prove" => req.op = "withdraw")
  BY <1>2, <1>3 DEF RequestFits
<1> HIDE DEF PoolInv
<1> QED BY <1>1, <1>2, <1>3, <1>4, <1>5, <1>6, ClosedIs, ClosedFit

LEMMA ForgoKeeps ==
  ASSUME PoolInv, NEW r \in Requests, Forgo(r) PROVE PoolInv'
BY SettlesKeeps DEF Forgo

\* A request whose transaction is included.
LEMMA RequestSucceeds ==
  ASSUME PoolInv, NEW r \in Requests, Settles(r, "success")
  PROVE  /\ DOMAIN request' = Requests
         /\ ~Depositing(request'[r])
         /\ Withdrawing(request'[r]) => request'[r].note = request[r].note
         /\ request'[r].pc = "poll" => request'[r].op # "none"
         /\ request'[r].pc = "prove" => request'[r].op = "withdraw"
         /\ \A q \in Requests \ {r} : request'[q] = request[q]
         /\ \A q \in Requests : RequestOK(request'[q])
<1> DEFINE req == [request[r] EXCEPT !.tx = "success"]
<1>1. request' = [request EXCEPT ![r] = Closed(req)] BY DEF Settles
<1>2. DOMAIN request = Requests /\ \A q \in Requests : RequestOK(request[q])
  BY DEF PoolInv, TypeOK
<1>3. /\ RequestOK(req) /\ req.pc = request[r].pc /\ req.op = request[r].op
      /\ req.tx = "success" /\ req.note = request[r].note
  BY <1>2 DEF RequestOK, TxStatus, IdleRequest
<1>4. RequestFits(request[r], note, Deposited) BY RequestIs
<1> HIDE DEF req
<1>5. Closed(req) \in {req, IdleRequest} BY ClosedIs
<1>6. RequestOK(Closed(req)) /\ ~Depositing(Closed(req)) BY <1>3, <1>5, IdleIsOK, IdleIsQuiet DEF Depositing
<1>7. /\ Withdrawing(Closed(req)) => Closed(req).note = request[r].note
      /\ Closed(req).pc = "poll" => Closed(req).op # "none"
      /\ Closed(req).pc = "prove" => Closed(req).op = "withdraw"
  BY <1>3, <1>4, <1>5, IdleIsQuiet DEF RequestFits
<1> QED BY <1>1, <1>2, <1>6, <1>7

\* A deposit puts a new commitment in the tree, and its amount in the pool.
LEMMA DepositKeeps ==
  ASSUME PoolInv, NEW r \in Requests, IncludeDeposit(r) PROVE PoolInv'
<1> DEFINE n == request[r].note
<1>1. CASE ~CanDeposit
  <2>1. Settles(r, "failed") /\ UNCHANGED <<contract, events, aged, note, claims>>
    BY <1>1 DEF IncludeDeposit, contract, CanDeposit
  <2> HIDE DEF PoolInv
  <2> QED BY <2>1, SettlesKeeps
<1>2. CASE CanDeposit
  <2> DEFINE x == [commitment |-> n, root |-> Climb("pool", filled, nextIndex, n)[Depth]]
  <2>1. /\ Depositing(request[r]) /\ initialized /\ nextIndex < Capacity
        /\ balance' = balance + Amount[n] /\ Insert(n) /\ Settles(r, "success")
        /\ UNCHANGED <<initialized, spent, aged, note, claims>>
    BY <1>2 DEF IncludeDeposit, CanDeposit, Depositing
  <2>2. /\ RequestOK(request[r]) /\ RequestFits(request[r], note, Deposited)
        /\ note \in [Notes -> {"fresh", "minted", "held", "lost"}]
        /\ aged \in 0..Len(events) /\ Len(events) \in Nat
        /\ events \in Seq({events[k] : k \in 1..Len(events)})
    BY RequestIs
  <2>3. n \in Notes /\ n \notin Deposited /\ note[n] # "fresh"
    BY <2>1, <2>2 DEF RequestOK, RequestFits, Depositing
  <2>4. /\ DOMAIN request' = Requests
        /\ ~Depositing(request'[r])
        /\ Withdrawing(request'[r]) => request'[r].note = n
        /\ request'[r].pc = "poll" => request'[r].op # "none"
        /\ request'[r].pc = "prove" => request'[r].op = "withdraw"
        /\ \A q \in Requests \ {r} : request'[q] = request[q]
        /\ \A q \in Requests : RequestOK(request'[q])
    <3> HIDE DEF PoolInv
    <3> QED BY <2>1, RequestSucceeds
  <2>5. /\ events' \in Seq({events[k] : k \in 1..Len(events)} \cup {x})
        /\ Len(events') = Len(events) + 1
        /\ \A k \in 1..Len(events) : events'[k] = events[k]
        /\ events'[Len(events) + 1] = x
    <3>1. events' = Append(events, x) BY <2>1 DEF Insert
    <3>2. events \in Seq({events[k] : k \in 1..Len(events)} \cup {x}) BY <2>2
    <3> HIDE DEF x
    <3> QED BY <3>1, <3>2, <2>2
  <2>6. Deposited' = Deposited \cup {n}
    <3>1. x.commitment = n OBVIOUS
    <3> HIDE DEF x, n
    <3>2. \A k \in 1..Len(events') : k \in 1..Len(events) \/ k = Len(events) + 1
      BY <2>2, <2>5
    <3>3. 1..Len(events) \subseteq 1..Len(events') /\ Len(events) + 1 \in 1..Len(events')
      BY <2>2, <2>5
    <3> QED BY <2>5, <3>1, <3>2, <3>3 DEF Deposited
  <2>7. \A q \in Requests : RequestFits(request[q], note, Deposited)
    BY DEF PoolInv
  <2>8. \A q \in Requests \ {r} : Depositing(request[q]) => request[q].note # n
    BY <2>1 DEF PoolInv
  <2>9. \A q \in Requests : RequestFits(request'[q], note', Deposited')
    <3> TAKE q \in Requests
    <3>1. CASE q = r
      <4>1. Withdrawing(request'[r]) => request'[r].note \in Deposited'
        BY <2>4, <2>6
      <4> QED BY <2>4, <3>1, <4>1 DEF RequestFits
    <3>2. CASE q # r
      <4>1. request'[q] = request[q] /\ note' = note BY <2>1, <2>4, <3>2
      <4> HIDE DEF n
      <4> QED BY <2>6, <2>7, <2>8, <3>2, <4>1 DEF RequestFits
    <3> QED BY <3>1, <3>2
  <2>10. \A q, s \in Requests : Depositing(request'[q]) /\ Depositing(request'[s])
                                  /\ request'[q].note = request'[s].note => q = s
    <3> QED BY <2>4 DEF PoolInv
  <2>11. IsFiniteSet(Deposited') /\ spent' \subseteq Deposited' /\ initialized'
    BY <2>1, <2>6, FS_AddElement DEF PoolInv
  <2>12. \A m \in Deposited' : note'[m] # "fresh" BY <2>1, <2>3, <2>6 DEF PoolInv
  <2>13. Amount[n] \in Nat /\ \A m \in Notes : Amount[m] \in Nat BY <2>3, PoolAssumption
  <2>14. /\ \A k \in 1..Len(events') : events'[k].commitment \in Notes
         /\ \A m \in Deposited' : m \in Notes
    <3>1. \A m \in Deposited : m \in Notes BY DEF PoolInv, TypeOK, Deposited
    <3>2. \A m \in Deposited' : m \in Notes BY <2>3, <2>6, <3>1
    <3>3. \A k \in 1..Len(events') : events'[k].commitment \in Deposited' BY DEF Deposited
    <3> QED BY <3>2, <3>3
  <2>15. TypeOK'
    <3>1. nextIndex' \in 0..Capacity /\ nextIndex' = Len(events')
      BY <2>1, <2>2, <2>5, DepthAssumption DEF PoolInv, TypeOK, Insert
    <3>2. DOMAIN filled' = 0..Depth - 1 BY <2>1 DEF Insert, FilledAfter
    <3>3. DOMAIN roots' = 0..RootHistory - 1 /\ rootIdx' \in 0..RootHistory - 1
      BY <2>1, PoolAssumption DEF PoolInv, TypeOK, Insert, NextRoot
    <3>4. balance' \in Nat BY <2>1, <2>13 DEF PoolInv, TypeOK
    <3>5. aged' \in 0..Len(events') BY <2>1, <2>2, <2>5
    <3>6. /\ initialized' \in BOOLEAN /\ spent' \subseteq Notes /\ claims' \in 0..MaxClaims
          /\ note' \in [Notes -> {"fresh", "minted", "held", "lost"}]
      BY <2>1 DEF PoolInv, TypeOK
    <3> HIDE DEF n
    <3> QED BY <2>4, <2>14, <3>1, <3>2, <3>3, <3>4, <3>5, <3>6 DEF TypeOK
  <2>16. Solvent'
    <3> DEFINE U == Deposited \ spent
    <3>1. TypeOK BY DEF PoolInv
    <3>2. Unspent = U BY <3>1, UnspentAre
    <3>3. Unspent' = U \cup {n} /\ n \notin U
      <4>1. Unspent' = Deposited' \ spent'
        BY <2>14 DEF Unspent, Deposited
      <4>2. n \notin spent BY <2>3 DEF PoolInv
      <4> HIDE DEF n
      <4> QED BY <2>1, <2>3, <2>6, <4>1, <4>2
    <3>4. IsFiniteSet(U) BY FS_Subset DEF PoolInv
    <3>5. \A m \in U \cup {n} : Amount[m] \in Int BY <2>3, <2>13, <2>14, <2>6
    <3>6. balance = SumFunctionOnSet(Amount, U) BY <3>2 DEF PoolInv, Solvent
    <3>7. balance \in Int BY DEF PoolInv, TypeOK
    <3> HIDE DEF U, n
    <3>8. SumFunctionOnSet(Amount, U \cup {n}) = Amount[n] + SumFunctionOnSet(Amount, U)
      BY <3>3, <3>4, <3>5, SumAdd
    <3> QED BY <2>1, <2>13, <3>3, <3>6, <3>7, <3>8 DEF Solvent
  <2> QED BY <2>5, <2>9, <2>10, <2>11, <2>12, <2>15, <2>16 DEF PoolInv
<1> QED BY <1>1, <1>2

\* A withdrawal spends a note that is in the tree, for its amount.
LEMMA WithdrawKeeps ==
  ASSUME PoolInv, NEW r \in Requests, IncludeWithdraw(r) PROVE PoolInv'
<1> DEFINE n == request[r].note
           can == CanWithdraw(n, RootOf("pool", request[r].leaves))
<1>1. CASE ~can
  <2>1. Settles(r, "failed") /\ UNCHANGED <<contract, events, aged, note, claims>>
    BY <1>1 DEF IncludeWithdraw, contract
  <2> HIDE DEF PoolInv
  <2> QED BY <2>1, SettlesKeeps
<1>2. CASE can
  <2>1. /\ Withdrawing(request[r]) /\ n \notin spent /\ balance >= Amount[n]
        /\ balance' = balance - Amount[n] /\ spent' = spent \cup {n} /\ Settles(r, "success")
        /\ UNCHANGED <<initialized, nextIndex, filled, roots, rootIdx, events, aged, note, claims>>
    BY <1>2 DEF IncludeWithdraw, CanWithdraw, Withdrawing
  <2>2. /\ RequestOK(request[r]) /\ RequestFits(request[r], note, Deposited)
    BY RequestIs
  <2>3. n \in Deposited /\ Deposited \subseteq Notes /\ n \in Notes
    BY <2>1, <2>2 DEF RequestFits, PoolInv, TypeOK, Deposited
  <2>4. /\ DOMAIN request' = Requests
        /\ ~Depositing(request'[r])
        /\ Withdrawing(request'[r]) => request'[r].note = n
        /\ request'[r].pc = "poll" => request'[r].op # "none"
        /\ request'[r].pc = "prove" => request'[r].op = "withdraw"
        /\ \A q \in Requests \ {r} : request'[q] = request[q]
        /\ \A q \in Requests : RequestOK(request'[q])
    <3> HIDE DEF PoolInv
    <3> QED BY <2>1, RequestSucceeds
  <2>5. Deposited' = Deposited BY <2>1 DEF Deposited
  <2>6. \A q \in Requests : RequestFits(request[q], note, Deposited) BY DEF PoolInv
  <2>7. ~Depositing(request'[r]) BY <2>4
  <2>8. \A q \in Requests : RequestFits(request'[q], note', Deposited')
    <3> TAKE q \in Requests
    <3>1. CASE q = r
      <4>1. Withdrawing(request'[r]) => request'[r].note \in Deposited' BY <2>3, <2>4, <2>5
      <4> QED BY <2>4, <3>1, <4>1 DEF RequestFits
    <3>2. CASE q # r
      <4>1. request'[q] = request[q] /\ note' = note BY <2>1, <2>4, <3>2
      <4> QED BY <2>5, <2>6, <4>1
    <3> QED BY <3>1, <3>2
  <2>9. \A q, s \in Requests : Depositing(request'[q]) /\ Depositing(request'[s])
                                 /\ request'[q].note = request'[s].note => q = s
    BY <2>4, <2>7 DEF PoolInv
  <2>10. Amount[n] \in Nat /\ \A m \in Notes : Amount[m] \in Nat BY <2>3, PoolAssumption
  <2>11. TypeOK'
    <3>1. balance' \in Nat BY <2>1, <2>10 DEF PoolInv, TypeOK
    <3>2. spent' \subseteq Notes BY <2>1, <2>3 DEF PoolInv, TypeOK
    <3> HIDE DEF n
    <3> QED BY <2>1, <2>4, <3>1, <3>2 DEF PoolInv, TypeOK
  <2>12. Solvent'
    <3> DEFINE U == Deposited \ spent
    <3>1. TypeOK BY DEF PoolInv
    <3>2. Unspent = U BY <3>1, UnspentAre
    <3>3. Unspent' = U \ {n} /\ n \in U
      <4>1. Unspent' = Deposited' \ spent' BY <2>11, UnspentAre, <2>3, <2>5 DEF Unspent, Deposited
      <4> HIDE DEF n
      <4> QED BY <2>1, <2>3, <2>5, <4>1
    <3>4. IsFiniteSet(U) BY FS_Subset DEF PoolInv
    <3>5. \A m \in U : Amount[m] \in Int BY <2>3, <2>10
    <3>6. balance = SumFunctionOnSet(Amount, U) BY <3>2 DEF PoolInv, Solvent
    <3>7. balance \in Int BY DEF PoolInv, TypeOK
    <3>8. IsFiniteSet(U \ {n}) /\ \A m \in U \ {n} : Amount[m] \in Int
      BY <3>4, <3>5, FS_RemoveElement
    <3> HIDE DEF U, n
    <3>9. SumFunctionOnSet(Amount, U) = Amount[n] + SumFunctionOnSet(Amount, U \ {n})
      BY <3>3, <3>4, <3>5, SumRemove
    <3>10. SumFunctionOnSet(Amount, U \ {n}) \in Int BY <3>8, SumInt
    <3> QED BY <2>1, <2>10, <3>3, <3>6, <3>7, <3>9, <3>10 DEF Solvent
  <2>13. /\ \E S : events' \in Seq(S)
         /\ IsFiniteSet(Deposited') /\ spent' \subseteq Deposited'
         /\ Deposited' # {} => initialized'
         /\ \A m \in Deposited' : note'[m] # "fresh"
    BY <2>1, <2>3, <2>5 DEF PoolInv
  <2> QED BY <2>8, <2>9, <2>11, <2>12, <2>13 DEF PoolInv
<1> QED BY <1>1, <1>2

LEMMA PoolInit == Init => PoolInv
<1> SUFFICES ASSUME Init PROVE PoolInv OBVIOUS
<1>1. Len(events) = 0 /\ events \in Seq({}) BY DEF Init
<1>2. Deposited = {} BY <1>1 DEF Deposited
<1>3. \A r \in Requests : request[r] = IdleRequest BY DEF Init
<1>4. TypeOK
  <2>1. RequestOK(IdleRequest) BY IdleIsOK
  <2>2. 0 \in 0..Capacity /\ 0 \in 0..RootHistory - 1 /\ 0 \in 0..MaxClaims
    BY DepthAssumption, PoolAssumption
  <2>3. /\ DOMAIN filled = 0..Depth - 1 /\ DOMAIN roots = 0..RootHistory - 1
        /\ DOMAIN request = Requests /\ note \in [Notes -> {"fresh", "minted", "held", "lost"}]
    BY DEF Init
  <2>4. /\ nextIndex = 0 /\ rootIdx = 0 /\ claims = 0 /\ aged = 0 /\ balance = 0
        /\ initialized = FALSE /\ spent = {}
    BY DEF Init
  <2>5. aged \in 0..Len(events) /\ \A k \in 1..Len(events) : events[k].commitment \in Notes
    BY <1>1, <2>4
  <2>6. \A r \in Requests : RequestOK(request[r]) BY <1>3, <2>1
  <2>7. balance \in Nat /\ spent \subseteq Notes /\ initialized \in BOOLEAN BY <2>4
  <2>8. nextIndex \in 0..Capacity /\ nextIndex = Len(events) BY <1>1, <2>2, <2>4
  <2> HIDE DEF RequestOK
  <2> QED BY <2>2, <2>3, <2>4, <2>5, <2>6, <2>7, <2>8 DEF TypeOK
<1>5. Solvent
  <2>1. Unspent = {} BY <1>1 DEF Unspent
  <2> QED BY <2>1, SumEmpty DEF Init, Solvent
<1>6. /\ RequestFits(IdleRequest, note, Deposited) /\ ~Depositing(IdleRequest)
  BY DEF RequestFits, IdleRequest, Depositing, Withdrawing
<1>7. IsFiniteSet(Deposited) /\ spent = {} BY <1>2, FS_EmptySet DEF Init
<1> QED BY <1>1, <1>2, <1>3, <1>4, <1>5, <1>6, <1>7 DEF PoolInv

LEMMA PoolNext == PoolInv /\ [Next]_vars => PoolInv'
<1> SUFFICES ASSUME PoolInv, [Next]_vars PROVE PoolInv' OBVIOUS
<1>1. ASSUME UNCHANGED <<nextIndex, filled, roots, rootIdx, spent, balance, events, note, request, claims>>,
             initialized => initialized', initialized' \in BOOLEAN, aged' \in 0..Len(events)
      PROVE  PoolInv'
  <2>1. Deposited' = Deposited /\ Unspent' = Unspent BY <1>1 DEF Deposited, Unspent
  <2>2. TypeOK' BY <1>1 DEF PoolInv, TypeOK
  <2>3. Solvent' BY <1>1, <2>1 DEF PoolInv, Solvent
  <2> QED BY <1>1, <2>1, <2>2, <2>3 DEF PoolInv
<1>0. aged \in 0..Len(events) /\ Len(events) \in Nat /\ initialized \in BOOLEAN
  BY DEF PoolInv, TypeOK
<1>2. CASE Initialize BY <1>0, <1>1, <1>2 DEF Initialize
<1>3. CASE AgeOut BY <1>0, <1>1, <1>3 DEF AgeOut, contract
<1>4. CASE UNCHANGED vars BY <1>0, <1>1, <1>4 DEF vars, contract
<1> HIDE DEF PoolInv
<1>5. ASSUME NEW r \in Requests,
             \/ IncludeDeposit(r) \/ IncludeWithdraw(r) \/ Forgo(r)
             \/ SubmitWithdraw(r) \/ Poll(r)
      PROVE  PoolInv'
  BY <1>5, DepositKeeps, WithdrawKeeps, ForgoKeeps, SubmitWithdrawKeeps, PollKeeps
<1>6. ASSUME NEW r \in Requests, NEW n \in Notes, SubmitDeposit(r, n) \/ Sync(r, n)
      PROVE  PoolInv'
  BY <1>6, SubmitDepositKeeps, SyncKeeps
<1> QED BY <1>2, <1>3, <1>4, <1>5, <1>6 DEF Next

LEMMA PoolAlways == Spec => []PoolInv
BY PoolInit, PoolNext, PTL DEF Spec

\* The contract's storage, the ledger and the server's requests keep their shape.
THEOREM PoolTyped == Spec => []TypeOK
<1>1. PoolInv => TypeOK BY DEF PoolInv
<1> QED BY <1>1, PoolAlways, PTL

\* The pool holds the deposits that are not spent, for any number of concurrent, repeated
\* and unanswered deposits and withdrawals.
THEOREM PoolIsSolvent == Spec => []Solvent
<1>1. PoolInv => Solvent BY DEF PoolInv
<1> QED BY <1>1, PoolAlways, PTL

\* What is in the pool changes only with its contract and its events.
LEMMA CustodyStutters ==
  ASSUME UNCHANGED <<events, spent, balance>> PROVE UNCHANGED Custody!kvars
BY DEF Custody!kvars, Unspent

LEMMA DepositIsAccepted ==
  ASSUME PoolInv, PoolInv', NEW r \in Requests, IncludeDeposit(r)
  PROVE  [Custody!KNext]_(Custody!kvars)
<1> DEFINE n == request[r].note
           x == [commitment |-> n, root |-> Climb("pool", filled, nextIndex, n)[Depth]]
<1>1. CASE ~CanDeposit BY <1>1, CustodyStutters DEF IncludeDeposit
<1>2. CASE CanDeposit
  <2>1. /\ Depositing(request[r]) /\ events' = Append(events, x)
        /\ spent' = spent /\ balance' = balance + Amount[n]
    BY <1>2 DEF IncludeDeposit, Depositing, Insert
  <2>2. n \in Notes /\ n \notin Deposited
    BY <2>1, RequestIs DEF RequestOK, RequestFits, Depositing
  <2>4. x.commitment = n OBVIOUS
  <2> HIDE DEF x
  <2>3. events \in Seq({events[k] : k \in 1..Len(events)} \cup {x}) /\ Len(events) \in Nat
    <3>1. events \in Seq({events[k] : k \in 1..Len(events)}) /\ Len(events) \in Nat
      BY RequestIs
    <3> QED BY <3>1
  <2>5. /\ Len(events') = Len(events) + 1 /\ events'[Len(events) + 1] = x
        /\ \A k \in 1..Len(events) : events'[k] = events[k]
    BY <2>1, <2>3
  <2> HIDE DEF n
  <2>6. Deposited' = Deposited \cup {n}
    <3>1. \A k \in 1..Len(events') : k \in 1..Len(events) \/ k = Len(events) + 1
      BY <2>3, <2>5
    <3>2. 1..Len(events) \subseteq 1..Len(events') /\ Len(events) + 1 \in 1..Len(events')
      BY <2>3, <2>5
    <3> QED BY <2>4, <2>5, <3>1, <3>2 DEF Deposited
  <2>7. Unspent = Deposited \ spent /\ Unspent' = Deposited' \ spent' /\ spent \subseteq Deposited
    BY DEF PoolInv, TypeOK, Unspent, Deposited
  <2>8. n \notin Unspent \cup spent /\ Unspent' = Unspent \cup {n}
    BY <2>1, <2>2, <2>6, <2>7
  <2>9. Custody!Accept(n) BY <2>1, <2>8 DEF Custody!Accept
  <2> QED BY <2>2, <2>9 DEF Custody!KNext
<1> QED BY <1>1, <1>2

LEMMA WithdrawalIsPaidOut ==
  ASSUME PoolInv, PoolInv', NEW r \in Requests, IncludeWithdraw(r)
  PROVE  [Custody!KNext]_(Custody!kvars)
<1> DEFINE n == request[r].note
           can == CanWithdraw(n, RootOf("pool", request[r].leaves))
<1>1. CASE ~can BY <1>1, CustodyStutters DEF IncludeWithdraw
<1>2. CASE can
  <2>1. /\ Withdrawing(request[r]) /\ n \notin spent /\ spent' = spent \cup {n}
        /\ balance >= Amount[n] /\ balance' = balance - Amount[n] /\ events' = events
    BY <1>2 DEF IncludeWithdraw, CanWithdraw, Withdrawing
  <2>2. n \in Deposited BY <2>1, RequestIs DEF RequestFits
  <2> HIDE DEF n
  <2>3. Unspent = Deposited \ spent /\ Unspent' = Deposited' \ spent' /\ Deposited' = Deposited
    BY <2>1, SMTT(30) DEF PoolInv, TypeOK, Unspent, Deposited
  <2>4. n \in Notes BY <2>2 DEF PoolInv, TypeOK, Deposited
  <2>5. n \in Unspent /\ Unspent' = Unspent \ {n} BY <2>1, <2>2, <2>3
  <2>6. Custody!PayOut(n) BY <2>1, <2>5 DEF Custody!PayOut
  <2> QED BY <2>4, <2>6 DEF Custody!KNext
<1> QED BY <1>1, <1>2

LEMMA PoolStepIsCustody ==
  ASSUME PoolInv, PoolInv', [Next]_vars PROVE [Custody!KNext]_(Custody!kvars)
<1>1. CASE Initialize \/ AgeOut BY <1>1, CustodyStutters DEF Initialize, AgeOut, contract
<1>2. ASSUME NEW r \in Requests, Forgo(r) \/ SubmitWithdraw(r) \/ Poll(r)
      PROVE  UNCHANGED Custody!kvars
  BY <1>2, CustodyStutters DEF Forgo, SubmitWithdraw, Poll, contract
<1>3. ASSUME NEW r \in Requests, NEW n \in Notes, SubmitDeposit(r, n) \/ Sync(r, n)
      PROVE  UNCHANGED Custody!kvars
  BY <1>3, CustodyStutters DEF SubmitDeposit, Sync, contract
<1>4. CASE UNCHANGED vars BY <1>4, CustodyStutters DEF vars, contract
<1> HIDE DEF PoolInv
<1> QED BY <1>1, <1>2, <1>3, <1>4, DepositIsAccepted, WithdrawalIsPaidOut DEF Next

LEMMA CustodyInit == Init => Custody!KInit
<1> SUFFICES ASSUME Init PROVE Custody!KInit OBVIOUS
<1>1. Len(events) = 0 BY DEF Init
<1>2. Unspent = {} BY <1>1 DEF Unspent
<1> QED BY <1>2 DEF Init, Custody!KInit

\* The contract with its tree, roots and clients is the ledger of notes that
\* PoolCustody describes: a deposited note is paid once and in full, no other note is
\* ever paid, and nothing else moves the balance.
THEOREM PoolImplementsCustody == Spec => ImplementsCustody
<1>1. PoolInv /\ PoolInv' /\ [Next]_vars => [Custody!KNext]_(Custody!kvars)
  BY PoolStepIsCustody
<1> QED BY <1>1, CustodyInit, PoolAlways, PTL DEF Spec, ImplementsCustody, Custody!KSpec

-----------------------------------------------------------------------------
(* The tree.  The recursions over its levels are what their equations say. *)

\* The node above that of an index, on its path to the root.
LEMMA NodeAbove ==
  ASSUME NEW m \in Nat, NEW l \in Nat
  PROVE  /\ m \div 2^l \in Nat
         /\ m \div 2^(l + 1) = (m \div 2^l) \div 2
<1> DEFINE d == 2^l
           q == m \div d
           h == q \div 2
<1>1. d \in Nat \ {0} /\ 2^(l + 1) = 2 * d BY PowerIsSize, PowerDoubles
<1> HIDE DEF d
<1>2. q \in Nat /\ d * q <= m /\ m < d * q + d BY <1>1, Division
<1> HIDE DEF q
<1>3. h \in Nat /\ (q = 2 * h \/ q = 2 * h + 1) BY <1>2
<1> HIDE DEF h
<1>4. (2 * d) * h <= m /\ m < (2 * d) * h + 2 * d
  <2> DEFINE x == d * h
  <2>1. x \in Nat /\ d * (2 * h) = 2 * x /\ d * (2 * h + 1) = 2 * x + d /\ (2 * d) * h = 2 * x
    BY <1>1, <1>3
  <2> HIDE DEF x
  <2>2. d * q = 2 * x \/ d * q = 2 * x + d BY <1>3, <2>1
  <2>3. d * q \in Nat BY <1>1, <1>2
  <2>4. 2 * x <= m /\ m < 2 * x + 2 * d BY <1>1, <1>2, <2>1, <2>2, <2>3
  <2> QED BY <2>1, <2>4
<1>5. 2 * d \in Nat \ {0} BY <1>1
<1>6. m \div (2 * d) = h BY <1>3, <1>4, <1>5, DivisionIs
<1> QED BY <1>1, <1>2, <1>6 DEF q, h, d

\* The path of the next index is one node to the right of this one, or the same.
LEMMA NextNode ==
  ASSUME NEW m \in Nat, NEW l \in Nat
  PROVE  (m + 1) \div 2^l \in {m \div 2^l, (m \div 2^l) + 1}
<1> DEFINE d == 2^l
           q == m \div d
<1>1. d \in Nat \ {0} BY PowerIsSize
<1> HIDE DEF d
<1>2. q \in Nat /\ d * q <= m /\ m < d * q + d BY Division, <1>1
<1> HIDE DEF q
<1>3. d * q \in Nat /\ d * (q + 1) = d * q + d BY <1>1, <1>2
<1>4. CASE m + 1 < d * q + d
  <2>1. d * q <= m + 1 BY <1>2, <1>3
  <2>2. (m + 1) \div d = q BY <1>1, <1>2, <1>4, <2>1, DivisionIs
  <2> QED BY <2>2 DEF q, d
<1>5. CASE ~(m + 1 < d * q + d)
  <2>1. d * (q + 1) <= m + 1 /\ m + 1 < d * (q + 1) + d BY <1>1, <1>2, <1>3, <1>5
  <2>2. (m + 1) \div d = q + 1 BY <1>1, <1>2, <2>1, DivisionIs
  <2> QED BY <2>2 DEF q, d
<1> QED BY <1>4, <1>5

\* The nodes of a level.
Width(l) == 2^(Depth - l)

LEMMA WidthHalves ==
  ASSUME NEW l \in 0..Depth
  PROVE  /\ Width(l) \in Nat \ {0} /\ Width(Depth) = 1 /\ Width(0) = Capacity
         /\ l > 0 => Width(l - 1) = 2 * Width(l)
<1>1. Depth \in Nat BY DepthAssumption
<1>2. Width(l) \in Nat \ {0}
  <2>1. Depth - l \in Nat BY <1>1
  <2> QED BY <2>1, PowerIsSize DEF Width
<1>3. Width(Depth) = 1
  <2>1. Depth - Depth = 0 /\ 2^0 = 1 BY <1>1
  <2> QED BY <2>1 DEF Width
<1>4. Width(0) = Capacity
  <2>1. Depth - 0 = Depth BY <1>1
  <2> QED BY <2>1 DEF Width, Capacity
<1>5. ASSUME l > 0 PROVE Width(l - 1) = 2 * Width(l)
  <2>1. Depth - (l - 1) = (Depth - l) + 1 /\ Depth - l \in Nat BY <1>1, <1>5
  <2>2. 2^((Depth - l) + 1) = 2 * 2^(Depth - l) BY <2>1, PowerDoubles
  <2> QED BY <2>1, <2>2 DEF Width
<1> QED BY <1>2, <1>3, <1>4, <1>5

\* The path of an index of the tree stays in the levels, up to the root.
LEMMA PathIn ==
  ASSUME NEW m \in Nat, m < Capacity
  PROVE  \A l \in 0..Depth : m \div 2^l \in 0..Width(l) - 1
<1> DEFINE Bad == {l \in 0..Depth : m \div 2^l \notin 0..Width(l) - 1}
<1>1. Depth \in Nat /\ 0 \in 0..Depth BY DepthAssumption
<1>2. 0 \notin Bad
  <2>1. m \div 2^0 = m
    <3>1. 2^0 = 1 OBVIOUS
    <3> QED BY <3>1
  <2>2. Width(0) = Capacity /\ Width(0) \in Nat BY <1>1, WidthHalves
  <2> QED BY <2>1, <2>2
<1>3. ASSUME NEW k \in 1..Depth, k - 1 \notin Bad PROVE k \notin Bad
  <2> DEFINE q == m \div 2^(k - 1)
  <2>1. k - 1 \in 0..Depth /\ k - 1 \in Nat /\ k \in 0..Depth /\ (k - 1) + 1 = k BY <1>1
  <2>2. q \in 0..Width(k - 1) - 1 BY <1>3, <2>1
  <2>3. m \div 2^k = q \div 2 BY <2>1, NodeAbove
  <2>4. Width(k - 1) = 2 * Width(k) /\ Width(k) \in Nat \ {0} BY <2>1, WidthHalves
  <2> DEFINE w == Width(k)
  <2> HIDE DEF q, w
  <2>5. q \div 2 \in 0..w - 1 BY <2>2, <2>4 DEF w
  <2> QED BY <2>3, <2>5 DEF w
<1> HIDE DEF Bad
<1>4. Bad \in SUBSET (0..Depth) BY DEF Bad
<1>5. Bad = {} BY <1>1, <1>2, <1>3, <1>4, NoCounterexample
<1> QED BY <1>5 DEF Bad

-----------------------------------------------------------------------------
(* The recursions over the levels have the solutions that their equations say. *)

\* The empty subtrees.
ZeroFor(of, x, k) == x = [i \in 0..k |-> IF i = 0 THEN EmptyLeaf(of) ELSE Node(of, x[i - 1], x[i - 1])]

LEMMA ZeroIs ==
  ASSUME NEW of
  PROVE  \A i \in 0..Depth :
    Zero(of)[i] = IF i = 0 THEN EmptyLeaf(of) ELSE Node(of, Zero(of)[i - 1], Zero(of)[i - 1])
<1> DEFINE Bad == {k \in 0..Depth : ~ \E x : ZeroFor(of, x, k)}
<1>1. Depth \in Nat /\ 0 \in 0..Depth BY DepthAssumption
<1>2. 0 \notin Bad
  <2> DEFINE x == [i \in 0..0 |-> EmptyLeaf(of)]
  <2>1. ZeroFor(of, x, 0) BY DEF ZeroFor
  <2> QED BY <2>1
<1>3. ASSUME NEW k \in 1..Depth, k - 1 \notin Bad PROVE k \notin Bad
  <2>1. k - 1 \in 0..Depth /\ k \in Nat BY <1>1
  <2>2. PICK x : ZeroFor(of, x, k - 1) BY <1>3, <2>1
  <2> DEFINE y == [i \in 0..k |-> IF i = k THEN Node(of, x[k - 1], x[k - 1]) ELSE x[i]]
  <2>3. \A i \in 0..k - 1 : x[i] = IF i = 0 THEN EmptyLeaf(of) ELSE Node(of, x[i - 1], x[i - 1])
    BY <2>2 DEF ZeroFor
  <2>4. \A i \in 0..k - 1 : y[i] = x[i] BY <2>1
  <2>5. \A i \in 0..k : y[i] = IF i = 0 THEN EmptyLeaf(of) ELSE Node(of, y[i - 1], y[i - 1])
    <3> TAKE i \in 0..k
    <3>1. CASE i = k
      <4>1. y[k] = Node(of, x[k - 1], x[k - 1]) /\ k # 0 BY <2>1
      <4>2. y[k - 1] = x[k - 1] BY <2>1, <2>4
      <4> HIDE DEF y
      <4> QED BY <3>1, <4>1, <4>2
    <3>2. CASE i # k /\ i # 0
      <4>1. i \in 0..k - 1 /\ i - 1 \in 0..k - 1 BY <2>1, <3>2
      <4>2. y[i] = x[i] /\ y[i - 1] = x[i - 1] BY <2>4, <4>1
      <4> HIDE DEF y
      <4> QED BY <2>3, <3>2, <4>1, <4>2
    <3>3. CASE i = 0
      <4>1. y[0] = x[0] /\ x[0] = EmptyLeaf(of) BY <2>1, <2>3, <2>4
      <4> HIDE DEF y
      <4> QED BY <3>3, <4>1
    <3> QED BY <3>1, <3>2, <3>3
  <2>6. y = [i \in 0..k |-> y[i]] OBVIOUS
  <2> HIDE DEF y
  <2>7. ZeroFor(of, y, k) BY <2>5, <2>6 DEF ZeroFor
  <2> QED BY <2>7
<1> HIDE DEF Bad
<1>4. Bad \in SUBSET (0..Depth) BY DEF Bad
<1>5. Bad = {} BY <1>1, <1>2, <1>3, <1>4, NoCounterexample
<1>6. \E x : ZeroFor(of, x, Depth) BY <1>1, <1>5 DEF Bad
<1>7. ZeroFor(of, Zero(of), Depth) BY <1>6 DEF ZeroFor, Zero
<1> HIDE DEF Zero
<1> QED BY <1>7 DEF ZeroFor

\* A node above one of the last, with the left node remembered or with an empty right one.
Joined(of, lefts, index, i, node) ==
  IF IsRight(index, i) THEN Node(of, lefts[i], node) ELSE Node(of, node, Zero(of)[i])


\* The path of a leaf that is inserted.
ClimbFor(of, x, k, lefts, index, leaf) == x = [i \in 0..k |-> IF i = 0 THEN leaf ELSE Joined(of, lefts, index, i - 1, x[i - 1])]

LEMMA ClimbIs ==
  ASSUME NEW of, NEW lefts, NEW index, NEW leaf
  PROVE  \A i \in 0..Depth :
    Climb(of, lefts, index, leaf)[i] = IF i = 0 THEN leaf ELSE Joined(of, lefts, index, i - 1, Climb(of, lefts, index, leaf)[i - 1])
<1> DEFINE Bad == {k \in 0..Depth : ~ \E x : ClimbFor(of, x, k, lefts, index, leaf)}
<1>1. Depth \in Nat /\ 0 \in 0..Depth BY DepthAssumption
<1>2. 0 \notin Bad
  <2> DEFINE x == [i \in 0..0 |-> leaf]
  <2>1. ClimbFor(of, x, 0, lefts, index, leaf) BY DEF ClimbFor
  <2> QED BY <2>1
<1>3. ASSUME NEW k \in 1..Depth, k - 1 \notin Bad PROVE k \notin Bad
  <2>1. k - 1 \in 0..Depth /\ k \in Nat BY <1>1
  <2>2. PICK x : ClimbFor(of, x, k - 1, lefts, index, leaf) BY <1>3, <2>1
  <2> DEFINE y == [i \in 0..k |-> IF i = k THEN Joined(of, lefts, index, k - 1, x[k - 1]) ELSE x[i]]
  <2>3. \A i \in 0..k - 1 : x[i] = IF i = 0 THEN leaf ELSE Joined(of, lefts, index, i - 1, x[i - 1])
    BY <2>2 DEF ClimbFor
  <2>4. \A i \in 0..k - 1 : y[i] = x[i] BY <2>1
  <2>5. \A i \in 0..k : y[i] = IF i = 0 THEN leaf ELSE Joined(of, lefts, index, i - 1, y[i - 1])
    <3> TAKE i \in 0..k
    <3>1. CASE i = k
      <4>1. y[k] = Joined(of, lefts, index, k - 1, x[k - 1]) /\ k # 0 BY <2>1
      <4>2. y[k - 1] = x[k - 1] BY <2>1, <2>4
      <4> HIDE DEF y
      <4> QED BY <3>1, <4>1, <4>2
    <3>2. CASE i # k /\ i # 0
      <4>1. i \in 0..k - 1 /\ i - 1 \in 0..k - 1 BY <2>1, <3>2
      <4>2. y[i] = x[i] /\ y[i - 1] = x[i - 1] BY <2>4, <4>1
      <4> HIDE DEF y
      <4> QED BY <2>3, <3>2, <4>1, <4>2
    <3>3. CASE i = 0
      <4>1. y[0] = x[0] /\ x[0] = leaf BY <2>1, <2>3, <2>4
      <4> HIDE DEF y
      <4> QED BY <3>3, <4>1
    <3> QED BY <3>1, <3>2, <3>3
  <2>6. y = [i \in 0..k |-> y[i]] OBVIOUS
  <2> HIDE DEF y
  <2>7. ClimbFor(of, y, k, lefts, index, leaf) BY <2>5, <2>6 DEF ClimbFor
  <2> QED BY <2>7
<1> HIDE DEF Bad
<1>4. Bad \in SUBSET (0..Depth) BY DEF Bad
<1>5. Bad = {} BY <1>1, <1>2, <1>3, <1>4, NoCounterexample
<1>6. \E x : ClimbFor(of, x, Depth, lefts, index, leaf) BY <1>1, <1>5 DEF Bad
<1>7. ClimbFor(of, Climb(of, lefts, index, leaf), Depth, lefts, index, leaf)
  BY <1>6 DEF ClimbFor, Climb, Joined
<1> HIDE DEF Climb
<1> QED BY <1>7 DEF ClimbFor

\* The level of the leaves, and a level above another.
Leaves(of, leaves) == [j \in 0..2^(Depth - 0) - 1 |-> IF j < Len(leaves) THEN leaves[j + 1] ELSE EmptyLeaf(of)]
Above(of, l, below) == [j \in 0..2^(Depth - l) - 1 |-> Node(of, below[2 * j], below[2 * j + 1])]


\* The table of the client.
LevelsFor(of, x, k, leaves) == x = [i \in 0..k |-> IF i = 0 THEN Leaves(of, leaves) ELSE Above(of, i, x[i - 1])]

LEMMA LevelsIs ==
  ASSUME NEW of, NEW leaves
  PROVE  \A i \in 0..Depth :
    Levels(of, leaves)[i] = IF i = 0 THEN Leaves(of, leaves) ELSE Above(of, i, Levels(of, leaves)[i - 1])
<1> DEFINE Bad == {k \in 0..Depth : ~ \E x : LevelsFor(of, x, k, leaves)}
<1>1. Depth \in Nat /\ 0 \in 0..Depth BY DepthAssumption
<1>2. 0 \notin Bad
  <2> DEFINE x == [i \in 0..0 |-> Leaves(of, leaves)]
  <2>1. LevelsFor(of, x, 0, leaves) BY DEF LevelsFor
  <2> QED BY <2>1
<1>3. ASSUME NEW k \in 1..Depth, k - 1 \notin Bad PROVE k \notin Bad
  <2>1. k - 1 \in 0..Depth /\ k \in Nat BY <1>1
  <2>2. PICK x : LevelsFor(of, x, k - 1, leaves) BY <1>3, <2>1
  <2> DEFINE y == [i \in 0..k |-> IF i = k THEN Above(of, k, x[k - 1]) ELSE x[i]]
  <2>3. \A i \in 0..k - 1 : x[i] = IF i = 0 THEN Leaves(of, leaves) ELSE Above(of, i, x[i - 1])
    BY <2>2 DEF LevelsFor
  <2>4. \A i \in 0..k - 1 : y[i] = x[i] BY <2>1
  <2>5. \A i \in 0..k : y[i] = IF i = 0 THEN Leaves(of, leaves) ELSE Above(of, i, y[i - 1])
    <3> TAKE i \in 0..k
    <3>1. CASE i = k
      <4>1. y[k] = Above(of, k, x[k - 1]) /\ k # 0 BY <2>1
      <4>2. y[k - 1] = x[k - 1] BY <2>1, <2>4
      <4> HIDE DEF y
      <4> QED BY <3>1, <4>1, <4>2
    <3>2. CASE i # k /\ i # 0
      <4>1. i \in 0..k - 1 /\ i - 1 \in 0..k - 1 BY <2>1, <3>2
      <4>2. y[i] = x[i] /\ y[i - 1] = x[i - 1] BY <2>4, <4>1
      <4> HIDE DEF y
      <4> QED BY <2>3, <3>2, <4>1, <4>2
    <3>3. CASE i = 0
      <4>1. y[0] = x[0] /\ x[0] = Leaves(of, leaves) BY <2>1, <2>3, <2>4
      <4> HIDE DEF y
      <4> QED BY <3>3, <4>1
    <3> QED BY <3>1, <3>2, <3>3
  <2>6. y = [i \in 0..k |-> y[i]] OBVIOUS
  <2> HIDE DEF y
  <2>7. LevelsFor(of, y, k, leaves) BY <2>5, <2>6 DEF LevelsFor
  <2> QED BY <2>7
<1> HIDE DEF Bad
<1>4. Bad \in SUBSET (0..Depth) BY DEF Bad
<1>5. Bad = {} BY <1>1, <1>2, <1>3, <1>4, NoCounterexample
<1>6. \E x : LevelsFor(of, x, Depth, leaves) BY <1>1, <1>5 DEF Bad
<1>7. LevelsFor(of, Levels(of, leaves), Depth, leaves)
  <2> DEFINE Row(level, l) ==
               [j \in 0..2^(Depth - l) - 1 |->
                  IF l > 0 THEN Node(of, level[l - 1][2 * j], level[l - 1][2 * j + 1])
                  ELSE IF j < Len(leaves) THEN leaves[j + 1] ELSE EmptyLeaf(of)]
  <2>1. \A level : \A l \in 0..Depth :
          Row(level, l) = IF l = 0 THEN Leaves(of, leaves) ELSE Above(of, l, level[l - 1])
    <3> TAKE level
    <3> TAKE l \in 0..Depth
    <3>1. CASE l = 0 BY <3>1 DEF Leaves
    <3>2. CASE l # 0
      <4>1. l > 0 BY <1>1, <3>2
      <4> QED BY <3>2, <4>1 DEF Above
    <3> QED BY <3>1, <3>2
  <2>2. Levels(of, leaves) = CHOOSE level : level = [l \in 0..Depth |-> Row(level, l)]
    BY DEF Levels
  <2>3. \A level : LevelsFor(of, level, Depth, leaves) <=> level = [l \in 0..Depth |-> Row(level, l)]
    <3> HIDE DEF Row
    <3> QED BY <2>1 DEF LevelsFor
  <2> HIDE DEF Row
  <2> QED BY <1>6, <2>2, <2>3
<1> HIDE DEF Levels
<1> QED BY <1>7 DEF LevelsFor

-----------------------------------------------------------------------------
(* Inserting a leaf. *)

\* The left nodes that the contract remembers are those of the client's table.
FilledOK(of, lefts, leaves) ==
  \A i \in 0..Depth - 1 :
    IsRight(Len(leaves), i) => lefts[i] = Levels(of, leaves)[i][(Len(leaves) \div 2^i) - 1]

LEMMA LevelNodes ==
  ASSUME NEW of, NEW leaves, NEW l \in 0..Depth, NEW j \in 0..Width(l) - 1
  PROVE  Levels(of, leaves)[l][j] =
           IF l = 0 THEN (IF j < Len(leaves) THEN leaves[j + 1] ELSE EmptyLeaf(of))
           ELSE Node(of, Levels(of, leaves)[l - 1][2 * j], Levels(of, leaves)[l - 1][2 * j + 1])
<1>1. Levels(of, leaves)[l] = IF l = 0 THEN Leaves(of, leaves) ELSE Above(of, l, Levels(of, leaves)[l - 1])
  BY LevelsIs
<1>2. CASE l = 0
  <2>1. Leaves(of, leaves)[j] = IF j < Len(leaves) THEN leaves[j + 1] ELSE EmptyLeaf(of)
    BY <1>2 DEF Leaves, Width
  <2> QED BY <1>1, <1>2, <2>1
<1>3. CASE l # 0
  <2> DEFINE below == Levels(of, leaves)[l - 1]
  <2>1. Above(of, l, below)[j] = Node(of, below[2 * j], below[2 * j + 1]) BY DEF Above, Width
  <2> QED BY <1>1, <1>3, <2>1
<1> QED BY <1>2, <1>3

\* The children of a node, and where the path of an index goes.
LEMMA Children ==
  ASSUME NEW of, NEW m \in Nat, m < Capacity, NEW l \in 1..Depth, NEW j \in 0..Width(l) - 1
  PROVE  /\ l - 1 \in 0..Depth /\ l \in 0..Depth
         /\ 2 * j \in 0..Width(l - 1) - 1 /\ 2 * j + 1 \in 0..Width(l - 1) - 1
         /\ m \div 2^l \in 0..Width(l) - 1 /\ m \div 2^(l - 1) \in 0..Width(l - 1) - 1
         /\ m \div 2^(l - 1) \in {2 * (m \div 2^l), 2 * (m \div 2^l) + 1}
         /\ IsRight(m, l - 1) <=> m \div 2^(l - 1) = 2 * (m \div 2^l) + 1
<1>1. Depth \in Nat BY DepthAssumption
<1>2. l - 1 \in 0..Depth /\ l \in 0..Depth /\ l - 1 \in Nat /\ (l - 1) + 1 = l BY <1>1
<1>3. Width(l - 1) = 2 * Width(l) /\ Width(l) \in Nat \ {0} BY <1>2, WidthHalves
<1>4. 2 * j \in 0..Width(l - 1) - 1 /\ 2 * j + 1 \in 0..Width(l - 1) - 1
  <2> DEFINE w == Width(l)
             v == Width(l - 1)
  <2> HIDE DEF w, v
  <2>1. v = 2 * w /\ w \in Nat \ {0} /\ j \in 0..w - 1 BY <1>3 DEF v, w
  <2>2. 2 * j \in 0..v - 1 /\ 2 * j + 1 \in 0..v - 1 BY <2>1
  <2> QED BY <2>2 DEF v
<1>5. m \div 2^l \in 0..Width(l) - 1 /\ m \div 2^(l - 1) \in 0..Width(l - 1) - 1
  BY <1>2, PathIn
<1> DEFINE q == m \div 2^(l - 1)
           h == m \div 2^l
<1>6. q \in Nat /\ h = q \div 2 BY <1>2, NodeAbove
<1>7. IsRight(m, l - 1) <=> q % 2 = 1 BY DEF IsRight
<1> HIDE DEF q, h
<1>8. q \in {2 * h, 2 * h + 1} /\ (q % 2 = 1 <=> q = 2 * h + 1) BY <1>6
<1> QED BY <1>2, <1>4, <1>5, <1>7, <1>8 DEF q, h

\* A new leaf changes no node but those of its path.
LEMMA OthersStay ==
  ASSUME NEW of, NEW S, NEW leaves \in Seq(S), NEW leaf \in S, Len(leaves) < Capacity
  PROVE  \A l \in 0..Depth : \A j \in 0..Width(l) - 1 :
           j # Len(leaves) \div 2^l =>
             Levels(of, Append(leaves, leaf))[l][j] = Levels(of, leaves)[l][j]
<1> DEFINE more == Append(leaves, leaf)
           m == Len(leaves)
           Good(l) == \A j \in 0..Width(l) - 1 :
                        j # m \div 2^l => Levels(of, more)[l][j] = Levels(of, leaves)[l][j]
           Bad == {l \in 0..Depth : ~Good(l)}
<1>1. /\ Depth \in Nat /\ 0 \in 0..Depth /\ m \in Nat /\ Len(more) = m + 1
      /\ \A i \in 1..m : more[i] = leaves[i]
  BY DepthAssumption
<1>2. Good(0)
  <2> TAKE j \in 0..Width(0) - 1
  <2> HAVE j # m \div 2^0
  <2>1. m \div 2^0 = m
    <3>1. 2^0 = 1 OBVIOUS
    <3> QED BY <1>1, <3>1
  <2>2. Width(0) \in Nat /\ j \in Nat BY <1>1, WidthHalves
  <2> HIDE DEF more, m
  <2>3. /\ Levels(of, leaves)[0][j] = IF j < m THEN leaves[j + 1] ELSE EmptyLeaf(of)
        /\ Levels(of, more)[0][j] = IF j < m + 1 THEN more[j + 1] ELSE EmptyLeaf(of)
    BY <1>1, LevelNodes DEF m
  <2>4. j < m => j + 1 \in 1..m BY <1>1, <2>2
  <2> QED BY <1>1, <2>1, <2>2, <2>3, <2>4
<1>3. ASSUME NEW k \in 1..Depth, Good(k - 1) PROVE Good(k)
  <2> TAKE j \in 0..Width(k) - 1
  <2> HAVE j # m \div 2^k
  <2> HIDE DEF more
  <2>1. m < Capacity OBVIOUS
  <2> DEFINE q == m \div 2^(k - 1)
             h == m \div 2^k
  <2>2. /\ k - 1 \in 0..Depth /\ k \in 0..Depth
        /\ 2 * j \in 0..Width(k - 1) - 1 /\ 2 * j + 1 \in 0..Width(k - 1) - 1
        /\ h \in 0..Width(k) - 1 /\ q \in {2 * h, 2 * h + 1}
    <3> HIDE DEF m
    <3> QED BY <1>1, <2>1, Children
  <2>3. j \in Nat /\ h \in Nat
    <3>1. Width(k) \in Nat BY <2>2, WidthHalves
    <3> HIDE DEF h
    <3> QED BY <2>2, <3>1
  <2>4. j # h OBVIOUS
  <2> HIDE DEF q, h
  <2>5. 2 * j # q /\ 2 * j + 1 # q BY <2>2, <2>3, <2>4
  <2>6. /\ Levels(of, more)[k - 1][2 * j] = Levels(of, leaves)[k - 1][2 * j]
        /\ Levels(of, more)[k - 1][2 * j + 1] = Levels(of, leaves)[k - 1][2 * j + 1]
    BY <1>3, <2>2, <2>5 DEF q
  <2>7. k # 0 BY <1>1
  <2>8. /\ Levels(of, leaves)[k][j] = Node(of, Levels(of, leaves)[k - 1][2 * j], Levels(of, leaves)[k - 1][2 * j + 1])
        /\ Levels(of, more)[k][j] = Node(of, Levels(of, more)[k - 1][2 * j], Levels(of, more)[k - 1][2 * j + 1])
    BY <2>2, <2>7, LevelNodes
  <2> QED BY <2>6, <2>8
<1> HIDE DEF Good
<1>4. Bad \in SUBSET (0..Depth) /\ 0 \notin Bad BY <1>2
<1>5. \A k \in 1..Depth : k \in Bad => k - 1 \in Bad
  <2> TAKE k \in 1..Depth
  <2>1. k - 1 \in 0..Depth BY <1>1
  <2> QED BY <1>3, <2>1
<1> HIDE DEF Bad
<1>6. Bad = {} BY <1>1, <1>4, <1>5, NoCounterexample
<1> QED BY <1>6 DEF Bad, Good

\* Right of the path of the last leaf the tree is empty.
LEMMA RightIsEmpty ==
  ASSUME NEW of, NEW leaves, NEW m \in Nat, m < Capacity, Len(leaves) = m + 1
  PROVE  \A l \in 0..Depth : \A j \in 0..Width(l) - 1 :
           j > m \div 2^l => Levels(of, leaves)[l][j] = Zero(of)[l]
<1> DEFINE Good(l) == \A j \in 0..Width(l) - 1 :
                        j > m \div 2^l => Levels(of, leaves)[l][j] = Zero(of)[l]
           Bad == {l \in 0..Depth : ~Good(l)}
<1>1. Depth \in Nat /\ 0 \in 0..Depth BY DepthAssumption
<1>2. Good(0)
  <2> TAKE j \in 0..Width(0) - 1
  <2> HAVE j > m \div 2^0
  <2>1. m \div 2^0 = m
    <3>1. 2^0 = 1 OBVIOUS
    <3> QED BY <3>1
  <2>2. Width(0) \in Nat /\ j \in Nat BY <1>1, WidthHalves
  <2>3. Levels(of, leaves)[0][j] = IF j < m + 1 THEN leaves[j + 1] ELSE EmptyLeaf(of)
    BY <1>1, LevelNodes
  <2>4. Zero(of)[0] = EmptyLeaf(of) BY <1>1, ZeroIs
  <2> QED BY <2>1, <2>2, <2>3, <2>4
<1>3. ASSUME NEW k \in 1..Depth, Good(k - 1) PROVE Good(k)
  <2> TAKE j \in 0..Width(k) - 1
  <2> HAVE j > m \div 2^k
  <2> DEFINE q == m \div 2^(k - 1)
             h == m \div 2^k
  <2>2. /\ k - 1 \in 0..Depth /\ k \in 0..Depth
        /\ 2 * j \in 0..Width(k - 1) - 1 /\ 2 * j + 1 \in 0..Width(k - 1) - 1
        /\ h \in 0..Width(k) - 1 /\ q \in {2 * h, 2 * h + 1}
    BY Children
  <2>3. j \in Nat /\ h \in Nat
    <3>1. Width(k) \in Nat BY <2>2, WidthHalves
    <3> HIDE DEF h
    <3> QED BY <2>2, <3>1
  <2>4. j > h OBVIOUS
  <2> HIDE DEF q, h
  <2>5. 2 * j > q /\ 2 * j + 1 > q BY <2>2, <2>3, <2>4
  <2>6. /\ Levels(of, leaves)[k - 1][2 * j] = Zero(of)[k - 1]
        /\ Levels(of, leaves)[k - 1][2 * j + 1] = Zero(of)[k - 1]
    BY <1>3, <2>2, <2>5 DEF q
  <2>7. k # 0 BY <1>1
  <2>8. Levels(of, leaves)[k][j] = Node(of, Levels(of, leaves)[k - 1][2 * j], Levels(of, leaves)[k - 1][2 * j + 1])
    BY <2>2, <2>7, LevelNodes
  <2>9. Zero(of)[k] = Node(of, Zero(of)[k - 1], Zero(of)[k - 1]) BY <2>2, <2>7, ZeroIs
  <2> QED BY <2>6, <2>8, <2>9
<1> HIDE DEF Good
<1>4. Bad \in SUBSET (0..Depth) /\ 0 \notin Bad BY <1>2
<1>5. \A k \in 1..Depth : k \in Bad => k - 1 \in Bad
  <2> TAKE k \in 1..Depth
  <2>1. k - 1 \in 0..Depth BY <1>1
  <2> QED BY <1>3, <2>1
<1> HIDE DEF Bad
<1>6. Bad = {} BY <1>1, <1>4, <1>5, NoCounterexample
<1> QED BY <1>6 DEF Bad, Good

\* The path that the contract climbs is the one of the client's table.
LEMMA ClimbsTable ==
  ASSUME NEW of, NEW S, NEW leaves \in Seq(S), NEW leaf \in S, Len(leaves) < Capacity,
         NEW lefts, FilledOK(of, lefts, leaves)
  PROVE  \A l \in 0..Depth :
           Climb(of, lefts, Len(leaves), leaf)[l]
             = Levels(of, Append(leaves, leaf))[l][Len(leaves) \div 2^l]
<1> DEFINE more == Append(leaves, leaf)
           m == Len(leaves)
           node == Climb(of, lefts, m, leaf)
           Good(l) == node[l] = Levels(of, more)[l][m \div 2^l]
           Bad == {l \in 0..Depth : ~Good(l)}
<1>1. /\ Depth \in Nat /\ 0 \in 0..Depth /\ m \in Nat /\ Len(more) = m + 1
      /\ more[m + 1] = leaf /\ m < Capacity
  BY DepthAssumption
<1>2. Good(0)
  <2>1. m \div 2^0 = m
    <3>1. 2^0 = 1 OBVIOUS
    <3> QED BY <1>1, <3>1
  <2>2. m \in 0..Width(0) - 1 BY <1>1, <2>1, PathIn
  <2>3. node[0] = leaf BY <1>1, ClimbIs
  <2> HIDE DEF more, m, node
  <2>4. Levels(of, more)[0][m] = IF m < m + 1 THEN more[m + 1] ELSE EmptyLeaf(of)
    BY <1>1, <2>2, LevelNodes
  <2> QED BY <1>1, <2>1, <2>3, <2>4
<1>3. ASSUME NEW k \in 1..Depth, Good(k - 1) PROVE Good(k)
  <2> DEFINE q == m \div 2^(k - 1)
             h == m \div 2^k
  <2>1. k \in 0..Depth /\ k - 1 \in 0..Depth /\ k - 1 \in 0..Depth - 1 /\ k # 0 BY <1>1
  <2>2. h \in 0..Width(k) - 1 /\ q \in 0..Width(k - 1) - 1 BY <1>1, <2>1, PathIn
  <2>3. /\ 2 * h \in 0..Width(k - 1) - 1 /\ 2 * h + 1 \in 0..Width(k - 1) - 1
        /\ q \in {2 * h, 2 * h + 1}
        /\ IsRight(m, k - 1) <=> q = 2 * h + 1
    <3> HIDE DEF m
    <3> QED BY <1>1, <2>2, Children
  <2>4. h \in Nat
    <3>1. k \in Nat BY <1>1
    <3> QED BY <1>1, <3>1, NodeAbove
  <2>5. Levels(of, more)[k][h] = Node(of, Levels(of, more)[k - 1][2 * h], Levels(of, more)[k - 1][2 * h + 1])
    <3> HIDE DEF more, m, h
    <3> QED BY <2>1, <2>2, LevelNodes
  <2>6. node[k] = Joined(of, lefts, m, k - 1, node[k - 1]) BY <2>1, ClimbIs
  <2>7. CASE IsRight(m, k - 1)
    <3>1. q = 2 * h + 1 BY <2>3, <2>7
    <3>2. lefts[k - 1] = Levels(of, leaves)[k - 1][q - 1] BY <2>1, <2>7 DEF FilledOK
    <3> HIDE DEF q, h
    <3>3. q - 1 = 2 * h /\ 2 * h # q BY <2>4, <3>1
    <3>4. Levels(of, more)[k - 1][2 * h] = Levels(of, leaves)[k - 1][2 * h]
      BY <2>1, <2>3, <3>3, OthersStay DEF q
    <3> HIDE DEF more, m, node
    <3> QED BY <1>3, <2>5, <2>6, <2>7, <3>1, <3>2, <3>3, <3>4 DEF Joined, q, h
  <2>8. CASE ~IsRight(m, k - 1)
    <3>1. q = 2 * h BY <2>3, <2>8
    <3> HIDE DEF more, m, node
    <3>2. \A j \in 0..Width(k - 1) - 1 : j > m \div 2^(k - 1) => Levels(of, more)[k - 1][j] = Zero(of)[k - 1]
      BY <1>1, <2>1, RightIsEmpty
    <3>3. 2 * h + 1 > m \div 2^(k - 1) 
      <4>1. 2 * h + 1 > q
        <5> HIDE DEF q, h
        <5> QED BY <2>4, <3>1
      <4> QED BY <4>1
    <3>4. Levels(of, more)[k - 1][2 * h + 1] = Zero(of)[k - 1] BY <2>3, <3>2, <3>3
    <3> QED BY <1>3, <2>5, <2>6, <2>8, <3>1, <3>4 DEF Joined
  <2> QED BY <2>7, <2>8
<1> HIDE DEF Good
<1>4. Bad \in SUBSET (0..Depth) /\ 0 \notin Bad BY <1>2
<1>5. \A k \in 1..Depth : k \in Bad => k - 1 \in Bad
  <2> TAKE k \in 1..Depth
  <2>1. k - 1 \in 0..Depth BY <1>1
  <2> QED BY <1>3, <2>1
<1> HIDE DEF Bad
<1>6. Bad = {} BY <1>1, <1>4, <1>5, NoCounterexample
<1> QED BY <1>6 DEF Bad, Good

LEMMA ClimbsToRoot ==
  ASSUME NEW of, NEW S, NEW leaves \in Seq(S), NEW leaf \in S, Len(leaves) < Capacity,
         NEW lefts, FilledOK(of, lefts, leaves)
  PROVE  Climb(of, lefts, Len(leaves), leaf)[Depth] = RootOf(of, Append(leaves, leaf))
<1>1. Depth \in 0..Depth /\ Len(leaves) \in Nat BY DepthAssumption
<1>2. Len(leaves) \div 2^Depth \in 0..Width(Depth) - 1 BY <1>1, PathIn
<1>3. Len(leaves) \div 2^Depth = 0
  <2>1. Width(Depth) = 1 BY <1>1, WidthHalves
  <2> QED BY <1>2, <2>1
<1>4. Climb(of, lefts, Len(leaves), leaf)[Depth]
        = Levels(of, Append(leaves, leaf))[Depth][Len(leaves) \div 2^Depth]
  <2>1. \A l \in 0..Depth :
          Climb(of, lefts, Len(leaves), leaf)[l]
            = Levels(of, Append(leaves, leaf))[l][Len(leaves) \div 2^l]
    BY ClimbsTable
  <2> QED BY <1>1, <2>1
<1> QED BY <1>3, <1>4 DEF RootOf

\* After the insertion the left nodes remembered are again those of the table.
LEMMA FilledAfterOK ==
  ASSUME NEW of, NEW S, NEW leaves \in Seq(S), NEW leaf \in S, Len(leaves) < Capacity,
         NEW lefts, FilledOK(of, lefts, leaves)
  PROVE  FilledOK(of, FilledAfter(of, lefts, Len(leaves), leaf), Append(leaves, leaf))
<1> DEFINE more == Append(leaves, leaf)
           m == Len(leaves)
           new == FilledAfter(of, lefts, m, leaf)
<1>1. Depth \in Nat /\ m \in Nat /\ Len(more) = m + 1 /\ m < Capacity BY DepthAssumption
<1>2. ASSUME NEW i \in 0..Depth - 1, IsRight(m + 1, i)
      PROVE  new[i] = Levels(of, more)[i][((m + 1) \div 2^i) - 1]
  <2> DEFINE q == m \div 2^i
             p == (m + 1) \div 2^i
  <2>1. i \in 0..Depth /\ i \in Nat BY <1>1
  <2>2. q \in 0..Width(i) - 1 /\ q \in Nat BY <1>1, <2>1, PathIn, NodeAbove
  <2>3. p \in {q, q + 1} /\ p % 2 = 1 BY <1>1, <1>2, <2>1, NextNode DEF IsRight
  <2>4. CASE IsRight(m, i)
    <3>1. q % 2 = 1 BY <2>4 DEF IsRight
    <3>2. new[i] = lefts[i] BY <2>4 DEF FilledAfter
    <3>3. lefts[i] = Levels(of, leaves)[i][q - 1] BY <2>4 DEF FilledOK
    <3>4. p = q /\ q - 1 # q /\ q - 1 \in 0..Width(i) - 1
      <4>1. Width(i) \in Nat BY <2>1, WidthHalves
      <4> HIDE DEF p, q
      <4> QED BY <2>2, <2>3, <3>1, <4>1
    <3>5. Levels(of, more)[i][q - 1] = Levels(of, leaves)[i][q - 1] BY <2>1, <3>4, OthersStay
    <3> QED BY <3>2, <3>3, <3>4, <3>5
  <2>5. CASE ~IsRight(m, i)
    <3>1. q % 2 # 1 BY <2>5 DEF IsRight
    <3>2. new[i] = Climb(of, lefts, m, leaf)[i] BY <2>5 DEF FilledAfter
    <3>3. Climb(of, lefts, m, leaf)[i] = Levels(of, more)[i][q] BY <2>1, ClimbsTable
    <3>4. p - 1 = q
      <4> HIDE DEF p, q
      <4> QED BY <2>2, <2>3, <3>1
    <3> QED BY <3>2, <3>3, <3>4
  <2> QED BY <2>4, <2>5
<1> HIDE DEF new, more, m
<1> QED BY <1>1, <1>2 DEF FilledOK, new, more, m

-----------------------------------------------------------------------------
(* The circuit's path. *)

\* What MerkleTreeChecker computes, level by level.
PathFor(of, node, leaf, index, path) ==
  node = [i \in 0..Depth |->
            IF i = 0 THEN leaf
            ELSE IF IsRight(index, i - 1) THEN Node(of, path[i - 1], node[i - 1])
            ELSE Node(of, node[i - 1], path[i - 1])]

LEMMA PathIsOne ==
  ASSUME NEW of, NEW leaf, NEW index, NEW path, NEW a, NEW b,
         PathFor(of, a, leaf, index, path), PathFor(of, b, leaf, index, path)
  PROVE  a[Depth] = b[Depth]
<1> DEFINE Bad == {l \in 0..Depth : a[l] # b[l]}
<1>1. Depth \in Nat /\ 0 \in 0..Depth /\ Depth \in 0..Depth BY DepthAssumption
<1>2. \A x \in {a, b} : \A i \in 0..Depth :
        x[i] = IF i = 0 THEN leaf
               ELSE IF IsRight(index, i - 1) THEN Node(of, path[i - 1], x[i - 1])
               ELSE Node(of, x[i - 1], path[i - 1])
  BY DEF PathFor
<1>3. 0 \notin Bad BY <1>1, <1>2
<1>4. ASSUME NEW k \in 1..Depth, k - 1 \notin Bad PROVE k \notin Bad
  <2>1. k \in 0..Depth /\ k - 1 \in 0..Depth /\ k # 0 BY <1>1
  <2>2. a[k - 1] = b[k - 1] BY <1>4, <2>1
  <2> QED BY <1>2, <2>1, <2>2
<1>5. Bad \in SUBSET (0..Depth) OBVIOUS
<1> HIDE DEF Bad
<1>6. Bad = {} BY <1>1, <1>3, <1>4, <1>5, NoCounterexample
<1> QED BY <1>1, <1>6 DEF Bad

\* The path of a leaf of any tree leads the circuit to the root of the table.
THEOREM PathsLeadToTheRoot ==
  ASSUME NEW of, NEW leaves, Len(leaves) \in 0..Capacity, NEW k \in 1..Len(leaves)
  PROVE  RootFromPath(of, leaves[k], k - 1, PathOf(of, leaves, k - 1)) = RootOf(of, leaves)
<1> DEFINE m == k - 1
           path == PathOf(of, leaves, m)
           table == [l \in 0..Depth |-> Levels(of, leaves)[l][m \div 2^l]]
<1>1. /\ Depth \in Nat /\ 0 \in 0..Depth /\ Depth \in 0..Depth /\ Capacity \in Nat
      /\ m \in Nat /\ m < Capacity /\ m < Len(leaves) /\ m + 1 = k
  BY DepthAssumption
<1>2. table[0] = leaves[k]
  <2>1. m \div 2^0 = m
    <3>1. 2^0 = 1 OBVIOUS
    <3> HIDE DEF m
    <3> QED BY <1>1, <3>1
  <2>2. m \in 0..Width(0) - 1
    <3> HIDE DEF m
    <3> QED BY <1>1, <2>1, PathIn
  <2> HIDE DEF m
  <2>3. Levels(of, leaves)[0][m] = IF m < Len(leaves) THEN leaves[m + 1] ELSE EmptyLeaf(of)
    BY <1>1, <2>2, LevelNodes
  <2> QED BY <1>1, <2>1, <2>3
<1>3. ASSUME NEW i \in 1..Depth
      PROVE  table[i] = IF IsRight(m, i - 1) THEN Node(of, path[i - 1], table[i - 1])
                        ELSE Node(of, table[i - 1], path[i - 1])
  <2> DEFINE q == m \div 2^(i - 1)
             h == m \div 2^i
  <2> HIDE DEF m
  <2>1. i \in 0..Depth /\ i - 1 \in 0..Depth /\ i - 1 \in 0..Depth - 1 /\ i # 0 /\ i \in Nat
    BY <1>1
  <2>2. h \in 0..Width(i) - 1 /\ h \in Nat BY <1>1, <2>1, PathIn, NodeAbove
  <2>3. q \in {2 * h, 2 * h + 1} /\ (IsRight(m, i - 1) <=> q = 2 * h + 1)
    BY <1>1, <2>2, Children
  <2>4. Levels(of, leaves)[i][h] = Node(of, Levels(of, leaves)[i - 1][2 * h], Levels(of, leaves)[i - 1][2 * h + 1])
    <3> HIDE DEF h
    <3> QED BY <2>1, <2>2, LevelNodes
  <2>5. path[i - 1] = Levels(of, leaves)[i - 1][IF IsRight(m, i - 1) THEN q - 1 ELSE q + 1]
    BY <2>1 DEF PathOf
  <2>6. table[i] = Levels(of, leaves)[i][h] /\ table[i - 1] = Levels(of, leaves)[i - 1][q] BY <2>1
  <2> HIDE DEF q, h, path, table
  <2>7. CASE IsRight(m, i - 1)
    <3>1. q = 2 * h + 1 /\ q - 1 = 2 * h BY <2>2, <2>3, <2>7
    <3> QED BY <2>4, <2>5, <2>6, <2>7, <3>1
  <2>8. CASE ~IsRight(m, i - 1)
    <3>1. q = 2 * h BY <2>2, <2>3, <2>8
    <3> QED BY <2>4, <2>5, <2>6, <2>8, <3>1
  <2> QED BY <2>7, <2>8
<1>4. PathFor(of, table, leaves[k], m, path)
  <2> DEFINE Stage(i) == IF i = 0 THEN leaves[k]
                        ELSE IF IsRight(m, i - 1) THEN Node(of, path[i - 1], table[i - 1])
                        ELSE Node(of, table[i - 1], path[i - 1])
  <2>1. \A i \in 0..Depth : i = 0 \/ i \in 1..Depth BY <1>1
  <2>2. table = [i \in 0..Depth |-> table[i]] OBVIOUS
  <2> HIDE DEF table, path, m
  <2>3. \A i \in 0..Depth : table[i] = Stage(i) BY <1>2, <1>3, <2>1
  <2> HIDE DEF Stage
  <2>4. table = [i \in 0..Depth |-> Stage(i)] BY <2>2, <2>3
  <2> QED BY <2>4 DEF PathFor, Stage
<1> DEFINE node == CHOOSE x : PathFor(of, x, leaves[k], m, path)
<1>5. RootFromPath(of, leaves[k], m, path) = node[Depth]
  <2> HIDE DEF m, path
  <2> QED BY DEF RootFromPath, PathFor
<1>6. PathFor(of, node, leaves[k], m, path)
  <2> HIDE DEF table, path, m
  <2> QED BY <1>4
<1>7. node[Depth] = table[Depth]
  <2> HIDE DEF node, table, path, m
  <2> QED BY <1>4, <1>6, PathIsOne
<1>8. m \div 2^Depth = 0
  <2> HIDE DEF m
  <2>1. m \div 2^Depth \in 0..Width(Depth) - 1 BY <1>1, PathIn
  <2>2. Width(Depth) = 1 BY <1>1, WidthHalves
  <2> QED BY <2>1, <2>2
<1>9. table[Depth] = RootOf(of, leaves) BY <1>1, <1>8 DEF RootOf
<1> HIDE DEF node, table, path
<1> QED BY <1>5, <1>7, <1>9 DEF path

-----------------------------------------------------------------------------
(* The client's mirror of the tree. *)

\* The contract remembers the left nodes of the tree of all deposits.
TreeInv == FilledOK("pool", filled, Commitments) /\ MirrorReproducesRoots

LEMMA Prefixes ==
  ASSUME NEW S, NEW s \in Seq(S), NEW e \in S
  PROVE  /\ SubSeq(s, 1, Len(s)) = s
         /\ \A k \in 1..Len(s) : SubSeq(Append(s, e), 1, k) = SubSeq(s, 1, k)
<1>1. SubSeq(s, 1, Len(s)) = s BY SubSeqFull
<1>2. ASSUME NEW k \in 1..Len(s) PROVE SubSeq(Append(s, e), 1, k) = SubSeq(s, 1, k)
  <2> DEFINE t == Append(s, e)
  <2>1. /\ t \in Seq(S) /\ Len(t) = Len(s) + 1 /\ Len(s) \in Nat
        /\ \A i \in 1..Len(s) : t[i] = s[i]
    OBVIOUS
  <2>2. SubSeq(t, 1, k) = [i \in 1..k |-> t[i]] /\ SubSeq(s, 1, k) = [i \in 1..k |-> s[i]]
    OBVIOUS
  <2>3. \A i \in 1..k : t[i] = s[i] BY <2>1
  <2> HIDE DEF t
  <2> QED BY <2>2, <2>3 DEF t
<1> QED BY <1>1, <1>2

LEMMA CommitmentsAre ==
  TypeOK => Commitments \in Seq(Notes) /\ Len(Commitments) = Len(events) /\ Len(events) \in Nat
<1> SUFFICES ASSUME TypeOK
             PROVE  Commitments \in Seq(Notes) /\ Len(Commitments) = Len(events) /\ Len(events) \in Nat
  OBVIOUS
<1>1. Len(events) \in Nat BY DepthAssumption DEF TypeOK
<1>2. \A k \in 1..Len(events) : events[k].commitment \in Notes BY DEF TypeOK
<1> QED BY <1>1, <1>2 DEF Commitments

LEMMA InsertKeepsTree ==
  ASSUME PoolInv, TreeInv, NEW n \in Notes, nextIndex < Capacity, Insert(n)
  PROVE  TreeInv'
<1> DEFINE C == Commitments
           root == Climb("pool", filled, nextIndex, n)[Depth]
           x == [commitment |-> n, root |-> root]
<1>1. /\ C \in Seq(Notes) /\ Len(C) = Len(events) /\ Len(events) \in Nat /\ nextIndex = Len(events)
      /\ events \in Seq({events[k] : k \in 1..Len(events)})
  BY CommitmentsAre, RequestIs DEF PoolInv, TypeOK
<1>2. events' = Append(events, x) /\ filled' = FilledAfter("pool", filled, nextIndex, n)
  BY DEF Insert
<1>3. /\ Len(events') = Len(events) + 1
      /\ \A k \in 1..Len(events) : events'[k] = events[k]
      /\ events'[Len(events) + 1] = x
  <2> HIDE DEF x
  <2>1. events \in Seq({events[k] : k \in 1..Len(events)} \cup {x}) BY <1>1
  <2> QED BY <1>1, <1>2, <2>1
<1>4. C' = Append(C, n)
  <2>1. x.commitment = n OBVIOUS
  <2>2. C' = [k \in 1..Len(events) + 1 |-> events'[k].commitment] BY <1>3 DEF Commitments
  <2>3. \A k \in 1..Len(events) : C[k] = events[k].commitment BY DEF Commitments
  <2>4. \A k \in 1..Len(events) : events'[k].commitment = C[k] BY <1>3, <2>3
  <2>5. events'[Len(events) + 1].commitment = n BY <1>3, <2>1
  <2> HIDE DEF C, x
  <2>6. /\ Append(C, n) = [k \in 1..Len(events) + 1 |-> Append(C, n)[k]]
        /\ \A k \in 1..Len(events) : Append(C, n)[k] = C[k]
        /\ Append(C, n)[Len(events) + 1] = n
    <3> DEFINE D == Append(C, n)
    <3>1. D \in Seq(Notes) /\ Len(D) = Len(C) + 1 /\ DOMAIN D = 1..Len(D) BY <1>1
    <3>2. (\A k \in 1..Len(C) : D[k] = C[k]) /\ D[Len(C) + 1] = n BY <1>1
    <3> HIDE DEF D
    <3>3. D \in [1..Len(D) -> Notes] BY <3>1
    <3>4. D = [k \in 1..Len(events) + 1 |-> D[k]] BY <1>1, <3>1, <3>3
    <3> QED BY <1>1, <3>2, <3>4 DEF D
  <2>7. \A k \in 1..Len(events) + 1 : events'[k].commitment = Append(C, n)[k]
    <3> TAKE k \in 1..Len(events) + 1
    <3>1. k \in 1..Len(events) \/ k = Len(events) + 1 BY <1>1
    <3> QED BY <2>4, <2>5, <2>6, <3>1
  <2> QED BY <2>2, <2>6, <2>7
<1>5. FilledOK("pool", filled, C) /\ Len(C) < Capacity BY <1>1 DEF TreeInv
<1>6. root = RootOf("pool", Append(C, n))
  <2> HIDE DEF C
  <2> QED BY <1>1, <1>5, ClimbsToRoot
<1>7. FilledOK("pool", filled', Append(C, n))
  <2> HIDE DEF C
  <2> QED BY <1>1, <1>2, <1>5, FilledAfterOK
<1>8. \A k \in 1..Len(events) : events[k].root = RootOf("pool", SubSeq(C, 1, k))
  BY DEF TreeInv, MirrorReproducesRoots
<1>9. Append(C, n) \in Seq(Notes) /\ Len(Append(C, n)) = Len(events) + 1
  <2> HIDE DEF C
  <2> QED BY <1>1
<1>10. /\ SubSeq(Append(C, n), 1, Len(events) + 1) = Append(C, n)
       /\ \A k \in 1..Len(events) : SubSeq(Append(C, n), 1, k) = SubSeq(C, 1, k)
  <2> HIDE DEF C
  <2> QED BY <1>1, <1>9, Prefixes
<1>11. x.root = root OBVIOUS
<1>12. ASSUME NEW k \in 1..Len(events) + 1 PROVE events'[k].root = RootOf("pool", SubSeq(C', 1, k))
  <2>1. k \in 1..Len(events) \/ k = Len(events) + 1 BY <1>1
  <2> HIDE DEF C, x, root
  <2>2. CASE k \in 1..Len(events) BY <1>3, <1>4, <1>8, <1>10, <2>2
  <2>3. CASE k = Len(events) + 1 BY <1>3, <1>4, <1>6, <1>10, <1>11, <2>3
  <2> QED BY <2>1, <2>2, <2>3
<1> QED BY <1>3, <1>4, <1>7, <1>12 DEF TreeInv, MirrorReproducesRoots

LEMMA TreeStep == PoolInv /\ TreeInv /\ [Next]_vars => TreeInv'
<1> SUFFICES ASSUME PoolInv, TreeInv, [Next]_vars PROVE TreeInv' OBVIOUS
<1>1. CASE UNCHANGED <<filled, events>>
  <2>1. Commitments' = Commitments BY <1>1 DEF Commitments
  <2> QED BY <1>1, <2>1 DEF TreeInv, MirrorReproducesRoots
<1>2. ASSUME NEW r \in Requests, IncludeDeposit(r), CanDeposit PROVE TreeInv'
  <2>1. RequestOK(request[r]) /\ request[r].op = "deposit" BY <1>2, RequestIs DEF IncludeDeposit
  <2>2. request[r].note \in Notes BY <2>1 DEF RequestOK
  <2>3. Insert(request[r].note) /\ nextIndex < Capacity BY <1>2 DEF IncludeDeposit, CanDeposit
  <2> HIDE DEF PoolInv, TreeInv
  <2> QED BY <2>2, <2>3, InsertKeepsTree
<1>3. ASSUME NEW r \in Requests, IncludeDeposit(r), ~CanDeposit PROVE TreeInv'
  BY <1>1, <1>3 DEF IncludeDeposit
<1>4. CASE Initialize \/ AgeOut BY <1>1, <1>4 DEF Initialize, AgeOut, contract
<1>5. ASSUME NEW r \in Requests, IncludeWithdraw(r) \/ Forgo(r) \/ SubmitWithdraw(r) \/ Poll(r)
      PROVE  TreeInv'
  BY <1>1, <1>5 DEF IncludeWithdraw, Forgo, SubmitWithdraw, Poll, contract
<1>6. ASSUME NEW r \in Requests, NEW n \in Notes, SubmitDeposit(r, n) \/ Sync(r, n)
      PROVE  TreeInv'
  BY <1>1, <1>6 DEF SubmitDeposit, Sync, contract
<1>7. CASE UNCHANGED vars BY <1>1, <1>7 DEF vars, contract
<1> QED BY <1>2, <1>3, <1>4, <1>5, <1>6, <1>7 DEF Next

LEMMA TreeInit == Init => TreeInv
<1> SUFFICES ASSUME Init PROVE TreeInv OBVIOUS
<1>1. Len(events) = 0 BY DEF Init
<1>2. Commitments \in Seq({}) /\ Len(Commitments) = 0 BY <1>1 DEF Commitments
<1>3. ASSUME NEW i \in 0..Depth - 1 PROVE ~IsRight(0, i)
  <2> DEFINE d == 2^i
  <2>1. i \in Nat BY DepthAssumption
  <2>2. d \in Nat \ {0} BY <2>1, PowerIsSize
  <2> HIDE DEF d
  <2>3. 0 \div d = 0 /\ 0 % 2 = 0 BY <2>2
  <2>4. (0 \div d) % 2 = 0 BY <2>3
  <2> QED BY <2>4 DEF IsRight, d
<1> QED BY <1>1, <1>2, <1>3 DEF TreeInv, FilledOK, MirrorReproducesRoots

LEMMA TreeAlways == Spec => []TreeInv
BY PoolAlways, PoolInit, TreeInit, TreeStep, PTL DEF Spec

\* The root the contract computes on the path of a deposit is the one the client computes from
\* the whole table, for a tree of any depth and any hash of its nodes.
THEOREM MirrorMatchesRoots == Spec => []MirrorReproducesRoots
<1>1. TreeInv => MirrorReproducesRoots BY DEF TreeInv
<1> QED BY <1>1, TreeAlways, PTL

-----------------------------------------------------------------------------
(* What a client proves. *)

\* A client proves for a note it found among the deposits it synced.
Synced(req, deposits) ==
  req.pc = "prove" => /\ Len(req.leaves) \in 0..deposits
                      /\ \E k \in 1..Len(req.leaves) : req.leaves[k] = req.note

ProverInv == \A r \in Requests : Synced(request[r], Len(events))

LEMMA SyncedStays ==
  ASSUME PoolInv, ProverInv, NEW r \in Requests, NEW req,
         request' = [request EXCEPT ![r] = req],
         Len(events') \in {Len(events), Len(events) + 1},
         Synced(req, Len(events'))
  PROVE  ProverInv'
<1>1. Len(events) \in Nat /\ DOMAIN request = Requests BY RequestIs DEF PoolInv, TypeOK
<1>2. ASSUME NEW q \in Requests PROVE Synced(request'[q], Len(events'))
  <2>1. CASE q = r
    <3>1. request'[q] = req BY <1>1, <2>1
    <3> QED BY <3>1
  <2>2. CASE q # r
    <3>1. request'[q] = request[q] /\ Synced(request[q], Len(events)) BY <1>1, <2>2 DEF ProverInv
    <3> QED BY <1>1, <3>1 DEF Synced
  <2> QED BY <2>1, <2>2
<1> QED BY <1>2 DEF ProverInv

\* A status or a program counter other than "prove" changes no synced leaves.
LEMMA SyncedOnwards ==
  ASSUME PoolInv, ProverInv, NEW r \in Requests,
         Len(events') \in {Len(events), Len(events) + 1},
         \/ \E t : Settles(r, t)
         \/ \E req : request' = [request EXCEPT ![r] = req] /\ req.pc # "prove"
  PROVE  ProverInv'
<1>1. Len(events) \in Nat /\ Synced(request[r], Len(events)) /\ RequestOK(request[r])
  BY RequestIs DEF ProverInv
<1>2. ASSUME NEW t, Settles(r, t) PROVE ProverInv'
  <2> DEFINE req == [request[r] EXCEPT !.tx = t]
  <2>1. req.pc = request[r].pc /\ req.leaves = request[r].leaves /\ req.note = request[r].note
    BY <1>1 DEF RequestOK, IdleRequest
  <2>2. request' = [request EXCEPT ![r] = Closed(req)] BY <1>2 DEF Settles
  <2> HIDE DEF req
  <2>3. Synced(req, Len(events')) BY <1>1, <2>1 DEF Synced
  <2>4. Synced(Closed(req), Len(events')) BY <2>3, ClosedIs, IdleIsQuiet DEF Synced
  <2> HIDE DEF PoolInv, ProverInv
  <2> QED BY <2>2, <2>4, SyncedStays
<1>3. ASSUME NEW req, request' = [request EXCEPT ![r] = req], req.pc # "prove" PROVE ProverInv'
  <2>1. Synced(req, Len(events')) BY <1>3 DEF Synced
  <2> HIDE DEF PoolInv, ProverInv
  <2> QED BY <1>3, <2>1, SyncedStays
<1> QED BY <1>2, <1>3

LEMMA ProverStep == PoolInv /\ ProverInv /\ [Next]_vars => ProverInv'
<1> SUFFICES ASSUME PoolInv, ProverInv, [Next]_vars PROVE ProverInv' OBVIOUS
<1>1. CASE UNCHANGED <<request, events>> BY <1>1 DEF ProverInv
<1>2. CASE Initialize \/ AgeOut BY <1>1, <1>2 DEF Initialize, AgeOut, contract
<1>3. CASE UNCHANGED vars BY <1>1, <1>3 DEF vars, contract
<1>4. ASSUME NEW r \in Requests, IncludeDeposit(r) \/ IncludeWithdraw(r) \/ Forgo(r) PROVE ProverInv'
  <2>1. \E t : Settles(r, t)
    BY <1>4 DEF IncludeDeposit, IncludeWithdraw, Forgo
  <2>2. Len(events') \in {Len(events), Len(events) + 1}
    <3>1. CASE IncludeDeposit(r) /\ CanDeposit
      <4> DEFINE x == [commitment |-> request[r].note,
                       root |-> Climb("pool", filled, nextIndex, request[r].note)[Depth]]
      <4>1. events' = Append(events, x) BY <3>1 DEF IncludeDeposit, Insert
      <4>2. events \in Seq({events[k] : k \in 1..Len(events)}) BY RequestIs
      <4>3. events \in Seq({events[k] : k \in 1..Len(events)} \cup {x}) BY <4>2
      <4> HIDE DEF x
      <4> QED BY <4>1, <4>3
    <3>2. CASE IncludeDeposit(r) /\ ~CanDeposit BY <3>2 DEF IncludeDeposit
    <3>3. CASE IncludeWithdraw(r) \/ Forgo(r) BY <3>3 DEF IncludeWithdraw, Forgo
    <3> QED BY <1>4, <3>1, <3>2, <3>3
  <2> HIDE DEF PoolInv, ProverInv
  <2> QED BY <2>1, <2>2, SyncedOnwards
<1>5. ASSUME NEW r \in Requests, SubmitWithdraw(r) PROVE ProverInv'
  <2>1. PICK req \in Submitted(request[r], CanWithdraw(request[r].note, RootOf("pool", request[r].leaves))) :
          request' = [request EXCEPT ![r] = req]
    BY <1>5 DEF SubmitWithdraw
  <2>2. RequestOK(request[r]) BY RequestIs
  <2>3. req.pc \in {"idle", "answered", "poll"}
    BY <2>1, <2>2, ClosedIs, IdleIsQuiet DEF Submitted, RequestOK, IdleRequest
  <2>4. events' = events BY <1>5 DEF SubmitWithdraw
  <2> HIDE DEF PoolInv, ProverInv
  <2> QED BY <2>1, <2>3, <2>4, SyncedOnwards
<1>6. ASSUME NEW r \in Requests, Poll(r) PROVE ProverInv'
  <2> DEFINE req == [request[r] EXCEPT !.pc = "answered"]
  <2>1. RequestOK(request[r]) BY RequestIs
  <2>2. request' = [request EXCEPT ![r] = Closed(req)] /\ events' = events BY <1>6 DEF Poll
  <2>3. req.pc = "answered" BY <2>1 DEF RequestOK, IdleRequest
  <2>4. Closed(req).pc # "prove" BY <2>3, ClosedIs, IdleIsQuiet
  <2> HIDE DEF PoolInv, ProverInv, req
  <2> QED BY <2>2, <2>4, SyncedOnwards
<1>7. ASSUME NEW r \in Requests, NEW n \in Notes, SubmitDeposit(r, n) PROVE ProverInv'
  <2> DEFINE new == [IdleRequest EXCEPT !.op = "deposit", !.note = n]
  <2>1. PICK req \in Submitted(new, CanDeposit) : request' = [request EXCEPT ![r] = req]
    BY <1>7 DEF SubmitDeposit
  <2>2. req.pc \in {"idle", "answered", "poll"} BY <2>1, ClosedIs, IdleIsQuiet DEF Submitted, IdleRequest
  <2>3. events' = events BY <1>7 DEF SubmitDeposit
  <2> HIDE DEF PoolInv, ProverInv, new
  <2> QED BY <2>1, <2>2, <2>3, SyncedOnwards
<1>8. ASSUME NEW r \in Requests, NEW n \in Notes, Sync(r, n) PROVE ProverInv'
  <2> DEFINE leaves == SubSeq(Commitments, aged + 1, Len(events))
             req == [IdleRequest EXCEPT
                       !.op = "withdraw", !.note = n, !.leaves = leaves,
                       !.pc = IF \E k \in 1..Len(leaves) : leaves[k] = n THEN "prove" ELSE "answered"]
  <2>1. request' = [request EXCEPT ![r] = Closed(req)] /\ events' = events BY <1>8 DEF Sync
  <2>2. /\ Commitments \in Seq(Notes) /\ Len(Commitments) = Len(events) /\ Len(events) \in Nat
        /\ aged \in 0..Len(events)
    BY CommitmentsAre DEF PoolInv, TypeOK
  <2>3. Len(leaves) \in 0..Len(events) BY <2>2, SubSeqProperties
  <2> HIDE DEF leaves
  <2>4. /\ req.leaves = leaves /\ req.note = n
        /\ req.pc = "prove" => \E k \in 1..Len(leaves) : leaves[k] = n
    BY DEF IdleRequest
  <2> HIDE DEF req
  <2>5. Synced(req, Len(events')) BY <2>1, <2>3, <2>4 DEF Synced
  <2>6. Synced(Closed(req), Len(events')) BY <2>5, ClosedIs, IdleIsQuiet DEF Synced
  <2> HIDE DEF PoolInv, ProverInv
  <2> QED BY <2>1, <2>6, SyncedStays
<1> QED BY <1>2, <1>3, <1>4, <1>5, <1>6, <1>7, <1>8 DEF Next

LEMMA ProverInit == Init => ProverInv
BY DEF Init, ProverInv, Synced, IdleRequest

LEMMA ProverAlways == Spec => []ProverInv
BY PoolAlways, PoolInit, ProverInit, ProverStep, PTL DEF Spec

\* With a ring at least as long as the tree is wide, a client that synced every deposit, any
\* number of deposits ago, has a proof that the contract accepts unless the note is spent.
THEOREM MirrorsAreAccepted ==
  ASSUME Capacity <= RootHistory PROVE Spec => []CompleteMirrorIsAccepted
<1>1. PoolInv /\ TreeInv /\ ProverInv /\ PublishedRootsStayKnown => CompleteMirrorIsAccepted
  <2> SUFFICES ASSUME PoolInv, TreeInv, ProverInv, PublishedRootsStayKnown,
                      NEW r \in Requests, request[r].pc = "prove",
                      request[r].leaves = SubSeq(Commitments, 1, Len(request[r].leaves)),
                      request[r].note \notin spent
               PROVE  CanWithdraw(request[r].note, RootOf("pool", request[r].leaves))
    BY DEF CompleteMirrorIsAccepted
  <2> DEFINE n == request[r].note
             k == Len(request[r].leaves)
             U == Deposited \ spent
  <2>1. RequestFits(request[r], note, Deposited) BY RequestIs
  <2>2. n \in Deposited /\ initialized
    <3>1. n \in Deposited BY <2>1 DEF RequestFits, Withdrawing
    <3> QED BY <3>1 DEF PoolInv
  <2>3. k \in 1..Len(events)
    <3>1. k \in 0..Len(events) /\ \E i \in 1..k : TRUE BY DEF ProverInv, Synced
    <3> HIDE DEF k
    <3>2. Len(events) \in Nat BY RequestIs
    <3> QED BY <3>1, <3>2
  <2>4. events[k].root = RootOf("pool", SubSeq(Commitments, 1, k))
    BY <2>3 DEF TreeInv, MirrorReproducesRoots
  <2>5. IsKnownRoot(RootOf("pool", request[r].leaves)) BY <2>3, <2>4 DEF PublishedRootsStayKnown
  <2>6. n \in U /\ IsFiniteSet(U) /\ IsFiniteSet(U \ {n})
    <3>1. n \in U BY <2>2
    <3>2. IsFiniteSet(Deposited) BY DEF PoolInv
    <3>3. IsFiniteSet(U) BY <3>2, FS_Subset
    <3> QED BY <3>1, <3>3, FS_RemoveElement
  <2>7. \A m \in U : Amount[m] \in Nat
    <3>1. Deposited \subseteq Notes BY DEF PoolInv, TypeOK, Deposited
    <3> QED BY <3>1, PoolAssumption
  <2>8. balance = SumFunctionOnSet(Amount, U) BY UnspentAre DEF PoolInv, Solvent
  <2> HIDE DEF U, n
  <2>9. SumFunctionOnSet(Amount, U) = Amount[n] + SumFunctionOnSet(Amount, U \ {n})
    BY <2>6, <2>7, SumRemove
  <2>10. SumFunctionOnSet(Amount, U \ {n}) \in Nat BY <2>6, <2>7, SumNat
  <2>11. Amount[n] \in Nat BY <2>6, <2>7
  <2>12. balance >= Amount[n] BY <2>8, <2>9, <2>10, <2>11
  <2> QED BY <2>2, <2>5, <2>12 DEF CanWithdraw, n
<1>2. Spec => []PublishedRootsStayKnown BY RootsAreNeverForgotten
<1> QED BY <1>1, <1>2, PoolAlways, TreeAlways, ProverAlways, PTL

-----------------------------------------------------------------------------
(* The hash, for every field, number of rounds and round constants: each of  *)
(* the three programs permutes a pair of field elements as Permuted does,     *)
(* and absorbs its inputs as Sponged does.                                    *)

\* The state of the permutation, a round of it, and all rounds.
FF == Field \X Field

FieldRound(i, s) ==
  LET sum == (s[2] + Pow5((s[1] + RoundConstant[i - 1]) % Order)) % Order
  IN  IF i < Rounds THEN <<sum, s[1]>> ELSE <<s[1], sum>>

FieldRounds == [p \in (1..Rounds) \X FF |-> FieldRound(p[1], p[2])]

Permuted(s) == (CHOOSE x : Runs(x, Rounds, FF, s, FieldRounds))[Rounds]

LEMMA InField ==
  /\ \A m \in Nat : m % Order \in Field
  /\ \A m \in Field : m \in Nat /\ m % Order = m
  /\ 0 \in Field /\ Order \in Nat \ {0}
<1>1. Order \in Nat \ {0} BY MiMCAssumption
<1>2. \A m \in Nat : m % Order \in 0..Order - 1 /\ (m < Order => m % Order = m)
  BY <1>1, Remainder
<1> QED BY <1>1, <1>2 DEF Field

LEMMA ConstantIn ==
  /\ Rounds \in Nat /\ Rounds > 1
  /\ \A i \in 1..Rounds : RoundConstant[i - 1] \in Field /\ RoundConstant[i - 1] \in Nat
  /\ RoundConstant[0] = 0
<1>1. Rounds \in Nat /\ Rounds > 1 BY MiMCAssumption
<1>2. \A i \in 1..Rounds : i - 1 \in 0..Rounds - 1 BY <1>1
<1> QED BY <1>1, <1>2, MiMCAssumption, InField

LEMMA ToFieldIs == \A m \in Nat : ToField(m) = m % Order /\ ToField(m) \in Field
<1> TAKE m \in Nat
<1>1. m % Order \in Field /\ m % Order \in Nat BY InField
<1> DEFINE x == m % Order
<1> HIDE DEF x
<1>2. x < Order /\ x \in Nat BY <1>1, InField DEF x, Field
<1>3. (Order * 1 + x) % Order = x % Order BY <1>2, InField, Shift
<1>4. Order * 1 + x = x + Order BY <1>2, InField
<1>5. (x + Order) % Order = x BY <1>1, <1>3, <1>4, InField DEF x
<1> QED BY <1>1, <1>5 DEF ToField, x

LEMMA Pow5In == ASSUME NEW t \in Nat PROVE Pow5(t) \in Field
<1> DEFINE t2 == (t * t) % Order
           t4 == (t2 * t2) % Order
<1>1. t * t \in Nat OBVIOUS
<1>2. t2 \in Nat BY <1>1, InField
<1> HIDE DEF t2
<1>3. t2 * t2 \in Nat BY <1>2
<1>4. t4 \in Nat BY <1>3, InField
<1> HIDE DEF t4
<1>5. t4 * t \in Nat BY <1>4
<1> QED BY <1>5, InField DEF Pow5, t2, t4

LEMMA RoundIn ==
  ASSUME NEW i \in 1..Rounds, NEW s \in FF PROVE FieldRound(i, s) \in FF
<1>1. s[1] \in Field /\ s[2] \in Field /\ s[1] \in Nat /\ s[2] \in Nat BY InField DEF FF
<1>2. RoundConstant[i - 1] \in Nat BY ConstantIn
<1> DEFINE t == (s[1] + RoundConstant[i - 1]) % Order
<1>3. t \in Nat BY <1>1, <1>2, InField
<1> HIDE DEF t
<1>4. Pow5(t) \in Nat BY <1>3, Pow5In, InField
<1>5. (s[2] + Pow5(t)) % Order \in Field BY <1>1, <1>4, InField
<1> QED BY <1>1, <1>5 DEF FieldRound, FF, t

LEMMA PermutedRuns ==
  ASSUME NEW s \in FF
  PROVE  LET x == CHOOSE x : Runs(x, Rounds, FF, s, FieldRounds)
         IN  /\ x \in [0..Rounds -> FF] /\ x[0] = s /\ Permuted(s) = x[Rounds]
             /\ \A i \in 1..Rounds : x[i] = FieldRound(i, x[i - 1])
<1>1. Rounds \in Nat BY MiMCAssumption
<1>2. FieldRounds \in [(1..Rounds) \X FF -> FF]
  <2>1. \A p \in (1..Rounds) \X FF : FieldRound(p[1], p[2]) \in FF BY RoundIn
  <2> QED BY <2>1 DEF FieldRounds
<1>3. \E x : Runs(x, Rounds, FF, s, FieldRounds) BY <1>1, <1>2, RunsExist
<1> DEFINE x == CHOOSE x : Runs(x, Rounds, FF, s, FieldRounds)
<1>4. Runs(x, Rounds, FF, s, FieldRounds) BY <1>3
<1>5. x[Rounds] = Permuted(s) BY DEF Permuted
<1> HIDE DEF x
<1>6. x \in [0..Rounds -> FF] /\ x[0] = s BY <1>4 DEF Runs
<1>7. ASSUME NEW i \in 1..Rounds PROVE x[i] = FieldRound(i, x[i - 1])
  <2>1. i - 1 \in 0..Rounds BY <1>1
  <2>2. x[i - 1] \in FF BY <1>6, <2>1
  <2>3. x[i] = FieldRounds[<<i, x[i - 1]>>] BY <1>4 DEF Runs
  <2> QED BY <2>2, <2>3 DEF FieldRounds
<1> QED BY <1>5, <1>6, <1>7 DEF x

LEMMA PermutedIn == ASSUME NEW s \in FF PROVE Permuted(s) \in FF
<1> DEFINE x == CHOOSE x : Runs(x, Rounds, FF, s, FieldRounds)
<1>1. x \in [0..Rounds -> FF] /\ Permuted(s) = x[Rounds] BY PermutedRuns
<1> HIDE DEF x
<1>2. Rounds \in 0..Rounds BY ConstantIn
<1> QED BY <1>1, <1>2

\* What follows the rounds ends in the permutation.
LEMMA PermutedIs ==
  ASSUME NEW s \in FF, NEW y, y[0] = s,
         \A i \in 1..Rounds : y[i - 1] \in FF => y[i] = FieldRound(i, y[i - 1])
  PROVE  y[Rounds] = Permuted(s)
<1> DEFINE x == CHOOSE x : Runs(x, Rounds, FF, s, FieldRounds)
<1>1. /\ x \in [0..Rounds -> FF] /\ x[0] = s /\ Permuted(s) = x[Rounds]
      /\ \A i \in 1..Rounds : x[i] = FieldRound(i, x[i - 1])
  BY PermutedRuns
<1> HIDE DEF x
<1>2. Rounds \in Nat /\ Rounds \in 0..Rounds BY ConstantIn
<1>3. ASSUME NEW i \in 1..Rounds, x[i - 1] = y[i - 1] PROVE x[i] = y[i]
  <2>1. i - 1 \in 0..Rounds BY <1>2
  <2>2. y[i - 1] \in FF BY <1>1, <1>3, <2>1
  <2> QED BY <1>1, <1>3, <2>2
<1>4. x[0] = y[0] BY <1>1
<1>5. \A i \in 0..Rounds : x[i] = y[i] BY <1>2, <1>3, <1>4, RunsAreOne
<1> QED BY <1>1, <1>2, <1>5

\* The rounds of mimc.ts: the key is 0, and the first constant is not added.
LEMMA ClientPermutes ==
  ASSUME NEW l \in Field, NEW r \in Field PROVE MimcFeistel(l, r, 0) = Permuted(<<l, r>>)
<1> DEFINE start == <<l, r>>
           Step(i, s) == LET t == (ToField(0) + s[1] + (IF i = 1 THEN 0 ELSE RoundConstant[i - 1])) % Order
                             sum == (s[2] + Pow5(t)) % Order
                         IN  IF i < Rounds THEN <<sum, s[1]>> ELSE <<s[1], sum>>
           Is(f) == f = [i \in 0..Rounds |-> IF i = 0 THEN <<ToField(l), ToField(r)>> ELSE Step(i, f[i - 1])]
           y == CHOOSE y : Is(y)
<1>1. MimcFeistel(l, r, 0) = y[Rounds] BY DEF MimcFeistel
<1>2. start \in FF /\ Rounds \in Nat BY ConstantIn DEF FF
<1>3. ToField(0) = 0 /\ ToField(l) = l /\ ToField(r) = r BY ToFieldIs, InField
<1>4. ASSUME NEW i \in 1..Rounds, NEW s \in FF PROVE Step(i, s) = FieldRound(i, s)
  <2>1. s[1] \in Nat BY InField DEF FF
  <2>2. RoundConstant[i - 1] \in Nat /\ (i = 1 => RoundConstant[i - 1] = 0) BY ConstantIn
  <2>3. ToField(0) + s[1] + (IF i = 1 THEN 0 ELSE RoundConstant[i - 1]) = s[1] + RoundConstant[i - 1]
    BY <1>3, <2>1, <2>2
  <2> QED BY <2>3 DEF FieldRound
<1> HIDE DEF start, Step
<1>5. PICK x \in [0..Rounds -> FF] : x[0] = start /\ \A i \in 1..Rounds : x[i] = FieldRound(i, x[i - 1])
  BY <1>2, PermutedRuns
<1>6. Is(x)
  <2>1. x = [i \in 0..Rounds |-> x[i]] BY <1>5
  <2>2. ASSUME NEW i \in 0..Rounds
        PROVE x[i] = IF i = 0 THEN <<ToField(l), ToField(r)>> ELSE Step(i, x[i - 1])
    <3>1. CASE i = 0 BY <1>3, <1>5, <3>1 DEF start
    <3>2. CASE i # 0
      <4>1. i \in 1..Rounds /\ i - 1 \in 0..Rounds BY <1>2, <3>2
      <4> QED BY <1>4, <1>5, <3>2, <4>1
    <3> QED BY <3>1, <3>2
  <2> QED BY <2>1, <2>2
<1>7. Is(y)
  <2> HIDE DEF Is
  <2> QED BY <1>6
<1> HIDE DEF y
<1>8. y[0] = start /\ \A i \in 1..Rounds : y[i] = Step(i, y[i - 1])
  <2>1. \A i \in 1..Rounds : i \in 0..Rounds /\ i # 0 BY <1>2
  <2>2. 0 \in 0..Rounds BY <1>2
  <2> QED BY <1>3, <1>7, <2>1, <2>2 DEF start
<1>9. y[Rounds] = Permuted(start) BY <1>2, <1>4, <1>8, PermutedIs
<1> QED BY <1>1, <1>9 DEF start

\* The rounds of mimc.rs: each after the first adds its constant.
LEMMA ContractPermutes ==
  ASSUME NEW l \in Field, NEW r \in Field PROVE ContractFeistel(l, r) = Permuted(<<l, r>>)
<1> DEFINE start == <<l, r>>
           Step(i, s) ==
             LET folded == FrAdd(s[2], FrPow5(IF i = 0 THEN s[1] ELSE FrAdd(s[1], RoundConstant[i])))
             IN  IF i < Rounds - 1 THEN <<folded, s[1]>> ELSE <<s[1], folded>>
           Is(f) == f = [i \in 0..Rounds |-> IF i = 0 THEN <<l, r>> ELSE Step(i - 1, f[i - 1])]
           y == CHOOSE y : Is(y)
<1>1. ContractFeistel(l, r) = y[Rounds] BY DEF ContractFeistel
<1>2. start \in FF /\ Rounds \in Nat BY ConstantIn DEF FF
<1>4. ASSUME NEW i \in 1..Rounds, NEW s \in FF PROVE Step(i - 1, s) = FieldRound(i, s)
  <2>1. s[1] \in Nat /\ s[1] % Order = s[1] BY InField DEF FF
  <2>2. RoundConstant[i - 1] \in Nat /\ (i = 1 => RoundConstant[i - 1] = 0) BY ConstantIn
  <2>3. (IF i - 1 = 0 THEN s[1] ELSE FrAdd(s[1], RoundConstant[i - 1])) = (s[1] + RoundConstant[i - 1]) % Order
    <3>1. CASE i = 1
      <4>1. s[1] + RoundConstant[i - 1] = s[1] BY <2>1, <2>2, <3>1
      <4> QED BY <2>1, <3>1, <4>1
    <3>2. CASE i # 1 BY <1>2, <3>2 DEF FrAdd
    <3> QED BY <3>1, <3>2
  <2>4. i - 1 < Rounds - 1 <=> i < Rounds BY <1>2
  <2>5. \A t : FrPow5(t) = Pow5(t) BY DEF FrPow5, FrMul, Pow5
  <2> DEFINE t == (s[1] + RoundConstant[i - 1]) % Order
             folded == FrAdd(s[2], FrPow5(t))
  <2>6. Step(i - 1, s) = IF i - 1 < Rounds - 1 THEN <<folded, s[1]>> ELSE <<s[1], folded>> BY <2>3
  <2>7. folded = (s[2] + Pow5(t)) % Order
    <3> HIDE DEF t
    <3> QED BY <2>5 DEF FrAdd
  <2> HIDE DEF Step, folded
  <2> QED BY <2>4, <2>6, <2>7 DEF FieldRound
<1> HIDE DEF start, Step
<1>5. PICK x \in [0..Rounds -> FF] : x[0] = start /\ \A i \in 1..Rounds : x[i] = FieldRound(i, x[i - 1])
  BY <1>2, PermutedRuns
<1>6. Is(x)
  <2>1. x = [i \in 0..Rounds |-> x[i]] BY <1>5
  <2>2. ASSUME NEW i \in 0..Rounds
        PROVE x[i] = IF i = 0 THEN <<l, r>> ELSE Step(i - 1, x[i - 1])
    <3>1. CASE i = 0 BY <1>5, <3>1 DEF start
    <3>2. CASE i # 0
      <4>1. i \in 1..Rounds /\ i - 1 \in 0..Rounds BY <1>2, <3>2
      <4> QED BY <1>4, <1>5, <3>2, <4>1
    <3> QED BY <3>1, <3>2
  <2> QED BY <2>1, <2>2
<1>7. Is(y)
  <2> HIDE DEF Is
  <2> QED BY <1>6
<1> HIDE DEF y
<1>8. y[0] = start /\ \A i \in 1..Rounds : y[i] = Step(i - 1, y[i - 1])
  <2>1. \A i \in 1..Rounds : i \in 0..Rounds /\ i # 0 BY <1>2
  <2>2. 0 \in 0..Rounds BY <1>2
  <2> QED BY <1>7, <2>1, <2>2 DEF start
<1>9. y[Rounds] = Permuted(start) BY <1>2, <1>4, <1>8, PermutedIs
<1> QED BY <1>1, <1>9 DEF start

\* The signals of mimcsponge.circom, each a round behind.
LEMMA CircuitPermutes ==
  ASSUME NEW l \in Field, NEW r \in Field PROVE MiMCFeistel(l, r, 0) = Permuted(<<l, r>>)
<1> DEFINE start == <<l, r>>
           T5(t) == ((((t * t) * (t * t)) % Order) * t) % Order
           First == <<(r + T5((0 + l) % Order)) % Order, l>>
           Step(i, w) == LET folded == (w[2] + T5((0 + w[1] + RoundConstant[i]) % Order)) % Order
                         IN  IF i < Rounds - 1 THEN <<folded, w[1]>> ELSE <<w[1], folded>>
           Is(f) == f = [i \in 0..Rounds - 1 |-> IF i = 0 THEN First ELSE Step(i, f[i - 1])]
           y == CHOOSE y : Is(y)
<1>1. MiMCFeistel(l, r, 0) = y[Rounds - 1] BY DEF MiMCFeistel
<1>2. start \in FF /\ Rounds \in Nat /\ Rounds > 1 BY ConstantIn DEF FF
<1>3. ASSUME NEW t \in Nat PROVE T5(t) = Pow5(t)
  <2>1. t * t \in Nat OBVIOUS
  <2>2. ((t * t) * (t * t)) % Order = (((t * t) % Order) * ((t * t) % Order)) % Order
    BY <2>1, InField, ProductOfRemainders
  <2> QED BY <2>2 DEF Pow5
<1> HIDE DEF T5
<1>4. ASSUME NEW i \in 1..Rounds - 1, NEW s \in FF PROVE Step(i, s) = FieldRound(i + 1, s)
  <2>1. s[1] \in Nat BY InField DEF FF
  <2>2. (i + 1) - 1 = i /\ i + 1 \in 1..Rounds /\ (i < Rounds - 1 <=> i + 1 < Rounds) BY <1>2
  <2>3. RoundConstant[i] \in Nat BY <2>2, ConstantIn
  <2>4. 0 + s[1] + RoundConstant[i] = s[1] + RoundConstant[i] /\ s[1] + RoundConstant[i] \in Nat
    BY <2>1, <2>3
  <2>5. T5((0 + s[1] + RoundConstant[i]) % Order) = Pow5((s[1] + RoundConstant[i]) % Order)
    BY <1>3, <2>4, InField
  <2> QED BY <2>2, <2>5 DEF FieldRound
<1>5. First = FieldRound(1, start)
  <2>1. l \in Nat /\ 0 + l = l /\ l + RoundConstant[0] = l BY InField, ConstantIn
  <2>2. T5((0 + l) % Order) = Pow5((l + RoundConstant[0]) % Order) BY <1>3, <2>1, InField
  <2>3. start[1] = l /\ start[2] = r OBVIOUS
  <2> HIDE DEF start
  <2> QED BY <1>2, <2>2, <2>3 DEF FieldRound
<1> HIDE DEF start, Step, First
<1>6. PICK x \in [0..Rounds -> FF] : x[0] = start /\ \A i \in 1..Rounds : x[i] = FieldRound(i, x[i - 1])
  BY <1>2, PermutedRuns
<1> DEFINE z == [i \in 0..Rounds - 1 |-> x[i + 1]]
<1>7. Is(z)
  <2>1. ASSUME NEW i \in 0..Rounds - 1
        PROVE z[i] = IF i = 0 THEN First ELSE Step(i, z[i - 1])
    <3>1. i + 1 \in 1..Rounds /\ (i + 1) - 1 = i /\ z[i] = x[i + 1] BY <1>2
    <3>2. CASE i = 0 BY <1>5, <1>6, <3>1, <3>2
    <3>3. CASE i # 0
      <4>1. i \in 1..Rounds - 1 /\ i - 1 \in 0..Rounds - 1 /\ i \in 0..Rounds /\ (i - 1) + 1 = i
        BY <1>2, <3>3
      <4>2. z[i - 1] = x[i] BY <4>1
      <4> HIDE DEF z
      <4>3. Step(i, x[i]) = FieldRound(i + 1, x[i]) BY <1>4, <1>6, <4>1
      <4> QED BY <1>6, <3>1, <3>3, <4>2, <4>3
    <3> QED BY <3>2, <3>3
  <2>2. z = [i \in 0..Rounds - 1 |-> z[i]] OBVIOUS
  <2> HIDE DEF z
  <2> QED BY <2>1, <2>2
<1>8. Is(y)
  <2> HIDE DEF Is, z
  <2> QED BY <1>7
<1> HIDE DEF y, z
<1> DEFINE v == [i \in 0..Rounds |-> IF i = 0 THEN start ELSE y[i - 1]]
<1>9. v[0] = start /\ v[Rounds] = y[Rounds - 1] BY <1>2
<1>10. ASSUME NEW i \in 1..Rounds, v[i - 1] \in FF PROVE v[i] = FieldRound(i, v[i - 1])
  <2>1. v[i] = y[i - 1] /\ i - 1 \in 0..Rounds - 1 BY <1>2
  <2>2. CASE i = 1
    <3>1. y[0] = First /\ v[0] = start BY <1>2, <1>8
    <3> HIDE DEF v
    <3> QED BY <1>5, <2>1, <2>2, <3>1
  <2>3. CASE i # 1
    <3>1. i - 1 \in 1..Rounds - 1 /\ (i - 1) - 1 \in 0..Rounds - 1 /\ (i - 1) + 1 = i
          /\ i - 1 \in 0..Rounds /\ i - 1 # 0
      BY <1>2, <2>3
    <3>2. v[i - 1] = y[(i - 1) - 1] BY <3>1
    <3>3. y[i - 1] = Step(i - 1, y[(i - 1) - 1]) BY <1>8, <3>1
    <3> HIDE DEF v
    <3>4. Step(i - 1, v[i - 1]) = FieldRound((i - 1) + 1, v[i - 1]) BY <1>4, <1>10, <3>1
    <3> QED BY <2>1, <3>1, <3>2, <3>3, <3>4
  <2> QED BY <2>2, <2>3
<1>11. v[Rounds] = Permuted(start)
  <2> HIDE DEF v
  <2> QED BY <1>2, <1>9, <1>10, PermutedIs
<1> HIDE DEF v
<1> QED BY <1>1, <1>9, <1>11 DEF start

-----------------------------------------------------------------------------
(* The sponge.                                                               *)

Absorb(inputs) ==
  [p \in (1..Len(inputs) - 1) \X FF |->
     Permuted(<<(p[2][1] + inputs[p[1] + 1]) % Order, p[2][2]>>)]

Sponged(inputs) ==
  (CHOOSE x : Runs(x, Len(inputs) - 1, FF, Permuted(<<inputs[1], 0>>), Absorb(inputs)))[Len(inputs) - 1][1]

LEMMA AbsorbIn ==
  ASSUME NEW s \in FF, NEW m \in Field
  PROVE  <<(s[1] + m) % Order, s[2]>> \in FF
<1>1. s[1] \in Nat /\ m \in Nat /\ s[2] \in Field BY InField DEF FF
<1>2. (s[1] + m) % Order \in Field BY <1>1, InField
<1> QED BY <1>1, <1>2 DEF FF

LEMMA SpongeRuns ==
  ASSUME NEW inputs \in Seq(Field), Len(inputs) > 0
  PROVE  \E x \in [0..Len(inputs) - 1 -> FF] :
           /\ x[0] = Permuted(<<inputs[1], 0>>)
           /\ \A i \in 1..Len(inputs) - 1 :
                x[i] = Permuted(<<(x[i - 1][1] + inputs[i + 1]) % Order, x[i - 1][2]>>)
           /\ Sponged(inputs) = x[Len(inputs) - 1][1]
<1> DEFINE n == Len(inputs) - 1
           start == Permuted(<<inputs[1], 0>>)
           x == CHOOSE x : Runs(x, n, FF, start, Absorb(inputs))
<1>1. /\ n \in Nat /\ Len(inputs) \in Nat /\ inputs[1] \in Field
      /\ \A i \in 1..Len(inputs) : inputs[i] \in Field
  OBVIOUS
<1>2. start \in FF
  <2>1. <<inputs[1], 0>> \in FF BY <1>1, InField DEF FF
  <2> QED BY <2>1, PermutedIn
<1>3. \A i \in 1..n : i + 1 \in 1..Len(inputs) /\ i - 1 \in 0..n BY <1>1
<1>4. Absorb(inputs) \in [(1..n) \X FF -> FF]
  <2>1. ASSUME NEW p \in (1..n) \X FF
        PROVE  Permuted(<<(p[2][1] + inputs[p[1] + 1]) % Order, p[2][2]>>) \in FF
    <3>1. p[1] \in 1..n /\ p[2] \in FF OBVIOUS
    <3>2. inputs[p[1] + 1] \in Field BY <1>1, <1>3, <3>1
    <3>3. <<(p[2][1] + inputs[p[1] + 1]) % Order, p[2][2]>> \in FF BY <3>1, <3>2, AbsorbIn
    <3> QED BY <3>3, PermutedIn
  <2> QED BY <2>1 DEF Absorb
<1>5. Runs(x, n, FF, start, Absorb(inputs))
  <2> HIDE DEF start, n
  <2> QED BY <1>1, <1>2, <1>4, RunsExist
<1>6. Sponged(inputs) = x[n][1] BY DEF Sponged
<1> HIDE DEF x, start
<1>7. x \in [0..n -> FF] /\ x[0] = start BY <1>5 DEF Runs
<1>8. ASSUME NEW i \in 1..n
      PROVE  x[i] = Permuted(<<(x[i - 1][1] + inputs[i + 1]) % Order, x[i - 1][2]>>)
  <2>1. x[i] = Absorb(inputs)[<<i, x[i - 1]>>] BY <1>5 DEF Runs
  <2>2. x[i - 1] \in FF BY <1>3, <1>7
  <2> QED BY <2>1, <2>2 DEF Absorb
<1> QED BY <1>6, <1>7, <1>8 DEF start

Absorbs(y, inputs) ==
  /\ y[0] = Permuted(<<inputs[1], 0>>)
  /\ \A i \in 1..Len(inputs) - 1 :
       y[i - 1] \in FF => y[i] = Permuted(<<(y[i - 1][1] + inputs[i + 1]) % Order, y[i - 1][2]>>)

\* What absorbs the inputs in turn is the sponge.
LEMMA SpongedIs ==
  ASSUME NEW inputs \in Seq(Field), Len(inputs) > 0, NEW y, Absorbs(y, inputs)
  PROVE  y[Len(inputs) - 1][1] = Sponged(inputs)
<1>1. PICK x :
        /\ x \in [0..Len(inputs) - 1 -> FF]
        /\ Absorbs(x, inputs)
        /\ Sponged(inputs) = x[Len(inputs) - 1][1]
  BY SpongeRuns DEF Absorbs
<1>2. PICK n \in Nat : n = Len(inputs) - 1 OBVIOUS
<1>3. ASSUME NEW i \in 1..n, x[i - 1] = y[i - 1] PROVE x[i] = y[i]
  <2>1. i - 1 \in 0..n BY <1>2
  <2>2. y[i - 1] \in FF BY <1>1, <1>2, <1>3, <2>1
  <2> QED BY <1>1, <1>2, <1>3, <2>2 DEF Absorbs
<1>4. x[0] = y[0] BY <1>1 DEF Absorbs
<1>5. \A i \in 0..n : x[i] = y[i] BY <1>3, <1>4, RunsAreOne
<1> QED BY <1>1, <1>2, <1>5

LEMMA SpongedIn ==
  ASSUME NEW inputs \in Seq(Field), Len(inputs) > 0 PROVE Sponged(inputs) \in Field
<1>1. PICK x \in [0..Len(inputs) - 1 -> FF] : Sponged(inputs) = x[Len(inputs) - 1][1] BY SpongeRuns
<1>2. Len(inputs) - 1 \in 0..Len(inputs) - 1 OBVIOUS
<1> QED BY <1>1, <1>2 DEF FF

\* MimcSponge of mimc.ts, sponge_with of mimc.rs and MiMCSponge of the circuit.
LEMMA ClientSponges ==
  ASSUME NEW inputs \in Seq(Field), Len(inputs) > 0
  PROVE  MimcSponge(inputs, 1, 0)[1] = Sponged(inputs)
<1> DEFINE n == Len(inputs)
           Step(i, s) == MimcFeistel((s[1] + (IF i <= n THEN ToField(inputs[i]) ELSE 0)) % Order, s[2], 0)
           First == MimcFeistel(inputs[1], 0, 0)
           Is(f) == f = [i \in 1..n + 1 - 1 |-> IF i = 1 THEN First ELSE Step(i, f[i - 1])]
           y == CHOOSE y : Is(y)
<1>1. /\ n \in Nat /\ n > 0 /\ n + 1 - 1 = n /\ inputs[1] \in Field
      /\ \A i \in 1..n : inputs[i] \in Field
  OBVIOUS
<1>2. MimcSponge(inputs, 1, 0)[1] = y[n][1]
  <2>1. MimcSponge(inputs, 1, 0) = [j \in 1..1 |-> y[n + j - 1][1]] BY DEF MimcSponge
  <2> HIDE DEF y, n
  <2> QED BY <1>1, <2>1
<1>3. First = Permuted(<<inputs[1], 0>>) BY <1>1, InField, ClientPermutes
<1>4. ASSUME NEW i \in 2..n, NEW s \in FF
      PROVE  Step(i, s) = Permuted(<<(s[1] + inputs[i]) % Order, s[2]>>)
  <2>1. inputs[i] \in Field /\ i <= n BY <1>1
  <2>2. ToField(inputs[i]) = inputs[i] BY <2>1, ToFieldIs, InField
  <2>3. (s[1] + inputs[i]) % Order \in Field /\ s[2] \in Field BY <2>1, AbsorbIn DEF FF
  <2> QED BY <2>1, <2>2, <2>3, ClientPermutes
<1> HIDE DEF First, Step
<1>5. PICK x \in [0..n - 1 -> FF] :
        /\ x[0] = Permuted(<<inputs[1], 0>>)
        /\ \A i \in 1..n - 1 : x[i] = Permuted(<<(x[i - 1][1] + inputs[i + 1]) % Order, x[i - 1][2]>>)
        /\ Sponged(inputs) = x[n - 1][1]
  BY SpongeRuns
<1> HIDE DEF n
<1> DEFINE z == [i \in 1..n + 1 - 1 |-> x[i - 1]]
<1>6. Is(z)
  <2>1. ASSUME NEW i \in 1..n + 1 - 1 PROVE z[i] = IF i = 1 THEN First ELSE Step(i, z[i - 1])
    <3>1. CASE i = 1
      <4>1. z[i] = x[0] /\ i - 1 = 0 BY <1>1, <3>1
      <4> QED BY <1>3, <1>5, <3>1, <4>1
    <3>2. CASE i # 1
      <4>1. i \in 2..n /\ i - 1 \in 1..n - 1 /\ i - 1 \in 1..n + 1 - 1 /\ (i - 1) + 1 = i
            /\ (i - 1) - 1 \in 0..n - 1
        BY <1>1, <3>2
      <4>2. z[i] = x[i - 1] /\ z[i - 1] = x[(i - 1) - 1] BY <4>1
      <4> HIDE DEF z
      <4>3. z[i - 1] \in FF BY <4>1, <4>2
      <4>4. x[i - 1] = Permuted(<<(z[i - 1][1] + inputs[i]) % Order, z[i - 1][2]>>)
        BY <1>5, <4>1, <4>2
      <4> QED BY <1>4, <3>2, <4>1, <4>2, <4>3, <4>4
    <3> QED BY <3>1, <3>2
  <2>2. z = [i \in 1..n + 1 - 1 |-> z[i]] OBVIOUS
  <2> HIDE DEF z
  <2> QED BY <2>1, <2>2
<1>7. Is(y)
  <2> HIDE DEF Is, z
  <2> QED BY <1>6
<1> HIDE DEF y, z
<1> DEFINE v == [i \in 0..n - 1 |-> y[i + 1]]
<1>8. v[0] = First /\ v[n - 1] = y[n]
  <2>1. 0 \in 0..n - 1 /\ n - 1 \in 0..n - 1 /\ (n - 1) + 1 = n /\ 1 \in 1..n + 1 - 1 BY <1>1
  <2>2. y[1] = First BY <1>7, <2>1
  <2> QED BY <2>1, <2>2
<1>9. ASSUME NEW i \in 1..n - 1, v[i - 1] \in FF
      PROVE  v[i] = Permuted(<<(v[i - 1][1] + inputs[i + 1]) % Order, v[i - 1][2]>>)
  <2>1. i \in 0..n - 1 /\ i - 1 \in 0..n - 1 /\ i + 1 \in 1..n + 1 - 1 /\ i + 1 \in 2..n
        /\ i + 1 # 1 /\ (i + 1) - 1 = i /\ (i - 1) + 1 = i
    BY <1>1
  <2>2. v[i] = y[i + 1] /\ v[i - 1] = y[i] BY <2>1
  <2>3. y[i + 1] = Step(i + 1, y[(i + 1) - 1]) BY <1>7, <2>1
  <2> HIDE DEF v
  <2>4. Step(i + 1, v[i - 1]) = Permuted(<<(v[i - 1][1] + inputs[i + 1]) % Order, v[i - 1][2]>>)
    BY <1>4, <1>9, <2>1
  <2> QED BY <2>1, <2>2, <2>3, <2>4
<1>10. v[n - 1][1] = Sponged(inputs)
  <2> HIDE DEF v
  <2> QED BY <1>3, <1>8, <1>9, SpongedIs DEF n, Absorbs
<1> HIDE DEF v
<1> QED BY <1>2, <1>8, <1>10

LEMMA ContractSponges ==
  ASSUME NEW inputs \in Seq(Field), Len(inputs) > 0
  PROVE  SpongeWith(inputs) = Sponged(inputs)
<1> DEFINE n == Len(inputs)
           Step(i, s) == ContractFeistel(FrAdd(s[1], inputs[i]), s[2])
           First == ContractFeistel(inputs[1], 0)
           Is(f) == f = [i \in 1..n |-> IF i = 1 THEN First ELSE Step(i, f[i - 1])]
           y == CHOOSE y : Is(y)
<1>1. n \in Nat /\ n > 0 /\ inputs[1] \in Field /\ \A i \in 1..n : inputs[i] \in Field OBVIOUS
<1>2. SpongeWith(inputs) = y[n][1] BY DEF SpongeWith
<1>3. First = Permuted(<<inputs[1], 0>>) BY <1>1, InField, ContractPermutes
<1>4. ASSUME NEW i \in 2..n, NEW s \in FF
      PROVE  Step(i, s) = Permuted(<<(s[1] + inputs[i]) % Order, s[2]>>)
  <2>1. inputs[i] \in Field /\ i <= n BY <1>1
  <2>3. (s[1] + inputs[i]) % Order \in Field /\ s[2] \in Field BY <2>1, AbsorbIn DEF FF
  <2> QED BY <2>3, ContractPermutes DEF FrAdd
<1> HIDE DEF First, Step
<1>5. PICK x \in [0..n - 1 -> FF] :
        /\ x[0] = Permuted(<<inputs[1], 0>>)
        /\ \A i \in 1..n - 1 : x[i] = Permuted(<<(x[i - 1][1] + inputs[i + 1]) % Order, x[i - 1][2]>>)
        /\ Sponged(inputs) = x[n - 1][1]
  BY SpongeRuns
<1> HIDE DEF n
<1> DEFINE z == [i \in 1..n |-> x[i - 1]]
<1>6. Is(z)
  <2>1. ASSUME NEW i \in 1..n PROVE z[i] = IF i = 1 THEN First ELSE Step(i, z[i - 1])
    <3>1. CASE i = 1
      <4>1. z[i] = x[0] /\ i - 1 = 0 BY <1>1, <3>1
      <4> QED BY <1>3, <1>5, <3>1, <4>1
    <3>2. CASE i # 1
      <4>1. i \in 2..n /\ i - 1 \in 1..n - 1 /\ i - 1 \in 1..n /\ (i - 1) + 1 = i
            /\ (i - 1) - 1 \in 0..n - 1
        BY <1>1, <3>2
      <4>2. z[i] = x[i - 1] /\ z[i - 1] = x[(i - 1) - 1] BY <4>1
      <4> HIDE DEF z
      <4>3. z[i - 1] \in FF BY <4>1, <4>2
      <4>4. x[i - 1] = Permuted(<<(z[i - 1][1] + inputs[i]) % Order, z[i - 1][2]>>)
        BY <1>5, <4>1, <4>2
      <4> QED BY <1>4, <3>2, <4>1, <4>2, <4>3, <4>4
    <3> QED BY <3>1, <3>2
  <2>2. z = [i \in 1..n |-> z[i]] OBVIOUS
  <2> HIDE DEF z
  <2> QED BY <2>1, <2>2
<1>7. Is(y)
  <2> HIDE DEF Is, z
  <2> QED BY <1>6
<1> HIDE DEF y, z
<1> DEFINE v == [i \in 0..n - 1 |-> y[i + 1]]
<1>8. v[0] = First /\ v[n - 1] = y[n]
  <2>1. 0 \in 0..n - 1 /\ n - 1 \in 0..n - 1 /\ (n - 1) + 1 = n /\ 1 \in 1..n BY <1>1
  <2>2. y[1] = First BY <1>7, <2>1
  <2> QED BY <2>1, <2>2
<1>9. ASSUME NEW i \in 1..n - 1, v[i - 1] \in FF
      PROVE  v[i] = Permuted(<<(v[i - 1][1] + inputs[i + 1]) % Order, v[i - 1][2]>>)
  <2>1. i \in 0..n - 1 /\ i - 1 \in 0..n - 1 /\ i + 1 \in 1..n /\ i + 1 \in 2..n
        /\ i + 1 # 1 /\ (i + 1) - 1 = i /\ (i - 1) + 1 = i
    BY <1>1
  <2>2. v[i] = y[i + 1] /\ v[i - 1] = y[i] BY <2>1
  <2>3. y[i + 1] = Step(i + 1, y[(i + 1) - 1]) BY <1>7, <2>1
  <2> HIDE DEF v
  <2>4. Step(i + 1, v[i - 1]) = Permuted(<<(v[i - 1][1] + inputs[i + 1]) % Order, v[i - 1][2]>>)
    BY <1>4, <1>9, <2>1
  <2> QED BY <2>1, <2>2, <2>3, <2>4
<1>10. v[n - 1][1] = Sponged(inputs)
  <2> HIDE DEF v
  <2> QED BY <1>3, <1>8, <1>9, SpongedIs DEF n, Absorbs
<1> HIDE DEF v
<1> QED BY <1>2, <1>8, <1>10

LEMMA CircuitSponges ==
  ASSUME NEW inputs \in Seq(Field), Len(inputs) > 0
  PROVE  MiMCSponge(inputs, 1, 0)[1] = Sponged(inputs)
<1> DEFINE n == Len(inputs)
           Step(i, s) == MiMCFeistel((s[1] + (IF i < n THEN inputs[i + 1] ELSE 0)) % Order, s[2], 0)
           First == MiMCFeistel(inputs[1], 0, 0)
           Is(f) == f = [i \in 0..n + 1 - 2 |-> IF i = 0 THEN First ELSE Step(i, f[i - 1])]
           y == CHOOSE y : Is(y)
<1>1. /\ n \in Nat /\ n > 0 /\ n + 1 - 2 = n - 1 /\ inputs[1] \in Field
      /\ \A i \in 1..n : inputs[i] \in Field
  OBVIOUS
<1>2. MiMCSponge(inputs, 1, 0)[1] = y[n - 1][1]
  <2>1. MiMCSponge(inputs, 1, 0)
          = [j \in 1..1 |-> IF j = 1 THEN y[n + 1 - 2][1] ELSE y[n + j - 2][1]]
    BY DEF MiMCSponge
  <2> HIDE DEF y, n
  <2> QED BY <1>1, <2>1
<1>3. First = Permuted(<<inputs[1], 0>>) BY <1>1, InField, CircuitPermutes
<1>4. ASSUME NEW i \in 1..n - 1, NEW s \in FF
      PROVE  Step(i, s) = Permuted(<<(s[1] + inputs[i + 1]) % Order, s[2]>>)
  <2>1. i + 1 \in 1..n /\ i < n BY <1>1
  <2>2. inputs[i + 1] \in Field BY <1>1, <2>1
  <2>3. (s[1] + inputs[i + 1]) % Order \in Field /\ s[2] \in Field BY <2>2, AbsorbIn DEF FF
  <2> QED BY <2>1, <2>3, CircuitPermutes
<1> HIDE DEF First, Step
<1>5. PICK x \in [0..n - 1 -> FF] :
        /\ x[0] = Permuted(<<inputs[1], 0>>)
        /\ \A i \in 1..n - 1 : x[i] = Permuted(<<(x[i - 1][1] + inputs[i + 1]) % Order, x[i - 1][2]>>)
        /\ Sponged(inputs) = x[n - 1][1]
  BY SpongeRuns
<1> HIDE DEF n
<1>6. Is(x)
  <2>1. ASSUME NEW i \in 0..n + 1 - 2 PROVE x[i] = IF i = 0 THEN First ELSE Step(i, x[i - 1])
    <3>1. CASE i = 0 BY <1>3, <1>5, <3>1
    <3>2. CASE i # 0
      <4>1. i \in 1..n - 1 /\ i - 1 \in 0..n - 1 BY <1>1, <3>2
      <4> QED BY <1>4, <1>5, <3>2, <4>1
    <3> QED BY <3>1, <3>2
  <2>2. x = [i \in 0..n + 1 - 2 |-> x[i]] BY <1>1, <1>5
  <2> QED BY <2>1, <2>2
<1>7. Is(y)
  <2> HIDE DEF Is
  <2> QED BY <1>6
<1> HIDE DEF y
<1>8. y[0] = First
  <2>1. 0 \in 0..n + 1 - 2 BY <1>1
  <2> QED BY <1>7, <2>1
<1>9. ASSUME NEW i \in 1..n - 1, y[i - 1] \in FF
      PROVE  y[i] = Permuted(<<(y[i - 1][1] + inputs[i + 1]) % Order, y[i - 1][2]>>)
  <2>1. i \in 0..n + 1 - 2 /\ i # 0 BY <1>1
  <2>2. y[i] = Step(i, y[i - 1]) BY <1>7, <2>1
  <2> QED BY <1>4, <1>9, <2>2
<1>10. y[n - 1][1] = Sponged(inputs)
  <2> HIDE DEF Is
  <2> QED BY <1>3, <1>8, <1>9, SpongedIs DEF n, Absorbs
<1> QED BY <1>2, <1>10

\* The hashes of the three programs.
LEMMA HashOne ==
  ASSUME NEW x \in Field
  PROVE  /\ NullifierHash(x) = Sponged(<<x>>) /\ ContractNullifierHash(x) = Sponged(<<x>>)
         /\ MiMCSponge(<<x>>, 1, 0)[1] = Sponged(<<x>>) /\ Sponged(<<x>>) \in Field
<1>1. <<x>> \in Seq(Field) /\ Len(<<x>>) > 0 OBVIOUS
<1> QED BY <1>1, ClientSponges, ContractSponges, CircuitSponges, SpongedIn
        DEF NullifierHash, ContractNullifierHash

LEMMA HashTwo ==
  ASSUME NEW x \in Field, NEW y \in Field
  PROVE  /\ ClientHash2(x, y) = Sponged(<<x, y>>) /\ ContractHash2(x, y) = Sponged(<<x, y>>)
         /\ CircuitHash2(x, y) = Sponged(<<x, y>>) /\ Sponged(<<x, y>>) \in Field
<1>1. <<x, y>> \in Seq(Field) /\ Len(<<x, y>>) > 0 OBVIOUS
<1> QED BY <1>1, ClientSponges, ContractSponges, CircuitSponges, SpongedIn
        DEF ClientHash2, ContractHash2, CircuitHash2

LEMMA HashThree ==
  ASSUME NEW x \in Field, NEW y \in Field, NEW z \in Field
  PROVE  /\ CommitmentHash(x, y, z) = Sponged(<<x, y, z>>) /\ Commitment(x, y, z) = Sponged(<<x, y, z>>)
         /\ CommitmentHasher(x, y, z)
              = [commitment |-> Sponged(<<x, y, z>>), nullifierHash |-> Sponged(<<y>>)]
         /\ Sponged(<<x, y, z>>) \in Field
<1>1. <<x, y, z>> \in Seq(Field) /\ Len(<<x, y, z>>) > 0 OBVIOUS
<1>2. CommitmentHash(x, y, z) = Sponged(<<x, y, z>>) /\ Commitment(x, y, z) = Sponged(<<x, y, z>>)
  BY <1>1, ClientSponges, ContractSponges DEF CommitmentHash, Commitment
<1>3. MiMCSponge(<<x, y, z>>, 1, 0)[1] = Sponged(<<x, y, z>>) BY <1>1, CircuitSponges
<1>4. MiMCSponge(<<y>>, 1, 0)[1] = Sponged(<<y>>) BY HashOne
<1> QED BY <1>1, <1>2, <1>3, <1>4, SpongedIn DEF CommitmentHasher

-----------------------------------------------------------------------------
(* The tree: the same table and the same roots for each of the programs.    *)

Programs == {"client", "contract", "circuit"}

\* A node of any of the programs is the client's.
LEMMA NodesAgree ==
  ASSUME NEW of \in Programs, NEW x \in Field, NEW y \in Field
  PROVE  Node(of, x, y) = Node("client", x, y) /\ Node(of, x, y) \in Field
<1>1. Node("client", x, y) = ClientHash2(x, y) BY DEF Node
<1>2. Node("contract", x, y) = ContractHash2(x, y) BY DEF Node
<1>3. Node("circuit", x, y) = CircuitHash2(x, y) BY DEF Node
<1>4. /\ ClientHash2(x, y) = ContractHash2(x, y) /\ ClientHash2(x, y) = CircuitHash2(x, y)
      /\ ClientHash2(x, y) \in Field
  BY HashTwo
<1> QED BY <1>1, <1>2, <1>3, <1>4 DEF Programs

LEMMA EmptyIsZero == \A of \in Programs : EmptyLeaf(of) = 0 /\ 0 \in Field
BY InField DEF EmptyLeaf, Programs

LEMMA ZerosAgree ==
  ASSUME NEW of \in Programs
  PROVE  \A i \in 0..Depth : Zero(of)[i] = Zero("client")[i] /\ Zero(of)[i] \in Field
<1> DEFINE Bad == {i \in 0..Depth : ~(Zero(of)[i] = Zero("client")[i] /\ Zero(of)[i] \in Field)}
<1>1. "client" \in Programs /\ Depth \in Nat BY DepthAssumption DEF Programs
<1>2. \A p \in Programs : \A i \in 0..Depth :
        Zero(p)[i] = IF i = 0 THEN 0 ELSE Node(p, Zero(p)[i - 1], Zero(p)[i - 1])
  BY ZeroIs, EmptyIsZero
<1>3. 0 \notin Bad BY <1>1, <1>2, EmptyIsZero
<1>4. ASSUME NEW k \in 1..Depth, k - 1 \notin Bad PROVE k \notin Bad
  <2>1. k \in 0..Depth /\ k - 1 \in 0..Depth /\ k # 0 BY <1>1
  <2>2. Zero(of)[k - 1] = Zero("client")[k - 1] /\ Zero(of)[k - 1] \in Field BY <1>4, <2>1
  <2>3. /\ Zero(of)[k] = Node(of, Zero(of)[k - 1], Zero(of)[k - 1])
        /\ Zero("client")[k] = Node("client", Zero("client")[k - 1], Zero("client")[k - 1])
    BY <1>1, <1>2, <2>1
  <2> QED BY <2>2, <2>3, NodesAgree
<1>5. Bad \in SUBSET (0..Depth) OBVIOUS
<1> HIDE DEF Bad
<1>6. Bad = {} BY <1>1, <1>3, <1>4, <1>5, NoCounterexample
<1> QED BY <1>6 DEF Bad

\* The table of a tree of field elements has nothing else.
LEMMA LevelsInField ==
  ASSUME NEW leaves \in Seq(Field)
  PROVE  \A l \in 0..Depth : \A j \in 0..Width(l) - 1 : Levels("client", leaves)[l][j] \in Field
<1> DEFINE Good(l) == \A j \in 0..Width(l) - 1 : Levels("client", leaves)[l][j] \in Field
           Bad == {l \in 0..Depth : ~Good(l)}
<1>1. "client" \in Programs /\ Depth \in Nat BY DepthAssumption DEF Programs
<1>2. Good(0)
  <2> TAKE j \in 0..Width(0) - 1
  <2>1. Levels("client", leaves)[0][j] = IF j < Len(leaves) THEN leaves[j + 1] ELSE EmptyLeaf("client")
    BY <1>1, LevelNodes
  <2>2. j \in Nat
    <3>1. Width(0) \in Nat BY <1>1, WidthHalves
    <3> QED BY <3>1
  <2>3. Len(leaves) \in Nat /\ \A i \in 1..Len(leaves) : leaves[i] \in Field OBVIOUS
  <2>4. j < Len(leaves) => j + 1 \in 1..Len(leaves) BY <2>2, <2>3
  <2> QED BY <1>1, <2>1, <2>3, <2>4, EmptyIsZero
<1>3. ASSUME NEW k \in 1..Depth, Good(k - 1) PROVE Good(k)
  <2> TAKE j \in 0..Width(k) - 1
  <2>1. k \in 0..Depth /\ k - 1 \in 0..Depth /\ k # 0 BY <1>1
  <2>2. 2 * j \in 0..Width(k - 1) - 1 /\ 2 * j + 1 \in 0..Width(k - 1) - 1
    <3>1. Width(k - 1) = 2 * Width(k) /\ Width(k) \in Nat BY <1>1, <2>1, WidthHalves
    <3> DEFINE w == Width(k)
               v == Width(k - 1)
    <3> HIDE DEF w, v
    <3>2. v = 2 * w /\ w \in Nat /\ j \in 0..w - 1 BY <3>1 DEF v, w
    <3>3. 2 * j \in 0..v - 1 /\ 2 * j + 1 \in 0..v - 1 BY <3>2
    <3> QED BY <3>3 DEF v
  <2>3. Levels("client", leaves)[k][j]
          = Node("client", Levels("client", leaves)[k - 1][2 * j], Levels("client", leaves)[k - 1][2 * j + 1])
    BY <2>1, LevelNodes
  <2>4. Levels("client", leaves)[k - 1][2 * j] \in Field /\ Levels("client", leaves)[k - 1][2 * j + 1] \in Field
    BY <1>3, <2>2
  <2> QED BY <1>1, <2>3, <2>4, NodesAgree
<1> HIDE DEF Good
<1>4. Bad \in SUBSET (0..Depth) /\ 0 \notin Bad BY <1>2
<1>5. \A k \in 1..Depth : k \in Bad => k - 1 \in Bad
  <2> TAKE k \in 1..Depth
  <2>1. k - 1 \in 0..Depth BY <1>1
  <2> QED BY <1>3, <2>1
<1> HIDE DEF Bad
<1>6. Bad = {} BY <1>1, <1>4, <1>5, NoCounterexample
<1> QED BY <1>6 DEF Bad, Good

\* The contract climbs as the client would.
LEMMA ClimbsAgree ==
  ASSUME NEW lefts \in [0..Depth - 1 -> Field], NEW index \in Nat, NEW leaf \in Field
  PROVE  /\ \A l \in 0..Depth : /\ Climb("contract", lefts, index, leaf)[l] = Climb("client", lefts, index, leaf)[l]
                                /\ Climb("contract", lefts, index, leaf)[l] \in Field
         /\ FilledAfter("contract", lefts, index, leaf) = FilledAfter("client", lefts, index, leaf)
         /\ FilledAfter("contract", lefts, index, leaf) \in [0..Depth - 1 -> Field]
<1> DEFINE a == Climb("contract", lefts, index, leaf)
           b == Climb("client", lefts, index, leaf)
           Bad == {l \in 0..Depth : ~(a[l] = b[l] /\ a[l] \in Field)}
<1>1. "client" \in Programs /\ "contract" \in Programs /\ Depth \in Nat
  BY DepthAssumption DEF Programs
<1>2. /\ \A i \in 0..Depth : a[i] = IF i = 0 THEN leaf ELSE Joined("contract", lefts, index, i - 1, a[i - 1])
      /\ \A i \in 0..Depth : b[i] = IF i = 0 THEN leaf ELSE Joined("client", lefts, index, i - 1, b[i - 1])
  BY ClimbIs
<1> HIDE DEF a, b
<1>3. 0 \notin Bad BY <1>1, <1>2
<1>4. ASSUME NEW k \in 1..Depth, k - 1 \notin Bad PROVE k \notin Bad
  <2>1. k \in 0..Depth /\ k - 1 \in 0..Depth /\ k - 1 \in 0..Depth - 1 /\ k # 0 BY <1>1
  <2>2. a[k - 1] = b[k - 1] /\ a[k - 1] \in Field BY <1>4, <2>1
  <2>3. lefts[k - 1] \in Field BY <2>1
  <2>4. Zero("contract")[k - 1] = Zero("client")[k - 1] /\ Zero("client")[k - 1] \in Field
    BY <1>1, <2>1, ZerosAgree
  <2>5. /\ a[k] = Joined("contract", lefts, index, k - 1, a[k - 1])
        /\ b[k] = Joined("client", lefts, index, k - 1, b[k - 1])
    BY <1>2, <2>1
  <2>6. CASE IsRight(index, k - 1)
    <3>1. a[k] = Node("contract", lefts[k - 1], a[k - 1]) /\ b[k] = Node("client", lefts[k - 1], b[k - 1])
      BY <2>5, <2>6 DEF Joined
    <3> QED BY <1>1, <2>2, <2>3, <3>1, NodesAgree
  <2>7. CASE ~IsRight(index, k - 1)
    <3>1. /\ a[k] = Node("contract", a[k - 1], Zero("contract")[k - 1])
          /\ b[k] = Node("client", b[k - 1], Zero("client")[k - 1])
      BY <2>5, <2>7 DEF Joined
    <3> QED BY <1>1, <2>2, <2>4, <3>1, NodesAgree
  <2> QED BY <2>6, <2>7
<1>5. Bad \in SUBSET (0..Depth) OBVIOUS
<1> HIDE DEF Bad
<1>6. Bad = {} BY <1>1, <1>3, <1>4, <1>5, NoCounterexample
<1>7. \A l \in 0..Depth : a[l] = b[l] /\ a[l] \in Field BY <1>6 DEF Bad
<1>8. \A i \in 0..Depth - 1 : i \in 0..Depth BY <1>1
<1>9. /\ FilledAfter("contract", lefts, index, leaf)
           = [i \in 0..Depth - 1 |-> IF IsRight(index, i) THEN lefts[i] ELSE a[i]]
      /\ FilledAfter("client", lefts, index, leaf)
           = [i \in 0..Depth - 1 |-> IF IsRight(index, i) THEN lefts[i] ELSE b[i]]
  BY DEF FilledAfter, a, b
<1> QED BY <1>7, <1>8, <1>9 DEF a, b

-----------------------------------------------------------------------------
(* The deposits of the contract.                                             *)

\* The left nodes it remembers before each deposit.
FilledBy(leaves, before) ==
  /\ before[1] = [i \in 0..Depth - 1 |-> 0]
  /\ \A k \in 2..Len(leaves) : before[k] = FilledAfter("contract", before[k - 1], k - 2, leaves[k - 1])

LEMMA FilledByExists ==
  ASSUME NEW leaves \in Seq(Field), Len(leaves) > 0
  PROVE  \E before : before \in [1..Len(leaves) -> [0..Depth - 1 -> Field]] /\ FilledBy(leaves, before)
<1> DEFINE S == [0..Depth - 1 -> Field]
           start == [i \in 0..Depth - 1 |-> 0]
<1>1. PICK n \in Nat : n + 1 = Len(leaves) OBVIOUS
<1> DEFINE step == [p \in (1..n) \X S |-> FilledAfter("contract", p[2], p[1] - 1, leaves[p[1]])]
<1>2. start \in S BY InField
<1>3. step \in [(1..n) \X S -> S]
  <2> SUFFICES ASSUME NEW p \in (1..n) \X S
               PROVE  FilledAfter("contract", p[2], p[1] - 1, leaves[p[1]]) \in S
    OBVIOUS
  <2>1. p[1] \in 1..n /\ p[2] \in S OBVIOUS
  <2>2. p[1] \in 1..Len(leaves) /\ p[1] - 1 \in Nat BY <1>1, <2>1
  <2>3. leaves[p[1]] \in Field BY <2>2
  <2> QED BY <2>1, <2>2, <2>3, ClimbsAgree
<1>4. \E x : Runs(x, n, S, start, step)
  <2> HIDE DEF S, start, step
  <2> QED BY <1>1, <1>2, <1>3, RunsExist
<1>5. PICK x : Runs(x, n, S, start, step) BY <1>4
<1>6. /\ x \in [0..n -> S] /\ x[0] = start
      /\ \A i \in 1..n : x[i] = step[<<i, x[i - 1]>>]
  BY <1>5 DEF Runs
<1>7. ASSUME NEW i \in 1..n PROVE x[i] = FilledAfter("contract", x[i - 1], i - 1, leaves[i])
  <2>1. i - 1 \in 0..n BY <1>1
  <2>2. x[i - 1] \in S BY <1>6, <2>1
  <2> QED BY <1>6, <2>2
<1> HIDE DEF S, step
<1> DEFINE before == [k \in 1..Len(leaves) |-> x[k - 1]]
<1>8. before \in [1..Len(leaves) -> S] BY <1>1, <1>6
<1>9. before[1] = start
  <2>1. 1 \in 1..Len(leaves) /\ 1 - 1 = 0 BY <1>1
  <2>2. before[1] = x[0] BY <2>1
  <2> HIDE DEF before
  <2> QED BY <1>6, <2>2
<1>10. ASSUME NEW k \in 2..Len(leaves)
       PROVE  before[k] = FilledAfter("contract", before[k - 1], k - 2, leaves[k - 1])
  <2>1. k - 1 \in 1..n /\ k \in 1..Len(leaves) /\ k - 1 \in 1..Len(leaves) /\ (k - 1) - 1 = k - 2
    BY <1>1
  <2>2. before[k] = x[k - 1] /\ before[k - 1] = x[k - 2] BY <2>1
  <2> HIDE DEF before
  <2> QED BY <1>7, <2>1, <2>2
<1> HIDE DEF before
<1> QED BY <1>8, <1>9, <1>10 DEF FilledBy, S

LEMMA NothingFilled == ASSUME NEW lefts PROVE FilledOK("client", lefts, << >>)
<1>1. Len(<< >>) = 0 OBVIOUS
<1>2. ASSUME NEW i \in 0..Depth - 1 PROVE ~IsRight(0, i)
  <2> DEFINE d == 2^i
  <2>1. i \in Nat BY DepthAssumption
  <2>2. d \in Nat \ {0} BY <2>1, PowerIsSize
  <2> HIDE DEF d
  <2>3. 0 \div d = 0 /\ 0 % 2 = 0 BY <2>2
  <2>4. (0 \div d) % 2 = 0 BY <2>3
  <2> QED BY <2>4 DEF IsRight, d
<1> QED BY <1>1, <1>2 DEF FilledOK

LEMMA OneMore ==
  ASSUME NEW S, NEW leaves \in Seq(S), NEW k \in 1..Len(leaves)
  PROVE  /\ SubSeq(leaves, 1, k - 1) \in Seq(S) /\ Len(SubSeq(leaves, 1, k - 1)) = k - 1
         /\ Append(SubSeq(leaves, 1, k - 1), leaves[k]) = SubSeq(leaves, 1, k)
<1> DEFINE a == SubSeq(leaves, 1, k - 1)
           b == SubSeq(leaves, 1, k)
           c == Append(a, leaves[k])
<1>1. Len(leaves) \in Nat /\ k - 1 \in Nat /\ k \in Nat /\ leaves[k] \in S OBVIOUS
<1>2. /\ a \in Seq(S) /\ Len(a) = k - 1 /\ \A i \in 1..k - 1 : a[i] = leaves[i]
  BY <1>1, SubSeqProperties
<1>3. /\ b \in Seq(S) /\ Len(b) = k /\ \A i \in 1..k : b[i] = leaves[i]
  BY <1>1, SubSeqProperties
<1> HIDE DEF a, b
<1>4. /\ c \in Seq(S) /\ Len(c) = k /\ \A i \in 1..k - 1 : c[i] = a[i]
      /\ c[k] = leaves[k]
  BY <1>1, <1>2
<1> HIDE DEF c
<1>5. \A i \in 1..k : c[i] = b[i]
  <2> TAKE i \in 1..k
  <2>1. i = k \/ i \in 1..k - 1 BY <1>1
  <2> QED BY <1>2, <1>3, <1>4, <2>1
<1>6. c = b BY <1>3, <1>4, <1>5, SeqEqual
<1> QED BY <1>2, <1>6 DEF a, b, c

\* What the contract remembers are nodes of the client's table.
LEMMA FilledIsTable ==
  ASSUME NEW leaves \in Seq(Field), Len(leaves) > 0, Len(leaves) <= Capacity,
         NEW before, before \in [1..Len(leaves) -> [0..Depth - 1 -> Field]], FilledBy(leaves, before)
  PROVE  \A k \in 1..Len(leaves) : FilledOK("client", before[k], SubSeq(leaves, 1, k - 1))
<1>1. PICK n \in Nat : n + 1 = Len(leaves) OBVIOUS
<1> DEFINE Good(k) == FilledOK("client", before[k + 1], SubSeq(leaves, 1, k))
           Bad == {k \in 0..n : ~Good(k)}
<1>2. Capacity \in Nat BY DepthAssumption
<1>3. Good(0)
  <2>1. SubSeq(leaves, 1, 0) = << >> OBVIOUS
  <2> QED BY <2>1, NothingFilled
<1>4. ASSUME NEW k \in 1..n, Good(k - 1) PROVE Good(k)
  <2>1. /\ k \in 1..Len(leaves) /\ k + 1 \in 2..Len(leaves) /\ (k + 1) - 1 = k /\ (k + 1) - 2 = k - 1
        /\ (k - 1) + 1 = k /\ k - 1 \in Nat /\ k - 1 < Capacity
    BY <1>1, <1>2
  <2> DEFINE s == SubSeq(leaves, 1, k - 1)
             f == before[k]
  <2>2. before[k + 1] = FilledAfter("contract", f, k - 1, leaves[k]) BY <2>1 DEF FilledBy
  <2>3. s \in Seq(Field) /\ Len(s) = k - 1 /\ Append(s, leaves[k]) = SubSeq(leaves, 1, k)
    BY <2>1, OneMore
  <2>4. f \in [0..Depth - 1 -> Field] /\ leaves[k] \in Field BY <2>1
  <2>5. FilledOK("client", f, s) BY <1>4, <2>1
  <2> HIDE DEF f, s
  <2>6. FilledAfter("contract", f, k - 1, leaves[k]) = FilledAfter("client", f, k - 1, leaves[k])
    BY <2>1, <2>4, ClimbsAgree
  <2>7. FilledOK("client", FilledAfter("client", f, Len(s), leaves[k]), Append(s, leaves[k]))
    BY <2>1, <2>3, <2>4, <2>5, FilledAfterOK
  <2> QED BY <2>2, <2>3, <2>6, <2>7
<1> HIDE DEF Good
<1>5. Bad \in SUBSET (0..n) /\ 0 \notin Bad BY <1>3
<1>6. \A k \in 1..n : k \in Bad => k - 1 \in Bad
  <2> TAKE k \in 1..n
  <2>1. k - 1 \in 0..n BY <1>1
  <2> QED BY <1>4, <2>1
<1> HIDE DEF Bad
<1>7. Bad = {} BY <1>5, <1>6, NoCounterexample
<1>8. \A k \in 1..Len(leaves) : k - 1 \in 0..n /\ (k - 1) + 1 = k BY <1>1
<1>9. \A k \in 0..n : Good(k) BY <1>7 DEF Bad
<1> QED BY <1>8, <1>9 DEF Good

\* The root that the contract climbs to is the client's.
LEMMA ContractRoot ==
  ASSUME NEW leaves \in Seq(Field), Len(leaves) > 0, Len(leaves) <= Capacity,
         NEW before, before \in [1..Len(leaves) -> [0..Depth - 1 -> Field]], FilledBy(leaves, before)
  PROVE  Climb("contract", before[Len(leaves)], Len(leaves) - 1, leaves[Len(leaves)])[Depth]
           = RootOf("client", leaves)
<1>1. PICK n \in Nat : n = Len(leaves) OBVIOUS
<1> DEFINE s == SubSeq(leaves, 1, n - 1)
           f == before[n]
<1>2. Capacity \in Nat /\ Depth \in 0..Depth BY DepthAssumption
<1>3. n \in 1..Len(leaves) /\ n > 0 /\ n - 1 \in Nat /\ n - 1 < Capacity BY <1>1, <1>2
<1>4. s \in Seq(Field) /\ Len(s) = n - 1 /\ Append(s, leaves[n]) = SubSeq(leaves, 1, n)
  BY <1>3, OneMore
<1>5. SubSeq(leaves, 1, n) = leaves BY <1>1, SubSeqFull
<1>6. f \in [0..Depth - 1 -> Field] /\ leaves[n] \in Field BY <1>3
<1>7. FilledOK("client", f, s) BY <1>3, FilledIsTable
<1> HIDE DEF f, s
<1>8. Climb("client", f, Len(s), leaves[n])[Depth] = RootOf("client", Append(s, leaves[n]))
  <2>1. Len(s) < Capacity BY <1>3, <1>4
  <2>2. leaves[n] \in Field BY <1>6
  <2>3. s \in Seq(Field) BY <1>4
  <2> QED BY <1>7, <2>1, <2>2, <2>3, ClimbsToRoot
<1>9. Climb("contract", f, n - 1, leaves[n])[Depth] = Climb("client", f, n - 1, leaves[n])[Depth]
  BY <1>2, <1>3, <1>6, ClimbsAgree
<1> QED BY <1>1, <1>4, <1>5, <1>8, <1>9 DEF f

-----------------------------------------------------------------------------
(* The path of the client, in the circuit.                                   *)

\* The siblings on the path of a leaf are nodes of the table.
LEMMA PathInField ==
  ASSUME NEW leaves \in Seq(Field), NEW m \in Nat, m < Capacity
  PROVE  \A l \in 0..Depth - 1 : PathOf("client", leaves, m)[l] \in Field
<1> TAKE l \in 0..Depth - 1
<1> DEFINE q == m \div 2^l
           h == m \div 2^(l + 1)
           p == IF IsRight(m, l) THEN q - 1 ELSE q + 1
<1>1. l \in 0..Depth /\ l \in Nat /\ l + 1 \in 1..Depth /\ (l + 1) - 1 = l /\ l + 1 \in 0..Depth
  BY DepthAssumption
<1>2. h \in 0..Width(l + 1) - 1 /\ h \in Nat BY <1>1, PathIn, NodeAbove
<1>3. /\ 2 * h \in 0..Width(l) - 1 /\ 2 * h + 1 \in 0..Width(l) - 1
      /\ q \in {2 * h, 2 * h + 1}
      /\ IsRight(m, l) <=> q = 2 * h + 1
  BY <1>1, <1>2, Children
<1>4. PathOf("client", leaves, m)[l] = Levels("client", leaves)[l][p] BY DEF PathOf
<1> HIDE DEF q, h
<1>5. p \in {2 * h, 2 * h + 1} BY <1>2, <1>3
<1> HIDE DEF p
<1>6. p \in 0..Width(l) - 1 BY <1>3, <1>5
<1> QED BY <1>1, <1>4, <1>6, LevelsInField

\* What the circuit and its checker compute of a leaf and its path, as the client would.
FieldPath(x, leaf, index, path) ==
  /\ x \in [0..Depth -> Field] /\ x[0] = leaf
  /\ \A i \in 1..Depth :
       x[i] = IF IsRight(index, i - 1) THEN Node("client", path[i - 1], x[i - 1])
              ELSE Node("client", x[i - 1], path[i - 1])

LEMMA FieldPathExists ==
  ASSUME NEW leaf \in Field, NEW index, NEW path, \A l \in 0..Depth - 1 : path[l] \in Field
  PROVE  \E x : FieldPath(x, leaf, index, path)
<1> DEFINE Step(i, v) == IF IsRight(index, i - 1) THEN Node("client", path[i - 1], v)
                         ELSE Node("client", v, path[i - 1])
           step == [p \in (1..Depth) \X Field |-> Step(p[1], p[2])]
<1>1. Depth \in Nat /\ "client" \in Programs BY DepthAssumption DEF Programs
<1>2. ASSUME NEW i \in 1..Depth, NEW v \in Field PROVE Step(i, v) \in Field
  <2>1. i - 1 \in 0..Depth - 1 BY <1>1
  <2>2. path[i - 1] \in Field BY <2>1
  <2> QED BY <1>1, <2>2, NodesAgree
<1> HIDE DEF Step
<1>3. step \in [(1..Depth) \X Field -> Field]
  <2>1. \A p \in (1..Depth) \X Field : Step(p[1], p[2]) \in Field BY <1>2
  <2> QED BY <2>1
<1>4. \E x : Runs(x, Depth, Field, leaf, step)
  <2> HIDE DEF step
  <2> QED BY <1>1, <1>3, RunsExist
<1>5. PICK x : Runs(x, Depth, Field, leaf, step) BY <1>4
<1>6. x \in [0..Depth -> Field] /\ x[0] = leaf /\ \A i \in 1..Depth : x[i] = step[<<i, x[i - 1]>>]
  BY <1>5 DEF Runs
<1>7. ASSUME NEW i \in 1..Depth PROVE x[i] = Step(i, x[i - 1])
  <2>1. i - 1 \in 0..Depth BY <1>1
  <2>2. x[i - 1] \in Field BY <1>6, <2>1
  <2> QED BY <1>6, <2>2
<1> QED BY <1>6, <1>7 DEF FieldPath, Step

LEMMA RootFromFieldPath ==
  ASSUME NEW of \in Programs, NEW leaf \in Field, NEW index, NEW path,
         \A l \in 0..Depth - 1 : path[l] \in Field, NEW x, FieldPath(x, leaf, index, path)
  PROVE  RootFromPath(of, leaf, index, path) = x[Depth]
<1>1. Depth \in Nat /\ Depth \in 0..Depth /\ "client" \in Programs BY DepthAssumption DEF Programs
<1>2. PathFor(of, x, leaf, index, path)
  <2> DEFINE Stage(i) == IF i = 0 THEN leaf
                         ELSE IF IsRight(index, i - 1) THEN Node(of, path[i - 1], x[i - 1])
                         ELSE Node(of, x[i - 1], path[i - 1])
  <2>1. ASSUME NEW i \in 0..Depth PROVE x[i] = Stage(i)
    <3>1. CASE i = 0 BY <3>1 DEF FieldPath
    <3>2. CASE i # 0
      <4>1. i \in 1..Depth /\ i - 1 \in 0..Depth - 1 /\ i - 1 \in 0..Depth BY <1>1, <3>2
      <4>2. path[i - 1] \in Field /\ x[i - 1] \in Field BY <4>1 DEF FieldPath
      <4>3. /\ Node(of, path[i - 1], x[i - 1]) = Node("client", path[i - 1], x[i - 1])
            /\ Node(of, x[i - 1], path[i - 1]) = Node("client", x[i - 1], path[i - 1])
        BY <4>2, NodesAgree
      <4> QED BY <3>2, <4>1, <4>3 DEF FieldPath
    <3> QED BY <3>1, <3>2
  <2>2. x = [i \in 0..Depth |-> x[i]] BY DEF FieldPath
  <2> HIDE DEF Stage
  <2>3. x = [i \in 0..Depth |-> Stage(i)] BY <2>1, <2>2
  <2> QED BY <2>3 DEF PathFor, Stage
<1> DEFINE node == CHOOSE node : PathFor(of, node, leaf, index, path)
<1>3. PathFor(of, node, leaf, index, path) BY <1>2
<1>4. RootFromPath(of, leaf, index, path) = node[Depth] BY DEF RootFromPath, PathFor
<1> HIDE DEF node
<1>5. node[Depth] = x[Depth] BY <1>2, <1>3, PathIsOne
<1> QED BY <1>4, <1>5

\* The path of a leaf leads the circuit to the client's root.
LEMMA CircuitRoot ==
  ASSUME NEW leaves \in Seq(Field), Len(leaves) <= Capacity, NEW k \in 1..Len(leaves)
  PROVE  RootFromPath("circuit", leaves[k], k - 1, PathOf("client", leaves, k - 1)) = RootOf("client", leaves)
<1> DEFINE path == PathOf("client", leaves, k - 1)
<1>1. /\ Capacity \in Nat /\ Len(leaves) \in 0..Capacity /\ k - 1 \in Nat /\ k - 1 < Capacity
      /\ leaves[k] \in Field /\ "client" \in Programs /\ "circuit" \in Programs
  BY DepthAssumption DEF Programs
<1>2. \A l \in 0..Depth - 1 : path[l] \in Field BY <1>1, PathInField
<1>3. RootFromPath("client", leaves[k], k - 1, path) = RootOf("client", leaves)
  BY <1>1, PathsLeadToTheRoot
<1> HIDE DEF path
<1>4. PICK x : FieldPath(x, leaves[k], k - 1, path) BY <1>1, <1>2, FieldPathExists
<1>5. /\ RootFromPath("client", leaves[k], k - 1, path) = x[Depth]
      /\ RootFromPath("circuit", leaves[k], k - 1, path) = x[Depth]
  BY <1>1, <1>2, <1>4, RootFromFieldPath
<1> QED BY <1>3, <1>5 DEF path

\* tree.ts:7, withdraw.circom: for every depth and every sequence of leaves of the field, the root
\* the contract climbs to after the last deposit is the client's, and so is the root that the
\* circuit computes from the client's path of each leaf.
THEOREM TreesDoAgree ==
  ASSUME NEW leaves \in Seq(Field), Len(leaves) > 0, Len(leaves) <= Capacity
  PROVE  TreeAgrees(leaves)
<1> DEFINE last == Len(leaves)
           filled0 == [i \in 0..Depth - 1 |-> 0]
           Is(b) == b = [k \in 1..last |->
                      IF k = 1 THEN filled0 ELSE FilledAfter("contract", b[k - 1], k - 2, leaves[k - 1])]
           before == CHOOSE b : Is(b)
           root == RootOf("client", leaves)
<1>1. last \in Nat /\ last > 0 OBVIOUS
<1>2. TreeAgrees(leaves)
        <=> /\ Climb("contract", before[last], last - 1, leaves[last])[Depth] = root
            /\ \A k \in 1..last :
                 RootFromPath("circuit", leaves[k], k - 1, PathOf("client", leaves, k - 1)) = root
  BY DEF TreeAgrees
<1>3. PICK b : b \in [1..Len(leaves) -> [0..Depth - 1 -> Field]] /\ FilledBy(leaves, b)
  BY FilledByExists
<1> HIDE DEF last
<1>4. Is(b)
  <2>1. ASSUME NEW k \in 1..last
        PROVE  b[k] = IF k = 1 THEN filled0 ELSE FilledAfter("contract", b[k - 1], k - 2, leaves[k - 1])
    <3>1. k # 1 => k \in 2..last BY <1>1
    <3> QED BY <1>3, <3>1 DEF FilledBy, last
  <2>2. b = [k \in 1..last |-> b[k]] BY <1>3 DEF last
  <2> QED BY <2>1, <2>2
<1>5. Is(before)
  <2> HIDE DEF Is
  <2> QED BY <1>4
<1> HIDE DEF before
<1>6. ASSUME NEW k \in 1..last PROVE before[k] = b[k]
  <2> DEFINE Bad == {i \in 0..last : i > 0 /\ before[i] # b[i]}
  <2>1. 0 \notin Bad /\ Bad \in SUBSET (0..last) OBVIOUS
  <2>2. ASSUME NEW i \in 1..last, i - 1 \notin Bad PROVE i \notin Bad
    <3>1. CASE i = 1
      <4>1. before[i] = filled0 /\ b[i] = filled0 BY <1>4, <1>5, <3>1
      <4> QED BY <4>1
    <3>2. CASE i # 1
      <4>1. i - 1 \in 0..last /\ i - 1 > 0 BY <1>1, <3>2
      <4>2. before[i - 1] = b[i - 1] BY <2>2, <4>1
      <4>3. /\ before[i] = FilledAfter("contract", before[i - 1], i - 2, leaves[i - 1])
            /\ b[i] = FilledAfter("contract", b[i - 1], i - 2, leaves[i - 1])
        BY <1>4, <1>5, <3>2
      <4> QED BY <4>2, <4>3
    <3> QED BY <3>1, <3>2
  <2> HIDE DEF Bad
  <2>3. Bad = {} BY <1>1, <2>1, <2>2, NoCounterexample
  <2>4. k \in 0..last /\ k > 0 BY <1>1
  <2> QED BY <2>3, <2>4 DEF Bad
<1>7. before[last] = b[last] BY <1>1, <1>6
<1>8. Climb("contract", b[last], last - 1, leaves[last])[Depth] = root
  BY <1>3, ContractRoot DEF last
<1>9. \A k \in 1..last :
        RootFromPath("circuit", leaves[k], k - 1, PathOf("client", leaves, k - 1)) = root
  BY CircuitRoot DEF last
<1> QED BY <1>2, <1>7, <1>8, <1>9

\* mimc.ts:6: for every field, number of rounds and round constants, the client, the contract and
\* the circuit agree on the hash of a nullifier, of a node and of a note.
THEOREM HashesDoAgree == HashesAgree
<1> SUFFICES ASSUME NEW x \in Field, NEW y \in Field, NEW z \in Field
    PROVE  /\ NullifierHash(x) = ContractNullifierHash(x)
           /\ ClientHash2(x, y) = ContractHash2(x, y) /\ ClientHash2(x, y) = CircuitHash2(x, y)
           /\ CommitmentHash(x, y, z) = Commitment(x, y, z)
           /\ CommitmentHasher(x, y, z) = [commitment |-> CommitmentHash(x, y, z),
                                           nullifierHash |-> NullifierHash(y)]
  BY DEF HashesAgree
<1>1. NullifierHash(x) = ContractNullifierHash(x) /\ NullifierHash(y) = Sponged(<<y>>) BY HashOne
<1>2. ClientHash2(x, y) = ContractHash2(x, y) /\ ClientHash2(x, y) = CircuitHash2(x, y)
  <2>1. /\ ClientHash2(x, y) = Sponged(<<x, y>>) /\ ContractHash2(x, y) = Sponged(<<x, y>>)
        /\ CircuitHash2(x, y) = Sponged(<<x, y>>)
    BY HashTwo
  <2> QED BY <2>1
<1>3. /\ CommitmentHash(x, y, z) = Sponged(<<x, y, z>>) /\ Commitment(x, y, z) = Sponged(<<x, y, z>>)
      /\ CommitmentHasher(x, y, z)
           = [commitment |-> Sponged(<<x, y, z>>), nullifierHash |-> Sponged(<<y>>)]
  BY HashThree
<1> QED BY <1>1, <1>2, <1>3

\* The trees that the run enumerates are some of those.
THEOREM TreesAlwaysAgree == TreesAgree
<1> SUFFICES ASSUME NEW k \in 1..Capacity, NEW leaves \in [1..k -> {0, 1, Order - 1}]
             PROVE  TreeAgrees(leaves)
  BY DEF TreesAgree
<1>1. Capacity \in Nat /\ k \in Nat /\ k > 0 /\ k <= Capacity BY DepthAssumption
<1>2. {0, 1, Order - 1} \subseteq Field BY MiMCAssumption DEF Field
<1>3. leaves \in Seq(Field) /\ Len(leaves) = k BY <1>1, <1>2
<1> QED BY <1>1, <1>3, TreesDoAgree

-----------------------------------------------------------------------------
(* Numbers that are one in the field.                                        *)

\* A multiple of the order more or less changes no remainder, also of a negative number.
LEMMA Congruent ==
  ASSUME NEW x \in Int, NEW k \in Int
  PROVE  (x + Order * k) % Order = x % Order
<1> DEFINE d == Order
           q == x \div d
           r == x % d
           y == x + d * k
           p == y \div d
           s == y % d
<1>1. d \in Nat \ {0} BY InField
<1> HIDE DEF d
<1>2. q \in Int /\ r \in 0..d - 1 /\ x = d * q + r BY <1>1, IntDivision
<1>3. y \in Int BY <1>1
<1> HIDE DEF y
<1>4. p \in Int /\ s \in 0..d - 1 /\ y = d * p + s BY <1>1, <1>3, IntDivision
<1> HIDE DEF q, r, p, s
<1>5. d * (q + k) = d * q + d * k /\ d * q \in Int /\ d * k \in Int /\ d * p \in Int
  BY <1>1, <1>2, <1>4
<1> DEFINE u == d * q
           v == d * k
           w == d * (q + k)
           z == d * p
<1>6. w = u + v /\ u \in Int /\ v \in Int /\ z \in Int BY <1>5
<1>7. y = x + v /\ x = u + r /\ y = z + s BY <1>2, <1>4 DEF y
<1> HIDE DEF u, v, w, z
<1>8. w + r = z + s BY <1>1, <1>2, <1>4, <1>6, <1>7
<1>9. r = s
  <2>1. q + k \in Int BY <1>2
  <2>2. d * (q + k) + r = d * p + s BY <1>8 DEF w, z
  <2> HIDE DEF d
  <2> QED BY <1>1, <1>2, <1>4, <2>1, <2>2, OneDivision
<1> QED BY <1>9 DEF r, s, y, d

\* A number is its remainder and a multiple of the order.
LEMMA Parts ==
  ASSUME NEW x \in Int
  PROVE  x % Order \in Field /\ x % Order \in Int /\ \E k \in Int : x % Order = x + Order * k
<1>1. Order \in Nat \ {0} BY InField
<1>0. x \div Order \in Int /\ x % Order \in 0..Order - 1 /\ x = Order * (x \div Order) + (x % Order)
  BY <1>1, IntDivision, Zenon
<1>2. PICK q, r : q \in Int /\ r \in 0..Order - 1 /\ r = x % Order /\ x = Order * q + r
  BY <1>0, Zenon
<1>3. Order * (-q) = -(Order * q) /\ Order * q \in Int /\ -q \in Int BY <1>1, <1>2
<1>4. PICK u : u \in Int /\ u = Order * q BY <1>3
<1>5. r \in Int /\ r = x - u BY <1>1, <1>2, <1>4
<1>6. PICK v : v \in Int /\ v = Order * (-q) BY <1>3, <1>4
<1>7. v = -u BY <1>3, <1>4, <1>6
<1>8. r = x + v BY <1>4, <1>5, <1>6, <1>7
<1>9. \E k \in Int : r = x + Order * k BY <1>3, <1>6, <1>8
<1> QED BY <1>2, <1>5, <1>9 DEF Field

LEMMA Vanishes ==
  ASSUME NEW x \in Int
  PROVE  x % Order = 0 <=> \E k \in Int : x = Order * k
<1>1. Order \in Nat \ {0} /\ 0 % Order = 0 BY InField
<1>2. ASSUME NEW k \in Int, x = Order * k PROVE x % Order = 0
  <2>1. (0 + Order * k) % Order = 0 % Order BY Congruent
  <2>2. 0 + Order * k = x BY <1>1, <1>2
  <2> QED BY <1>1, <2>1, <2>2
<1>3. ASSUME x % Order = 0 PROVE \E k \in Int : x = Order * k
  <2>1. x \div Order \in Int /\ x = Order * (x \div Order) + (x % Order) BY <1>1, IntDivision
  <2> DEFINE q == x \div Order
             z == Order * q
             r == x % Order
  <2>2. q \in Int /\ z \in Int /\ r = 0 /\ x = z + r BY <1>1, <1>3, <2>1
  <2>3. z = Order * q OBVIOUS
  <2> HIDE DEF q, z, r
  <2>4. x = z BY <2>2
  <2> QED BY <2>2, <2>3, <2>4
<1> QED BY <1>2, <1>3

\* The small numbers of a verification key divide 0 of the field only as 0 does.
Unit(u) == \A d \in Int : (u * d) % Order = 0 => d % Order = 0

\* Divisors of none but the multiples of the order.
LEMMA UnitOf ==
  ASSUME NEW p \in {2, 3, 5} PROVE Unit(p)
<1> SUFFICES ASSUME NEW d \in Int, (p * d) % Order = 0 PROVE d % Order = 0 BY DEF Unit
<1>1. Order \in Nat \ {0} /\ p \in Int /\ Order % p # 0 /\ p * d \in Int BY InField, NotesAssumption
<1> DEFINE r == d % Order
<1>2. r \in 0..Order - 1 /\ r \in Int BY Parts, InField DEF Field
<1>3. PICK k \in Int : r = d + Order * k BY Parts
<1>4. PICK j \in Int : p * d = Order * j BY <1>1, Vanishes
<1> HIDE DEF r
<1>5. p * r = Order * (j + p * k)
  <2>1. p * r = p * d + p * (Order * k) BY <1>1, <1>2, <1>3
  <2>2. Order * (j + p * k) = Order * j + p * (Order * k) BY <1>1
  <2> QED BY <1>4, <2>1, <2>2
<1>6. PICK i \in Int : i = j + p * k BY <1>1
<1>7. p * r = Order * i BY <1>5, <1>6
<1>8. i \in 0..p - 1
  <2> DEFINE z == Order * i
  <2>1. i < 0 => z <= -Order
    <3>1. ASSUME i < 0 PROVE z <= -Order
      <4>1. -i - 1 \in Nat BY <3>1
      <4>2. Order * (-i - 1) \in Nat BY <1>1, <4>1
      <4>3. Order * (-i - 1) = -z - Order BY <1>1
      <4>4. z \in Int BY <1>1
      <4> HIDE DEF z
      <4> QED BY <1>1, <4>2, <4>3, <4>4
    <3> QED BY <3>1
  <2>2. i >= p => z >= p * Order
    <3>1. ASSUME i >= p PROVE z >= p * Order
      <4>1. i - p \in Nat BY <1>1, <3>1
      <4>2. Order * (i - p) \in Nat BY <1>1, <4>1
      <4>3. Order * (i - p) = z - p * Order BY <1>1
      <4>4. z \in Int /\ p * Order \in Int BY <1>1
      <4> DEFINE w == p * Order
      <4> HIDE DEF z, w
      <4>5. z - w \in Nat BY <4>2, <4>3 DEF w
      <4>6. z >= w BY <4>4, <4>5 DEF w
      <4> QED BY <4>6 DEF w
    <3> QED BY <3>1
  <2>3. p * r >= 0 /\ p * r < p * Order BY <1>1, <1>2
  <2>4. z = p * r /\ z \in Int BY <1>1, <1>7
  <2> HIDE DEF z
  <2> QED BY <1>1, <2>1, <2>2, <2>3, <2>4
<1>9. CASE i = 0
  <2>1. p * r = 0 BY <1>1, <1>7, <1>9
  <2>2. r = 0 BY <1>2, <2>1
  <2> QED BY <2>2 DEF r
<1>10. CASE i # 0
  <2>1. CASE p = 2
    <3>1. i = 1 BY <1>8, <1>10, <2>1
    <3>2. 2 * r = Order BY <1>1, <1>7, <2>1, <3>1
    <3> QED BY <1>1, <1>2, <2>1, <3>2
  <2>2. CASE p = 3
    <3>1. i = 1 \/ i = 2 BY <1>8, <1>10, <2>2
    <3>2. 3 * r = Order \/ 3 * r = 2 * Order BY <1>1, <1>7, <2>2, <3>1
    <3> QED BY <1>1, <1>2, <2>2, <3>2
  <2>3. CASE p = 5
    <3>1. i \in {1, 2, 3, 4} BY <1>8, <1>10, <2>3
    <3>2. 5 * r \in {Order, 2 * Order, 3 * Order, 4 * Order} BY <1>1, <1>7, <2>3, <3>1
    <3> QED BY <1>1, <1>2, <2>3, <3>2
  <2> QED BY <2>1, <2>2, <2>3
<1> QED BY <1>9, <1>10

LEMMA UnitProduct ==
  ASSUME NEW u \in Int, NEW v \in Int, Unit(u), Unit(v) PROVE Unit(u * v)
<1> SUFFICES ASSUME NEW d \in Int, ((u * v) * d) % Order = 0 PROVE d % Order = 0 BY DEF Unit
<1>1. (u * v) * d = u * (v * d) /\ v * d \in Int OBVIOUS
<1>2. (v * d) % Order = 0 BY <1>1 DEF Unit
<1> QED BY <1>2 DEF Unit

LEMMA Units == \A u \in {2, 3, 4, 5, 8, 12, 16, 20} : Unit(u)
<1>1. Unit(2) /\ Unit(3) /\ Unit(5) BY UnitOf
<1>2. 2 * 2 = 4 /\ 4 * 2 = 8 /\ 4 * 3 = 12 /\ 4 * 4 = 16 /\ 4 * 5 = 20 OBVIOUS
<1>3. Unit(4) BY <1>1, <1>2, UnitProduct
<1>4. Unit(8) /\ Unit(12) /\ Unit(16) /\ Unit(20) BY <1>1, <1>2, <1>3, UnitProduct
<1> QED BY <1>1, <1>3, <1>4

\* An order that 2, 3 and 5 do not divide is at least 7.
LEMMA OrderIs == Order >= 7
<1>1. Order \in Nat /\ Order # 0 /\ Order # 1 /\ Order % 2 # 0 /\ Order % 3 # 0 /\ Order % 5 # 0
  BY MiMCAssumption, NotesAssumption
<1> QED BY <1>1

LEMMA FieldIs == \A m \in Field : ToField(m) = m
<1> TAKE m \in Field
<1>1. m \in Nat /\ m % Order = m BY InField
<1> QED BY <1>1, ToFieldIs

-----------------------------------------------------------------------------
(* Notes and amounts.                                                        *)

\* note.ts: for every field and every width of a number in a note's text, a note survives being
\* written and read, texts that differ by multiples of the order share a nullifier, and a text
\* without the prefix or with two numbers is no note.
THEOREM NotesAlwaysRoundTrip == NotesRoundTrip
<1> SUFFICES ASSUME NEW s \in 0..TextWidth - 1, NEW n \in 0..TextWidth - 1, NEW a \in 0..TextWidth - 1
    PROVE LET text == [prefix |-> TRUE, fields |-> <<s, n, a>>]
              read == ParseNote(text)
          IN  /\ ClaimableNote(text) /\ ParseNote(SerializeNote(read)) = read
              /\ read.nullifierHash = ContractNullifierHash(n % Order)
              /\ \A bad \in {[text EXCEPT !.prefix = FALSE], [text EXCEPT !.fields = <<s, n>>]} :
                   ~ClaimableNote(bad)
  BY DEF NotesRoundTrip
<1> DEFINE text == [prefix |-> TRUE, fields |-> <<s, n, a>>]
           read == ParseNote(text)
           S == ToField(s)
           N == ToField(n)
           A == ToField(a)
<1>1. s \in Nat /\ n \in Nat /\ a \in Nat BY NotesAssumption
<1>2. S \in Field /\ N \in Field /\ A \in Field /\ N = n % Order BY <1>1, ToFieldIs
<1>3. ToField(S) = S /\ ToField(N) = N /\ ToField(A) = A BY <1>2, FieldIs
<1>4. read = WithDerived(s, n, a) BY DEF ParseNote
<1>5. WithDerived(s, n, a) = [secret |-> S, nullifier |-> N, amount |-> A,
                             commitment |-> CommitmentHash(S, N, A), nullifierHash |-> NullifierHash(N)]
  BY DEF WithDerived
<1> HIDE DEF S, N, A
<1>6. WithDerived(S, N, A) = WithDerived(s, n, a) BY <1>3, <1>5 DEF WithDerived
<1>7. read.secret = S /\ read.nullifier = N /\ read.amount = A BY <1>4, <1>5
<1>8. ParseNote(SerializeNote(read)) = read
  <2> HIDE DEF read
  <2>1. SerializeNote(read) = [prefix |-> TRUE, fields |-> <<S, N, A>>]
    BY <1>3, <1>7 DEF SerializeNote
  <2>2. ParseNote([prefix |-> TRUE, fields |-> <<S, N, A>>]) = WithDerived(S, N, A) BY DEF ParseNote
  <2> QED BY <1>4, <1>6, <2>1, <2>2
<1>9. read.commitment \in Field /\ read.nullifierHash = ContractNullifierHash(N)
  <2>1. read.commitment = CommitmentHash(S, N, A) /\ read.nullifierHash = NullifierHash(N)
    BY <1>4, <1>5
  <2> HIDE DEF read
  <2>2. CommitmentHash(S, N, A) = Sponged(<<S, N, A>>) /\ Sponged(<<S, N, A>>) \in Field
    BY <1>2, HashThree
  <2>3. NullifierHash(N) = ContractNullifierHash(N) BY <1>2, HashOne
  <2> QED BY <2>1, <2>2, <2>3
<1>10. ClaimableNote(text)
  <2>1. text.prefix OBVIOUS
  <2>2. read.commitment # Malformed
    <3> HIDE DEF read
    <3> QED BY <1>9, InField DEF Malformed
  <2> QED BY <2>1, <2>2 DEF ClaimableNote
<1>11. ~ClaimableNote([text EXCEPT !.prefix = FALSE]) BY DEF ClaimableNote
<1>12. ~ClaimableNote([text EXCEPT !.fields = <<s, n>>])
  <2> DEFINE bad == [text EXCEPT !.fields = <<s, n>>]
  <2>1. Len(bad.fields) # 3 OBVIOUS
  <2>2. ParseNote(bad) = [commitment |-> Malformed] BY <2>1 DEF ParseNote
  <2> QED BY <2>2 DEF ClaimableNote
<1> HIDE DEF text, read
<1> QED BY <1>2, <1>8, <1>9, <1>10, <1>11, <1>12 DEF text, read

TenFor(x, n) == x = [i \in 0..n |-> IF i = 0 THEN 1 ELSE 10 * x[i - 1]]

\* The powers of ten.
LEMMA TenExists ==
  ASSUME NEW n \in Nat
  PROVE  \E x : TenFor(x, n) /\ x \in [0..n -> Nat \ {0}]
<1> DEFINE S == Nat \ {0}
           step == [p \in (1..n) \X S |-> 10 * p[2]]
<1>1. step \in [(1..n) \X S -> S] /\ 1 \in S OBVIOUS
<1>2. PICK x : Runs(x, n, S, 1, step)
  <2> HIDE DEF step, S
  <2> QED BY <1>1, RunsExist
<1>3. x \in [0..n -> S] /\ x[0] = 1 /\ \A i \in 1..n : x[i] = step[<<i, x[i - 1]>>] BY <1>2 DEF Runs
<1>4. ASSUME NEW i \in 1..n PROVE x[i] = 10 * x[i - 1]
  <2>1. i - 1 \in 0..n OBVIOUS
  <2>2. x[i - 1] \in S BY <1>3, <2>1
  <2> QED BY <1>3, <2>2
<1> HIDE DEF S, step
<1>5. ASSUME NEW i \in 0..n PROVE x[i] = IF i = 0 THEN 1 ELSE 10 * x[i - 1]
  <2>1. i # 0 => i \in 1..n OBVIOUS
  <2> QED BY <1>3, <1>4, <2>1
<1>6. x = [i \in 0..n |-> x[i]] BY <1>3
<1>7. TenFor(x, n) BY <1>5, <1>6 DEF TenFor
<1> QED BY <1>3, <1>7 DEF S

LEMMA TenAre ==
  ASSUME NEW n \in Nat, NEW m \in Nat, n <= m, NEW x, NEW y, TenFor(x, n), TenFor(y, m)
  PROVE  \A i \in 0..n : x[i] = y[i]
<1>1. \A i \in 0..n : x[i] = IF i = 0 THEN 1 ELSE 10 * x[i - 1] BY DEF TenFor
<1>2. \A i \in 0..n : y[i] = IF i = 0 THEN 1 ELSE 10 * y[i - 1]
  <2>1. \A i \in 0..n : i \in 0..m OBVIOUS
  <2> QED BY <2>1 DEF TenFor
<1>3. x[0] = y[0] /\ \A i \in 1..n : x[i - 1] = y[i - 1] => x[i] = y[i] BY <1>1, <1>2
<1> QED BY <1>3, RunsAreOne

LEMMA TenPicked ==
  ASSUME NEW n \in Nat
  PROVE  \E x : TenFor(x, n) /\ TenTo(n) = x[n]
<1> DEFINE x == CHOOSE x : TenFor(x, n)
<1>1. TenFor(x, n) BY TenExists
<1>2. TenTo(n) = x[n] BY DEF TenTo, TenFor
<1> HIDE DEF x
<1> QED BY <1>1, <1>2

LEMMA TenIs ==
  /\ TenTo(0) = 1
  /\ \A n \in Nat : TenTo(n + 1) = 10 * TenTo(n) /\ TenTo(n) \in Nat \ {0}
<1>1. TenTo(0) = 1
  <2>1. 0 \in 0..0 /\ 0 \in Nat OBVIOUS
  <2>2. PICK x : TenFor(x, 0) /\ TenTo(0) = x[0] BY <2>1, TenPicked
  <2>3. x[0] = 1 BY <2>1, <2>2 DEF TenFor
  <2> QED BY <2>2, <2>3
<1>2. ASSUME NEW n \in Nat PROVE TenTo(n + 1) = 10 * TenTo(n)
  <2>1. n + 1 \in Nat /\ n \in 0..n /\ n + 1 \in 0..n + 1 /\ n + 1 # 0 /\ (n + 1) - 1 = n /\ n <= n + 1
    OBVIOUS
  <2>2. PICK x : TenFor(x, n) /\ TenTo(n) = x[n] BY TenPicked
  <2>3. PICK y : TenFor(y, n + 1) /\ TenTo(n + 1) = y[n + 1] BY <2>1, TenPicked
  <2>4. y[n + 1] = 10 * y[n] BY <2>1, <2>3 DEF TenFor
  <2>5. x[n] = y[n] BY <2>1, <2>2, <2>3, TenAre
  <2> QED BY <2>2, <2>3, <2>4, <2>5
<1>3. ASSUME NEW n \in Nat PROVE TenTo(n) \in Nat \ {0}
  <2>1. PICK x : TenFor(x, n) /\ x \in [0..n -> Nat \ {0}] BY TenExists
  <2>2. PICK y : TenFor(y, n) /\ TenTo(n) = y[n] BY TenPicked
  <2>3. n \in 0..n /\ n <= n OBVIOUS
  <2>4. x[n] = y[n] BY <2>1, <2>2, <2>3, TenAre
  <2> QED BY <2>1, <2>2, <2>3, <2>4
<1> QED BY <1>1, <1>2, <1>3

LEMMA TenProduct ==
  ASSUME NEW m \in Nat, NEW k \in Nat
  PROVE  TenTo(m + k) = TenTo(m) * TenTo(k)
<1> DEFINE Bad == {j \in 0..k : TenTo(m + j) # TenTo(m) * TenTo(j)}
<1>1. TenTo(m) \in Nat \ {0} BY TenIs
<1>2. 0 \notin Bad
  <2>1. m + 0 = m /\ TenTo(m) * 1 = TenTo(m) BY <1>1
  <2> QED BY <2>1, TenIs
<1>3. ASSUME NEW j \in 1..k, j - 1 \notin Bad PROVE j \notin Bad
  <2>1. j - 1 \in Nat /\ (j - 1) + 1 = j /\ m + (j - 1) \in Nat /\ (m + (j - 1)) + 1 = m + j /\ j - 1 \in 0..k
    OBVIOUS
  <2>2. TenTo(m + (j - 1)) = TenTo(m) * TenTo(j - 1) BY <1>3, <2>1
  <2>3. TenTo(m + j) = 10 * TenTo(m + (j - 1)) /\ TenTo(j) = 10 * TenTo(j - 1) /\ TenTo(j - 1) \in Nat
    BY <2>1, TenIs
  <2>4. PICK a, b : a = TenTo(m) /\ b = TenTo(j - 1) /\ a \in Nat /\ b \in Nat BY <1>1, <2>3
  <2>5. 10 * (a * b) = a * (10 * b) BY <2>4
  <2> QED BY <2>2, <2>3, <2>4, <2>5
<1>4. Bad \in SUBSET (0..k) OBVIOUS
<1> HIDE DEF Bad
<1>5. Bad = {} BY <1>2, <1>3, <1>4, NoCounterexample
<1>6. k \in 0..k OBVIOUS
<1> QED BY <1>5, <1>6 DEF Bad

\* A power of ten has more than as many units.
LEMMA TenBeyond == ASSUME NEW n \in Nat PROVE n < TenTo(n)
<1> DEFINE Bad == {j \in 0..n : ~(j < TenTo(j))}
<1>1. 0 \notin Bad BY TenIs
<1>2. ASSUME NEW j \in 1..n, j - 1 \notin Bad PROVE j \notin Bad
  <2>1. j - 1 \in Nat /\ (j - 1) + 1 = j /\ j - 1 \in 0..n OBVIOUS
  <2>2. TenTo(j) = 10 * TenTo(j - 1) /\ TenTo(j - 1) \in Nat BY <2>1, TenIs
  <2>3. j - 1 < TenTo(j - 1) BY <1>2, <2>1
  <2>4. PICK b : b = TenTo(j - 1) /\ b \in Nat BY <2>2
  <2>5. j < 10 * b BY <2>3, <2>4
  <2> QED BY <2>2, <2>4, <2>5
<1>3. Bad \in SUBSET (0..n) OBVIOUS
<1> HIDE DEF Bad
<1>4. Bad = {} BY <1>1, <1>2, <1>3, NoCounterexample
<1>5. n \in 0..n OBVIOUS
<1> QED BY <1>4, <1>5 DEF Bad

LEMMA TenMonotone ==
  ASSUME NEW m \in Nat, NEW n \in Nat, m <= n
  PROVE  TenTo(m) <= TenTo(n) /\ n - m \in Nat /\ TenTo(n) = TenTo(m) * TenTo(n - m)
<1>1. n - m \in Nat /\ m + (n - m) = n OBVIOUS
<1>2. TenTo(n) = TenTo(m) * TenTo(n - m) BY <1>1, TenProduct
<1>3. PICK a, b : a = TenTo(m) /\ b = TenTo(n - m) /\ a \in Nat \ {0} /\ b \in Nat \ {0}
  BY <1>1, TenIs
<1>4. a * (b - 1) \in Nat /\ a * (b - 1) = a * b - a BY <1>3
<1>5. PICK c : c = a * b /\ c \in Nat BY <1>3
<1>6. a <= c BY <1>3, <1>4, <1>5
<1> QED BY <1>1, <1>2, <1>3, <1>5, <1>6

\* decimalPlaces() is the fewest digits that write the number.
LEMMA FewestPlaces ==
  ASSUME NEW dp \in Nat, NEW value \in Nat \ {0}
  PROVE  /\ DecimalPlaces(value, dp) \in 0..dp
         /\ \E r \in Nat : value = TenTo(dp - DecimalPlaces(value, dp)) * r
<1> DEFINE Writes(k) == value % TenTo(dp - k) = 0
           Ok(k) == Writes(k) /\ \A j \in 0..k - 1 : value % TenTo(dp - j) # 0
           S == {k \in 0..dp : Writes(k)}
<1>1. dp \in S
  <2>1. dp - dp = 0 /\ dp \in 0..dp OBVIOUS
  <2>2. value % 1 = 0 BY RemainderZero
  <2> QED BY <2>1, <2>2, TenIs
<1>2. \E k \in 0..dp : Ok(k)
  <2>5. S \in SUBSET Nat
    <3>1. 0..dp \in SUBSET Nat OBVIOUS
    <3> HIDE DEF Writes
    <3> QED BY <3>1
  <2>1. S \in SUBSET Nat /\ S # {}
    <3> HIDE DEF S
    <3> QED BY <1>1, <2>5
  <2>2. PICK k \in S : \A j \in S : k <= j
    <3> HIDE DEF S
    <3> QED BY <2>1, Smallest
  <2>3. k \in 0..dp /\ Writes(k) OBVIOUS
  <2>4. ASSUME NEW j \in 0..k - 1 PROVE ~Writes(j)
    <3>1. j \in 0..dp /\ ~(k <= j) BY <2>3
    <3> QED BY <2>2, <3>1
  <2> HIDE DEF S
  <2> QED BY <2>3, <2>4
<1> DEFINE k == DecimalPlaces(value, dp)
<1>3. k \in 0..dp /\ Ok(k)
  <2>1. k = CHOOSE i \in 0..dp : Ok(i) BY DEF DecimalPlaces
  <2> HIDE DEF k, Ok
  <2> QED BY <1>2, <2>1
<1> HIDE DEF k
<1>4. dp - k \in Nat BY <1>3
<1>5. TenTo(dp - k) \in Nat \ {0} BY <1>4, TenIs
<1>6. \E r \in Nat : value = TenTo(dp - k) * r BY <1>3, <1>5, RemainderZero
<1> QED BY <1>3, <1>6 DEF k

\* Decimal keeps a product that has few enough digits after trailing zeros.
LEMMA SignificantIs ==
  ASSUME NEW dp \in Nat, NEW q \in Nat, NEW v \in Nat \ {0}, v = TenTo(dp) * q, v < TenTo(Precision + dp)
  PROVE  Significant(v) = v
<1> DEFINE Fits(e) == v < TenTo(Precision + e)
           Ok(e) == Fits(e) /\ (e = 0 \/ v >= TenTo(Precision + e - 1))
           S == {e \in 0..v : Fits(e)}
<1>1. Precision \in Nat \ {0} BY NotesAssumption
<1>2. v \in S
  <2>1. Precision + v \in Nat /\ v < Precision + v BY <1>1
  <2>2. Precision + v < TenTo(Precision + v) /\ TenTo(Precision + v) \in Nat
    BY <2>1, TenBeyond, TenIs
  <2>3. PICK t : t = TenTo(Precision + v) /\ t \in Nat BY <2>2
  <2>4. v < t BY <1>1, <2>1, <2>2, <2>3
  <2> QED BY <2>3, <2>4
<1>3. \E e \in 0..v : Ok(e)
  <2>1. S \in SUBSET Nat /\ S # {} BY <1>2
  <2>2. PICK e \in S : \A j \in S : e <= j
    <3> HIDE DEF S
    <3> QED BY <2>1, Smallest
  <2>3. e \in 0..v /\ Fits(e) OBVIOUS
  <2>4. CASE e = 0 BY <2>3, <2>4
  <2>5. CASE e # 0
    <3>1. e - 1 \in 0..v /\ ~(e <= e - 1) /\ Precision + (e - 1) = Precision + e - 1
          /\ Precision + (e - 1) \in Nat
      BY <1>1, <2>3, <2>5
    <3>2. ~Fits(e - 1) BY <2>2, <3>1
    <3>3. TenTo(Precision + (e - 1)) \in Nat BY <3>1, TenIs
    <3>4. PICK t : t = TenTo(Precision + (e - 1)) /\ t \in Nat BY <3>3
    <3>5. v >= t BY <3>2, <3>4
    <3> QED BY <2>3, <3>1, <3>4, <3>5
  <2> QED BY <2>4, <2>5
<1> DEFINE e == CHOOSE i \in 0..v : Ok(i)
           unit == TenTo(e)
<1>4. e \in 0..v /\ Ok(e)
  <2> HIDE DEF Ok
  <2> QED BY <1>3
<1>5. Significant(v) = unit * ((2 * v + unit) \div (2 * unit)) BY DEF Significant
<1> HIDE DEF e
<1>6. e <= dp
  <2> SUFFICES ASSUME e > dp PROVE FALSE BY <1>4
  <2>1. Precision + dp \in Nat /\ Precision + e - 1 \in Nat /\ Precision + dp <= Precision + e - 1 /\ e # 0
    BY <1>1, <1>4
  <2>2. TenTo(Precision + dp) <= TenTo(Precision + e - 1) BY <2>1, TenMonotone
  <2>3. v >= TenTo(Precision + e - 1) BY <1>4, <2>1
  <2>4. TenTo(Precision + dp) \in Nat /\ TenTo(Precision + e - 1) \in Nat BY <2>1, TenIs
  <2>5. PICK a, b : a = TenTo(Precision + dp) /\ b = TenTo(Precision + e - 1) /\ a \in Nat /\ b \in Nat
    BY <2>4
  <2> QED BY <2>2, <2>3, <2>5
<1>7. unit \in Nat \ {0} BY <1>4, TenIs
<1>8. TenTo(dp) = unit * TenTo(dp - e) /\ TenTo(dp - e) \in Nat
  <2>1. e \in Nat /\ dp - e \in Nat BY <1>4, <1>6
  <2> QED BY <1>6, <2>1, TenMonotone, TenIs
<1>9. PICK t : t = TenTo(dp - e) /\ t \in Nat BY <1>8
<1> HIDE DEF unit
<1>10. PICK w : w = t * q /\ w \in Nat BY <1>9
<1>11. v = unit * w
  <2>1. (unit * t) * q = unit * (t * q) BY <1>7, <1>9
  <2> QED BY <1>8, <1>9, <1>10, <2>1
<1>12. (2 * v + unit) \div (2 * unit) = w
  <2>1. PICK z : z = unit * w /\ z \in Nat BY <1>7, <1>10
  <2>2. (2 * unit) * w = 2 * z BY <1>7, <1>10, <2>1
  <2>3. v = z BY <1>11, <2>1
  <2>4. 2 * v + unit \in Nat /\ 2 * unit \in Nat \ {0} BY <1>7
  <2>5. 2 * z <= 2 * v + unit /\ 2 * v + unit < 2 * z + 2 * unit BY <1>7, <2>1, <2>3
  <2>6. (2 * unit) * w <= 2 * v + unit /\ 2 * v + unit < (2 * unit) * w + 2 * unit BY <2>2, <2>5
  <2> QED BY <1>10, <2>4, <2>6, DivisionIs
<1> QED BY <1>5, <1>11, <1>12

\* An accepted amount of any length becomes exactly that many stroops.
LEMMA StroopsAre ==
  ASSUME NEW dp \in Nat, NEW value \in Nat, XlmAmount(value, dp)
  PROVE  XlmToStroops(value, dp) > 0 /\ XlmToStroops(value, dp) * TenTo(dp) = value * TenTo(Places)
<1>1. /\ Places \in Nat /\ MaxXlm \in Nat /\ Precision \in Nat
      /\ MaxXlm * TenTo(Places) < TenTo(Precision)
  BY NotesAssumption
<1>2. value > 0 /\ value <= MaxXlm * TenTo(dp) /\ DecimalPlaces(value, dp) <= Places
  BY DEF XlmAmount
<1>3. PICK k : k = DecimalPlaces(value, dp) /\ k \in 0..dp /\ \E r \in Nat : value = TenTo(dp - k) * r
  BY <1>2, FewestPlaces
<1>4. PICK r \in Nat : value = TenTo(dp - k) * r BY <1>3
<1>5. k \in Nat /\ dp - k \in Nat /\ k <= Places /\ k <= dp BY <1>2, <1>3
<1>6. /\ TenTo(Places) = TenTo(k) * TenTo(Places - k) /\ Places - k \in Nat
      /\ TenTo(dp) = TenTo(k) * TenTo(dp - k)
  BY <1>1, <1>5, TenMonotone
<1>7. PICK tk, tp, td, ts, tm :
        /\ tk = TenTo(k) /\ tp = TenTo(Places - k) /\ td = TenTo(dp - k) /\ ts = TenTo(Places) /\ tm = TenTo(dp)
        /\ tk \in Nat \ {0} /\ tp \in Nat \ {0} /\ td \in Nat \ {0} /\ ts \in Nat \ {0} /\ tm \in Nat \ {0}
  BY <1>1, <1>5, <1>6, TenIs
<1>8. PICK q : q = tp * r /\ q \in Nat BY <1>7
<1>9. PICK v : v = value * ts /\ v \in Nat BY <1>7
<1>10. v = tm * q
  <2>1. (td * r) * (tk * tp) = (tk * td) * (tp * r) BY <1>7
  <2>2. v = (td * r) * (tk * tp) BY <1>4, <1>6, <1>7, <1>9
  <2>3. tm * q = (tk * td) * (tp * r) BY <1>6, <1>7, <1>8
  <2> QED BY <2>1, <2>2, <2>3
<1>11. v # 0 /\ q # 0
  <2>1. v # 0 BY <1>2, <1>7, <1>9
  <2>2. q = 0 => tm * q = 0 BY <1>7, <1>8
  <2> QED BY <1>10, <2>1, <2>2
<1>12. v < TenTo(Precision + dp)
  <2>1. TenTo(Precision + dp) = TenTo(Precision) * tm BY <1>1, <1>7, TenProduct
  <2>2. PICK ty : ty = TenTo(Precision) /\ ty \in Nat \ {0} BY <1>1, TenIs
  <2>3. MaxXlm * ts < ty /\ value <= MaxXlm * tm BY <1>1, <1>2, <1>7, <2>2
  <2>4. PICK a, b : a = MaxXlm * ts /\ b = MaxXlm * tm /\ a \in Nat /\ b \in Nat BY <1>1, <1>7
  <2>5. a < ty /\ value <= b BY <2>3, <2>4
  <2>6. value * ts <= b * ts
    <3>1. (b - value) * ts \in Nat BY <1>7, <2>4, <2>5
    <3>2. (b - value) * ts = b * ts - value * ts BY <1>7, <2>4
    <3>3. PICK x, y : x = b * ts /\ y = value * ts /\ x \in Nat /\ y \in Nat BY <1>7, <2>4
    <3>4. x - y \in Nat BY <3>1, <3>2, <3>3
    <3>5. y <= x BY <3>3, <3>4
    <3> QED BY <3>3, <3>5
  <2>7. a * tm < ty * tm
    <3>1. (ty - a - 1) * tm \in Nat BY <1>7, <2>2, <2>4, <2>5
    <3>2. (ty - a - 1) * tm = ty * tm - a * tm - tm BY <1>7, <2>2, <2>4
    <3>3. PICK x, y : x = ty * tm /\ y = a * tm /\ x \in Nat /\ y \in Nat BY <1>7, <2>2, <2>4
    <3>4. x - y - tm \in Nat BY <3>1, <3>2, <3>3
    <3>5. y < x BY <1>7, <3>3, <3>4
    <3> QED BY <3>3, <3>5
  <2>8. b * ts = a * tm
    <3>1. (MaxXlm * tm) * ts = (MaxXlm * ts) * tm BY <1>1, <1>7
    <3> QED BY <2>4, <3>1
  <2>9. PICK x, y : x = b * ts /\ y = ty * tm /\ x \in Nat /\ y \in Nat BY <1>7, <2>2, <2>4
  <2>10. v <= x BY <1>9, <2>6, <2>9
  <2>11. x < y BY <2>7, <2>8, <2>9
  <2>12. v < y BY <1>9, <2>9, <2>10, <2>11
  <2> QED BY <2>1, <2>2, <2>9, <2>12
<1>13. Significant(v) = v
  <2>1. v \in Nat \ {0} /\ v = TenTo(dp) * q BY <1>7, <1>9, <1>10, <1>11
  <2> QED BY <1>8, <1>12, <2>1, SignificantIs
<1>14. v % tm = 0 BY <1>7, <1>8, <1>9, <1>10, RemainderZero
<1>15. v \div tm = q
  <2>1. tm * q <= v /\ v < tm * q + tm
    <3>1. PICK z : z = tm * q /\ z \in Nat BY <1>7, <1>8
    <3>2. z <= v /\ v < z + tm BY <1>7, <1>10, <3>1
    <3> QED BY <3>1, <3>2
  <2> QED BY <1>7, <1>8, <1>9, <2>1, DivisionIs
<1>16. XlmToStroops(value, dp) = q
  <2>1. value * TenTo(Places) = v /\ tm = TenTo(dp) BY <1>7, <1>9
  <2>2. XlmToStroops(value, dp) = IF value > 0 /\ v % tm = 0 THEN v \div tm ELSE 0
    BY <1>13, <2>1 DEF XlmToStroops
  <2> QED BY <1>2, <1>14, <1>15, <2>2
<1>17. q > 0 BY <1>8, <1>11
<1>18. q * tm = v BY <1>7, <1>8, <1>10
<1> QED BY <1>7, <1>9, <1>16, <1>17, <1>18

\* service.ts:36: whatever the places, the precision and the largest amount, as long as its stroops
\* have no more digits than the precision, no amount that is accepted is rounded.
THEOREM AmountsAlwaysExact == AmountsExact
<1> SUFFICES ASSUME NEW dp \in 0..Places + 1, NEW value \in 0..(MaxXlm + 1) * TenTo(dp), XlmAmount(value, dp)
             PROVE  /\ XlmToStroops(value, dp) > 0
                    /\ XlmToStroops(value, dp) * TenTo(dp) = value * TenTo(Places)
  BY DEF AmountsExact
<1>1. dp \in Nat BY NotesAssumption
<1>2. value \in Nat
  <2>1. TenTo(dp) \in Nat /\ MaxXlm \in Nat BY <1>1, TenIs, NotesAssumption
  <2>2. (MaxXlm + 1) * TenTo(dp) \in Nat BY <2>1
  <2> QED BY <2>2
<1> QED BY <1>1, <1>2, StroopsAre

-----------------------------------------------------------------------------
(* The withdraw circuit.                                                     *)

\* The selector of a level swaps its inputs or does not.
LEMMA MuxSwaps ==
  ASSUME NEW x \in Field, NEW y \in Field
  PROVE  DualMux(x, y, 0) = <<x, y>> /\ DualMux(x, y, 1) = <<y, x>>
<1>1. x \in Nat /\ y \in Nat BY InField
<1>2. (y - x) * 0 + x = x /\ (x - y) * 0 + y = y /\ (y - x) * 1 + x = y /\ (x - y) * 1 + y = x
  BY <1>1
<1>3. ToField(x) = x /\ ToField(y) = y BY FieldIs
<1> QED BY <1>2, <1>3 DEF DualMux

\* MerkleTreeChecker climbs as FieldPath does.
LEMMA CheckerRoot ==
  ASSUME NEW leaf \in Field, NEW index, NEW path, \A l \in 0..Depth - 1 : path[l] \in Field,
         NEW x, FieldPath(x, leaf, index, path)
  PROVE  MerkleTreeChecker(leaf, path, [i \in 0..Depth - 1 |-> IF IsRight(index, i) THEN 1 ELSE 0]) = x[Depth]
<1> DEFINE turns == [i \in 0..Depth - 1 |-> IF IsRight(index, i) THEN 1 ELSE 0]
           Hashed(pair) == CircuitHash2(pair[1], pair[2])
           Is(y) == y = [i \in 0..Depth |->
                      IF i = 0 THEN leaf ELSE Hashed(DualMux(y[i - 1], path[i - 1], turns[i - 1]))]
           node == CHOOSE y : Is(y)
<1>1. Depth \in Nat /\ Depth \in 0..Depth /\ "circuit" \in Programs BY DepthAssumption DEF Programs
<1>2. MerkleTreeChecker(leaf, path, turns) = node[Depth] BY DEF MerkleTreeChecker
<1>3. ASSUME NEW i \in 1..Depth, NEW v \in Field
      PROVE  Hashed(DualMux(v, path[i - 1], turns[i - 1]))
               = IF IsRight(index, i - 1) THEN Node("client", path[i - 1], v) ELSE Node("client", v, path[i - 1])
  <2>1. i - 1 \in 0..Depth - 1 BY <1>1
  <2>2. path[i - 1] \in Field BY <2>1
  <2>3. turns[i - 1] = IF IsRight(index, i - 1) THEN 1 ELSE 0 BY <2>1
  <2> HIDE DEF turns
  <2>4. /\ Node("circuit", path[i - 1], v) = Node("client", path[i - 1], v)
        /\ Node("circuit", v, path[i - 1]) = Node("client", v, path[i - 1])
    BY <1>1, <2>2, NodesAgree
  <2>5. \A a, b : Node("circuit", a, b) = CircuitHash2(a, b) BY DEF Node
  <2>6. /\ DualMux(v, path[i - 1], 0) = <<v, path[i - 1]>>
        /\ DualMux(v, path[i - 1], 1) = <<path[i - 1], v>>
    BY <2>2, MuxSwaps
  <2>7. CASE IsRight(index, i - 1)
    <3>1. DualMux(v, path[i - 1], turns[i - 1]) = <<path[i - 1], v>> BY <2>3, <2>6, <2>7
    <3> QED BY <2>4, <2>5, <2>7, <3>1
  <2>8. CASE ~IsRight(index, i - 1)
    <3>1. DualMux(v, path[i - 1], turns[i - 1]) = <<v, path[i - 1]>> BY <2>3, <2>6, <2>8
    <3> QED BY <2>4, <2>5, <2>8, <3>1
  <2> QED BY <2>7, <2>8
<1> HIDE DEF turns, Hashed
<1>4. Is(x)
  <2>1. ASSUME NEW i \in 0..Depth
        PROVE  x[i] = IF i = 0 THEN leaf ELSE Hashed(DualMux(x[i - 1], path[i - 1], turns[i - 1]))
    <3>1. CASE i = 0 BY <3>1 DEF FieldPath
    <3>2. CASE i # 0
      <4>1. i \in 1..Depth /\ i - 1 \in 0..Depth BY <1>1, <3>2
      <4>2. x[i - 1] \in Field BY <4>1 DEF FieldPath
      <4> QED BY <1>3, <3>2, <4>1, <4>2 DEF FieldPath
    <3> QED BY <3>1, <3>2
  <2>2. x = [i \in 0..Depth |-> x[i]] BY DEF FieldPath
  <2> QED BY <2>1, <2>2
<1>5. Is(node)
  <2> HIDE DEF Is
  <2> QED BY <1>4
<1> HIDE DEF node
<1>6. \A i \in 0..Depth : node[i] = IF i = 0 THEN leaf ELSE Hashed(DualMux(node[i - 1], path[i - 1], turns[i - 1]))
  BY <1>5
<1>7. \A i \in 0..Depth : x[i] = IF i = 0 THEN leaf ELSE Hashed(DualMux(x[i - 1], path[i - 1], turns[i - 1]))
  BY <1>4
<1>8. node[0] = x[0] /\ \A i \in 1..Depth : node[i - 1] = x[i - 1] => node[i] = x[i]
  <2>1. node[0] = x[0] BY <1>1, <1>6, <1>7
  <2>2. ASSUME NEW i \in 1..Depth, node[i - 1] = x[i - 1] PROVE node[i] = x[i]
    <3>1. i \in 0..Depth /\ i # 0 BY <1>1
    <3> QED BY <1>6, <1>7, <2>2, <3>1
  <2> QED BY <2>1, <2>2
<1>9. \A i \in 0..Depth : node[i] = x[i] BY <1>1, <1>8, RunsAreOne
<1> QED BY <1>1, <1>2, <1>9 DEF turns

LEMMA RootInField == ASSUME NEW leaves \in Seq(Field) PROVE RootOf("client", leaves) \in Field
<1>1. Depth \in 0..Depth /\ Width(Depth) = 1 BY DepthAssumption, WidthHalves
<1>2. 0 \in 0..Width(Depth) - 1 BY <1>1
<1> QED BY <1>1, <1>2, LevelsInField DEF RootOf

NoteOf(n, secret, nullifier, amount) ==
  /\ n.secret = secret /\ n.nullifier = nullifier /\ n.amount = amount
  /\ n.commitment = Sponged(<<secret, nullifier, amount>>) /\ n.commitment \in Field
  /\ n.nullifierHash = Sponged(<<nullifier>>) /\ n.nullifierHash \in Field

LEMMA NoteFields ==
  ASSUME NEW secret \in Field, NEW nullifier \in Field, NEW amount \in Field
  PROVE  NoteOf(WithDerived(secret, nullifier, amount), secret, nullifier, amount)
<1>1. ToField(secret) = secret /\ ToField(nullifier) = nullifier /\ ToField(amount) = amount
  BY FieldIs
<1>2. PICK n : n = WithDerived(secret, nullifier, amount) OBVIOUS
<1>3. n = [secret |-> secret, nullifier |-> nullifier, amount |-> amount,
           commitment |-> CommitmentHash(secret, nullifier, amount), nullifierHash |-> NullifierHash(nullifier)]
  BY <1>1, <1>2 DEF WithDerived
<1>4. /\ CommitmentHash(secret, nullifier, amount) = Sponged(<<secret, nullifier, amount>>)
      /\ Sponged(<<secret, nullifier, amount>>) \in Field
  BY HashThree
<1>5. NullifierHash(nullifier) = Sponged(<<nullifier>>) /\ Sponged(<<nullifier>>) \in Field
  BY HashOne
<1> QED BY <1>2, <1>3, <1>4, <1>5 DEF NoteOf

\* The input that the client builds for a note in its tree satisfies the circuit.
LEMMA InputSatisfies ==
  ASSUME NEW secret \in Field, NEW nullifier \in Field, NEW amount \in Field,
         NEW leaves \in Seq(Field), Len(leaves) <= Capacity, NEW k \in 1..Len(leaves), NEW recipientKey,
         leaves[k] = WithDerived(secret, nullifier, amount).commitment
  PROVE  Withdraw(WithdrawInput(WithDerived(secret, nullifier, amount), recipientKey, leaves, k - 1))
<1> DEFINE n == WithDerived(secret, nullifier, amount)
           path == PathOf("client", leaves, k - 1)
           turns == [i \in 0..Depth - 1 |-> IF IsRight(k - 1, i) THEN 1 ELSE 0]
           in == WithdrawInput(n, recipientKey, leaves, k - 1)
           hasher == CommitmentHasher(secret, nullifier, amount)
<1>1. /\ n.secret = secret /\ n.nullifier = nullifier /\ n.amount = amount
      /\ n.commitment = Sponged(<<secret, nullifier, amount>>) /\ n.commitment \in Field
      /\ n.nullifierHash = Sponged(<<nullifier>>) /\ n.nullifierHash \in Field
  BY NoteFields DEF NoteOf
<1> HIDE DEF n
<1>2. /\ in.secret = secret /\ in.nullifier = nullifier /\ in.amount = amount
      /\ in.nullifierHash = n.nullifierHash /\ in.root = RootOf("client", leaves)
      /\ in.pathElements = path /\ in.pathIndices = turns
  BY <1>1 DEF WithdrawInput
<1>3. hasher.commitment = leaves[k] /\ hasher.nullifierHash = n.nullifierHash
  BY <1>1, HashThree DEF n
<1>4. ASSUME NEW i \in 0..Depth - 1 PROVE turns[i] * (1 - turns[i]) = 0
  <2>1. turns[i] = 0 \/ turns[i] = 1 OBVIOUS
  <2> HIDE DEF turns
  <2> QED BY <2>1
<1>5. MerkleTreeChecker(leaves[k], path, turns) = RootOf("client", leaves)
  <2>1. /\ Capacity \in Nat /\ Len(leaves) \in 0..Capacity /\ k - 1 \in Nat /\ k - 1 < Capacity
        /\ leaves[k] \in Field /\ "client" \in Programs
    BY DepthAssumption DEF Programs
  <2>2. \A l \in 0..Depth - 1 : path[l] \in Field BY <2>1, PathInField
  <2>3. RootFromPath("client", leaves[k], k - 1, path) = RootOf("client", leaves)
    BY <2>1, PathsLeadToTheRoot
  <2> HIDE DEF path
  <2>4. PICK x : FieldPath(x, leaves[k], k - 1, path) BY <2>1, <2>2, FieldPathExists
  <2>5. RootFromPath("client", leaves[k], k - 1, path) = x[Depth]
    BY <2>1, <2>2, <2>4, RootFromFieldPath
  <2>6. MerkleTreeChecker(leaves[k], path, turns) = x[Depth] BY <2>1, <2>2, <2>4, CheckerRoot
  <2> QED BY <2>3, <2>5, <2>6
<1> HIDE DEF path, turns, hasher, in
<1>6. Withdraw(in)
  <2>1. CommitmentHasher(in.secret, in.nullifier, in.amount) = hasher BY <1>2 DEF hasher
  <2> QED BY <1>2, <1>3, <1>4, <1>5, <2>1 DEF Withdraw
<1> QED BY <1>6 DEF in, n

\* Numbers that are one in the field.
Same(x, y) == \E k \in Int : x = y + Order * k

LEMMA SameRemainder ==
  ASSUME NEW x \in Int, NEW y \in Int, Same(x, y) PROVE x % Order = y % Order
<1>1. PICK k : k \in Int /\ x = y + Order * k BY DEF Same
<1> QED BY <1>1, Congruent

LEMMA SameReduced == ASSUME NEW x \in Int PROVE Same(x % Order, x) /\ x % Order \in Int /\ x % Order \in Field
BY Parts DEF Same

LEMMA SameSelf == ASSUME NEW x \in Int PROVE Same(x, x)
<1>1. Order \in Int /\ 0 \in Int BY InField
<1>2. x = x + Order * 0 BY <1>1
<1> QED BY <1>1, <1>2 DEF Same

LEMMA SameSum ==
  ASSUME NEW x \in Int, NEW y \in Int, NEW u \in Int, NEW v \in Int, Same(x, y), Same(u, v)
  PROVE  Same(x + u, y + v)
<1>1. PICK k : k \in Int /\ x = y + Order * k BY DEF Same
<1>2. PICK j : j \in Int /\ u = v + Order * j BY DEF Same
<1>3. Order \in Int BY InField
<1>4. Order * (k + j) = Order * k + Order * j /\ k + j \in Int BY <1>1, <1>2, <1>3
<1>5. PICK a, b, c : a = Order * k /\ b = Order * j /\ c = Order * (k + j) /\ a \in Int /\ b \in Int /\ c \in Int
  BY <1>1, <1>2, <1>3
<1>6. x + u = (y + v) + c BY <1>1, <1>2, <1>4, <1>5
<1> QED BY <1>4, <1>5, <1>6 DEF Same

LEMMA SameProduct ==
  ASSUME NEW n \in Int, NEW x \in Int, NEW y \in Int, Same(x, y)
  PROVE  Same(n * x, n * y)
<1>1. PICK k : k \in Int /\ x = y + Order * k BY DEF Same
<1>2. Order \in Int BY InField
<1>3. n * (y + Order * k) = n * y + Order * (n * k) /\ n * k \in Int BY <1>1, <1>2
<1> QED BY <1>1, <1>3 DEF Same

LEMMA SameZero == ASSUME NEW x \in Int PROVE x % Order = 0 <=> Same(x, 0)
<1>1. Order \in Int BY InField
<1>2. \A k \in Int : Order * k \in Int /\ (x = 0 + Order * k <=> x = Order * k) BY <1>1
<1> QED BY <1>2, Vanishes DEF Same

LEMMA SameBoth ==
  ASSUME NEW x \in Int, NEW y \in Int, Same(x, y) PROVE x % Order = 0 <=> y % Order = 0
BY SameRemainder

\* What a unit multiplies vanishes when the sum still does: only one value solves the equation.
LEMMA OnlyOne ==
  ASSUME NEW B \in Int, NEW u \in Int, Unit(u), NEW x \in Field, NEW y \in Field, B % Order = 0,
         (B + u * (x - y)) % Order = 0
  PROVE  x = y
<1>1. x \in Int /\ y \in Int /\ x - y \in Int /\ u * (x - y) \in Int BY InField
<1>2. PICK z : z = u * (x - y) /\ z \in Int BY <1>1
<1>3. Same(B, 0) /\ Same(B + z, 0) BY <1>2, SameZero
<1>n. PICK m : m = -1 /\ m \in Int /\ 0 \in Int OBVIOUS
<1>4. Same(m * B, m * 0) BY <1>3, <1>n, SameProduct
<1>5. m * B \in Int /\ m * 0 \in Int /\ m * 0 + 0 = 0 /\ m * B + (B + z) = z BY <1>2, <1>n
<1>6. Same(z, 0)
  <2>1. B + z \in Int /\ 0 \in Int BY <1>2
  <2>2. Same(m * B + (B + z), m * 0 + 0) BY <1>3, <1>4, <1>5, <2>1, SameSum
  <2> QED BY <1>5, <2>2
<1>7. (u * (x - y)) % Order = 0 BY <1>2, <1>6, SameZero
<1>8. (x - y) % Order = 0 BY <1>1, <1>7 DEF Unit
<1>9. PICK k : k \in Int /\ x - y = Order * k BY <1>1, <1>8, Vanishes
<1>10. x \in 0..Order - 1 /\ y \in 0..Order - 1 /\ Order \in Nat \ {0} BY InField DEF Field
<1>11. CASE k = 0
  <2>1. x - y = 0 BY <1>9, <1>10, <1>11
  <2> QED BY <1>1, <2>1
<1>12. CASE k > 0
  <2>1. Order * (k - 1) \in Nat BY <1>9, <1>10, <1>12
  <2>2. Order * (k - 1) = Order * k - Order BY <1>9, <1>10
  <2>3. PICK w : w = Order * k /\ w \in Int BY <1>9, <1>10
  <2>4. w - Order \in Nat BY <2>1, <2>2, <2>3
  <2> QED BY <1>9, <1>10, <2>3, <2>4
<1>13. CASE k < 0
  <2>1. Order * (-k - 1) \in Nat BY <1>9, <1>10, <1>13
  <2>2. Order * (-k - 1) = -(Order * k) - Order BY <1>9, <1>10
  <2>3. PICK w : w = Order * k /\ w \in Int BY <1>9, <1>10
  <2>4. -w - Order \in Nat BY <2>1, <2>2, <2>3
  <2> QED BY <1>9, <1>10, <2>3, <2>4
<1> QED BY <1>9, <1>11, <1>12, <1>13

-----------------------------------------------------------------------------
(* A proof, its encoding and the pairing check of the contract.              *)

LEMMA PointsRead ==
  ASSUME NEW s \in Field
  PROVE  /\ EncodeG1(G1(s)) = G1(s) /\ G1FromBytes(G1(s)) = s
         /\ G2FromBytes(EncodeG2(G2(s))) = s
<1>1. s \in Nat BY InField
<1>2. (s * s) % Order \in Field /\ (2 * s + 1) % Order \in Field /\ (3 * s) % Order \in Field
  BY <1>1, InField
<1>3. PICK x, y, z : x = (s * s) % Order /\ y = (2 * s + 1) % Order /\ z = (3 * s) % Order
                     /\ x \in Field /\ y \in Field /\ z \in Field
  BY <1>2
<1>4. ToField(s) = s /\ ToField(x) = x /\ ToField(y) = y /\ ToField(z) = z BY <1>3, FieldIs
<1>5. G1(s) = <<x, s>> /\ G2(s) = <<<<s, y>>, <<z, x>>>> BY <1>3 DEF G1, G2
<1>6. EncodeG1(G1(s)) = G1(s) BY <1>4, <1>5 DEF EncodeG1
<1>7. \A t \in Field : (G1(t) = G1(s) => t = s) BY DEF G1
<1>8. G1FromBytes(G1(s)) = s BY <1>7 DEF G1FromBytes
<1>9. EncodeG2(G2(s)) = <<y, s, x, z>> BY <1>4, <1>5 DEF EncodeG2
<1>10. PICK bytes : bytes = EncodeG2(G2(s)) OBVIOUS
<1>11. <<<<bytes[2], bytes[1]>>, <<bytes[4], bytes[3]>>>> = G2(s) BY <1>5, <1>9, <1>10
<1>12. \A t \in Field : (G2(t) = G2(s) => t = s) BY DEF G2
<1>13. G2FromBytes(bytes) = s BY <1>11, <1>12 DEF G2FromBytes
<1> QED BY <1>6, <1>8, <1>10, <1>13

\* The client negates a point: its coordinates are those of the negated exponent.
LEMMA NegatedIs ==
  ASSUME NEW a \in Field
  PROVE  \E m \in Field : NegG1(G1(a)) = G1(m) /\ Same(m, -a)
<1>1. a \in Nat /\ a % Order = a /\ a \in Int /\ Order \in Nat \ {0} /\ a < Order
  BY InField DEF Field
<1>2. Order - a \in Nat BY <1>1
<1>3. PICK m : m = (Order - a) % Order /\ m \in Field /\ m \in Int BY <1>2, InField
<1>4. Same(m, Order - a) BY <1>2, <1>3, SameReduced
<1>5. Same(Order - a, -a)
  <2>1. Order - a = -a + Order * 1 BY <1>1
  <2> QED BY <2>1 DEF Same
<1>6. Same(m, -a)
  <2>1. PICK k : k \in Int /\ m = (Order - a) + Order * k BY <1>4 DEF Same
  <2>2. Order * (k + 1) = Order * k + Order /\ k + 1 \in Int BY <1>1, <2>1
  <2>3. PICK w, z : w = Order * k /\ z = Order * (k + 1) /\ w \in Int /\ z \in Int BY <1>1, <2>1
  <2>4. m = -a + z BY <1>1, <2>1, <2>2, <2>3
  <2> QED BY <2>2, <2>3, <2>4 DEF Same
<1>7. (m * m) % Order = (a * a) % Order
  <2>1. PICK k : k \in Int /\ m = -a + Order * k BY <1>6 DEF Same
  <2>2. PICK w : w = Order * k /\ w \in Int BY <1>1, <2>1
  <2>3. (-a + w) * (-a + w) = a * a + w * (w - 2 * a) BY <1>1, <2>2
  <2>4. w * (w - 2 * a) = Order * (k * (w - 2 * a)) /\ k * (w - 2 * a) \in Int BY <1>1, <2>1, <2>2
  <2>5. m * m = a * a + Order * (k * (w - 2 * a)) BY <2>1, <2>2, <2>3, <2>4
  <2>6. a * a \in Int BY <1>1
  <2> QED BY <2>4, <2>5, <2>6, Congruent
<1>8. NegG1(G1(a)) = G1(m)
  <2>1. (a * a) % Order \in Field
    <3>1. a * a \in Nat BY <1>1
    <3> QED BY <3>1, InField
  <2>2. G1(a)[1] = (a * a) % Order /\ G1(a)[2] = a BY DEF G1
  <2>3. NegG1(G1(a)) = <<ToField((a * a) % Order), ToField(m)>>
    BY <1>1, <1>3, <2>2 DEF NegG1, EncodeG1
  <2>4. NegG1(G1(a)) = <<(a * a) % Order, m>> BY <1>3, <2>1, <2>3, FieldIs
  <2> QED BY <1>7, <2>4 DEF G1
<1> QED BY <1>3, <1>6, <1>8

LEMMA SmallNumbers == 5 \in Field /\ 7 % Order \in Field /\ {1, 2, 3, 6} \subseteq Field
<1>1. Order \in Nat /\ Order >= 7 BY OrderIs, InField
<1>2. 7 \in Nat BY <1>1
<1> QED BY <1>1, <1>2, InField DEF Field

\* What the signals of a key that weighs them 1, 2, 4, 3, 5 come to.
Weighed(s) == 1 + s[1] * 2 + s[2] * 4 + s[3] * 3 + s[4] * 5
Weights == <<1, 2, 4, 3, 5>>

\* What the pairings of a proof for key, a = G1(a), b = G2(5) and c = G1(c) come to.
Balance(key, a, c, s) == -(5 * a) + 6 + Weighed(s) * key.gamma + c * key.delta

LEMMA FourSignals ==
  ASSUME NEW s \in Seq(Int), Len(s) = 4
  PROVE  s[1] \in Int /\ s[2] \in Int /\ s[3] \in Int /\ s[4] \in Int /\ Weighed(s) \in Int
<1>1. \A i \in 1..Len(s) : s[i] \in Int BY ElementOfSeq
<1>2. 1 \in 1..Len(s) /\ 2 \in 1..Len(s) /\ 3 \in 1..Len(s) /\ 4 \in 1..Len(s) OBVIOUS
<1>3. s[1] \in Int /\ s[2] \in Int /\ s[3] \in Int /\ s[4] \in Int BY <1>1, <1>2
<1> QED BY <1>3 DEF Weighed

LEMMA AccSame ==
  ASSUME NEW x \in Int, NEW y \in Int, Same(x, y), NEW s \in Int, NEW w \in Int
  PROVE  (x + s * w) % Order \in Int /\ Same((x + s * w) % Order, y + s * w)
<1>1. PICK p : p = s * w /\ p \in Int OBVIOUS
<1>2. Same(x + p, y + p) BY <1>1, SameSelf, SameSum
<1>3. x + p \in Int /\ y + p \in Int BY <1>1
<1>4. Same((x + p) % Order, x + p) /\ (x + p) % Order \in Int BY <1>3, SameReduced
<1>5. PICK k : k \in Int /\ x + p = (y + p) + Order * k BY <1>2 DEF Same
<1>6. PICK j : j \in Int /\ (x + p) % Order = (x + p) + Order * j BY <1>4 DEF Same
<1>7. Order \in Int BY InField
<1>8. Order * (k + j) = Order * k + Order * j /\ k + j \in Int BY <1>5, <1>6, <1>7
<1>9. PICK a, b, c : a = Order * k /\ b = Order * j /\ c = Order * (k + j) /\ a \in Int /\ b \in Int /\ c \in Int
  BY <1>5, <1>6, <1>7
<1>10. PICK q : q = (x + p) % Order /\ q \in Int BY <1>4
<1>11. q = (y + p) + c BY <1>3, <1>5, <1>6, <1>8, <1>9, <1>10
<1>12. Same(q, y + p) BY <1>8, <1>9, <1>11 DEF Same
<1> QED BY <1>1, <1>10, <1>12

\* The contract accumulates the signals with their weights, reduced at every step.
LEMMA SignalsAre ==
  ASSUME NEW vk, vk.ic = Weights, NEW s \in Seq(Int), Len(s) = 4
  PROVE  LET Is(y) == y = [i \in 0..Len(s) |->
                        IF i = 0 THEN vk.ic[1] ELSE (y[i - 1] + s[i] * vk.ic[i + 1]) % Order]
             acc == CHOOSE y : Is(y)
         IN  acc[Len(s)] \in Int /\ Same(acc[Len(s)], Weighed(s))
<1> DEFINE Is(y) == y = [i \in 0..Len(s) |->
                      IF i = 0 THEN vk.ic[1] ELSE (y[i - 1] + s[i] * vk.ic[i + 1]) % Order]
           acc == CHOOSE y : Is(y)
           Step(i, v) == (v + s[i] * Weights[i + 1]) % Order
<1>1. s[1] \in Int /\ s[2] \in Int /\ s[3] \in Int /\ s[4] \in Int BY FourSignals
<1>2. /\ Weights[1] = 1 /\ Weights[2] = 2 /\ Weights[3] = 4 /\ Weights[4] = 3 /\ Weights[5] = 5
      /\ Weights[1 + 1] = 2 /\ Weights[2 + 1] = 4 /\ Weights[3 + 1] = 3 /\ Weights[4 + 1] = 5
  BY DEF Weights
<1> DEFINE b == Step(1, 1)
           c == Step(2, b)
           d == Step(3, c)
           e == Step(4, d)
           y0 == [i \in 0..4 |-> IF i = 0 THEN 1 ELSE IF i = 1 THEN b ELSE IF i = 2 THEN c
                                 ELSE IF i = 3 THEN d ELSE e]
<1>3. ASSUME NEW y
      PROVE Is(y) <=> y = [i \in 0..4 |-> IF i = 0 THEN 1 ELSE Step(i, y[i - 1])]
  BY <1>2
<1> HIDE DEF Step, Is
<1>4. Is(y0)
  <2>1. y0[0] = 1 /\ y0[1] = b /\ y0[2] = c /\ y0[3] = d /\ y0[4] = e OBVIOUS
  <2>2. y0 = [i \in 0..4 |-> y0[i]] OBVIOUS
  <2> HIDE DEF y0
  <2>3. ASSUME NEW i \in 0..4 PROVE y0[i] = IF i = 0 THEN 1 ELSE Step(i, y0[i - 1])
    <3>1. i = 0 \/ i = 1 \/ i = 2 \/ i = 3 \/ i = 4 OBVIOUS
    <3>2. 1 - 1 = 0 /\ 2 - 1 = 1 /\ 3 - 1 = 2 /\ 4 - 1 = 3 OBVIOUS
    <3> QED BY <2>1, <3>1, <3>2
  <2>4. y0 = [i \in 0..4 |-> IF i = 0 THEN 1 ELSE Step(i, y0[i - 1])] BY <2>2, <2>3
  <2> QED BY <1>3, <2>4
<1>5. Is(acc) BY <1>4
<1> HIDE DEF acc
<1>6. acc[4] = e
  <2>1. \A i \in 0..4 : acc[i] = IF i = 0 THEN 1 ELSE Step(i, acc[i - 1]) BY <1>3, <1>5
  <2>2. 0 \in 0..4 /\ 1 \in 0..4 /\ 2 \in 0..4 /\ 3 \in 0..4 /\ 4 \in 0..4
        /\ 1 - 1 = 0 /\ 2 - 1 = 1 /\ 3 - 1 = 2 /\ 4 - 1 = 3
    OBVIOUS
  <2>3. acc[0] = 1 BY <2>1, <2>2
  <2>4. acc[1] = b BY <2>1, <2>2, <2>3
  <2>5. acc[2] = c BY <2>1, <2>2, <2>4
  <2>6. acc[3] = d BY <2>1, <2>2, <2>5
  <2> QED BY <2>1, <2>2, <2>6
<1>7. e \in Int /\ Same(e, Weighed(s))
  <2>1. Same(1, 1) /\ 1 \in Int /\ 2 \in Int /\ 3 \in Int /\ 4 \in Int /\ 5 \in Int BY SameSelf
  <2> DEFINE y1 == 1 + s[1] * 2
             y2 == y1 + s[2] * 4
             y3 == y2 + s[3] * 3
             y4 == y3 + s[4] * 5
  <2>2. /\ b = (1 + s[1] * 2) % Order /\ c = (b + s[2] * 4) % Order
        /\ d = (c + s[3] * 3) % Order /\ e = (d + s[4] * 5) % Order
    BY <1>2 DEF Step
  <2>3. y4 = Weighed(s) BY DEF Weighed
  <2>4. y1 \in Int /\ y2 \in Int /\ y3 \in Int BY <1>1
  <2> HIDE DEF b, c, d, e
  <2>5. b \in Int /\ Same(b, y1) BY <1>1, <2>1, <2>2, AccSame
  <2> HIDE DEF y1
  <2>6. c \in Int /\ Same(c, y2) BY <1>1, <2>1, <2>2, <2>4, <2>5, AccSame
  <2> HIDE DEF y2
  <2>7. d \in Int /\ Same(d, y3) BY <1>1, <2>1, <2>2, <2>4, <2>6, AccSame
  <2> HIDE DEF y3
  <2>8. e \in Int /\ Same(e, y4) BY <1>1, <2>1, <2>2, <2>4, <2>7, AccSame
  <2> QED BY <2>3, <2>8
<1> QED BY <1>6, <1>7 DEF acc, Is

\* The terms of a sum in another order.
LEMMA Regrouped ==
  ASSUME NEW x \in Int, NEW y \in Int, NEW z \in Int
  PROVE  x + 6 + y + z = (x + y) + (6 + z)
OBVIOUS

\* The pairing check is one equation in the field.
LEMMA VerifyIs ==
  ASSUME NEW key, key.alpha = 2, key.beta = 3, key.ic = Weights,
         NEW gamma \in Int, key.gamma = gamma, NEW delta \in Int, key.delta = delta,
         NEW a \in Field, NEW c \in Field, NEW s \in Seq(Int), Len(s) = 4
  PROVE  /\ Balance(key, a, c, s) \in Int
         /\ Verify(key, NegG1(G1(a)), EncodeG2(G2(5)), EncodeG1(G1(c)), s)
              <=> Balance(key, a, c, s) % Order = 0
<1> DEFINE Is(y) == y = [i \in 0..Len(s) |->
                      IF i = 0 THEN key.ic[1] ELSE (y[i - 1] + s[i] * key.ic[i + 1]) % Order]
           acc == CHOOSE y : Is(y)
           last == acc[Len(s)]
           neg == NegG1(G1(a))
           sum == G1FromBytes(neg) * G2FromBytes(EncodeG2(G2(5))) + key.alpha * key.beta
                  + last * key.gamma + G1FromBytes(EncodeG1(G1(c))) * key.delta
<1>1. last \in Int /\ Same(last, Weighed(s)) BY SignalsAre
<1>2. Verify(key, neg, EncodeG2(G2(5)), EncodeG1(G1(c)), s) <=> sum % Order = 0
  BY DEF Verify
<1> HIDE DEF last
<1>3. PICK m : m \in Field /\ neg = G1(m) /\ Same(m, -a) BY NegatedIs
<1> HIDE DEF neg
<1>4. G1FromBytes(neg) = m /\ G2FromBytes(EncodeG2(G2(5))) = 5 /\ G1FromBytes(EncodeG1(G1(c))) = c
  BY <1>3, SmallNumbers, PointsRead
<1>5. sum = m * 5 + 6 + last * gamma + c * delta
  <2>1. key.alpha * key.beta = 6 OBVIOUS
  <2> QED BY <1>4, <2>1
<1> HIDE DEF sum
<1>6. m \in Int /\ a \in Int /\ -a \in Int /\ c \in Int /\ 5 \in Int BY <1>3, InField
<1>7. Weighed(s) \in Int BY FourSignals
<1>8. PICK w : w = Weighed(s) /\ w \in Int BY <1>7
<1>9. Balance(key, a, c, s) = -(5 * a) + 6 + w * gamma + c * delta BY <1>8 DEF Balance
<1>10. Same(5 * m, 5 * (-a)) BY <1>3, <1>6, SameProduct
<1>11. Same(gamma * last, gamma * w) BY <1>1, <1>8, SameProduct
<1>12. PICK p : p = 6 + c * delta /\ p \in Int BY <1>6
<1>13. Same(p, p) BY <1>12, SameSelf
<1>14. PICK m5, a5, lg, wg : /\ m5 = 5 * m /\ a5 = 5 * (-a) /\ lg = gamma * last /\ wg = gamma * w
                             /\ m5 \in Int /\ a5 \in Int /\ lg \in Int /\ wg \in Int
  BY <1>1, <1>6, <1>8
<1>15. Same(m5 + lg, a5 + wg) BY <1>10, <1>11, <1>14, SameSum
<1>16. m5 + lg \in Int /\ a5 + wg \in Int BY <1>14
<1>17. Same((m5 + lg) + p, (a5 + wg) + p) BY <1>12, <1>13, <1>15, <1>16, SameSum
<1>18. sum = (m5 + lg) + p
  <2>1. PICK cd : cd = c * delta /\ cd \in Int BY <1>6
  <2>2. last * gamma = lg /\ m * 5 = m5 BY <1>1, <1>6, <1>14
  <2>3. sum = m5 + 6 + lg + cd BY <1>5, <2>1, <2>2
  <2>4. p = 6 + cd BY <1>12, <2>1
  <2>5. m5 \in Int /\ lg \in Int /\ cd \in Int BY <1>14, <2>1
  <2>6. m5 + 6 + lg + cd = (m5 + lg) + (6 + cd) BY <2>5, Regrouped
  <2> QED BY <2>3, <2>4, <2>6
<1>19. Balance(key, a, c, s) = (a5 + wg) + p
  <2>1. PICK cd : cd = c * delta /\ cd \in Int BY <1>6
  <2>2. w * gamma = wg /\ -(5 * a) = a5 BY <1>6, <1>8, <1>14
  <2>3. Balance(key, a, c, s) = a5 + 6 + wg + cd BY <1>9, <2>1, <2>2
  <2>4. p = 6 + cd BY <1>12, <2>1
  <2>5. a5 \in Int /\ wg \in Int /\ cd \in Int BY <1>14, <2>1
  <2>6. a5 + 6 + wg + cd = (a5 + wg) + (6 + cd) BY <2>5, Regrouped
  <2> QED BY <2>3, <2>4, <2>6
<1>20. (m5 + lg) + p \in Int /\ (a5 + wg) + p \in Int BY <1>12, <1>14, SMTT(30)
<1>21. ((m5 + lg) + p) % Order = 0 <=> ((a5 + wg) + p) % Order = 0 BY <1>17, <1>20, SameBoth
<1> QED BY <1>2, <1>18, <1>19, <1>20, <1>21 DEF neg

\* A prover finds its c, whatever the signals are.
LEMMA ProofExists ==
  ASSUME NEW t \in Int, NEW delta, delta \in {2, Order - 1}
  PROVE  \E c \in Field : (t - c * delta) % Order = 0
<1>1. Order \in Nat \ {0} /\ Order % 2 # 0 BY InField, NotesAssumption
<1>2. CASE delta = Order - 1
  <2>1. PICK c : c = (-t) % Order /\ c \in Field /\ c \in Int /\ Same(c, -t)
    <3>1. -t \in Int OBVIOUS
    <3> QED BY <3>1, SameReduced
  <2>2. PICK k : k \in Int /\ c = -t + Order * k BY <2>1 DEF Same
  <2>3. c * (Order - 1) = Order * c - c BY <1>1, <2>1
  <2>4. Order * (k - c) = Order * k - Order * c /\ k - c \in Int BY <1>1, <2>1, <2>2
  <2>5. PICK u, v, w, z : /\ u = Order * k /\ v = Order * c /\ w = Order * (k - c) /\ z = c * (Order - 1)
                          /\ u \in Int /\ v \in Int /\ w \in Int /\ z \in Int
    BY <1>1, <2>1, <2>2
  <2>6. t - z = w BY <2>1, <2>2, <2>3, <2>4, <2>5
  <2>7. t - z \in Int BY <2>5
  <2>8. (t - z) % Order = 0 BY <2>4, <2>5, <2>6, <2>7, Vanishes
  <2> QED BY <1>2, <2>1, <2>5, <2>8
<1>3. CASE delta = 2
  <2>1. PICK h : h \in Int /\ 2 * h = Order + 1
    <3>1. Order % 2 \in 0..1 /\ Order \div 2 \in Int /\ Order = 2 * (Order \div 2) + (Order % 2)
      BY <1>1, IntDivision
    <3>2. PICK q : q = Order \div 2 /\ q \in Int BY <3>1
    <3>3. Order = 2 * q + 1 BY <1>1, <3>1, <3>2
    <3>4. 2 * (q + 1) = Order + 1 /\ q + 1 \in Int BY <3>2, <3>3
    <3> QED BY <3>4
  <2>2. PICK x : x = t * h /\ x \in Int BY <2>1
  <2>3. PICK c : c = x % Order /\ c \in Field /\ c \in Int /\ Same(c, x) BY <2>2, SameReduced
  <2>4. PICK k : k \in Int /\ c = x + Order * k BY <2>3 DEF Same
  <2>5. 2 * x = t * (2 * h) BY <2>1, <2>2
  <2>6. t * (Order + 1) = Order * t + t BY <1>1
  <2>7. Order * (-t - 2 * k) = -(Order * t) - 2 * (Order * k) /\ -t - 2 * k \in Int BY <1>1, <2>4
  <2>8. PICK u, v, w : /\ u = Order * k /\ v = Order * t /\ w = Order * (-t - 2 * k)
                       /\ u \in Int /\ v \in Int /\ w \in Int
    BY <1>1, <2>4
  <2>9. 2 * x = v + t BY <2>1, <2>5, <2>6, <2>8
  <2>10. t - c * 2 = w BY <2>2, <2>3, <2>4, <2>7, <2>8, <2>9
  <2>11. t - c * 2 \in Int BY <2>3
  <2>12. (t - c * 2) % Order = 0 BY <2>7, <2>8, <2>10, <2>11, Vanishes
  <2> QED BY <1>3, <2>3, <2>12
<1> QED BY <1>2, <1>3

LEMMA KeysAre ==
  ASSUME NEW key \in Keys
  PROVE  /\ key.alpha = 2 /\ key.beta = 3 /\ key.ic = Weights /\ key.gamma \in {1, 4}
         /\ key.delta \in {2, Order - 1}
BY DEF Keys, Weights

LEMMA RoomForFour == Capacity >= 4
<1>1. Depth \in Nat /\ Depth > 1 BY DepthAssumption, NotesAssumption
<1>2. 1 \in 0..Depth /\ 2 \in 0..Depth BY <1>1
<1>3. Width(0) = Capacity /\ Width(1 - 1) = 2 * Width(1) BY <1>2, WidthHalves
<1>4. Width(2 - 1) = 2 * Width(2) /\ Width(2) \in Nat \ {0} BY <1>2, WidthHalves
<1>5. 1 - 1 = 0 /\ 2 - 1 = 1 OBVIOUS
<1>6. PICK a, b, c : a = Width(0) /\ b = Width(1) /\ c = Width(2) OBVIOUS
<1>7. a = 2 * b /\ b = 2 * c /\ c \in Nat \ {0} BY <1>3, <1>4, <1>5, <1>6
<1>8. a >= 4 BY <1>7
<1> QED BY <1>3, <1>6, <1>8

\* A weight of a signal, times gamma, is a unit.
LEMMA WeightUnits ==
  ASSUME NEW gamma \in {1, 4}, NEW w \in {2, 3, 4, 5} PROVE gamma \in Int /\ w * gamma \in Int /\ Unit(w * gamma)
<1>1. w * gamma \in {2, 3, 4, 5, 8, 12, 16, 20} OBVIOUS
<1> QED BY <1>1, Units

\* A sum with one term larger by r is larger by r.
LEMMA Shifted ==
  ASSUME NEW m \in Int, NEW n \in Int, NEW p \in Int, NEW r \in Int
  PROVE  m + (p + r) + n = (m + p + n) + r
OBVIOUS

\* A proof for some signals and for others that differ in one of them: the other is the same.
LEMMA OneSignal ==
  ASSUME NEW key \in Keys, NEW a \in Field, NEW c \in Field,
         NEW s \in Seq(Int), NEW t \in Seq(Int), Len(s) = 4, Len(t) = 4,
         NEW x \in Field, NEW y \in Field, NEW w \in {2, 3, 4, 5},
         Weighed(t) = Weighed(s) + w * (x - y),
         Balance(key, a, c, s) % Order = 0, Balance(key, a, c, t) % Order = 0
  PROVE  x = y
<1>1. PICK g, d : g = key.gamma /\ d = key.delta /\ g \in {1, 4} /\ d \in {2, Order - 1} BY KeysAre
<1>o. Order \in Int /\ a \in Int /\ c \in Int /\ x \in Int /\ y \in Int BY InField
<1>2. g \in Int /\ d \in Int /\ a \in Int /\ c \in Int /\ x \in Int /\ y \in Int BY <1>1, <1>o
<1>3. Weighed(s) \in Int /\ Weighed(t) \in Int BY FourSignals
<1>4. PICK u, v : u = Weighed(s) /\ v = Weighed(t) /\ u \in Int /\ v \in Int BY <1>3
<1>5. PICK B : B = -(5 * a) + 6 + u * g + c * d /\ B \in Int
  <2>0. -(5 * a) \in Int /\ u * g \in Int /\ c * d \in Int BY <1>2, <1>4
  <2>1. -(5 * a) + 6 + u * g + c * d \in Int BY ONLY <2>0
  <2> QED BY <2>1, Zenon
<1>6. B = Balance(key, a, c, s) BY <1>1, <1>4, <1>5 DEF Balance
<1>7. Balance(key, a, c, t) = -(5 * a) + 6 + v * g + c * d BY <1>1, <1>4 DEF Balance
<1>8. PICK z : z = x - y /\ z \in Int BY <1>2
<1>9. v * g = u * g + (w * g) * z
  <2>1. v = u + w * z BY <1>4, <1>8
  <2>2. (u + w * z) * g = u * g + (w * g) * z BY <1>2, <1>4, <1>8
  <2> QED BY <2>1, <2>2
<1>10. Balance(key, a, c, t) = B + (w * g) * z
  <2>0. u * g \in Int /\ v * g \in Int /\ (w * g) * z \in Int /\ -(5 * a) + 6 \in Int
    BY <1>2, <1>4, <1>8
  <2>1. PICK p, q, r, m : /\ p = u * g /\ q = v * g /\ r = (w * g) * z /\ m = -(5 * a) + 6
                          /\ p \in Int /\ q \in Int /\ r \in Int /\ m \in Int
    BY <2>0, Zenon
  <2>2. PICK n : n = c * d /\ n \in Int BY <1>2
  <2>3. B = m + p + n BY <1>5, <2>1, <2>2
  <2>4. Balance(key, a, c, t) = m + q + n BY <1>7, <2>1, <2>2
  <2>5. q = p + r BY <1>9, <2>1
  <2>6. m + (p + r) + n = (m + p + n) + r BY <2>1, <2>2, Shifted
  <2>7. Balance(key, a, c, t) = B + r BY ONLY <2>3, <2>4, <2>5, <2>6
  <2> QED BY <2>1, <2>7
<1>11. Unit(w * g) /\ w * g \in Int BY <1>1, WeightUnits
<1>12. PICK n : n = w * g /\ n \in Int /\ Unit(n) BY <1>11
<1>13. B % Order = 0 /\ (B + n * (x - y)) % Order = 0 BY <1>6, <1>8, <1>10, <1>12
<1> QED BY <1>5, <1>12, <1>13, OnlyOne

\* A proof is verified for some signals, and for no others that differ in one of them.
VerifiedFor(key, proof, s) == Verify(key, NegG1(proof.a), EncodeG2(proof.b), EncodeG1(proof.c), s)

BoundTo(key, proof, s1, s2, s3, s4) ==
  /\ VerifiedFor(key, proof, <<s1, s2, s3, s4>>)
  /\ \A x \in Field : /\ VerifiedFor(key, proof, <<x, s2, s3, s4>>) => x = s1
                      /\ VerifiedFor(key, proof, <<s1, x, s3, s4>>) => x = s2
                      /\ VerifiedFor(key, proof, <<s1, s2, x, s4>>) => x = s3
                      /\ VerifiedFor(key, proof, <<s1, s2, s3, x>>) => x = s4

LEMMA ProofBinds ==
  ASSUME NEW key \in Keys, NEW s1 \in Field, NEW s2 \in Field, NEW s3 \in Field, NEW s4 \in Field
  PROVE  BoundTo(key, FullProve(key, <<s1, s2, s3, s4>>, 7 % Order, 5), s1, s2, s3, s4)
<1>p. PICK proof : proof = FullProve(key, <<s1, s2, s3, s4>>, 7 % Order, 5) OBVIOUS
<1> DEFINE V(s) == Verify(key, NegG1(proof.a), EncodeG2(proof.b), EncodeG1(proof.c), s)
           a == 7 % Order
           s == <<s1, s2, s3, s4>>
           x0 == key.ic[1] + key.ic[2] * s[1] + key.ic[3] * s[2] + key.ic[4] * s[3] + key.ic[5] * s[4]
           Good(i) == (a * 5 - key.alpha * key.beta - x0 * key.gamma - i * key.delta) % Order = 0
           c == CHOOSE i \in Field : Good(i)
<1>1. proof = [a |-> G1(a), b |-> G2(5), c |-> G1(c)] BY <1>p DEF FullProve
<1>2. PICK g, d : /\ g = key.gamma /\ d = key.delta /\ g \in {1, 4} /\ d \in {2, Order - 1}
                  /\ key.alpha = 2 /\ key.beta = 3 /\ key.ic = Weights
  BY KeysAre
<1>3. a \in Field BY SmallNumbers
<1>4. Order \in Int /\ g \in Int /\ d \in Int BY <1>2, InField
<1> HIDE DEF a
<1>5. a \in Int /\ s1 \in Int /\ s2 \in Int /\ s3 \in Int /\ s4 \in Int BY <1>3, InField
<1>6. s \in Seq(Int) /\ Len(s) = 4 /\ s[1] = s1 /\ s[2] = s2 /\ s[3] = s3 /\ s[4] = s4 BY <1>5
<1>7. x0 = Weighed(s)
  <2>1. Weights[1] = 1 /\ Weights[2] = 2 /\ Weights[3] = 4 /\ Weights[4] = 3 /\ Weights[5] = 5
    BY DEF Weights
  <2>2. x0 = 1 + 2 * s1 + 4 * s2 + 3 * s3 + 5 * s4 BY <1>2, <1>6, <2>1
  <2>3. Weighed(s) = 1 + s1 * 2 + s2 * 4 + s3 * 3 + s4 * 5 BY <1>6 DEF Weighed
  <2> QED BY <1>5, <2>2, <2>3
<1> HIDE DEF s, x0
<1>8. PICK u : u = Weighed(s) /\ u \in Int BY <1>6, FourSignals
<1>9. PICK t : t = a * 5 - 6 - u * g /\ t \in Int BY <1>4, <1>5, <1>8
<1>10. \A i \in Field : Good(i) <=> (t - i * d) % Order = 0
  <2>1. key.alpha * key.beta = 6 BY <1>2
  <2> QED BY <1>2, <1>7, <1>8, <1>9, <2>1
<1> HIDE DEF Good
<1>11. \E i \in Field : Good(i) BY <1>2, <1>9, <1>10, ProofExists
<1>12. c \in Field /\ (t - c * d) % Order = 0 BY <1>10, <1>11
<1> HIDE DEF c
<1>13. c \in Int BY <1>12, InField
<1>14. ASSUME NEW r \in Seq(Int), Len(r) = 4 PROVE V(r) <=> Balance(key, a, c, r) % Order = 0
  <2>1. proof.a = G1(a) /\ proof.b = G2(5) /\ proof.c = G1(c) BY <1>1
  <2>2. Verify(key, NegG1(G1(a)), EncodeG2(G2(5)), EncodeG1(G1(c)), r)
          <=> Balance(key, a, c, r) % Order = 0
    BY <1>2, <1>3, <1>4, <1>12, <1>14, VerifyIs
  <2> QED BY <2>1, <2>2
<1>15. Balance(key, a, c, s) % Order = 0
  <2>1. Balance(key, a, c, s) = -(5 * a) + 6 + u * g + c * d BY <1>2, <1>8 DEF Balance
  <2>2. PICK p, q : p = u * g /\ q = c * d /\ p \in Int /\ q \in Int BY <1>4, <1>8, <1>13
  <2>3. t - q \in Int /\ Same(t - q, 0)
    <3>1. t - q \in Int /\ (t - q) % Order = 0 BY <1>9, <1>12, <2>2
    <3> QED BY <3>1, SameZero
  <2>4. PICK m : m = -1 /\ m \in Int /\ 0 \in Int OBVIOUS
  <2>5. Same(m * (t - q), m * 0) BY <2>3, <2>4, SameProduct
  <2>6. m * 0 = 0 /\ m * (t - q) = q - t BY <1>9, <2>2, <2>4
  <2>7. Balance(key, a, c, s) = q - t BY <1>5, <1>9, <2>1, <2>2
  <2>8. Same(q - t, 0) /\ q - t \in Int BY <1>9, <2>2, <2>5, <2>6
  <2> QED BY <2>7, <2>8, SameZero
<1> HIDE DEF V
<1>16. V(s) BY <1>6, <1>14, <1>15
<1>17. ASSUME NEW x \in Field, V(<<x, s2, s3, s4>>) PROVE x = s1
  <2> DEFINE r == <<x, s2, s3, s4>>
  <2>1. x \in Int BY InField
  <2>2. r \in Seq(Int) /\ Len(r) = 4 /\ r[1] = x /\ r[2] = s2 /\ r[3] = s3 /\ r[4] = s4
    BY <1>5, <2>1
  <2> HIDE DEF r
  <2>3. Weighed(r) = Weighed(s) + 2 * (x - s1) BY <1>5, <1>6, <2>1, <2>2 DEF Weighed
  <2>4. Balance(key, a, c, r) % Order = 0 BY <1>14, <1>17, <2>2 DEF r
  <2>5. 2 \in {2, 3, 4, 5} OBVIOUS
  <2> QED BY <1>3, <1>6, <1>12, <1>15, <2>2, <2>3, <2>4, <2>5, OneSignal
<1>18. ASSUME NEW x \in Field, V(<<s1, x, s3, s4>>) PROVE x = s2
  <2> DEFINE r == <<s1, x, s3, s4>>
  <2>1. x \in Int BY InField
  <2>2. r \in Seq(Int) /\ Len(r) = 4 /\ r[1] = s1 /\ r[2] = x /\ r[3] = s3 /\ r[4] = s4
    BY <1>5, <2>1
  <2> HIDE DEF r
  <2>3. Weighed(r) = Weighed(s) + 4 * (x - s2) BY <1>5, <1>6, <2>1, <2>2 DEF Weighed
  <2>4. Balance(key, a, c, r) % Order = 0 BY <1>14, <1>18, <2>2 DEF r
  <2>5. 4 \in {2, 3, 4, 5} OBVIOUS
  <2> QED BY <1>3, <1>6, <1>12, <1>15, <2>2, <2>3, <2>4, <2>5, OneSignal
<1>19. ASSUME NEW x \in Field, V(<<s1, s2, x, s4>>) PROVE x = s3
  <2> DEFINE r == <<s1, s2, x, s4>>
  <2>1. x \in Int BY InField
  <2>2. r \in Seq(Int) /\ Len(r) = 4 /\ r[1] = s1 /\ r[2] = s2 /\ r[3] = x /\ r[4] = s4
    BY <1>5, <2>1
  <2> HIDE DEF r
  <2>3. Weighed(r) = Weighed(s) + 3 * (x - s3) BY <1>5, <1>6, <2>1, <2>2 DEF Weighed
  <2>4. Balance(key, a, c, r) % Order = 0 BY <1>14, <1>19, <2>2 DEF r
  <2>5. 3 \in {2, 3, 4, 5} OBVIOUS
  <2> QED BY <1>3, <1>6, <1>12, <1>15, <2>2, <2>3, <2>4, <2>5, OneSignal
<1>20. ASSUME NEW x \in Field, V(<<s1, s2, s3, x>>) PROVE x = s4
  <2> DEFINE r == <<s1, s2, s3, x>>
  <2>1. x \in Int BY InField
  <2>2. r \in Seq(Int) /\ Len(r) = 4 /\ r[1] = s1 /\ r[2] = s2 /\ r[3] = s3 /\ r[4] = x
    BY <1>5, <2>1
  <2> HIDE DEF r
  <2>3. Weighed(r) = Weighed(s) + 5 * (x - s4) BY <1>5, <1>6, <2>1, <2>2 DEF Weighed
  <2>4. Balance(key, a, c, r) % Order = 0 BY <1>14, <1>20, <2>2 DEF r
  <2>5. 5 \in {2, 3, 4, 5} OBVIOUS
  <2> QED BY <1>3, <1>6, <1>12, <1>15, <2>2, <2>3, <2>4, <2>5, OneSignal
<1>21. V(<<s1, s2, s3, s4>>) BY <1>16 DEF s
<1>22. BoundTo(key, proof, s1, s2, s3, s4)
  BY <1>17, <1>18, <1>19, <1>20, <1>21 DEF V, BoundTo, VerifiedFor
<1> QED BY <1>p, <1>22

\* A call is verified, and for no other value of any of its arguments.
BindsCall(key, call) ==
  /\ Verifies(key, call)
  /\ \A x \in Field :
       /\ x # call.root => ~Verifies(key, [call EXCEPT !.root = x])
       /\ x # call.nullifierHash => ~Verifies(key, [call EXCEPT !.nullifierHash = x])
       /\ x # call.recipientField => ~Verifies(key, [call EXCEPT !.recipientField = x])
       /\ x # call.amount => ~Verifies(key, [call EXCEPT !.amount = x])

CallFor(key, in) == EncodeWithdrawProof(FullProve(key, PublicSignals(in), 7 % Order, 5), PublicSignals(in))

\* groth16.rs, proof-encoding.ts: whatever the field and the tree, the input that a client builds
\* for its note satisfies the circuit; the encoded proof is verified for the root, nullifier,
\* recipient and amount it was made for, and for no other value of any of them.
THEOREM NoteBinds ==
  ASSUME NEW key \in Keys, NEW secret \in Field, NEW nullifier \in Field,
         NEW amount \in 1..I128Max, NEW recipient \in Nat,
         NEW leaves \in Seq(Field), Len(leaves) <= Capacity, NEW k \in 1..Len(leaves),
         leaves[k] = WithDerived(secret, nullifier, amount).commitment
  PROVE  LET in == WithdrawInput(WithDerived(secret, nullifier, amount), recipient, leaves, k - 1)
         IN  Withdraw(in) /\ BindsCall(key, CallFor(key, in))
<1>i. PICK in : in = WithdrawInput(WithDerived(secret, nullifier, amount), recipient, leaves, k - 1)
  OBVIOUS
<1>c. PICK call : call = CallFor(key, in) OBVIOUS
<1>n. PICK n : n = WithDerived(secret, nullifier, amount) OBVIOUS
<1>s. PICK s1, s2, s3 : s1 = RootOf("client", leaves) /\ s2 = n.nullifierHash /\ s3 = ToField(recipient)
  OBVIOUS
<1>p. PICK proof : proof = FullProve(key, <<s1, s2, s3, amount>>, 7 % Order, 5) OBVIOUS
<1> DEFINE V(s) == VerifiedFor(key, proof, s)
<1>1. amount \in Field /\ amount \in Int /\ I128Max \in Nat /\ I128Max < Order
  BY NotesAssumption, InField DEF Field
<1>2. s2 \in Field /\ n.amount = amount
  <2>1. NoteOf(n, secret, nullifier, amount) BY <1>1, <1>n, NoteFields
  <2> QED BY <1>s, <2>1 DEF NoteOf
<1>3. s1 \in Field /\ s3 \in Field BY <1>s, RootInField, ToFieldIs
<1>4. Withdraw(in) BY <1>1, <1>i, InputSatisfies
<1>5. in.root = s1 /\ in.nullifierHash = s2 /\ in.recipient = s3 /\ in.amount = amount
  BY <1>2, <1>i, <1>n, <1>s DEF WithdrawInput
<1>6. PublicSignals(in) = <<s1, s2, s3, amount>> BY <1>5 DEF PublicSignals
<1>7. ToField(s1) = s1 /\ ToField(s2) = s2 /\ ToField(s3) = s3 BY <1>2, <1>3, FieldIs
<1>8. /\ V(<<s1, s2, s3, amount>>)
      /\ \A x \in Field : /\ V(<<x, s2, s3, amount>>) => x = s1
                          /\ V(<<s1, x, s3, amount>>) => x = s2
                          /\ V(<<s1, s2, x, amount>>) => x = s3
                          /\ V(<<s1, s2, s3, x>>) => x = amount
  <2>1. BoundTo(key, proof, s1, s2, s3, amount) BY <1>1, <1>2, <1>3, <1>p, ProofBinds
  <2> QED BY <2>1 DEF BoundTo
<1> DEFINE p == NegG1(proof.a)
           q == EncodeG2(proof.b)
           r == EncodeG1(proof.c)
<1>9. call = [negA |-> p, b |-> q, c |-> r, root |-> s1, nullifierHash |-> s2, recipientField |-> s3,
              amount |-> amount]
  <2>1. call = EncodeWithdrawProof(proof, <<s1, s2, s3, amount>>) BY <1>6, <1>c, <1>p DEF CallFor
  <2> QED BY <1>7, <2>1 DEF EncodeWithdrawProof
<1>10. \A s : V(s) <=> Verify(key, p, q, r, s) BY DEF VerifiedFor
<1> HIDE DEF p, q, r, V
<1>11. \A x \in 1..I128Max : AmountToFr(x) = x
  <2> TAKE x \in 1..I128Max
  <2>1. x \in Nat /\ 2 * (I128Max + 1) \in Nat \ {0} /\ x < 2 * (I128Max + 1) BY <1>1
  <2> QED BY <2>1, Remainder DEF AmountToFr
<1>12. Verifies(key, call) BY <1>8, <1>9, <1>10, <1>11 DEF Verifies
<1>13. ASSUME NEW x \in Field, Verifies(key, [call EXCEPT !.root = x]) PROVE x = call.root
  <2>1. [call EXCEPT !.root = x] = [negA |-> p, b |-> q, c |-> r, root |-> x, nullifierHash |-> s2,
          recipientField |-> s3, amount |-> amount]
    BY <1>9
  <2>2. V(<<x, s2, s3, amount>>) BY <1>10, <1>11, <1>13, <2>1 DEF Verifies
  <2>4. x = s1 BY <1>8, <2>2
  <2>5. call.root = s1 BY <1>9
  <2> QED BY <2>4, <2>5
<1>14. ASSUME NEW x \in Field, Verifies(key, [call EXCEPT !.nullifierHash = x]) PROVE x = call.nullifierHash
  <2>1. [call EXCEPT !.nullifierHash = x] = [negA |-> p, b |-> q, c |-> r, root |-> s1, nullifierHash |-> x,
          recipientField |-> s3, amount |-> amount]
    BY <1>9
  <2>2. V(<<s1, x, s3, amount>>) BY <1>10, <1>11, <1>14, <2>1 DEF Verifies
  <2>4. x = s2 BY <1>8, <2>2
  <2>5. call.nullifierHash = s2 BY <1>9
  <2> QED BY <2>4, <2>5
<1>15. ASSUME NEW x \in Field, Verifies(key, [call EXCEPT !.recipientField = x]) PROVE x = call.recipientField
  <2>1. [call EXCEPT !.recipientField = x] = [negA |-> p, b |-> q, c |-> r, root |-> s1,
          nullifierHash |-> s2, recipientField |-> x, amount |-> amount]
    BY <1>9
  <2>2. V(<<s1, s2, x, amount>>) BY <1>10, <1>11, <1>15, <2>1 DEF Verifies
  <2>4. x = s3 BY <1>8, <2>2
  <2>5. call.recipientField = s3 BY <1>9
  <2> QED BY <2>4, <2>5
<1>16. ASSUME NEW x \in Field, Verifies(key, [call EXCEPT !.amount = x]) PROVE x = call.amount
  <2>1. [call EXCEPT !.amount = x] = [negA |-> p, b |-> q, c |-> r, root |-> s1, nullifierHash |-> s2,
          recipientField |-> s3, amount |-> x]
    BY <1>9
  <2>2. x \in 1..I128Max BY <1>16, <2>1 DEF Verifies
  <2>3. V(<<s1, s2, s3, x>>) BY <1>10, <1>11, <1>16, <2>1, <2>2 DEF Verifies
  <2>4. x = amount BY <1>8, <2>3
  <2>5. call.amount = amount BY <1>9
  <2> QED BY <2>4, <2>5
<1>17. BindsCall(key, call) BY <1>12, <1>13, <1>14, <1>15, <1>16 DEF BindsCall
<1> QED BY <1>4, <1>17, <1>i, <1>c

\* commit.ts: the commitment of a payment that the client derives is the one the circuit accepts.
LEMMA CommitmentsAgree ==
  ASSUME NEW secret \in Nat, NEW blinding \in Field
  PROVE  /\ Commit(secret, blinding, DeriveCommitment(secret, blinding))
         /\ ProveCommitment(secret, blinding) = DeriveCommitment(secret, blinding)
<1>1. blinding \in Nat /\ blinding % Order = blinding /\ Order \in Nat \ {0} BY InField
<1>2. PICK q : q = secret * secret /\ q \in Nat OBVIOUS
<1>3. PICK r : r = q % Order /\ r \in Int /\ r \in Nat /\ Same(r, q)
  BY <1>2, InField, SameReduced
<1>4. PICK c : c = (r + blinding) % Order /\ c \in Int /\ Same(c, r + blinding)
  <2>1. r + blinding \in Int BY <1>1, <1>3
  <2> QED BY <2>1, SameReduced
<1>5. PICK j : j \in Int /\ r = q + Order * j BY <1>3 DEF Same
<1>6. PICK k : k \in Int /\ c = r + blinding + Order * k BY <1>4 DEF Same
<1>7. Order * (-j - k) = -(Order * j) - Order * k /\ -j - k \in Int BY <1>1, <1>5, <1>6
<1>8. PICK u, v, w : /\ u = Order * j /\ v = Order * k /\ w = Order * (-j - k)
                     /\ u \in Int /\ v \in Int /\ w \in Int
  BY <1>1, <1>5, <1>6
<1>9. q + blinding - c = w
  <2>1. r = q + u /\ c = r + blinding + v /\ w = -u - v BY <1>5, <1>6, <1>7, <1>8
  <2>2. blinding \in Int /\ q \in Int /\ r \in Int /\ c \in Int /\ u \in Int /\ v \in Int
    BY <1>1, <1>2, <1>3, <1>4, <1>8
  <2> QED BY <2>1, <2>2
<1>10. (q + blinding - c) % Order = 0
  <2>1. q + blinding - c \in Int BY <1>1, <1>2, <1>4
  <2> QED BY <1>7, <1>8, <1>9, <2>1, Vanishes
<1>11. DeriveCommitment(secret, blinding) = c BY <1>2, <1>3, <1>4 DEF DeriveCommitment
<1>12. ProveCommitment(secret, blinding) = c BY <1>1, <1>2, <1>3, <1>4 DEF ProveCommitment
<1>13. Commit(secret, blinding, c) BY <1>2, <1>10 DEF Commit
<1> QED BY <1>11, <1>12, <1>13

\* The notes, trees and recipients that the run enumerates are some of those.
THEOREM ProofsAlwaysBind == ProofsBind
<1> SUFFICES ASSUME NEW key \in Keys, NEW secret \in 1..2, NEW amount \in 1..2,
                    NEW recipient \in {1, Order + 3}, NEW index \in 0..1
    PROVE LET n      == WithDerived(secret, 3, amount)
              leaves == IF index = 0 THEN <<n.commitment, 5>> ELSE <<5, n.commitment, 6>>
              in     == WithdrawInput(n, recipient, leaves, index)
              call   == EncodeWithdrawProof(FullProve(key, PublicSignals(in), 7 % Order, 5), PublicSignals(in))
          IN  /\ Withdraw(in) /\ Verifies(key, call)
              /\ \A x \in Field :
                   /\ x # call.root => ~Verifies(key, [call EXCEPT !.root = x])
                   /\ x # call.nullifierHash => ~Verifies(key, [call EXCEPT !.nullifierHash = x])
                   /\ x # call.recipientField => ~Verifies(key, [call EXCEPT !.recipientField = x])
                   /\ x # call.amount => ~Verifies(key, [call EXCEPT !.amount = x])
              /\ \A blinding \in Field :
                   Commit(secret, blinding, DeriveCommitment(secret, blinding))
                   /\ ProveCommitment(secret, blinding) = DeriveCommitment(secret, blinding)
  BY DEF ProofsBind
<1>n. PICK n : n = WithDerived(secret, 3, amount) OBVIOUS
<1> DEFINE leaves == IF index = 0 THEN <<n.commitment, 5>> ELSE <<5, n.commitment, 6>>
           in     == WithdrawInput(n, recipient, leaves, index)
           call   == EncodeWithdrawProof(FullProve(key, PublicSignals(in), 7 % Order, 5), PublicSignals(in))
<1>1. 3 \in Field /\ 5 \in Field /\ 6 \in Field /\ secret \in Field /\ secret \in Nat
  BY SmallNumbers
<1>2. amount \in 1..I128Max /\ amount \in Field /\ recipient \in Nat
  BY SmallNumbers, NotesAssumption, InField DEF Field
<1>3. n.commitment \in Field BY <1>1, <1>2, <1>n, NoteFields DEF NoteOf
<1>4. PICK k : k = index + 1 /\ k - 1 = index OBVIOUS
<1>5. leaves \in Seq(Field) /\ Len(leaves) <= Capacity /\ k \in 1..Len(leaves) /\ leaves[k] = n.commitment
  <2>1. Capacity \in Nat /\ Capacity >= 4 BY RoomForFour, DepthAssumption
  <2>2. CASE index = 0
    <3>1. leaves = <<n.commitment, 5>> /\ k = 1 BY <1>4, <2>2
    <3> HIDE DEF leaves
    <3>2. leaves \in Seq(Field) /\ Len(leaves) = 2 /\ leaves[1] = n.commitment BY <1>1, <1>3, <3>1
    <3> QED BY <2>1, <3>1, <3>2
  <2>3. CASE index = 1
    <3>1. leaves = <<5, n.commitment, 6>> /\ k = 2 BY <1>4, <2>3
    <3> HIDE DEF leaves
    <3>2. leaves \in Seq(Field) /\ Len(leaves) = 3 /\ leaves[2] = n.commitment BY <1>1, <1>3, <3>1
    <3> QED BY <2>1, <3>1, <3>2
  <2> QED BY <2>2, <2>3
<1>6. in = WithdrawInput(n, recipient, leaves, k - 1) BY <1>4
<1>7. call = CallFor(key, in) BY DEF CallFor
<1> HIDE DEF leaves, in, call
<1>8. Withdraw(in) /\ BindsCall(key, call)
  <2>1. leaves[k] = WithDerived(secret, 3, amount).commitment BY <1>5, <1>n
  <2>2. LET i == WithdrawInput(WithDerived(secret, 3, amount), recipient, leaves, k - 1)
        IN  Withdraw(i) /\ BindsCall(key, CallFor(key, i))
    BY <1>1, <1>2, <1>5, <2>1, NoteBinds
  <2> QED BY <1>6, <1>7, <1>n, <2>2
<1>9. \A blinding \in Field : /\ Commit(secret, blinding, DeriveCommitment(secret, blinding))
                              /\ ProveCommitment(secret, blinding) = DeriveCommitment(secret, blinding)
  BY <1>1, CommitmentsAgree
<1>10. /\ Verifies(key, call)
       /\ \A x \in Field :
            /\ x # call.root => ~Verifies(key, [call EXCEPT !.root = x])
            /\ x # call.nullifierHash => ~Verifies(key, [call EXCEPT !.nullifierHash = x])
            /\ x # call.recipientField => ~Verifies(key, [call EXCEPT !.recipientField = x])
            /\ x # call.amount => ~Verifies(key, [call EXCEPT !.amount = x])
  BY <1>8 DEF BindsCall
<1> QED BY <1>8, <1>9, <1>10, <1>n, ZenonT(60) DEF call, in, leaves

\* For every field, depth, number of deposits and of requests: the three programs compute the same
\* hashes and roots, a proof binds what it was made for, and the path that a client builds from the
\* part of the history it has synced leads to the root it states.
THEOREM PathsAlwaysSatisfyCircuit == Spec => []PathsSatisfyCircuit
<1>1. PoolInv /\ TreeInv /\ ProverInv => PathsSatisfyCircuit
  <2> SUFFICES ASSUME PoolInv, TreeInv, ProverInv, NEW r \in Requests, request[r].pc = "prove",
                      NEW k \in 1..Len(request[r].leaves)
               PROVE  RootFromPath("pool", request[r].leaves[k], k - 1, PathOf("pool", request[r].leaves, k - 1))
                        = RootOf("pool", request[r].leaves)
    BY HashesDoAgree, TreesAlwaysAgree, NotesAlwaysRoundTrip, AmountsAlwaysExact, ProofsAlwaysBind
    DEF PathsSatisfyCircuit
  <2>1. PICK leaves : leaves = request[r].leaves OBVIOUS
  <2>2. Len(leaves) \in 0..Len(events) BY <2>1 DEF ProverInv, Synced
  <2>3. Len(events) \in Nat /\ Len(events) <= Capacity /\ Capacity \in Nat
    BY RequestIs, DepthAssumption DEF PoolInv, TypeOK, TreeInv
  <2>4. Len(leaves) \in 0..Capacity BY <2>2, <2>3
  <2> QED BY <2>1, <2>4, PathsLeadToTheRoot
<1> QED BY <1>1, PoolAlways, TreeAlways, ProverAlways, PTL
=============================================================================
