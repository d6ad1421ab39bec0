--------------------------- MODULE TreasuryProofs ---------------------------
(***************************************************************************)
(* The float of Treasury, for any payments, requests, settings, times held *)
(* and failures.  TreasuryInv says what a row of the positions may hold,   *)
(* what a request still knows of the row it read, and which payments may   *)
(* be paid out with their float swept in.                                  *)
(***************************************************************************)
EXTENDS TreasuryProperties, NumberLemmas

-----------------------------------------------------------------------------
(* The inductive invariant. *)

Position ==
  [status : {"NONE"} \cup AnyStatus, principal : Nat, sweptIn : Nat, sweptOut : Nat,
   accrued : Nat, feeBps : Bps, fee : Nat]

\* A row is recorded with the figures of one unwind, or of none.
RowOK(q) ==
  /\ q.status = "NONE" => q = NoPosition
  /\ q.status = "SWEPT_IN" => q.sweptOut = 0 /\ q.accrued = 0
  /\ q.sweptIn = Swapped(q.principal)
  /\ q.sweptOut = 0 \/ q.sweptOut = Swapped(q.principal + q.accrued)
  /\ q.fee = FeeAmount(q.accrued, q.feeBps)

\* Its float is not back, and nobody has been told.
Open(q) == q.status \in {"NONE", "SWEPT_IN"}

RequestRecords ==
  [pc : {"idle"}]
  \cup [pc : {"sweepIn"}, payment : Payments, source : Nat]
  \cup [pc : {"sweptIn"}, payment : Payments, principal : Nat, feeBps : Bps]
  \cup [pc : {"payout"}, payment : Payments]
  \cup [pc : {"unwind", "reread", "fallback", "payout"}, payment : Payments,
        accrued : Nat, fee : Nat, gross : Nat]

\* What a request has read of the row is still true of it when the request writes.
ReadsOK(s, pos) ==
  /\ s.pc = "unwind" =>
       /\ pos[s.payment].status # "NONE"
       /\ s.fee = FeeAmount(s.accrued, pos[s.payment].feeBps)
       /\ s.gross = pos[s.payment].principal + s.accrued
  /\ s.pc = "fallback" => pos[s.payment].status # "NONE"
  /\ s.pc = "reread" => ~Open(pos[s.payment])

\* A payout is about to be made only of a float that is back, or that it did not see.
PaysOK(s, pos, found) == s.pc = "payout" /\ Open(pos[s.payment]) => s.payment \in found

Typed ==
  /\ config \in Config
  /\ position \in [Payments -> Position]
  /\ paid \in [Payments -> BOOLEAN]
  /\ request \in [Requests -> RequestRecords]

TreasuryInv ==
  /\ Typed
  /\ \A p \in Payments : RowOK(position[p])
  /\ \A r \in Requests : ReadsOK(request[r], position) /\ PaysOK(request[r], position, unseen)
  /\ \A p \in Payments : paid[p] /\ Open(position[p]) => p \in unseen

-----------------------------------------------------------------------------
(* The figures are natural numbers, and a share is not more than the whole. *)

LEMMA RoundNat ==
  ASSUME NEW a \in Nat, NEW b \in Nat \ {0} PROVE Round(a, b) \in Nat
<1>1. 2 * a + b \in Nat /\ 2 * b \in Nat \ {0} OBVIOUS
<1> DEFINE x == 2 * a + b
           y == 2 * b
<1> HIDE DEF x, y
<1>2. x \in Nat /\ y \in Nat \ {0} BY <1>1 DEF x, y
<1>3. x \div y \in Nat BY <1>2
<1> QED BY <1>3 DEF Round, x, y

LEMMA SweepNat ==
  ASSUME NEW source \in Nat, NEW c \in Config PROVE SweepAmount(source, c) \in Nat
<1>1. c.minIdleBuffer \in Nat BY DEF Config
<1> DEFINE idle == source - c.minIdleBuffer
<1>2. idle \in Int BY <1>1
<1> HIDE DEF idle
<1>3. Max({0, idle}) = IF 0 >= idle THEN 0 ELSE idle BY <1>2, MaxOfTwo
<1>4. Max({0, idle}) \in Nat BY <1>2, <1>3
<1> QED BY <1>4 DEF SweepAmount, idle

LEMMA SwapLoses ==
  ASSUME NEW a \in Nat PROVE Swapped(a) \in Nat /\ Swapped(a) <= a
BY DEF Swapped, Round, SwapSlippageBps

LEMMA AccrueNat ==
  ASSUME NEW principal \in Nat, NEW days \in Int PROVE AccrueYield(principal, days) \in Nat
<1> SUFFICES ASSUME days > 0 PROVE Round(principal * YieldApyPercent * days, 100 * 365) \in Nat
  BY DEF AccrueYield
<1> DEFINE x == principal * YieldApyPercent * days
<1>1. x \in Nat BY DEF YieldApyPercent
<1>2. 100 * 365 \in Nat \ {0} OBVIOUS
<1> HIDE DEF x
<1> QED BY <1>1, <1>2, RoundNat DEF x

\* The product that fees are taken from.
LEMMA Product ==
  ASSUME NEW a \in Nat, NEW b \in Bps
  PROVE  /\ a * b \in Nat /\ a * b <= a * 10000
         /\ a * (10000 - b) = a * 10000 - a * b
<1>1. b \in Nat /\ 10000 - b \in Nat BY DEF Bps
<1>2. a * b \in Nat /\ a * (10000 - b) \in Nat BY <1>1
<1>3. a * (10000 - b) = a * 10000 - a * b BY <1>1
<1> QED BY <1>2, <1>3

LEMMA FeeBounded ==
  ASSUME NEW a \in Nat, NEW b \in Bps
  PROVE  FeeAmount(a, b) \in Nat /\ FeeAmount(a, b) <= a
<1> DEFINE n == a * b
<1>1. n \in Nat /\ n <= a * 10000 BY Product
<1> HIDE DEF n
<1>2. Round(n, 10000) \in Nat /\ Round(n, 10000) <= a BY <1>1 DEF Round
<1> QED BY <1>2 DEF FeeAmount, n

\* The net taken from an unrounded fee, and the net of a rounded one.
LEMMA NetRounds ==
  ASSUME NEW a \in Nat, NEW b \in Bps
  PROVE  Round(a * (10000 - b), 10000)
           = a - FeeAmount(a, b) + (IF (a * b) % 10000 = 5000 THEN 1 ELSE 0)
<1> DEFINE n == a * b
<1>1. n \in Nat /\ n <= a * 10000 /\ a * (10000 - b) = a * 10000 - n BY Product
<1> HIDE DEF n
<1>2. Round(a * 10000 - n, 10000)
        = a - Round(n, 10000) + (IF n % 10000 = 5000 THEN 1 ELSE 0)
  BY <1>1, SMTT(60) DEF Round
<1> QED BY <1>1, <1>2 DEF FeeAmount, n

LEMMA CentsNear ==
  ASSUME NEW x \in Nat
  PROVE  Cents(x) \in Nat /\ 2 * Cents(x) <= 2 * x + Cent /\ 2 * Cents(x) >= 2 * x - Cent
<1>1. Cent \in Nat \ {0} BY TreasuryAssumption
<1> DEFINE y == 2 * x + Cent
           d == 2 * Cent
           q == y \div d
<1>2. y \in Nat /\ d \in Nat \ {0} BY <1>1
<1>3. q \in Nat /\ d * q <= y /\ y < d * q + d
  <2> HIDE DEF y, d
  <2> QED BY <1>2, Division
<1>4. Cents(x) = Cent * q BY DEF Cents, Round
<1> HIDE DEF q
<1> DEFINE z == Cent * q
<1>5. z \in Nat /\ d * q = 2 * z BY <1>1, <1>3
<1> HIDE DEF z
<1> QED BY <1>1, <1>3, <1>4, <1>5 DEF y, d, z

-----------------------------------------------------------------------------
(* The steps. *)

\* A position keeps what it was swept in with, and does not come back.
Onward(pos, pos2) ==
  \A p \in Payments :
    /\ pos[p].status # "NONE" =>
         /\ pos2[p].status # "NONE"
         /\ pos2[p].principal = pos[p].principal /\ pos2[p].feeBps = pos[p].feeBps
    /\ Open(pos2[p]) => Open(pos[p])

\* A step of one request to s.
LEMMA RequestMoves ==
  ASSUME TreasuryInv, NEW r \in Requests, NEW s \in RequestRecords,
         request' = [request EXCEPT ![r] = s], config' = config, paid' = paid,
         unseen \subseteq unseen', position' \in [Payments -> Position],
         \A p \in Payments : RowOK(position'[p]),
         Onward(position, position'),
         ReadsOK(s, position'), PaysOK(s, position', unseen')
  PROVE  TreasuryInv'
<1>1. Typed' BY DEF TreasuryInv, Typed
<1>2. \A o \in Requests : ReadsOK(request'[o], position') /\ PaysOK(request'[o], position', unseen')
  <2> TAKE o \in Requests
  <2>1. CASE o = r BY <2>1 DEF TreasuryInv, Typed
  <2>2. CASE o # r
    <3>1. request'[o] = request[o] /\ request[o] \in RequestRecords
      BY <2>2 DEF TreasuryInv, Typed
    <3>2. ReadsOK(request[o], position) /\ PaysOK(request[o], position, unseen) BY DEF TreasuryInv
    <3>3. request[o].pc \in {"unwind", "fallback", "reread", "payout"} => request[o].payment \in Payments
      BY <3>1 DEF RequestRecords
    <3> HIDE DEF TreasuryInv
    <3>4. ReadsOK(request[o], position') BY <3>2, <3>3 DEF ReadsOK, Onward
    <3>5. PaysOK(request[o], position', unseen') BY <3>2, <3>3 DEF PaysOK, Onward
    <3> QED BY <3>1, <3>4, <3>5
  <2> QED BY <2>1, <2>2
<1>3. \A p \in Payments : paid'[p] /\ Open(position'[p]) => p \in unseen'
  BY DEF TreasuryInv, Onward
<1> QED BY <1>1, <1>2, <1>3 DEF TreasuryInv

\* A step of one request that leaves the positions alone.
LEMMA RequestReads ==
  ASSUME TreasuryInv, NEW r \in Requests, NEW s \in RequestRecords,
         request' = [request EXCEPT ![r] = s], UNCHANGED <<config, position, paid>>,
         unseen \subseteq unseen',
         ReadsOK(s, position), PaysOK(s, position, unseen')
  PROVE  TreasuryInv'
<1>1. Onward(position, position') BY DEF Onward
<1>2. position' \in [Payments -> Position] /\ \A p \in Payments : RowOK(position'[p])
  BY DEF TreasuryInv, Typed
<1>3. ReadsOK(s, position') /\ PaysOK(s, position', unseen') OBVIOUS
<1> HIDE DEF TreasuryInv
<1> QED BY <1>1, <1>2, <1>3, RequestMoves

\* A step of one request that changes the position of one payment.
LEMMA RequestWrites ==
  ASSUME TreasuryInv, NEW r \in Requests, NEW s \in RequestRecords, NEW p \in Payments,
         NEW q \in Position, RowOK(q), q.status # "NONE",
         position[p].status # "NONE" =>
           q.principal = position[p].principal /\ q.feeBps = position[p].feeBps,
         Open(q) => Open(position[p]),
         position' = [position EXCEPT ![p] = q],
         request' = [request EXCEPT ![r] = s], UNCHANGED <<config, paid, unseen>>,
         ReadsOK(s, position'), PaysOK(s, position', unseen)
  PROVE  TreasuryInv'
<1>1. position \in [Payments -> Position] /\ \A o \in Payments : RowOK(position[o])
  BY DEF TreasuryInv, Typed
<1>2. position' \in [Payments -> Position] BY <1>1
<1>3. \A o \in Payments : position'[o] = IF o = p THEN q ELSE position[o] BY <1>1
<1>4. \A o \in Payments : RowOK(position'[o]) BY <1>1, <1>3
<1>5. Onward(position, position') BY <1>3 DEF Onward
<1> HIDE DEF TreasuryInv
<1> QED BY <1>2, <1>4, <1>5, RequestMoves

LEMMA IdleKeeps ==
  ASSUME TreasuryInv, NEW r \in Requests, Become(r, Idle),
         UNCHANGED <<config, position, paid, unseen>>
  PROVE  TreasuryInv'
<1>1. Idle \in RequestRecords BY DEF Idle, RequestRecords
<1>2. ReadsOK(Idle, position) /\ PaysOK(Idle, position, unseen') BY DEF ReadsOK, PaysOK, Idle
<1> HIDE DEF TreasuryInv
<1> QED BY <1>1, <1>2, RequestReads DEF Become

LEMMA CreateKeeps ==
  ASSUME TreasuryInv, NEW r \in Requests, NEW p \in Payments, CreatePayment(r, p)
  PROVE  TreasuryInv'
<1>1. PICK source \in Sources :
        request' = [request EXCEPT ![r] = [pc |-> "sweepIn", payment |-> p, source |-> source]]
  BY DEF CreatePayment, Become
<1> DEFINE s == [pc |-> "sweepIn", payment |-> p, source |-> source]
<1>2. s \in RequestRecords BY TreasuryAssumption DEF RequestRecords
<1>3. ReadsOK(s, position) /\ PaysOK(s, position, unseen') BY DEF ReadsOK, PaysOK
<1>4. UNCHANGED <<config, position, paid, unseen>> BY DEF CreatePayment
<1> HIDE DEF TreasuryInv, s
<1>5. request' = [request EXCEPT ![r] = s] BY <1>1 DEF s
<1> QED BY <1>2, <1>3, <1>4, <1>5, RequestReads

LEMMA PlanKeeps ==
  ASSUME TreasuryInv, NEW r \in Requests, SweepInPlan(r) PROVE TreasuryInv'
<1> DEFINE eligible == SweepAmount(request[r].source, config)
           s == [pc |-> "sweptIn", payment |-> request[r].payment,
                 principal |-> eligible, feeBps |-> config.feeBps]
<1>1. UNCHANGED <<config, position, paid, unseen>> BY DEF SweepInPlan
<1>2. CASE eligible = 0
  <2>1. Become(r, Idle) BY <1>2 DEF SweepInPlan
  <2> QED BY <1>1, <2>1, IdleKeeps
<1>3. CASE eligible # 0
  <2>1. request[r].source \in Nat /\ request[r].payment \in Payments /\ config \in Config
    <3>1. request[r] \in RequestRecords /\ request[r].pc = "sweepIn"
      BY DEF TreasuryInv, Typed, SweepInPlan, At
    <3> QED BY <3>1 DEF RequestRecords, TreasuryInv, Typed
  <2>2. eligible \in Nat BY <2>1, SweepNat
  <2>3. config.feeBps \in Bps BY <2>1 DEF Config
  <2>4. request' = [request EXCEPT ![r] = s] BY <1>3 DEF SweepInPlan, Become
  <2> HIDE DEF eligible
  <2>5. s \in RequestRecords BY <2>1, <2>2, <2>3 DEF RequestRecords
  <2>6. ReadsOK(s, position) /\ PaysOK(s, position, unseen') BY DEF ReadsOK, PaysOK
  <2> HIDE DEF TreasuryInv, s
  <2> QED BY <1>1, <2>4, <2>5, <2>6, RequestReads
<1> QED BY <1>2, <1>3

LEMMA StoreKeeps ==
  ASSUME TreasuryInv, NEW r \in Requests, SweepInStore(r) PROVE TreasuryInv'
<1> DEFINE p == request[r].payment
           principal == request[r].principal
           q == [NoPosition EXCEPT !.status = "SWEPT_IN", !.principal = principal,
                                   !.sweptIn = Swapped(principal), !.feeBps = request[r].feeBps]
<1>1. p \in Payments /\ principal \in Nat /\ request[r].feeBps \in Bps
  <2>1. request[r] \in RequestRecords /\ request[r].pc = "sweptIn"
    BY DEF TreasuryInv, Typed, SweepInStore, At
  <2> QED BY <2>1 DEF RequestRecords
<1>2. Swapped(principal) \in Nat BY <1>1, SwapLoses
<1>3. /\ q.status = "SWEPT_IN" /\ q.principal = principal /\ q.sweptIn = Swapped(principal)
      /\ q.sweptOut = 0 /\ q.accrued = 0 /\ q.feeBps = request[r].feeBps /\ q.fee = 0
  BY DEF NoPosition
<1>4. q \in Position
  <2>1. NoPosition \in Position BY DEF NoPosition, Position, Bps
  <2> QED BY <1>1, <1>2, <2>1 DEF Position, AnyStatus
<1>5. RowOK(q)
  <2>1. FeeAmount(0, request[r].feeBps) = 0
    <3>1. FeeAmount(0, request[r].feeBps) \in Nat /\ FeeAmount(0, request[r].feeBps) <= 0
      BY <1>1, FeeBounded
    <3> QED BY <3>1
  <2> QED BY <1>3, <2>1 DEF RowOK
<1>6. position[p].status = "NONE" /\ position' = [position EXCEPT ![p] = q]
  BY DEF SweepInStore
<1>7. request' = [request EXCEPT ![r] = Idle] /\ UNCHANGED <<config, paid, unseen>>
  BY DEF SweepInStore, Become
<1>8. Idle \in RequestRecords BY DEF Idle, RequestRecords
<1>9. ReadsOK(Idle, position') /\ PaysOK(Idle, position', unseen) BY DEF ReadsOK, PaysOK, Idle
<1>10. q.status = "SWEPT_IN" BY <1>3
<1>11. Open(q) => Open(position[p]) BY <1>6 DEF Open
<1> HIDE DEF TreasuryInv, p, q
<1> QED BY <1>1, <1>4, <1>5, <1>6, <1>7, <1>8, <1>9, <1>10, <1>11, RequestWrites

-----------------------------------------------------------------------------
(* The payout. *)

LEMMA PayoutKeeps ==
  ASSUME TreasuryInv, NEW r \in Requests, NEW p \in Payments, Payout(r, p)
  PROVE  TreasuryInv'
<1>1. UNCHANGED <<config, position, paid>> /\ unseen \subseteq unseen' BY DEF Payout
<1>2. position[p] \in Position BY DEF TreasuryInv, Typed
<1>3. CASE position[p].status = "SWEPT_IN"
  <2>1. PICK days \in Holds :
          LET accrued == AccrueYield(position[p].principal, days) IN
          request' = [request EXCEPT ![r] = [pc |-> "unwind", payment |-> p, accrued |-> accrued,
                       fee |-> FeeAmount(accrued, position[p].feeBps),
                       gross |-> position[p].principal + accrued]]
    BY <1>3 DEF Payout, Become
  <2> DEFINE accrued == AccrueYield(position[p].principal, days)
             fee == FeeAmount(accrued, position[p].feeBps)
             s == [pc |-> "unwind", payment |-> p, accrued |-> accrued, fee |-> fee,
                   gross |-> position[p].principal + accrued]
  <2>2. position[p].principal \in Nat /\ position[p].feeBps \in Bps /\ days \in Int
    BY <1>2, TreasuryAssumption DEF Position
  <2>3. accrued \in Nat BY <2>2, AccrueNat
  <2>4. request' = [request EXCEPT ![r] = s] BY <2>1
  <2> HIDE DEF accrued
  <2>5. fee \in Nat BY <2>2, <2>3, FeeBounded
  <2>6. ReadsOK(s, position) /\ PaysOK(s, position, unseen') BY <1>3 DEF ReadsOK, PaysOK
  <2> HIDE DEF fee
  <2>7. s \in RequestRecords BY <2>2, <2>3, <2>5 DEF RequestRecords
  <2> HIDE DEF TreasuryInv, s
  <2> QED BY <1>1, <2>4, <2>6, <2>7, RequestReads
<1>4. CASE position[p].status # "SWEPT_IN"
  <2> DEFINE s == [pc |-> "payout", payment |-> p]
  <2>1. request' = [request EXCEPT ![r] = s] BY <1>4 DEF Payout, Become
  <2>2. s \in RequestRecords BY DEF RequestRecords
  <2>3. ReadsOK(s, position) BY DEF ReadsOK
  <2>4. PaysOK(s, position, unseen') BY <1>4 DEF PaysOK, Open, Payout
  <2> HIDE DEF TreasuryInv, s
  <2> QED BY <1>1, <2>1, <2>2, <2>3, <2>4, RequestReads
<1> QED BY <1>3, <1>4

\* A request that has begun to unwind goes on to another step of sweepOut or to the payout.
LEMMA Going ==
  ASSUME TreasuryInv, NEW r \in Requests, request[r].pc \in {"unwind", "reread", "fallback"},
         NEW pc \in {"reread", "fallback", "payout"}, Go(r, pc)
  PROVE  LET s == [request[r] EXCEPT !.pc = pc]
         IN /\ s \in RequestRecords /\ request' = [request EXCEPT ![r] = s]
            /\ s.pc = pc /\ s.payment = request[r].payment /\ s.payment \in Payments
            /\ request[r].accrued \in Nat /\ request[r].fee \in Nat /\ request[r].gross \in Nat
<1>1. request[r] \in [pc : {"unwind", "reread", "fallback", "payout"}, payment : Payments,
                      accrued : Nat, fee : Nat, gross : Nat]
  BY DEF TreasuryInv, Typed, RequestRecords
<1>2. request' = [request EXCEPT ![r] = [request[r] EXCEPT !.pc = pc]] BY DEF Go
<1> QED BY <1>1, <1>2 DEF RequestRecords

LEMMA GoingReads ==
  ASSUME TreasuryInv, NEW r \in Requests, request[r].pc \in {"unwind", "reread", "fallback"},
         NEW pc \in {"reread", "fallback", "payout"}, Go(r, pc),
         UNCHANGED <<config, position, paid, unseen>>,
         pc = "fallback" => position[request[r].payment].status # "NONE",
         pc \in {"reread", "payout"} => ~Open(position[request[r].payment])
  PROVE  TreasuryInv'
<1> DEFINE s == [request[r] EXCEPT !.pc = pc]
<1>1. /\ s \in RequestRecords /\ request' = [request EXCEPT ![r] = s]
      /\ s.pc = pc /\ s.payment = request[r].payment
  BY Going
<1> HIDE DEF s, TreasuryInv
<1>2. ReadsOK(s, position) BY <1>1 DEF ReadsOK
<1>3. PaysOK(s, position, unseen') BY <1>1 DEF PaysOK
<1> QED BY <1>1, <1>2, <1>3, RequestReads

\* The transaction of sweepOut, when it finds the position as the request read it.
LEMMA UnwoundKeeps ==
  ASSUME TreasuryInv, NEW r \in Requests, Held(r), UnwoundBy(r),
         NEW pc \in {"fallback", "payout"}, Go(r, pc), UNCHANGED <<config, paid, unseen>>
  PROVE  TreasuryInv'
<1> DEFINE s == [request[r] EXCEPT !.pc = pc]
           p == request[r].payment
           a == request[r].accrued
           q == [position[p] EXCEPT !.status = "SWEPT_OUT", !.sweptOut = Swapped(request[r].gross),
                                    !.accrued = a, !.fee = request[r].fee]
<1>1. /\ s \in RequestRecords /\ request' = [request EXCEPT ![r] = s]
      /\ s.pc = pc /\ s.payment = p /\ p \in Payments
      /\ a \in Nat /\ request[r].fee \in Nat /\ request[r].gross \in Nat
  BY Going DEF Held, At
<1>2. position[p] \in Position /\ position \in [Payments -> Position] /\ RowOK(position[p])
  BY <1>1 DEF TreasuryInv, Typed
<1>3. position' = [position EXCEPT ![p] = q]
  BY <1>1, <1>2 DEF UnwoundBy
<1>4. Swapped(request[r].gross) \in Nat BY <1>1, SwapLoses
<1>5. q \in Position BY <1>1, <1>2, <1>4 DEF Position, AnyStatus
<1>6. ReadsOK(request[r], position) /\ request[r].pc = "unwind" BY DEF TreasuryInv, Held, At
<1>7. /\ request[r].fee = FeeAmount(a, position[p].feeBps)
      /\ request[r].gross = position[p].principal + a
  BY <1>6 DEF ReadsOK
<1>8. /\ q.status = "SWEPT_OUT" /\ q.principal = position[p].principal
      /\ q.sweptIn = position[p].sweptIn /\ q.feeBps = position[p].feeBps
      /\ q.sweptOut = Swapped(request[r].gross) /\ q.accrued = a /\ q.fee = request[r].fee
  BY <1>2 DEF Position
<1> HIDE DEF q
<1>9. RowOK(q) BY <1>2, <1>7, <1>8 DEF RowOK
<1>10. position'[p] = q BY <1>1, <1>2, <1>3
<1> HIDE DEF s
<1>11. ReadsOK(s, position') /\ PaysOK(s, position', unseen)
  BY <1>1, <1>8, <1>10 DEF ReadsOK, PaysOK, Open
<1>12. ~Open(q) BY <1>8 DEF Open
<1> HIDE DEF TreasuryInv, p
<1> QED BY <1>1, <1>3, <1>5, <1>8, <1>9, <1>11, <1>12, RequestWrites

LEMMA FallbackKeeps ==
  ASSUME TreasuryInv, NEW r \in Requests, Fallback(r) PROVE TreasuryInv'
<1> DEFINE s == [request[r] EXCEPT !.pc = "payout"]
           p == request[r].payment
           q == [position[p] EXCEPT !.status = "FAILED"]
<1>0. request[r].pc = "fallback" /\ Go(r, "payout") BY DEF Fallback, At
<1>1. /\ s \in RequestRecords /\ request' = [request EXCEPT ![r] = s]
      /\ s.pc = "payout" /\ s.payment = p /\ p \in Payments
  BY <1>0, Going
<1>2. position[p] \in Position /\ position \in [Payments -> Position] /\ RowOK(position[p])
  BY <1>1 DEF TreasuryInv, Typed
<1>3. position' = [position EXCEPT ![p] = q] /\ UNCHANGED <<config, paid, unseen>>
  BY <1>1, <1>2 DEF Fallback
<1>4. q \in Position BY <1>2 DEF Position, AnyStatus
<1>5. /\ q.status = "FAILED" /\ q.principal = position[p].principal
      /\ q.sweptIn = position[p].sweptIn /\ q.feeBps = position[p].feeBps
      /\ q.sweptOut = position[p].sweptOut /\ q.accrued = position[p].accrued
      /\ q.fee = position[p].fee
  BY <1>2 DEF Position
<1> HIDE DEF q
<1>6. RowOK(q) BY <1>2, <1>5 DEF RowOK
<1>7. position'[p] = q BY <1>1, <1>2, <1>3
<1> HIDE DEF s
<1>8. ReadsOK(s, position') /\ PaysOK(s, position', unseen)
  BY <1>1, <1>5, <1>7 DEF ReadsOK, PaysOK, Open
<1>9. ~Open(q) BY <1>5 DEF Open
<1> HIDE DEF TreasuryInv, p
<1> QED BY <1>1, <1>3, <1>4, <1>5, <1>6, <1>8, <1>9, RequestWrites

LEMMA UnwindKeeps ==
  ASSUME TreasuryInv, NEW r \in Requests, Unwind(r) PROVE TreasuryInv'
<1>1. CASE Held(r) /\ UnwoundBy(r) /\ Go(r, "payout")
  <2>1. UNCHANGED <<config, paid, unseen>> BY DEF Unwind
  <2> QED BY <1>1, <2>1, UnwoundKeeps
<1>2. CASE At(r, "unwind") /\ ~Held(r) /\ Go(r, "reread") /\ UNCHANGED <<status, position>>
  <2>1. ReadsOK(request[r], position) BY DEF TreasuryInv
  <2>2. ~Open(position[request[r].payment]) BY <1>2, <2>1 DEF At, Held, ReadsOK, Open
  <2>3. UNCHANGED <<config, position, paid, unseen>> /\ request[r].pc = "unwind"
    BY <1>2 DEF Unwind, At
  <2> QED BY <1>2, <2>2, <2>3, GoingReads
<1> QED BY <1>1, <1>2 DEF Unwind

LEMMA UnwindThrowsKeeps ==
  ASSUME TreasuryInv, NEW r \in Requests, UnwindThrows(r) PROVE TreasuryInv'
<1>0. UNCHANGED <<config, paid, unseen>> /\ Go(r, "fallback") BY DEF UnwindThrows
<1>1. CASE request[r].pc \in {"unwind", "reread"} /\ UNCHANGED <<status, position>>
  <2>1. ReadsOK(request[r], position) BY DEF TreasuryInv
  <2>2. position[request[r].payment].status # "NONE" BY <1>1, <2>1 DEF ReadsOK, Open
  <2> QED BY <1>0, <1>1, <2>2, GoingReads
<1>2. CASE Held(r) /\ UnwoundBy(r) BY <1>0, <1>2, UnwoundKeeps
<1> QED BY <1>1, <1>2 DEF UnwindThrows

LEMMA RereadKeeps ==
  ASSUME TreasuryInv, NEW r \in Requests, Reread(r) PROVE TreasuryInv'
<1>1. /\ request[r].pc = "reread" /\ Go(r, "payout")
      /\ UNCHANGED <<config, position, paid, unseen>>
  BY DEF Reread, At
<1>2. ~Open(position[request[r].payment]) BY <1>1 DEF TreasuryInv, ReadsOK
<1> QED BY <1>1, <1>2, GoingReads

LEMMA TriggerKeeps ==
  ASSUME TreasuryInv, NEW r \in Requests, TriggerPayout(r) PROVE TreasuryInv'
<1> DEFINE p == request[r].payment
<1>1. request[r].pc = "payout" /\ request[r] \in RequestRecords
  BY DEF TreasuryInv, Typed, TriggerPayout, At
<1>2. p \in Payments BY <1>1 DEF RequestRecords
<1>3. Open(position[p]) => p \in unseen BY <1>1 DEF TreasuryInv, PaysOK
<1>4. /\ paid' = [paid EXCEPT ![p] = TRUE] /\ request' = [request EXCEPT ![r] = Idle]
      /\ UNCHANGED <<config, position, unseen>>
  BY DEF TriggerPayout, Become
<1>5. Idle \in RequestRecords BY DEF Idle, RequestRecords
<1>6. Typed' BY <1>4, <1>5 DEF TreasuryInv, Typed
<1>7. \A o \in Payments : paid'[o] /\ Open(position'[o]) => o \in unseen'
  <2>1. paid \in [Payments -> BOOLEAN] BY DEF TreasuryInv, Typed
  <2>2. \A o \in Payments : paid'[o] => paid[o] \/ o = p BY <1>4, <2>1
  <2> QED BY <1>3, <1>4, <2>2 DEF TreasuryInv
<1>8. \A o \in Requests : ReadsOK(request'[o], position') /\ PaysOK(request'[o], position', unseen')
  <2> TAKE o \in Requests
  <2>1. request'[o] = IF o = r THEN Idle ELSE request[o] BY <1>4 DEF TreasuryInv, Typed
  <2>2. ReadsOK(Idle, position) /\ PaysOK(Idle, position, unseen) BY DEF ReadsOK, PaysOK, Idle
  <2>3. ReadsOK(request[o], position) /\ PaysOK(request[o], position, unseen) BY DEF TreasuryInv
  <2> QED BY <1>4, <2>1, <2>2, <2>3
<1> QED BY <1>4, <1>6, <1>7, <1>8 DEF TreasuryInv

\* The settings and the spine do not touch what the invariant speaks of.
LEMMA OthersKeep ==
  ASSUME TreasuryInv, UNCHANGED <<position, paid, request, unseen>>, config' \in Config
  PROVE  TreasuryInv'
BY DEF TreasuryInv, Typed

-----------------------------------------------------------------------------
(* The invariant, and what follows of a step. *)

LEMMA TreasuryInit == Init => TreasuryInv
<1> SUFFICES ASSUME Init PROVE TreasuryInv OBVIOUS
<1>1. NoPosition \in Position BY DEF NoPosition, Position, Bps
<1>2. Idle \in RequestRecords BY DEF Idle, RequestRecords
<1>3. Defaults \in Config BY DEF Defaults, Config, Bps
<1>4. Typed BY <1>1, <1>2, <1>3 DEF Init, Typed
<1>5. RowOK(NoPosition)
  <2>1. FeeAmount(0, 0) = 0 /\ Swapped(0) = 0
    BY DEF FeeAmount, Swapped, Round, SwapSlippageBps
  <2> QED BY <2>1 DEF RowOK, NoPosition
<1>6. ReadsOK(Idle, position) /\ PaysOK(Idle, position, unseen) BY DEF ReadsOK, PaysOK, Idle
<1> QED BY <1>4, <1>5, <1>6 DEF Init, TreasuryInv

LEMMA SavedIsConfig ==
  ASSUME TreasuryInv, SaveYieldConfigAction PROVE config' \in Config
BY DEF SaveYieldConfigAction, Saved, TreasuryInv, Typed

LEMMA RequestKeeps ==
  ASSUME TreasuryInv, NEW r \in Requests,
         \/ RequestStep(r) \/ SweepInFails(r) \/ UnwindThrows(r) \/ FallbackThrows(r)
         \/ Crash(r) \/ \E p \in Payments : CreatePayment(r, p) \/ Payout(r, p)
  PROVE  TreasuryInv'
<1>1. CASE SweepInPlan(r) BY <1>1, PlanKeeps
<1>2. CASE SweepInStore(r) BY <1>2, StoreKeeps
<1>3. CASE Unwind(r) BY <1>3, UnwindKeeps
<1>4. CASE Reread(r) BY <1>4, RereadKeeps
<1>5. CASE Fallback(r) BY <1>5, FallbackKeeps
<1>6. CASE TriggerPayout(r) BY <1>6, TriggerKeeps
<1>7. CASE SweepInFails(r) BY <1>7, IdleKeeps DEF SweepInFails
<1>8. CASE UnwindThrows(r) BY <1>8, UnwindThrowsKeeps
<1>9. CASE Crash(r) BY <1>9, IdleKeeps DEF Crash
<1>10. ASSUME NEW p \in Payments, CreatePayment(r, p) PROVE TreasuryInv' BY <1>10, CreateKeeps
<1>11. ASSUME NEW p \in Payments, Payout(r, p) PROVE TreasuryInv' BY <1>11, PayoutKeeps
<1>12. CASE FallbackThrows(r) BY <1>12, IdleKeeps DEF FallbackThrows
<1> QED BY <1>1, <1>2, <1>3, <1>4, <1>5, <1>6, <1>7, <1>8, <1>9, <1>10, <1>11, <1>12 DEF RequestStep

LEMMA TreasuryNext == TreasuryInv /\ [Next]_vars => TreasuryInv'
<1> SUFFICES ASSUME TreasuryInv, [Next]_vars PROVE TreasuryInv' OBVIOUS
<1>0. config \in Config BY DEF TreasuryInv, Typed
<1>1. CASE SaveYieldConfigAction
  BY <1>1, SavedIsConfig, OthersKeep DEF SaveYieldConfigAction
<1>2. ASSUME NEW r \in Requests,
             \/ RequestStep(r) \/ SweepInFails(r) \/ UnwindThrows(r) \/ FallbackThrows(r)
             \/ Crash(r) \/ \E p \in Payments : CreatePayment(r, p) \/ Payout(r, p)
      PROVE  TreasuryInv'
  BY <1>2, RequestKeeps
<1>3. ASSUME NEW p \in Payments, Confirm(p) \/ Settle(p) \/ PayoutFails(p)
      PROVE  TreasuryInv'
  BY <1>0, <1>3, OthersKeep DEF Confirm, Settle, PayoutFails
<1>4. CASE UNCHANGED vars BY <1>0, <1>4, OthersKeep DEF vars
<1> QED BY <1>1, <1>2, <1>3, <1>4 DEF Next

LEMMA TreasuryAlways == Spec => []TreasuryInv
BY TreasuryInit, TreasuryNext, PTL DEF Spec

\* What an unwind has recorded stays, but for the flag of a fallback.
LEMMA RecordStays ==
  ASSUME TreasuryInv, [Next]_vars, NEW p \in Payments, position[p].sweptOut # 0
  PROVE  [position'[p] EXCEPT !.status = position[p].status] = position[p]
<1> DEFINE Same == [position'[p] EXCEPT !.status = position[p].status] = position[p]
<1>1. position \in [Payments -> Position] /\ position[p] \in Position /\ RowOK(position[p])
  BY DEF TreasuryInv, Typed
<1>2. position[p].status \notin {"NONE", "SWEPT_IN"} BY <1>1 DEF RowOK, NoPosition
<1>3. ASSUME position'[p] = position[p] PROVE Same BY <1>1, <1>3 DEF Position
<1>4. ASSUME NEW r \in Requests, SweepInStore(r) PROVE position'[p] = position[p]
  BY <1>1, <1>2, <1>4 DEF SweepInStore
<1>5. ASSUME NEW r \in Requests, Held(r), UnwoundBy(r) PROVE position'[p] = position[p]
  BY <1>1, <1>2, <1>5 DEF Held, UnwoundBy
<1>6. ASSUME NEW r \in Requests, Fallback(r) PROVE Same
  <2>1. CASE request[r].payment = p
    <3>1. position'[p] = [position[p] EXCEPT !.status = "FAILED"] BY <1>1, <1>6, <2>1 DEF Fallback
    <3> QED BY <1>1, <3>1 DEF Position
  <2>2. CASE request[r].payment # p
    <3>1. position'[p] = position[p] BY <1>1, <1>6, <2>2 DEF Fallback
    <3> QED BY <1>3, <3>1
  <2> QED BY <2>1, <2>2
<1>7. ASSUME UNCHANGED position PROVE Same BY <1>3, <1>7
<1> HIDE DEF Same
<1>8. ASSUME NEW r \in Requests,
             \/ RequestStep(r) \/ SweepInFails(r) \/ UnwindThrows(r) \/ FallbackThrows(r)
             \/ Crash(r) \/ \E o \in Payments : CreatePayment(r, o) \/ Payout(r, o)
      PROVE  Same
  <2>1. \/ UNCHANGED position \/ SweepInStore(r) \/ (Held(r) /\ UnwoundBy(r)) \/ Fallback(r)
    BY <1>8 DEF RequestStep, SweepInPlan, Unwind, Reread, TriggerPayout, SweepInFails,
            FallbackThrows, UnwindThrows, Crash, CreatePayment, Payout
  <2> QED BY <1>3, <1>4, <1>5, <1>6, <1>7, <2>1
<1>9. ASSUME ~ \E r \in Requests :
                 \/ RequestStep(r) \/ SweepInFails(r) \/ UnwindThrows(r)
                 \/ FallbackThrows(r) \/ Crash(r)
                 \/ \E o \in Payments : CreatePayment(r, o) \/ Payout(r, o)
      PROVE  Same
  <2>1. UNCHANGED position
    BY <1>9 DEF Next, vars, SaveYieldConfigAction, Confirm, Settle, PayoutFails
  <2> QED BY <1>7, <2>1
<1> QED BY <1>8, <1>9 DEF Same

\* What an unwind has recorded of a position, no other payout, fallback or crash records
\* again or loses, for any number of concurrent payouts.
THEOREM UnwindIsRecordedOnce == Spec => RecordedOnce
<1>1. TreasuryInv /\ [Next]_vars =>
        [\A p \in Payments : position[p].sweptOut # 0 =>
           [position'[p] EXCEPT !.status = position[p].status] = position[p]]_vars
  BY RecordStays
<1> QED BY <1>1, TreasuryAlways, PTL DEF Spec, RecordedOnce

\* Whatever fails or runs concurrently, a payment is paid out with its float back, flagged
\* FAILED, or swept in after the payout looked for it.
THEOREM FloatIsBack == Spec => []FloatComesBack
<1>1. TreasuryInv => FloatComesBack BY DEF TreasuryInv, FloatComesBack, Open
<1> QED BY <1>1, TreasuryAlways, PTL

-----------------------------------------------------------------------------
(* The figures of the dashboard, the report and the receipts. *)

Rows == Positions(AnyStatus)
Cells(f) == SumFunction([p \in Rows |-> AttributionRow(p)[f]])

LEMMA RowsAre ==
  ASSUME TreasuryInv
  PROVE  /\ IsFiniteSet(Rows) /\ Rows \subseteq Payments /\ Positions({"SWEPT_IN"}) \subseteq Rows
         /\ Cardinality(Rows) \in Nat /\ Cardinality(Rows) <= Cardinality(Payments)
         /\ Cardinality(Payments) \in Nat
         /\ \A p \in Rows : position[p] \in Position /\ RowOK(position[p])
         /\ \A p \in Rows : position[p].fee <= position[p].accrued
<1>1. Rows \subseteq Payments /\ Positions({"SWEPT_IN"}) \subseteq Rows
  BY DEF Rows, Positions, AnyStatus
<1>2. IsFiniteSet(Payments) BY TreasuryAssumption
<1>3. /\ IsFiniteSet(Rows) /\ Cardinality(Rows) \in Nat /\ Cardinality(Payments) \in Nat
      /\ Cardinality(Rows) <= Cardinality(Payments)
  BY <1>1, <1>2, FS_Subset, FS_CardinalityType
<1>4. \A p \in Rows : position[p] \in Position /\ RowOK(position[p])
  BY <1>1 DEF TreasuryInv, Typed
<1>5. \A p \in Rows : position[p].fee <= position[p].accrued
  <2> TAKE p \in Rows
  <2>1. position[p].accrued \in Nat /\ position[p].feeBps \in Bps BY <1>4 DEF Position
  <2>2. position[p].fee = FeeAmount(position[p].accrued, position[p].feeBps) BY <1>4 DEF RowOK
  <2> QED BY <2>1, <2>2, FeeBounded
<1> QED BY <1>1, <1>3, <1>4, <1>5

\* What the report adds up from its rows is what the dashboard adds up from the positions.
LEMMA CellsAreStored ==
  /\ Cells("accrued") = Stored("accrued", AnyStatus)
  /\ Cells("fee") = Stored("fee", AnyStatus)
<1>1. /\ \A p : AttributionRow(p)["accrued"] = position[p]["accrued"]
      /\ \A p : AttributionRow(p)["fee"] = position[p]["fee"]
  BY DEF AttributionRow
<1>2. /\ [p \in Rows |-> AttributionRow(p)["accrued"]] = [p \in Rows |-> position[p]["accrued"]]
      /\ [p \in Rows |-> AttributionRow(p)["fee"]] = [p \in Rows |-> position[p]["fee"]]
  BY <1>1
<1> QED BY <1>2 DEF Cells, Stored, Rows

\* The net of the rows adds up to the net of the totals.
LEMMA NetAddsUp ==
  ASSUME TreasuryInv
  PROVE  Cells("net") = Cells("accrued") - Cells("fee")
<1> DEFINE a == [p \in Rows |-> AttributionRow(p)["accrued"]]
           f == [p \in Rows |-> AttributionRow(p)["fee"]]
           n == [p \in Rows |-> AttributionRow(p)["net"]]
<1>1. \A p \in Rows : f[p] \in Int /\ n[p] \in Int /\ a[p] \in Int /\ a[p] = f[p] + n[p]
  <2> TAKE p \in Rows
  <2>1. position[p].accrued \in Nat /\ position[p].fee \in Nat BY RowsAre DEF Position
  <2> QED BY <2>1 DEF AttributionRow
<1>2. IsFiniteSet(Rows) BY RowsAre
<1>3. DOMAIN a = Rows /\ DOMAIN f = Rows /\ DOMAIN n = Rows OBVIOUS
<1>4. Cells("net") = SumFunction(n) /\ Cells("accrued") = SumFunction(a) /\ Cells("fee") = SumFunction(f)
  BY DEF Cells
<1> HIDE DEF a, f, n
<1>5. SumFunctionOnSet(a, Rows) = SumFunctionOnSet(f, Rows) + SumFunctionOnSet(n, Rows)
  BY <1>1, <1>2, SumPlus
<1>6. SumFunctionOnSet(f, Rows) \in Int /\ SumFunctionOnSet(n, Rows) \in Int
  BY <1>1, <1>2, SumInt
<1>7. /\ SumFunction(n) = SumFunctionOnSet(n, Rows) /\ SumFunction(a) = SumFunctionOnSet(a, Rows)
      /\ SumFunction(f) = SumFunctionOnSet(f, Rows)
  BY <1>3, SumWhole
<1> QED BY <1>4, <1>5, <1>6, <1>7

LEMMA NoRowsNoCells ==
  ASSUME Rows = {} PROVE \A f : Cells(f) = 0
<1> TAKE f
<1> DEFINE c == [p \in Rows |-> AttributionRow(p)[f]]
<1>1. DOMAIN c = {} OBVIOUS
<1>2. Cells(f) = SumFunction(c) BY DEF Cells
<1> HIDE DEF c
<1> QED BY <1>1, <1>2, SumWhole, SumEmpty

\* Every row is counted once.
LEMMA CountsAddUp ==
  ASSUME TreasuryInv
  PROVE  /\ {p \in Rows : AttributionRow(p).status = "SWEPT_IN"} = Positions({"SWEPT_IN"})
         /\ {p \in Rows : AttributionRow(p).status = "SWEPT_OUT"} = Positions({"SWEPT_OUT"})
         /\ {p \in Rows : AttributionRow(p).status = "FAILED"} = Positions({"FAILED"})
         /\ Cardinality(Rows) = Cardinality(Positions({"SWEPT_IN"}))
              + Cardinality(Positions({"SWEPT_OUT"})) + Cardinality(Positions({"FAILED"}))
<1> DEFINE i == Positions({"SWEPT_IN"})
           o == Positions({"SWEPT_OUT"})
           x == Positions({"FAILED"})
<1>1. \A p : AttributionRow(p).status = position[p].status BY DEF AttributionRow
<1>2. /\ {p \in Rows : AttributionRow(p).status = "SWEPT_IN"} = i
      /\ {p \in Rows : AttributionRow(p).status = "SWEPT_OUT"} = o
      /\ {p \in Rows : AttributionRow(p).status = "FAILED"} = x
  BY <1>1 DEF Rows, Positions, AnyStatus
<1>3. Rows = (i \cup o) \cup x /\ i \cap o = {} /\ (i \cup o) \cap x = {}
  BY DEF Rows, Positions, AnyStatus
<1>4. IsFiniteSet(Rows) /\ i \subseteq Rows /\ o \subseteq Rows /\ x \subseteq Rows
  BY <1>3, RowsAre
<1> HIDE DEF i, o, x
<1>5. IsFiniteSet(i) /\ IsFiniteSet(o) /\ IsFiniteSet(x) BY <1>4, FS_Subset
<1>6. Cardinality(i) \in Nat /\ Cardinality(o) \in Nat /\ Cardinality(x) \in Nat
  BY <1>5, FS_CardinalityType
<1>7. Cardinality(i \cup o) = Cardinality(i) + Cardinality(o) /\ IsFiniteSet(i \cup o)
  <2>1. Cardinality(i \cap o) = 0 BY <1>3, FS_EmptySet
  <2> QED BY <1>5, <1>6, <2>1, FS_Union
<1>8. Cardinality((i \cup o) \cup x) = Cardinality(i \cup o) + Cardinality(x)
  <2> DEFINE u == i \cup o
  <2>1. Cardinality(u \cap x) = 0 BY <1>3, FS_EmptySet
  <2>2. Cardinality(u) \in Nat /\ IsFiniteSet(u) BY <1>7, FS_CardinalityType
  <2> HIDE DEF u
  <2>3. Cardinality(u \cup x) = Cardinality(u) + Cardinality(x) - Cardinality(u \cap x)
    BY <1>5, <2>2, FS_Union
  <2>4. Cardinality(u \cup x) = Cardinality(u) + Cardinality(x) BY <1>6, <2>1, <2>2, <2>3
  <2> QED BY <2>4 DEF u
<1> QED BY <1>2, <1>3, <1>7, <1>8 DEF i, o, x

LEMMA CentsZero == Cents(0) = 0
<1>1. Cent \in Nat \ {0} BY TreasuryAssumption
<1> DEFINE d == 2 * Cent
           q == Cent \div d
<1>2. d \in Nat \ {0} BY <1>1
<1>3. q \in Nat /\ d * q <= Cent
  <2> HIDE DEF d
  <2> QED BY <1>1, <1>2, Division
<1>4. Cents(0) = Cent * q BY <1>1 DEF Cents, Round
<1> HIDE DEF q
<1>5. q = 0
  <2>1. ASSUME q >= 1 PROVE d * q >= d BY <1>2, <1>3, <2>1
  <2> QED BY <1>1, <1>3, <2>1
<1> QED BY <1>1, <1>4, <1>5

LEMMA Times ==
  ASSUME NEW a \in Nat, NEW b \in Nat, NEW c \in Nat, a <= b
  PROVE  a * c <= b * c
<1>1. (b - a) * c \in Nat /\ (b - a) * c = b * c - a * c OBVIOUS
<1>2. a * c \in Nat /\ b * c \in Nat OBVIOUS
<1> DEFINE x == a * c
           y == b * c
           z == (b - a) * c
<1> HIDE DEF x, y, z
<1>3. x <= y BY <1>1, <1>2 DEF x, y, z
<1> QED BY <1>3 DEF x, y

\* Rounding the positions one by one loses half a cent each, and rounding the total of
\* those in yield gains half a cent.
LEMMA PrincipalNear ==
  ASSUME TreasuryInv
  PROVE  Cells("principal") >= Cents(Stored("principal", {"SWEPT_IN"})) - Cent * Cardinality(Payments)
<1> DEFINE I == Positions({"SWEPT_IN"})
           x == [p \in Payments |-> position[p].principal]
           c == [p \in Payments |-> Cents(position[p].principal)]
           d == [p \in Payments |-> x[p] - c[p]]
           dd == [p \in Payments |-> d[p] + d[p]]
           N == Cardinality(Payments)
           n == Cardinality(Rows)
           X == SumFunctionOnSet(x, Rows)
           C == SumFunctionOnSet(c, Rows)
           D == SumFunctionOnSet(d, Rows)
           Y == SumFunctionOnSet(x, I)
<1>0. Cent \in Nat \ {0} /\ IsFiniteSet(Payments) BY TreasuryAssumption
<1>1. /\ IsFiniteSet(Rows) /\ Rows \subseteq Payments /\ I \subseteq Rows
      /\ n \in Nat /\ n <= N /\ N \in Nat
  BY RowsAre
<1>2. \A p \in Payments : position[p].principal \in Nat BY DEF TreasuryInv, Typed, Position
<1>3. \A p \in Rows : /\ x[p] \in Nat /\ c[p] \in Int /\ d[p] \in Int
                      /\ x[p] = c[p] + d[p] /\ dd[p] = d[p] + d[p] /\ dd[p] <= Cent
  <2> TAKE p \in Rows
  <2>1. p \in Payments /\ x[p] \in Nat BY <1>1, <1>2
  <2>2. c[p] \in Nat /\ 2 * c[p] >= 2 * x[p] - Cent BY <1>2, <2>1, CentsNear
  <2>3. d[p] = x[p] - c[p] /\ dd[p] = d[p] + d[p] BY <2>1
  <2> HIDE DEF x, c, d, dd
  <2> QED BY <1>0, <2>1, <2>2, <2>3
<1>4. Cells("principal") = C
  <2> DEFINE r == [p \in Rows |-> AttributionRow(p)["principal"]]
  <2>1. \A p \in Rows : r[p] = c[p] BY <1>1 DEF AttributionRow
  <2>2. DOMAIN r = Rows OBVIOUS
  <2>3. Cells("principal") = SumFunction(r) BY DEF Cells
  <2> HIDE DEF r, c
  <2> QED BY <1>1, <2>1, <2>2, <2>3, SumWhole, SumEqual
<1>5. Stored("principal", {"SWEPT_IN"}) = Y
  <2> DEFINE r == [p \in I |-> position[p]["principal"]]
  <2>1. \A p \in I : r[p] = x[p] BY <1>1
  <2>2. DOMAIN r = I OBVIOUS
  <2>3. Stored("principal", {"SWEPT_IN"}) = SumFunction(r) BY DEF Stored
  <2>4. IsFiniteSet(I) BY <1>1, FS_Subset
  <2> HIDE DEF r, x, I
  <2> QED BY <2>1, <2>2, <2>3, <2>4, SumWhole, SumEqual
<1> HIDE DEF x, c, d, dd, I, N
<1>6. X = C + D /\ C \in Int /\ D \in Int /\ X \in Int
  <2>1. \A p \in Rows : c[p] \in Int /\ d[p] \in Int /\ x[p] = c[p] + d[p] BY <1>3
  <2>2. \A p \in Rows : x[p] \in Int BY <1>3
  <2> QED BY <1>1, <2>1, <2>2, SumPlus, SumInt
<1>7. D + D <= n * Cent
  <2> DEFINE E == SumFunctionOnSet(dd, Rows)
  <2>1. \A p \in Rows : d[p] \in Int /\ dd[p] = d[p] + d[p] BY <1>3
  <2>2. E = D + D BY <1>1, <2>1, SumPlus
  <2>3. \A p \in Rows : dd[p] \in Int /\ dd[p] <= Cent BY <1>3
  <2>4. Cent \in Int BY <1>0
  <2>5. E <= n * Cent BY <1>1, <2>3, <2>4, SumBound
  <2> HIDE DEF E, D, n
  <2> QED BY <2>2, <2>5
<1>8. Y <= X /\ Y \in Nat
  <2>1. \A p \in Rows : x[p] \in Nat BY <1>3
  <2>2. I \in SUBSET Rows /\ IsFiniteSet(I) BY <1>1, FS_Subset
  <2>3. \A p \in I : x[p] \in Nat BY <2>1, <2>2
  <2> QED BY <1>1, <2>1, <2>2, <2>3, SumSubset, SumNat
<1> HIDE DEF X, C, D, Y, n
<1>9. CASE N = 0
  <2>1. Rows = {} /\ I = {} BY <1>0, <1>1, <1>9, FS_EmptySet DEF N
  <2>2. C = 0 /\ Y = 0 BY <2>1, SumEmpty DEF C, Y
  <2> QED BY <1>0, <1>4, <1>5, <1>9, <2>2, CentsZero DEF N
<1>10. CASE N # 0
  <2> DEFINE nc == n * Cent
             Nc == N * Cent
             T == Cents(Y)
  <2>1. T \in Nat /\ 2 * T <= 2 * Y + Cent BY <1>8, CentsNear
  <2>2. nc \in Nat /\ Nc \in Nat BY <1>0, <1>1
  <2>3. nc + Cent <= 2 * Nc
    <3>1. (n + 1) * Cent <= (2 * N) * Cent BY <1>0, <1>1, <1>10, Times
    <3>2. (n + 1) * Cent = nc + Cent /\ (2 * N) * Cent = 2 * Nc BY <1>0, <1>1
    <3> QED BY <3>1, <3>2
  <2>4. Cent * N = Nc BY <1>0, <1>1
  <2> HIDE DEF nc, Nc, T
  <2>5. D + D <= nc BY <1>7 DEF nc
  <2>6. C >= T - Nc BY <1>0, <1>6, <1>8, <2>1, <2>2, <2>3, <2>5
  <2> QED BY <1>4, <1>5, <2>4, <2>6 DEF N, T
<1> QED BY <1>9, <1>10

\* A receipt derives the fee and the net again.
LEMMA ReceiptsAgree ==
  ASSUME TreasuryInv, NEW p \in Positions(AnyStatus)
  PROVE  /\ ReceiptYield(p).fee = AttributionRow(p).fee
         /\ ReceiptYield(p).net = AttributionRow(p).net + (IF Tie(p) THEN 1 ELSE 0)
         /\ ReceiptYield(p).slippage >= 0
<1> DEFINE q == position[p]
<1>1. q \in Position /\ RowOK(q) BY RowsAre DEF Rows
<1>2. /\ q.accrued \in Nat /\ q.feeBps \in Bps /\ q.principal \in Nat /\ q.fee \in Nat
      /\ q.sweptIn \in Nat /\ q.sweptOut \in Nat /\ q.principal + q.accrued \in Nat
  BY <1>1 DEF Position
<1>3. q.fee = FeeAmount(q.accrued, q.feeBps) BY <1>1 DEF RowOK
<1>4. AttributionRow(p).fee = q.fee /\ AttributionRow(p).net = q.accrued - q.fee
  BY DEF AttributionRow
<1>5. ReceiptYield(p).fee = q.fee BY <1>3 DEF ReceiptYield, FeeAmount
<1>6. ReceiptYield(p).net = Round(q.accrued * (10000 - q.feeBps), 10000) BY DEF ReceiptYield
<1>7. q.sweptIn <= q.principal /\ (q.sweptOut = 0 \/ q.sweptOut <= q.principal + q.accrued)
  BY <1>1, <1>2, SwapLoses DEF RowOK
<1>8. ReceiptYield(p).slippage >= 0
  <2>1. ReceiptYield(p).slippage =
          IF q.status = "NONE" THEN 0 ELSE
          (q.principal - q.sweptIn)
          + (IF q.sweptOut = 0 THEN 0 ELSE q.principal + q.accrued - q.sweptOut)
    BY DEF ReceiptYield
  <2> HIDE DEF q
  <2> QED BY <1>2, <1>7, <2>1
<1>9. Tie(p) <=> (q.accrued * q.feeBps) % 10000 = 5000 BY DEF Tie
<1> HIDE DEF q
<1> QED BY <1>2, <1>3, <1>4, <1>5, <1>6, <1>8, <1>9, NetRounds

LEMMA FiguresFollow == TreasuryInv => FiguresAgree
<1> SUFFICES ASSUME TreasuryInv PROVE FiguresAgree OBVIOUS
<1>1. /\ Attribution.principal = Cells("principal") /\ Attribution.accrued = Cells("accrued")
      /\ Attribution.fee = Cells("fee") /\ Attribution.net = Cells("accrued") - Cells("fee")
      /\ Attribution.active = Cardinality(Positions({"SWEPT_IN"}))
      /\ Attribution.unwound = Cardinality(Positions({"SWEPT_OUT"}))
      /\ Attribution.failed = Cardinality(Positions({"FAILED"}))
  BY CountsAddUp DEF Attribution, Cells, Rows
<1>2. /\ Dashboard.inYield = Cents(Stored("principal", {"SWEPT_IN"}))
      /\ Dashboard.accrued = Stored("accrued", AnyStatus) /\ Dashboard.fee = Stored("fee", AnyStatus)
      /\ Dashboard.net = Stored("accrued", AnyStatus) - Stored("fee", AnyStatus)
      /\ Dashboard.active = Cardinality(Positions({"SWEPT_IN"}))
      /\ Dashboard.unwound = Cardinality(Positions({"SWEPT_OUT"}))
      /\ Dashboard.failed = Cardinality(Positions({"FAILED"}))
  BY DEF Dashboard
<1>3. \A f \in {"accrued", "fee", "net", "active", "unwound", "failed"} :
        Dashboard[f] = Attribution[f]
  <2> HIDE DEF TreasuryInv
  <2> QED BY <1>1, <1>2, CellsAreStored
<1>4. LET csv == AttributionDownload("csv") pdf == AttributionDownload("pdf")
          page == AttributionPage("ADMIN")
          Printed(f) == SumFunction([p \in DOMAIN csv.rows |-> csv.rows[p][f]])
      IN /\ \A f \in {"accrued", "fee", "net"} : pdf.summary[f] = Printed(f)
         /\ page.cards.accrued = Printed("accrued") /\ page.cards.net = Printed("net")
         /\ page.cards.positions = Cardinality(DOMAIN pdf.rows) /\ page.rows = pdf.rows
         /\ Cardinality(DOMAIN pdf.rows) = csv.totals.active + csv.totals.unwound + csv.totals.failed
         /\ \A p \in DOMAIN csv.rows : csv.rows[p].net >= 0
  <2> DEFINE csv == AttributionDownload("csv")
             pdf == AttributionDownload("pdf")
             page == AttributionPage("ADMIN")
             rows == [p \in Rows |-> AttributionRow(p)]
  <2>1. csv.rows = rows /\ csv.totals = Attribution BY DEF AttributionDownload, AttributionCsv, Rows
  <2>2. pdf.rows = rows /\ \A f \in {"accrued", "fee", "net", "active"} : pdf.summary[f] = Attribution[f]
    BY DEF AttributionDownload, AttributionDoc, Rows
  <2>3. /\ page.rows = rows /\ page.cards.positions = Cardinality(Rows)
        /\ page.cards.accrued = IF Rows = {} THEN 0 ELSE Attribution.accrued
        /\ page.cards.net = IF Rows = {} THEN 0 ELSE Attribution.net
    BY DEF AttributionPage, Rows
  <2>4. DOMAIN rows = Rows /\ \A p \in Rows : rows[p] = AttributionRow(p) OBVIOUS
  <2>5. \A f : SumFunction([p \in DOMAIN csv.rows |-> csv.rows[p][f]]) = Cells(f)
    <3> TAKE f
    <3>1. [p \in DOMAIN csv.rows |-> csv.rows[p][f]] = [p \in Rows |-> AttributionRow(p)[f]]
      BY <2>1, <2>4
    <3> QED BY <3>1 DEF Cells
  <2>6. \A f \in {"accrued", "fee", "net"} : pdf.summary[f] = Cells(f)
    BY <1>1, <2>2, NetAddsUp
  <2>7. page.cards.accrued = Cells("accrued") /\ page.cards.net = Cells("net")
    BY <1>1, <2>3, NetAddsUp, NoRowsNoCells
  <2>8. Cardinality(Rows) = csv.totals.active + csv.totals.unwound + csv.totals.failed
    BY <1>1, <2>1, CountsAddUp
  <2>9. \A p \in Rows : AttributionRow(p).net >= 0
    <3> TAKE p \in Rows
    <3>1. position[p].fee <= position[p].accrued /\ position[p].fee \in Nat /\ position[p].accrued \in Nat
      BY RowsAre DEF Position
    <3> QED BY <3>1 DEF AttributionRow
  <2> HIDE DEF csv, pdf, page, rows
  <2> QED BY <2>1, <2>2, <2>3, <2>4, <2>5, <2>6, <2>7, <2>8, <2>9 DEF csv, pdf, page
<1>5. Attribution.principal >= Dashboard.inYield - Cent * Cardinality(Payments)
  BY <1>1, <1>2, PrincipalNear
<1>6. \A p \in Positions(AnyStatus) :
        /\ ReceiptYield(p).fee = AttributionRow(p).fee
        /\ ReceiptYield(p).net = AttributionRow(p).net + (IF Tie(p) THEN 1 ELSE 0)
        /\ ReceiptYield(p).slippage >= 0
  BY ReceiptsAgree
<1> QED BY <1>3, <1>4, <1>5, <1>6 DEF FiguresAgree

\* Dashboard, report, files and page say the same of every position, whatever the amounts,
\* the rates and their changes, and no tenant is charged more than it earned.  A receipt
\* says so too, except that its net is one unit more exactly where the fee falls between
\* two units (receipt.ts:69).
THEOREM FiguresAlwaysAgree == Spec => []FiguresAgree
BY FiguresFollow, TreasuryAlways, PTL
=============================================================================
