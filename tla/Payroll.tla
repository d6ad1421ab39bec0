------------------------------ MODULE Payroll ------------------------------
(***************************************************************************)
(* HR of one tenant: compensation packages (lib/hr/employees.ts), salary   *)
(* advances (lib/hr/advances.ts), conversions of benefits into cash        *)
(* (lib/hr/conversions.ts) and the routes of app/api/hr that pay them out  *)
(* through createPoolBatch.                                                *)
(*                                                                         *)
(* A handler is one request of an administrator.  A Prisma $transaction    *)
(* runs at PostgreSQL's default READ COMMITTED: what it read may be stale  *)
(* when it writes, so its reads and its writes are two steps; rows it      *)
(* updates stay locked to its end, so all its writes are one step and the  *)
(* WHERE of an updateMany is evaluated again at that step.                 *)
(* Money is in stroops: seven decimals, which is where the code rounds.    *)
(***************************************************************************)
EXTENDS Integers, Sequences, FiniteSetsExt

CONSTANTS
  Employees,
  Handlers,            \* requests the web process may run at once
  Bases, Notionals,    \* monthly base salaries and benefit values a package may have
  AdvanceAmounts, ConversionAmounts,
  Dates,               \* pairs <<day of the month, days in that month>>
  AdvancePolicies, ConversionPolicies,  \* what the policy routes may store
  PoolRail,            \* env.ENABLE_POOL_RAIL
  ListLimit,           \* the rows a list returns, 200 in the code
  MaxPackages, MaxRows, MaxPayouts, MaxWithheld  \* bounds

Unlimited     == -1   \* a null cap
NoAutoApprove == 0    \* a null threshold
Null          == 0    \* no payment

\* What the zod schemas of the routes let through.
AdvanceRequestInput    == Nat \ {0}
ConversionRequestInput == Nat \ {0}
AdvancePolicyInput ==
  [maxPercent : 0 .. 100, fee : 0 .. 100, cap : Nat \cup {Unlimited}, auto : Nat]
ConversionPolicyInput == [rate : 0 .. 100, fee : 0 .. 100, cap : Nat \cup {Unlimited}]

ASSUME PayrollAssumption ==
  /\ Bases \subseteq Nat /\ Notionals \subseteq Nat
  /\ AdvanceAmounts \subseteq AdvanceRequestInput
  /\ ConversionAmounts \subseteq ConversionRequestInput
  /\ AdvancePolicies \subseteq AdvancePolicyInput
  /\ ConversionPolicies \subseteq ConversionPolicyInput
  /\ Dates \subseteq {d \in (Nat \ {0}) \X (Nat \ {0}) : d[1] <= d[2]}
  /\ PoolRail \in BOOLEAN
  /\ {ListLimit, MaxPackages, MaxRows, MaxPayouts, MaxWithheld} \subseteq Nat
  /\ IsFiniteSet(Handlers) /\ Handlers # {}

VARIABLES
  packages,          \* CompensationPackage rows of an employee, with their two items
  advances,          \* SalaryAdvance rows, oldest first
  conversions,       \* PackageConversion rows
  advancePolicy, conversionPolicy,
  payouts,           \* the Payments createPoolBatch made for this module
  request,           \* the handlers
  withheld, repaid   \* auxiliary: what paid salaries kept back, what settlements applied

rows == <<packages, advances, conversions, payouts>>
vars == <<rows, advancePolicy, conversionPolicy, request, withheld, repaid>>

AdvanceStatus    == {"REQUESTED", "APPROVED", "DISBURSED", "REPAID", "REJECTED"}
ConversionStatus == {"REQUESTED", "APPROVED", "DISBURSED", "REJECTED"}
NonRepaid        == {"REQUESTED", "APPROVED", "DISBURSED"}

PackageRow == [open : BOOLEAN, base : Nat, notional : Nat, converted : Nat]
AdvanceRow == [who : Employees, amount : Nat, owed : Nat, outstanding : Nat,
               status : AdvanceStatus, payment : Nat]
ConversionRow == [who : Employees, item : Nat, notional : Nat, net : Nat,
                  status : ConversionStatus, payment : Nat]
PayoutRow == [kind : {"advance", "conversion"}, ref : Nat, amount : Nat]
             \cup [kind : {"salary"}, ref : Employees, amount : Nat]

\* A panel of the employee page is busy until its call is answered.
Idle == [pc |-> "idle"]

Percent(x, p) == (x * p) \div 100

-----------------------------------------------------------------------------
(* What the handlers read. *)

OpenPackages(e) == {k \in DOMAIN packages[e] : packages[e][k].open}

\* The base salary findFirst may return; 0 without a package or a salary item.
BasesOf(e) == IF OpenPackages(e) = {} THEN {0}
              ELSE {packages[e][k].base : k \in OpenPackages(e)}

Of(e, statuses) ==
  {a \in DOMAIN advances : advances[a].who = e /\ advances[a].status \in statuses}

Owed(S) == SumFunction([a \in S |-> advances[a].outstanding])
Outstanding(e) == Owed(Of(e, NonRepaid))

MaxAdvanceable(base, policy, date) ==
  LET share == Percent((base * date[1]) \div date[2], policy.maxPercent)
  IN  IF policy.cap # Unlimited /\ share > policy.cap THEN policy.cap ELSE share

Eligible(e, base, date) ==
  Max({0, MaxAdvanceable(base, advancePolicy, date) - Outstanding(e)})

Fee(amount) == Percent(amount, advancePolicy.fee)

Remaining(e, k) == packages[e][k].notional - packages[e][k].converted

Cash(amount) == Percent(amount, conversionPolicy.rate)
ConversionFee(amount) == Percent(Cash(amount), conversionPolicy.fee)

\* The disbursed advances a salary nets, oldest first.
Netted(e) == {a \in Of(e, {"DISBURSED"}) : advances[a].outstanding > 0}

\* (fault) Every advance is offered the whole deduction.
AppliedToAll(snapshot, deduction, a) == deduction

\* The share of a deduction that falls on advance a when it is spent first in, first out.
Applied(snapshot, deduction, a) ==
  LET before == {b \in DOMAIN snapshot : b < a}
      left   == deduction - SumFunctionOnSet(snapshot, before)
  IN  Max({0, Min({left, snapshot[a]})})

-----------------------------------------------------------------------------
(* What the employee page shows: the views of its rows, the newest ListLimit of them. *)

Newest(S) == [i \in 1 .. Cardinality(S) |-> CHOOSE r \in S : Cardinality({q \in S : q > r}) = i - 1]

AdvanceView(a) ==
  [amount |-> advances[a].amount, fee |-> advances[a].owed - advances[a].amount,
   outstanding |-> advances[a].outstanding, status |-> advances[a].status]

ListAdvances(e) ==
  LET ids == Newest({a \in DOMAIN advances : advances[a].who = e})
  IN [i \in {j \in DOMAIN ids : j <= ListLimit} |-> AdvanceView(ids[i])]

ConversionView(c) ==
  [item |-> conversions[c].item, notional |-> conversions[c].notional,
   net |-> conversions[c].net, status |-> conversions[c].status]

ListConversions(e) ==
  LET ids == Newest({c \in DOMAIN conversions : conversions[c].who = e})
  IN [i \in {j \in DOMAIN ids : j <= ListLimit} |-> ConversionView(ids[i])]

\* A package and its two items; the benefit is what may be converted.
PackageView(e, k) ==
  [current |-> packages[e][k].open, salary |-> packages[e][k].base,
   benefit |-> packages[e][k].notional]

-----------------------------------------------------------------------------
DefaultAdvancePolicy ==
  [maxPercent |-> 50, fee |-> 0, cap |-> Unlimited, auto |-> NoAutoApprove]
DefaultConversionPolicy == [rate |-> 100, fee |-> 0, cap |-> Unlimited]

Init ==
  /\ packages = [e \in Employees |-> << >>]
  /\ advances = << >> /\ conversions = << >> /\ payouts = << >>
  /\ advancePolicy = DefaultAdvancePolicy
  /\ conversionPolicy = DefaultConversionPolicy
  /\ request = [h \in Handlers |-> Idle]
  /\ withheld = [e \in Employees |-> 0]
  /\ repaid = [e \in Employees |-> 0]

Become(h, r) == request' = [request EXCEPT ![h] = r]
At(h, pc) == request[h].pc = pc

-----------------------------------------------------------------------------
(* Employees and packages. *)

NewPackage(base, notional) ==
  [open |-> TRUE, base |-> base, notional |-> notional, converted |-> 0]

\* The unique (tenant, email) admits one insert; the package comes with it.
OnboardEmployee(e) ==
  /\ packages[e] = << >>
  /\ \E base \in Bases, notional \in Notionals :
       packages' = [packages EXCEPT ![e] = <<NewPackage(base, notional)>>]
  /\ UNCHANGED <<advances, conversions, payouts, advancePolicy, conversionPolicy,
                 request, withheld, repaid>>

\* The updateMany of setPackage sees the open packages its snapshot shows.
SetPackage(h, e) ==
  /\ At(h, "idle") /\ packages[e] # << >> /\ Len(packages[e]) < MaxPackages
  /\ \E base \in Bases, notional \in Notionals :
       Become(h, [pc |-> "package", who |-> e, seen |-> OpenPackages(e),
                  new |-> NewPackage(base, notional)])
  /\ UNCHANGED <<rows, advancePolicy, conversionPolicy, withheld, repaid>>

Superseded(e, S) ==
  [k \in DOMAIN packages[e] |-> [packages[e][k] EXCEPT !.open = @ /\ k \notin S]]

\* (fault) No transaction: the insert may fail after the update.
SupersedeOnly(h) ==
  LET r == request[h] IN
  /\ At(h, "package") /\ Len(packages[r.who]) < MaxPackages
  /\ packages' = [packages EXCEPT ![r.who] = Superseded(r.who, r.seen)]
  /\ Become(h, Idle)
  /\ UNCHANGED <<advances, conversions, payouts, advancePolicy, conversionPolicy,
                 withheld, repaid>>

SupersedeAndCreate(h) ==
  LET r == request[h] IN
  /\ At(h, "package") /\ Len(packages[r.who]) < MaxPackages
  /\ packages' = [packages EXCEPT ![r.who] = Append(Superseded(r.who, r.seen), r.new)]
  /\ Become(h, Idle)
  /\ UNCHANGED <<advances, conversions, payouts, advancePolicy, conversionPolicy,
                 withheld, repaid>>

SetAdvancePolicy ==
  /\ advancePolicy' \in AdvancePolicies
  /\ UNCHANGED <<rows, conversionPolicy, request, withheld, repaid>>

SetConversionPolicy ==
  /\ conversionPolicy' \in ConversionPolicies
  /\ UNCHANGED <<rows, advancePolicy, request, withheld, repaid>>

-----------------------------------------------------------------------------
(* Advances. *)

\* The bound on advances and conversions: no more is asked for than has room.
HasRoom == Len(advances) + Len(conversions) < MaxRows

\* The reads of requestAdvance's transaction; over the limit is a 400.
RequestAdvance(h, e) ==
  /\ At(h, "idle") /\ HasRoom
  /\ \E amount \in AdvanceAmounts, date \in Dates, base \in BasesOf(e) :
       /\ amount <= Eligible(e, base, date)
       /\ Become(h, [pc |-> "advance", who |-> e, amount |-> amount,
                     owed |-> amount + Fee(amount),
                     status |-> IF amount <= advancePolicy.auto
                                THEN "APPROVED" ELSE "REQUESTED"])
  /\ UNCHANGED <<rows, advancePolicy, conversionPolicy, withheld, repaid>>

CreateAdvance(h) ==
  LET r == request[h] IN
  /\ At(h, "advance") /\ HasRoom
  /\ advances' = Append(advances,
       [who |-> r.who, amount |-> r.amount, owed |-> r.owed, outstanding |-> r.owed,
        status |-> r.status, payment |-> Null])
  /\ Become(h, Idle)
  /\ UNCHANGED <<packages, conversions, payouts, advancePolicy, conversionPolicy,
                 withheld, repaid>>

\* (fault) The compare-and-set also accepts an approved advance.
ApproveAdvanceAgain(h, a) ==
  /\ At(h, "idle") /\ PoolRail
  /\ advances[a].status \in {"REQUESTED", "APPROVED"}
  /\ advances' = [advances EXCEPT ![a].status = "APPROVED"]
  /\ Become(h, [pc |-> "payAdvance", ref |-> a, amount |-> advances[a].amount])
  /\ UNCHANGED <<packages, conversions, payouts, advancePolicy, conversionPolicy,
                 withheld, repaid>>

\* approveAdvance: only a requested advance goes on to its payout.
ApproveAdvance(h, a) ==
  /\ At(h, "idle") /\ PoolRail
  /\ advances[a].status = "REQUESTED"
  /\ advances' = [advances EXCEPT ![a].status = "APPROVED"]
  /\ Become(h, [pc |-> "payAdvance", ref |-> a, amount |-> advances[a].amount])
  /\ UNCHANGED <<packages, conversions, payouts, advancePolicy, conversionPolicy,
                 withheld, repaid>>

\* markAdvanceDisbursed; a 409 when the advance was rejected during the payout.
MarkAdvanceDisbursed(h) ==
  LET r == request[h] IN
  /\ At(h, "markAdvance")
  /\ advances' = IF advances[r.ref].status # "APPROVED" THEN advances
                 ELSE [advances EXCEPT ![r.ref].status = "DISBURSED",
                                       ![r.ref].payment = r.payment]
  /\ Become(h, Idle)
  /\ UNCHANGED <<packages, conversions, payouts, advancePolicy, conversionPolicy,
                 withheld, repaid>>

RejectAdvance(a) ==
  /\ advances[a].status \in {"REQUESTED", "APPROVED"}
  /\ advances' = [advances EXCEPT ![a].status = "REJECTED", ![a].outstanding = 0]
  /\ UNCHANGED <<packages, conversions, payouts, advancePolicy, conversionPolicy,
                 request, withheld, repaid>>

-----------------------------------------------------------------------------
(* Conversions. *)

\* (fault) The remaining balance is not looked at.
RequestConversionUnchecked(h, e) ==
  /\ At(h, "idle")
  /\ \E k \in OpenPackages(e), amount \in ConversionAmounts :
       Become(h, [pc |-> "conversion", who |-> e, item |-> k, amount |-> amount,
                  cash |-> Cash(amount), fee |-> ConversionFee(amount)])
  /\ UNCHANGED <<rows, advancePolicy, conversionPolicy, withheld, repaid>>

\* The checks of requestConversion, made before its transaction.
RequestConversion(h, e) ==
  /\ At(h, "idle") /\ HasRoom
  /\ \E k \in OpenPackages(e), amount \in ConversionAmounts :
       /\ amount <= Remaining(e, k)
       /\ conversionPolicy.cap = Unlimited \/ Cash(amount) <= conversionPolicy.cap
       /\ Become(h, [pc |-> "conversion", who |-> e, item |-> k, amount |-> amount,
                     cash |-> Cash(amount), fee |-> ConversionFee(amount)])
  /\ UNCHANGED <<rows, advancePolicy, conversionPolicy, withheld, repaid>>

Reserve(e, k, amount) == [packages EXCEPT ![e][k].converted = @ + amount]

CreateConversion(h) ==
  LET r == request[h] IN
  /\ At(h, "conversion") /\ HasRoom
  /\ packages' = Reserve(r.who, r.item, r.amount)
  /\ conversions' = Append(conversions,
       [who |-> r.who, item |-> r.item, notional |-> r.amount, net |-> r.cash - r.fee,
        status |-> "REQUESTED", payment |-> Null])
  /\ Become(h, Idle)
  /\ UNCHANGED <<advances, payouts, advancePolicy, conversionPolicy, withheld,
                 repaid>>

ApproveConversion(h, c) ==
  /\ At(h, "idle") /\ PoolRail
  /\ conversions[c].status = "REQUESTED"
  /\ conversions' = [conversions EXCEPT ![c].status = "APPROVED"]
  /\ Become(h, [pc |-> "payConversion", ref |-> c, amount |-> conversions[c].net])
  /\ UNCHANGED <<packages, advances, payouts, advancePolicy, conversionPolicy,
                 withheld, repaid>>

MarkConversionDisbursed(h) ==
  LET r == request[h] IN
  /\ At(h, "markConversion")
  /\ conversions' = IF conversions[r.ref].status # "APPROVED" THEN conversions
                    ELSE [conversions EXCEPT ![r.ref].status = "DISBURSED",
                                             ![r.ref].payment = r.payment]
  /\ Become(h, Idle)
  /\ UNCHANGED <<packages, advances, payouts, advancePolicy, conversionPolicy,
                 withheld, repaid>>

\* (fault) The balance is released whether or not this call won the flip.
RejectConversionAlways(c) ==
  /\ conversions[c].status # "DISBURSED"
  /\ conversions' = [conversions EXCEPT ![c].status = "REJECTED"]
  /\ packages' = Reserve(conversions[c].who, conversions[c].item, -conversions[c].notional)
  /\ UNCHANGED <<advances, payouts, advancePolicy, conversionPolicy, request,
                 withheld, repaid>>

\* The flip and the release of the balance are one transaction.
RejectConversion(c) ==
  /\ conversions[c].status \in {"REQUESTED", "APPROVED"}
  /\ conversions' = [conversions EXCEPT ![c].status = "REJECTED"]
  /\ packages' = Reserve(conversions[c].who, conversions[c].item, -conversions[c].notional)
  /\ UNCHANGED <<advances, payouts, advancePolicy, conversionPolicy, request,
                 withheld, repaid>>

-----------------------------------------------------------------------------
(* Paying out: createPoolBatch with a single receiver. *)

\* The row is ok.  A payout of nothing throws in xmlToStroops and cannot be.
Payout(h, kind, ref, next) ==
  /\ request[h].amount > 0 /\ Len(payouts) < MaxPayouts
  /\ payouts' = Append(payouts, [kind |-> kind, ref |-> ref, amount |-> request[h].amount])
  /\ Become(h, next)

PayAdvance(h) ==
  LET r == request[h] IN
  /\ At(h, "payAdvance")
  /\ Payout(h, "advance", r.ref,
            [pc |-> "markAdvance", ref |-> r.ref, payment |-> Len(payouts) + 1])
  /\ UNCHANGED <<packages, advances, conversions, advancePolicy, conversionPolicy,
                 withheld, repaid>>

PayConversion(h) ==
  LET r == request[h] IN
  /\ At(h, "payConversion")
  /\ Payout(h, "conversion", r.ref,
            [pc |-> "markConversion", ref |-> r.ref, payment |-> Len(payouts) + 1])
  /\ UNCHANGED <<packages, advances, conversions, advancePolicy, conversionPolicy,
                 withheld, repaid>>

\* The row is not ok: a 502, and nothing is undone.
PayoutFails(h) ==
  /\ \E pc \in {"payAdvance", "payConversion", "paySalary"} : At(h, pc)
  /\ Become(h, Idle)
  /\ UNCHANGED <<rows, advancePolicy, conversionPolicy, withheld, repaid>>

-----------------------------------------------------------------------------
(* POST /api/hr/employees/[id]/pay-salary. *)

\* computeSalaryPayout.  With nothing left to pay there is no cash leg.
ComputeSalary(h, e) ==
  /\ At(h, "idle") /\ PoolRail /\ withheld[e] < MaxWithheld
  /\ \E base \in BasesOf(e) \ {0} :
       LET deduction == Min({base, Owed(Netted(e))}) IN
       IF deduction < base
       THEN /\ Become(h, [pc |-> "paySalary", who |-> e, amount |-> base - deduction,
                          deduction |-> deduction])
            /\ UNCHANGED withheld
       ELSE /\ Become(h, [pc |-> "settle", who |-> e, deduction |-> deduction])
            /\ withheld' = [withheld EXCEPT ![e] = @ + deduction]
  /\ UNCHANGED <<rows, advancePolicy, conversionPolicy, repaid>>

PaySalary(h) ==
  LET r == request[h] IN
  /\ At(h, "paySalary")
  /\ Payout(h, "salary", r.who, [pc |-> "settle", who |-> r.who, deduction |-> r.deduction])
  /\ withheld' = [withheld EXCEPT ![r.who] = @ + r.deduction]
  /\ UNCHANGED <<packages, advances, conversions, advancePolicy, conversionPolicy,
                 repaid>>

\* settleAdvancesForPayout reads the advances again.
ReadNetted(h) ==
  LET r == request[h] IN
  /\ At(h, "settle")
  /\ Become(h, [pc |-> "apply", who |-> r.who, deduction |-> r.deduction,
                snapshot |-> [a \in Netted(r.who) |-> advances[a].outstanding]])
  /\ UNCHANGED <<rows, advancePolicy, conversionPolicy, withheld, repaid>>

Touched(r) == {a \in DOMAIN r.snapshot : Applied(r.snapshot, r.deduction, a) > 0}
Repaying(r) == SumFunction([a \in Touched(r) |-> Applied(r.snapshot, r.deduction, a)])

Settled(r) ==
  [a \in DOMAIN advances |->
     IF a \notin Touched(r) THEN advances[a]
     ELSE LET left == r.snapshot[a] - Applied(r.snapshot, r.deduction, a)
          IN  [advances[a] EXCEPT !.outstanding = left,
                                  !.status = IF left = 0 THEN "REPAID" ELSE @]]

\* (fault) The advances are updated by id alone.
ApplyBlindly(h) ==
  LET r == request[h] IN
  /\ At(h, "apply")
  /\ advances' = Settled(r)
  /\ repaid' = [repaid EXCEPT ![r.who] = @ + Repaying(r)]
  /\ Become(h, Idle)
  /\ UNCHANGED <<packages, conversions, payouts, advancePolicy, conversionPolicy,
                 withheld>>

\* Every update compares status and outstanding with what was read; one that
\* does not match rolls all of them back (500: salary paid, nothing settled).
ApplyDeduction(h) ==
  LET r == request[h] IN
  /\ At(h, "apply")
  /\ IF \A a \in Touched(r) : /\ advances[a].status = "DISBURSED"
                              /\ advances[a].outstanding = r.snapshot[a]
     THEN /\ advances' = Settled(r)
          /\ repaid' = [repaid EXCEPT ![r.who] = @ + Repaying(r)]
     ELSE UNCHANGED <<advances, repaid>>
  /\ Become(h, Idle)
  /\ UNCHANGED <<packages, conversions, payouts, advancePolicy, conversionPolicy,
                 withheld>>

-----------------------------------------------------------------------------
\* The process dies or a database call fails: an open transaction rolls back.
Abort(h) ==
  /\ ~At(h, "idle")
  /\ Become(h, Idle)
  /\ UNCHANGED <<rows, advancePolicy, conversionPolicy, withheld, repaid>>

Next ==
  \/ \E e \in Employees : OnboardEmployee(e)
  \/ SetAdvancePolicy \/ SetConversionPolicy
  \/ \E h \in Handlers, e \in Employees :
       SetPackage(h, e) \/ RequestAdvance(h, e) \/ RequestConversion(h, e) \/ ComputeSalary(h, e)
  \/ \E h \in Handlers :
       \/ SupersedeAndCreate(h)
       \/ CreateAdvance(h) \/ PayAdvance(h) \/ MarkAdvanceDisbursed(h)
       \/ CreateConversion(h) \/ PayConversion(h) \/ MarkConversionDisbursed(h)
       \/ PaySalary(h) \/ ReadNetted(h) \/ ApplyDeduction(h)
       \/ PayoutFails(h) \/ Abort(h)
  \/ \E h \in Handlers, a \in DOMAIN advances : ApproveAdvance(h, a)
  \/ \E h \in Handlers, c \in DOMAIN conversions : ApproveConversion(h, c)
  \/ \E a \in DOMAIN advances : RejectAdvance(a)
  \/ \E c \in DOMAIN conversions : RejectConversion(c)

Spec == Init /\ [][Next]_vars
=============================================================================
