------------------------- MODULE PayrollProperties -------------------------
(* What must hold of the HR money movements of Payroll.                    *)
EXTENDS Payroll, FiniteSets

\* Every row is well formed: in particular no update of the handlers takes a
\* balance (outstanding, converted) below zero.
TypeOK ==
  /\ packages \in [Employees -> Seq(PackageRow)]
  /\ advances \in Seq(AdvanceRow)
  /\ conversions \in Seq(ConversionRow)
  /\ payouts \in Seq(PayoutRow)
  /\ withheld \in [Employees -> Nat] /\ repaid \in [Employees -> Nat]

PayoutsFor(kind, ref) ==
  {i \in DOMAIN payouts : payouts[i].kind = kind /\ payouts[i].ref = ref}

\* advances.ts:17 "concurrent calls can't double-approve/double-disburse a money
\* movement": an advance or a conversion is paid at most once however approvals,
\* rejections and failures interleave, a disbursed (or repaid) one names exactly
\* the payout that was made for it, and that payout is of its amount.
PaidAtMostOnce ==
  /\ \A a \in DOMAIN advances :
       /\ \A i, j \in PayoutsFor("advance", a) : i = j
       /\ advances[a].status \in {"DISBURSED", "REPAID"} =>
            /\ advances[a].payment \in PayoutsFor("advance", a)
            /\ payouts[advances[a].payment].amount = advances[a].amount
  /\ \A c \in DOMAIN conversions :
       /\ \A i, j \in PayoutsFor("conversion", c) : i = j
       /\ conversions[c].status = "DISBURSED" =>
            /\ conversions[c].payment \in PayoutsFor("conversion", c)
            /\ payouts[conversions[c].payment].amount = conversions[c].net

\* The list of the employee page holds every row of the employee.
ListHoldsAll(table, e) == Cardinality({i \in DOMAIN table : table[i].who = e}) <= ListLimit

\* settleAdvancesForPayout, "rather than silently decrement the ledger twice (lost
\* update)": what the advances of an employee have lost in outstanding is what
\* settlements report as repaid, and never more than his salaries kept back.  What
\* eligibility counts as owed is what all his advances owe, of whatever status, and
\* the list of his page adds up to it while it holds them all.
RepaymentsAddUp ==
  \A e \in Employees :
    LET open == Of(e, {"DISBURSED", "REPAID"})
        list == ListAdvances(e)
    IN
    /\ SumFunction([a \in open |-> advances[a].owed - advances[a].outstanding]) = repaid[e]
    /\ repaid[e] <= withheld[e]
    /\ \A a \in open : advances[a].status = "REPAID" <=> advances[a].outstanding = 0
    /\ Outstanding(e) = Owed(Of(e, AdvanceStatus))
    /\ ListHoldsAll(advances, e) =>
         Outstanding(e) = SumFunction([i \in DOMAIN list |-> list[i].outstanding])

\* The convertedValue of a package item is the sum of the conversions of it that are
\* not rejected, those in the table and, while it holds them all, those on the page:
\* concurrent rejects cannot release a reservation twice, nor a concurrent reserve
\* lose one (conversions.ts:180-292).
ReservationsAddUp ==
  \A e \in Employees : \A k \in DOMAIN packages[e] :
    LET kept == {c \in DOMAIN conversions :
                   /\ conversions[c].who = e /\ conversions[c].item = k
                   /\ conversions[c].status # "REJECTED"}
        list == ListConversions(e)
        shown == {i \in DOMAIN list : list[i].item = k /\ list[i].status # "REJECTED"}
    IN
    /\ packages[e][k].converted = SumFunction([c \in kept |-> conversions[c].notional])
    /\ ListHoldsAll(conversions, e) =>
         packages[e][k].converted = SumFunction([i \in shown |-> list[i].notional])

\* conversions.ts:13-15 says that the balance is "reserved at request time so concurrent
\* requests can't over-convert": of a benefit no more than its value is ever converted.
NeverOverConverts ==
  \A e \in Employees : \A k \in DOMAIN packages[e] :
    packages[e][k].converted <= packages[e][k].notional

\* "without a transaction a failed create would leave the employee with no active
\* package" (employees.ts:272-273): through every failure, and whichever package changes
\* overlap, the package of the change that came last is active.  That comment also
\* promises that it is the only one, which two changes at once break.
HasActivePackage ==
  \A e \in Employees : packages[e] # << >> => PackageView(e, Len(packages[e])).current
=============================================================================
