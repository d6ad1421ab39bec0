---------------------------- MODULE PayrollProofs ----------------------------
(***************************************************************************)
(* An advance and a conversion of Payroll are paid at most once, for any   *)
(* number of employees, administrators and rows.  Both are a book of rows  *)
(* with a status, an amount and a payment, so the argument is made once,   *)
(* for a book, and then used for the two of them.                          *)
(*                                                                         *)
(* The money comes after that: the balance that a package reserves for     *)
(* conversions, and the advances that salaries repay.  Both are read in    *)
(* one statement and written in another, by handlers that interleave, so   *)
(* none of the properties is inductive.  MoneyInv adds what the handlers   *)
(* hold between the two: what is in flight towards a conversion, and what  *)
(* a salary has kept back and not yet settled.                             *)
(***************************************************************************)
EXTENDS PayrollProperties, SequenceTheorems, NumberLemmas

\* How a handler is called while it pays a row of a book, and while it marks it.
Pay  == [advance |-> "payAdvance",  conversion |-> "payConversion"]
Mark == [advance |-> "markAdvance", conversion |-> "markConversion"]
Kinds == {"advance", "conversion"}

For(kind, ref, paid) == {i \in DOMAIN paid : paid[i].kind = kind /\ paid[i].ref = ref}
Working(kind, req) == req.pc \in {Pay[kind], Mark[kind]}

RowOK(kind, row, own, paid) ==
  /\ \A i, j \in own : i = j
  /\ row.status = "REQUESTED" => own = {}
  /\ row.status \in {"DISBURSED", "REPAID"} =>
       row.payment \in own /\ paid[row.payment].amount = row.amount

\* A handler that is about to pay found the row requested, and nobody paid it
\* since; one that has paid holds the only payout.
HandlerOK(kind, req, row, own, paid) ==
  /\ row.status \in {"APPROVED", "REJECTED"}
  /\ req.pc = Pay[kind] => own = {} /\ req.amount = row.amount
  /\ req.pc = Mark[kind] => req.payment \in own /\ paid[req.payment].amount = row.amount

BookOK(kind, book, paid, req) ==
  /\ \A i \in DOMAIN paid : paid[i].kind = kind => paid[i].ref \in DOMAIN book
  /\ \A a \in DOMAIN book : RowOK(kind, book[a], For(kind, a, paid), paid)
  /\ \A h \in Handlers : Working(kind, req[h]) =>
       /\ req[h].ref \in DOMAIN book
       /\ HandlerOK(kind, req[h], book[req[h].ref], For(kind, req[h].ref, paid), paid)
       /\ \A k \in Handlers : Working(kind, req[k]) /\ req[k].ref = req[h].ref => k = h

AdvanceBook ==
  [a \in DOMAIN advances |->
     [status |-> advances[a].status, payment |-> advances[a].payment,
      amount |-> advances[a].amount]]
ConversionBook ==
  [c \in DOMAIN conversions |->
     [status |-> conversions[c].status, payment |-> conversions[c].payment,
      amount |-> conversions[c].net]]

\* What the values are does not matter here, only which fields a row has.
AdvanceOver(S) ==
  [who : S, amount : S, owed : S, outstanding : S, status : AdvanceStatus, payment : S]
ConversionOver(S) ==
  [who : S, item : S, notional : S, net : S, status : ConversionStatus, payment : S]

AdvanceShape    == \E S : advances \in Seq(AdvanceOver(S))
ConversionShape == \E S : conversions \in Seq(ConversionOver(S))
RequestShape ==
  /\ request = [h \in Handlers |-> request[h]]
  /\ \A h \in Handlers :
       request[h].pc = "advance" => request[h].status \in {"REQUESTED", "APPROVED"}
Shapes == AdvanceShape /\ ConversionShape /\ RequestShape /\ \E S : payouts \in Seq(S)

\* The inductive invariant behind PaidAtMostOnce.
PaidInv ==
  /\ Shapes
  /\ BookOK("advance", AdvanceBook, payouts, request)
  /\ BookOK("conversion", ConversionBook, payouts, request)

-----------------------------------------------------------------------------
(* The steps of a book. *)

\* Rows may be added, rejected and repaid.
RowsMove(book, book2) ==
  /\ DOMAIN book \subseteq DOMAIN book2
  /\ \A a \in DOMAIN book2 \ DOMAIN book : book2[a].status \in {"REQUESTED", "APPROVED"}
  /\ \A a \in DOMAIN book :
       \/ book2[a] = book[a]
       \/ /\ book[a].status \in {"REQUESTED", "APPROVED"} /\ book2[a].status = "REJECTED"
          /\ book2[a].amount = book[a].amount
       \/ /\ book[a].status = "DISBURSED" /\ book2[a].status \in {"DISBURSED", "REPAID"}
          /\ book2[a].amount = book[a].amount /\ book2[a].payment = book[a].payment

\* The payouts of a kind stay what they are.
SamePaid(kind, paid, paid2) ==
  /\ \A i \in DOMAIN paid : i \in DOMAIN paid2 /\ paid2[i] = paid[i]
  /\ \A i \in DOMAIN paid2 \ DOMAIN paid : paid2[i].kind # kind

Others(h, req, req2) == \A k \in Handlers \ {h} : req2[k] = req[k]

LEMMA SameFor ==
  ASSUME NEW kind, NEW paid, NEW paid2, SamePaid(kind, paid, paid2)
  PROVE  \A ref : For(kind, ref, paid2) = For(kind, ref, paid)
BY DEF SamePaid, For

LEMMA NewRowsUnpaid ==
  ASSUME NEW kind, NEW book, NEW paid, NEW req, BookOK(kind, book, paid, req),
         NEW a, a \notin DOMAIN book
  PROVE  For(kind, a, paid) = {}
BY DEF BookOK, For

LEMMA QuietStep ==
  ASSUME NEW kind, NEW book, NEW book2, NEW paid, NEW paid2, NEW req, NEW req2,
         BookOK(kind, book, paid, req), RowsMove(book, book2), SamePaid(kind, paid, paid2),
         \A k \in Handlers : req2[k] = req[k] \/ ~Working(kind, req2[k])
  PROVE  BookOK(kind, book2, paid2, req2)
<1>1. \A ref : For(kind, ref, paid2) = For(kind, ref, paid) BY SameFor
<1>2. \A ref : \A i \in For(kind, ref, paid) : paid2[i] = paid[i] BY DEF SamePaid, For
<1>3. \A i \in DOMAIN paid2 : paid2[i].kind = kind => paid2[i].ref \in DOMAIN book2
  BY DEF SamePaid, RowsMove, BookOK
<1>4. ASSUME NEW a \in DOMAIN book2
      PROVE  RowOK(kind, book2[a], For(kind, a, paid2), paid2)
  <2>1. CASE a \notin DOMAIN book
    <3>1. For(kind, a, paid2) = {} BY <1>1, <2>1, NewRowsUnpaid
    <3>2. book2[a].status \in {"REQUESTED", "APPROVED"} BY <2>1, <1>4 DEF RowsMove
    <3> QED BY <3>1, <3>2 DEF RowOK
  <2>2. CASE a \in DOMAIN book
    <3>1. RowOK(kind, book[a], For(kind, a, paid), paid) BY <2>2 DEF BookOK
    <3>2. RowOK(kind, book[a], For(kind, a, paid2), paid2) BY <1>1, <1>2, <3>1 DEF RowOK
    <3> QED BY <2>2, <3>2 DEF RowsMove, RowOK
  <2> QED BY <2>1, <2>2
<1>5. ASSUME NEW h \in Handlers, Working(kind, req2[h])
      PROVE  /\ req2[h].ref \in DOMAIN book2
             /\ HandlerOK(kind, req2[h], book2[req2[h].ref], For(kind, req2[h].ref, paid2), paid2)
             /\ \A k \in Handlers : Working(kind, req2[k]) /\ req2[k].ref = req2[h].ref => k = h
  <2>1. req2[h] = req[h] BY <1>5
  <2>2. /\ req[h].ref \in DOMAIN book
        /\ HandlerOK(kind, req[h], book[req[h].ref], For(kind, req[h].ref, paid), paid)
        /\ \A k \in Handlers : Working(kind, req[k]) /\ req[k].ref = req[h].ref => k = h
    BY <1>5, <2>1 DEF BookOK
  <2> DEFINE a == req[h].ref
  <2>3. book2[a].status \in {"APPROVED", "REJECTED"} /\ book2[a].amount = book[a].amount
    BY <2>2 DEF RowsMove, HandlerOK
  <2>4. HandlerOK(kind, req[h], book2[a], For(kind, a, paid2), paid2)
    BY <1>1, <1>2, <2>2, <2>3 DEF HandlerOK
  <2>5. \A k \in Handlers : Working(kind, req2[k]) => Working(kind, req[k]) /\ req2[k] = req[k]
    OBVIOUS
  <2> QED BY <2>1, <2>2, <2>4, <2>5 DEF RowsMove
<1> QED BY <1>3, <1>4, <1>5 DEF BookOK

\* A requested row is approved, and the handler that did it is going to pay it.
LEMMA ApproveStep ==
  ASSUME NEW kind \in Kinds, NEW book, NEW book2, NEW paid, NEW req, NEW req2,
         BookOK(kind, book, paid, req), NEW h \in Handlers, Others(h, req, req2),
         NEW a \in DOMAIN book, book[a].status = "REQUESTED",
         DOMAIN book2 = DOMAIN book, \A b \in DOMAIN book \ {a} : book2[b] = book[b],
         book2[a].status = "APPROVED",
         req2[h].pc = Pay[kind], req2[h].ref = a, req2[h].amount = book2[a].amount
  PROVE  BookOK(kind, book2, paid, req2)
<1>1. For(kind, a, paid) = {} BY DEF BookOK, RowOK
<1>2. \A k \in Handlers : Working(kind, req[k]) => req[k].ref # a
  BY DEF BookOK, HandlerOK
<1>3. \A b \in DOMAIN book2 : RowOK(kind, book2[b], For(kind, b, paid), paid)
  <2>1. RowOK(kind, book2[a], For(kind, a, paid), paid) BY <1>1 DEF RowOK
  <2> QED BY <2>1 DEF BookOK
<1>4. HandlerOK(kind, req2[h], book2[a], For(kind, a, paid), paid)
  <2>1. Pay[kind] # Mark[kind] BY DEF Kinds, Pay, Mark
  <2> QED BY <1>1, <2>1 DEF HandlerOK
<1>5. ASSUME NEW k \in Handlers, Working(kind, req2[k])
      PROVE  /\ req2[k].ref \in DOMAIN book2
             /\ HandlerOK(kind, req2[k], book2[req2[k].ref], For(kind, req2[k].ref, paid), paid)
             /\ \A m \in Handlers : Working(kind, req2[m]) /\ req2[m].ref = req2[k].ref => m = k
  <2>1. CASE k = h BY <1>2, <1>4, <2>1 DEF Others
  <2>2. CASE k # h
    <3>1. req2[k] = req[k] /\ Working(kind, req[k]) BY <1>5, <2>2 DEF Others
    <3>2. req[k].ref # a BY <1>2, <3>1
    <3>3. /\ req[k].ref \in DOMAIN book
          /\ HandlerOK(kind, req[k], book[req[k].ref], For(kind, req[k].ref, paid), paid)
          /\ \A m \in Handlers : Working(kind, req[m]) /\ req[m].ref = req[k].ref => m = k
      BY <3>1 DEF BookOK
    <3>4. \A m \in Handlers \ {h} : req2[m] = req[m] BY DEF Others
    <3> QED BY <3>1, <3>2, <3>3, <3>4
  <2> QED BY <2>1, <2>2
<1> QED BY <1>3, <1>5 DEF BookOK

\* The one payout of a row, made by the handler that approved it.
LEMMA PayStep ==
  ASSUME NEW kind \in Kinds, NEW book, NEW paid, NEW paid2, NEW req, NEW req2,
         BookOK(kind, book, paid, req), NEW h \in Handlers, Others(h, req, req2),
         req[h].pc = Pay[kind], NEW n, n \notin DOMAIN paid,
         DOMAIN paid2 = DOMAIN paid \cup {n}, \A i \in DOMAIN paid : paid2[i] = paid[i],
         paid2[n].kind = kind, paid2[n].ref = req[h].ref, paid2[n].amount = req[h].amount,
         req2[h].pc = Mark[kind], req2[h].ref = req[h].ref, req2[h].payment = n
  PROVE  BookOK(kind, book, paid2, req2)
<1> DEFINE a == req[h].ref
<1>1. /\ a \in DOMAIN book /\ Working(kind, req[h])
      /\ HandlerOK(kind, req[h], book[a], For(kind, a, paid), paid)
      /\ \A k \in Handlers : Working(kind, req[k]) /\ req[k].ref = a => k = h
  BY DEF BookOK, Working
<1>2. For(kind, a, paid) = {} /\ req[h].amount = book[a].amount
  BY <1>1 DEF HandlerOK
<1>3. /\ For(kind, a, paid2) = {n}
      /\ \A ref : ref # a => For(kind, ref, paid2) = For(kind, ref, paid)
  <2>1. \A i, ref : i \in For(kind, ref, paid2) <=> i \in For(kind, ref, paid) \/ (i = n /\ ref = a)
    BY DEF For
  <2> QED BY <1>2, <2>1, SMTT(30)
<1>4. \A i \in DOMAIN paid2 : paid2[i].kind = kind => paid2[i].ref \in DOMAIN book
  BY <1>1 DEF BookOK
<1>5. Pay[kind] # Mark[kind] BY DEF Kinds, Pay, Mark
<1>6. ASSUME NEW b \in DOMAIN book PROVE RowOK(kind, book[b], For(kind, b, paid2), paid2)
  <2>1. CASE b = a
    <3>1. book[a].status \in {"APPROVED", "REJECTED"} BY <1>1 DEF HandlerOK
    <3> QED BY <1>3, <2>1, <3>1 DEF RowOK
  <2>2. CASE b # a
    <3>1. RowOK(kind, book[b], For(kind, b, paid), paid) BY DEF BookOK
    <3>2. \A i \in For(kind, b, paid) : paid2[i] = paid[i] BY DEF For
    <3> QED BY <1>3, <2>2, <3>1, <3>2 DEF RowOK
  <2> QED BY <2>1, <2>2
<1>7. HandlerOK(kind, req2[h], book[a], For(kind, a, paid2), paid2)
  BY <1>1, <1>2, <1>3, <1>5 DEF HandlerOK
<1>8. ASSUME NEW k \in Handlers, Working(kind, req2[k])
      PROVE  /\ req2[k].ref \in DOMAIN book
             /\ HandlerOK(kind, req2[k], book[req2[k].ref], For(kind, req2[k].ref, paid2), paid2)
             /\ \A m \in Handlers : Working(kind, req2[m]) /\ req2[m].ref = req2[k].ref => m = k
  <2>1. \A m \in Handlers \ {h} : req2[m] = req[m] BY DEF Others
  <2>2. CASE k = h BY <1>1, <1>7, <2>1, <2>2
  <2>3. CASE k # h
    <3>1. req2[k] = req[k] /\ Working(kind, req[k]) BY <1>8, <2>1, <2>3
    <3>2. req[k].ref # a BY <1>1, <2>3, <3>1
    <3>3. /\ req[k].ref \in DOMAIN book
          /\ HandlerOK(kind, req[k], book[req[k].ref], For(kind, req[k].ref, paid), paid)
          /\ \A m \in Handlers : Working(kind, req[m]) /\ req[m].ref = req[k].ref => m = k
      BY <3>1 DEF BookOK
    <3>4. For(kind, req[k].ref, paid2) = For(kind, req[k].ref, paid) BY <1>3, <3>2
    <3>5. \A i \in For(kind, req[k].ref, paid) : paid2[i] = paid[i] BY DEF For
    <3>6. HandlerOK(kind, req[k], book[req[k].ref], For(kind, req[k].ref, paid2), paid2)
      BY <3>3, <3>4, <3>5 DEF HandlerOK
    <3> QED BY <2>1, <3>1, <3>2, <3>3, <3>6
  <2> QED BY <2>2, <2>3
<1> QED BY <1>4, <1>6, <1>8 DEF BookOK

\* The handler that paid marks the row, unless somebody rejected it meanwhile.
LEMMA MarkStep ==
  ASSUME NEW kind \in Kinds, NEW book, NEW book2, NEW paid, NEW req, NEW req2,
         BookOK(kind, book, paid, req), NEW h \in Handlers, Others(h, req, req2),
         req[h].pc = Mark[kind], ~Working(kind, req2[h]),
         book[req[h].ref].status = "APPROVED",
         DOMAIN book2 = DOMAIN book, \A b \in DOMAIN book \ {req[h].ref} : book2[b] = book[b],
         book2[req[h].ref].status = "DISBURSED",
         book2[req[h].ref].payment = req[h].payment,
         book2[req[h].ref].amount = book[req[h].ref].amount
  PROVE  BookOK(kind, book2, paid, req2)
<1> DEFINE a == req[h].ref
<1>1. /\ a \in DOMAIN book /\ Working(kind, req[h])
      /\ HandlerOK(kind, req[h], book[a], For(kind, a, paid), paid)
      /\ \A k \in Handlers : Working(kind, req[k]) /\ req[k].ref = a => k = h
  BY DEF BookOK, Working
<1>2. \A b \in DOMAIN book2 : RowOK(kind, book2[b], For(kind, b, paid), paid)
  <2>1. RowOK(kind, book[a], For(kind, a, paid), paid) BY <1>1 DEF BookOK
  <2>2. RowOK(kind, book2[a], For(kind, a, paid), paid) BY <1>1, <2>1 DEF RowOK, HandlerOK
  <2> QED BY <2>2 DEF BookOK
<1>3. ASSUME NEW k \in Handlers, Working(kind, req2[k])
      PROVE  /\ req2[k].ref \in DOMAIN book2
             /\ HandlerOK(kind, req2[k], book2[req2[k].ref], For(kind, req2[k].ref, paid), paid)
             /\ \A m \in Handlers : Working(kind, req2[m]) /\ req2[m].ref = req2[k].ref => m = k
  <2>1. k # h /\ req2[k] = req[k] /\ Working(kind, req[k]) BY <1>3 DEF Others
  <2>2. req[k].ref # a BY <1>1, <2>1
  <2>3. /\ req[k].ref \in DOMAIN book
        /\ HandlerOK(kind, req[k], book[req[k].ref], For(kind, req[k].ref, paid), paid)
        /\ \A m \in Handlers : Working(kind, req[m]) /\ req[m].ref = req[k].ref => m = k
    BY <2>1 DEF BookOK
  <2>4. \A m \in Handlers : Working(kind, req2[m]) => req2[m] = req[m] BY DEF Others
  <2> QED BY <2>1, <2>2, <2>3, <2>4
<1> QED BY <1>2, <1>3 DEF BookOK

-----------------------------------------------------------------------------
(* The actions. *)

Paying == {"payAdvance", "markAdvance", "payConversion", "markConversion"}

LEMMA WorkingPays ==
  ASSUME NEW kind \in Kinds, NEW req PROVE Working(kind, req) => req.pc \in Paying
BY DEF Kinds, Working, Pay, Mark, Paying

LEMMA BecomeOthers ==
  ASSUME RequestShape, NEW h \in Handlers, NEW r, Become(h, r)
  PROVE  Others(h, request, request') /\ request'[h] = r
         /\ request' = [k \in Handlers |-> request'[k]]
BY DEF RequestShape, Become, Others

LEMMA RequestShapeKept ==
  ASSUME RequestShape, NEW h \in Handlers, NEW r, Become(h, r),
         r.pc = "advance" => r.status \in {"REQUESTED", "APPROVED"}
  PROVE  RequestShape'
<1>1. Others(h, request, request') /\ request'[h] = r
      /\ request' = [k \in Handlers |-> request'[k]]
  BY BecomeOthers
<1> QED BY <1>1 DEF RequestShape, Others

LEMMA AdvanceOverGrows ==
  ASSUME NEW S, NEW T PROVE AdvanceOver(S) \subseteq AdvanceOver(S \cup T)
BY DEF AdvanceOver

LEMMA ConversionOverGrows ==
  ASSUME NEW S, NEW T PROVE ConversionOver(S) \subseteq ConversionOver(S \cup T)
BY DEF ConversionOver

\* A step that pays nothing and moves no book other than in the ways of RowsMove.
LEMMA QuietBooks ==
  ASSUME PaidInv, RowsMove(AdvanceBook, AdvanceBook'), RowsMove(ConversionBook, ConversionBook'),
         \A kind \in Kinds : SamePaid(kind, payouts, payouts'),
         \A k \in Handlers : request'[k] = request[k] \/ request'[k].pc \notin Paying
  PROVE  /\ BookOK("advance", AdvanceBook', payouts', request')
         /\ BookOK("conversion", ConversionBook', payouts', request')
<1>1. \A kind \in Kinds : \A k \in Handlers :
        request'[k] = request[k] \/ ~Working(kind, request'[k])
  BY WorkingPays
<1>2. "advance" \in Kinds /\ "conversion" \in Kinds BY DEF Kinds
<1> QED BY <1>1, <1>2, QuietStep DEF PaidInv

LEMMA SameBooks ==
  /\ UNCHANGED advances => AdvanceBook' = AdvanceBook /\ RowsMove(AdvanceBook, AdvanceBook')
  /\ UNCHANGED conversions =>
       ConversionBook' = ConversionBook /\ RowsMove(ConversionBook, ConversionBook')
  /\ UNCHANGED payouts => \A kind \in Kinds : SamePaid(kind, payouts, payouts')
<1>1. \A book : RowsMove(book, book) BY DEF RowsMove
<1>2. \A kind : SamePaid(kind, payouts, payouts) BY DEF SamePaid
<1>3. UNCHANGED advances => AdvanceBook' = AdvanceBook BY DEF AdvanceBook
<1>4. UNCHANGED conversions => ConversionBook' = ConversionBook BY DEF ConversionBook
<1> QED BY <1>1, <1>2, <1>3, <1>4

LEMMA InvFromParts ==
  ASSUME AdvanceShape', ConversionShape', RequestShape', (\E S : payouts \in Seq(S))',
         BookOK("advance", AdvanceBook', payouts', request'),
         BookOK("conversion", ConversionBook', payouts', request')
  PROVE  PaidInv'
BY DEF PaidInv, Shapes, BookOK

LEMMA ShapesStay ==
  /\ UNCHANGED advances /\ AdvanceShape => AdvanceShape'
  /\ UNCHANGED conversions /\ ConversionShape => ConversionShape'
  /\ UNCHANGED payouts /\ (\E S : payouts \in Seq(S)) => (\E S : payouts \in Seq(S))'
BY DEF AdvanceShape, ConversionShape

\* The handlers that only read, or write other tables.
LEMMA StillStep ==
  ASSUME PaidInv, UNCHANGED <<advances, conversions, payouts>>, RequestShape',
         \A k \in Handlers : request'[k] = request[k] \/ request'[k].pc \notin Paying
  PROVE  PaidInv'
<1>1. /\ BookOK("advance", AdvanceBook', payouts', request')
      /\ BookOK("conversion", ConversionBook', payouts', request')
  BY SameBooks, QuietBooks
<1>2. AdvanceShape' /\ ConversionShape' /\ (\E S : payouts \in Seq(S))'
  BY ShapesStay DEF PaidInv, Shapes
<1> QED BY <1>1, <1>2, InvFromParts

LEMMA Becoming ==
  ASSUME PaidInv, UNCHANGED <<advances, conversions, payouts>>, NEW h \in Handlers, NEW r,
         Become(h, r), r.pc \notin Paying,
         r.pc = "advance" => r.status \in {"REQUESTED", "APPROVED"}
  PROVE  PaidInv'
<1>1. RequestShape BY DEF PaidInv, Shapes
<1>2. RequestShape' BY <1>1, RequestShapeKept
<1>3. Others(h, request, request') /\ request'[h] = r BY <1>1, BecomeOthers
<1> QED BY <1>2, <1>3, StillStep DEF Others

LEMMA ReadersStep ==
  ASSUME PaidInv, NEW h \in Handlers, NEW e \in Employees,
         SetPackage(h, e) \/ RequestAdvance(h, e) \/ RequestConversion(h, e) \/ ComputeSalary(h, e)
  PROVE  PaidInv'
<1>1. CASE SetPackage(h, e)
  BY <1>1, Becoming DEF SetPackage, rows, Paying
<1>2. CASE RequestAdvance(h, e)
  BY <1>2, Becoming DEF RequestAdvance, rows, Paying
<1>3. CASE RequestConversion(h, e)
  BY <1>3, Becoming DEF RequestConversion, rows, Paying
<1>4. CASE ComputeSalary(h, e)
  BY <1>4, Becoming DEF ComputeSalary, rows, Paying
<1> QED BY <1>1, <1>2, <1>3, <1>4

LEMMA OthersStep ==
  ASSUME PaidInv, NEW h \in Handlers,
         SupersedeAndCreate(h) \/ ReadNetted(h) \/ PayoutFails(h) \/ Abort(h)
  PROVE  PaidInv'
<1>1. CASE SupersedeAndCreate(h)
  BY <1>1, Becoming DEF SupersedeAndCreate, Paying, Idle
<1>2. CASE ReadNetted(h)
  BY <1>2, Becoming DEF ReadNetted, rows, Paying
<1>3. CASE PayoutFails(h)
  BY <1>3, Becoming DEF PayoutFails, rows, Paying, Idle
<1>4. CASE Abort(h)
  BY <1>4, Becoming DEF Abort, rows, Paying, Idle
<1> QED BY <1>1, <1>2, <1>3, <1>4

-----------------------------------------------------------------------------
(* The tables of advances and of conversions. *)

LEMMA FunctionIsSeq ==
  ASSUME NEW X, NEW n \in Nat, NEW g \in [1 .. n -> X] PROVE g \in Seq(X)
OBVIOUS

\* A row more, or some rows replaced, in a table.
LEMMA AppendRow ==
  ASSUME NEW X, NEW t \in Seq(X), NEW x \in X
  PROVE  /\ Append(t, x) \in Seq(X)
         /\ DOMAIN Append(t, x) = DOMAIN t \cup {Len(t) + 1}
         /\ Len(t) + 1 \notin DOMAIN t
         /\ \A a \in DOMAIN t : Append(t, x)[a] = t[a]
         /\ Append(t, x)[Len(t) + 1] = x
OBVIOUS

LEMMA ReplaceRows ==
  ASSUME NEW X, NEW t \in Seq(X), NEW g, g = [a \in DOMAIN t |-> g[a]],
         \A a \in DOMAIN t : g[a] \in X
  PROVE  g \in Seq(X)
<1>1. DOMAIN t = 1 .. Len(t) /\ Len(t) \in Nat OBVIOUS
<1>2. g \in [1 .. Len(t) -> X] BY <1>1
<1> QED BY <1>1, <1>2, FunctionIsSeq

LEMMA AdvanceOverMore ==
  ASSUME AdvanceShape, NEW T
  PROVE  \E S : advances \in Seq(AdvanceOver(S)) /\ AdvanceOver(T) \subseteq AdvanceOver(S)
<1>1. PICK S : advances \in Seq(AdvanceOver(S)) BY DEF AdvanceShape
<1>2. AdvanceOver(S) \subseteq AdvanceOver(S \cup T) BY AdvanceOverGrows
<1>3. AdvanceOver(T) \subseteq AdvanceOver(S \cup T) BY DEF AdvanceOver
<1>4. advances \in Seq(AdvanceOver(S \cup T)) BY <1>1, <1>2, SeqMonotonic
<1> QED BY <1>3, <1>4

LEMMA ConversionOverMore ==
  ASSUME ConversionShape, NEW T
  PROVE  \E S : conversions \in Seq(ConversionOver(S)) /\ ConversionOver(T) \subseteq ConversionOver(S)
<1>1. PICK S : conversions \in Seq(ConversionOver(S)) BY DEF ConversionShape
<1>2. ConversionOver(S) \subseteq ConversionOver(S \cup T) BY ConversionOverGrows
<1>3. ConversionOver(T) \subseteq ConversionOver(S \cup T) BY DEF ConversionOver
<1>4. conversions \in Seq(ConversionOver(S \cup T)) BY <1>1, <1>2, SeqMonotonic
<1> QED BY <1>3, <1>4

LEMMA UpdateAdvances ==
  ASSUME AdvanceShape, NEW T, advances' = [a \in DOMAIN advances |-> advances'[a]],
         \A a \in DOMAIN advances : advances'[a] = advances[a] \/ advances'[a] \in AdvanceOver(T)
  PROVE  AdvanceShape'
<1>1. PICK S : advances \in Seq(AdvanceOver(S)) /\ AdvanceOver(T) \subseteq AdvanceOver(S)
  BY AdvanceOverMore
<1>2. \A a \in DOMAIN advances : advances[a] \in AdvanceOver(S) BY <1>1
<1>3. \A a \in DOMAIN advances : advances'[a] \in AdvanceOver(S) BY <1>1, <1>2
<1>4. advances' \in Seq(AdvanceOver(S)) BY <1>1, <1>3, ReplaceRows
<1> QED BY <1>4 DEF AdvanceShape

LEMMA UpdateConversions ==
  ASSUME ConversionShape, NEW T, conversions' = [c \in DOMAIN conversions |-> conversions'[c]],
         \A c \in DOMAIN conversions : \/ conversions'[c] = conversions[c]
                                       \/ conversions'[c] \in ConversionOver(T)
  PROVE  ConversionShape'
<1>1. PICK S : conversions \in Seq(ConversionOver(S)) /\ ConversionOver(T) \subseteq ConversionOver(S)
  BY ConversionOverMore
<1>2. \A c \in DOMAIN conversions : conversions[c] \in ConversionOver(S) BY <1>1
<1>3. \A c \in DOMAIN conversions : conversions'[c] \in ConversionOver(S) BY <1>1, <1>2
<1>4. conversions' \in Seq(ConversionOver(S)) BY <1>1, <1>3, ReplaceRows
<1> QED BY <1>4 DEF ConversionShape

LEMMA Rows ==
  /\ PaidInv => /\ \A a \in DOMAIN advances : \E S : advances[a] \in AdvanceOver(S)
                /\ \A c \in DOMAIN conversions : \E S : conversions[c] \in ConversionOver(S)
                /\ RequestShape /\ AdvanceShape /\ ConversionShape
  /\ DOMAIN AdvanceBook = DOMAIN advances /\ DOMAIN ConversionBook = DOMAIN conversions
BY DEF PaidInv, Shapes, AdvanceShape, ConversionShape, AdvanceBook, ConversionBook

-----------------------------------------------------------------------------
(* The actions that write a row. *)

LEMMA CreateAdvanceStep ==
  ASSUME PaidInv, NEW h \in Handlers, CreateAdvance(h) PROVE PaidInv'
<1> DEFINE q == request[h]
           x == [who |-> q.who, amount |-> q.amount, owed |-> q.owed, outstanding |-> q.owed,
                 status |-> q.status, payment |-> Null]
<1>1. RequestShape /\ AdvanceShape BY Rows
<1>2. /\ q.status \in {"REQUESTED", "APPROVED"} /\ advances' = Append(advances, x)
      /\ UNCHANGED <<conversions, payouts>> /\ Become(h, Idle)
  BY <1>1 DEF CreateAdvance, At, RequestShape
<1>3. x \in AdvanceOver({q.who, q.amount, q.owed, Null})
  BY <1>2 DEF AdvanceOver, AdvanceStatus
<1>4. PICK S : advances \in Seq(AdvanceOver(S)) /\ x \in AdvanceOver(S)
  BY <1>1, <1>3, AdvanceOverMore
<1>5. /\ AdvanceShape'
      /\ DOMAIN advances' = DOMAIN advances \cup {Len(advances) + 1}
      /\ Len(advances) + 1 \notin DOMAIN advances
      /\ \A a \in DOMAIN advances : advances'[a] = advances[a]
      /\ advances'[Len(advances) + 1].status = q.status
  <2> HIDE DEF x
  <2>1. x.status = q.status BY DEF x
  <2>2. advances' \in Seq(AdvanceOver(S)) BY <1>2, <1>4, AppendRow
  <2> QED BY <1>2, <1>4, <2>1, <2>2, AppendRow DEF AdvanceShape
<1>6. RowsMove(AdvanceBook, AdvanceBook')
  <2> HIDE DEF q
  <2> QED BY <1>2, <1>5 DEF AdvanceBook, RowsMove
<1>7. RequestShape' BY <1>1, <1>2, RequestShapeKept DEF Idle
<1>8. Others(h, request, request') /\ request'[h] = Idle BY <1>1, <1>2, BecomeOthers
<1>9. \A k \in Handlers : request'[k] = request[k] \/ request'[k].pc \notin Paying
  BY <1>8 DEF Others, Idle, Paying
<1>10. ConversionShape' /\ (\E T : payouts \in Seq(T))'
  BY <1>2, ShapesStay DEF PaidInv, Shapes
<1> QED BY <1>2, <1>5, <1>6, <1>7, <1>9, <1>10, SameBooks, QuietBooks, InvFromParts

LEMMA CreateConversionStep ==
  ASSUME PaidInv, NEW h \in Handlers, CreateConversion(h) PROVE PaidInv'
<1> DEFINE q == request[h]
           x == [who |-> q.who, item |-> q.item, notional |-> q.amount, net |-> q.cash - q.fee,
                 status |-> "REQUESTED", payment |-> Null]
<1>1. RequestShape /\ ConversionShape BY Rows
<1>2. /\ conversions' = Append(conversions, x)
      /\ UNCHANGED <<advances, payouts>> /\ Become(h, Idle)
  BY DEF CreateConversion
<1>3. x \in ConversionOver({q.who, q.item, q.amount, q.cash - q.fee, Null})
  BY DEF ConversionOver, ConversionStatus
<1>4. PICK S : conversions \in Seq(ConversionOver(S)) /\ x \in ConversionOver(S)
  BY <1>1, <1>3, ConversionOverMore
<1>5. /\ ConversionShape'
      /\ DOMAIN conversions' = DOMAIN conversions \cup {Len(conversions) + 1}
      /\ Len(conversions) + 1 \notin DOMAIN conversions
      /\ \A c \in DOMAIN conversions : conversions'[c] = conversions[c]
      /\ conversions'[Len(conversions) + 1].status = "REQUESTED"
  <2> HIDE DEF x
  <2>1. x.status = "REQUESTED" BY DEF x
  <2>2. conversions' \in Seq(ConversionOver(S)) BY <1>2, <1>4, AppendRow
  <2> QED BY <1>2, <1>4, <2>1, <2>2, AppendRow DEF ConversionShape
<1>6. RowsMove(ConversionBook, ConversionBook')
  BY <1>5 DEF ConversionBook, RowsMove
<1>7. RequestShape' BY <1>1, <1>2, RequestShapeKept DEF Idle
<1>8. Others(h, request, request') /\ request'[h] = Idle BY <1>1, <1>2, BecomeOthers
<1>9. \A k \in Handlers : request'[k] = request[k] \/ request'[k].pc \notin Paying
  BY <1>8 DEF Others, Idle, Paying
<1>10. AdvanceShape' /\ (\E T : payouts \in Seq(T))'
  BY <1>2, ShapesStay DEF PaidInv, Shapes
<1> QED BY <1>2, <1>5, <1>6, <1>7, <1>9, <1>10, SameBooks, QuietBooks, InvFromParts

LEMMA BecomesIdle ==
  ASSUME PaidInv, NEW h \in Handlers, Become(h, Idle)
  PROVE  /\ RequestShape'
         /\ Others(h, request, request') /\ request'[h] = Idle
         /\ \A k \in Handlers : request'[k] = request[k] \/ request'[k].pc \notin Paying
<1>1. RequestShape BY Rows
<1>2. RequestShape' BY <1>1, RequestShapeKept DEF Idle
<1>3. Others(h, request, request') /\ request'[h] = Idle BY <1>1, BecomeOthers
<1> QED BY <1>2, <1>3 DEF Others, Idle, Paying

LEMMA RejectAdvanceStep ==
  ASSUME PaidInv, NEW a \in DOMAIN advances, RejectAdvance(a) PROVE PaidInv'
<1>1. PICK S : advances[a] \in AdvanceOver(S) BY Rows
<1>2. /\ advances' = [b \in DOMAIN advances |-> advances'[b]]
      /\ \A b \in DOMAIN advances \ {a} : advances'[b] = advances[b]
      /\ advances[a].status \in {"REQUESTED", "APPROVED"}
      /\ UNCHANGED <<conversions, payouts, request>>
  BY DEF RejectAdvance
<1>3. advances'[a] = [advances[a] EXCEPT !.status = "REJECTED", !.outstanding = 0]
  BY DEF RejectAdvance
<1>4. /\ advances'[a] \in AdvanceOver(S \cup {0})
      /\ advances'[a].status = "REJECTED" /\ advances'[a].amount = advances[a].amount
  BY <1>1, <1>3 DEF AdvanceOver, AdvanceStatus
<1>5. AdvanceShape' BY <1>2, <1>4, Rows, UpdateAdvances
<1>6. RowsMove(AdvanceBook, AdvanceBook') BY <1>2, <1>4 DEF AdvanceBook, RowsMove
<1>7. RequestShape' BY <1>2, Rows DEF RequestShape
<1>8. ConversionShape' /\ (\E T : payouts \in Seq(T))'
  BY <1>2, ShapesStay DEF PaidInv, Shapes
<1> QED BY <1>2, <1>5, <1>6, <1>7, <1>8, SameBooks, QuietBooks, InvFromParts

LEMMA RejectConversionStep ==
  ASSUME PaidInv, NEW c \in DOMAIN conversions, RejectConversion(c) PROVE PaidInv'
<1>1. PICK S : conversions[c] \in ConversionOver(S) BY Rows
<1>2. /\ conversions' = [d \in DOMAIN conversions |-> conversions'[d]]
      /\ \A d \in DOMAIN conversions \ {c} : conversions'[d] = conversions[d]
      /\ conversions[c].status \in {"REQUESTED", "APPROVED"}
      /\ UNCHANGED <<advances, payouts, request>>
  BY DEF RejectConversion
<1>3. conversions'[c] = [conversions[c] EXCEPT !.status = "REJECTED"]
  BY DEF RejectConversion
<1>4. /\ conversions'[c] \in ConversionOver(S)
      /\ conversions'[c].status = "REJECTED" /\ conversions'[c].net = conversions[c].net
  BY <1>1, <1>3 DEF ConversionOver, ConversionStatus
<1>5. ConversionShape' BY <1>2, <1>4, Rows, UpdateConversions
<1>6. RowsMove(ConversionBook, ConversionBook') BY <1>2, <1>4 DEF ConversionBook, RowsMove
<1>7. RequestShape' BY <1>2, Rows DEF RequestShape
<1>8. AdvanceShape' /\ (\E T : payouts \in Seq(T))'
  BY <1>2, ShapesStay DEF PaidInv, Shapes
<1> QED BY <1>2, <1>5, <1>6, <1>7, <1>8, SameBooks, QuietBooks, InvFromParts

\* A settlement only repays disbursed advances: the compare-and-set of its updates.
LEMMA ApplyDeductionStep ==
  ASSUME PaidInv, NEW h \in Handlers, ApplyDeduction(h) PROVE PaidInv'
<1> DEFINE r == request[h]
<1>1. UNCHANGED <<conversions, payouts>> /\ Become(h, Idle) BY DEF ApplyDeduction
<1>2. CASE UNCHANGED advances
  <2>1. RequestShape' /\ \A k \in Handlers : request'[k] = request[k] \/ request'[k].pc \notin Paying
    BY <1>1, BecomesIdle
  <2> QED BY <1>1, <1>2, <2>1, StillStep
<1>3. CASE /\ advances' = Settled(r)
           /\ \A a \in Touched(r) : advances[a].status = "DISBURSED"
  <2> DEFINE left(a) == r.snapshot[a] - Applied(r.snapshot, r.deduction, a)
  <2>1. /\ advances' = [a \in DOMAIN advances |-> advances'[a]]
        /\ \A a \in DOMAIN advances : a \notin Touched(r) => advances'[a] = advances[a]
        /\ \A a \in DOMAIN advances : a \in Touched(r) =>
             advances'[a] = [advances[a] EXCEPT !.outstanding = left(a),
                                                !.status = IF left(a) = 0 THEN "REPAID" ELSE @]
    BY <1>3 DEF Settled
  <2>2. PICK S : advances \in Seq(AdvanceOver(S)) BY Rows DEF AdvanceShape
  <2> DEFINE T == S \cup {left(a) : a \in DOMAIN advances}
  <2>3. ASSUME NEW a \in DOMAIN advances, a \in Touched(r)
        PROVE  /\ advances'[a] \in AdvanceOver(T)
               /\ advances[a].status = "DISBURSED" /\ advances'[a].status \in {"DISBURSED", "REPAID"}
               /\ advances'[a].amount = advances[a].amount
               /\ advances'[a].payment = advances[a].payment
    <3>1. advances[a] \in AdvanceOver(S) BY <2>2
    <3>2. advances[a].status = "DISBURSED" BY <1>3, <2>3
    <3>3. left(a) \in T OBVIOUS
    <3>4. advances'[a] = [advances[a] EXCEPT !.outstanding = left(a),
                                             !.status = IF left(a) = 0 THEN "REPAID" ELSE @]
      BY <2>1, <2>3
    <3>5. AdvanceOver(S) \subseteq AdvanceOver(T) BY AdvanceOverGrows
    <3> HIDE DEF T, left
    <3> QED BY <3>1, <3>2, <3>3, <3>4, <3>5 DEF AdvanceOver, AdvanceStatus
  <2> HIDE DEF T, left, r
  <2>4. AdvanceShape' BY <2>1, <2>3, Rows, UpdateAdvances
  <2>5. RowsMove(AdvanceBook, AdvanceBook') BY <2>1, <2>3 DEF AdvanceBook, RowsMove
  <2>6. ConversionShape' /\ (\E U : payouts \in Seq(U))'
    BY <1>1, ShapesStay DEF PaidInv, Shapes
  <2> QED BY <1>1, <2>4, <2>5, <2>6, BecomesIdle, SameBooks, QuietBooks, InvFromParts
<1> QED BY <1>2, <1>3 DEF ApplyDeduction

LEMMA ApproveAdvanceStep ==
  ASSUME PaidInv, NEW h \in Handlers, NEW a \in DOMAIN advances, ApproveAdvance(h, a)
  PROVE  PaidInv'
<1> DEFINE q == [pc |-> "payAdvance", ref |-> a, amount |-> advances[a].amount]
<1>1. PICK S : advances[a] \in AdvanceOver(S) BY Rows
<1>2. /\ advances' = [b \in DOMAIN advances |-> advances'[b]]
      /\ \A b \in DOMAIN advances \ {a} : advances'[b] = advances[b]
      /\ advances[a].status = "REQUESTED" /\ Become(h, q)
      /\ UNCHANGED <<conversions, payouts>>
  BY DEF ApproveAdvance
<1>3. advances'[a] = [advances[a] EXCEPT !.status = "APPROVED"]
  BY DEF ApproveAdvance
<1>4. /\ advances'[a] \in AdvanceOver(S)
      /\ advances'[a].status = "APPROVED" /\ advances'[a].amount = advances[a].amount
  BY <1>1, <1>3 DEF AdvanceOver, AdvanceStatus
<1>5. AdvanceShape' BY <1>2, <1>4, Rows, UpdateAdvances
<1>6. RequestShape' BY <1>2, Rows, RequestShapeKept
<1>7. Others(h, request, request') /\ request'[h] = q BY <1>2, Rows, BecomeOthers
<1>8. BookOK("advance", AdvanceBook', payouts, request')
  <2>1. "advance" \in Kinds /\ Pay["advance"] = "payAdvance" BY DEF Kinds, Pay
  <2>2. BookOK("advance", AdvanceBook, payouts, request) BY DEF PaidInv
  <2>3. /\ a \in DOMAIN AdvanceBook /\ AdvanceBook[a].status = "REQUESTED"
        /\ DOMAIN AdvanceBook' = DOMAIN AdvanceBook
        /\ \A b \in DOMAIN AdvanceBook \ {a} : AdvanceBook'[b] = AdvanceBook[b]
        /\ AdvanceBook'[a].status = "APPROVED"
        /\ AdvanceBook'[a].amount = advances[a].amount
    BY <1>2, <1>4 DEF AdvanceBook
  <2>4. /\ request'[h].pc = Pay["advance"] /\ request'[h].ref = a
        /\ request'[h].amount = AdvanceBook'[a].amount
    BY <1>7, <2>1, <2>3
  <2> QED BY <1>7, <2>1, <2>2, <2>3, <2>4, ApproveStep
<1>9. BookOK("conversion", ConversionBook', payouts, request')
  <2>1. "conversion" \in Kinds /\ ~Working("conversion", q) BY DEF Kinds, Working, Pay, Mark
  <2>2. BookOK("conversion", ConversionBook, payouts, request) BY DEF PaidInv
  <2>3. \A k \in Handlers : request'[k] = request[k] \/ ~Working("conversion", request'[k])
    BY <1>7, <2>1 DEF Others
  <2>4. SamePaid("conversion", payouts, payouts) BY DEF SamePaid
  <2> QED BY <1>2, <2>1, <2>2, <2>3, <2>4, SameBooks, QuietStep
<1>10. ConversionShape' /\ (\E T : payouts \in Seq(T))' /\ payouts' = payouts
  BY <1>2, ShapesStay DEF PaidInv, Shapes
<1> QED BY <1>5, <1>6, <1>8, <1>9, <1>10, InvFromParts

LEMMA ApproveConversionStep ==
  ASSUME PaidInv, NEW h \in Handlers, NEW a \in DOMAIN conversions, ApproveConversion(h, a)
  PROVE  PaidInv'
<1> DEFINE q == [pc |-> "payConversion", ref |-> a, amount |-> conversions[a].net]
<1>1. PICK S : conversions[a] \in ConversionOver(S) BY Rows
<1>2. /\ conversions' = [b \in DOMAIN conversions |-> conversions'[b]]
      /\ \A b \in DOMAIN conversions \ {a} : conversions'[b] = conversions[b]
      /\ conversions[a].status = "REQUESTED" /\ Become(h, q)
      /\ UNCHANGED <<advances, payouts>>
  BY DEF ApproveConversion
<1>3. conversions'[a] = [conversions[a] EXCEPT !.status = "APPROVED"]
  BY DEF ApproveConversion
<1>4. /\ conversions'[a] \in ConversionOver(S)
      /\ conversions'[a].status = "APPROVED" /\ conversions'[a].net = conversions[a].net
  BY <1>1, <1>3 DEF ConversionOver, ConversionStatus
<1>5. ConversionShape' BY <1>2, <1>4, Rows, UpdateConversions
<1>6. RequestShape' BY <1>2, Rows, RequestShapeKept
<1>7. Others(h, request, request') /\ request'[h] = q BY <1>2, Rows, BecomeOthers
<1>8. BookOK("conversion", ConversionBook', payouts, request')
  <2>1. "conversion" \in Kinds /\ Pay["conversion"] = "payConversion" BY DEF Kinds, Pay
  <2>2. BookOK("conversion", ConversionBook, payouts, request) BY DEF PaidInv
  <2>3. /\ a \in DOMAIN ConversionBook /\ ConversionBook[a].status = "REQUESTED"
        /\ DOMAIN ConversionBook' = DOMAIN ConversionBook
        /\ \A b \in DOMAIN ConversionBook \ {a} : ConversionBook'[b] = ConversionBook[b]
        /\ ConversionBook'[a].status = "APPROVED"
        /\ ConversionBook'[a].amount = conversions[a].net
    BY <1>2, <1>4 DEF ConversionBook
  <2>4. /\ request'[h].pc = Pay["conversion"] /\ request'[h].ref = a
        /\ request'[h].amount = ConversionBook'[a].amount
    BY <1>7, <2>1, <2>3
  <2> QED BY <1>7, <2>1, <2>2, <2>3, <2>4, ApproveStep
<1>9. BookOK("advance", AdvanceBook', payouts, request')
  <2>1. "advance" \in Kinds /\ ~Working("advance", q) BY DEF Kinds, Working, Pay, Mark
  <2>2. BookOK("advance", AdvanceBook, payouts, request) BY DEF PaidInv
  <2>3. \A k \in Handlers : request'[k] = request[k] \/ ~Working("advance", request'[k])
    BY <1>7, <2>1 DEF Others
  <2>4. SamePaid("advance", payouts, payouts) BY DEF SamePaid
  <2> QED BY <1>2, <2>1, <2>2, <2>3, <2>4, SameBooks, QuietStep
<1>10. AdvanceShape' /\ (\E T : payouts \in Seq(T))' /\ payouts' = payouts
  BY <1>2, ShapesStay DEF PaidInv, Shapes
<1> QED BY <1>5, <1>6, <1>8, <1>9, <1>10, InvFromParts

LEMMA MarkAdvanceStep ==
  ASSUME PaidInv, NEW h \in Handlers, MarkAdvanceDisbursed(h) PROVE PaidInv'
<1> DEFINE q == request[h]
           a == q.ref
<1>1. /\ q.pc = "markAdvance" /\ Become(h, Idle) /\ UNCHANGED <<conversions, payouts>>
  BY DEF MarkAdvanceDisbursed, At
<1>2. "advance" \in Kinds /\ Mark["advance"] = "markAdvance" BY DEF Kinds, Mark
<1>3. BookOK("advance", AdvanceBook, payouts, request) BY DEF PaidInv
<1>4. a \in DOMAIN advances BY <1>1, <1>2, <1>3, Rows DEF BookOK, Working
<1>5. /\ RequestShape' /\ Others(h, request, request')
      /\ \A k \in Handlers : request'[k] = request[k] \/ request'[k].pc \notin Paying
      /\ request'[h] = Idle
  BY <1>1, BecomesIdle
<1>6. CASE advances[a].status # "APPROVED"
  <2>1. UNCHANGED advances BY <1>6 DEF MarkAdvanceDisbursed
  <2> QED BY <1>1, <1>5, <2>1, StillStep
<1>7. CASE advances[a].status = "APPROVED"
  <2>1. PICK S : advances[a] \in AdvanceOver(S) BY <1>4, Rows
  <2>2. /\ advances' = [b \in DOMAIN advances |-> advances'[b]]
        /\ \A b \in DOMAIN advances \ {a} : advances'[b] = advances[b]
    BY <1>7 DEF MarkAdvanceDisbursed
  <2>3. advances'[a] = [advances[a] EXCEPT !.status = "DISBURSED", !.payment = q.payment]
    BY <1>4, <1>7 DEF MarkAdvanceDisbursed
  <2>4. /\ advances'[a] \in AdvanceOver(S \cup {q.payment})
        /\ advances'[a].status = "DISBURSED" /\ advances'[a].amount = advances[a].amount
        /\ advances'[a].payment = q.payment
    BY <2>1, <2>3 DEF AdvanceOver, AdvanceStatus
  <2>5. AdvanceShape' BY <2>2, <2>4, Rows, UpdateAdvances
  <2>6. BookOK("advance", AdvanceBook', payouts, request')
    <3>1. /\ AdvanceBook[a].status = "APPROVED"
          /\ DOMAIN AdvanceBook' = DOMAIN AdvanceBook
          /\ \A b \in DOMAIN AdvanceBook \ {a} : AdvanceBook'[b] = AdvanceBook[b]
          /\ AdvanceBook'[a].status = "DISBURSED" /\ AdvanceBook'[a].payment = q.payment
          /\ AdvanceBook'[a].amount = AdvanceBook[a].amount
      BY <1>4, <1>7, <2>2, <2>4 DEF AdvanceBook
    <3>2. ~Working("advance", request'[h]) BY <1>2, <1>5, WorkingPays DEF Idle, Paying
    <3> QED BY <1>1, <1>2, <1>3, <1>5, <3>1, <3>2, MarkStep
  <2>7. BookOK("conversion", ConversionBook', payouts, request')
    <3>1. "conversion" \in Kinds BY DEF Kinds
    <3>2. BookOK("conversion", ConversionBook, payouts, request) BY DEF PaidInv
    <3>3. \A k \in Handlers : request'[k] = request[k] \/ ~Working("conversion", request'[k])
      BY <1>5, <3>1, WorkingPays
    <3>4. SamePaid("conversion", payouts, payouts) BY DEF SamePaid
    <3> QED BY <1>1, <3>1, <3>2, <3>3, <3>4, SameBooks, QuietStep
  <2>8. ConversionShape' /\ (\E T : payouts \in Seq(T))' /\ payouts' = payouts
    BY <1>1, ShapesStay DEF PaidInv, Shapes
  <2> QED BY <1>5, <2>5, <2>6, <2>7, <2>8, InvFromParts
<1> QED BY <1>6, <1>7

LEMMA MarkConversionStep ==
  ASSUME PaidInv, NEW h \in Handlers, MarkConversionDisbursed(h) PROVE PaidInv'
<1> DEFINE q == request[h]
           a == q.ref
<1>1. /\ q.pc = "markConversion" /\ Become(h, Idle) /\ UNCHANGED <<advances, payouts>>
  BY DEF MarkConversionDisbursed, At
<1>2. "conversion" \in Kinds /\ Mark["conversion"] = "markConversion" BY DEF Kinds, Mark
<1>3. BookOK("conversion", ConversionBook, payouts, request) BY DEF PaidInv
<1>4. a \in DOMAIN conversions BY <1>1, <1>2, <1>3, Rows DEF BookOK, Working
<1>5. /\ RequestShape' /\ Others(h, request, request')
      /\ \A k \in Handlers : request'[k] = request[k] \/ request'[k].pc \notin Paying
      /\ request'[h] = Idle
  BY <1>1, BecomesIdle
<1>6. CASE conversions[a].status # "APPROVED"
  <2>1. UNCHANGED conversions BY <1>6 DEF MarkConversionDisbursed
  <2> QED BY <1>1, <1>5, <2>1, StillStep
<1>7. CASE conversions[a].status = "APPROVED"
  <2>1. PICK S : conversions[a] \in ConversionOver(S) BY <1>4, Rows
  <2>2. /\ conversions' = [b \in DOMAIN conversions |-> conversions'[b]]
        /\ \A b \in DOMAIN conversions \ {a} : conversions'[b] = conversions[b]
    BY <1>7 DEF MarkConversionDisbursed
  <2>3. conversions'[a] = [conversions[a] EXCEPT !.status = "DISBURSED", !.payment = q.payment]
    BY <1>4, <1>7 DEF MarkConversionDisbursed
  <2>4. /\ conversions'[a] \in ConversionOver(S \cup {q.payment})
        /\ conversions'[a].status = "DISBURSED" /\ conversions'[a].net = conversions[a].net
        /\ conversions'[a].payment = q.payment
    BY <2>1, <2>3 DEF ConversionOver, ConversionStatus
  <2>5. ConversionShape' BY <2>2, <2>4, Rows, UpdateConversions
  <2>6. BookOK("conversion", ConversionBook', payouts, request')
    <3>1. /\ ConversionBook[a].status = "APPROVED"
          /\ DOMAIN ConversionBook' = DOMAIN ConversionBook
          /\ \A b \in DOMAIN ConversionBook \ {a} : ConversionBook'[b] = ConversionBook[b]
          /\ ConversionBook'[a].status = "DISBURSED" /\ ConversionBook'[a].payment = q.payment
          /\ ConversionBook'[a].amount = ConversionBook[a].amount
      BY <1>4, <1>7, <2>2, <2>4 DEF ConversionBook
    <3>2. ~Working("conversion", request'[h]) BY <1>2, <1>5, WorkingPays DEF Idle, Paying
    <3> QED BY <1>1, <1>2, <1>3, <1>5, <3>1, <3>2, MarkStep
  <2>7. BookOK("advance", AdvanceBook', payouts, request')
    <3>1. "advance" \in Kinds BY DEF Kinds
    <3>2. BookOK("advance", AdvanceBook, payouts, request) BY DEF PaidInv
    <3>3. \A k \in Handlers : request'[k] = request[k] \/ ~Working("advance", request'[k])
      BY <1>5, <3>1, WorkingPays
    <3>4. SamePaid("advance", payouts, payouts) BY DEF SamePaid
    <3> QED BY <1>1, <3>1, <3>2, <3>3, <3>4, SameBooks, QuietStep
  <2>8. AdvanceShape' /\ (\E T : payouts \in Seq(T))' /\ payouts' = payouts
    BY <1>1, ShapesStay DEF PaidInv, Shapes
  <2> QED BY <1>5, <2>5, <2>6, <2>7, <2>8, InvFromParts
<1> QED BY <1>6, <1>7

\* The new payout of a book is not one of the other.
LEMMA PayAdvanceStep ==
  ASSUME PaidInv, NEW h \in Handlers, PayAdvance(h) PROVE PaidInv'
<1> DEFINE q == request[h]
           n == Len(payouts) + 1
           x == [kind |-> "advance", ref |-> q.ref, amount |-> q.amount]
           m == [pc |-> "markAdvance", ref |-> q.ref, payment |-> n]
<1>1. /\ q.pc = "payAdvance" /\ UNCHANGED <<advances, conversions>>
      /\ payouts' = Append(payouts, x) /\ Become(h, m)
  BY DEF PayAdvance, Payout, At
<1>2. RequestShape' BY <1>1, Rows, RequestShapeKept
<1>3. Others(h, request, request') /\ request'[h] = m BY <1>1, Rows, BecomeOthers
<1>4. /\ (\E S : payouts \in Seq(S))'
      /\ DOMAIN payouts' = DOMAIN payouts \cup {n} /\ n \notin DOMAIN payouts
      /\ \A i \in DOMAIN payouts : payouts'[i] = payouts[i]
      /\ payouts'[n] = x
  <2>1. PICK S : payouts \in Seq(S) BY DEF PaidInv, Shapes
  <2>2. payouts \in Seq(S \cup {x}) BY <2>1, SeqMonotonic
  <2> HIDE DEF x
  <2>3. payouts' \in Seq(S \cup {x}) BY <1>1, <2>2, AppendRow
  <2> QED BY <1>1, <2>2, <2>3, AppendRow
<1>5. BookOK("advance", AdvanceBook', payouts', request')
  <2>1. "advance" \in Kinds /\ Pay["advance"] = "payAdvance" /\ Mark["advance"] = "markAdvance"
    BY DEF Kinds, Pay, Mark
  <2>2. BookOK("advance", AdvanceBook, payouts, request) BY DEF PaidInv
  <2>3. /\ payouts'[n].kind = "advance" /\ payouts'[n].ref = q.ref /\ payouts'[n].amount = q.amount
        /\ request'[h].pc = "markAdvance" /\ request'[h].ref = q.ref /\ request'[h].payment = n
    BY <1>3, <1>4
  <2>4. AdvanceBook' = AdvanceBook BY <1>1, SameBooks
  <2>5. BookOK("advance", AdvanceBook, payouts', request')
    <3>1. /\ request[h].pc = Pay["advance"] /\ request'[h].pc = Mark["advance"]
          /\ request'[h].ref = request[h].ref /\ request'[h].payment = n
          /\ payouts'[n].ref = request[h].ref /\ payouts'[n].amount = request[h].amount
          /\ payouts'[n].kind = "advance"
      BY <1>1, <2>1, <2>3
    <3>2. /\ Others(h, request, request') /\ n \notin DOMAIN payouts
          /\ DOMAIN payouts' = DOMAIN payouts \cup {n}
          /\ \A i \in DOMAIN payouts : payouts'[i] = payouts[i]
      BY <1>3, <1>4
    <3>3. "advance" \in Kinds BY DEF Kinds
    <3> HIDE DEF n
    <3> QED BY <2>2, <3>1, <3>2, <3>3, PayStep
  <2> QED BY <2>4, <2>5
<1>6. BookOK("conversion", ConversionBook', payouts', request')
  <2>1. "conversion" \in Kinds /\ ~Working("conversion", m) BY DEF Kinds, Working, Pay, Mark
  <2>2. BookOK("conversion", ConversionBook, payouts, request) BY DEF PaidInv
  <2>3. \A k \in Handlers : request'[k] = request[k] \/ ~Working("conversion", request'[k])
    BY <1>3, <2>1 DEF Others
  <2>4. SamePaid("conversion", payouts, payouts') BY <1>4 DEF SamePaid
  <2> QED BY <1>1, <2>1, <2>2, <2>3, <2>4, SameBooks, QuietStep
<1>7. AdvanceShape' /\ ConversionShape' BY <1>1, Rows, ShapesStay
<1> QED BY <1>2, <1>4, <1>5, <1>6, <1>7, InvFromParts

LEMMA PayConversionStep ==
  ASSUME PaidInv, NEW h \in Handlers, PayConversion(h) PROVE PaidInv'
<1> DEFINE q == request[h]
           n == Len(payouts) + 1
           x == [kind |-> "conversion", ref |-> q.ref, amount |-> q.amount]
           m == [pc |-> "markConversion", ref |-> q.ref, payment |-> n]
<1>1. /\ q.pc = "payConversion" /\ UNCHANGED <<conversions, advances>>
      /\ payouts' = Append(payouts, x) /\ Become(h, m)
  BY DEF PayConversion, Payout, At
<1>2. RequestShape' BY <1>1, Rows, RequestShapeKept
<1>3. Others(h, request, request') /\ request'[h] = m BY <1>1, Rows, BecomeOthers
<1>4. /\ (\E S : payouts \in Seq(S))'
      /\ DOMAIN payouts' = DOMAIN payouts \cup {n} /\ n \notin DOMAIN payouts
      /\ \A i \in DOMAIN payouts : payouts'[i] = payouts[i]
      /\ payouts'[n] = x
  <2>1. PICK S : payouts \in Seq(S) BY DEF PaidInv, Shapes
  <2>2. payouts \in Seq(S \cup {x}) BY <2>1, SeqMonotonic
  <2> HIDE DEF x
  <2>3. payouts' \in Seq(S \cup {x}) BY <1>1, <2>2, AppendRow
  <2> QED BY <1>1, <2>2, <2>3, AppendRow
<1>5. BookOK("conversion", ConversionBook', payouts', request')
  <2>1. "conversion" \in Kinds /\ Pay["conversion"] = "payConversion" /\ Mark["conversion"] = "markConversion"
    BY DEF Kinds, Pay, Mark
  <2>2. BookOK("conversion", ConversionBook, payouts, request) BY DEF PaidInv
  <2>3. /\ payouts'[n].kind = "conversion" /\ payouts'[n].ref = q.ref /\ payouts'[n].amount = q.amount
        /\ request'[h].pc = "markConversion" /\ request'[h].ref = q.ref /\ request'[h].payment = n
    BY <1>3, <1>4
  <2>4. ConversionBook' = ConversionBook BY <1>1, SameBooks
  <2>5. BookOK("conversion", ConversionBook, payouts', request')
    <3>1. /\ request[h].pc = Pay["conversion"] /\ request'[h].pc = Mark["conversion"]
          /\ request'[h].ref = request[h].ref /\ request'[h].payment = n
          /\ payouts'[n].ref = request[h].ref /\ payouts'[n].amount = request[h].amount
          /\ payouts'[n].kind = "conversion"
      BY <1>1, <2>1, <2>3
    <3>2. /\ Others(h, request, request') /\ n \notin DOMAIN payouts
          /\ DOMAIN payouts' = DOMAIN payouts \cup {n}
          /\ \A i \in DOMAIN payouts : payouts'[i] = payouts[i]
      BY <1>3, <1>4
    <3>3. "conversion" \in Kinds BY DEF Kinds
    <3> HIDE DEF n
    <3> QED BY <2>2, <3>1, <3>2, <3>3, PayStep
  <2> QED BY <2>4, <2>5
<1>6. BookOK("advance", AdvanceBook', payouts', request')
  <2>1. "advance" \in Kinds /\ ~Working("advance", m) BY DEF Kinds, Working, Pay, Mark
  <2>2. BookOK("advance", AdvanceBook, payouts, request) BY DEF PaidInv
  <2>3. \A k \in Handlers : request'[k] = request[k] \/ ~Working("advance", request'[k])
    BY <1>3, <2>1 DEF Others
  <2>4. SamePaid("advance", payouts, payouts') BY <1>4 DEF SamePaid
  <2> QED BY <1>1, <2>1, <2>2, <2>3, <2>4, SameBooks, QuietStep
<1>7. ConversionShape' /\ AdvanceShape' BY <1>1, Rows, ShapesStay
<1> QED BY <1>2, <1>4, <1>5, <1>6, <1>7, InvFromParts

LEMMA PaySalaryStep ==
  ASSUME PaidInv, NEW h \in Handlers, PaySalary(h) PROVE PaidInv'
<1> DEFINE q == request[h]
           x == [kind |-> "salary", ref |-> q.who, amount |-> q.amount]
           m == [pc |-> "settle", who |-> q.who, deduction |-> q.deduction]
<1>1. /\ UNCHANGED <<advances, conversions>> /\ payouts' = Append(payouts, x) /\ Become(h, m)
  BY DEF PaySalary, Payout
<1>2. RequestShape' BY <1>1, Rows, RequestShapeKept
<1>3. \A k \in Handlers : request'[k] = request[k] \/ request'[k].pc \notin Paying
  BY <1>1, Rows, BecomeOthers DEF Others, Paying
<1>4. PICK S : payouts \in Seq(S) BY DEF PaidInv, Shapes
<1>5. payouts \in Seq(S \cup {x}) BY <1>4, SeqMonotonic
<1>6. /\ (\E T : payouts \in Seq(T))'
      /\ \A kind \in Kinds : SamePaid(kind, payouts, payouts')
  <2>1. x.kind \notin Kinds BY DEF Kinds
  <2> HIDE DEF x
  <2>2. payouts' \in Seq(S \cup {x}) BY <1>1, <1>5, AppendRow
  <2>3. /\ DOMAIN payouts' = DOMAIN payouts \cup {Len(payouts) + 1}
        /\ \A i \in DOMAIN payouts : payouts'[i] = payouts[i]
        /\ payouts'[Len(payouts) + 1] = x
    BY <1>1, <1>5, AppendRow
  <2> QED BY <2>1, <2>2, <2>3 DEF SamePaid
<1>7. AdvanceShape' /\ ConversionShape' BY <1>1, Rows, ShapesStay
<1> QED BY <1>1, <1>2, <1>3, <1>6, <1>7, SameBooks, QuietBooks, InvFromParts

-----------------------------------------------------------------------------
LEMMA PaidInit == Init => PaidInv
<1> SUFFICES ASSUME Init PROVE PaidInv OBVIOUS
<1>1. /\ DOMAIN advances = {} /\ DOMAIN conversions = {} /\ DOMAIN payouts = {}
      /\ request = [h \in Handlers |-> Idle]
  BY DEF Init
<1>2. \A kind \in Kinds, h \in Handlers : ~Working(kind, request[h])
  BY <1>1, WorkingPays DEF Idle, Paying
<1>3. "advance" \in Kinds /\ "conversion" \in Kinds BY DEF Kinds
<1>4. BookOK("advance", AdvanceBook, payouts, request)
  BY <1>1, <1>2, <1>3, Rows DEF BookOK
<1>5. BookOK("conversion", ConversionBook, payouts, request)
  BY <1>1, <1>2, <1>3, Rows DEF BookOK
<1>6. AdvanceShape /\ ConversionShape /\ \E S : payouts \in Seq(S)
  BY DEF Init, AdvanceShape, ConversionShape
<1>7. RequestShape BY <1>1 DEF RequestShape, Idle
<1> QED BY <1>4, <1>5, <1>6, <1>7 DEF PaidInv, Shapes

LEMMA PaidNext == PaidInv /\ [Next]_vars => PaidInv'
<1> SUFFICES ASSUME PaidInv, [Next]_vars PROVE PaidInv' OBVIOUS
<1>1. ASSUME UNCHANGED <<advances, conversions, payouts, request>> PROVE PaidInv'
  <2>1. RequestShape' BY <1>1, Rows DEF RequestShape
  <2> QED BY <1>1, <2>1, StillStep
<1>2. ASSUME NEW e \in Employees, OnboardEmployee(e) PROVE PaidInv'
  BY <1>1, <1>2 DEF OnboardEmployee
<1>3. CASE SetAdvancePolicy \/ SetConversionPolicy
  BY <1>1, <1>3 DEF SetAdvancePolicy, SetConversionPolicy, rows
<1>4. ASSUME NEW h \in Handlers, NEW e \in Employees,
             SetPackage(h, e) \/ RequestAdvance(h, e) \/ RequestConversion(h, e) \/ ComputeSalary(h, e)
      PROVE  PaidInv'
  BY <1>4, ReadersStep
<1>5. ASSUME NEW h \in Handlers,
             \/ SupersedeAndCreate(h)
             \/ CreateAdvance(h) \/ PayAdvance(h) \/ MarkAdvanceDisbursed(h)
             \/ CreateConversion(h) \/ PayConversion(h) \/ MarkConversionDisbursed(h)
             \/ PaySalary(h) \/ ReadNetted(h) \/ ApplyDeduction(h)
             \/ PayoutFails(h) \/ Abort(h)
      PROVE  PaidInv'
  BY <1>5, OthersStep, CreateAdvanceStep, PayAdvanceStep, MarkAdvanceStep, CreateConversionStep,
     PayConversionStep, MarkConversionStep, PaySalaryStep, ApplyDeductionStep
<1>6. ASSUME NEW h \in Handlers, NEW a \in DOMAIN advances, ApproveAdvance(h, a) PROVE PaidInv'
  BY <1>6, ApproveAdvanceStep
<1>7. ASSUME NEW h \in Handlers, NEW c \in DOMAIN conversions, ApproveConversion(h, c)
      PROVE  PaidInv'
  BY <1>7, ApproveConversionStep
<1>8. ASSUME NEW a \in DOMAIN advances, RejectAdvance(a) PROVE PaidInv'
  BY <1>8, RejectAdvanceStep
<1>9. ASSUME NEW c \in DOMAIN conversions, RejectConversion(c) PROVE PaidInv'
  BY <1>9, RejectConversionStep
<1>10. CASE UNCHANGED vars BY <1>1, <1>10 DEF vars, rows
<1> QED BY <1>2, <1>3, <1>4, <1>5, <1>6, <1>7, <1>8, <1>9, <1>10 DEF Next

LEMMA InvPaysOnce == PaidInv => PaidAtMostOnce
<1> SUFFICES ASSUME PaidInv PROVE PaidAtMostOnce OBVIOUS
<1>1. \A kind, ref : PayoutsFor(kind, ref) = For(kind, ref, payouts) BY DEF PayoutsFor, For
<1>2. \A a \in DOMAIN advances :
        /\ \A i, j \in PayoutsFor("advance", a) : i = j
        /\ advances[a].status \in {"DISBURSED", "REPAID"} =>
             /\ advances[a].payment \in PayoutsFor("advance", a)
             /\ payouts[advances[a].payment].amount = advances[a].amount
  <2> TAKE a \in DOMAIN advances
  <2>1. /\ AdvanceBook[a].status = advances[a].status
        /\ AdvanceBook[a].payment = advances[a].payment
        /\ AdvanceBook[a].amount = advances[a].amount
    BY DEF AdvanceBook
  <2>3. RowOK("advance", AdvanceBook[a], For("advance", a, payouts), payouts)
    BY DEF PaidInv, BookOK, AdvanceBook
  <2>2. PayoutsFor("advance", a) = For("advance", a, payouts) BY <1>1
  <2> QED BY <2>1, <2>2, <2>3 DEF RowOK
<1>3. \A c \in DOMAIN conversions :
        /\ \A i, j \in PayoutsFor("conversion", c) : i = j
        /\ conversions[c].status = "DISBURSED" =>
             /\ conversions[c].payment \in PayoutsFor("conversion", c)
             /\ payouts[conversions[c].payment].amount = conversions[c].net
  <2> TAKE c \in DOMAIN conversions
  <2>1. /\ ConversionBook[c].status = conversions[c].status
        /\ ConversionBook[c].payment = conversions[c].payment
        /\ ConversionBook[c].amount = conversions[c].net
    BY DEF ConversionBook
  <2>3. RowOK("conversion", ConversionBook[c], For("conversion", c, payouts), payouts)
    BY DEF PaidInv, BookOK, ConversionBook
  <2>2. PayoutsFor("conversion", c) = For("conversion", c, payouts) BY <1>1
  <2> QED BY <2>1, <2>2, <2>3 DEF RowOK
<1> QED BY <1>2, <1>3 DEF PaidAtMostOnce

\* For any number of employees, advances, conversions and concurrent administrators,
\* under any policies: neither an advance nor a conversion is paid twice, and one that
\* says it is disbursed names a payout of its amount.
THEOREM PaysOnce == Spec => []PaidAtMostOnce
<1>1. Spec => []PaidInv BY PaidInit, PaidNext, PTL DEF Spec
<1> QED BY <1>1, InvPaysOnce, PTL

-----------------------------------------------------------------------------
(* Arithmetic of the model's helpers. *)

LEMMA PercentOfNat ==
  ASSUME NEW x \in Nat, NEW p \in 0 .. 100
  PROVE  Percent(x, p) \in Nat /\ Percent(x, p) <= x
<1>1. x * p \in Nat /\ x * p <= x * 100
  <2>1. p \in Nat /\ 100 - p \in Nat OBVIOUS
  <2>2. x * p \in Nat /\ x * (100 - p) \in Nat BY <2>1
  <2>3. x * (100 - p) = x * 100 - x * p BY <2>1
  <2> QED BY <2>2, <2>3
<1> DEFINE z == x * p
<1>2. z \in Nat /\ z <= x * 100 BY <1>1
<1> HIDE DEF z
<1>3. z \div 100 \in Nat /\ z \div 100 <= x BY <1>2
<1> QED BY <1>3 DEF z, Percent

-----------------------------------------------------------------------------
(* The order of the lists: Newest is a bijection. *)

\* How many members of a set of numbers are above one of them.
Above(S, r) == {q \in S : q > r}
Rank(S) == [r \in S |-> Cardinality(Above(S, r)) + 1]

LEMMA RankInjective ==
  ASSUME NEW S \in SUBSET Int, IsFiniteSet(S)
  PROVE  /\ Rank(S) \in [S -> 1 .. Cardinality(S)]
         /\ \A r, q \in S : Rank(S)[r] = Rank(S)[q] => r = q
<1>0. Cardinality(S) \in Nat BY FS_CardinalityType
<1>1. \A r \in S : IsFiniteSet(Above(S, r)) /\ Cardinality(Above(S, r)) \in Nat
  BY FS_Subset, FS_CardinalityType DEF Above
<1>2. ASSUME NEW r \in S PROVE Cardinality(Above(S, r)) < Cardinality(S)
  <2>1. Above(S, r) \in SUBSET (S \ {r}) BY DEF Above
  <2>2. IsFiniteSet(S \ {r}) /\ Cardinality(S \ {r}) = Cardinality(S) - 1 BY FS_RemoveElement
  <2>3. Cardinality(Above(S, r)) <= Cardinality(S \ {r}) BY <2>1, <2>2, FS_Subset
  <2> QED BY <1>0, <1>1, <2>2, <2>3
<1>3. ASSUME NEW r \in S, NEW q \in S, r < q
      PROVE  Cardinality(Above(S, q)) < Cardinality(Above(S, r))
  <2>0. r \in Int /\ q \in Int /\ \A x \in S : x \in Int OBVIOUS
  <2>1. Above(S, q) \in SUBSET (Above(S, r) \ {q}) /\ q \in Above(S, r)
    <3>1. \A x \in S : x > q => x > r /\ x # q BY <1>3, <2>0
    <3> QED BY <1>3, <2>0, <3>1 DEF Above
  <2>2. /\ IsFiniteSet(Above(S, r) \ {q})
        /\ Cardinality(Above(S, r) \ {q}) = Cardinality(Above(S, r)) - 1
    BY <1>1, <2>1, FS_RemoveElement
  <2>3. Cardinality(Above(S, q)) <= Cardinality(Above(S, r) \ {q}) BY <2>1, <2>2, FS_Subset
  <2> QED BY <1>1, <2>2, <2>3
<1>4. Rank(S) \in [S -> 1 .. Cardinality(S)]
  <2>1. \A r \in S : Cardinality(Above(S, r)) + 1 \in 1 .. Cardinality(S) BY <1>0, <1>1, <1>2
  <2> QED BY <2>1 DEF Rank
<1>5. ASSUME NEW r \in S, NEW q \in S, Rank(S)[r] = Rank(S)[q] PROVE r = q
  <2>1. Cardinality(Above(S, r)) = Cardinality(Above(S, q)) BY <1>1, <1>5 DEF Rank
  <2>2. r \in Int /\ q \in Int OBVIOUS
  <2>3. ~ (r < q) /\ ~ (q < r) BY <1>1, <1>3, <2>1
  <2> QED BY <2>2, <2>3
<1> QED BY <1>4, <1>5

LEMMA NewestLists ==
  ASSUME NEW S \in SUBSET Int, IsFiniteSet(S)
  PROVE  /\ DOMAIN Newest(S) = 1 .. Cardinality(S) /\ IsFiniteSet(DOMAIN Newest(S))
         /\ \A i \in DOMAIN Newest(S) : Newest(S)[i] \in S
         /\ \A i, j \in DOMAIN Newest(S) : Newest(S)[i] = Newest(S)[j] => i = j
         /\ \A r \in S : \E i \in DOMAIN Newest(S) : Newest(S)[i] = r
<1> DEFINE n == Cardinality(S)
<1>1. n \in Nat BY FS_CardinalityType
<1>2. IsFiniteSet(1 .. n) /\ Cardinality(1 .. n) = n BY <1>1, FS_Interval
<1>3. Rank(S) \in Injection(S, 1 .. n) BY RankInjective DEF Injection, IsInjective
<1>4. Rank(S) \in Surjection(S, 1 .. n) BY <1>2, <1>3, FS_Injection
<1>5. \A i \in 1 .. n : \E r \in S : Rank(S)[r] = i BY <1>4 DEF Surjection
<1>6. \A r \in S : Cardinality(Above(S, r)) \in Nat
  BY FS_Subset, FS_CardinalityType DEF Above
<1>7. /\ DOMAIN Newest(S) = 1 .. n
      /\ \A i \in 1 .. n :
           Newest(S)[i] = CHOOSE r \in S : Cardinality(Above(S, r)) = i - 1
  BY DEF Newest, Above
<1>8. \A i \in 1 .. n, r \in S : Rank(S)[r] = i <=> Cardinality(Above(S, r)) = i - 1
  BY <1>6 DEF Rank
<1>9. \A i \in 1 .. n : Newest(S)[i] \in S /\ Rank(S)[Newest(S)[i]] = i
  <2> TAKE i \in 1 .. n
  <2>1. \E r \in S : Cardinality(Above(S, r)) = i - 1 BY <1>5, <1>8
  <2>2. /\ Newest(S)[i] \in S /\ Cardinality(Above(S, Newest(S)[i])) = i - 1 BY <1>7, <2>1
  <2> QED BY <1>8, <2>2
<1>10. \A r \in S : Rank(S)[r] \in 1 .. n BY RankInjective
<1>11. \A r \in S : Newest(S)[Rank(S)[r]] = r
  <2>1. \A r, q \in S : Rank(S)[r] = Rank(S)[q] => r = q BY RankInjective
  <2> QED BY <1>9, <1>10, <2>1
<1> HIDE DEF n
<1> QED BY <1>2, <1>7, <1>9, <1>10, <1>11 DEF n

-----------------------------------------------------------------------------
(* The inductive invariant behind the money properties. *)

\* What a row or a handler counts for an item or an employee.
Share(book, e, k) ==
  [c \in DOMAIN book |->
     IF book[c].who = e /\ book[c].item = k /\ book[c].status # "REJECTED"
     THEN book[c].notional ELSE 0]
Flight(req, e, k) ==
  [h \in Handlers |->
     IF req[h].pc = "conversion" /\ req[h].who = e /\ req[h].item = k
     THEN req[h].amount ELSE 0]
Lost(book, e) ==
  [a \in DOMAIN book |->
     IF book[a].who = e /\ book[a].status \in {"DISBURSED", "REPAID"}
     THEN book[a].owed - book[a].outstanding ELSE 0]
Keeping(req, e) ==
  [h \in Handlers |->
     IF req[h].pc \in {"settle", "apply"} /\ req[h].who = e THEN req[h].deduction ELSE 0]

\* What a handler holds between its reads and its writes.
RequestTyped(r, pk, book) ==
  /\ r.pc = "package" =>
       /\ r.who \in Employees /\ r.seen \subseteq DOMAIN pk[r.who] /\ pk[r.who] # << >>
       /\ r.new \in PackageRow /\ r.new.open /\ r.new.converted = 0
  /\ r.pc = "advance" =>
       /\ r.who \in Employees /\ r.amount \in Nat /\ r.owed \in Nat \ {0}
       /\ r.status \in {"REQUESTED", "APPROVED"}
  /\ r.pc = "conversion" =>
       /\ r.who \in Employees /\ r.item \in DOMAIN pk[r.who] /\ r.amount \in Nat
       /\ r.cash \in Nat /\ r.fee \in Nat /\ r.fee <= r.cash
       /\ r.amount <= pk[r.who][r.item].notional
  /\ r.pc \in {"payAdvance", "payConversion"} => r.ref \in Nat /\ r.amount \in Nat
  /\ r.pc \in {"markAdvance", "markConversion"} => r.payment \in Nat
  /\ r.pc = "paySalary" => r.who \in Employees /\ r.amount \in Nat /\ r.deduction \in Nat
  /\ r.pc \in {"settle", "apply"} => r.who \in Employees /\ r.deduction \in Nat
  /\ r.pc = "apply" =>
       \A a \in DOMAIN r.snapshot :
         a \in DOMAIN book /\ book[a].who = r.who /\ r.snapshot[a] \in Nat

Requests ==
  /\ request = [h \in Handlers |-> request[h]]
  /\ \A h \in Handlers : RequestTyped(request[h], packages, advances)
Policies == advancePolicy \in AdvancePolicyInput /\ conversionPolicy \in ConversionPolicyInput
Typed == TypeOK /\ Policies /\ Requests

\* The packages that the calls of Q leave open are no more than the other calls.
Shown(p) == {k \in DOMAIN p : p[k].open}
PackageCalls(req, e) == {h \in Handlers : req[h].pc = "package" /\ req[h].who = e}
Unseen(p, req, Q) == Shown(p) \ UNION {req[h].seen : h \in Q}
PackagesOK(p, req, e) ==
  /\ p # << >> => p[Len(p)].open
  /\ \A Q \in SUBSET PackageCalls(req, e) :
       Cardinality(Unseen(p, req, Q)) <= Cardinality(Handlers) - Cardinality(Q)
Shows == \A e \in Employees : PackagesOK(packages[e], request, e)

\* A balance is what the rows of the conversions say.
Booked ==
  /\ \A c \in DOMAIN conversions : conversions[c].item \in DOMAIN packages[conversions[c].who]
  /\ \A e \in Employees : \A k \in DOMAIN packages[e] :
       packages[e][k].converted = SumFunction(Share(conversions, e, k))

Bounded ==
  \A e \in Employees : \A k \in DOMAIN packages[e] :
    packages[e][k].converted + SumFunction(Flight(request, e, k))
      <= Cardinality(Handlers) * packages[e][k].notional

\* Outstanding is what is owed until a salary is settled, and then says whether it is
\* repaid; what the handlers have yet to apply was kept back by a salary.
AdvanceOK(row) ==
  /\ row.status \in {"REQUESTED", "APPROVED"} => row.outstanding = row.owed /\ row.owed > 0
  /\ row.status = "DISBURSED" => row.outstanding > 0
  /\ row.status \in {"REPAID", "REJECTED"} => row.outstanding = 0
Lent ==
  /\ \A a \in DOMAIN advances : AdvanceOK(advances[a])
  /\ \A e \in Employees :
       /\ SumFunction(Lost(advances, e)) = repaid[e]
       /\ repaid[e] + SumFunction(Keeping(request, e)) <= withheld[e]

MoneyInv == Typed /\ Shows /\ Booked /\ Bounded /\ Lent

-----------------------------------------------------------------------------
(* The tables, and the handlers while the tables grow. *)

LEMMA Tables ==
  ASSUME TypeOK
  PROVE  /\ \A e \in Employees :
              /\ packages[e] \in Seq(PackageRow)
              /\ DOMAIN packages[e] = 1 .. Len(packages[e]) /\ Len(packages[e]) \in Nat
              /\ IsFiniteSet(DOMAIN packages[e])
              /\ \A k \in DOMAIN packages[e] : packages[e][k] \in PackageRow
         /\ DOMAIN advances = 1 .. Len(advances) /\ Len(advances) \in Nat
         /\ IsFiniteSet(DOMAIN advances)
         /\ \A a \in DOMAIN advances : advances[a] \in AdvanceRow
         /\ DOMAIN conversions = 1 .. Len(conversions) /\ Len(conversions) \in Nat
         /\ IsFiniteSet(DOMAIN conversions)
         /\ \A c \in DOMAIN conversions : conversions[c] \in ConversionRow
<1>1. \A X : \A t \in Seq(X) :
        DOMAIN t = 1 .. Len(t) /\ Len(t) \in Nat /\ \A i \in DOMAIN t : t[i] \in X
  OBVIOUS
<1>2. \A n \in Nat : IsFiniteSet(1 .. n) BY FS_Interval
<1>3. /\ packages \in [Employees -> Seq(PackageRow)] /\ advances \in Seq(AdvanceRow)
      /\ conversions \in Seq(ConversionRow)
  BY DEF TypeOK
<1>4. \A e \in Employees : packages[e] \in Seq(PackageRow) BY <1>3
<1> QED BY <1>1, <1>2, <1>3, <1>4

\* Packages stay with their values, advances with their employee.
Grown(pk, pk2, book, book2) ==
  /\ \A e \in Employees :
       /\ DOMAIN pk[e] \subseteq DOMAIN pk2[e] /\ (pk[e] # << >> => pk2[e] # << >>)
       /\ \A k \in DOMAIN pk[e] : pk2[e][k].notional = pk[e][k].notional
  /\ DOMAIN book \subseteq DOMAIN book2
  /\ \A a \in DOMAIN book : book2[a].who = book[a].who

LEMMA StaysTyped ==
  ASSUME NEW pk, NEW pk2, NEW book, NEW book2, Grown(pk, pk2, book, book2),
         NEW r, RequestTyped(r, pk, book)
  PROVE  RequestTyped(r, pk2, book2)
BY DEF Grown, RequestTyped

LEMMA RequestsStay ==
  ASSUME Requests, Grown(packages, packages', advances, advances'), UNCHANGED request
  PROVE  Requests'
BY StaysTyped DEF Requests

LEMMA RequestsMove ==
  ASSUME Requests, Grown(packages, packages', advances, advances'),
         NEW h \in Handlers, NEW r, Become(h, r), RequestTyped(r, packages', advances')
  PROVE  Requests' /\ request'[h] = r /\ Others(h, request, request')
<1>1. /\ request' = [k \in Handlers |-> request'[k]] /\ request'[h] = r
      /\ \A k \in Handlers \ {h} : request'[k] = request[k]
  BY DEF Become, Requests
<1>2. \A k \in Handlers : RequestTyped(request[k], packages', advances')
  BY StaysTyped DEF Requests
<1> QED BY <1>1, <1>2 DEF Requests, Others

LEMMA IdleTyped ==
  ASSUME NEW pk, NEW book PROVE RequestTyped(Idle, pk, book)
BY DEF Idle, RequestTyped

LEMMA NotGrown ==
  /\ UNCHANGED <<packages, advances>> => Grown(packages, packages', advances, advances')
BY DEF Grown

-----------------------------------------------------------------------------
(* Typed: the actions that only read. *)

LEMMA OwedNat ==
  ASSUME TypeOK, NEW S \in SUBSET DOMAIN advances
  PROVE  Owed(S) \in Nat
<1> DEFINE f == [a \in S |-> advances[a].outstanding]
<1>1. IsFiniteSet(S) BY Tables, FS_Subset
<1>2. \A a \in S : f[a] \in Nat BY Tables DEF AdvanceRow
<1>3. DOMAIN f = S OBVIOUS
<1>4. Owed(S) = SumFunctionOnSet(f, S) BY <1>3, SumWhole DEF Owed
<1> HIDE DEF f
<1> QED BY <1>1, <1>2, <1>4, SumNat

LEMMA BasesNat ==
  ASSUME TypeOK, NEW e \in Employees PROVE BasesOf(e) \subseteq Nat
BY Tables DEF BasesOf, OpenPackages, PackageRow

\* A step of one handler that leaves the tables alone.
LEMMA ReadTyped ==
  ASSUME Typed, UNCHANGED <<packages, advances, conversions, payouts>>,
         UNCHANGED <<advancePolicy, conversionPolicy, repaid>>,
         withheld' \in [Employees -> Nat],
         NEW h \in Handlers, NEW r, Become(h, r), RequestTyped(r, packages, advances)
  PROVE  Typed' /\ request'[h] = r /\ Others(h, request, request')
<1>1. Requests' /\ request'[h] = r /\ Others(h, request, request')
  BY NotGrown, RequestsMove DEF Typed
<1>2. TypeOK' BY DEF Typed, TypeOK
<1>3. Policies' BY DEF Typed, Policies
<1> QED BY <1>1, <1>2, <1>3 DEF Typed

LEMMA SetPackageTyped ==
  ASSUME Typed, NEW h \in Handlers, NEW e \in Employees, SetPackage(h, e)
  PROVE  /\ Typed' /\ Others(h, request, request') /\ request'[h].pc = "package"
         /\ request'[h].who = e /\ request'[h].seen = OpenPackages(e)
<1>1. PICK base \in Bases, notional \in Notionals :
        Become(h, [pc |-> "package", who |-> e, seen |-> OpenPackages(e),
                   new |-> NewPackage(base, notional)])
  BY DEF SetPackage
<1> DEFINE r == [pc |-> "package", who |-> e, seen |-> OpenPackages(e),
                 new |-> NewPackage(base, notional)]
<1>2. base \in Nat /\ notional \in Nat BY PayrollAssumption
<1>3. RequestTyped(r, packages, advances)
  BY <1>2 DEF SetPackage, RequestTyped, OpenPackages, NewPackage, PackageRow
<1>4. UNCHANGED <<packages, advances, conversions, payouts>>
  BY DEF SetPackage, rows
<1>5. UNCHANGED <<advancePolicy, conversionPolicy, repaid, withheld>> BY DEF SetPackage
<1>6. withheld' \in [Employees -> Nat] BY <1>5 DEF Typed, TypeOK
<1>7. Become(h, r) /\ r.pc = "package" /\ r.who = e /\ r.seen = OpenPackages(e) BY <1>1
<1> HIDE DEF r
<1> QED BY <1>3, <1>4, <1>5, <1>6, <1>7, ReadTyped

LEMMA RequestAdvanceTyped ==
  ASSUME Typed, NEW h \in Handlers, NEW e \in Employees, RequestAdvance(h, e)
  PROVE  Typed' /\ Others(h, request, request') /\ request'[h].pc = "advance"
<1>1. PICK amount \in AdvanceAmounts :
        Become(h, [pc |-> "advance", who |-> e, amount |-> amount,
                   owed |-> amount + Fee(amount),
                   status |-> IF amount <= advancePolicy.auto THEN "APPROVED" ELSE "REQUESTED"])
  BY DEF RequestAdvance
<1> DEFINE r == [pc |-> "advance", who |-> e, amount |-> amount,
                 owed |-> amount + Fee(amount),
                 status |-> IF amount <= advancePolicy.auto THEN "APPROVED" ELSE "REQUESTED"]
<1>2. amount \in Nat \ {0} BY PayrollAssumption DEF AdvanceRequestInput
<1>3. Fee(amount) \in Nat BY <1>2, PercentOfNat DEF Fee, Typed, Policies, AdvancePolicyInput
<1>4. RequestTyped(r, packages, advances) BY <1>2, <1>3 DEF RequestTyped
<1>5. UNCHANGED <<packages, advances, conversions, payouts>> BY DEF RequestAdvance, rows
<1>6. UNCHANGED <<advancePolicy, conversionPolicy, repaid, withheld>> BY DEF RequestAdvance
<1>7. withheld' \in [Employees -> Nat] BY <1>6 DEF Typed, TypeOK
<1>8. Become(h, r) /\ r.pc = "advance" BY <1>1
<1> HIDE DEF r
<1> QED BY <1>4, <1>5, <1>6, <1>7, <1>8, ReadTyped

LEMMA RequestConversionTyped ==
  ASSUME Typed, NEW h \in Handlers, NEW e \in Employees, RequestConversion(h, e)
  PROVE  /\ Typed' /\ Others(h, request, request') /\ request'[h].pc = "conversion"
         /\ request'[h].who = e /\ request'[h].item \in DOMAIN packages[e]
         /\ request'[h].amount <= Remaining(e, request'[h].item)
<1>1. PICK k \in OpenPackages(e), amount \in ConversionAmounts :
        /\ amount <= Remaining(e, k)
        /\ Become(h, [pc |-> "conversion", who |-> e, item |-> k, amount |-> amount,
                      cash |-> Cash(amount), fee |-> ConversionFee(amount)])
  BY DEF RequestConversion
<1> DEFINE r == [pc |-> "conversion", who |-> e, item |-> k, amount |-> amount,
                 cash |-> Cash(amount), fee |-> ConversionFee(amount)]
<1>2. amount \in Nat BY PayrollAssumption DEF ConversionRequestInput
<1>3. Cash(amount) \in Nat
  BY <1>2, PercentOfNat DEF Cash, Typed, Policies, ConversionPolicyInput
<1>4. ConversionFee(amount) \in Nat /\ ConversionFee(amount) <= Cash(amount)
  BY <1>3, PercentOfNat DEF ConversionFee, Typed, Policies, ConversionPolicyInput
<1>5. k \in DOMAIN packages[e] /\ amount <= packages[e][k].notional
  <2>1. k \in DOMAIN packages[e] BY DEF OpenPackages
  <2>2. packages[e][k].notional \in Nat /\ packages[e][k].converted \in Nat
    BY <2>1, Tables DEF Typed, PackageRow
  <2> QED BY <1>1, <1>2, <2>1, <2>2 DEF Remaining
<1>6. RequestTyped(r, packages, advances) BY <1>2, <1>3, <1>4, <1>5 DEF RequestTyped
<1>7. UNCHANGED <<packages, advances, conversions, payouts>> BY DEF RequestConversion, rows
<1>8. UNCHANGED <<advancePolicy, conversionPolicy, repaid, withheld>> BY DEF RequestConversion
<1>9. withheld' \in [Employees -> Nat] BY <1>8 DEF Typed, TypeOK
<1>10. /\ Become(h, r) /\ r.pc = "conversion" /\ r.who = e /\ r.item = k /\ r.amount = amount
  BY <1>1
<1> HIDE DEF r
<1> QED BY <1>1, <1>5, <1>6, <1>7, <1>8, <1>9, <1>10, ReadTyped

\* A salary keeps back no more than the advances owe, and leaves that to be settled.
LEMMA ComputeSalaryStep ==
  ASSUME Typed, NEW h \in Handlers, NEW e \in Employees, ComputeSalary(h, e)
  PROVE  /\ Typed' /\ Others(h, request, request')
         /\ \/ request'[h].pc = "paySalary" /\ UNCHANGED withheld
            \/ /\ request'[h].pc = "settle" /\ request'[h].who = e
               /\ withheld' = [withheld EXCEPT ![e] = @ + request'[h].deduction]
<1>1. PICK base \in BasesOf(e) \ {0} :
        LET deduction == Min({base, Owed(Netted(e))}) IN
        IF deduction < base
        THEN /\ Become(h, [pc |-> "paySalary", who |-> e, amount |-> base - deduction,
                           deduction |-> deduction])
             /\ UNCHANGED withheld
        ELSE /\ Become(h, [pc |-> "settle", who |-> e, deduction |-> deduction])
             /\ withheld' = [withheld EXCEPT ![e] = @ + deduction]
  BY DEF ComputeSalary
<1> DEFINE d == Min({base, Owed(Netted(e))})
<1>2. base \in Nat BY BasesNat DEF Typed
<1>3. d \in Nat /\ d <= base
  <2>1. Owed(Netted(e)) \in Nat BY OwedNat DEF Netted, Of, Typed
  <2> QED BY <1>2, <2>1, MinOfTwo
<1> HIDE DEF d
<1>4. withheld \in [Employees -> Nat] BY DEF Typed, TypeOK
<1>5. UNCHANGED <<packages, advances, conversions, payouts>> BY DEF ComputeSalary, rows
<1>6. UNCHANGED <<advancePolicy, conversionPolicy, repaid>> BY DEF ComputeSalary
<1>7. CASE d < base
  <2> DEFINE r == [pc |-> "paySalary", who |-> e, amount |-> base - d, deduction |-> d]
  <2>1. RequestTyped(r, packages, advances) BY <1>2, <1>3, <1>7 DEF RequestTyped
  <2>2. Become(h, r) /\ UNCHANGED withheld BY <1>1, <1>7 DEF d
  <2>3. r.pc = "paySalary" OBVIOUS
  <2> HIDE DEF r
  <2> QED BY <1>4, <1>5, <1>6, <2>1, <2>2, <2>3, ReadTyped
<1>8. CASE ~ (d < base)
  <2> DEFINE r == [pc |-> "settle", who |-> e, deduction |-> d]
  <2>1. RequestTyped(r, packages, advances) BY <1>3 DEF RequestTyped
  <2>2. Become(h, r) /\ withheld' = [withheld EXCEPT ![e] = @ + d] BY <1>1, <1>8 DEF d
  <2>3. withheld' \in [Employees -> Nat] BY <1>3, <1>4, <2>2
  <2>4. r.pc = "settle" /\ r.who = e /\ r.deduction = d OBVIOUS
  <2> HIDE DEF r
  <2> QED BY <1>5, <1>6, <2>1, <2>2, <2>3, <2>4, ReadTyped
<1> QED BY <1>7, <1>8

LEMMA ReadNettedTyped ==
  ASSUME Typed, NEW h \in Handlers, ReadNetted(h)
  PROVE  /\ Typed' /\ Others(h, request, request')
         /\ request[h].pc = "settle" /\ request'[h].pc = "apply"
         /\ request'[h].who = request[h].who /\ request'[h].deduction = request[h].deduction
<1> DEFINE q == request[h]
           r == [pc |-> "apply", who |-> q.who, deduction |-> q.deduction,
                 snapshot |-> [a \in Netted(q.who) |-> advances[a].outstanding]]
<1>1. q.pc = "settle" /\ Become(h, r) BY DEF ReadNetted, At
<1>2. q.who \in Employees /\ q.deduction \in Nat
  BY <1>1 DEF Typed, Requests, RequestTyped
<1>3. \A a \in Netted(q.who) :
        a \in DOMAIN advances /\ advances[a].who = q.who /\ advances[a].outstanding \in Nat
  BY Tables DEF Netted, Of, Typed, AdvanceRow
<1>4. RequestTyped(r, packages, advances) BY <1>2, <1>3 DEF RequestTyped
<1>5. UNCHANGED <<packages, advances, conversions, payouts>> BY DEF ReadNetted, rows
<1>6. UNCHANGED <<advancePolicy, conversionPolicy, repaid, withheld>> BY DEF ReadNetted
<1>7. withheld' \in [Employees -> Nat] BY <1>6 DEF Typed, TypeOK
<1>8. r.pc = "apply" /\ r.who = q.who /\ r.deduction = q.deduction OBVIOUS
<1> HIDE DEF r
<1> QED BY <1>1, <1>4, <1>5, <1>6, <1>7, <1>8, ReadTyped

LEMMA StopTyped ==
  ASSUME Typed, NEW h \in Handlers, PayoutFails(h) \/ Abort(h)
  PROVE  Typed' /\ Others(h, request, request') /\ request'[h] = Idle
<1>1. Become(h, Idle) BY DEF PayoutFails, Abort
<1>2. UNCHANGED <<packages, advances, conversions, payouts>> BY DEF PayoutFails, Abort, rows
<1>3. UNCHANGED <<advancePolicy, conversionPolicy, repaid, withheld>> BY DEF PayoutFails, Abort
<1>4. withheld' \in [Employees -> Nat] BY <1>3 DEF Typed, TypeOK
<1> QED BY <1>1, <1>2, <1>3, <1>4, IdleTyped, ReadTyped

-----------------------------------------------------------------------------
(* What a step of one handler does to the sums over the handlers. *)

LEMMA FlightTyped ==
  ASSUME NEW pk, NEW book, NEW req, \A h \in Handlers : RequestTyped(req[h], pk, book),
         NEW e, NEW k
  PROVE  /\ \A h \in Handlers : Flight(req, e, k)[h] \in Nat
         /\ SumFunction(Flight(req, e, k)) = SumFunctionOnSet(Flight(req, e, k), Handlers)
         /\ SumFunction(Flight(req, e, k)) \in Nat
<1>1. \A h \in Handlers : Flight(req, e, k)[h] \in Nat BY DEF Flight, RequestTyped
<1>2. DOMAIN Flight(req, e, k) = Handlers BY DEF Flight
<1> QED BY <1>1, <1>2, SumWhole, SumNat, PayrollAssumption

LEMMA KeepingTyped ==
  ASSUME NEW pk, NEW book, NEW req, \A h \in Handlers : RequestTyped(req[h], pk, book),
         NEW e
  PROVE  /\ \A h \in Handlers : Keeping(req, e)[h] \in Nat
         /\ SumFunction(Keeping(req, e)) = SumFunctionOnSet(Keeping(req, e), Handlers)
         /\ SumFunction(Keeping(req, e)) \in Nat
<1>1. \A h \in Handlers : Keeping(req, e)[h] \in Nat BY DEF Keeping, RequestTyped
<1>2. DOMAIN Keeping(req, e) = Handlers BY DEF Keeping
<1> QED BY <1>1, <1>2, SumWhole, SumNat, PayrollAssumption

LEMMA FlightMoves ==
  ASSUME Typed, Typed', NEW h \in Handlers, Others(h, request, request'), NEW e, NEW k
  PROVE  /\ SumFunction(Flight(request', e, k)) =
              SumFunction(Flight(request, e, k)) - Flight(request, e, k)[h]
                + Flight(request', e, k)[h]
         /\ Flight(request, e, k)[h] \in Nat /\ Flight(request', e, k)[h] \in Nat
         /\ SumFunction(Flight(request, e, k)) \in Nat
<1>1. \A g \in Handlers : RequestTyped(request[g], packages, advances)
  BY DEF Typed, Requests
<1>2. \A g \in Handlers : RequestTyped(request'[g], packages', advances')
  BY DEF Typed, Requests
<1>3. /\ \A g \in Handlers : Flight(request, e, k)[g] \in Nat
      /\ SumFunction(Flight(request, e, k)) = SumFunctionOnSet(Flight(request, e, k), Handlers)
      /\ SumFunction(Flight(request, e, k)) \in Nat
  BY <1>1, FlightTyped
<1>4. /\ \A g \in Handlers : Flight(request', e, k)[g] \in Nat
      /\ SumFunction(Flight(request', e, k)) = SumFunctionOnSet(Flight(request', e, k), Handlers)
  BY <1>2, FlightTyped
<1>5. \A g \in Handlers \ {h} : Flight(request', e, k)[g] = Flight(request, e, k)[g]
  BY DEF Flight, Others
<1>6. \A g \in Handlers : Flight(request, e, k)[g] \in Int /\ Flight(request', e, k)[g] \in Int
  BY <1>3, <1>4
<1>7. SumFunctionOnSet(Flight(request', e, k), Handlers) =
        SumFunctionOnSet(Flight(request, e, k), Handlers) - Flight(request, e, k)[h]
          + Flight(request', e, k)[h]
  BY <1>5, <1>6, SumChange, PayrollAssumption
<1> QED BY <1>3, <1>4, <1>7

LEMMA KeepingMoves ==
  ASSUME Typed, Typed', NEW h \in Handlers, Others(h, request, request'), NEW e
  PROVE  /\ SumFunction(Keeping(request', e)) =
              SumFunction(Keeping(request, e)) - Keeping(request, e)[h] + Keeping(request', e)[h]
         /\ Keeping(request, e)[h] \in Nat /\ Keeping(request', e)[h] \in Nat
         /\ SumFunction(Keeping(request, e)) \in Nat
<1>1. \A g \in Handlers : RequestTyped(request[g], packages, advances)
  BY DEF Typed, Requests
<1>2. \A g \in Handlers : RequestTyped(request'[g], packages', advances')
  BY DEF Typed, Requests
<1>3. /\ \A g \in Handlers : Keeping(request, e)[g] \in Nat
      /\ SumFunction(Keeping(request, e)) = SumFunctionOnSet(Keeping(request, e), Handlers)
      /\ SumFunction(Keeping(request, e)) \in Nat
  BY <1>1, KeepingTyped
<1>4. /\ \A g \in Handlers : Keeping(request', e)[g] \in Nat
      /\ SumFunction(Keeping(request', e)) = SumFunctionOnSet(Keeping(request', e), Handlers)
  BY <1>2, KeepingTyped
<1>5. \A g \in Handlers \ {h} : Keeping(request', e)[g] = Keeping(request, e)[g]
  BY DEF Keeping, Others
<1>6. \A g \in Handlers : Keeping(request, e)[g] \in Int /\ Keeping(request', e)[g] \in Int
  BY <1>3, <1>4
<1>7. SumFunctionOnSet(Keeping(request', e), Handlers) =
        SumFunctionOnSet(Keeping(request, e), Handlers) - Keeping(request, e)[h]
          + Keeping(request', e)[h]
  BY <1>5, <1>6, SumChange, PayrollAssumption
<1> QED BY <1>3, <1>4, <1>7

-----------------------------------------------------------------------------
(* The parts of the invariant that a step leaves alone. *)

\* The same packages are shown, and no call begins to supersede.
LEMMA ShowsStay ==
  ASSUME Shows, NEW h \in Handlers, Others(h, request, request'), request'[h].pc # "package",
         \A e \in Employees :
           /\ Shown(packages'[e]) = Shown(packages[e])
           /\ packages'[e] # << >> =>
                /\ packages[e] # << >> /\ Len(packages'[e]) = Len(packages[e])
                /\ packages'[e][Len(packages[e])].open = packages[e][Len(packages[e])].open
  PROVE  Shows'
<1> SUFFICES ASSUME NEW e \in Employees PROVE PackagesOK(packages'[e], request', e)
  BY DEF Shows
<1>1. PackagesOK(packages[e], request, e) BY DEF Shows
<1>2. packages'[e] # << >> => packages'[e][Len(packages'[e])].open BY <1>1 DEF PackagesOK
<1>3. ASSUME NEW Q \in SUBSET PackageCalls(request', e)
      PROVE  Cardinality(Unseen(packages'[e], request', Q)) <= Cardinality(Handlers) - Cardinality(Q)
  <2>1. \A g \in Q : g \in Handlers \ {h} /\ request'[g] = request[g]
    BY DEF PackageCalls, Others
  <2>2. Q \in SUBSET PackageCalls(request, e) BY <2>1 DEF PackageCalls
  <2>3. {request'[g].seen : g \in Q} = {request[g].seen : g \in Q} BY <2>1
  <2>4. Unseen(packages'[e], request', Q) = Unseen(packages[e], request, Q)
    BY <2>3 DEF Unseen
  <2> QED BY <1>1, <2>2, <2>4 DEF PackagesOK
<1> QED BY <1>2, <1>3 DEF PackagesOK

\* No package changes, and what this handler would still convert does not grow.
LEMMA BoundedStays ==
  ASSUME Typed, Typed', Bounded, UNCHANGED packages, NEW h \in Handlers,
         Others(h, request, request'), request'[h].pc # "conversion"
  PROVE  Bounded'
<1> SUFFICES ASSUME NEW e \in Employees, NEW k \in DOMAIN packages[e]
             PROVE  packages[e][k].converted + SumFunction(Flight(request', e, k))
                      <= Cardinality(Handlers) * packages[e][k].notional
  BY DEF Bounded
<1>1. Flight(request', e, k)[h] = 0 BY DEF Flight
<1>2. SumFunction(Flight(request', e, k)) =
        SumFunction(Flight(request, e, k)) - Flight(request, e, k)[h]
      /\ Flight(request, e, k)[h] \in Nat /\ SumFunction(Flight(request, e, k)) \in Nat
  BY <1>1, FlightMoves
<1>3. packages[e][k].converted \in Nat /\ packages[e][k].notional \in Nat
  BY Tables DEF Typed, PackageRow
<1>4. Cardinality(Handlers) \in Nat BY PayrollAssumption, FS_CardinalityType
<1>5. packages[e][k].converted + SumFunction(Flight(request, e, k))
        <= Cardinality(Handlers) * packages[e][k].notional
  BY DEF Bounded
<1> DEFINE n == Cardinality(Handlers) * packages[e][k].notional
<1>6. n \in Nat BY <1>3, <1>4
<1> HIDE DEF n
<1> QED BY <1>2, <1>3, <1>5, <1>6 DEF n

LEMMA BookedStays ==
  ASSUME Booked, UNCHANGED <<packages, conversions>> PROVE Booked'
BY DEF Booked

\* No advance changes, and this handler has not more to apply than before, or what a
\* salary has just kept back.
LEMMA LentStays ==
  ASSUME Typed, Typed', Lent, UNCHANGED <<advances, repaid>>, NEW h \in Handlers,
         Others(h, request, request'),
         \A e \in Employees :
           Keeping(request', e)[h] - Keeping(request, e)[h] <= withheld'[e] - withheld[e]
  PROVE  Lent'
<1> SUFFICES ASSUME NEW e \in Employees
             PROVE  repaid[e] + SumFunction(Keeping(request', e)) <= withheld'[e]
  BY DEF Lent
<1>1. /\ SumFunction(Keeping(request', e)) =
           SumFunction(Keeping(request, e)) - Keeping(request, e)[h] + Keeping(request', e)[h]
      /\ Keeping(request, e)[h] \in Nat /\ Keeping(request', e)[h] \in Nat
      /\ SumFunction(Keeping(request, e)) \in Nat
  BY KeepingMoves
<1>2. repaid[e] \in Nat /\ withheld[e] \in Nat /\ withheld'[e] \in Nat
  BY DEF Typed, TypeOK
<1>3. repaid[e] + SumFunction(Keeping(request, e)) <= withheld[e] BY DEF Lent
<1> QED BY <1>1, <1>2, <1>3

-----------------------------------------------------------------------------
(* The actions that only read keep the invariant. *)

LEMMA SamePackages ==
  ASSUME UNCHANGED packages
  PROVE  \A e \in Employees :
           /\ Shown(packages'[e]) = Shown(packages[e])
           /\ packages'[e] # << >> =>
                /\ packages[e] # << >> /\ Len(packages'[e]) = Len(packages[e])
                /\ packages'[e][Len(packages[e])].open = packages[e][Len(packages[e])].open
OBVIOUS

\* The step of a handler that is neither about to supersede nor to convert.
LEMMA QuietRead ==
  ASSUME MoneyInv, Typed', UNCHANGED <<packages, advances, conversions, repaid>>,
         NEW h \in Handlers, Others(h, request, request'),
         request'[h].pc \notin {"package", "conversion"},
         \A e \in Employees :
           Keeping(request', e)[h] - Keeping(request, e)[h] <= withheld'[e] - withheld[e]
  PROVE  MoneyInv'
<1>1. Shows' BY SamePackages, ShowsStay DEF MoneyInv
<1>2. Bounded' BY BoundedStays DEF MoneyInv
<1>3. Booked' BY BookedStays DEF MoneyInv
<1>4. Lent' BY LentStays DEF MoneyInv
<1> QED BY <1>1, <1>2, <1>3, <1>4 DEF MoneyInv

\* What a handler keeps while it has nothing to apply.
LEMMA KeepsNothing ==
  ASSUME NEW req, NEW h \in Handlers, req[h].pc \notin {"settle", "apply"}
  PROVE  \A e : Keeping(req, e)[h] = 0
BY DEF Keeping

LEMMA KeepsNat ==
  ASSUME Typed, NEW h \in Handlers PROVE \A e : Keeping(request, e)[h] \in Nat
BY DEF Typed, Requests, RequestTyped, Keeping

LEMMA WithheldNat ==
  ASSUME Typed PROVE \A e \in Employees : withheld[e] \in Nat
BY DEF Typed, TypeOK

LEMMA SetPackageKeeps ==
  ASSUME MoneyInv, NEW h \in Handlers, NEW e \in Employees, SetPackage(h, e)
  PROVE  MoneyInv'
<1>1. /\ Typed' /\ Others(h, request, request') /\ request'[h].pc = "package"
      /\ request'[h].who = e /\ request'[h].seen = OpenPackages(e)
  BY SetPackageTyped DEF MoneyInv
<1>2. UNCHANGED <<packages, advances, conversions, repaid, withheld>>
  BY DEF SetPackage, rows
<1>3. Shows'
  <2> SUFFICES ASSUME NEW f \in Employees PROVE PackagesOK(packages[f], request', f)
    BY <1>2 DEF Shows
  <2>1. PackagesOK(packages[f], request, f) BY DEF MoneyInv, Shows
  <2>2. ASSUME NEW Q \in SUBSET PackageCalls(request', f)
        PROVE  Cardinality(Unseen(packages[f], request', Q)) <= Cardinality(Handlers) - Cardinality(Q)
    <3>1. CASE h \in Q
      <4>1. f = e BY <1>1, <3>1 DEF PackageCalls
      <4>2. Shown(packages[f]) \subseteq request'[h].seen BY <1>1, <4>1 DEF Shown, OpenPackages
      <4>3. Unseen(packages[f], request', Q) = {} BY <3>1, <4>2 DEF Unseen
      <4>4. Q \in SUBSET Handlers BY DEF PackageCalls
      <4>5. /\ Cardinality(Q) <= Cardinality(Handlers) /\ Cardinality(Q) \in Nat
            /\ Cardinality(Handlers) \in Nat
        BY <4>4, FS_Subset, FS_CardinalityType, PayrollAssumption
      <4> QED BY <4>3, <4>5, FS_EmptySet
    <3>2. CASE h \notin Q
      <4>1. \A g \in Q : g \in Handlers \ {h} /\ request'[g] = request[g]
        BY <1>1, <3>2 DEF PackageCalls, Others
      <4>2. Q \in SUBSET PackageCalls(request, f) BY <4>1 DEF PackageCalls
      <4>3. {request'[g].seen : g \in Q} = {request[g].seen : g \in Q} BY <4>1
      <4>4. Unseen(packages[f], request', Q) = Unseen(packages[f], request, Q)
        BY <4>3 DEF Unseen
      <4> QED BY <2>1, <4>2, <4>4 DEF PackagesOK
    <3> QED BY <3>1, <3>2
  <2> QED BY <2>1, <2>2 DEF PackagesOK
<1>4. Bounded' BY <1>1, <1>2, BoundedStays DEF MoneyInv
<1>5. Booked' BY <1>2, BookedStays DEF MoneyInv
<1>6. Lent'
  <2>1. \A f : Keeping(request', f)[h] = 0 BY <1>1, KeepsNothing
  <2>2. \A f \in Employees :
          Keeping(request', f)[h] - Keeping(request, f)[h] <= withheld'[f] - withheld[f]
    BY <1>2, <2>1, KeepsNat, WithheldNat DEF MoneyInv
  <2> QED BY <1>1, <1>2, <2>2, LentStays DEF MoneyInv
<1> QED BY <1>1, <1>3, <1>4, <1>5, <1>6 DEF MoneyInv

\* A request adds at most what remains, and the others hold at most a benefit each.
LEMMA RequestConversionKeeps ==
  ASSUME MoneyInv, NEW h \in Handlers, NEW e \in Employees, RequestConversion(h, e)
  PROVE  MoneyInv'
<1>1. /\ Typed' /\ Others(h, request, request') /\ request'[h].pc = "conversion"
      /\ request'[h].who = e /\ request'[h].item \in DOMAIN packages[e]
      /\ request'[h].amount <= Remaining(e, request'[h].item)
  BY RequestConversionTyped DEF MoneyInv
<1>2. UNCHANGED <<packages, advances, conversions, repaid, withheld>>
  BY DEF RequestConversion, rows
<1>3. Shows' BY <1>1, <1>2, SamePackages, ShowsStay DEF MoneyInv
<1>4. Bounded'
  <2> SUFFICES ASSUME NEW f \in Employees, NEW k \in DOMAIN packages[f]
               PROVE  packages[f][k].converted + SumFunction(Flight(request', f, k))
                        <= Cardinality(Handlers) * packages[f][k].notional
    BY <1>2 DEF Bounded
  <2> DEFINE m == packages[f][k].notional
             c == packages[f][k].converted
             n == Cardinality(Handlers)
             old == Flight(request, f, k)
             new == Flight(request', f, k)
  <2>1. c \in Nat /\ m \in Nat BY Tables DEF MoneyInv, Typed, PackageRow
  <2>2. n \in Nat /\ n # 0 BY PayrollAssumption, FS_CardinalityType, FS_EmptySet
  <2>3. /\ SumFunction(new) = SumFunction(old) - old[h] + new[h]
        /\ old[h] \in Nat /\ new[h] \in Nat /\ SumFunction(old) \in Nat
    BY <1>1, FlightMoves DEF MoneyInv
  <2>4. c + SumFunction(old) <= n * m BY DEF MoneyInv, Bounded
  <2>5. CASE new[h] = 0
    <3> DEFINE top == n * m
    <3>1. top \in Nat /\ c + SumFunction(old) <= top BY <2>1, <2>2, <2>4
    <3>2. c + SumFunction(new) <= top
      <4> HIDE DEF top, n, m, c, old, new
      <4> QED BY <2>1, <2>3, <2>5, <3>1
    <3> QED BY <3>2
  <2>6. CASE new[h] # 0
    <3>1. f = e /\ k = request'[h].item /\ new[h] = request'[h].amount
      BY <1>1, <2>6 DEF Flight
    <3>2. new[h] <= m - c BY <1>1, <3>1 DEF Remaining
    <3>3. \A g \in Handlers : RequestTyped(request[g], packages, advances)
      BY DEF MoneyInv, Typed, Requests
    <3>4. \A g \in Handlers : old[g] \in Int /\ old[g] <= m
      BY <2>1, <3>3 DEF Flight, RequestTyped
    <3>5. SumFunction(old) = old[h] + SumFunctionOnSet(old, Handlers \ {h})
      <4>1. SumFunction(old) = SumFunctionOnSet(old, Handlers) BY <3>3, FlightTyped
      <4> HIDE DEF old
      <4> QED BY <3>4, <4>1, SumRemove, PayrollAssumption
    <3>6. /\ IsFiniteSet(Handlers \ {h}) /\ Cardinality(Handlers \ {h}) = n - 1
      BY FS_RemoveElement, PayrollAssumption
    <3>7. SumFunctionOnSet(old, Handlers \ {h}) <= (n - 1) * m
      <4>1. \A g \in Handlers \ {h} : old[g] \in Int /\ old[g] <= m BY <3>4
      <4> HIDE DEF old, n, m
      <4> QED BY <2>1, <3>6, <4>1, SumBound
    <3>8. SumFunctionOnSet(old, Handlers \ {h}) \in Int
      <4>1. \A g \in Handlers \ {h} : old[g] \in Int BY <3>4
      <4> HIDE DEF old
      <4> QED BY <3>6, <4>1, SumInt
    <3>9. (n - 1) * m = n * m - m BY <2>1, <2>2
    <3> DEFINE top == n * m
    <3>10. /\ top \in Nat
           /\ SumFunctionOnSet(old, Handlers \ {h}) <= top - m
      BY <2>1, <2>2, <3>7, <3>9
    <3>11. c + SumFunction(new) <= top
      <4> HIDE DEF top, n, m, c, old, new
      <4> QED BY <2>1, <2>3, <3>2, <3>5, <3>8, <3>10
    <3> QED BY <3>11
  <2> QED BY <2>5, <2>6
<1>5. Booked' BY <1>2, BookedStays DEF MoneyInv
<1>6. Lent'
  <2>1. \A f : Keeping(request', f)[h] = 0 BY <1>1, KeepsNothing
  <2>2. \A f \in Employees :
          Keeping(request', f)[h] - Keeping(request, f)[h] <= withheld'[f] - withheld[f]
    BY <1>2, <2>1, KeepsNat, WithheldNat DEF MoneyInv
  <2> QED BY <1>1, <1>2, <2>2, LentStays DEF MoneyInv
<1> QED BY <1>1, <1>3, <1>4, <1>5, <1>6 DEF MoneyInv

LEMMA RequestAdvanceKeeps ==
  ASSUME MoneyInv, NEW h \in Handlers, NEW e \in Employees, RequestAdvance(h, e)
  PROVE  MoneyInv'
<1>1. Typed' /\ Others(h, request, request') /\ request'[h].pc = "advance"
  BY RequestAdvanceTyped DEF MoneyInv
<1>2. UNCHANGED <<packages, advances, conversions, repaid, withheld>>
  BY DEF RequestAdvance, rows
<1>3. \A f \in Employees :
        Keeping(request', f)[h] - Keeping(request, f)[h] <= withheld'[f] - withheld[f]
  <2>1. \A f : Keeping(request', f)[h] = 0 BY <1>1, KeepsNothing
  <2> QED BY <1>2, <2>1, KeepsNat, WithheldNat DEF MoneyInv
<1> QED BY <1>1, <1>2, <1>3, QuietRead

LEMMA ComputeSalaryKeeps ==
  ASSUME MoneyInv, NEW h \in Handlers, NEW e \in Employees, ComputeSalary(h, e)
  PROVE  MoneyInv'
<1>1. /\ Typed' /\ Others(h, request, request')
      /\ \/ request'[h].pc = "paySalary" /\ UNCHANGED withheld
         \/ /\ request'[h].pc = "settle" /\ request'[h].who = e
            /\ withheld' = [withheld EXCEPT ![e] = @ + request'[h].deduction]
  BY ComputeSalaryStep DEF MoneyInv
<1>2. UNCHANGED <<packages, advances, conversions, repaid>> BY DEF ComputeSalary, rows
<1>3. request[h].pc = "idle" BY DEF ComputeSalary, At
<1>4. \A f : Keeping(request, f)[h] = 0 BY <1>3, KeepsNothing
<1>5. withheld \in [Employees -> Nat] /\ \A f \in Employees : withheld[f] \in Nat
  BY DEF MoneyInv, Typed, TypeOK
<1>6. \A f \in Employees :
        Keeping(request', f)[h] - Keeping(request, f)[h] <= withheld'[f] - withheld[f]
  <2>1. CASE request'[h].pc = "paySalary" /\ UNCHANGED withheld
    <3>1. \A f : Keeping(request', f)[h] = 0 BY <2>1, KeepsNothing
    <3> QED BY <1>4, <1>5, <2>1, <3>1
  <2>2. CASE /\ request'[h].pc = "settle" /\ request'[h].who = e
             /\ withheld' = [withheld EXCEPT ![e] = @ + request'[h].deduction]
    <3>1. request'[h].deduction \in Nat BY <1>1, <2>2 DEF Typed, Requests, RequestTyped
    <3>2. \A f \in Employees :
            Keeping(request', f)[h] = IF f = e THEN request'[h].deduction ELSE 0
      BY <2>2 DEF Keeping
    <3>3. \A f \in Employees :
            withheld'[f] = IF f = e THEN withheld[f] + request'[h].deduction ELSE withheld[f]
      BY <1>5, <2>2
    <3> QED BY <1>4, <1>5, <3>1, <3>2, <3>3
  <2> QED BY <1>1, <2>1, <2>2
<1> QED BY <1>1, <1>2, <1>6, QuietRead

LEMMA ReadNettedKeeps ==
  ASSUME MoneyInv, NEW h \in Handlers, ReadNetted(h)
  PROVE  MoneyInv'
<1>1. /\ Typed' /\ Others(h, request, request')
      /\ request[h].pc = "settle" /\ request'[h].pc = "apply"
      /\ request'[h].who = request[h].who /\ request'[h].deduction = request[h].deduction
  BY ReadNettedTyped DEF MoneyInv
<1>2. UNCHANGED <<packages, advances, conversions, repaid, withheld>>
  BY DEF ReadNetted, rows
<1>3. \A f \in Employees :
        Keeping(request', f)[h] - Keeping(request, f)[h] <= withheld'[f] - withheld[f]
  <2>1. \A f : Keeping(request', f)[h] = Keeping(request, f)[h] BY <1>1 DEF Keeping
  <2> QED BY <1>2, <2>1, KeepsNat, WithheldNat DEF MoneyInv
<1> QED BY <1>1, <1>2, <1>3, QuietRead

LEMMA StopKeeps ==
  ASSUME MoneyInv, NEW h \in Handlers, PayoutFails(h) \/ Abort(h)
  PROVE  MoneyInv'
<1>1. Typed' /\ Others(h, request, request') /\ request'[h] = Idle
  BY StopTyped DEF MoneyInv
<1>2. UNCHANGED <<packages, advances, conversions, repaid, withheld>>
  BY DEF PayoutFails, Abort, rows
<1>3. request'[h].pc = "idle" BY <1>1 DEF Idle
<1>4. \A f \in Employees :
        Keeping(request', f)[h] - Keeping(request, f)[h] <= withheld'[f] - withheld[f]
  <2>1. \A f : Keeping(request', f)[h] = 0 BY <1>3, KeepsNothing
  <2> QED BY <1>2, <2>1, KeepsNat, WithheldNat DEF MoneyInv
<1> QED BY <1>1, <1>2, <1>3, <1>4, QuietRead

-----------------------------------------------------------------------------
(* A package more: onboarding, and what supersedes the open ones. *)

LEMMA Pool ==
  /\ Cardinality(Handlers) \in Nat \ {0} /\ IsFiniteSet(Handlers)
BY PayrollAssumption, FS_CardinalityType, FS_EmptySet

LEMMA BalanceTyped ==
  ASSUME TypeOK, NEW e \in Employees, NEW k \in DOMAIN packages[e]
  PROVE  /\ packages[e][k].converted \in Nat /\ packages[e][k].notional \in Nat
         /\ Cardinality(Handlers) * packages[e][k].notional \in Nat
<1>1. packages[e][k].converted \in Nat /\ packages[e][k].notional \in Nat
  BY Tables DEF PackageRow
<1> QED BY <1>1, Pool

\* No handler starts a conversion: what is in flight does not grow.
LEMMA FlightFalls ==
  ASSUME Typed, Typed', NEW e, NEW k,
         \A g \in Handlers : request'[g] = request[g] \/ request'[g].pc # "conversion"
  PROVE  /\ SumFunction(Flight(request', e, k)) <= SumFunction(Flight(request, e, k))
         /\ SumFunction(Flight(request, e, k)) \in Nat
         /\ SumFunction(Flight(request', e, k)) \in Nat
<1>1. /\ \A g \in Handlers : RequestTyped(request[g], packages, advances)
      /\ \A g \in Handlers : RequestTyped(request'[g], packages', advances')
  BY DEF Typed, Requests
<1>2. /\ \A g \in Handlers : Flight(request, e, k)[g] \in Nat
      /\ SumFunction(Flight(request, e, k)) = SumFunctionOnSet(Flight(request, e, k), Handlers)
      /\ SumFunction(Flight(request, e, k)) \in Nat
  BY <1>1, FlightTyped
<1>3. /\ \A g \in Handlers : Flight(request', e, k)[g] \in Nat
      /\ SumFunction(Flight(request', e, k)) = SumFunctionOnSet(Flight(request', e, k), Handlers)
      /\ SumFunction(Flight(request', e, k)) \in Nat
  BY <1>1, FlightTyped
<1>4. \A g \in Handlers : Flight(request', e, k)[g] <= Flight(request, e, k)[g]
  <2> TAKE g \in Handlers
  <2>1. CASE request'[g] = request[g] BY <1>2, <2>1 DEF Flight
  <2>2. CASE request'[g].pc # "conversion"
    <3>1. Flight(request', e, k)[g] = 0 BY <2>2 DEF Flight
    <3> QED BY <1>2, <3>1
  <2> QED BY <2>1, <2>2
<1>5. \A g \in Handlers :
        /\ Flight(request', e, k)[g] \in Int /\ Flight(request, e, k)[g] \in Int
        /\ Flight(request', e, k)[g] <= Flight(request, e, k)[g]
  BY <1>2, <1>3, <1>4
<1>6. SumFunctionOnSet(Flight(request', e, k), Handlers)
        <= SumFunctionOnSet(Flight(request, e, k), Handlers)
  BY <1>5, Pool, SumMonotone
<1> QED BY <1>2, <1>3, <1>6

\* Balances stay what they are, and those of a new item are zero.
PackageMore(e, n) ==
  /\ DOMAIN packages'[e] = DOMAIN packages[e] \cup {n} /\ n \notin DOMAIN packages[e]
  /\ packages'[e][n].converted = 0
  /\ \A k \in DOMAIN packages[e] :
       /\ packages'[e][k].converted = packages[e][k].converted
       /\ packages'[e][k].notional = packages[e][k].notional
  /\ \A f \in Employees \ {e} : packages'[f] = packages[f]

LEMMA MoreIsGrown ==
  ASSUME TypeOK, NEW e \in Employees, NEW n, PackageMore(e, n), UNCHANGED advances
  PROVE  Grown(packages, packages', advances, advances')
<1>1. packages'[e] # << >>
  <2>1. DOMAIN packages'[e] # {} BY DEF PackageMore
  <2> QED BY <2>1
<1> QED BY <1>1 DEF PackageMore, Grown

LEMMA MoreKeepsBalances ==
  ASSUME MoneyInv, Typed', NEW e \in Employees, NEW n, PackageMore(e, n), UNCHANGED conversions,
         \A g \in Handlers : request'[g] = request[g] \/ request'[g].pc # "conversion"
  PROVE  Booked' /\ Bounded'
<1>1. Typed /\ TypeOK /\ TypeOK' BY DEF MoneyInv, Typed
<1>2. \A c \in DOMAIN conversions :
        /\ conversions[c].who \in Employees
        /\ conversions[c].item \in DOMAIN packages[conversions[c].who]
  BY <1>1, Tables DEF MoneyInv, Booked, ConversionRow
<1>3. Booked'
  <2>1. ASSUME NEW c \in DOMAIN conversions
        PROVE  conversions[c].item \in DOMAIN packages'[conversions[c].who]
    BY <1>2 DEF PackageMore
  <2>2. ASSUME NEW f \in Employees, NEW k \in DOMAIN packages'[f]
        PROVE  packages'[f][k].converted = SumFunction(Share(conversions, f, k))
    <3>1. CASE f = e /\ k = n
      <4>1. \A c \in DOMAIN conversions : Share(conversions, f, k)[c] = 0
        BY <1>2, <3>1 DEF Share, PackageMore
      <4>2. DOMAIN Share(conversions, f, k) = DOMAIN conversions BY DEF Share
      <4>3. SumFunction(Share(conversions, f, k)) = 0 BY <1>1, <4>1, <4>2, Tables, SumWhole, SumZero
      <4> QED BY <3>1, <4>3 DEF PackageMore
    <3>2. CASE ~ (f = e /\ k = n)
      <4>1. k \in DOMAIN packages[f] /\ packages'[f][k].converted = packages[f][k].converted
        BY <3>2 DEF PackageMore
      <4> QED BY <4>1 DEF MoneyInv, Booked
    <3> QED BY <3>1, <3>2
  <2> QED BY <2>1, <2>2 DEF Booked
<1>4. ASSUME NEW f \in Employees, NEW k \in DOMAIN packages'[f]
      PROVE  packages'[f][k].converted + SumFunction(Flight(request', f, k))
               <= Cardinality(Handlers) * packages'[f][k].notional
  <2>0. Cardinality(Handlers) * packages'[f][k].notional \in Nat
    <3>1. packages'[f] \in Seq(PackageRow) BY <1>1 DEF TypeOK
    <3>2. packages'[f][k] \in PackageRow BY <3>1
    <3>3. packages'[f][k].notional \in Nat BY <3>2 DEF PackageRow
    <3> QED BY <3>3, Pool
  <2>1. CASE f = e /\ k = n
    <3>1. \A g \in Handlers : RequestTyped(request[g], packages, advances)
      BY <1>1 DEF Typed, Requests
    <3>2. \A g \in Handlers : Flight(request', f, k)[g] = 0
      BY <2>1, <3>1 DEF Flight, RequestTyped, PackageMore
    <3>3. DOMAIN Flight(request', f, k) = Handlers BY DEF Flight
    <3>4. SumFunction(Flight(request', f, k)) = 0 BY <3>2, <3>3, Pool, SumWhole, SumZero
    <3>5. packages'[f][k].converted = 0 BY <2>1 DEF PackageMore
    <3> QED BY <2>0, <3>4, <3>5
  <2>2. CASE ~ (f = e /\ k = n)
    <3>1. /\ k \in DOMAIN packages[f] /\ packages'[f][k].converted = packages[f][k].converted
          /\ packages'[f][k].notional = packages[f][k].notional
      BY <2>2 DEF PackageMore
    <3>2. /\ SumFunction(Flight(request', f, k)) <= SumFunction(Flight(request, f, k))
          /\ SumFunction(Flight(request, f, k)) \in Nat
          /\ SumFunction(Flight(request', f, k)) \in Nat
      BY <1>1, FlightFalls
    <3>3. packages[f][k].converted + SumFunction(Flight(request, f, k))
            <= Cardinality(Handlers) * packages[f][k].notional
      BY <3>1 DEF MoneyInv, Bounded
    <3>4. /\ packages[f][k].converted \in Nat
          /\ Cardinality(Handlers) * packages[f][k].notional \in Nat
      BY <1>1, <3>1, BalanceTyped
    <3> QED BY <3>1, <3>2, <3>3, <3>4
  <2> QED BY <2>1, <2>2
<1>5. Bounded' BY <1>4 DEF Bounded
<1> QED BY <1>3, <1>5

LEMMA OnboardKeeps ==
  ASSUME MoneyInv, NEW e \in Employees, OnboardEmployee(e)
  PROVE  MoneyInv'
<1>1. PICK base \in Bases, notional \in Notionals :
        packages' = [packages EXCEPT ![e] = <<NewPackage(base, notional)>>]
  BY DEF OnboardEmployee
<1> DEFINE p == NewPackage(base, notional)
<1>2. /\ packages[e] = << >>
      /\ UNCHANGED <<advances, conversions, payouts, advancePolicy, conversionPolicy,
                     request, withheld, repaid>>
  BY DEF OnboardEmployee
<1>3. /\ p \in PackageRow /\ p.open /\ p.converted = 0 BY PayrollAssumption DEF NewPackage, PackageRow
<1>4. packages \in [Employees -> Seq(PackageRow)] BY DEF MoneyInv, Typed, TypeOK
<1> HIDE DEF p
<1>5. packages'[e] = <<p>> /\ \A f \in Employees \ {e} : packages'[f] = packages[f]
  BY <1>1, <1>4 DEF p
<1>6. packages' \in [Employees -> Seq(PackageRow)]
  <2>1. <<p>> \in Seq(PackageRow) BY <1>3
  <2> QED BY <1>1, <1>4, <2>1 DEF p
<1>7. /\ DOMAIN packages[e] = {} /\ DOMAIN packages'[e] = {1} /\ packages'[e][1] = p
      /\ Len(packages'[e]) = 1
  BY <1>2, <1>5
<1>8. PackageMore(e, 1) BY <1>3, <1>5, <1>7 DEF PackageMore
<1>9. Typed'
  <2>1. TypeOK' BY <1>2, <1>6 DEF MoneyInv, Typed, TypeOK
  <2>2. Grown(packages, packages', advances, advances')
    BY <1>2, <1>8, MoreIsGrown DEF MoneyInv, Typed
  <2>3. Requests' BY <1>2, <2>2, RequestsStay DEF MoneyInv, Typed
  <2> QED BY <1>2, <2>1, <2>3 DEF MoneyInv, Typed, Policies
<1>10. Booked' /\ Bounded' BY <1>2, <1>8, <1>9, MoreKeepsBalances
<1>11. Lent' BY <1>2 DEF MoneyInv, Lent
<1>12. Shows'
  <2> SUFFICES ASSUME NEW f \in Employees PROVE PackagesOK(packages'[f], request, f)
    BY <1>2 DEF Shows
  <2>1. CASE f # e BY <1>5, <2>1 DEF MoneyInv, Shows
  <2>2. CASE f = e
    <3>1. PackageCalls(request, e) = {}
      BY <1>2 DEF MoneyInv, Typed, Requests, RequestTyped, PackageCalls
    <3>2. ASSUME NEW Q \in SUBSET PackageCalls(request, e)
          PROVE  Cardinality(Unseen(packages'[e], request, Q)) <= Cardinality(Handlers) - Cardinality(Q)
      <4>1. Cardinality(Q) = 0 BY <3>1, FS_EmptySet
      <4>2. Unseen(packages'[e], request, Q) \in SUBSET {1} BY <1>7 DEF Unseen, Shown
      <4>3. /\ Cardinality(Unseen(packages'[e], request, Q)) <= 1
            /\ Cardinality(Unseen(packages'[e], request, Q)) \in Nat
        <5>1. IsFiniteSet({1}) /\ Cardinality({1}) = 1 BY FS_Singleton
        <5> DEFINE U == Unseen(packages'[e], request, Q)
        <5>2. U \in SUBSET {1} BY <4>2
        <5> HIDE DEF U
        <5>3. IsFiniteSet(U) /\ Cardinality(U) <= 1 BY <5>1, <5>2, FS_Subset
        <5> QED BY <5>3, FS_CardinalityType DEF U
      <4> QED BY <4>1, <4>3, Pool
    <3> QED BY <1>3, <1>7, <2>2, <3>2 DEF PackagesOK
  <2> QED BY <2>1, <2>2
<1> QED BY <1>9, <1>10, <1>11, <1>12 DEF MoneyInv

\* The new package is shown, and replaces all that this call saw.
LEMMA SupersedeKeeps ==
  ASSUME MoneyInv, NEW h \in Handlers, SupersedeAndCreate(h)
  PROVE  MoneyInv'
<1> DEFINE r == request[h]
           e == r.who
           old == Superseded(e, r.seen)
           n == Len(packages[e]) + 1
<1>1. /\ r.pc = "package" /\ packages' = [packages EXCEPT ![e] = Append(old, r.new)]
      /\ Become(h, Idle)
      /\ UNCHANGED <<advances, conversions, payouts, advancePolicy, conversionPolicy,
                     withheld, repaid>>
  BY DEF SupersedeAndCreate, At
<1>2. /\ e \in Employees /\ r.seen \subseteq DOMAIN packages[e]
      /\ r.new \in PackageRow /\ r.new.open /\ r.new.converted = 0
  BY <1>1 DEF MoneyInv, Typed, Requests, RequestTyped
<1>3. /\ packages \in [Employees -> Seq(PackageRow)] /\ packages[e] \in Seq(PackageRow)
      /\ DOMAIN packages[e] = 1 .. Len(packages[e]) /\ Len(packages[e]) \in Nat
      /\ \A k \in DOMAIN packages[e] : packages[e][k] \in PackageRow
  BY <1>2, Tables DEF MoneyInv, Typed, TypeOK
<1>4. /\ DOMAIN old = DOMAIN packages[e]
      /\ \A k \in DOMAIN packages[e] :
           /\ old[k] \in PackageRow /\ old[k].converted = packages[e][k].converted
           /\ old[k].notional = packages[e][k].notional
           /\ old[k].open <=> packages[e][k].open /\ k \notin r.seen
  BY <1>3 DEF Superseded, PackageRow
<1>5. old \in Seq(PackageRow)
  <2>1. old = [k \in DOMAIN packages[e] |-> old[k]] BY DEF Superseded
  <2> HIDE DEF old, e, r
  <2> QED BY <1>3, <1>4, <2>1, ReplaceRows
<1>6. Len(old) = Len(packages[e]) BY <1>3, <1>4, <1>5
<1> HIDE DEF old, e, r
<1>7. /\ packages'[e] = Append(old, r.new) /\ packages' \in [Employees -> Seq(PackageRow)]
      /\ \A f \in Employees \ {e} : packages'[f] = packages[f]
  <2>1. Append(old, r.new) \in Seq(PackageRow) BY <1>2, <1>5, AppendRow
  <2> QED BY <1>1, <1>2, <1>3, <2>1
<1>8. /\ DOMAIN packages'[e] = DOMAIN packages[e] \cup {n} /\ n \notin DOMAIN packages[e]
      /\ \A k \in DOMAIN packages[e] : packages'[e][k] = old[k]
      /\ packages'[e][n] = r.new /\ Len(packages'[e]) = n
  BY <1>2, <1>3, <1>4, <1>5, <1>6, <1>7, AppendRow
<1>9. PackageMore(e, n) BY <1>2, <1>4, <1>7, <1>8 DEF PackageMore
<1>10. Typed' /\ request'[h] = Idle /\ Others(h, request, request')
  <2>1. TypeOK' BY <1>1, <1>7 DEF MoneyInv, Typed, TypeOK
  <2>2. Grown(packages, packages', advances, advances')
    BY <1>1, <1>2, <1>9, MoreIsGrown DEF MoneyInv, Typed
  <2>3. Requests' /\ request'[h] = Idle /\ Others(h, request, request')
    BY <1>1, <2>2, IdleTyped, RequestsMove DEF MoneyInv, Typed
  <2> QED BY <1>1, <2>1, <2>3 DEF MoneyInv, Typed, Policies
<1>11. Booked' /\ Bounded'
  <2>1. \A g \in Handlers : request'[g] = request[g] \/ request'[g].pc # "conversion"
    BY <1>10 DEF Others, Idle
  <2> HIDE DEF n
  <2> QED BY <1>1, <1>2, <1>9, <1>10, <2>1, MoreKeepsBalances
<1>12. Lent'
  <2>1. request'[h].pc = "idle" BY <1>10 DEF Idle
  <2>2. \A f : Keeping(request', f)[h] = 0 BY <2>1, KeepsNothing
  <2>3. \A f \in Employees :
          Keeping(request', f)[h] - Keeping(request, f)[h] <= withheld'[f] - withheld[f]
    BY <1>1, <2>2, KeepsNat, WithheldNat DEF MoneyInv
  <2> QED BY <1>1, <1>10, <2>3, LentStays DEF MoneyInv
<1>13. Shows'
  <2> SUFFICES ASSUME NEW f \in Employees PROVE PackagesOK(packages'[f], request', f)
    BY DEF Shows
  <2>1. PackagesOK(packages[f], request, f) BY DEF MoneyInv, Shows
  <2>2. ASSUME NEW Q \in SUBSET PackageCalls(request', f)
        PROVE  /\ Q \in SUBSET PackageCalls(request, f) /\ h \notin Q /\ Q \in SUBSET Handlers
               /\ {request'[g].seen : g \in Q} = {request[g].seen : g \in Q}
    <3>1. \A g \in Q : g \in Handlers \ {h} /\ request'[g] = request[g]
      BY <1>10 DEF PackageCalls, Others, Idle
    <3> QED BY <3>1 DEF PackageCalls
  <2>3. CASE f # e
    <3>1. packages'[f] = packages[f] BY <1>7, <2>3
    <3>2. \A Q \in SUBSET PackageCalls(request', f) :
            Unseen(packages'[f], request', Q) = Unseen(packages[f], request, Q)
      BY <2>2, <3>1 DEF Unseen
    <3> QED BY <2>1, <2>2, <3>1, <3>2 DEF PackagesOK
  <2>4. CASE f = e
    <3>1. packages'[e][Len(packages'[e])].open BY <1>2, <1>8
    <3>2. ASSUME NEW Q \in SUBSET PackageCalls(request', e)
          PROVE  Cardinality(Unseen(packages'[e], request', Q)) <= Cardinality(Handlers) - Cardinality(Q)
      <4> DEFINE R == Q \cup {h}
                 U == Unseen(packages[e], request, R)
                 V == Unseen(packages'[e], request', Q)
      <4>1. R \in SUBSET PackageCalls(request, e)
        BY <1>1, <2>2, <2>4 DEF PackageCalls, r, e
      <4>2. V \in SUBSET (U \cup {n})
        <5>1. \A k \in V : k = n \/ (k \in DOMAIN packages[e] /\ old[k].open)
          BY <1>8 DEF Unseen, Shown
        <5>2. \A k \in V : k # n => k \in Shown(packages[e]) /\ k \notin r.seen
          BY <1>4, <5>1 DEF Shown
        <5>3. \A k \in V : \A g \in Q : k \notin request[g].seen BY <2>2, <2>4 DEF Unseen
        <5> QED BY <5>2, <5>3 DEF Unseen, r
      <4>3. Cardinality(U) <= Cardinality(Handlers) - Cardinality(R)
        BY <2>1, <2>4, <4>1 DEF PackagesOK
      <4>4. IsFiniteSet(Q) /\ Cardinality(R) = Cardinality(Q) + 1 /\ Cardinality(Q) \in Nat
        BY <2>2, <2>4, Pool, FS_Subset, FS_AddElement, FS_CardinalityType
      <4>5. IsFiniteSet(U) /\ Cardinality(U) \in Nat
        <5>1. U \in SUBSET DOMAIN packages[e] BY DEF Unseen, Shown
        <5>2. IsFiniteSet(DOMAIN packages[e]) BY <1>2, Tables DEF MoneyInv, Typed
        <5> QED BY <5>1, <5>2, FS_Subset, FS_CardinalityType
      <4> HIDE DEF U, V, n
      <4>6. /\ IsFiniteSet(U \cup {n}) /\ Cardinality(U \cup {n}) <= Cardinality(U) + 1
            /\ Cardinality(U \cup {n}) \in Nat
        <5>1. /\ IsFiniteSet(U \cup {n})
              /\ Cardinality(U \cup {n}) = IF n \in U THEN Cardinality(U) ELSE Cardinality(U) + 1
          BY <4>5, FS_AddElement
        <5> QED BY <4>5, <5>1
      <4>7. Cardinality(V) <= Cardinality(U \cup {n}) /\ Cardinality(V) \in Nat
        BY <4>2, <4>6, FS_Subset, FS_CardinalityType
      <4> QED BY <4>3, <4>4, <4>5, <4>6, <4>7, Pool DEF V
    <3> QED BY <2>4, <3>1, <3>2 DEF PackagesOK
  <2> QED BY <2>3, <2>4
<1> QED BY <1>10, <1>11, <1>12, <1>13 DEF MoneyInv

-----------------------------------------------------------------------------
(* The advances. *)

\* Packages and conversions stay, and no handler comes to change them.
LEMMA BalancesStay ==
  ASSUME MoneyInv, Typed', UNCHANGED <<packages, conversions>>,
         \/ UNCHANGED request
         \/ \E h \in Handlers : /\ Others(h, request, request')
                                /\ request'[h].pc \notin {"package", "conversion"}
  PROVE  Shows' /\ Booked' /\ Bounded'
<1>1. Booked' BY BookedStays DEF MoneyInv
<1>2. CASE UNCHANGED request BY <1>1, <1>2 DEF MoneyInv, Shows, Bounded
<1>3. ASSUME NEW h \in Handlers, Others(h, request, request'),
             request'[h].pc \notin {"package", "conversion"}
      PROVE  Shows' /\ Bounded'
  BY <1>3, SamePackages, ShowsStay, BoundedStays DEF MoneyInv
<1> QED BY <1>1, <1>2, <1>3

LEMMA LostValues ==
  ASSUME TypeOK, NEW e
  PROVE  /\ DOMAIN Lost(advances, e) = DOMAIN advances
         /\ \A a \in DOMAIN advances : Lost(advances, e)[a] \in Int
<1>1. \A a \in DOMAIN advances : advances[a].owed \in Int /\ advances[a].outstanding \in Int
  BY Tables DEF AdvanceRow
<1> QED BY <1>1 DEF Lost

\* Nothing is settled: what the advances have lost stays what it is.
LEMMA LostStays ==
  ASSUME NEW S, NEW S2, IsFiniteSet(S2), S \subseteq S2, NEW f, NEW g,
         DOMAIN f = S, DOMAIN g = S2, \A a \in S : f[a] \in Int /\ g[a] = f[a],
         \A a \in S2 \ S : g[a] = 0
  PROVE  SumFunction(g) = SumFunction(f)
<1>1. IsFiniteSet(S) BY FS_Subset
<1>2. SumFunctionOnSet(g, S) = SumFunctionOnSet(g, S2)
  <2>1. \A a \in S2 : g[a] \in Int OBVIOUS
  <2>2. \A a \in S2 : g[a] = IF a \in S THEN g[a] ELSE 0 OBVIOUS
  <2>3. S \in SUBSET S2 OBVIOUS
  <2> QED BY <2>1, <2>2, <2>3, SumPart
<1>3. SumFunctionOnSet(g, S) = SumFunctionOnSet(f, S) BY <1>1, SumEqual
<1> QED BY <1>2, <1>3, SumWhole

\* What Lent asks of a step that settles nothing.
LEMMA UnsettledLent ==
  ASSUME MoneyInv, Typed', UNCHANGED <<withheld, repaid>>,
         DOMAIN advances \subseteq DOMAIN advances',
         \A a \in DOMAIN advances' : AdvanceOK(advances'[a]),
         \A e : \A a \in DOMAIN advances : Lost(advances', e)[a] = Lost(advances, e)[a],
         \A e : \A a \in DOMAIN advances' \ DOMAIN advances : Lost(advances', e)[a] = 0,
         \/ UNCHANGED request
         \/ \E h \in Handlers : /\ Others(h, request, request')
                                /\ request'[h].pc \notin {"settle", "apply"}
  PROVE  Lent'
<1>1. ASSUME NEW e \in Employees
      PROVE  /\ SumFunction(Lost(advances', e)) = repaid[e]
             /\ repaid[e] + SumFunction(Keeping(request', e)) <= withheld[e]
  <2>1. SumFunction(Lost(advances', e)) = SumFunction(Lost(advances, e))
    <3>1. IsFiniteSet(DOMAIN advances') 
      <4>1. advances' \in Seq(AdvanceRow) BY DEF Typed, TypeOK
      <4>2. DOMAIN advances' = 1 .. Len(advances') /\ Len(advances') \in Nat BY <4>1
      <4> QED BY <4>2, FS_Interval
    <3>2. DOMAIN Lost(advances', e) = DOMAIN advances' BY DEF Lost
    <3>3. /\ DOMAIN Lost(advances, e) = DOMAIN advances
          /\ \A a \in DOMAIN advances : Lost(advances, e)[a] \in Int
      BY LostValues DEF MoneyInv, Typed
    <3> QED BY <3>1, <3>2, <3>3, LostStays
  <2>2. SumFunction(Keeping(request', e)) <= SumFunction(Keeping(request, e))
        /\ SumFunction(Keeping(request, e)) \in Nat /\ SumFunction(Keeping(request', e)) \in Nat
    <3>0. SumFunction(Keeping(request, e)) \in Nat
      BY KeepingTyped DEF MoneyInv, Typed, Requests
    <3>1. CASE UNCHANGED request BY <3>0, <3>1
    <3>2. ASSUME NEW h \in Handlers, Others(h, request, request'),
                 request'[h].pc \notin {"settle", "apply"}
          PROVE  /\ SumFunction(Keeping(request', e)) <= SumFunction(Keeping(request, e))
                 /\ SumFunction(Keeping(request', e)) \in Nat
      <4>1. Keeping(request', e)[h] = 0 BY <3>2, KeepsNothing
      <4>2. /\ SumFunction(Keeping(request', e)) =
                 SumFunction(Keeping(request, e)) - Keeping(request, e)[h] + Keeping(request', e)[h]
            /\ Keeping(request, e)[h] \in Nat
        BY <3>2, KeepingMoves DEF MoneyInv
      <4>3. SumFunction(Keeping(request', e)) \in Nat
        BY KeepingTyped DEF Typed, Requests
      <4> QED BY <3>0, <4>1, <4>2, <4>3
    <3> QED BY <3>0, <3>1, <3>2
  <2>3. /\ SumFunction(Lost(advances, e)) = repaid[e]
        /\ repaid[e] + SumFunction(Keeping(request, e)) <= withheld[e]
    BY DEF MoneyInv, Lent
  <2>4. repaid[e] \in Nat /\ withheld[e] \in Nat BY DEF MoneyInv, Typed, TypeOK
  <2> QED BY <2>1, <2>2, <2>3, <2>4
<1> QED BY <1>1 DEF Lent

\* One row of the advances becomes another.
RowBecomes(a, row) ==
  /\ advances' = [b \in DOMAIN advances |-> advances'[b]] /\ advances'[a] = row
  /\ \A b \in DOMAIN advances \ {a} : advances'[b] = advances[b]

LEMMA RowTyped ==
  ASSUME TypeOK, NEW a \in DOMAIN advances, NEW row \in AdvanceRow, RowBecomes(a, row)
  PROVE  advances' \in Seq(AdvanceRow) /\ DOMAIN advances' = DOMAIN advances
<1>1. \A b \in DOMAIN advances : advances'[b] \in AdvanceRow BY Tables DEF RowBecomes
<1>2. advances \in Seq(AdvanceRow) BY DEF TypeOK
<1> QED BY <1>1, <1>2, ReplaceRows DEF RowBecomes

\* Such a step, when the row has lost nothing, before and after.
LEMMA RowKeeps ==
  ASSUME MoneyInv, NEW a \in DOMAIN advances, NEW row \in AdvanceRow, RowBecomes(a, row),
         UNCHANGED <<packages, conversions, payouts, advancePolicy, conversionPolicy,
                     withheld, repaid>>,
         advances[a].status \in {"REQUESTED", "APPROVED"}, row.who = advances[a].who,
         row.status \in {"DISBURSED", "REPAID"} => row.owed = row.outstanding,
         AdvanceOK(row),
         \/ UNCHANGED request
         \/ \E h \in Handlers : \E r : /\ Become(h, r) /\ RequestTyped(r, packages, advances)
                                   /\ r.pc \notin {"package", "conversion", "settle", "apply"}
  PROVE  MoneyInv'
<1>1. /\ advances' \in Seq(AdvanceRow) /\ DOMAIN advances' = DOMAIN advances
      /\ advances'[a] = row /\ \A b \in DOMAIN advances \ {a} : advances'[b] = advances[b]
  BY RowTyped DEF MoneyInv, Typed, RowBecomes
<1>2. TypeOK' BY <1>1 DEF MoneyInv, Typed, TypeOK
<1>3. Policies' BY DEF MoneyInv, Typed, Policies
<1>4. Grown(packages, packages', advances, advances') BY <1>1 DEF Grown
<1>5. /\ Requests'
      /\ \/ UNCHANGED request
         \/ \E h \in Handlers : /\ Others(h, request, request')
                                /\ request'[h].pc \notin {"package", "conversion", "settle", "apply"}
  <2>1. CASE UNCHANGED request BY <1>4, <2>1, RequestsStay DEF MoneyInv, Typed
  <2>2. ASSUME NEW h \in Handlers, NEW r, Become(h, r), RequestTyped(r, packages, advances),
               r.pc \notin {"package", "conversion", "settle", "apply"}
        PROVE  /\ Requests' /\ Others(h, request, request')
               /\ request'[h].pc \notin {"package", "conversion", "settle", "apply"}
    <3>1. RequestTyped(r, packages', advances') BY <1>4, <2>2, StaysTyped
    <3> QED BY <1>4, <2>2, <3>1, RequestsMove DEF MoneyInv, Typed
  <2> QED BY <2>1, <2>2
<1>6. Typed' BY <1>2, <1>3, <1>5 DEF Typed
<1>7. Shows' /\ Booked' /\ Bounded' BY <1>5, <1>6, BalancesStay
<1>8. Lent'
  <2>1. \A b \in DOMAIN advances' : AdvanceOK(advances'[b]) BY <1>1 DEF MoneyInv, Lent
  <2>2. row.owed \in Nat /\ row.outstanding \in Nat BY DEF AdvanceRow
  <2>3. \A e : \A b \in DOMAIN advances : Lost(advances', e)[b] = Lost(advances, e)[b]
    BY <1>1, <2>2 DEF Lost
  <2> QED BY <1>1, <1>5, <1>6, <2>1, <2>3, UnsettledLent
<1> QED BY <1>6, <1>7, <1>8 DEF MoneyInv

LEMMA ApproveAdvanceKeeps ==
  ASSUME MoneyInv, NEW h \in Handlers, NEW a \in DOMAIN advances, ApproveAdvance(h, a)
  PROVE  MoneyInv'
<1> DEFINE r == [pc |-> "payAdvance", ref |-> a, amount |-> advances[a].amount]
           row == [advances[a] EXCEPT !.status = "APPROVED"]
<1>1. /\ advances[a].status = "REQUESTED" /\ advances' = [advances EXCEPT ![a].status = "APPROVED"]
      /\ Become(h, r)
      /\ UNCHANGED <<packages, conversions, payouts, advancePolicy, conversionPolicy,
                     withheld, repaid>>
  BY DEF ApproveAdvance
<1>2. advances[a] \in AdvanceRow /\ a \in Nat BY Tables DEF MoneyInv, Typed
<1>3. /\ row \in AdvanceRow /\ row.who = advances[a].who /\ row.status = "APPROVED"
      /\ row.outstanding = advances[a].outstanding /\ row.owed = advances[a].owed
  BY <1>2 DEF AdvanceRow, AdvanceStatus
<1>4. RowBecomes(a, row) BY <1>1 DEF RowBecomes
<1>5. RequestTyped(r, packages, advances) BY <1>2 DEF RequestTyped, AdvanceRow
<1>6. AdvanceOK(row) BY <1>1, <1>3 DEF AdvanceOK, MoneyInv, Lent
<1>7. r.pc = "payAdvance" OBVIOUS
<1> HIDE DEF r, row
<1> QED BY <1>1, <1>3, <1>4, <1>5, <1>6, <1>7, RowKeeps

LEMMA RejectAdvanceKeeps ==
  ASSUME MoneyInv, NEW a \in DOMAIN advances, RejectAdvance(a)
  PROVE  MoneyInv'
<1> DEFINE row == [advances[a] EXCEPT !.status = "REJECTED", !.outstanding = 0]
<1>1. /\ advances[a].status \in {"REQUESTED", "APPROVED"}
      /\ advances' = [advances EXCEPT ![a].status = "REJECTED", ![a].outstanding = 0]
      /\ UNCHANGED <<packages, conversions, payouts, advancePolicy, conversionPolicy,
                     withheld, repaid, request>>
  BY DEF RejectAdvance
<1>2. advances[a] \in AdvanceRow BY Tables DEF MoneyInv, Typed
<1>3. /\ row \in AdvanceRow /\ row.who = advances[a].who /\ row.status = "REJECTED"
      /\ row.outstanding = 0
  BY <1>2 DEF AdvanceRow, AdvanceStatus
<1>4. RowBecomes(a, row) BY <1>1 DEF RowBecomes
<1>5. AdvanceOK(row) BY <1>3 DEF AdvanceOK
<1> HIDE DEF row
<1> QED BY <1>1, <1>3, <1>4, <1>5, RowKeeps

LEMMA MarkAdvanceKeeps ==
  ASSUME MoneyInv, PaidInv, NEW h \in Handlers, MarkAdvanceDisbursed(h)
  PROVE  MoneyInv'
<1> DEFINE q == request[h]
           a == q.ref
           row == [advances[a] EXCEPT !.status = "DISBURSED", !.payment = q.payment]
<1>1. /\ q.pc = "markAdvance" /\ Become(h, Idle)
      /\ UNCHANGED <<packages, conversions, payouts, advancePolicy, conversionPolicy,
                     withheld, repaid>>
  BY DEF MarkAdvanceDisbursed, At
<1>2. a \in DOMAIN advances
  <2>1. "advance" \in Kinds /\ Mark["advance"] = "markAdvance" BY DEF Kinds, Mark
  <2>2. BookOK("advance", AdvanceBook, payouts, request) BY DEF PaidInv
  <2> QED BY <1>1, <2>1, <2>2, Rows DEF BookOK, Working
<1>3. advances[a] \in AdvanceRow BY <1>2, Tables DEF MoneyInv, Typed
<1>4. RequestTyped(Idle, packages, advances) BY IdleTyped
<1>5. Idle.pc = "idle" BY DEF Idle
<1>6. CASE advances[a].status # "APPROVED"
  <2>1. UNCHANGED advances BY <1>6 DEF MarkAdvanceDisbursed
  <2>2. withheld' \in [Employees -> Nat] BY <1>1 DEF MoneyInv, Typed, TypeOK
  <2>3. Typed' /\ Others(h, request, request') /\ request'[h] = Idle
    BY <1>1, <1>4, <2>1, <2>2, ReadTyped DEF MoneyInv
  <2>4. \A f \in Employees :
          Keeping(request', f)[h] - Keeping(request, f)[h] <= withheld'[f] - withheld[f]
    <3>1. \A f : Keeping(request', f)[h] = 0 BY <1>5, <2>3, KeepsNothing
    <3> QED BY <1>1, <3>1, KeepsNat, WithheldNat DEF MoneyInv
  <2> QED BY <1>1, <1>5, <2>1, <2>3, <2>4, QuietRead
<1>7. CASE advances[a].status = "APPROVED"
  <2>1. q.payment \in Nat BY <1>1 DEF MoneyInv, Typed, Requests, RequestTyped
  <2>2. /\ row \in AdvanceRow /\ row.who = advances[a].who /\ row.status = "DISBURSED"
        /\ row.outstanding = advances[a].outstanding /\ row.owed = advances[a].owed
    BY <1>3, <2>1 DEF AdvanceRow, AdvanceStatus
  <2>3. RowBecomes(a, row) BY <1>2, <1>7 DEF RowBecomes, MarkAdvanceDisbursed
  <2>4. row.outstanding = row.owed /\ row.owed > 0
    BY <1>2, <1>7, <2>2 DEF AdvanceOK, MoneyInv, Lent
  <2>5. AdvanceOK(row) BY <2>2, <2>4 DEF AdvanceOK
  <2> HIDE DEF row, a, q
  <2> QED BY <1>1, <1>2, <1>4, <1>5, <1>7, <2>2, <2>3, <2>4, <2>5, RowKeeps
<1> QED BY <1>6, <1>7

LEMMA CreateAdvanceKeeps ==
  ASSUME MoneyInv, NEW h \in Handlers, CreateAdvance(h)
  PROVE  MoneyInv'
<1> DEFINE r == request[h]
           row == [who |-> r.who, amount |-> r.amount, owed |-> r.owed, outstanding |-> r.owed,
                   status |-> r.status, payment |-> Null]
           n == Len(advances) + 1
<1>1. /\ r.pc = "advance" /\ advances' = Append(advances, row) /\ Become(h, Idle)
      /\ UNCHANGED <<packages, conversions, payouts, advancePolicy, conversionPolicy,
                     withheld, repaid>>
  BY DEF CreateAdvance, At
<1>2. /\ r.who \in Employees /\ r.amount \in Nat /\ r.owed \in Nat \ {0}
      /\ r.status \in {"REQUESTED", "APPROVED"}
  BY <1>1 DEF MoneyInv, Typed, Requests, RequestTyped
<1>3. /\ row \in AdvanceRow /\ row.status \in {"REQUESTED", "APPROVED"} /\ AdvanceOK(row)
  BY <1>2 DEF AdvanceRow, AdvanceStatus, Null, AdvanceOK
<1>4. advances \in Seq(AdvanceRow) BY DEF MoneyInv, Typed, TypeOK
<1> HIDE DEF row
<1>5. /\ advances' \in Seq(AdvanceRow) /\ DOMAIN advances' = DOMAIN advances \cup {n}
      /\ n \notin DOMAIN advances /\ advances'[n] = row
      /\ \A a \in DOMAIN advances : advances'[a] = advances[a]
  BY <1>1, <1>3, <1>4, AppendRow
<1> HIDE DEF n
<1>6. Grown(packages, packages', advances, advances') BY <1>1, <1>5 DEF Grown
<1>7. Requests' /\ request'[h] = Idle /\ Others(h, request, request')
  BY <1>1, <1>6, IdleTyped, RequestsMove DEF MoneyInv, Typed
<1>8. Typed'
  <2>1. TypeOK' BY <1>1, <1>5 DEF MoneyInv, Typed, TypeOK
  <2> QED BY <1>1, <1>7, <2>1 DEF MoneyInv, Typed, Policies
<1>9. request'[h].pc = "idle" BY <1>7 DEF Idle
<1>10. Shows' /\ Booked' /\ Bounded' BY <1>1, <1>7, <1>8, <1>9, BalancesStay
<1>11. Lent'
  <2>1. \A a \in DOMAIN advances' : AdvanceOK(advances'[a]) BY <1>3, <1>5 DEF MoneyInv, Lent
  <2>2. \A e : \A a \in DOMAIN advances : Lost(advances', e)[a] = Lost(advances, e)[a]
    BY <1>5 DEF Lost
  <2>3. \A e : \A a \in DOMAIN advances' \ DOMAIN advances : Lost(advances', e)[a] = 0
    BY <1>3, <1>5 DEF Lost
  <2> QED BY <1>1, <1>5, <1>7, <1>8, <1>9, <2>1, <2>2, <2>3, UnsettledLent
<1> QED BY <1>8, <1>10, <1>11 DEF MoneyInv

-----------------------------------------------------------------------------
(* A deduction is spent on the advances of a snapshot, and never exceeded. *)

LEMMA GreatestOf ==
  ASSUME NEW S \in SUBSET Int, IsFiniteSet(S), S # {}
  PROVE  \E m \in S : \A x \in S : x <= m
<1> DEFINE Bad == {T \in SUBSET S : T # {} /\ ~ \E m \in T : \A x \in T : x <= m}
<1>1. {} \notin Bad OBVIOUS
<1>2. ASSUME NEW T \in Bad PROVE \E x \in T : T \ {x} \in Bad
  <2>1. PICK x \in T : TRUE OBVIOUS
  <2>2. T \in SUBSET Int /\ x \in Int OBVIOUS
  <2>3. SUFFICES ASSUME T \ {x} \notin Bad PROVE FALSE BY <2>1
  <2>4. T \ {x} # {} BY <2>1, <2>2
  <2>5. PICK m \in T \ {x} : \A y \in T \ {x} : y <= m BY <2>3, <2>4
  <2>6. m \in Int BY <2>2
  <2>7. CASE x <= m BY <2>5, <2>7
  <2>8. CASE ~ (x <= m)
    <3>1. \A y \in T : y <= x BY <2>2, <2>5, <2>6, <2>8
    <3> QED BY <2>1, <3>1
  <2> QED BY <2>7, <2>8
<1>3. Bad = {}
  <2> HIDE DEF Bad
  <2>1. Bad \in SUBSET SUBSET S BY DEF Bad
  <2> QED BY <1>1, <1>2, <2>1, SubsetInduction
<1>4. S \notin Bad BY <1>3
<1> QED BY <1>4

\* What is applied, as a function of the advance.
Spent(snapshot, deduction) ==
  [a \in DOMAIN snapshot |-> Applied(snapshot, deduction, a)]

LEMMA SpentValue ==
  ASSUME NEW snapshot, DOMAIN snapshot \in SUBSET Int, IsFiniteSet(DOMAIN snapshot),
         \A a \in DOMAIN snapshot : snapshot[a] \in Nat, NEW deduction \in Nat,
         NEW a \in DOMAIN snapshot
  PROVE  LET before == SumFunctionOnSet(snapshot, {b \in DOMAIN snapshot : b < a})
             left   == deduction - before
         IN  /\ before \in Nat
             /\ Spent(snapshot, deduction)[a] =
                  IF left < 0 THEN 0 ELSE IF left <= snapshot[a] THEN left ELSE snapshot[a]
<1> DEFINE B == {b \in DOMAIN snapshot : b < a}
           before == SumFunctionOnSet(snapshot, B)
           left == deduction - before
<1>1. before \in Nat
  <2>1. IsFiniteSet(B) BY FS_Subset
  <2>2. \A b \in B : snapshot[b] \in Nat OBVIOUS
  <2> HIDE DEF B
  <2> QED BY <2>1, <2>2, SumNat
<1>2. Spent(snapshot, deduction)[a] = Max({0, Min({left, snapshot[a]})})
  BY DEF Spent, Applied
<1> HIDE DEF before
<1>3. left \in Int /\ snapshot[a] \in Nat BY <1>1
<1>4. Min({left, snapshot[a]}) = IF left <= snapshot[a] THEN left ELSE snapshot[a]
  BY <1>3, MinOfTwo
<1> DEFINE m == IF left <= snapshot[a] THEN left ELSE snapshot[a]
<1>5. m \in Int BY <1>3
<1>6. Max({0, m}) = IF 0 >= m THEN 0 ELSE m
  <2> HIDE DEF m
  <2> QED BY <1>5, MaxOfTwo
<1>7. Spent(snapshot, deduction)[a] = IF 0 >= m THEN 0 ELSE m BY <1>2, <1>4, <1>6
<1>8. Spent(snapshot, deduction)[a] =
        IF left < 0 THEN 0 ELSE IF left <= snapshot[a] THEN left ELSE snapshot[a]
  BY <1>3, <1>7
<1> QED BY <1>1, <1>8 DEF before

LEMMA SpentBounded ==
  ASSUME NEW snapshot, DOMAIN snapshot \in SUBSET Int, IsFiniteSet(DOMAIN snapshot),
         \A a \in DOMAIN snapshot : snapshot[a] \in Nat, NEW deduction \in Nat
  PROVE  /\ \A a \in DOMAIN snapshot : /\ Spent(snapshot, deduction)[a] \in Nat
                                       /\ Spent(snapshot, deduction)[a] <= snapshot[a]
         /\ SumFunctionOnSet(Spent(snapshot, deduction), DOMAIN snapshot) <= deduction
<1> DEFINE D == DOMAIN snapshot
           P == Spent(snapshot, deduction)
           Under(T) == SumFunctionOnSet(snapshot, T)
           Least(T) == IF Under(T) <= deduction THEN Under(T) ELSE deduction
           Closed(T) == \A x \in T, b \in D : b < x => b \in T
           Bad == {T \in SUBSET D : Closed(T) /\ SumFunctionOnSet(P, T) # Least(T)}
<1>1. \A a \in D : P[a] \in Nat /\ P[a] <= snapshot[a]
  <2> TAKE a \in D
  <2> DEFINE before == SumFunctionOnSet(snapshot, {b \in D : b < a})
             left == deduction - before
  <2>1. /\ before \in Nat
        /\ P[a] = IF left < 0 THEN 0 ELSE IF left <= snapshot[a] THEN left ELSE snapshot[a]
    BY SpentValue
  <2>2. snapshot[a] \in Nat OBVIOUS
  <2> HIDE DEF P, before, D
  <2> QED BY <2>1, <2>2
<1>2. {} \notin Bad
  <2>1. SumFunctionOnSet(P, {}) = 0 /\ Under({}) = 0 BY SumEmpty
  <2> HIDE DEF P, Under
  <2> QED BY <2>1
<1>3. ASSUME NEW T \in Bad PROVE \E x \in T : T \ {x} \in Bad
  <2>1. T \in SUBSET D /\ Closed(T) /\ SumFunctionOnSet(P, T) # Least(T) /\ T # {}
    BY <1>2
  <2>2. IsFiniteSet(T) /\ T \in SUBSET Int BY <2>1, FS_Subset
  <2>3. PICK m \in T : \A x \in T : x <= m BY <2>1, <2>2, GreatestOf
  <2> DEFINE V == T \ {m}
  <2>4. V = {b \in D : b < m}
    <3>1. \A x \in T : x \in Int BY <2>2
    <3>2. \A b \in D : b \in Int OBVIOUS
    <3>3. \A x \in V : x < m BY <2>3, <3>1
    <3>4. \A b \in D : b < m => b \in V BY <2>1, <2>3, <3>2
    <3> QED BY <2>1, <3>3, <3>4
  <2>5. V \in SUBSET D /\ IsFiniteSet(V) BY <2>1, <2>2, FS_RemoveElement
  <2>6. Closed(V)
    <3>1. \A x \in V, b \in D : b < x => b < m
      <4>1. m \in Int /\ \A b \in D : b \in Int BY <2>2
      <4> QED BY <2>4, <2>5, <4>1
    <3> HIDE DEF D
    <3> QED BY <2>4, <3>1
  <2>7. /\ SumFunctionOnSet(P, T) = P[m] + SumFunctionOnSet(P, V)
        /\ Under(T) = snapshot[m] + Under(V)
        /\ SumFunctionOnSet(P, V) \in Nat /\ Under(V) \in Nat /\ snapshot[m] \in Nat
    <3>1. \A x \in T : P[x] \in Int /\ P[x] \in Nat BY <1>1, <2>1
    <3>2. \A x \in T : snapshot[x] \in Int /\ snapshot[x] \in Nat BY <2>1
    <3>3. \A x \in V : P[x] \in Nat /\ snapshot[x] \in Nat BY <3>1, <3>2
    <3>4. snapshot[m] \in Nat BY <3>2
    <3>5. SumFunctionOnSet(P, V) \in Nat
      <4> HIDE DEF P, V
      <4> QED BY <2>5, <3>3, SumNat
    <3>6. SumFunctionOnSet(snapshot, V) \in Nat
      <4> HIDE DEF V
      <4> QED BY <2>5, <3>3, SumNat
    <3>7. SumFunctionOnSet(P, T) = P[m] + SumFunctionOnSet(P, V)
      <4> HIDE DEF P
      <4> QED BY <2>2, <3>1, SumRemove, ZenonT(60)
    <3>8. SumFunctionOnSet(snapshot, T) = snapshot[m] + SumFunctionOnSet(snapshot, V)
      BY <2>2, <3>2, SumRemove, ZenonT(60)
    <3> QED BY <3>4, <3>5, <3>6, <3>7, <3>8
  <2> DEFINE left == deduction - Under(V)
  <2>8. P[m] = IF left < 0 THEN 0 ELSE IF left <= snapshot[m] THEN left ELSE snapshot[m]
    <3>1. m \in D BY <2>1
    <3> QED BY <2>4, <3>1, SpentValue
  <2>9. SumFunctionOnSet(P, V) # Least(V)
    <3> HIDE DEF P, Under, V
    <3> QED BY <2>1, <2>7, <2>8
  <2>10. V \in Bad BY <2>5, <2>6, <2>9
  <2> QED BY <2>10
<1>4. Bad = {}
  <2> HIDE DEF Bad
  <2>1. Bad \in SUBSET SUBSET D BY DEF Bad
  <2> QED BY <1>2, <1>3, <2>1, SubsetInduction
<1>5. SumFunctionOnSet(P, D) = Least(D) BY <1>4
<1>6. Under(D) \in Nat BY SumNat
<1>7. Least(D) <= deduction
  <2> HIDE DEF Under
  <2> QED BY <1>6
<1> QED BY <1>1, <1>5, <1>7

-----------------------------------------------------------------------------
(* A settlement reports what the advances lose. *)

\* What a settlement takes from an advance of the table.
Gain(r) ==
  [a \in DOMAIN advances |-> IF a \in Touched(r) THEN Applied(r.snapshot, r.deduction, a) ELSE 0]

LEMMA RepayingBounded ==
  ASSUME MoneyInv, NEW h \in Handlers, request[h].pc = "apply"
  PROVE  LET r == request[h] IN
         /\ r.who \in Employees /\ r.deduction \in Nat
         /\ Touched(r) \subseteq DOMAIN advances
         /\ \A a \in Touched(r) :
              /\ advances[a].who = r.who /\ r.snapshot[a] \in Nat
              /\ Applied(r.snapshot, r.deduction, a) \in Nat
              /\ Applied(r.snapshot, r.deduction, a) <= r.snapshot[a]
         /\ Repaying(r) \in Nat /\ Repaying(r) <= r.deduction
         /\ SumFunctionOnSet(Gain(r), DOMAIN advances) = Repaying(r)
<1> DEFINE r == request[h]
           D == DOMAIN r.snapshot
           P == Spent(r.snapshot, r.deduction)
           T == Touched(r)
           A == [a \in T |-> Applied(r.snapshot, r.deduction, a)]
<1>1. /\ r.who \in Employees /\ r.deduction \in Nat
      /\ \A a \in D : a \in DOMAIN advances /\ advances[a].who = r.who /\ r.snapshot[a] \in Nat
  BY DEF MoneyInv, Typed, Requests, RequestTyped
<1>2. IsFiniteSet(DOMAIN advances) /\ DOMAIN advances \in SUBSET Int
  BY Tables DEF MoneyInv, Typed
<1>3. IsFiniteSet(D) /\ D \in SUBSET Int /\ D \in SUBSET DOMAIN advances
  BY <1>1, <1>2, FS_Subset
<1>4. /\ \A a \in D : P[a] \in Nat /\ P[a] <= r.snapshot[a]
      /\ SumFunctionOnSet(P, D) <= r.deduction
  BY <1>1, <1>3, SpentBounded
<1>5. \A a \in D : P[a] = Applied(r.snapshot, r.deduction, a) BY DEF Spent
<1>6. T \in SUBSET D /\ T = {a \in D : P[a] > 0} BY <1>5 DEF Touched
<1>7. /\ IsFiniteSet(T) /\ T \in SUBSET DOMAIN advances /\ \A a \in T : A[a] = P[a]
      /\ DOMAIN A = T
  BY <1>3, <1>5, <1>6, FS_Subset
<1>8. Repaying(r) = SumFunctionOnSet(A, T) BY <1>7, SumWhole DEF Repaying
<1>9. SumFunctionOnSet(A, T) = SumFunctionOnSet(P, T)
  <2> HIDE DEF A, T, P
  <2> QED BY <1>7, SumEqual
<1>10. SumFunctionOnSet(P, T) \in Nat /\ SumFunctionOnSet(P, T) <= SumFunctionOnSet(P, D)
  <2>1. \A a \in T : P[a] \in Nat BY <1>4, <1>6
  <2> HIDE DEF T, P, D
  <2> QED BY <1>3, <1>4, <1>6, <1>7, <2>1, SumNat, SumSubset
<1>11. SumFunctionOnSet(P, D) \in Nat
  <2> HIDE DEF P, D
  <2> QED BY <1>3, <1>4, SumNat
<1>12. SumFunctionOnSet(Gain(r), DOMAIN advances) = SumFunctionOnSet(A, T)
  <2>1. \A a \in DOMAIN advances : Gain(r)[a] = IF a \in T THEN A[a] ELSE 0 BY DEF Gain
  <2>2. \A a \in T : A[a] = Gain(r)[a] BY <1>7, <2>1
  <2>3. SumFunctionOnSet(A, T) = SumFunctionOnSet(Gain(r), T)
    <3> HIDE DEF A, T
    <3> QED BY <1>7, <2>2, SumEqual
  <2>4. \A a \in DOMAIN advances :
          Gain(r)[a] \in Int /\ Gain(r)[a] = IF a \in T THEN Gain(r)[a] ELSE 0
    <3>1. \A a \in T : A[a] \in Int BY <1>4, <1>6, <1>7
    <3> HIDE DEF A, T
    <3> QED BY <2>1, <2>2, <3>1
  <2>5. SumFunctionOnSet(Gain(r), T) = SumFunctionOnSet(Gain(r), DOMAIN advances)
    <3> HIDE DEF A, T
    <3> QED BY <1>2, <1>7, <2>4, SumPart
  <2> QED BY <2>3, <2>5
<1>13. \A a \in T : /\ advances[a].who = r.who /\ r.snapshot[a] \in Nat
                    /\ Applied(r.snapshot, r.deduction, a) \in Nat
                    /\ Applied(r.snapshot, r.deduction, a) <= r.snapshot[a]
  BY <1>1, <1>4, <1>5, <1>6
<1>14. Repaying(r) \in Nat /\ Repaying(r) <= r.deduction
  BY <1>1, <1>4, <1>8, <1>9, <1>10, <1>11
<1> QED BY <1>1, <1>7, <1>8, <1>12, <1>13, <1>14

LEMMA ApplyDeductionKeeps ==
  ASSUME MoneyInv, NEW h \in Handlers, ApplyDeduction(h)
  PROVE  MoneyInv'
<1> DEFINE r == request[h]
           e == r.who
           T == Touched(r)
<1>1. /\ r.pc = "apply" /\ Become(h, Idle)
      /\ UNCHANGED <<packages, conversions, payouts, advancePolicy, conversionPolicy, withheld>>
  BY DEF ApplyDeduction, At
<1>2. Idle.pc = "idle" BY DEF Idle
<1>3. CASE UNCHANGED <<advances, repaid>>
  <2>1. withheld' \in [Employees -> Nat] BY <1>1 DEF MoneyInv, Typed, TypeOK
  <2>2. Typed' /\ Others(h, request, request') /\ request'[h] = Idle
    BY <1>1, <1>3, <2>1, IdleTyped, ReadTyped DEF MoneyInv
  <2>3. \A f \in Employees :
          Keeping(request', f)[h] - Keeping(request, f)[h] <= withheld'[f] - withheld[f]
    <3>1. \A f : Keeping(request', f)[h] = 0 BY <1>2, <2>2, KeepsNothing
    <3> QED BY <1>1, <3>1, KeepsNat, WithheldNat DEF MoneyInv
  <2> QED BY <1>1, <1>2, <1>3, <2>2, <2>3, QuietRead
<1>4. CASE /\ \A a \in T : /\ advances[a].status = "DISBURSED"
                           /\ advances[a].outstanding = r.snapshot[a]
           /\ advances' = Settled(r)
           /\ repaid' = [repaid EXCEPT ![e] = @ + Repaying(r)]
  <2>1. /\ e \in Employees /\ r.deduction \in Nat /\ T \subseteq DOMAIN advances
        /\ \A a \in T : /\ advances[a].who = e /\ r.snapshot[a] \in Nat
                        /\ Applied(r.snapshot, r.deduction, a) \in Nat
                        /\ Applied(r.snapshot, r.deduction, a) <= r.snapshot[a]
        /\ Repaying(r) \in Nat /\ Repaying(r) <= r.deduction
        /\ SumFunctionOnSet(Gain(r), DOMAIN advances) = Repaying(r)
    BY <1>1, RepayingBounded
  <2> DEFINE left(a) == r.snapshot[a] - Applied(r.snapshot, r.deduction, a)
  <2>2. /\ DOMAIN advances' = DOMAIN advances
        /\ advances' = [a \in DOMAIN advances |-> advances'[a]]
        /\ \A a \in DOMAIN advances \ T : advances'[a] = advances[a]
        /\ \A a \in T :
             advances'[a] = [advances[a] EXCEPT !.outstanding = left(a),
                                                !.status = IF left(a) = 0 THEN "REPAID" ELSE @]
    BY <1>4, <2>1 DEF Settled
  <2>3. \A a \in DOMAIN advances : advances[a] \in AdvanceRow BY Tables DEF MoneyInv, Typed
  <2>4. \A a \in T : left(a) \in Nat BY <2>1
  <2>5. \A a \in T :
          /\ advances'[a] \in AdvanceRow /\ advances'[a].who = e
          /\ advances'[a].owed = advances[a].owed /\ advances'[a].outstanding = left(a)
          /\ advances'[a].status = IF left(a) = 0 THEN "REPAID" ELSE "DISBURSED"
    <3> TAKE a \in T
    <3>1. left(a) \in Nat BY <2>4
    <3>2. /\ advances'[a] = [advances[a] EXCEPT !.outstanding = left(a),
                                                !.status = IF left(a) = 0 THEN "REPAID" ELSE @]
          /\ advances[a] \in AdvanceRow /\ advances[a].status = "DISBURSED" /\ advances[a].who = e
      BY <1>4, <2>1, <2>2, <2>3
    <3> HIDE DEF left, T, e
    <3> QED BY <3>1, <3>2 DEF AdvanceRow, AdvanceStatus
  <2> HIDE DEF T
  <2>6. \A a \in DOMAIN advances : advances'[a] \in AdvanceRow BY <2>2, <2>3, <2>5
  <2>7. advances' \in Seq(AdvanceRow)
    <3>1. advances \in Seq(AdvanceRow) BY DEF MoneyInv, Typed, TypeOK
    <3> QED BY <2>2, <2>6, <3>1, ReplaceRows
  <2>8. /\ repaid' \in [Employees -> Nat] /\ repaid'[e] = repaid[e] + Repaying(r)
        /\ \A f \in Employees \ {e} : repaid'[f] = repaid[f]
    <3>1. repaid \in [Employees -> Nat] BY DEF MoneyInv, Typed, TypeOK
    <3> HIDE DEF e, r
    <3> QED BY <1>4, <2>1, <3>1
  <2>9. Grown(packages, packages', advances, advances')
    BY <1>1, <2>1, <2>2, <2>5 DEF Grown
  <2>10. Requests' /\ request'[h] = Idle /\ Others(h, request, request')
    BY <1>1, <2>9, IdleTyped, RequestsMove DEF MoneyInv, Typed
  <2>11. Typed'
    <3>1. TypeOK' BY <1>1, <2>7, <2>8 DEF MoneyInv, Typed, TypeOK
    <3> QED BY <1>1, <2>10, <3>1 DEF MoneyInv, Typed, Policies
  <2>12. Shows' /\ Booked' /\ Bounded' BY <1>1, <1>2, <2>10, <2>11, BalancesStay
  <2>13. \A a \in DOMAIN advances' : AdvanceOK(advances'[a])
    <3>1. \A a \in DOMAIN advances : AdvanceOK(advances[a]) BY DEF MoneyInv, Lent
    <3>2. ASSUME NEW a \in T PROVE AdvanceOK(advances'[a])
      <4>1. left(a) \in Nat BY <2>4, <3>2
      <4> HIDE DEF left
      <4> QED BY <2>5, <3>2, <4>1 DEF AdvanceOK
    <3> QED BY <2>2, <3>1, <3>2
  <2>14. ASSUME NEW f \in Employees
         PROVE  /\ SumFunction(Lost(advances', f)) = repaid'[f]
                /\ repaid'[f] + SumFunction(Keeping(request', f)) <= withheld[f]
    <3> DEFINE D == DOMAIN advances
               old == Lost(advances, f)
               new == Lost(advances', f)
    <3>1. IsFiniteSet(D) BY Tables DEF MoneyInv, Typed
    <3>2. DOMAIN old = D /\ \A a \in D : old[a] \in Int BY LostValues DEF MoneyInv, Typed
    <3>3. DOMAIN new = D BY <2>2 DEF Lost
    <3>4. SumFunction(old) = repaid[f] /\ repaid[f] + SumFunction(Keeping(request, f)) <= withheld[f]
      BY DEF MoneyInv, Lent
    <3>5. /\ SumFunction(Keeping(request', f)) =
               SumFunction(Keeping(request, f)) - Keeping(request, f)[h] + Keeping(request', f)[h]
          /\ Keeping(request, f)[h] \in Nat /\ SumFunction(Keeping(request, f)) \in Nat
      BY <2>10, <2>11, KeepingMoves DEF MoneyInv
    <3>6. Keeping(request', f)[h] = 0 BY <1>2, <2>10, KeepsNothing
    <3>7. repaid[f] \in Nat /\ withheld[f] \in Nat BY DEF MoneyInv, Typed, TypeOK
    <3>8. CASE f = e
      <4>1. Keeping(request, f)[h] = r.deduction BY <1>1, <3>8 DEF Keeping
      <4>2. \A a \in D : Gain(r)[a] \in Int /\ new[a] = old[a] + Gain(r)[a]
        <5> TAKE a \in D
        <5>1. CASE a \in T
          <6>1. /\ Gain(r)[a] = Applied(r.snapshot, r.deduction, a)
                /\ new[a] = advances[a].owed - left(a)
                /\ old[a] = advances[a].owed - r.snapshot[a]
            BY <1>4, <2>1, <2>2, <2>5, <3>8, <5>1 DEF Gain, Lost, T
          <6>2. advances[a].owed \in Nat BY <2>3 DEF AdvanceRow
          <6> QED BY <2>1, <5>1, <6>1, <6>2
        <5>2. CASE a \notin T
          <6>1. Gain(r)[a] = 0 BY <5>2 DEF Gain, T
          <6>2. new[a] = old[a] BY <2>2, <5>2 DEF Lost
          <6> QED BY <3>2, <6>1, <6>2
        <5> QED BY <5>1, <5>2
      <4>3. SumFunctionOnSet(new, D) = SumFunctionOnSet(old, D) + SumFunctionOnSet(Gain(r), D)
        <5> HIDE DEF new, old, D, r
        <5> QED BY <3>1, <3>2, <4>2, SumPlus
      <4>4. SumFunction(new) = repaid[f] + Repaying(r)
        BY <2>1, <3>2, <3>3, <3>4, <4>3, SumWhole
      <4> HIDE DEF new, old, r
      <4> QED BY <2>1, <2>8, <3>4, <3>5, <3>6, <3>7, <3>8, <4>1, <4>4 DEF new
    <3>9. CASE f # e
      <4>1. \A a \in D : new[a] = old[a] BY <2>1, <2>2, <2>5, <3>9 DEF Lost
      <4>2. SumFunctionOnSet(new, D) = SumFunctionOnSet(old, D)
        <5> HIDE DEF new, old, D
        <5> QED BY <3>1, <4>1, SumEqual
      <4>3. SumFunction(new) = SumFunction(old) BY <3>2, <3>3, <4>2, SumWhole
      <4> HIDE DEF new, old, e, r
      <4> QED BY <2>8, <3>4, <3>5, <3>6, <3>7, <3>9, <4>3 DEF new
    <3> QED BY <3>8, <3>9
  <2>15. Lent' BY <1>1, <2>13, <2>14 DEF Lent
  <2> QED BY <2>11, <2>12, <2>15 DEF MoneyInv
<1> QED BY <1>3, <1>4 DEF ApplyDeduction

-----------------------------------------------------------------------------
(* The payouts. *)

LEMMA PayoutTyped ==
  ASSUME MoneyInv, NEW h \in Handlers, NEW row \in PayoutRow, NEW next,
         payouts' = Append(payouts, row), Become(h, next),
         RequestTyped(next, packages, advances),
         UNCHANGED <<packages, advances, conversions, advancePolicy, conversionPolicy, repaid>>,
         withheld' \in [Employees -> Nat]
  PROVE  Typed' /\ request'[h] = next /\ Others(h, request, request')
<1>1. payouts \in Seq(PayoutRow) BY DEF MoneyInv, Typed, TypeOK
<1>2. payouts' \in Seq(PayoutRow) BY <1>1, AppendRow
<1>3. TypeOK' BY <1>2 DEF MoneyInv, Typed, TypeOK
<1>4. Requests' /\ request'[h] = next /\ Others(h, request, request')
  BY NotGrown, RequestsMove DEF MoneyInv, Typed
<1> QED BY <1>3, <1>4 DEF MoneyInv, Typed, Policies

LEMMA PaymentId ==
  ASSUME TypeOK PROVE Len(payouts) + 1 \in Nat
<1>1. payouts \in Seq(PayoutRow) BY DEF TypeOK
<1> QED BY <1>1

LEMMA PayAdvanceKeeps ==
  ASSUME MoneyInv, NEW h \in Handlers, PayAdvance(h) \/ PayConversion(h)
  PROVE  MoneyInv'
<1> DEFINE r == request[h]
           n == Len(payouts) + 1
           kind == IF r.pc = "payAdvance" THEN "advance" ELSE "conversion"
           next == [pc |-> IF r.pc = "payAdvance" THEN "markAdvance" ELSE "markConversion",
                    ref |-> r.ref, payment |-> n]
           row == [kind |-> kind, ref |-> r.ref, amount |-> r.amount]
<1>1. /\ r.pc \in {"payAdvance", "payConversion"}
      /\ payouts' = Append(payouts, row) /\ Become(h, next)
      /\ UNCHANGED <<packages, advances, conversions, advancePolicy, conversionPolicy,
                     repaid, withheld>>
  BY DEF PayAdvance, PayConversion, Payout, At
<1>2. r.ref \in Nat /\ r.amount \in Nat
  BY <1>1 DEF MoneyInv, Typed, Requests, RequestTyped
<1>3. row \in PayoutRow BY <1>2 DEF PayoutRow
<1>4. n \in Nat BY PaymentId DEF MoneyInv, Typed
<1>5. RequestTyped(next, packages, advances)
  <2> HIDE DEF n
  <2> QED BY <1>4 DEF RequestTyped
<1>6. withheld' \in [Employees -> Nat] BY <1>1 DEF MoneyInv, Typed, TypeOK
<1>7. next.pc \in {"markAdvance", "markConversion"} OBVIOUS
<1> HIDE DEF row, next, r
<1>8. Typed' /\ request'[h] = next /\ Others(h, request, request')
  BY <1>1, <1>3, <1>5, <1>6, PayoutTyped
<1>9. \A f \in Employees :
        Keeping(request', f)[h] - Keeping(request, f)[h] <= withheld'[f] - withheld[f]
  <2>1. \A f : Keeping(request', f)[h] = 0 BY <1>7, <1>8, KeepsNothing
  <2> QED BY <1>1, <2>1, KeepsNat, WithheldNat DEF MoneyInv
<1> QED BY <1>1, <1>7, <1>8, <1>9, QuietRead

LEMMA PaySalaryKeeps ==
  ASSUME MoneyInv, NEW h \in Handlers, PaySalary(h)
  PROVE  MoneyInv'
<1> DEFINE r == request[h]
           e == r.who
           next == [pc |-> "settle", who |-> e, deduction |-> r.deduction]
           row == [kind |-> "salary", ref |-> e, amount |-> r.amount]
<1>1. /\ r.pc = "paySalary" /\ payouts' = Append(payouts, row) /\ Become(h, next)
      /\ withheld' = [withheld EXCEPT ![e] = @ + r.deduction]
      /\ UNCHANGED <<packages, advances, conversions, advancePolicy, conversionPolicy, repaid>>
  BY DEF PaySalary, Payout, At
<1>2. e \in Employees /\ r.amount \in Nat /\ r.deduction \in Nat
  BY <1>1 DEF MoneyInv, Typed, Requests, RequestTyped
<1>3. row \in PayoutRow BY <1>2 DEF PayoutRow
<1>4. RequestTyped(next, packages, advances) BY <1>2 DEF RequestTyped
<1>5. withheld \in [Employees -> Nat] BY DEF MoneyInv, Typed, TypeOK
<1>6. /\ withheld' \in [Employees -> Nat]
      /\ \A f \in Employees :
           withheld'[f] = IF f = e THEN withheld[f] + r.deduction ELSE withheld[f]
  <2> HIDE DEF r, e
  <2> QED BY <1>1, <1>2, <1>5
<1>7. next.pc = "settle" /\ next.who = e /\ next.deduction = r.deduction OBVIOUS
<1> HIDE DEF row, next
<1>8. Typed' /\ request'[h] = next /\ Others(h, request, request')
  BY <1>1, <1>3, <1>4, <1>6, PayoutTyped
<1>9. \A f \in Employees :
        Keeping(request', f)[h] - Keeping(request, f)[h] <= withheld'[f] - withheld[f]
  <2>1. \A f : Keeping(request, f)[h] = 0 BY <1>1, KeepsNothing
  <2>2. \A f : Keeping(request', f)[h] = IF f = e THEN r.deduction ELSE 0
    BY <1>7, <1>8 DEF Keeping
  <2>3. \A f \in Employees : withheld[f] \in Nat BY <1>5
  <2> HIDE DEF r, e
  <2> QED BY <1>2, <1>6, <2>1, <2>2, <2>3
<1> QED BY <1>1, <1>7, <1>8, <1>9, QuietRead

LEMMA PoliciesKeep ==
  ASSUME MoneyInv, SetAdvancePolicy \/ SetConversionPolicy
  PROVE  MoneyInv'
<1>1. UNCHANGED <<packages, advances, conversions, payouts, request, withheld, repaid>>
  BY DEF SetAdvancePolicy, SetConversionPolicy, rows
<1>2. Policies'
  BY PayrollAssumption DEF SetAdvancePolicy, SetConversionPolicy, MoneyInv, Typed, Policies
<1>3. Typed'
  <2>1. Requests' BY <1>1, NotGrown, RequestsStay DEF MoneyInv, Typed
  <2> QED BY <1>1, <1>2, <2>1 DEF MoneyInv, Typed, TypeOK
<1> QED BY <1>1, <1>3 DEF MoneyInv, Shows, Booked, Bounded, Lent

LEMMA StutterKeeps ==
  ASSUME MoneyInv, UNCHANGED vars PROVE MoneyInv'
<1>1. UNCHANGED <<packages, advances, conversions, payouts, request, withheld, repaid,
                  advancePolicy, conversionPolicy>>
  BY DEF vars, rows
<1>2. Requests' BY <1>1, NotGrown, RequestsStay DEF MoneyInv, Typed
<1> QED BY <1>1, <1>2 DEF MoneyInv, Typed, TypeOK, Policies, Shows, Booked, Bounded, Lent

-----------------------------------------------------------------------------
(* The conversions. *)

LEMMA ShareTyped ==
  ASSUME NEW book \in Seq(ConversionRow), NEW e, NEW k
  PROVE  /\ DOMAIN Share(book, e, k) = DOMAIN book /\ IsFiniteSet(DOMAIN book)
         /\ \A c \in DOMAIN book : Share(book, e, k)[c] \in Nat
         /\ SumFunction(Share(book, e, k)) \in Nat
         /\ SumFunction(Share(book, e, k)) = SumFunctionOnSet(Share(book, e, k), DOMAIN book)
<1>1. DOMAIN book = 1 .. Len(book) /\ Len(book) \in Nat /\ \A c \in DOMAIN book : book[c] \in ConversionRow
  OBVIOUS
<1>2. IsFiniteSet(DOMAIN book) BY <1>1, FS_Interval
<1>3. DOMAIN Share(book, e, k) = DOMAIN book BY DEF Share
<1>4. \A c \in DOMAIN book : Share(book, e, k)[c] \in Nat BY <1>1 DEF Share, ConversionRow
<1> QED BY <1>2, <1>3, <1>4, SumWhole, SumNat

\* The balances change as the conversions do.
LEMMA BookedFollows ==
  ASSUME MoneyInv, conversions' \in Seq(ConversionRow),
         \A e \in Employees :
           /\ DOMAIN packages'[e] = DOMAIN packages[e]
           /\ \A k \in DOMAIN packages[e] :
                packages'[e][k].converted - packages[e][k].converted =
                  SumFunction(Share(conversions', e, k)) - SumFunction(Share(conversions, e, k)),
         \A e \in Employees : \A k \in DOMAIN packages[e] : packages'[e][k].converted \in Int,
         \A c \in DOMAIN conversions' :
           /\ conversions'[c].who \in Employees
           /\ conversions'[c].item \in DOMAIN packages[conversions'[c].who]
  PROVE  /\ Booked'
         /\ \A e \in Employees : \A k \in DOMAIN packages[e] : packages'[e][k].converted \in Nat
<1>1. ASSUME NEW e \in Employees, NEW k \in DOMAIN packages[e]
      PROVE  /\ packages'[e][k].converted = SumFunction(Share(conversions', e, k))
             /\ packages'[e][k].converted \in Nat
  <2>1. packages[e][k].converted = SumFunction(Share(conversions, e, k))
    BY DEF MoneyInv, Booked
  <2>2. SumFunction(Share(conversions', e, k)) \in Nat BY ShareTyped
  <2>3. packages[e][k].converted \in Nat BY BalanceTyped DEF MoneyInv, Typed
  <2> QED BY <2>1, <2>2, <2>3
<1>2. Booked' BY <1>1 DEF Booked
<1> QED BY <1>1, <1>2

LEMMA Reserved ==
  ASSUME TypeOK, NEW e \in Employees, NEW k \in DOMAIN packages[e], NEW amount \in Int,
         packages' = Reserve(e, k, amount)
  PROVE  /\ \A f \in Employees :
              /\ DOMAIN packages'[f] = DOMAIN packages[f]
              /\ Shown(packages'[f]) = Shown(packages[f])
              /\ Len(packages'[f]) = Len(packages[f])
              /\ packages'[f] # << >> => packages[f] # << >>
              /\ packages[f] # << >> => packages'[f] # << >>
              /\ \A j \in DOMAIN packages[f] :
                   /\ packages'[f][j].open = packages[f][j].open
                   /\ packages'[f][j].notional = packages[f][j].notional
                   /\ packages'[f][j].converted \in Int
                   /\ packages'[f][j].converted =
                        packages[f][j].converted + (IF f = e /\ j = k THEN amount ELSE 0)
         /\ (\A f \in Employees : \A j \in DOMAIN packages[f] : packages'[f][j].converted \in Nat)
              => packages' \in [Employees -> Seq(PackageRow)]
<1>1. packages \in [Employees -> Seq(PackageRow)] BY DEF TypeOK
<1>2. \A f \in Employees :
        /\ packages[f] \in Seq(PackageRow) /\ DOMAIN packages[f] = 1 .. Len(packages[f])
        /\ \A j \in DOMAIN packages[f] : packages[f][j] \in PackageRow
  BY Tables
<1>3. packages[e][k] \in PackageRow BY <1>2
<1> DEFINE row == [packages[e][k] EXCEPT !.converted = @ + amount]
<1>4. /\ row.open = packages[e][k].open /\ row.notional = packages[e][k].notional
      /\ row.base = packages[e][k].base /\ row.converted = packages[e][k].converted + amount
      /\ row = [open |-> row.open, base |-> row.base, notional |-> row.notional,
                converted |-> row.converted]
  BY <1>3 DEF PackageRow
<1>5. /\ packages' = [f \in Employees |-> packages'[f]]
      /\ packages'[e] = [packages[e] EXCEPT ![k] = row]
      /\ \A f \in Employees \ {e} : packages'[f] = packages[f]
  BY <1>1 DEF Reserve
<1> HIDE DEF row
<1>6. /\ DOMAIN packages'[e] = DOMAIN packages[e] /\ packages'[e][k] = row
      /\ \A j \in DOMAIN packages[e] \ {k} : packages'[e][j] = packages[e][j]
      /\ packages'[e] = [j \in DOMAIN packages[e] |-> packages'[e][j]]
  BY <1>5
<1>7. \A f \in Employees : \A j \in DOMAIN packages[f] :
        packages[f][j].converted \in Int
  BY <1>2 DEF PackageRow
<1>8. ASSUME NEW f \in Employees, NEW j \in DOMAIN packages[f]
      PROVE  /\ packages'[f][j].open = packages[f][j].open
             /\ packages'[f][j].notional = packages[f][j].notional
             /\ packages'[f][j].converted =
                  packages[f][j].converted + (IF f = e /\ j = k THEN amount ELSE 0)
             /\ packages'[f][j].converted \in Int
  <2>1. CASE f = e /\ j = k BY <1>4, <1>6, <1>7, <2>1
  <2>2. CASE ~ (f = e /\ j = k)
    <3>1. packages'[f][j] = packages[f][j] BY <1>5, <1>6, <2>2
    <3> QED BY <1>7, <2>2, <3>1
  <2> QED BY <2>1, <2>2
<1>9. ASSUME NEW f \in Employees
      PROVE  DOMAIN packages'[f] = DOMAIN packages[f] /\ Len(packages'[f]) = Len(packages[f])
  <2>1. CASE f = e
    <3>1. packages'[e] \in Seq({packages'[e][j] : j \in DOMAIN packages[e]})
      BY <1>2, <1>6, ReplaceRows
    <3> QED BY <1>2, <1>6, <2>1, <3>1
  <2>2. CASE f # e BY <1>5, <2>2
  <2> QED BY <2>1, <2>2
<1>10. \A f \in Employees : Shown(packages'[f]) = Shown(packages[f])
  BY <1>8, <1>9 DEF Shown
<1>11. \A f \in Employees : packages'[f] # << >> <=> packages[f] # << >>
  <2> TAKE f \in Employees
  <2>1. CASE f = e
    <3>1. packages[e] # << >> BY <1>2
    <3>2. packages'[e] # << >> BY <1>6
    <3> QED BY <2>1, <3>1, <3>2
  <2>2. CASE f # e BY <1>5, <2>2
  <2> QED BY <2>1, <2>2
<1>12. ASSUME \A f \in Employees : \A j \in DOMAIN packages[f] : packages'[f][j].converted \in Nat
       PROVE  packages' \in [Employees -> Seq(PackageRow)]
  <2>1. row \in PackageRow BY <1>3, <1>4, <1>6, <1>12 DEF PackageRow
  <2>2. packages'[e] \in Seq(PackageRow) BY <1>2, <1>5, <2>1
  <2> QED BY <1>2, <1>5, <2>2
<1> QED BY <1>8, <1>9, <1>10, <1>11, <1>12

\* One row of the conversions becomes another.
ConversionBecomes(c, row) ==
  /\ conversions' = [d \in DOMAIN conversions |-> conversions'[d]] /\ conversions'[c] = row
  /\ \A d \in DOMAIN conversions \ {c} : conversions'[d] = conversions[d]

LEMMA ConversionTyped ==
  ASSUME TypeOK, NEW c \in DOMAIN conversions, NEW row \in ConversionRow, ConversionBecomes(c, row)
  PROVE  conversions' \in Seq(ConversionRow) /\ DOMAIN conversions' = DOMAIN conversions
<1>1. \A d \in DOMAIN conversions : conversions'[d] \in ConversionRow
  BY Tables DEF ConversionBecomes
<1>2. conversions \in Seq(ConversionRow) BY DEF TypeOK
<1> QED BY <1>1, <1>2, ReplaceRows DEF ConversionBecomes

\* A conversion moves on without being rejected: it reserves what it did.
LEMMA ConversionRowKeeps ==
  ASSUME MoneyInv, NEW c \in DOMAIN conversions, NEW row \in ConversionRow,
         ConversionBecomes(c, row),
         UNCHANGED <<packages, advances, payouts, advancePolicy, conversionPolicy,
                     withheld, repaid>>,
         row.who = conversions[c].who, row.item = conversions[c].item,
         row.notional = conversions[c].notional,
         conversions[c].status # "REJECTED", row.status # "REJECTED",
         NEW h \in Handlers, NEW r, Become(h, r), RequestTyped(r, packages, advances),
         r.pc \notin {"package", "conversion", "settle", "apply"}
  PROVE  MoneyInv'
<1>1. /\ conversions' \in Seq(ConversionRow) /\ DOMAIN conversions' = DOMAIN conversions
      /\ conversions'[c] = row
      /\ \A d \in DOMAIN conversions \ {c} : conversions'[d] = conversions[d]
  BY ConversionTyped DEF MoneyInv, Typed, ConversionBecomes
<1>2. Requests' /\ request'[h] = r /\ Others(h, request, request')
  BY NotGrown, RequestsMove DEF MoneyInv, Typed
<1>3. Typed' BY <1>1, <1>2 DEF MoneyInv, Typed, TypeOK, Policies
<1>4. Shows' BY <1>2, SamePackages, ShowsStay DEF MoneyInv
<1>5. Bounded' BY <1>2, <1>3, BoundedStays DEF MoneyInv
<1>6. Lent'
  <2>1. \A f : Keeping(request', f)[h] = 0 BY <1>2, KeepsNothing
  <2>2. \A f \in Employees :
          Keeping(request', f)[h] - Keeping(request, f)[h] <= withheld'[f] - withheld[f]
    BY <2>1, KeepsNat, WithheldNat DEF MoneyInv
  <2> QED BY <1>2, <1>3, <2>2, LentStays DEF MoneyInv
<1>7. Booked'
  <2>1. \A d \in DOMAIN conversions : conversions[d].item \in DOMAIN packages[conversions[d].who]
    BY DEF MoneyInv, Booked
  <2>2. ASSUME NEW e \in Employees, NEW k \in DOMAIN packages[e]
        PROVE  packages[e][k].converted = SumFunction(Share(conversions', e, k))
    <3>1. Share(conversions', e, k) = Share(conversions, e, k) BY <1>1 DEF Share
    <3> QED BY <3>1 DEF MoneyInv, Booked
  <2> QED BY <1>1, <2>1, <2>2 DEF Booked
<1> QED BY <1>3, <1>4, <1>5, <1>6, <1>7 DEF MoneyInv

LEMMA ApproveConversionKeeps ==
  ASSUME MoneyInv, NEW h \in Handlers, NEW c \in DOMAIN conversions, ApproveConversion(h, c)
  PROVE  MoneyInv'
<1> DEFINE r == [pc |-> "payConversion", ref |-> c, amount |-> conversions[c].net]
           row == [conversions[c] EXCEPT !.status = "APPROVED"]
<1>1. /\ conversions[c].status = "REQUESTED"
      /\ conversions' = [conversions EXCEPT ![c].status = "APPROVED"] /\ Become(h, r)
      /\ UNCHANGED <<packages, advances, payouts, advancePolicy, conversionPolicy,
                     withheld, repaid>>
  BY DEF ApproveConversion
<1>2. conversions[c] \in ConversionRow /\ c \in Nat BY Tables DEF MoneyInv, Typed
<1>3. /\ row \in ConversionRow /\ row.who = conversions[c].who /\ row.status = "APPROVED"
      /\ row.item = conversions[c].item /\ row.notional = conversions[c].notional
  BY <1>2 DEF ConversionRow, ConversionStatus
<1>4. ConversionBecomes(c, row) BY <1>1 DEF ConversionBecomes
<1>5. RequestTyped(r, packages, advances) BY <1>2 DEF RequestTyped, ConversionRow
<1>6. r.pc = "payConversion" OBVIOUS
<1> HIDE DEF r, row
<1> QED BY <1>1, <1>3, <1>4, <1>5, <1>6, ConversionRowKeeps

LEMMA MarkConversionKeeps ==
  ASSUME MoneyInv, PaidInv, NEW h \in Handlers, MarkConversionDisbursed(h)
  PROVE  MoneyInv'
<1> DEFINE q == request[h]
           c == q.ref
           row == [conversions[c] EXCEPT !.status = "DISBURSED", !.payment = q.payment]
<1>1. /\ q.pc = "markConversion" /\ Become(h, Idle)
      /\ UNCHANGED <<packages, advances, payouts, advancePolicy, conversionPolicy,
                     withheld, repaid>>
  BY DEF MarkConversionDisbursed, At
<1>2. c \in DOMAIN conversions
  <2>1. "conversion" \in Kinds /\ Mark["conversion"] = "markConversion" BY DEF Kinds, Mark
  <2>2. BookOK("conversion", ConversionBook, payouts, request) BY DEF PaidInv
  <2> QED BY <1>1, <2>1, <2>2, Rows DEF BookOK, Working
<1>3. conversions[c] \in ConversionRow BY <1>2, Tables DEF MoneyInv, Typed
<1>4. RequestTyped(Idle, packages, advances) BY IdleTyped
<1>5. Idle.pc = "idle" BY DEF Idle
<1>6. CASE conversions[c].status # "APPROVED"
  <2>1. UNCHANGED conversions BY <1>6 DEF MarkConversionDisbursed
  <2>2. withheld' \in [Employees -> Nat] BY <1>1 DEF MoneyInv, Typed, TypeOK
  <2>3. Typed' /\ Others(h, request, request') /\ request'[h] = Idle
    BY <1>1, <1>4, <2>1, <2>2, ReadTyped DEF MoneyInv
  <2>4. \A f \in Employees :
          Keeping(request', f)[h] - Keeping(request, f)[h] <= withheld'[f] - withheld[f]
    <3>1. \A f : Keeping(request', f)[h] = 0 BY <1>5, <2>3, KeepsNothing
    <3> QED BY <1>1, <3>1, KeepsNat, WithheldNat DEF MoneyInv
  <2> QED BY <1>1, <1>5, <2>1, <2>3, <2>4, QuietRead
<1>7. CASE conversions[c].status = "APPROVED"
  <2>1. q.payment \in Nat BY <1>1 DEF MoneyInv, Typed, Requests, RequestTyped
  <2>2. /\ row \in ConversionRow /\ row.who = conversions[c].who /\ row.status = "DISBURSED"
        /\ row.item = conversions[c].item /\ row.notional = conversions[c].notional
    BY <1>3, <2>1 DEF ConversionRow, ConversionStatus
  <2>3. ConversionBecomes(c, row) BY <1>2, <1>7 DEF ConversionBecomes, MarkConversionDisbursed
  <2> HIDE DEF row, c, q
  <2> QED BY <1>1, <1>2, <1>4, <1>5, <1>7, <2>2, <2>3, ConversionRowKeeps
<1> QED BY <1>6, <1>7

\* The flip and the release move the balance with the rows.
LEMMA RejectConversionKeeps ==
  ASSUME MoneyInv, NEW c \in DOMAIN conversions, RejectConversion(c)
  PROVE  MoneyInv'
<1> DEFINE row == [conversions[c] EXCEPT !.status = "REJECTED"]
           w == conversions[c].who
           i == conversions[c].item
           m == -conversions[c].notional
<1>1. /\ conversions[c].status \in {"REQUESTED", "APPROVED"}
      /\ conversions' = [conversions EXCEPT ![c].status = "REJECTED"]
      /\ packages' = Reserve(w, i, m)
      /\ UNCHANGED <<advances, payouts, advancePolicy, conversionPolicy, request,
                     withheld, repaid>>
  BY DEF RejectConversion
<1>2. conversions[c] \in ConversionRow /\ conversions \in Seq(ConversionRow)
  BY Tables DEF MoneyInv, Typed, TypeOK
<1>3. /\ row \in ConversionRow /\ row.who = w /\ row.status = "REJECTED"
      /\ row.item = i /\ row.notional = conversions[c].notional
      /\ w \in Employees /\ i \in DOMAIN packages[w] /\ m \in Int
      /\ conversions[c].notional \in Nat
  <2>1. /\ row \in ConversionRow /\ row.who = w /\ row.status = "REJECTED"
        /\ row.item = i /\ row.notional = conversions[c].notional
    BY <1>2 DEF ConversionRow, ConversionStatus
  <2>2. w \in Employees /\ conversions[c].notional \in Nat BY <1>2 DEF ConversionRow
  <2>3. i \in DOMAIN packages[w] BY DEF MoneyInv, Booked
  <2>4. m \in Int BY <2>2
  <2> QED BY <2>1, <2>2, <2>3, <2>4
<1>4. ConversionBecomes(c, row) BY <1>1 DEF ConversionBecomes
<1> HIDE DEF row
<1>5. /\ conversions' \in Seq(ConversionRow) /\ DOMAIN conversions' = DOMAIN conversions
      /\ conversions'[c] = row
      /\ \A d \in DOMAIN conversions \ {c} : conversions'[d] = conversions[d]
  BY <1>3, <1>4, ConversionTyped DEF MoneyInv, Typed, ConversionBecomes
<1>6. /\ \A f \in Employees :
           /\ DOMAIN packages'[f] = DOMAIN packages[f]
           /\ Shown(packages'[f]) = Shown(packages[f])
           /\ Len(packages'[f]) = Len(packages[f])
           /\ packages'[f] # << >> => packages[f] # << >>
           /\ packages[f] # << >> => packages'[f] # << >>
           /\ \A j \in DOMAIN packages[f] :
                /\ packages'[f][j].open = packages[f][j].open
                /\ packages'[f][j].notional = packages[f][j].notional
                /\ packages'[f][j].converted \in Int
                /\ packages'[f][j].converted =
                     packages[f][j].converted + (IF f = w /\ j = i THEN m ELSE 0)
      /\ (\A f \in Employees : \A j \in DOMAIN packages[f] : packages'[f][j].converted \in Nat)
           => packages' \in [Employees -> Seq(PackageRow)]
  <2> HIDE DEF w, i, m
  <2> QED BY <1>1, <1>3, Reserved DEF MoneyInv, Typed
<1>7. ASSUME NEW e \in Employees, NEW k \in DOMAIN packages[e]
      PROVE  SumFunction(Share(conversions', e, k)) =
               SumFunction(Share(conversions, e, k)) + (IF e = w /\ k = i THEN m ELSE 0)
  <2> DEFINE D == DOMAIN conversions
             old == Share(conversions, e, k)
             new == Share(conversions', e, k)
  <2>1. /\ IsFiniteSet(D) /\ \A d \in D : old[d] \in Int
        /\ SumFunction(old) = SumFunctionOnSet(old, D) /\ SumFunction(old) \in Int
    BY <1>2, ShareTyped
  <2>2. /\ \A d \in D : new[d] \in Int
        /\ SumFunction(new) = SumFunctionOnSet(new, D)
    BY <1>5, ShareTyped
  <2>3. \A d \in D \ {c} : new[d] = old[d] BY <1>5 DEF Share
  <2>4. new[c] = 0 BY <1>3, <1>5 DEF Share
  <2>5. old[c] = -(IF e = w /\ k = i THEN m ELSE 0)
    <3>1. conversions[c].status # "REJECTED" BY <1>1
    <3>2. - m = conversions[c].notional BY <1>3
    <3>3. old[c] = IF e = w /\ k = i THEN conversions[c].notional ELSE 0 BY <3>1 DEF Share
    <3> HIDE DEF old, m
    <3> QED BY <3>2, <3>3
  <2>6. SumFunctionOnSet(new, D) = SumFunctionOnSet(old, D) - old[c] + new[c]
    <3> HIDE DEF new, old
    <3> QED BY <2>1, <2>2, <2>3, SumChange
  <2> HIDE DEF new, old, m, w, i
  <2> QED BY <1>3, <2>1, <2>2, <2>4, <2>5, <2>6 DEF new, old
<1> HIDE DEF m, w, i
<1>8. /\ Booked'
      /\ \A e \in Employees : \A k \in DOMAIN packages[e] : packages'[e][k].converted \in Nat
  <2>1. ASSUME NEW e \in Employees, NEW k \in DOMAIN packages[e]
        PROVE  packages'[e][k].converted - packages[e][k].converted =
                 SumFunction(Share(conversions', e, k)) - SumFunction(Share(conversions, e, k))
    <3>1. SumFunction(Share(conversions, e, k)) \in Nat BY <1>2, ShareTyped
    <3>2. packages[e][k].converted \in Nat BY BalanceTyped DEF MoneyInv, Typed
    <3>3. (IF e = w /\ k = i THEN m ELSE 0) \in Int BY <1>3
    <3> QED BY <1>6, <1>7, <3>1, <3>2, <3>3
  <2>2. \A d \in DOMAIN conversions' :
          /\ conversions'[d].who \in Employees
          /\ conversions'[d].item \in DOMAIN packages[conversions'[d].who]
    <3>1. \A d \in DOMAIN conversions : conversions[d] \in ConversionRow
      BY Tables DEF MoneyInv, Typed
    <3>2. \A d \in DOMAIN conversions : conversions[d].item \in DOMAIN packages[conversions[d].who]
      BY DEF MoneyInv, Booked
    <3> QED BY <1>3, <1>5, <3>1, <3>2 DEF ConversionRow
  <2> QED BY <1>5, <1>6, <2>1, <2>2, BookedFollows
<1>9. Typed'
  <2>1. TypeOK' BY <1>1, <1>5, <1>6, <1>8 DEF MoneyInv, Typed, TypeOK
  <2>2. Grown(packages, packages', advances, advances') BY <1>1, <1>6 DEF Grown
  <2>3. Requests' BY <1>1, <2>2, RequestsStay DEF MoneyInv, Typed
  <2> QED BY <1>1, <2>1, <2>3 DEF MoneyInv, Typed, Policies
<1>10. Shows'
  <2> SUFFICES ASSUME NEW f \in Employees PROVE PackagesOK(packages'[f], request, f)
    BY <1>1 DEF Shows
  <2>1. PackagesOK(packages[f], request, f) BY DEF MoneyInv, Shows
  <2>2. \A Q : Unseen(packages'[f], request, Q) = Unseen(packages[f], request, Q)
    BY <1>6 DEF Unseen
  <2>3. packages'[f] # << >> => packages'[f][Len(packages'[f])].open
    <3>1. packages[f] # << >> => Len(packages[f]) \in DOMAIN packages[f]
      <4>1. packages[f] \in Seq(PackageRow) BY Tables DEF MoneyInv, Typed
      <4> QED BY <4>1
    <3> QED BY <1>6, <2>1, <3>1 DEF PackagesOK
  <2> QED BY <2>1, <2>2, <2>3 DEF PackagesOK
<1>11. Bounded'
  <2> SUFFICES ASSUME NEW e \in Employees, NEW k \in DOMAIN packages[e]
               PROVE  packages'[e][k].converted + SumFunction(Flight(request, e, k))
                        <= Cardinality(Handlers) * packages'[e][k].notional
    BY <1>1, <1>6 DEF Bounded
  <2>1. packages[e][k].converted + SumFunction(Flight(request, e, k))
          <= Cardinality(Handlers) * packages[e][k].notional
    BY DEF MoneyInv, Bounded
  <2>2. SumFunction(Flight(request, e, k)) \in Nat
    BY FlightTyped DEF MoneyInv, Typed, Requests
  <2>3. /\ packages[e][k].converted \in Nat
        /\ Cardinality(Handlers) * packages[e][k].notional \in Nat
    BY BalanceTyped DEF MoneyInv, Typed
  <2>4. packages'[e][k].converted \in Nat /\ packages'[e][k].converted <= packages[e][k].converted
    <3>1. (IF e = w /\ k = i THEN m ELSE 0) <= 0 BY <1>3 DEF m
    <3>2. (IF e = w /\ k = i THEN m ELSE 0) \in Int BY <1>3
    <3> QED BY <1>6, <1>8, <2>3, <3>1, <3>2
  <2>5. packages'[e][k].notional = packages[e][k].notional BY <1>6
  <2> QED BY <2>1, <2>2, <2>3, <2>4, <2>5
<1>12. Lent' BY <1>1 DEF MoneyInv, Lent
<1> QED BY <1>8, <1>9, <1>10, <1>11, <1>12 DEF MoneyInv

\* What was in flight is reserved by the row that is created with it.
LEMMA CreateConversionKeeps ==
  ASSUME MoneyInv, NEW h \in Handlers, CreateConversion(h)
  PROVE  MoneyInv'
<1> DEFINE r == request[h]
           w == r.who
           i == r.item
           m == r.amount
           n == Len(conversions) + 1
           row == [who |-> w, item |-> i, notional |-> m, net |-> r.cash - r.fee,
                   status |-> "REQUESTED", payment |-> Null]
<1>1. /\ r.pc = "conversion" /\ packages' = Reserve(w, i, m)
      /\ conversions' = Append(conversions, row) /\ Become(h, Idle)
      /\ UNCHANGED <<advances, payouts, advancePolicy, conversionPolicy, withheld, repaid>>
  BY DEF CreateConversion, At
<1>2. /\ w \in Employees /\ i \in DOMAIN packages[w] /\ m \in Nat
      /\ r.cash \in Nat /\ r.fee \in Nat /\ r.fee <= r.cash
  BY <1>1 DEF MoneyInv, Typed, Requests, RequestTyped
<1>3. /\ i \in Nat /\ conversions \in Seq(ConversionRow)
  BY <1>2, Tables, SMTT(30) DEF MoneyInv, Typed, TypeOK
<1>4. row \in ConversionRow BY <1>2, <1>3 DEF ConversionRow, ConversionStatus, Null
<1>5. row.who = w /\ row.item = i /\ row.notional = m /\ row.status = "REQUESTED" OBVIOUS
<1>6. /\ conversions' \in Seq(ConversionRow) /\ DOMAIN conversions' = DOMAIN conversions \cup {n}
      /\ n \notin DOMAIN conversions /\ conversions'[n] = row
      /\ \A c \in DOMAIN conversions : conversions'[c] = conversions[c]
  <2> HIDE DEF row
  <2> QED BY <1>1, <1>3, <1>4, AppendRow
<1>0. \A e, k : Flight(request, e, k)[h] = IF e = w /\ k = i THEN m ELSE 0
  BY <1>1 DEF Flight
<1> HIDE DEF row, n, m, w, i
<1>7. /\ \A f \in Employees :
           /\ DOMAIN packages'[f] = DOMAIN packages[f]
           /\ Shown(packages'[f]) = Shown(packages[f])
           /\ Len(packages'[f]) = Len(packages[f])
           /\ packages'[f] # << >> => packages[f] # << >>
           /\ packages[f] # << >> => packages'[f] # << >>
           /\ \A j \in DOMAIN packages[f] :
                /\ packages'[f][j].open = packages[f][j].open
                /\ packages'[f][j].notional = packages[f][j].notional
                /\ packages'[f][j].converted \in Int
                /\ packages'[f][j].converted =
                     packages[f][j].converted + (IF f = w /\ j = i THEN m ELSE 0)
      /\ (\A f \in Employees : \A j \in DOMAIN packages[f] : packages'[f][j].converted \in Nat)
           => packages' \in [Employees -> Seq(PackageRow)]
  BY <1>1, <1>2, Reserved DEF MoneyInv, Typed
<1>8. ASSUME NEW e \in Employees, NEW k \in DOMAIN packages[e]
      PROVE  SumFunction(Share(conversions', e, k)) =
               SumFunction(Share(conversions, e, k)) + (IF e = w /\ k = i THEN m ELSE 0)
  <2> DEFINE D == DOMAIN conversions
             old == Share(conversions, e, k)
             new == Share(conversions', e, k)
  <2>1. /\ IsFiniteSet(D) /\ \A d \in D : old[d] \in Int
        /\ SumFunction(old) = SumFunctionOnSet(old, D) /\ SumFunction(old) \in Int
    BY <1>3, ShareTyped
  <2>2. /\ \A d \in D \cup {n} : new[d] \in Int
        /\ SumFunction(new) = SumFunctionOnSet(new, D \cup {n})
    BY <1>6, ShareTyped
  <2>3. \A d \in D : old[d] = new[d] BY <1>6 DEF Share
  <2>4. new[n] = IF e = w /\ k = i THEN m ELSE 0 BY <1>5, <1>6 DEF Share
  <2>5. SumFunctionOnSet(new, D \cup {n}) = new[n] + SumFunctionOnSet(new, D)
    <3> HIDE DEF new
    <3> QED BY <1>6, <2>1, <2>2, SumAdd
  <2>6. SumFunctionOnSet(old, D) = SumFunctionOnSet(new, D)
    <3> HIDE DEF new, old
    <3> QED BY <2>1, <2>3, SumEqual
  <2>7. (IF e = w /\ k = i THEN m ELSE 0) \in Int BY <1>2
  <2> HIDE DEF new, old
  <2> QED BY <2>1, <2>2, <2>4, <2>5, <2>6, <2>7 DEF new, old
<1>9. /\ Booked'
      /\ \A e \in Employees : \A k \in DOMAIN packages[e] : packages'[e][k].converted \in Nat
  <2>1. ASSUME NEW e \in Employees, NEW k \in DOMAIN packages[e]
        PROVE  packages'[e][k].converted - packages[e][k].converted =
                 SumFunction(Share(conversions', e, k)) - SumFunction(Share(conversions, e, k))
    <3>1. SumFunction(Share(conversions, e, k)) \in Nat BY <1>3, ShareTyped
    <3>2. packages[e][k].converted \in Nat BY BalanceTyped DEF MoneyInv, Typed
    <3>3. (IF e = w /\ k = i THEN m ELSE 0) \in Int BY <1>2
    <3> QED BY <1>7, <1>8, <3>1, <3>2, <3>3
  <2>2. \A d \in DOMAIN conversions' :
          /\ conversions'[d].who \in Employees
          /\ conversions'[d].item \in DOMAIN packages[conversions'[d].who]
    <3>1. \A d \in DOMAIN conversions : conversions[d] \in ConversionRow
      BY Tables DEF MoneyInv, Typed
    <3>2. \A d \in DOMAIN conversions : conversions[d].item \in DOMAIN packages[conversions[d].who]
      BY DEF MoneyInv, Booked
    <3> QED BY <1>2, <1>5, <1>6, <3>1, <3>2 DEF ConversionRow
  <2> QED BY <1>6, <1>7, <2>1, <2>2, BookedFollows
<1>10. Typed' /\ request'[h] = Idle /\ Others(h, request, request')
  <2>1. TypeOK' BY <1>1, <1>6, <1>7, <1>9 DEF MoneyInv, Typed, TypeOK
  <2>2. Grown(packages, packages', advances, advances') BY <1>1, <1>7 DEF Grown
  <2>3. Requests' /\ request'[h] = Idle /\ Others(h, request, request')
    BY <1>1, <2>2, IdleTyped, RequestsMove DEF MoneyInv, Typed
  <2> QED BY <1>1, <2>1, <2>3 DEF MoneyInv, Typed, Policies
<1>11. request'[h].pc = "idle" BY <1>10 DEF Idle
<1>12. Shows'
  <2>1. \A f \in Employees : packages'[f] # << >> =>
          packages'[f][Len(packages[f])].open = packages[f][Len(packages[f])].open
    <3> TAKE f \in Employees
    <3>1. packages[f] # << >> => Len(packages[f]) \in DOMAIN packages[f]
      <4>1. packages[f] \in Seq(PackageRow) BY Tables DEF MoneyInv, Typed
      <4> QED BY <4>1
    <3> QED BY <1>7, <3>1
  <2> QED BY <1>7, <1>10, <1>11, <2>1, ShowsStay DEF MoneyInv
<1>13. Bounded'
  <2> SUFFICES ASSUME NEW e \in Employees, NEW k \in DOMAIN packages[e]
               PROVE  packages'[e][k].converted + SumFunction(Flight(request', e, k))
                        <= Cardinality(Handlers) * packages'[e][k].notional
    BY <1>7 DEF Bounded
  <2>1. packages[e][k].converted + SumFunction(Flight(request, e, k))
          <= Cardinality(Handlers) * packages[e][k].notional
    BY DEF MoneyInv, Bounded
  <2>2. /\ SumFunction(Flight(request', e, k)) =
             SumFunction(Flight(request, e, k)) - Flight(request, e, k)[h]
               + Flight(request', e, k)[h]
        /\ Flight(request, e, k)[h] \in Nat /\ SumFunction(Flight(request, e, k)) \in Nat
    BY <1>10, FlightMoves DEF MoneyInv
  <2>3. /\ packages[e][k].converted \in Nat
        /\ Cardinality(Handlers) * packages[e][k].notional \in Nat
    BY BalanceTyped DEF MoneyInv, Typed
  <2>4. packages'[e][k].converted = packages[e][k].converted + Flight(request, e, k)[h]
    BY <1>0, <1>7
  <2>5. packages'[e][k].notional = packages[e][k].notional BY <1>7
  <2>6. Flight(request', e, k)[h] = 0 BY <1>11 DEF Flight
  <2> QED BY <2>1, <2>2, <2>3, <2>4, <2>5, <2>6
<1>14. Lent'
  <2>1. \A f : Keeping(request', f)[h] = 0 BY <1>11, KeepsNothing
  <2>2. \A f \in Employees :
          Keeping(request', f)[h] - Keeping(request, f)[h] <= withheld'[f] - withheld[f]
    BY <1>1, <2>1, KeepsNat, WithheldNat DEF MoneyInv
  <2> QED BY <1>1, <1>10, <2>2, LentStays DEF MoneyInv
<1> QED BY <1>9, <1>10, <1>12, <1>13, <1>14 DEF MoneyInv

-----------------------------------------------------------------------------
LEMMA MoneyInit == Init => MoneyInv
<1> SUFFICES ASSUME Init PROVE MoneyInv OBVIOUS
<1>1. /\ packages = [e \in Employees |-> << >>]
      /\ advances = << >> /\ conversions = << >> /\ payouts = << >>
      /\ request = [h \in Handlers |-> Idle]
      /\ withheld = [e \in Employees |-> 0] /\ repaid = [e \in Employees |-> 0]
  BY DEF Init
<1>2. /\ DOMAIN advances = {} /\ DOMAIN conversions = {}
      /\ \A e \in Employees : packages[e] = << >> /\ DOMAIN packages[e] = {}
      /\ \A h \in Handlers : request[h].pc = "idle"
  BY <1>1 DEF Idle
<1>3. Typed
  <2>1. TypeOK BY <1>1 DEF TypeOK
  <2>2. Policies
    BY DEF Init, Policies, DefaultAdvancePolicy, DefaultConversionPolicy, AdvancePolicyInput,
           ConversionPolicyInput, Unlimited, NoAutoApprove
  <2>3. Requests BY <1>1, IdleTyped DEF Requests
  <2> QED BY <2>1, <2>2, <2>3 DEF Typed
<1>4. Shows
  <2> SUFFICES ASSUME NEW e \in Employees PROVE PackagesOK(packages[e], request, e)
    BY DEF Shows
  <2>1. PackageCalls(request, e) = {} BY <1>2 DEF PackageCalls
  <2>2. \A Q \in SUBSET PackageCalls(request, e) :
          Cardinality(Unseen(packages[e], request, Q)) <= Cardinality(Handlers) - Cardinality(Q)
    <3> TAKE Q \in SUBSET PackageCalls(request, e)
    <3>1. Unseen(packages[e], request, Q) = {} BY <1>2 DEF Unseen, Shown
    <3>2. Q = {} BY <2>1
    <3> QED BY <3>1, <3>2, FS_EmptySet, Pool
  <2> QED BY <1>2, <2>2 DEF PackagesOK
<1>5. Booked /\ Bounded BY <1>2 DEF Booked, Bounded
<1>6. Lent
  <2>1. ASSUME NEW e \in Employees
        PROVE  /\ SumFunction(Lost(advances, e)) = repaid[e]
               /\ repaid[e] + SumFunction(Keeping(request, e)) <= withheld[e]
    <3>1. DOMAIN Lost(advances, e) = {} BY <1>2 DEF Lost
    <3>2. SumFunction(Lost(advances, e)) = 0 BY <3>1, SumWhole, SumEmpty
    <3>3. DOMAIN Keeping(request, e) = Handlers BY DEF Keeping
    <3>4. \A h \in Handlers : Keeping(request, e)[h] = 0 BY <1>2, KeepsNothing
    <3>5. SumFunction(Keeping(request, e)) = 0 BY <3>3, <3>4, Pool, SumWhole, SumZero
    <3>6. repaid[e] = 0 /\ withheld[e] = 0 BY <1>1
    <3> QED BY <3>2, <3>5, <3>6
  <2> QED BY <1>2, <2>1 DEF Lent
<1> QED BY <1>3, <1>4, <1>5, <1>6 DEF MoneyInv

LEMMA MoneyNext == MoneyInv /\ PaidInv /\ [Next]_vars => MoneyInv'
<1> SUFFICES ASSUME MoneyInv, PaidInv, [Next]_vars PROVE MoneyInv' OBVIOUS
<1>1. ASSUME NEW e \in Employees, OnboardEmployee(e) PROVE MoneyInv' BY <1>1, OnboardKeeps
<1>2. CASE SetAdvancePolicy \/ SetConversionPolicy BY <1>2, PoliciesKeep
<1>3. ASSUME NEW h \in Handlers, NEW e \in Employees,
             SetPackage(h, e) \/ RequestAdvance(h, e) \/ RequestConversion(h, e) \/ ComputeSalary(h, e)
      PROVE  MoneyInv'
  BY <1>3, SetPackageKeeps, RequestAdvanceKeeps, RequestConversionKeeps, ComputeSalaryKeeps
<1>4. ASSUME NEW h \in Handlers,
             \/ SupersedeAndCreate(h)
             \/ CreateAdvance(h) \/ PayAdvance(h) \/ MarkAdvanceDisbursed(h)
             \/ CreateConversion(h) \/ PayConversion(h) \/ MarkConversionDisbursed(h)
             \/ PaySalary(h) \/ ReadNetted(h) \/ ApplyDeduction(h)
             \/ PayoutFails(h) \/ Abort(h)
      PROVE  MoneyInv'
  BY <1>4, SupersedeKeeps, CreateAdvanceKeeps, PayAdvanceKeeps, MarkAdvanceKeeps,
     CreateConversionKeeps, MarkConversionKeeps, PaySalaryKeeps, ReadNettedKeeps,
     ApplyDeductionKeeps, StopKeeps
<1>5. ASSUME NEW h \in Handlers, NEW a \in DOMAIN advances, ApproveAdvance(h, a) PROVE MoneyInv'
  BY <1>5, ApproveAdvanceKeeps
<1>6. ASSUME NEW h \in Handlers, NEW c \in DOMAIN conversions, ApproveConversion(h, c)
      PROVE  MoneyInv'
  BY <1>6, ApproveConversionKeeps
<1>7. ASSUME NEW a \in DOMAIN advances, RejectAdvance(a) PROVE MoneyInv'
  BY <1>7, RejectAdvanceKeeps
<1>8. ASSUME NEW c \in DOMAIN conversions, RejectConversion(c) PROVE MoneyInv'
  BY <1>8, RejectConversionKeeps
<1>9. CASE UNCHANGED vars BY <1>9, StutterKeeps
<1> QED BY <1>1, <1>2, <1>3, <1>4, <1>5, <1>6, <1>7, <1>8, <1>9 DEF Next

LEMMA MoneyAlways == Spec => []MoneyInv
<1>1. Spec => []PaidInv BY PaidInit, PaidNext, PTL DEF Spec
<1>2. Spec => []MoneyInv BY <1>1, MoneyInit, MoneyNext, PTL DEF Spec
<1> QED BY <1>2

-----------------------------------------------------------------------------
(* What the invariant says of the pages. *)

\* A column of a list, added up over its rows, is the column of the table.
LEMMA ListAddsUp ==
  ASSUME NEW S \in SUBSET Int, IsFiniteSet(S), NEW f, \A s \in S : f[s] \in Int,
         NEW kept \in SUBSET S, NEW g,
         DOMAIN g = {i \in DOMAIN Newest(S) : Newest(S)[i] \in kept},
         \A i \in DOMAIN g : g[i] = f[Newest(S)[i]]
  PROVE  SumFunction(g) = SumFunctionOnSet(f, kept)
<1> DEFINE b == Newest(S)
           T == {i \in DOMAIN b : b[i] \in kept}
<1>1. /\ IsFiniteSet(DOMAIN b)
      /\ \A i \in DOMAIN b : b[i] \in S
      /\ \A i, j \in DOMAIN b : b[i] = b[j] => i = j
      /\ \A r \in S : \E i \in DOMAIN b : b[i] = r
  BY NewestLists
<1>2. IsFiniteSet(T) /\ IsFiniteSet(kept) BY <1>1, FS_Subset
<1>4. DOMAIN g = T OBVIOUS
<1>3. \A i \in T : b[i] \in kept OBVIOUS
<1>6. \A i, j \in T : b[i] = b[j] => i = j BY <1>1
<1>7. \A r \in kept : \E i \in T : b[i] = r
  <2> TAKE r \in kept
  <2>1. PICK i \in DOMAIN b : b[i] = r BY <1>1
  <2> QED BY <2>1
<1>8. \A i \in T : f[b[i]] \in Int /\ g[i] = f[b[i]] BY <1>3, <1>4
<1> HIDE DEF T, b
<1>5. SumFunctionOnSet(g, T) = SumFunctionOnSet(f, kept)
  <2>1. Renames(b, g, T, f, kept) BY <1>3, <1>6, <1>7, <1>8 DEF Renames
  <2> QED BY ONLY <1>2, <2>1, SumRename
<1> QED BY <1>4, <1>5, SumWhole

\* A list that holds all rows has one entry per row.
LEMMA WholeList ==
  ASSUME NEW S \in SUBSET Int, IsFiniteSet(S), Cardinality(S) <= ListLimit
  PROVE  {j \in DOMAIN Newest(S) : j <= ListLimit} = DOMAIN Newest(S)
<1>1. DOMAIN Newest(S) = 1 .. Cardinality(S) /\ Cardinality(S) \in Nat
  BY NewestLists, FS_CardinalityType
<1>2. ListLimit \in Nat BY PayrollAssumption
<1> QED BY <1>1, <1>2

LEMMA BookedShows == MoneyInv => ReservationsAddUp
<1> SUFFICES ASSUME MoneyInv, NEW e \in Employees, NEW k \in DOMAIN packages[e]
             PROVE  LET kept == {c \in DOMAIN conversions :
                                   /\ conversions[c].who = e /\ conversions[c].item = k
                                   /\ conversions[c].status # "REJECTED"}
                        list == ListConversions(e)
                        shown == {i \in DOMAIN list : list[i].item = k /\ list[i].status # "REJECTED"}
                    IN
                    /\ packages[e][k].converted = SumFunction([c \in kept |-> conversions[c].notional])
                    /\ ListHoldsAll(conversions, e) =>
                         packages[e][k].converted = SumFunction([i \in shown |-> list[i].notional])
  BY DEF ReservationsAddUp
<1> DEFINE S == {c \in DOMAIN conversions : conversions[c].who = e}
           list == ListConversions(e)
           kept == {i \in DOMAIN list : list[i].item = k /\ list[i].status # "REJECTED"}
           T == {c \in DOMAIN conversions : /\ conversions[c].who = e /\ conversions[c].item = k
                                            /\ conversions[c].status # "REJECTED"}
           f == Share(conversions, e, k)
           g == [i \in kept |-> list[i].notional]
           t == [c \in T |-> conversions[c].notional]
<1>1. conversions \in Seq(ConversionRow) BY DEF MoneyInv, Typed, TypeOK
<1>2. /\ DOMAIN f = DOMAIN conversions /\ IsFiniteSet(DOMAIN conversions)
      /\ \A c \in DOMAIN conversions : f[c] \in Nat
      /\ SumFunction(f) = SumFunctionOnSet(f, DOMAIN conversions)
  BY <1>1, ShareTyped
<1>3. S \in SUBSET Int /\ IsFiniteSet(S) /\ T \in SUBSET S
  BY <1>1, <1>2, FS_Subset
<1>9. SumFunctionOnSet(f, T) = SumFunctionOnSet(f, DOMAIN conversions)
  <2>1. \A c \in DOMAIN conversions :
          f[c] \in Int /\ f[c] = IF c \in T THEN f[c] ELSE 0
    BY <1>2 DEF Share
  <2>2. T \in SUBSET DOMAIN conversions OBVIOUS
  <2> HIDE DEF f, T
  <2> QED BY <1>2, <2>1, <2>2, SumPart
<1>10. packages[e][k].converted = SumFunction(f) BY DEF MoneyInv, Booked
<1>11. SumFunction(t) = SumFunctionOnSet(f, T)
  <2>1. DOMAIN t = T /\ IsFiniteSet(T) BY <1>3, FS_Subset
  <2>2. \A c \in T : t[c] = f[c] BY DEF Share
  <2> HIDE DEF t, f, T
  <2> QED BY <2>1, <2>2, SumWhole, SumEqual
<1>12. ASSUME ListHoldsAll(conversions, e)
       PROVE  packages[e][k].converted = SumFunction(g)
  <2>1. DOMAIN list = {j \in DOMAIN Newest(S) : j <= ListLimit} BY DEF ListConversions
  <2>2. {j \in DOMAIN Newest(S) : j <= ListLimit} = DOMAIN Newest(S)
    <3>1. Cardinality(S) <= ListLimit BY <1>12 DEF ListHoldsAll
    <3> HIDE DEF S
    <3> QED BY <1>3, <3>1, WholeList
  <2>3. /\ DOMAIN list = DOMAIN Newest(S)
        /\ \A i \in DOMAIN list : list[i] = ConversionView(Newest(S)[i])
    BY <2>1, <2>2 DEF ListConversions
  <2>4. \A i \in DOMAIN Newest(S) : Newest(S)[i] \in S BY <1>3, NewestLists
  <2>5. kept = {i \in DOMAIN Newest(S) : Newest(S)[i] \in T}
    BY <2>3, <2>4 DEF ConversionView
  <2>6. \A i \in kept : g[i] = f[Newest(S)[i]]
    <3> TAKE i \in kept
    <3>1. g[i] = conversions[Newest(S)[i]].notional BY <2>3 DEF ConversionView
    <3>2. Newest(S)[i] \in T BY <2>5
    <3>3. \A c \in T : f[c] = conversions[c].notional BY DEF Share
    <3> QED BY <3>1, <3>2, <3>3
  <2>7. SumFunction(g) = SumFunctionOnSet(f, T)
    <3>1. \A s \in S : f[s] \in Int BY <1>2
    <3>2. DOMAIN g = {i \in DOMAIN Newest(S) : Newest(S)[i] \in T} BY <2>5
    <3> HIDE DEF f, g, S, T, kept, list
    <3> QED BY <1>3, <2>5, <2>6, <3>1, <3>2, ListAddsUp
  <2> QED BY <1>2, <1>9, <1>10, <2>7
<1> QED BY <1>2, <1>9, <1>10, <1>11, <1>12

LEMMA LentAddsUp == MoneyInv => RepaymentsAddUp
<1> SUFFICES ASSUME MoneyInv, NEW e \in Employees
             PROVE  LET open == Of(e, {"DISBURSED", "REPAID"})
                        list == ListAdvances(e)
                    IN
                    /\ SumFunction([a \in open |-> advances[a].owed - advances[a].outstanding]) = repaid[e]
                    /\ repaid[e] <= withheld[e]
                    /\ \A a \in open : advances[a].status = "REPAID" <=> advances[a].outstanding = 0
                    /\ Outstanding(e) = Owed(Of(e, AdvanceStatus))
                    /\ ListHoldsAll(advances, e) =>
                         Outstanding(e) = SumFunction([i \in DOMAIN list |-> list[i].outstanding])
  BY DEF RepaymentsAddUp
<1> DEFINE D == DOMAIN advances
           open == Of(e, {"DISBURSED", "REPAID"})
           owes == Of(e, NonRepaid)
           S == {a \in D : advances[a].who = e}
           list == ListAdvances(e)
           out == [a \in D |-> IF a \in S THEN advances[a].outstanding ELSE 0]
<1>1. /\ IsFiniteSet(D) /\ D \in SUBSET Int
      /\ \A a \in D : /\ advances[a].owed \in Nat /\ advances[a].outstanding \in Nat
                      /\ advances[a].status \in AdvanceStatus
  BY Tables DEF MoneyInv, Typed, AdvanceRow
<1>0. IsFiniteSet(D) BY <1>1
<1>2. /\ \A a \in D : AdvanceOK(advances[a])
      /\ SumFunction(Lost(advances, e)) = repaid[e]
      /\ repaid[e] + SumFunction(Keeping(request, e)) <= withheld[e]
  BY DEF MoneyInv, Lent
<1>3. SumFunction([a \in open |-> advances[a].owed - advances[a].outstanding]) = repaid[e]
  <2> DEFINE g == [a \in open |-> advances[a].owed - advances[a].outstanding]
             f == Lost(advances, e)
  <2>1. open \in SUBSET D /\ IsFiniteSet(open) BY <1>1, FS_Subset DEF Of
  <2>2. \A a \in open : g[a] = f[a] BY DEF Lost, Of
  <2>3. \A a \in D : f[a] \in Int /\ f[a] = IF a \in open THEN f[a] ELSE 0
    BY <1>1 DEF Lost, Of
  <2>4. SumFunction(f) = SumFunctionOnSet(f, D)
    <3>1. DOMAIN f = D BY DEF Lost
    <3> QED BY <3>1, SumWhole
  <2>5. SumFunction(g) = SumFunctionOnSet(g, open)
    <3>1. DOMAIN g = open OBVIOUS
    <3> QED BY <3>1, SumWhole
  <2>6. SumFunctionOnSet(g, open) = SumFunctionOnSet(f, open)
    <3> HIDE DEF f, g, open
    <3> QED BY <2>1, <2>2, SumEqual
  <2>7. SumFunctionOnSet(f, open) = SumFunctionOnSet(f, D)
    <3> HIDE DEF f, open, D
    <3> QED BY ONLY <1>0, <2>1, <2>3, SumPart
  <2> QED BY <1>2, <2>4, <2>5, <2>6, <2>7
<1>4. repaid[e] <= withheld[e]
  <2>1. SumFunction(Keeping(request, e)) \in Nat
    BY KeepingTyped DEF MoneyInv, Typed, Requests
  <2>2. repaid[e] \in Nat /\ withheld[e] \in Nat BY DEF MoneyInv, Typed, TypeOK
  <2> QED BY <1>2, <2>1, <2>2
<1>5. \A a \in open : advances[a].status = "REPAID" <=> advances[a].outstanding = 0
  BY <1>1, <1>2 DEF Of, AdvanceOK
<1>6. S \in SUBSET D /\ IsFiniteSet(S) /\ S \in SUBSET Int /\ owes \in SUBSET D /\ IsFiniteSet(owes)
  BY <1>1, FS_Subset DEF Of
<1>7. \A a \in D : out[a] \in Int BY <1>1
<1>8. Outstanding(e) = SumFunctionOnSet(out, S)
  <2> DEFINE q == [a \in owes |-> advances[a].outstanding]
  <2>7. SumFunctionOnSet(out, S) = SumFunctionOnSet(out, D)
    <3>1. \A a \in D : out[a] = IF a \in S THEN out[a] ELSE 0 OBVIOUS
    <3>2. S \in SUBSET D BY <1>6
    <3> HIDE DEF out, S, D
    <3> QED BY ONLY <1>0, <1>7, <3>1, <3>2, SumPart
  <2>8. SumFunctionOnSet(out, owes) = SumFunctionOnSet(out, D)
    <3>1. \A a \in D : out[a] \in Int /\ out[a] = IF a \in owes THEN out[a] ELSE 0
      BY <1>1, <1>2 DEF Of, NonRepaid, AdvanceOK, AdvanceStatus
    <3>2. owes \in SUBSET D BY <1>6
    <3> HIDE DEF out, owes, D
    <3>3. /\ \A a \in D : out[a] \in Int
          /\ \A a \in D : out[a] = IF a \in owes THEN out[a] ELSE 0
      BY ONLY <3>1
    <3> QED BY ONLY <1>0, <3>2, <3>3, SumPart
  <2>9. Outstanding(e) = SumFunctionOnSet(q, owes)
    <3>1. DOMAIN q = owes OBVIOUS
    <3> QED BY <3>1, SumWhole DEF Outstanding, Owed
  <2>10. SumFunctionOnSet(q, owes) = SumFunctionOnSet(out, owes)
    <3>1. \A a \in owes : q[a] = out[a] BY DEF Of
    <3> HIDE DEF q, out, owes
    <3> QED BY <1>6, <3>1, SumEqual
  <2> QED BY <2>7, <2>8, <2>9, <2>10
<1>9. Outstanding(e) = Owed(Of(e, AdvanceStatus))
  <2> DEFINE q == [a \in Of(e, AdvanceStatus) |-> advances[a].outstanding]
  <2>1. Of(e, AdvanceStatus) = S BY <1>1 DEF Of
  <2>2. DOMAIN q = S BY <2>1
  <2>3. Owed(Of(e, AdvanceStatus)) = SumFunctionOnSet(q, S)
    <3>1. Owed(Of(e, AdvanceStatus)) = SumFunction(q) BY DEF Owed
    <3> HIDE DEF q, S
    <3> QED BY <2>2, <3>1, SumWhole
  <2>4. \A a \in S : q[a] = out[a] BY <2>1
  <2> HIDE DEF q, out, S
  <2> QED BY <1>6, <1>8, <2>3, <2>4, SumEqual
<1>10. ASSUME ListHoldsAll(advances, e)
       PROVE  Outstanding(e) = SumFunction([i \in DOMAIN list |-> list[i].outstanding])
  <2> DEFINE g == [i \in DOMAIN list |-> list[i].outstanding]
  <2>1. {j \in DOMAIN Newest(S) : j <= ListLimit} = DOMAIN Newest(S)
    <3>1. Cardinality(S) <= ListLimit BY <1>10 DEF ListHoldsAll
    <3> HIDE DEF S
    <3> QED BY <1>6, <3>1, WholeList
  <2>2. \A i \in DOMAIN Newest(S) : Newest(S)[i] \in S BY <1>6, NewestLists
  <2>3. DOMAIN g = {i \in DOMAIN Newest(S) : Newest(S)[i] \in S} BY <2>1, <2>2 DEF ListAdvances
  <2>4. \A i \in DOMAIN g : g[i] = out[Newest(S)[i]]
    <3> TAKE i \in DOMAIN g
    <3>1. Newest(S)[i] \in S BY <2>3
    <3>2. g[i] = advances[Newest(S)[i]].outstanding BY <2>3 DEF ListAdvances, AdvanceView
    <3> QED BY <3>1, <3>2
  <2>6. SumFunction(g) = SumFunctionOnSet(out, S)
    <3>1. S \in SUBSET S /\ \A s \in S : out[s] \in Int BY <1>6, <1>7
    <3> HIDE DEF g, out, S
    <3> QED BY <1>6, <2>3, <2>4, <3>1, ListAddsUp
  <2> QED BY <1>8, <2>6
<1> QED BY <1>3, <1>4, <1>5, <1>9, <1>10

-----------------------------------------------------------------------------
(* How far the two promises that overlapping calls break can be broken.    *)

\* N overlapping requests reserve at most N times the benefit, in flight or stored.
OverConversionBounded ==
  \A e \in Employees : \A k \in DOMAIN packages[e] :
    LET flying == {h \in Handlers : /\ At(h, "conversion")
                                   /\ request[h].who = e /\ request[h].item = k}
    IN  packages[e][k].converted + SumFunction([h \in flying |-> request[h].amount])
          <= Cardinality(Handlers) * packages[e][k].notional

\* At most one package per overlapping call is active.
ActivePackagesBounded ==
  \A e \in Employees :
    Cardinality({k \in DOMAIN packages[e] : PackageView(e, k).current}) <= Cardinality(Handlers)

LEMMA BoundedHolds == MoneyInv => OverConversionBounded
<1> SUFFICES ASSUME MoneyInv, NEW e \in Employees, NEW k \in DOMAIN packages[e]
             PROVE  LET flying == {h \in Handlers : /\ At(h, "conversion")
                                                    /\ request[h].who = e /\ request[h].item = k}
                    IN  packages[e][k].converted + SumFunction([h \in flying |-> request[h].amount])
                          <= Cardinality(Handlers) * packages[e][k].notional
  BY DEF OverConversionBounded
<1> DEFINE flying == {h \in Handlers : /\ At(h, "conversion")
                                       /\ request[h].who = e /\ request[h].item = k}
           g == [h \in flying |-> request[h].amount]
           f == Flight(request, e, k)
<1>1. /\ \A h \in Handlers : f[h] \in Nat
      /\ SumFunction(f) = SumFunctionOnSet(f, Handlers)
  BY FlightTyped DEF MoneyInv, Typed, Requests
<1>2. flying \in SUBSET Handlers /\ IsFiniteSet(flying) /\ DOMAIN g = flying
  BY Pool, FS_Subset
<1>3. \A h \in flying : g[h] = f[h] BY DEF At, Flight
<1>4. \A h \in Handlers : f[h] \in Int /\ f[h] = IF h \in flying THEN f[h] ELSE 0
  BY <1>1 DEF At, Flight
<1> HIDE DEF g, f, flying
<1>5. SumFunctionOnSet(g, flying) = SumFunctionOnSet(f, flying) BY <1>2, <1>3, SumEqual
<1>6. SumFunctionOnSet(f, flying) = SumFunctionOnSet(f, Handlers) BY <1>2, <1>4, Pool, SumPart
<1>7. packages[e][k].converted + SumFunction(f) <= Cardinality(Handlers) * packages[e][k].notional
  BY DEF MoneyInv, Bounded, f
<1> QED BY <1>1, <1>2, <1>5, <1>6, <1>7, SumWhole DEF g, flying

LEMMA ActiveBounded == MoneyInv => ActivePackagesBounded
<1> SUFFICES ASSUME MoneyInv, NEW e \in Employees
             PROVE  Cardinality({k \in DOMAIN packages[e] : PackageView(e, k).current})
                      <= Cardinality(Handlers)
  BY DEF ActivePackagesBounded
<1>1. {k \in DOMAIN packages[e] : PackageView(e, k).current} = Shown(packages[e])
  BY DEF PackageView, Shown
<1>2. PackagesOK(packages[e], request, e) BY DEF MoneyInv, Shows
<1>3. Unseen(packages[e], request, {}) = Shown(packages[e]) BY DEF Unseen
<1>4. Cardinality(Shown(packages[e])) <= Cardinality(Handlers) - Cardinality({})
  BY <1>2, <1>3 DEF PackagesOK
<1>5. Cardinality({}) = 0 /\ Cardinality(Handlers) \in Nat BY FS_EmptySet, Pool
<1> QED BY <1>1, <1>4, <1>5

LEMMA ShowsActive == MoneyInv => HasActivePackage
<1> SUFFICES ASSUME MoneyInv, NEW e \in Employees, packages[e] # << >>
             PROVE  PackageView(e, Len(packages[e])).current
  BY DEF HasActivePackage
<1>1. PackagesOK(packages[e], request, e) BY DEF MoneyInv, Shows
<1>2. packages[e] \in Seq(PackageRow) BY Tables DEF MoneyInv, Typed
<1> QED BY <1>1, <1>2 DEF PackagesOK, PackageView

\* No step of the HR handlers takes a balance below zero or stores a malformed row,
\* whatever the policies, the amounts and the interleaving.
THEOREM MoneyTyped == Spec => []TypeOK
<1>1. MoneyInv => TypeOK BY DEF MoneyInv, Typed
<1> QED BY <1>1, MoneyAlways, PTL

\* The balance of a package item is the sum of its conversions that are not rejected, for
\* any number of concurrent requests and rejections; the page adds up to it while it
\* lists all of them.
THEOREM BalancesMatchConversions == Spec => []ReservationsAddUp
BY BookedShows, MoneyAlways, PTL

\* What the advances have lost is what settlements report, no more than the salaries kept
\* back, and eligibility counts what all advances owe: what the page lists, while it lists
\* them all.
THEOREM SettlementsMatchSalaries == Spec => []RepaymentsAddUp
BY LentAddsUp, MoneyAlways, PTL

\* conversions.ts:14 is broken by requests that overlap, but not without a bound: with n
\* handlers, no more than n times a benefit is reserved or about to be; with one handler,
\* never more than the benefit.
THEOREM OverConversionHasABound == Spec => []OverConversionBounded
BY BoundedHolds, MoneyAlways, PTL

\* A hired employee always has an active package: the one set last (employees.ts:272).
THEOREM AlwaysAPackage == Spec => []HasActivePackage
BY ShowsActive, MoneyAlways, PTL

\* "Exactly one active package" (employees.ts:275) is broken by package changes that
\* overlap: there are at most as many as handlers; with one handler, exactly one.
THEOREM ActivePackagesHaveABound == Spec => []ActivePackagesBounded
BY ActiveBounded, MoneyAlways, PTL
=============================================================================
