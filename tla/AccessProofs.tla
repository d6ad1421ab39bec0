---------------------------- MODULE AccessProofs ----------------------------
(* The properties of Access, for every number of users, keys and requests. *)
EXTENDS AccessProperties, SequenceTheorems, TLAPS

SessionRow == [user : Users, created : Int, expires : Int, live : BOOLEAN,
               seen : Int, ended : BOOLEAN]

Attempts == [pc : {"expire", "login", "signup", "open"}, purpose : Purposes, user : Users]
Calls    == [pc : {"delete", "renew", "reserve", "lookup", "create", "release"},
             session : Nat, scope : Scopes, until : Int]
Answers  == [pc : {"replay", "finish", "release"}, scope : Scopes, id : Nat]
RequestType == {Idle} \cup Attempts \cup Calls \cup Answers

TypeInv ==
  /\ now \in Nat
  /\ counter \in [Purposes -> [count : Nat, expires : Int]]
  /\ sessions \in Seq(SessionRow)
  /\ record \in [Scopes -> [value : Nat \cup {Never}, expires : Int]]
  /\ payments \in Seq(Scopes)
  /\ request \in [Requests -> RequestType]

LEMMA MinOfTwo ==
  ASSUME NEW a \in Int, NEW b \in Int
  PROVE  Min({a, b}) \in {a, b} /\ Min({a, b}) <= a /\ Min({a, b}) <= b
<1>1. \E x \in {a, b} : \A y \in {a, b} : x <= y OBVIOUS
<1> QED BY <1>1 DEF Min

LEMMA Shapes ==
  ASSUME TypeInv, NEW r \in Requests
  PROVE  /\ request[r].pc \in {"expire", "login", "signup", "open"} => request[r] \in Attempts
         /\ request[r].pc \in {"delete", "renew", "reserve", "lookup", "create"} => request[r] \in Calls
         /\ request[r].pc \in {"replay", "finish"} => request[r] \in Answers
         /\ request[r].pc = "release" => request[r] \in Calls \cup Answers
BY DEF TypeInv, RequestType, Idle, Attempts, Calls, Answers

LEMMA Durations ==
  /\ Window \in Nat \ {0} /\ SlidingTtl \in Nat \ {0} /\ AbsoluteTtl \in Nat \ {0}
  /\ ReserveTtl \in Nat \ {0} /\ KeyTtl \in Nat \ {0}
BY AccessAssumption

LEMMA SlidingIsShorter == SlidingTtl <= AbsoluteTtl BY AccessAssumption

LEMMA Row == ASSUME TypeInv, NEW s \in DOMAIN sessions PROVE sessions[s] \in SessionRow /\ s \in Nat
BY ElementOfSeq DEF TypeInv

LEMMA RowChanges ==
  ASSUME TypeInv, NEW s \in DOMAIN sessions, NEW row \in SessionRow
  PROVE  [sessions EXCEPT ![s] = row] \in Seq(SessionRow)
BY ExceptSeq DEF TypeInv

LEMMA RowEnds ==
  ASSUME TypeInv, NEW s \in DOMAIN sessions PROVE Ended(s) \in Seq(SessionRow)
<1>1. [sessions[s] EXCEPT !.live = FALSE, !.ended = TRUE] \in SessionRow BY Row DEF SessionRow
<1>2. Ended(s) = [sessions EXCEPT ![s] = [sessions[s] EXCEPT !.live = FALSE, !.ended = TRUE]]
  BY DEF Ended, TypeInv
<1> QED BY <1>1, <1>2, RowChanges

LEMMA Becomes ==
  ASSUME TypeInv, NEW r \in Requests, NEW x \in RequestType, Become(r, x)
  PROVE  request' \in [Requests -> RequestType]
BY DEF TypeInv, Become

LEMMA Ends ==
  ASSUME TypeInv, NEW r \in Requests, Done(r) PROVE request' \in [Requests -> RequestType]
BY DEF TypeInv, Done, Become, RequestType

LEMMA AttemptGoes ==
  ASSUME TypeInv, NEW r \in Requests, request[r] \in Attempts,
         NEW pc \in {"expire", "login", "signup", "open"}, Go(r, pc)
  PROVE  request' \in [Requests -> RequestType]
<1>1. [request[r] EXCEPT !.pc = pc] \in RequestType BY DEF Attempts, RequestType
<1> QED BY <1>1 DEF TypeInv, Go

LEMMA CallGoes ==
  ASSUME TypeInv, NEW r \in Requests, request[r] \in Calls,
         NEW pc \in {"delete", "renew", "reserve", "lookup", "create", "release"}, Go(r, pc)
  PROVE  request' \in [Requests -> RequestType]
<1>1. [request[r] EXCEPT !.pc = pc] \in RequestType BY DEF Calls, RequestType
<1> QED BY <1>1 DEF TypeInv, Go

LEMMA RenewedUntilBound ==
  ASSUME TypeInv, NEW s \in DOMAIN sessions
  PROVE  /\ RenewedUntil(s) \in Int
         /\ RenewedUntil(s) <= now + SlidingTtl /\ RenewedUntil(s) <= AbsoluteExpiry(s)
<1>1. sessions[s].created \in Int /\ now \in Int BY Row DEF SessionRow, TypeInv
<1>2. now + SlidingTtl \in Int /\ AbsoluteExpiry(s) \in Int
  BY <1>1, Durations DEF AbsoluteExpiry
<1> QED BY <1>2, MinOfTwo DEF RenewedUntil

-----------------------------------------------------------------------------
\* Every action leaves the rows of one type.
LEMMA TypeInit == Init => TypeInv
BY DEF Init, TypeInv, NoCounter, NoRecord, Never, RequestType

LEMMA TypeStep == ASSUME TypeInv, [Next]_vars PROVE TypeInv'
<1> USE DEF At, Never
<1>1. CASE Tick
  <2>1. now' \in Nat /\ UNCHANGED <<sessions, payments, request>> BY <1>1 DEF Tick, TypeInv
  <2>2. counter' \in [Purposes -> [count : Nat, expires : Int]]
    BY <1>1 DEF Tick, TypeInv, NoCounter
  <2>3. record' \in [Scopes -> [value : Nat \cup {Never}, expires : Int]]
    BY <1>1 DEF Tick, TypeInv, NoRecord
  <2> QED BY <2>1, <2>2, <2>3 DEF TypeInv
<1>2. ASSUME NEW s \in DOMAIN sessions, Logout(s) PROVE TypeInv'
  <2>1. sessions' \in Seq(SessionRow) BY <1>2, RowEnds DEF Logout
  <2> QED BY <1>2, <2>1 DEF Logout, TypeInv
<1>3. ASSUME NEW r \in Requests, NEW purpose \in Purposes, NEW user \in Users,
             Attempt(r, purpose, user)
      PROVE  TypeInv'
  <2>1. Min({counter[purpose].count, Limits[purpose]}) + 1 \in Nat
    <3>1. counter[purpose].count \in Nat /\ Limits[purpose] \in Nat
      BY AccessAssumption DEF TypeInv
    <3> DEFINE a == counter[purpose].count
               b == Limits[purpose]
    <3> HIDE DEF a, b
    <3>2. a \in Int /\ b \in Int BY <3>1 DEF a, b
    <3>3. Min({a, b}) \in {a, b} BY <3>2, MinOfTwo
    <3> QED BY <3>1, <3>3 DEF a, b
  <2>2. counter' \in [Purposes -> [count : Nat, expires : Int]]
    BY <1>3, <2>1 DEF Attempt, TypeInv
  <2>3. \A pc \in {"expire", purpose} : [pc |-> pc, purpose |-> purpose, user |-> user] \in RequestType
    BY DEF RequestType, Attempts, Purposes
  <2>4. request' \in [Requests -> RequestType] BY <1>3, <2>3, Becomes DEF Attempt, TypeInv
  <2> QED BY <1>3, <2>2, <2>4 DEF Attempt, TypeInv
<1>4. ASSUME NEW r \in Requests, NEW s \in DOMAIN sessions, NEW key \in Keys, ReadSession(r, s, key)
      PROVE  TypeInv'
  <2>1. RenewedUntil(s) \in Int /\ sessions[s].user \in Users /\ s \in Nat
    BY RenewedUntilBound, Row DEF SessionRow
  <2>2. \A pc \in {"delete", "renew", "reserve"} :
          [pc |-> pc, session |-> s, scope |-> <<sessions[s].user, key>>,
           until |-> RenewedUntil(s)] \in RequestType
    BY <2>1 DEF RequestType, Calls, Scopes
  <2>3. request' \in [Requests -> RequestType]
    BY <1>4, <2>2, Becomes DEF ReadSession
  <2>4. [sessions[s] EXCEPT !.seen = now] \in SessionRow
    <3>1. sessions[s] \in SessionRow /\ now \in Int BY Row DEF TypeInv
    <3> QED BY <3>1 DEF SessionRow
  <2>5. [sessions EXCEPT ![s] = [sessions[s] EXCEPT !.seen = now]] \in Seq(SessionRow)
    BY <2>4, RowChanges
  <2>6. sessions' \in Seq(SessionRow) BY <1>4, <2>5 DEF ReadSession, TypeInv
  <2> QED BY <1>4, <2>3, <2>6 DEF ReadSession, TypeInv
<1>5. ASSUME NEW r \in Requests, StartClock(r) PROVE TypeInv'
  <2>1. request[r] \in Attempts BY <1>5, Shapes DEF StartClock
  <2>2. counter' \in [Purposes -> [count : Nat, expires : Int]]
    BY <1>5, <2>1, AccessAssumption, SMTT(30) DEF StartClock, TypeInv, Attempts
  <2>3. request' \in [Requests -> RequestType]
    BY <1>5, <2>1, AttemptGoes DEF StartClock, Attempts, Purposes
  <2> QED BY <1>5, <2>2, <2>3 DEF StartClock, TypeInv
<1>6. ASSUME NEW r \in Requests, VerifyPassword(r) \/ ProvisionTenant(r) PROVE TypeInv'
  <2>1. request[r] \in Attempts BY <1>6, Shapes DEF VerifyPassword, ProvisionTenant
  <2>2. request' \in [Requests -> RequestType]
    BY <1>6, <2>1, AttemptGoes, Ends DEF VerifyPassword, ProvisionTenant
  <2> QED BY <1>6, <2>2 DEF VerifyPassword, ProvisionTenant, TypeInv
<1>7. ASSUME NEW r \in Requests, CreateSession(r) PROVE TypeInv'
  <2>1. request[r] \in Attempts BY <1>7, Shapes DEF CreateSession
  <2>2. NewSession(request[r].user) \in SessionRow
    BY <2>1, AccessAssumption DEF NewSession, SessionRow, Attempts, TypeInv
  <2> QED BY <1>7, <2>2, Ends DEF CreateSession, TypeInv
<1>8. ASSUME NEW r \in Requests, DeleteSession(r) \/ RenewSession(r) PROVE TypeInv'
  <2>1. request[r] \in Calls BY <1>8, Shapes DEF DeleteSession, RenewSession
  <2>2. request' \in [Requests -> RequestType]
    BY <1>8, <2>1, CallGoes, Ends DEF DeleteSession, RenewSession
  <2>3. sessions' \in Seq(SessionRow)
    <3> DEFINE s == request[r].session
               row == [sessions[s] EXCEPT !.expires = request[r].until]
    <3>1. CASE s \notin DOMAIN sessions
      <4>1. Ended(s) = sessions /\ [sessions EXCEPT ![s].expires = request[r].until] = sessions
        BY <3>1 DEF Ended, TypeInv
      <4> QED BY <1>8, <4>1 DEF DeleteSession, RenewSession, TypeInv
    <3>2. CASE s \in DOMAIN sessions
      <4>1. row \in SessionRow BY <2>1, <3>2, Row DEF SessionRow, Calls
      <4>2. [sessions EXCEPT ![s] = row] \in Seq(SessionRow) BY <3>2, <4>1, RowChanges
      <4> QED BY <1>8, <3>2, <4>2, RowEnds DEF DeleteSession, RenewSession, TypeInv
    <3> QED BY <3>1, <3>2
  <2> QED BY <1>8, <2>2, <2>3 DEF DeleteSession, RenewSession, TypeInv
<1>9. ASSUME NEW r \in Requests, Reserve(r) \/ Lookup(r) PROVE TypeInv'
  <2>1. request[r] \in Calls BY <1>9, Shapes DEF Reserve, Lookup
  <2>2. record[request[r].scope].value \in Nat \cup {Never} BY <2>1 DEF Calls, TypeInv
  <2>3. request' \in [Requests -> RequestType]
    <3>1. CASE Reserve(r) BY <2>1, <3>1, CallGoes DEF Reserve
    <3>2. CASE Lookup(r)
      <4> DEFINE value == record[request[r].scope].value
                 reply == [pc |-> "replay", scope |-> request[r].scope, id |-> value]
      <4>1. CASE value \in {Never, Pending} BY <3>2, <4>1, Ends DEF Lookup
      <4>2. CASE value \notin {Never, Pending}
        <5>1. reply \in RequestType BY <2>1, <2>2, <4>2 DEF RequestType, Answers, Calls
        <5>2. Become(r, reply) BY <3>2, <4>2 DEF Lookup
        <5> QED BY <5>1, <5>2, Becomes
      <4> QED BY <4>1, <4>2
    <3> QED BY <1>9, <3>1, <3>2
  <2>4. record' \in [Scopes -> [value : Nat \cup {Never}, expires : Int]]
    <3>1. [value |-> Pending, expires |-> now + ReserveTtl] \in [value : Nat \cup {Never}, expires : Int]
      BY AccessAssumption DEF TypeInv, Pending
    <3> QED BY <1>9, <3>1 DEF Reserve, Lookup, Hold, TypeInv
  <2> QED BY <1>9, <2>3, <2>4 DEF Reserve, Lookup, TypeInv
<1>10. ASSUME NEW r \in Requests, CreatePayment(r) PROVE TypeInv'
  <2>1. request[r] \in Calls BY <1>10, Shapes DEF CreatePayment
  <2>2. [pc |-> "finish", scope |-> request[r].scope, id |-> Len(payments) + 1] \in RequestType
    BY <2>1 DEF Calls, Answers, RequestType, TypeInv
  <2>3. payments' \in Seq(Scopes) BY <1>10, <2>1 DEF CreatePayment, TypeInv, Calls
  <2> QED BY <1>10, <2>2, <2>3, Becomes DEF CreatePayment, TypeInv
<1>11. ASSUME NEW r \in Requests, CreationFails(r) PROVE TypeInv'
  <2>1. request[r] \in Calls \cup Answers BY <1>11, Shapes DEF CreationFails
  <2>2. [request[r] EXCEPT !.pc = "release"] \in RequestType
    BY <2>1 DEF RequestType, Calls, Answers
  <2>3. request' \in [Requests -> RequestType] BY <1>11, <2>2 DEF CreationFails, Go, TypeInv
  <2> QED BY <1>11, <2>3 DEF CreationFails, TypeInv
<1>12. ASSUME NEW r \in Requests, ReleaseIdempotent(r) \/ SetCachedIdempotent(r) PROVE TypeInv'
  <2>1. request[r].pc = "finish" => request[r].id \in Nat
    BY Shapes DEF Answers
  <2>2. NoRecord \in [value : Nat \cup {Never}, expires : Int] BY DEF NoRecord
  <2>3. request[r].pc = "finish" => [value |-> request[r].id, expires |-> now + KeyTtl]
                                      \in [value : Nat \cup {Never}, expires : Int]
    BY <2>1, AccessAssumption DEF TypeInv
  <2>4. record' \in [Scopes -> [value : Nat \cup {Never}, expires : Int]]
    BY <1>12, <2>2, <2>3 DEF ReleaseIdempotent, SetCachedIdempotent, Hold, TypeInv
  <2> QED BY <1>12, <2>4, Ends DEF ReleaseIdempotent, SetCachedIdempotent, TypeInv
<1>13. ASSUME NEW r \in Requests, Replay(r) \/ Crash(r) PROVE TypeInv'
  BY <1>13, Ends DEF Replay, Crash, TypeInv
<1>14. CASE UNCHANGED vars BY <1>14 DEF vars, TypeInv
<1> QED BY <1>1, <1>2, <1>3, <1>4, <1>5, <1>6, <1>7, <1>8, <1>9, <1>10, <1>11, <1>12, <1>13, <1>14
        DEF Next

\* Counters, sessions, keys and what the requests keep between two calls (lib/auth,
\* lib/idempotency.ts) are well formed, whatever the requests read before they write.
THEOREM AccessTypes == Spec => []TypeInv
BY TypeInit, TypeStep, PTL DEF Spec

-----------------------------------------------------------------------------
(* An action of one request leaves the others alone.                       *)

Others(r) == \A q \in Requests \ {r} : request'[q] = request[q]

LEMMA BecomeOthers ==
  ASSUME TypeInv, NEW r \in Requests, NEW x, Become(r, x) PROVE Others(r) /\ request'[r] = x
BY DEF TypeInv, Become, Others

LEMMA GoOthers ==
  ASSUME TypeInv, NEW r \in Requests, NEW pc, Go(r, pc) PROVE Others(r)
BY DEF TypeInv, Go, Others

LEMMA GoKeeps ==
  ASSUME TypeInv, NEW r \in Requests, NEW pc, Go(r, pc), request[r] \in Calls \cup Answers
  PROVE  request'[r].pc = pc /\ request'[r].scope = request[r].scope
BY DEF TypeInv, Go, Calls, Answers

-----------------------------------------------------------------------------
(* The throttle.                                                           *)

\* What LockoutEnds says of one counter, and why it is inductive: a counter that Redis
\* has dropped leaves no clock for the next one to inherit.
Starting(p) == \E q \in Requests : request[q].pc = "expire" /\ request[q].purpose = p
RunsOut(p) ==
  /\ counter[p].count = 0 => counter[p].expires = Never
  /\ counter[p].count > 0 =>
       \/ now < counter[p].expires /\ counter[p].expires <= now + Window
       \/ counter[p].expires = Never /\ (p \in crashed \/ Starting(p))
LockoutInv == \A p \in Purposes : RunsOut(p)

LEMMA StillStarting ==
  ASSUME NEW p \in Purposes, Starting(p), NEW r \in Requests, Others(r),
         request[r].pc # "expire" \/ request[r].purpose # p
  PROVE  Starting(p)'
<1>1. PICK q \in Requests : request[q].pc = "expire" /\ request[q].purpose = p BY DEF Starting
<1>2. request'[q] = request[q] BY <1>1 DEF Others
<1> QED BY <1>1, <1>2 DEF Starting

LEMMA OthersStillEnd ==
  ASSUME NEW p \in Purposes, RunsOut(p), NEW r \in Requests, Others(r),
         request[r].pc # "expire" \/ request[r].purpose # p,
         counter'[p] = counter[p], now' = now, crashed \subseteq crashed'
  PROVE  RunsOut(p)'
BY StillStarting DEF RunsOut

LEMMA OthersAllEnd ==
  ASSUME LockoutInv, NEW r \in Requests, request[r].pc # "expire", Others(r),
         UNCHANGED <<now, counter, crashed>>
  PROVE  LockoutInv'
BY OthersStillEnd DEF LockoutInv

LEMMA LockoutStep ==
  ASSUME TypeInv, LockoutInv, [Next]_vars PROVE LockoutInv'
<1> USE DEF At
<1>1. CASE Tick
  <2> SUFFICES ASSUME NEW p \in Purposes PROVE RunsOut(p)' BY DEF LockoutInv
  <2>1. /\ now' = now + 1 /\ UNCHANGED <<request, crashed>>
        /\ counter'[p] = IF Past(counter[p].expires, now + 1) THEN NoCounter ELSE counter[p]
    BY <1>1 DEF Tick
  <2>2. Starting(p)' <=> Starting(p) BY <2>1 DEF Starting
  <2>3. RunsOut(p) /\ now \in Nat /\ counter[p].expires \in Int BY DEF LockoutInv, TypeInv
  <2>4. CASE Past(counter[p].expires, now + 1) BY <2>1, <2>4 DEF RunsOut, NoCounter
  <2>5. CASE ~Past(counter[p].expires, now + 1)
    <3>1. counter'[p] = counter[p] BY <2>1, <2>5
    <3>2. counter[p].expires # Never => now + 1 < counter[p].expires BY <2>3, <2>5 DEF Past
    <3>3. Window \in Nat BY Durations
    <3> HIDE DEF Starting
    <3>4. CASE counter[p].expires = Never BY <2>1, <2>2, <2>3, <3>1, <3>4 DEF RunsOut, Never
    <3>5. CASE counter[p].expires # Never
      BY <2>1, <2>2, <2>3, <3>1, <3>2, <3>3, <3>5 DEF RunsOut, Never
    <3> QED BY <3>4, <3>5
  <2> QED BY <2>4, <2>5
<1>2. CASE \E s \in DOMAIN sessions : Logout(s)
  BY <1>2 DEF Logout, LockoutInv, RunsOut, Starting
<1>3. ASSUME NEW r \in Requests, NEW purpose \in Purposes, NEW user \in Users,
             Attempt(r, purpose, user)
      PROVE  LockoutInv'
  <2> DEFINE n == Min({counter[purpose].count, Limits[purpose]})
  <2>0. counter[purpose].count \in Nat /\ Limits[purpose] \in Nat \ {0}
    BY AccessAssumption DEF TypeInv
  <2>1. n \in Nat /\ (counter[purpose].count = 0 => n = 0) /\ (n = 0 => counter[purpose].count = 0)
    <3> DEFINE a == counter[purpose].count
               b == Limits[purpose]
    <3> HIDE DEF a, b
    <3>1. a \in Nat /\ b \in Nat \ {0} /\ a \in Int /\ b \in Int BY <2>0 DEF a, b
    <3>2. Min({a, b}) \in {a, b} /\ Min({a, b}) <= a BY <3>1, MinOfTwo
    <3> QED BY <3>1, <3>2 DEF a, b
  <2>2. /\ counter' = [counter EXCEPT ![purpose].count = n + 1]
        /\ UNCHANGED <<now, crashed>> /\ request[r].pc = "idle"
    BY <1>3 DEF Attempt
  <2>3. Others(r) BY <1>3, BecomeOthers DEF Attempt, Others
  <2> SUFFICES ASSUME NEW p \in Purposes PROVE RunsOut(p)' BY DEF LockoutInv
  <2>4. CASE p # purpose
    <3>1. counter'[p] = counter[p] BY <2>2, <2>4 DEF TypeInv
    <3> QED BY <2>2, <2>3, <3>1, OthersStillEnd DEF LockoutInv
  <2>5. CASE p = purpose /\ n = 0
    <3>1. request'[r] = [pc |-> "expire", purpose |-> purpose, user |-> user]
      BY <1>3, <2>5, BecomeOthers DEF Attempt
    <3>2. Starting(p)' BY <2>5, <3>1 DEF Starting
    <3>3. counter[p].expires = Never BY <2>1, <2>5 DEF LockoutInv, RunsOut
    <3>4. counter'[p].count = 1 /\ counter'[p].expires = Never BY <2>2, <2>5, <3>3 DEF TypeInv
    <3> QED BY <3>2, <3>4 DEF RunsOut
  <2>6. CASE p = purpose /\ n # 0
    <3>1. counter[p].count > 0 BY <2>0, <2>1, <2>6
    <3>2. counter'[p].count = n + 1 /\ counter'[p].expires = counter[p].expires
      BY <2>2, <2>6 DEF TypeInv
    <3>3. Starting(p) => Starting(p)' BY <2>2, <2>3, StillStarting
    <3>4. counter'[p].count # 0 BY <2>1, <3>2
    <3> QED BY <2>2, <3>1, <3>2, <3>3, <3>4 DEF RunsOut, LockoutInv
  <2> QED BY <2>4, <2>5, <2>6
<1>4. ASSUME NEW r \in Requests, StartClock(r) PROVE LockoutInv'
  <2> DEFINE p == request[r].purpose
  <2>1. /\ request[r].pc = "expire" /\ p \in Purposes /\ Others(r)
        /\ UNCHANGED <<now, crashed>>
    BY <1>4, Shapes, GoOthers DEF StartClock, Attempts
  <2> SUFFICES ASSUME NEW o \in Purposes PROVE RunsOut(o)' BY DEF LockoutInv
  <2>2. CASE o # p
    <3>1. counter'[o] = counter[o] BY <1>4, <2>1, <2>2 DEF StartClock, TypeInv
    <3> QED BY <2>1, <2>2, <3>1, OthersStillEnd DEF LockoutInv
  <2>3. CASE o = p /\ counter[p].count = 0
    <3>1. counter' = counter BY <1>4, <2>3 DEF StartClock
    <3> QED BY <2>3, <3>1 DEF LockoutInv, RunsOut
  <2>4. CASE o = p /\ counter[p].count # 0
    <3>1. /\ counter'[p].expires = now + Window
          /\ counter'[p].count = counter[p].count
      BY <1>4, <2>1, <2>4 DEF StartClock, TypeInv
    <3>2. Window \in Nat \ {0} /\ now \in Nat BY Durations DEF TypeInv
    <3> QED BY <2>1, <2>4, <3>1, <3>2 DEF RunsOut
  <2> QED BY <2>2, <2>3, <2>4
<1>5. ASSUME NEW r \in Requests, VerifyPassword(r) \/ ProvisionTenant(r) \/ CreateSession(r)
      PROVE  LockoutInv'
  BY <1>5, OthersAllEnd, GoOthers, BecomeOthers DEF VerifyPassword, ProvisionTenant, CreateSession, Done
<1>6. ASSUME NEW r \in Requests,
             \/ \E s \in DOMAIN sessions, key \in Keys : ReadSession(r, s, key)
             \/ DeleteSession(r) \/ RenewSession(r)
      PROVE  LockoutInv'
  BY <1>6, OthersAllEnd, GoOthers, BecomeOthers DEF ReadSession, DeleteSession, RenewSession, Done
<1>7. ASSUME NEW r \in Requests, Reserve(r) \/ Lookup(r) \/ Replay(r) PROVE LockoutInv'
  BY <1>7, OthersAllEnd, GoOthers, BecomeOthers DEF Reserve, Lookup, Replay, Done
<1>8. ASSUME NEW r \in Requests,
             CreatePayment(r) \/ CreationFails(r) \/ ReleaseIdempotent(r) \/ SetCachedIdempotent(r)
      PROVE  LockoutInv'
  BY <1>8, OthersAllEnd, GoOthers, BecomeOthers
     DEF CreatePayment, CreationFails, ReleaseIdempotent, SetCachedIdempotent, Done
<1>9. ASSUME NEW r \in Requests, Crash(r) PROVE LockoutInv'
  <2>1. Others(r) /\ UNCHANGED <<now, counter>> /\ crashed \subseteq crashed'
    BY <1>9, BecomeOthers DEF Crash, Done
  <2> SUFFICES ASSUME NEW p \in Purposes PROVE RunsOut(p)' BY DEF LockoutInv
  <2>2. CASE request[r].pc = "expire" /\ request[r].purpose = p
    <3>1. p \in crashed' BY <1>9, <2>2 DEF Crash
    <3> QED BY <2>1, <3>1 DEF RunsOut, LockoutInv
  <2>3. CASE ~(request[r].pc = "expire" /\ request[r].purpose = p)
    BY <2>1, <2>3, OthersStillEnd DEF LockoutInv
  <2> QED BY <2>2, <2>3
<1>10. CASE UNCHANGED vars BY <1>10 DEF vars, LockoutInv, RunsOut, Starting
<1> QED BY <1>1, <1>2, <1>3, <1>4, <1>5, <1>6, <1>7, <1>8, <1>9, <1>10 DEF Next

LEMMA LockoutInvSays == LockoutInv => LockoutEnds
BY DEF LockoutInv, RunsOut, Starting, LockoutEnds, At

\* However many requests hit the throttle at once, and whatever crashes elsewhere, every
\* counter runs out within a window (rate-limit.ts), but one whose own request died
\* between its INCR and its EXPIRE.
THEOREM LockoutsEnd == Spec => []LockoutEnds
<1>1. Init => LockoutInv BY DEF Init, LockoutInv, RunsOut, NoCounter
<1>2. TypeInv /\ LockoutInv /\ [Next]_vars => LockoutInv' BY LockoutStep
<1>3. LockoutInv => LockoutEnds BY LockoutInvSays
<1> QED BY <1>1, <1>2, <1>3, AccessTypes, PTL DEF Spec

-----------------------------------------------------------------------------
(* Sessions.                                                               *)

\* A renewal that is under way writes an expiry its row allows.
SessionInv ==
  /\ SessionBounded
  /\ \A s \in DOMAIN sessions : sessions[s].seen <= now
  /\ \A r \in Requests : At(r, "renew") =>
       LET s == request[r].session IN
       /\ s \in DOMAIN sessions
       /\ request[r].until <= sessions[s].seen + SlidingTtl
       /\ request[r].until <= sessions[s].created + AbsoluteTtl

\* What one step may do to the rows and to the renewals.
RowsGrow ==
  /\ \A s \in DOMAIN sessions :
       /\ s \in DOMAIN sessions'
       /\ sessions'[s].created = sessions[s].created
       /\ sessions'[s].seen >= sessions[s].seen /\ sessions'[s].seen <= now'
  /\ \A s \in DOMAIN sessions' :
       /\ sessions'[s].seen <= now'
       /\ sessions'[s].expires <= sessions'[s].seen + SlidingTtl
       /\ sessions'[s].expires <= sessions'[s].created + AbsoluteTtl
       /\ sessions'[s].ended => ~sessions'[s].live

NoNewRenewal ==
  \A r \in Requests : request'[r].pc = "renew" => request'[r] = request[r]

LEMMA RowsGrowKeeps ==
  ASSUME TypeInv, TypeInv', SessionInv, RowsGrow, NoNewRenewal PROVE SessionInv'
<1>1. SessionBounded' /\ \A s \in DOMAIN sessions' : sessions'[s].seen <= now'
  BY DEF RowsGrow, SessionBounded, AbsoluteExpiry
<1>2. ASSUME NEW r \in Requests, request'[r].pc = "renew"
      PROVE  /\ request'[r].session \in DOMAIN sessions'
             /\ request'[r].until <= sessions'[request'[r].session].seen + SlidingTtl
             /\ request'[r].until <= sessions'[request'[r].session].created + AbsoluteTtl
  <2> DEFINE s == request[r].session
  <2>1. request'[r] = request[r] /\ request[r].pc = "renew" BY <1>2 DEF NoNewRenewal
  <2>2. /\ s \in DOMAIN sessions /\ request[r].until <= sessions[s].seen + SlidingTtl
        /\ request[r].until <= sessions[s].created + AbsoluteTtl
    BY <2>1 DEF SessionInv, At
  <2>3. sessions[s].seen \in Int /\ request[r].until \in Int
    BY <2>1, <2>2, Row, Shapes DEF SessionRow, Calls
  <2>4. s \in DOMAIN sessions' /\ sessions'[s].created = sessions[s].created
        /\ sessions'[s].seen >= sessions[s].seen
    BY <2>2 DEF RowsGrow
  <2>5. sessions'[s].seen \in Int
    <3>1. sessions' \in Seq(SessionRow) BY DEF TypeInv
    <3>2. sessions'[s] \in SessionRow BY <2>4, <3>1, ElementOfSeq
    <3> QED BY <3>2 DEF SessionRow
  <2>6. request[r].until <= sessions'[s].seen + SlidingTtl BY <2>2, <2>3, <2>4, <2>5, Durations
  <2> QED BY <2>1, <2>2, <2>4, <2>6
<1> QED BY <1>1, <1>2 DEF SessionInv, At

LEMMA RowsStay ==
  ASSUME TypeInv, SessionInv, UNCHANGED <<sessions, now>> PROVE RowsGrow
<1>1. \A s \in DOMAIN sessions : sessions[s].seen \in Int BY Row DEF SessionRow
<1> QED BY <1>1 DEF RowsGrow, SessionInv, SessionBounded, AbsoluteExpiry

LEMMA RowsEnd ==
  ASSUME TypeInv, SessionInv, NEW s \in DOMAIN sessions, sessions' = Ended(s), UNCHANGED now
  PROVE  RowsGrow
<1>1. \A t \in DOMAIN sessions : sessions[t] \in SessionRow BY Row
<1>2. /\ DOMAIN sessions' = DOMAIN sessions
      /\ \A t \in DOMAIN sessions : t # s => sessions'[t] = sessions[t]
      /\ sessions'[s] = [sessions[s] EXCEPT !.live = FALSE, !.ended = TRUE]
  BY DEF Ended
<1>3. /\ sessions'[s].created = sessions[s].created /\ sessions'[s].seen = sessions[s].seen
      /\ sessions'[s].expires = sessions[s].expires /\ ~sessions'[s].live
  BY <1>1, <1>2 DEF SessionRow
<1>4. \A t \in DOMAIN sessions : sessions[t].seen \in Int BY <1>1 DEF SessionRow
<1>5. \A t \in DOMAIN sessions :
        /\ sessions[t].seen <= now /\ sessions[t].expires <= sessions[t].seen + SlidingTtl
        /\ sessions[t].expires <= sessions[t].created + AbsoluteTtl
        /\ sessions[t].ended => ~sessions[t].live
  BY DEF SessionInv, SessionBounded, AbsoluteExpiry
<1>6. ASSUME NEW t \in DOMAIN sessions
      PROVE  /\ sessions'[t].created = sessions[t].created /\ sessions'[t].seen = sessions[t].seen
             /\ sessions'[t].expires = sessions[t].expires
             /\ sessions'[t].ended => ~sessions'[t].live
  BY <1>2, <1>3, <1>5
<1> QED BY <1>2, <1>4, <1>5, <1>6 DEF RowsGrow

LEMMA NoRenewal ==
  ASSUME TypeInv, NEW r \in Requests, Others(r), request'[r].pc # "renew" PROVE NoNewRenewal
BY DEF Others, NoNewRenewal

LEMMA GoesElsewhere ==
  ASSUME TypeInv, NEW r \in Requests, request[r] \in Attempts \cup Calls \cup Answers,
         NEW pc, pc # "renew", Go(r, pc)
  PROVE  NoNewRenewal
<1>1. request'[r].pc = pc BY DEF TypeInv, Go, Attempts, Calls, Answers
<1> QED BY <1>1, GoOthers, NoRenewal

LEMMA BecomesElsewhere ==
  ASSUME TypeInv, NEW r \in Requests, NEW x, x.pc # "renew", Become(r, x) PROVE NoNewRenewal
BY BecomeOthers, NoRenewal

LEMMA DoneElsewhere == ASSUME TypeInv, NEW r \in Requests, Done(r) PROVE NoNewRenewal
BY BecomesElsewhere DEF Done, Idle

\* The read of a session: the row is used now, a renewal is computed from it.
LEMMA ReadKeepsSessions ==
  ASSUME TypeInv, TypeInv', SessionInv, NEW r \in Requests, NEW s \in DOMAIN sessions, NEW key \in Keys,
         ReadSession(r, s, key)
  PROVE  SessionInv'
<1> DEFINE call(pc) == [pc |-> pc, session |-> s, scope |-> <<sessions[s].user, key>>,
                        until |-> RenewedUntil(s)]
<1>1. now \in Nat /\ now' = now /\ \A t \in DOMAIN sessions : sessions[t] \in SessionRow
  BY Row DEF ReadSession, TypeInv
<1>2. CASE Expired(s)
  <2>1. Become(r, call("delete")) /\ sessions' = sessions BY <1>2 DEF ReadSession
  <2>2. NoNewRenewal BY <2>1, BecomesElsewhere
  <2> QED BY <1>1, <2>1, <2>2, RowsStay, RowsGrowKeeps
<1>3. CASE ~Expired(s)
  <2>1. PICK pc : Become(r, call(pc)) BY <1>3 DEF ReadSession
  <2>2. sessions' = [sessions EXCEPT ![s].seen = now] BY <1>3 DEF ReadSession
  <2>3. /\ DOMAIN sessions' = DOMAIN sessions
        /\ \A t \in DOMAIN sessions : t # s => sessions'[t] = sessions[t]
        /\ sessions'[s] = [sessions[s] EXCEPT !.seen = now]
    BY <2>2 DEF TypeInv
  <2>4. /\ sessions'[s].created = sessions[s].created /\ sessions'[s].seen = now
        /\ sessions'[s].expires = sessions[s].expires /\ sessions'[s].live = sessions[s].live
        /\ sessions'[s].ended = sessions[s].ended
    BY <1>1, <2>3 DEF SessionRow
  <2>5. \A t \in DOMAIN sessions :
          /\ sessions[t].seen <= now /\ sessions[t].expires <= sessions[t].seen + SlidingTtl
          /\ sessions[t].expires <= sessions[t].created + AbsoluteTtl
          /\ sessions[t].ended => ~sessions[t].live
          /\ sessions[t].seen \in Int /\ sessions[t].expires \in Int
    BY <1>1 DEF SessionInv, SessionBounded, AbsoluteExpiry, SessionRow
  <2>6. RowsGrow
    <3>1. ASSUME NEW t \in DOMAIN sessions
          PROVE  /\ sessions'[t].created = sessions[t].created
                 /\ sessions'[t].seen >= sessions[t].seen /\ sessions'[t].seen <= now'
                 /\ sessions'[t].expires <= sessions'[t].seen + SlidingTtl
                 /\ sessions'[t].expires <= sessions'[t].created + AbsoluteTtl
                 /\ sessions'[t].ended => ~sessions'[t].live
      <4>1. CASE t = s
        <5>1. sessions'[s].expires <= now + SlidingTtl BY <1>1, <2>4, <2>5, Durations
        <5> QED BY <1>1, <2>4, <2>5, <4>1, <5>1
      <4>2. CASE t # s BY <1>1, <2>3, <2>5, <4>2
      <4> QED BY <4>1, <4>2
    <3> QED BY <2>3, <3>1 DEF RowsGrow
  <2>7. SessionBounded' /\ \A t \in DOMAIN sessions' : sessions'[t].seen <= now'
    BY <2>6 DEF RowsGrow, SessionBounded, AbsoluteExpiry
  <2>8. ASSUME NEW q \in Requests, request'[q].pc = "renew"
        PROVE  /\ request'[q].session \in DOMAIN sessions'
               /\ request'[q].until <= sessions'[request'[q].session].seen + SlidingTtl
               /\ request'[q].until <= sessions'[request'[q].session].created + AbsoluteTtl
    <3>1. CASE q = r
      <4>1. request'[q].session = s /\ request'[q].until = RenewedUntil(s)
        BY <2>1, <3>1, BecomeOthers
      <4> QED BY <1>1, <2>3, <2>4, <4>1, RenewedUntilBound DEF AbsoluteExpiry
    <3>2. CASE q # r
      <4> DEFINE t == request[q].session
      <4>1. request'[q] = request[q] BY <2>1, <3>2, BecomeOthers DEF Others
      <4>2. /\ t \in DOMAIN sessions /\ request[q].until <= sessions[t].seen + SlidingTtl
            /\ request[q].until <= sessions[t].created + AbsoluteTtl
        BY <2>8, <4>1 DEF SessionInv, At
      <4>3. request[q].until \in Int BY <2>8, <4>1, Shapes DEF Calls
      <4>4. sessions'[t].created = sessions[t].created /\ sessions'[t].seen \in {sessions[t].seen, now}
        BY <2>3, <2>4, <4>2
      <4>5. sessions[t].seen \in Int /\ sessions[t].seen <= now BY <2>5, <4>2
      <4>6. request[q].until <= sessions'[t].seen + SlidingTtl
        BY <1>1, <4>2, <4>3, <4>4, <4>5, Durations
      <4> QED BY <2>3, <4>1, <4>2, <4>4, <4>6
    <3> QED BY <3>1, <3>2
  <2> QED BY <2>7, <2>8 DEF SessionInv, At
<1> QED BY <1>2, <1>3

LEMMA RenewKeepsSessions ==
  ASSUME TypeInv, TypeInv', SessionInv, NEW r \in Requests, RenewSession(r) PROVE SessionInv'
<1> DEFINE s == request[r].session
<1>1. /\ request[r] \in Calls /\ s \in DOMAIN sessions /\ now' = now
      /\ request[r].until <= sessions[s].seen + SlidingTtl
      /\ request[r].until <= sessions[s].created + AbsoluteTtl
  BY Shapes DEF RenewSession, SessionInv, At
<1>2. NoNewRenewal BY <1>1, GoesElsewhere, DoneElsewhere DEF RenewSession
<1>3. CASE ~sessions[s].live
  BY <1>1, <1>2, <1>3, RowsStay, RowsGrowKeeps DEF RenewSession
<1>4. CASE sessions[s].live
  <2>1. \A t \in DOMAIN sessions : sessions[t] \in SessionRow BY Row
  <2>2. sessions' = [sessions EXCEPT ![s].expires = request[r].until] BY <1>4 DEF RenewSession
  <2>3. /\ DOMAIN sessions' = DOMAIN sessions
        /\ \A t \in DOMAIN sessions : t # s => sessions'[t] = sessions[t]
        /\ sessions'[s] = [sessions[s] EXCEPT !.expires = request[r].until]
    <3> DEFINE u == request[r].until
    <3> HIDE DEF s, u
    <3>1. sessions' = [sessions EXCEPT ![s].expires = u] BY <2>2 DEF s, u
    <3>2. s \in DOMAIN sessions BY <1>1
    <3> QED BY <3>1, <3>2 DEF u
  <2>4. /\ sessions'[s].created = sessions[s].created /\ sessions'[s].seen = sessions[s].seen
        /\ sessions'[s].expires = request[r].until /\ sessions'[s].live = sessions[s].live
        /\ sessions'[s].ended = sessions[s].ended
    BY <1>1, <2>1, <2>3 DEF SessionRow
  <2>5. \A t \in DOMAIN sessions :
          /\ sessions[t].seen <= now /\ sessions[t].expires <= sessions[t].seen + SlidingTtl
          /\ sessions[t].expires <= sessions[t].created + AbsoluteTtl
          /\ sessions[t].ended => ~sessions[t].live
          /\ sessions[t].seen \in Int
    BY <2>1 DEF SessionInv, SessionBounded, AbsoluteExpiry, SessionRow
  <2>6. RowsGrow
    <3>1. ASSUME NEW t \in DOMAIN sessions
          PROVE  /\ sessions'[t].created = sessions[t].created
                 /\ sessions'[t].seen >= sessions[t].seen /\ sessions'[t].seen <= now'
                 /\ sessions'[t].expires <= sessions'[t].seen + SlidingTtl
                 /\ sessions'[t].expires <= sessions'[t].created + AbsoluteTtl
                 /\ sessions'[t].ended => ~sessions'[t].live
      <4>1. CASE t = s BY <1>1, <2>4, <2>5, <4>1
      <4>2. CASE t # s BY <1>1, <2>3, <2>5, <4>2
      <4> QED BY <4>1, <4>2
    <3> QED BY <2>3, <3>1 DEF RowsGrow
  <2> QED BY <1>2, <2>6, RowsGrowKeeps
<1> QED BY <1>3, <1>4

LEMMA SessionStep ==
  ASSUME TypeInv, TypeInv', SessionInv, [Next]_vars PROVE SessionInv'
<1> USE DEF At
<1>1. CASE Tick
  <2>1. now' = now + 1 /\ now \in Nat /\ sessions' = sessions /\ NoNewRenewal
    BY <1>1 DEF Tick, TypeInv, NoNewRenewal
  <2>2. \A t \in DOMAIN sessions : sessions[t].seen \in Int BY Row DEF SessionRow
  <2>3. RowsGrow BY <2>1, <2>2 DEF RowsGrow, SessionInv, SessionBounded, AbsoluteExpiry
  <2> QED BY <2>1, <2>3, RowsGrowKeeps
<1>2. ASSUME NEW s \in DOMAIN sessions, Logout(s) PROVE SessionInv'
  <2>1. RowsGrow /\ NoNewRenewal BY <1>2, RowsEnd DEF Logout, NoNewRenewal
  <2> QED BY <2>1, RowsGrowKeeps
<1>3. ASSUME NEW r \in Requests, DeleteSession(r) PROVE SessionInv'
  <2>1. NoNewRenewal BY <1>3, DoneElsewhere DEF DeleteSession
  <2>2. CASE request[r].session \in DOMAIN sessions
    <3>1. RowsGrow BY <1>3, <2>2, RowsEnd DEF DeleteSession
    <3> QED BY <2>1, <3>1, RowsGrowKeeps
  <2>3. CASE request[r].session \notin DOMAIN sessions
    <3>1. Ended(request[r].session) = sessions BY <2>3 DEF Ended, TypeInv
    <3> QED BY <1>3, <2>1, <3>1, RowsStay, RowsGrowKeeps DEF DeleteSession
  <2> QED BY <2>2, <2>3
<1>4. ASSUME NEW r \in Requests, CreateSession(r) PROVE SessionInv'
  <2> DEFINE new == NewSession(request[r].user)
  <2>1. NoNewRenewal /\ now' = now /\ now \in Nat BY <1>4, DoneElsewhere DEF CreateSession, TypeInv
  <2>2. /\ sessions' = Append(sessions, new) /\ sessions \in Seq(SessionRow)
    BY <1>4 DEF CreateSession, TypeInv
  <2>3. new \in SessionRow
    <3>1. request[r] \in Attempts BY <1>4, Shapes DEF CreateSession
    <3> QED BY <2>1, <3>1, Durations DEF NewSession, SessionRow, Attempts
  <2>4. /\ DOMAIN sessions' = 1..Len(sessions) + 1 /\ DOMAIN sessions = 1..Len(sessions)
        /\ \A t \in DOMAIN sessions : sessions'[t] = sessions[t]
        /\ sessions'[Len(sessions) + 1] = new /\ Len(sessions) \in Nat
    <3> HIDE DEF new
    <3> QED BY <2>2, <2>3
  <2>5. /\ new.seen = now /\ new.expires = now + SlidingTtl /\ new.created = now /\ ~new.ended
    BY DEF NewSession
  <2>6. \A t \in DOMAIN sessions : sessions[t].seen \in Int BY Row DEF SessionRow
  <2>7. ASSUME NEW t \in DOMAIN sessions
        PROVE  /\ t \in DOMAIN sessions' /\ sessions'[t].created = sessions[t].created
               /\ sessions'[t].seen >= sessions[t].seen /\ sessions'[t].seen <= now'
               /\ sessions'[t].expires <= sessions'[t].seen + SlidingTtl
               /\ sessions'[t].expires <= sessions'[t].created + AbsoluteTtl
               /\ sessions'[t].ended => ~sessions'[t].live
    BY <2>1, <2>4, <2>6 DEF SessionInv, SessionBounded, AbsoluteExpiry
  <2>8. new.expires <= new.created + AbsoluteTtl BY <2>1, <2>5, Durations, SlidingIsShorter
  <2>9. RowsGrow
    <3> HIDE DEF new
    <3>1. new.seen <= now' /\ new.expires <= new.seen + SlidingTtl /\ (new.ended => ~new.live)
      BY <2>1, <2>5, Durations
    <3>2. ASSUME NEW t \in DOMAIN sessions', t \notin DOMAIN sessions PROVE sessions'[t] = new
      BY <2>4, <3>2
    <3> QED BY <2>7, <2>8, <3>1, <3>2 DEF RowsGrow
  <2> QED BY <2>1, <2>9, RowsGrowKeeps
<1>5. ASSUME NEW r \in Requests, NEW purpose \in Purposes, NEW user \in Users,
             Attempt(r, purpose, user)
      PROVE  SessionInv'
  <2>1. \A pc \in {"expire", purpose} :
          [pc |-> pc, purpose |-> purpose, user |-> user].pc # "renew"
    BY DEF Purposes
  <2>2. NoNewRenewal BY <1>5, <2>1, BecomesElsewhere DEF Attempt, NoNewRenewal
  <2> QED BY <1>5, <2>2, RowsStay, RowsGrowKeeps DEF Attempt
<1>6. ASSUME NEW r \in Requests, StartClock(r) \/ VerifyPassword(r) \/ ProvisionTenant(r)
      PROVE  SessionInv'
  <2>1. request[r] \in Attempts /\ request[r].purpose # "renew"
    BY <1>6, Shapes DEF StartClock, VerifyPassword, ProvisionTenant, Attempts, Purposes
  <2>2. NoNewRenewal
    BY <1>6, <2>1, GoesElsewhere, DoneElsewhere DEF StartClock, VerifyPassword, ProvisionTenant
  <2> QED BY <1>6, <2>2, RowsStay, RowsGrowKeeps DEF StartClock, VerifyPassword, ProvisionTenant
<1>7. ASSUME NEW r \in Requests, Reserve(r) \/ Lookup(r) \/ Replay(r) PROVE SessionInv'
  <2>1. request[r] \in Calls \cup Answers BY <1>7, Shapes DEF Reserve, Lookup, Replay
  <2>2. NoNewRenewal
    BY <1>7, <2>1, GoesElsewhere, BecomesElsewhere, DoneElsewhere DEF Reserve, Lookup, Replay
  <2> QED BY <1>7, <2>2, RowsStay, RowsGrowKeeps DEF Reserve, Lookup, Replay
<1>8. ASSUME NEW r \in Requests,
             CreatePayment(r) \/ CreationFails(r) \/ ReleaseIdempotent(r) \/ SetCachedIdempotent(r)
      PROVE  SessionInv'
  <2>1. request[r] \in Calls \cup Answers
    BY <1>8, Shapes DEF CreatePayment, CreationFails, ReleaseIdempotent, SetCachedIdempotent
  <2>2. NoNewRenewal
    BY <1>8, <2>1, GoesElsewhere, BecomesElsewhere, DoneElsewhere
       DEF CreatePayment, CreationFails, ReleaseIdempotent, SetCachedIdempotent
  <2> QED BY <1>8, <2>2, RowsStay, RowsGrowKeeps
          DEF CreatePayment, CreationFails, ReleaseIdempotent, SetCachedIdempotent
<1>9. ASSUME NEW r \in Requests, Crash(r) PROVE SessionInv'
  BY <1>9, DoneElsewhere, RowsStay, RowsGrowKeeps DEF Crash
<1>10. CASE UNCHANGED vars
  BY <1>10, RowsStay, RowsGrowKeeps DEF vars, NoNewRenewal
<1>11. ASSUME NEW r \in Requests, NEW s \in DOMAIN sessions, NEW key \in Keys, ReadSession(r, s, key)
       PROVE  SessionInv'
  BY <1>11, ReadKeepsSessions
<1>12. ASSUME NEW r \in Requests, RenewSession(r) PROVE SessionInv' BY <1>12, RenewKeepsSessions
<1> QED BY <1>1, <1>2, <1>3, <1>4, <1>5, <1>6, <1>7, <1>8, <1>9, <1>10, <1>11, <1>12 DEF Next

\* Any number of requests may renew a session from rows they read at different
\* times while others end it (session.ts): it never outlives its window.
THEOREM SessionsAreBounded == Spec => []SessionBounded
<1>1. Init => SessionInv
  BY DEF Init, SessionInv, SessionBounded, AbsoluteExpiry, At, Idle
<1>2. TypeInv /\ TypeInv' /\ SessionInv /\ [Next]_vars => SessionInv' BY SessionStep
<1>3. SessionInv => SessionBounded BY DEF SessionInv
<1> QED BY <1>1, <1>2, <1>3, AccessTypes, PTL DEF Spec

-----------------------------------------------------------------------------
(* The Idempotency-Key.                                                    *)

Works(r, scope) == request[r].pc \in {"create", "finish", "release"} /\ request[r].scope = scope

\* A key whose record never lapsed and whose creation never failed late: one
\* request works under it at most, and only while the record says so.
OneWorker(scope) ==
  /\ \A i, j \in PaymentsOf(scope) : i = j
  /\ record[scope].value = Never => PaymentsOf(scope) = {}
  /\ \A r \in Requests : Works(r, scope) =>
       /\ record[scope].value = Pending
       /\ request[r].pc \in {"create", "release"} => PaymentsOf(scope) = {}
       /\ \A q \in Requests : Works(q, scope) => q = r

KeyInv ==
  /\ \A scope \in Scopes : record[scope].value > Pending => record[scope].value \in PaymentsOf(scope)
  /\ \A r \in Requests, scope \in Scopes :
       request[r].pc \in {"replay", "finish"} /\ request[r].scope = scope =>
         request[r].id \in PaymentsOf(scope)
  /\ \A scope \in Scopes \ (lapsed \cup late) : OneWorker(scope)

LEMMA KeyFrame ==
  ASSUME KeyInv, NEW r \in Requests, Others(r), UNCHANGED <<record, payments, lapsed, late>>,
         request'[r].pc \notin {"create", "finish", "release", "replay"}
  PROVE  KeyInv'
<1>1. \A scope : PaymentsOf(scope)' = PaymentsOf(scope) BY DEF PaymentsOf
<1>2. \A q \in Requests : \A scope : Works(q, scope)' => q # r /\ Works(q, scope) /\ request'[q] = request[q]
  BY DEF Works, Others
<1>3. \A q \in Requests : request'[q].pc \in {"replay", "finish"} => request'[q] = request[q]
  BY DEF Others
<1>4. \A scope \in Scopes : OneWorker(scope) => OneWorker(scope)'
  BY <1>1, <1>2 DEF OneWorker
<1> QED BY <1>1, <1>3, <1>4 DEF KeyInv

LEMMA KeyStays ==
  ASSUME KeyInv, UNCHANGED <<request, record, payments, lapsed, late>> PROVE KeyInv'
BY DEF KeyInv, OneWorker, Works, PaymentsOf

LEMMA ReserveKeepsKeys ==
  ASSUME TypeInv, KeyInv, NEW r \in Requests, Reserve(r) PROVE KeyInv'
<1> DEFINE scope == request[r].scope
<1>1. request[r] \in Calls /\ scope \in Scopes BY Shapes DEF Reserve, At, Calls
<1>2. \A s : PaymentsOf(s)' = PaymentsOf(s) BY DEF PaymentsOf, Reserve
<1>3. CASE record[scope].value # Never
  <2>1. Others(r) /\ request'[r].pc = "lookup" /\ UNCHANGED <<record, payments, lapsed, late>>
    BY <1>1, <1>3, GoOthers, GoKeeps DEF Reserve
  <2> QED BY <2>1, KeyFrame
<1>4. CASE record[scope].value = Never
  <2>1. Others(r) /\ request'[r].pc = "create" /\ request'[r].scope = scope
    BY <1>1, <1>4, GoOthers, GoKeeps DEF Reserve
  <2>2. /\ record'[scope].value = Pending /\ UNCHANGED <<payments, lapsed, late>>
        /\ \A s \in Scopes \ {scope} : record'[s] = record[s]
    BY <1>1, <1>4 DEF Reserve, Hold, TypeInv
  <2>3. \A q \in Requests : \A s : Works(q, s)' =>
          \/ q = r /\ s = scope
          \/ q # r /\ Works(q, s) /\ request'[q] = request[q]
    BY <2>1 DEF Works, Others
  <2>4. \A q \in Requests : request'[q].pc \in {"replay", "finish"} => request'[q] = request[q]
    BY <2>1 DEF Others
  <2>5. ASSUME NEW s \in Scopes, OneWorker(s) PROVE OneWorker(s)'
    <3>1. CASE s # scope BY <1>2, <2>2, <2>3, <2>5, <3>1 DEF OneWorker
    <3>2. CASE s = scope
      <4>1. PaymentsOf(s) = {} /\ \A q \in Requests : ~Works(q, s)
        BY <1>4, <2>5, <3>2 DEF OneWorker, Never, Pending
      <4>2. \A q \in Requests : Works(q, s)' => q = r BY <2>3, <4>1
      <4>3. PaymentsOf(s)' = {} BY <1>2, <4>1
      <4> QED BY <2>2, <3>2, <4>2, <4>3 DEF OneWorker
    <3> QED BY <3>1, <3>2
  <2>6. \A s \in Scopes : record'[s].value > Pending => record'[s].value \in PaymentsOf(s)'
    BY <1>2, <2>2 DEF KeyInv, Pending
  <2> QED BY <1>2, <2>2, <2>4, <2>5, <2>6 DEF KeyInv
<1> QED BY <1>3, <1>4

LEMMA LookupKeepsKeys ==
  ASSUME TypeInv, KeyInv, NEW r \in Requests, Lookup(r) PROVE KeyInv'
<1> DEFINE scope == request[r].scope
           value == record[scope].value
           reply == [pc |-> "replay", scope |-> scope, id |-> value]
<1>1. scope \in Scopes /\ value \in Nat \cup {Never} /\ UNCHANGED <<record, payments, lapsed, late>>
  BY Shapes DEF Lookup, At, Calls, TypeInv
<1>2. CASE value \in {Never, Pending}
  <2>1. Others(r) /\ request'[r] = Idle BY <1>2, BecomeOthers DEF Lookup, Done
  <2> QED BY <1>1, <2>1, KeyFrame DEF Idle
<1>3. CASE value \notin {Never, Pending}
  <2>1. Become(r, reply) BY <1>3 DEF Lookup
  <2>2. Others(r) /\ request'[r] = reply BY <2>1, BecomeOthers
  <2>3. \A s : PaymentsOf(s)' = PaymentsOf(s) BY <1>1 DEF PaymentsOf
  <2>4. value \in PaymentsOf(scope) BY <1>1, <1>3 DEF KeyInv, Pending
  <2>5. \A q \in Requests : \A s : Works(q, s)' => q # r /\ Works(q, s) /\ request'[q] = request[q]
    BY <2>2 DEF Works, Others
  <2>6. \A q \in Requests, s \in Scopes :
          request'[q].pc \in {"replay", "finish"} /\ request'[q].scope = s =>
            request'[q].id \in PaymentsOf(s)'
    BY <2>2, <2>3, <2>4 DEF Others, KeyInv
  <2>7. \A s \in Scopes : OneWorker(s) => OneWorker(s)' BY <1>1, <2>3, <2>5 DEF OneWorker
  <2> QED BY <1>1, <2>3, <2>6, <2>7 DEF KeyInv
<1> QED BY <1>2, <1>3

LEMMA CreateKeepsKeys ==
  ASSUME TypeInv, KeyInv, NEW r \in Requests, CreatePayment(r) PROVE KeyInv'
<1> DEFINE scope == request[r].scope
           id == Len(payments) + 1
           done == [pc |-> "finish", scope |-> scope, id |-> id]
<1>1. /\ scope \in Scopes /\ Works(r, scope) /\ request[r].pc = "create"
      /\ UNCHANGED <<record, lapsed, late>> /\ payments \in Seq(Scopes)
      /\ payments' = Append(payments, scope)
  BY Shapes DEF CreatePayment, At, Calls, Works, TypeInv
<1>2. Others(r) /\ request'[r] = done BY BecomeOthers DEF CreatePayment
<1>3. \A s : PaymentsOf(s)' = IF s = scope THEN PaymentsOf(s) \cup {id} ELSE PaymentsOf(s)
  <2>1. /\ DOMAIN payments' = DOMAIN payments \cup {id} /\ payments'[id] = scope
        /\ id \notin DOMAIN payments
        /\ \A i \in DOMAIN payments : payments'[i] = payments[i]
    <3> HIDE DEF scope
    <3> QED BY <1>1
  <2> HIDE DEF scope, id
  <2> QED BY <2>1 DEF PaymentsOf
<1>4. \A q \in Requests : \A s : Works(q, s)' => q = r \/ (Works(q, s) /\ request'[q] = request[q])
  <2>1. \A q \in Requests : q = r \/ request'[q] = request[q]
    <3> HIDE DEF done
    <3> QED BY <1>2 DEF Others
  <2> HIDE DEF done, scope, id
  <2> QED BY <2>1 DEF Works
<1>5. ASSUME NEW s \in Scopes, OneWorker(s) PROVE OneWorker(s)'
  <2>1. CASE s # scope
    <3>1. ~Works(r, s)' BY <1>2, <2>1 DEF Works
    <3> QED BY <1>1, <1>3, <1>4, <1>5, <2>1, <3>1 DEF OneWorker
  <2>2. CASE s = scope
    <3>1. /\ PaymentsOf(s) = {} /\ record[s].value = Pending
          /\ \A q \in Requests : Works(q, s) => q = r
      BY <1>1, <1>5, <2>2 DEF OneWorker
    <3>2. PaymentsOf(s)' = {id} BY <1>3, <2>2, <3>1
    <3>3. \A q \in Requests : Works(q, s)' => q = r BY <1>4, <3>1
    <3>4. record'[s].value = Pending /\ request'[r].pc = "finish" BY <1>1, <1>2, <3>1
    <3> QED BY <3>2, <3>3, <3>4 DEF OneWorker, Never, Pending
  <2> QED BY <2>1, <2>2
<1>6. \A s \in Scopes : record'[s].value > Pending => record'[s].value \in PaymentsOf(s)'
  BY <1>1, <1>3 DEF KeyInv
<1>7. ASSUME NEW q \in Requests, NEW s \in Scopes,
             request'[q].pc \in {"replay", "finish"}, request'[q].scope = s
      PROVE  request'[q].id \in PaymentsOf(s)'
  <2>1. CASE q = r BY <1>2, <1>3, <1>7, <2>1
  <2>2. CASE q # r
    <3>1. request'[q] = request[q] BY <1>2, <2>2 DEF Others
    <3>2. request[q].id \in PaymentsOf(s) BY <1>7, <3>1 DEF KeyInv
    <3> QED BY <1>3, <3>1, <3>2
  <2> QED BY <2>1, <2>2
<1> QED BY <1>1, <1>5, <1>6, <1>7 DEF KeyInv

LEMMA FailureKeepsKeys ==
  ASSUME TypeInv, KeyInv, NEW r \in Requests, CreationFails(r) PROVE KeyInv'
<1> DEFINE scope == request[r].scope
<1>1. /\ request[r] \in Calls \cup Answers /\ request[r].pc \in {"create", "finish"}
      /\ UNCHANGED <<record, payments, lapsed>> /\ Go(r, "release")
  BY Shapes DEF CreationFails
<1>2. Others(r) /\ request'[r].pc = "release" /\ request'[r].scope = scope
  BY <1>1, GoOthers, GoKeeps
<1>3. \A s : PaymentsOf(s)' = PaymentsOf(s) BY <1>1 DEF PaymentsOf
<1>4. \A q \in Requests : \A s : Works(q, s)' => Works(q, s) /\ (q # r => request'[q] = request[q])
  BY <1>1, <1>2 DEF Works, Others
<1>5. ASSUME NEW s \in Scopes, s \notin lapsed' \cup late' PROVE OneWorker(s)'
  <2>1. s \notin lapsed \cup late /\ (s = scope => request[r].pc = "create")
    BY <1>1, <1>5 DEF CreationFails, At
  <2>2. OneWorker(s) BY <2>1 DEF KeyInv
  <2>3. ASSUME NEW q \in Requests, Works(q, s)'
        PROVE  /\ record'[s].value = Pending
               /\ request'[q].pc \in {"create", "release"} => PaymentsOf(s)' = {}
               /\ \A p \in Requests : Works(p, s)' => p = q
    <3>1. Works(q, s) /\ \A p \in Requests : Works(p, s)' => p = q
      BY <1>4, <2>2, <2>3 DEF OneWorker
    <3>2. CASE q = r
      <4>1. s = scope BY <1>2, <2>3, <3>2 DEF Works
      <4> QED BY <1>1, <1>3, <2>1, <2>2, <3>1, <3>2, <4>1 DEF OneWorker
    <3>3. CASE q # r BY <1>1, <1>3, <1>4, <2>2, <2>3, <3>1, <3>3 DEF OneWorker
    <3> QED BY <3>1, <3>2, <3>3
  <2> QED BY <1>1, <1>3, <2>2, <2>3 DEF OneWorker
<1>6. \A q \in Requests : request'[q].pc \in {"replay", "finish"} => request'[q] = request[q]
  BY <1>2 DEF Others
<1> QED BY <1>1, <1>3, <1>5, <1>6 DEF KeyInv

LEMMA ReleaseKeepsKeys ==
  ASSUME TypeInv, KeyInv, NEW r \in Requests, ReleaseIdempotent(r) PROVE KeyInv'
<1> DEFINE scope == request[r].scope
<1>1. /\ scope \in Scopes /\ request[r].pc = "release" /\ UNCHANGED <<payments, lapsed, late>>
      /\ Works(r, scope)
  BY Shapes DEF ReleaseIdempotent, At, Calls, Answers, Works
<1>2. Others(r) /\ request'[r] = Idle BY BecomeOthers DEF ReleaseIdempotent, Done
<1>3. \A s : PaymentsOf(s)' = PaymentsOf(s) BY <1>1 DEF PaymentsOf
<1>4. record'[scope].value = Never /\ \A s \in Scopes \ {scope} : record'[s] = record[s]
  BY <1>1 DEF ReleaseIdempotent, TypeInv, NoRecord
<1>5. \A q \in Requests : \A s : Works(q, s)' => q # r /\ Works(q, s) /\ request'[q] = request[q]
  BY <1>2 DEF Works, Others, Idle
<1>6. ASSUME NEW s \in Scopes, OneWorker(s) PROVE OneWorker(s)'
  <2>1. CASE s # scope BY <1>3, <1>4, <1>5, <1>6, <2>1 DEF OneWorker
  <2>2. CASE s = scope
    <3>1. PaymentsOf(s) = {} /\ \A q \in Requests : Works(q, s) => q = r
      BY <1>1, <1>6, <2>2 DEF OneWorker
    <3>2. \A q \in Requests : ~Works(q, s)' BY <1>5, <3>1
    <3> QED BY <1>3, <3>1, <3>2 DEF OneWorker
  <2> QED BY <2>1, <2>2
<1>7. \A s \in Scopes : record'[s].value > Pending => record'[s].value \in PaymentsOf(s)'
  BY <1>3, <1>4 DEF KeyInv, Never, Pending
<1>8. \A q \in Requests : request'[q].pc \in {"replay", "finish"} => request'[q] = request[q]
  BY <1>2 DEF Others, Idle
<1> QED BY <1>1, <1>3, <1>6, <1>7, <1>8 DEF KeyInv

LEMMA FinishKeepsKeys ==
  ASSUME TypeInv, KeyInv, NEW r \in Requests, SetCachedIdempotent(r) PROVE KeyInv'
<1> DEFINE scope == request[r].scope
           id == request[r].id
<1>1. /\ scope \in Scopes /\ request[r].pc = "finish" /\ UNCHANGED <<payments, lapsed, late>>
      /\ Works(r, scope) /\ id \in PaymentsOf(scope)
  BY Shapes DEF SetCachedIdempotent, At, Answers, Works, KeyInv
<1>2. Others(r) /\ request'[r] = Idle BY BecomeOthers DEF SetCachedIdempotent, Done
<1>3. \A s : PaymentsOf(s)' = PaymentsOf(s) BY <1>1 DEF PaymentsOf
<1>4. record'[scope].value = id /\ \A s \in Scopes \ {scope} : record'[s] = record[s]
  BY <1>1 DEF SetCachedIdempotent, Hold, TypeInv
<1>5. \A q \in Requests : \A s : Works(q, s)' => q # r /\ Works(q, s) /\ request'[q] = request[q]
  BY <1>2 DEF Works, Others, Idle
<1>6. id # Never
  <2>1. id \in DOMAIN payments BY <1>1 DEF PaymentsOf
  <2> HIDE DEF id
  <2> QED BY <2>1 DEF TypeInv, Never
<1>7. ASSUME NEW s \in Scopes, OneWorker(s) PROVE OneWorker(s)'
  <2>1. CASE s # scope BY <1>3, <1>4, <1>5, <1>7, <2>1 DEF OneWorker
  <2>2. CASE s = scope
    <3>1. \A q \in Requests : Works(q, s) => q = r BY <1>1, <1>7, <2>2 DEF OneWorker
    <3>2. \A q \in Requests : ~Works(q, s)' BY <1>5, <3>1
    <3> QED BY <1>3, <1>4, <1>6, <1>7, <2>2, <3>2 DEF OneWorker
  <2> QED BY <2>1, <2>2
<1>8. \A s \in Scopes : record'[s].value > Pending => record'[s].value \in PaymentsOf(s)'
  BY <1>1, <1>3, <1>4 DEF KeyInv
<1>9. \A q \in Requests : request'[q].pc \in {"replay", "finish"} => request'[q] = request[q]
  BY <1>2 DEF Others, Idle
<1> QED BY <1>1, <1>3, <1>7, <1>8, <1>9 DEF KeyInv

LEMMA TickKeepsKeys ==
  ASSUME TypeInv, KeyInv, Tick PROVE KeyInv'
<1>1. UNCHANGED <<payments, request, late>> /\ lapsed \subseteq lapsed' BY DEF Tick
<1>2. \A s : PaymentsOf(s)' = PaymentsOf(s) BY <1>1 DEF PaymentsOf
<1>3. \A s \in Scopes : record'[s] = record[s] \/ (s \in lapsed' /\ record'[s] = NoRecord)
  <2> TAKE s \in Scopes
  <2>1. CASE Past(record[s].expires, now + 1)
    <3>1. s \in lapsed' BY <2>1 DEF Tick
    <3>2. record'[s] = NoRecord BY <2>1 DEF Tick
    <3> QED BY <3>1, <3>2
  <2>2. CASE ~Past(record[s].expires, now + 1)
    BY <2>2 DEF Tick
  <2> QED BY <2>1, <2>2
<1>4. \A q \in Requests : \A s : Works(q, s)' = Works(q, s) BY <1>1 DEF Works
<1>5. \A s \in Scopes \ (lapsed' \cup late') : record'[s] = record[s] /\ OneWorker(s)
  <2> TAKE s \in Scopes \ (lapsed' \cup late')
  <2> QED BY <1>1, <1>3 DEF KeyInv
<1>6. \A s \in Scopes \ (lapsed' \cup late') : OneWorker(s)'
  BY <1>1, <1>2, <1>4, <1>5 DEF OneWorker
<1>7. \A s \in Scopes : record'[s].value > Pending => record'[s].value \in PaymentsOf(s)'
  BY <1>2, <1>3 DEF KeyInv, NoRecord, Never, Pending
<1> QED BY <1>1, <1>2, <1>6, <1>7 DEF KeyInv

LEMMA KeyStep ==
  ASSUME TypeInv, KeyInv, [Next]_vars PROVE KeyInv'
<1>1. ASSUME NEW r \in Requests, NEW purpose \in Purposes, NEW user \in Users, Attempt(r, purpose, user)
      PROVE  KeyInv'
  <2>1. \A pc \in {"expire", purpose} :
          [pc |-> pc, purpose |-> purpose, user |-> user].pc
            \notin {"create", "finish", "release", "replay"}
    BY DEF Purposes
  <2>2. UNCHANGED <<record, payments, lapsed, late>> BY <1>1 DEF Attempt
  <2>3. CASE request' = request BY <2>2, <2>3, KeyStays
  <2>4. CASE request' # request
    <3>1. PICK pc \in {"expire", purpose} : Become(r, [pc |-> pc, purpose |-> purpose, user |-> user])
      BY <1>1, <2>4 DEF Attempt
    <3> QED BY <2>1, <2>2, <3>1, BecomeOthers, KeyFrame
  <2> QED BY <2>3, <2>4
<1>2. ASSUME NEW r \in Requests, StartClock(r) \/ VerifyPassword(r) \/ ProvisionTenant(r) PROVE KeyInv'
  <2>1. request[r] \in Attempts /\ UNCHANGED <<record, payments, lapsed, late>>
    BY <1>2, Shapes DEF StartClock, VerifyPassword, ProvisionTenant, At
  <2>2. ASSUME NEW pc \in {"login", "signup", "open"}, Go(r, pc) PROVE KeyInv'
    <3>1. Others(r) /\ request'[r].pc = pc BY <2>1, <2>2, GoOthers DEF Go, TypeInv, Attempts
    <3> QED BY <2>1, <3>1, KeyFrame
  <2>3. ASSUME Done(r) PROVE KeyInv'
    BY <2>1, <2>3, BecomeOthers, KeyFrame DEF Done, Idle
  <2>4. request[r].purpose \in {"login", "signup"} BY <2>1 DEF Attempts, Purposes
  <2> QED BY <1>2, <2>2, <2>3, <2>4 DEF StartClock, VerifyPassword, ProvisionTenant
<1>3. ASSUME NEW r \in Requests, CreateSession(r) \/ DeleteSession(r) \/ Replay(r) \/ Crash(r) PROVE KeyInv'
  BY <1>3, BecomeOthers, KeyFrame DEF CreateSession, DeleteSession, Replay, Crash, Done, Idle
<1>4. ASSUME NEW r \in Requests, NEW s \in DOMAIN sessions, NEW key \in Keys, ReadSession(r, s, key)
      PROVE  KeyInv'
  <2> DEFINE call(pc) == [pc |-> pc, session |-> s, scope |-> <<sessions[s].user, key>>,
                          until |-> RenewedUntil(s)]
  <2>1. PICK pc \in {"delete", "renew", "reserve"} : Become(r, call(pc)) BY <1>4 DEF ReadSession
  <2>2. UNCHANGED <<record, payments, lapsed, late>> BY <1>4 DEF ReadSession
  <2>3. Others(r) /\ request'[r].pc = pc BY <2>1, BecomeOthers
  <2> QED BY <2>2, <2>3, KeyFrame
<1>5. ASSUME NEW r \in Requests, RenewSession(r) PROVE KeyInv'
  <2>1. request[r] \in Calls /\ UNCHANGED <<record, payments, lapsed, late>>
    BY <1>5, Shapes DEF RenewSession, At
  <2>2. CASE Go(r, "reserve") BY <2>1, <2>2, GoOthers, GoKeeps, KeyFrame
  <2>3. CASE Done(r) BY <2>1, <2>3, BecomeOthers, KeyFrame DEF Done, Idle
  <2> QED BY <1>5, <2>2, <2>3 DEF RenewSession
<1>6. ASSUME NEW s \in DOMAIN sessions, Logout(s) PROVE KeyInv' BY <1>6, KeyStays DEF Logout
<1>7. CASE UNCHANGED vars BY <1>7, KeyStays DEF vars
<1> QED BY <1>1, <1>2, <1>3, <1>4, <1>5, <1>6, <1>7, TickKeepsKeys, ReserveKeepsKeys, LookupKeepsKeys,
           CreateKeepsKeys, FailureKeepsKeys, ReleaseKeepsKeys, FinishKeepsKeys DEF Next

\* For every number of concurrent requests, tenants and keys: the reservation
\* (idempotency.ts) lets one payment through, and a replay names that one.
THEOREM KeysMakeOnePayment == Spec => []KeyMakesOnePayment
<1>1. Init => KeyInv
  BY DEF Init, KeyInv, OneWorker, Works, PaymentsOf, Idle, NoRecord, Never, Pending
<1>2. TypeInv /\ KeyInv /\ [Next]_vars => KeyInv' BY KeyStep
<1>3. TypeInv /\ KeyInv => KeyMakesOnePayment
  BY Shapes DEF KeyInv, KeyMakesOnePayment, OneWorker, At
<1> QED BY <1>1, <1>2, <1>3, AccessTypes, PTL DEF Spec
=============================================================================
