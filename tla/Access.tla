------------------------------- MODULE Access -------------------------------
(***************************************************************************)
(* Who may act and how often: the login throttle (lib/auth/rate-limit.ts), *)
(* signup and login, sessions (lib/auth/session.ts; the receiver's twin    *)
(* lib/receiver/session.ts is the same code on its own table and cookie)   *)
(* and the Idempotency-Key of POST /api/payments (lib/idempotency.ts).     *)
(*                                                                         *)
(* Every call to Redis or PostgreSQL is a step of the request that makes   *)
(* it.  Time is in ticks; Redis drops a record when its time has come,     *)
(* while a session row stays until a request finds it expired.  The two    *)
(* counters of a login, by address and by name, behave alike: one stands   *)
(* for both.                                                               *)
(***************************************************************************)
EXTENDS Integers, Sequences, FiniteSetsExt

CONSTANTS
  Users,       \* usernames; a signup makes a tenant and its one administrator
  Keys,        \* values of the Idempotency-Key header
  Requests,    \* requests the web process may run at once
  Limits,      \* [login, signup], the attempts a window allows
  Window, SlidingTtl, AbsoluteTtl, ReserveTtl, KeyTtl,
  MaxTime, MaxSessions, MaxPayments, MaxFaults  \* bounds

Purposes == {"login", "signup"}

ASSUME AccessAssumption ==
  /\ Limits \in [Purposes -> Nat \ {0}]
  /\ {Window, SlidingTtl, AbsoluteTtl, ReserveTtl, KeyTtl} \subseteq Nat \ {0}
  /\ SlidingTtl <= AbsoluteTtl
  /\ {MaxTime, MaxSessions, MaxPayments, MaxFaults} \subseteq Nat

VARIABLES
  now,
  registered,  \* the User rows
  counter,     \* the throttle's counter of a purpose; count 0 while it does not exist
  sessions,    \* the Session rows; a deleted one is not live
  record,      \* what Redis holds under an Idempotency-Key of a tenant
  payments,    \* the Payment rows made under some key
  request,
  lapsed, late, crashed, faults  \* auxiliary: see Tick, CreationFails and Crash

vars == <<now, registered, counter, sessions, record, payments, request, lapsed, late, crashed, faults>>

Scopes  == Users \X Keys
Never   == -1
Pending == 0     \* IDEM_PENDING; any other value is a payment
NoRecord == [value |-> Never, expires |-> Never]
NoCounter == [count |-> 0, expires |-> Never]

Idle == [pc |-> "idle"]
At(r, pc) == request[r].pc = pc
Become(r, s) == request' = [request EXCEPT ![r] = s]
Go(r, pc) == request' = [request EXCEPT ![r].pc = pc]
Done(r) == Become(r, Idle)

Init ==
  /\ now = 0
  /\ registered = {}
  /\ counter = [u \in Purposes |-> NoCounter]
  /\ sessions = << >>
  /\ record = [s \in Scopes |-> NoRecord]
  /\ payments = << >>
  /\ request = [r \in Requests |-> Idle]
  /\ lapsed = {} /\ late = {} /\ crashed = {} /\ faults = 0

Past(expires, t) == expires # Never /\ expires <= t

\* A scope lapses when Redis drops what it holds.
Tick ==
  /\ now < MaxTime
  /\ now' = now + 1
  /\ counter' = [u \in Purposes |-> IF Past(counter[u].expires, now + 1) THEN NoCounter
                                    ELSE counter[u]]
  /\ record' = [s \in Scopes |-> IF Past(record[s].expires, now + 1) THEN NoRecord
                                 ELSE record[s]]
  /\ lapsed' = lapsed \cup {s \in Scopes : Past(record[s].expires, now + 1)}
  /\ UNCHANGED <<registered, sessions, payments, request, late, crashed, faults>>

-----------------------------------------------------------------------------
(* The throttle, login and signup. *)

\* INCR; only the first hit of a window goes on to EXPIRE.  A count over the limit
\* stays where it is: how far over makes no difference.
Attempt(r, purpose, user) ==
  LET count == Min({counter[purpose].count, Limits[purpose]}) + 1 IN
  /\ At(r, "idle")
  /\ counter' = [counter EXCEPT ![purpose].count = count]
  /\ IF count = 1 THEN Become(r, [pc |-> "expire", purpose |-> purpose, user |-> user])
     ELSE IF count > Limits[purpose] THEN UNCHANGED request
     ELSE Become(r, [pc |-> purpose, purpose |-> purpose, user |-> user])
  /\ UNCHANGED <<now, registered, sessions, record, payments, lapsed, late, crashed, faults>>

\* (fault) The clock is only started for a request that fails.
StartClockLater(r) ==
  /\ At(r, "expire")
  /\ Go(r, request[r].purpose)
  /\ UNCHANGED <<now, registered, counter, sessions, record, payments, lapsed, late, crashed, faults>>

\* EXPIRE: nothing when the counter is gone.
StartClock(r) ==
  LET purpose == request[r].purpose IN
  /\ At(r, "expire")
  /\ counter' = IF counter[purpose].count = 0 THEN counter
                ELSE [counter EXCEPT ![purpose].expires = now + Window]
  /\ Go(r, purpose)
  /\ UNCHANGED <<now, registered, sessions, record, payments, lapsed, late, crashed, faults>>

\* verifyPassword runs for an unknown name too; the password may be wrong.
VerifyPassword(r) ==
  /\ At(r, "login")
  /\ \/ request[r].user \in registered /\ Go(r, "open")
     \/ Done(r)
  /\ UNCHANGED <<now, registered, counter, sessions, record, payments, lapsed, late, crashed, faults>>

\* provisionTenant: the unique username turns the second signup into a 409.
ProvisionTenant(r) ==
  LET user == request[r].user IN
  /\ At(r, "signup")
  /\ registered' = registered \cup {user}
  /\ IF user \in registered THEN Done(r) ELSE Go(r, "open")
  /\ UNCHANGED <<now, counter, sessions, record, payments, lapsed, late, crashed, faults>>

\* The row also holds two auxiliary fields: when it was last used, how it ended.
NewSession(user) ==
  [user |-> user, created |-> now, expires |-> now + SlidingTtl, live |-> TRUE,
   seen |-> now, ended |-> FALSE]

CreateSession(r) ==
  /\ At(r, "open") /\ Len(sessions) < MaxSessions
  /\ sessions' = Append(sessions, NewSession(request[r].user))
  /\ Done(r)
  /\ UNCHANGED <<now, registered, counter, record, payments, lapsed, late, crashed, faults>>

-----------------------------------------------------------------------------
(* Sessions. *)

AbsoluteExpiry(s) == sessions[s].created + AbsoluteTtl
Expired(s) == sessions[s].expires <= now \/ now >= AbsoluteExpiry(s)
RenewedUntil(s) == Min({now + SlidingTtl, AbsoluteExpiry(s)})

\* getSessionUser's read, at the start of POST /api/payments.
ReadSession(r, s, key) ==
  LET call(pc) == [pc |-> pc, session |-> s, scope |-> <<sessions[s].user, key>>,
                   until |-> RenewedUntil(s)] IN
  /\ At(r, "idle") /\ sessions[s].live
  /\ IF Expired(s) THEN Become(r, call("delete")) /\ UNCHANGED sessions
     ELSE /\ Become(r, call(IF RenewedUntil(s) > sessions[s].expires THEN "renew" ELSE "reserve"))
          /\ sessions' = [sessions EXCEPT ![s].seen = now]
  /\ UNCHANGED <<now, registered, counter, record, payments, lapsed, late, crashed, faults>>

Ended(s) == [sessions EXCEPT ![s].live = FALSE, ![s].ended = TRUE]

DeleteSession(r) ==
  /\ At(r, "delete")
  /\ sessions' = Ended(request[r].session)
  /\ Done(r)
  /\ UNCHANGED <<now, registered, counter, record, payments, lapsed, late, crashed, faults>>

\* (fault) The renewal recreates the row when it is gone.
RenewAnyway(r) ==
  /\ At(r, "renew")
  /\ sessions' = [sessions EXCEPT ![request[r].session].live = TRUE,
                                  ![request[r].session].expires = request[r].until]
  /\ Go(r, "reserve")
  /\ UNCHANGED <<now, registered, counter, record, payments, lapsed, late, crashed, faults>>

\* The update fails, and the request with it, when a logout has deleted the row.
RenewSession(r) ==
  LET s == request[r].session IN
  /\ At(r, "renew")
  /\ IF sessions[s].live
     THEN sessions' = [sessions EXCEPT ![s].expires = request[r].until] /\ Go(r, "reserve")
     ELSE UNCHANGED sessions /\ Done(r)
  /\ UNCHANGED <<now, registered, counter, record, payments, lapsed, late, crashed, faults>>

\* destroySession deletes by the token.
Logout(s) ==
  /\ sessions[s].live
  /\ sessions' = Ended(s)
  /\ UNCHANGED <<now, registered, counter, record, payments, request, lapsed, late, crashed, faults>>

-----------------------------------------------------------------------------
(* POST /api/payments with an Idempotency-Key. *)

Hold(scope, value, ttl) ==
  record' = [record EXCEPT ![scope] = [value |-> value, expires |-> now + ttl]]

\* (fault) GET, then SET: no NX.
ReserveByReading(r) ==
  LET scope == request[r].scope IN
  /\ \/ /\ At(r, "reserve") /\ record[scope].value = Never
        /\ Go(r, "reserved") /\ UNCHANGED record
     \/ /\ At(r, "reserve") /\ record[scope].value # Never
        /\ Go(r, "lookup") /\ UNCHANGED record
     \/ At(r, "reserved") /\ Hold(scope, Pending, ReserveTtl) /\ Go(r, "create")
  /\ UNCHANGED <<now, registered, counter, sessions, payments, lapsed, late, crashed, faults>>

\* SET NX.
Reserve(r) ==
  LET scope == request[r].scope IN
  /\ At(r, "reserve")
  /\ IF record[scope].value = Never
     THEN Hold(scope, Pending, ReserveTtl) /\ Go(r, "create")
     ELSE UNCHANGED record /\ Go(r, "lookup")
  /\ UNCHANGED <<now, registered, counter, sessions, payments, lapsed, late, crashed, faults>>

\* The loser's GET: the winner's payment, or a 409.
Lookup(r) ==
  LET scope == request[r].scope
      value == record[scope].value
  IN
  /\ At(r, "lookup")
  /\ IF value \in {Never, Pending} THEN Done(r)
     ELSE Become(r, [pc |-> "replay", scope |-> scope, id |-> value])
  /\ UNCHANGED <<now, registered, counter, sessions, record, payments, lapsed, late, crashed, faults>>

Replay(r) ==
  /\ At(r, "replay")
  /\ Done(r)
  /\ UNCHANGED <<now, registered, counter, sessions, record, payments, lapsed, late, crashed, faults>>

\* createPayment, up to and with its insert.
CreatePayment(r) ==
  /\ At(r, "create") /\ Len(payments) < MaxPayments
  /\ payments' = Append(payments, request[r].scope)
  /\ Become(r, [pc |-> "finish", scope |-> request[r].scope, id |-> Len(payments) + 1])
  /\ UNCHANGED <<now, registered, counter, sessions, record, lapsed, late, crashed, faults>>

\* createPayment throws: before its insert, or late, when the queue refuses the job.
CreationFails(r) ==
  /\ request[r].pc \in {"create", "finish"} /\ faults < MaxFaults
  /\ faults' = faults + 1
  /\ late' = IF At(r, "finish") THEN late \cup {request[r].scope} ELSE late
  /\ Go(r, "release")
  /\ UNCHANGED <<now, registered, counter, sessions, record, payments, lapsed, crashed>>

\* DEL, whoever holds the key by now.
ReleaseIdempotent(r) ==
  /\ At(r, "release")
  /\ record' = [record EXCEPT ![request[r].scope] = NoRecord]
  /\ Done(r)
  /\ UNCHANGED <<now, registered, counter, sessions, payments, lapsed, late, crashed, faults>>

SetCachedIdempotent(r) ==
  /\ At(r, "finish")
  /\ Hold(request[r].scope, request[r].id, KeyTtl)
  /\ Done(r)
  /\ UNCHANGED <<now, registered, counter, sessions, payments, lapsed, late, crashed, faults>>

\* The process dies, or Redis or PostgreSQL fails the request's next call.  Between
\* INCR and EXPIRE this leaves a counter without a clock: crashed notes which one.
Crash(r) ==
  /\ ~At(r, "idle") /\ faults < MaxFaults
  /\ faults' = faults + 1
  /\ crashed' = crashed \cup (IF At(r, "expire") THEN {request[r].purpose} ELSE {})
  /\ Done(r)
  /\ UNCHANGED <<now, registered, counter, sessions, record, payments, lapsed, late>>

Next ==
  \/ Tick
  \/ \E s \in DOMAIN sessions : Logout(s)
  \/ \E r \in Requests :
       \/ \E purpose \in Purposes, user \in Users : Attempt(r, purpose, user)
       \/ \E s \in DOMAIN sessions, key \in Keys : ReadSession(r, s, key)
       \/ StartClock(r) \/ VerifyPassword(r) \/ ProvisionTenant(r) \/ CreateSession(r)
       \/ DeleteSession(r) \/ RenewSession(r)
       \/ Reserve(r) \/ Lookup(r) \/ Replay(r)
       \/ CreatePayment(r) \/ CreationFails(r) \/ ReleaseIdempotent(r) \/ SetCachedIdempotent(r)
       \/ Crash(r)

Spec == Init /\ [][Next]_vars
=============================================================================
