-------------------------- MODULE AccessProperties --------------------------
(* What the throttle, the sessions and the Idempotency-Key of Access       *)
(* promise.                                                                *)
EXTENDS Access

PaymentsOf(scope) == {i \in DOMAIN payments : payments[i] = scope}

\* "exactly one caller wins the reservation" (idempotency.ts:26): requests with one key,
\* concurrent or later, failed or crashed, make one payment, and a replay names a payment
\* of the same tenant made under that key.  A second payment takes a record that
\* lapsed (a reservation of a request slower than five minutes or dead, a key older
\* than a day) or a createPayment that failed after its insert, whose key the route
\* releases (payments/route.ts:53).
KeyMakesOnePayment ==
  \A scope \in Scopes :
    /\ (\A i, j \in PaymentsOf(scope) : i = j) \/ scope \in lapsed \cup late
    /\ record[scope].value > Pending => record[scope].value \in PaymentsOf(scope)
    /\ \A r \in Requests :
         At(r, "replay") /\ request[r].scope = scope => request[r].id \in PaymentsOf(scope)

\* No session outlives "24h sliding window" since its last use or "7d hard cap" since
\* the login, however renewals that read an older row interleave, and one that a
\* logout or an expiry has ended never comes back.
SessionBounded ==
  \A s \in DOMAIN sessions :
    /\ sessions[s].expires <= sessions[s].seen + SlidingTtl
    /\ sessions[s].expires <= AbsoluteExpiry(s)
    /\ sessions[s].ended => ~sessions[s].live

\* Whoever is locked out is let in again within a window ("retryAfterSec",
\* rate-limit.ts:18): the clock of a counter has started and runs out within a window
\* from now, however attempts, expiries and failures interleave.  The
\* INCR and the EXPIRE of rate-limit.ts are two calls: only the request between them
\* has left its counter without a clock so far, and only a request that died exactly
\* there has left that same counter without one for good.
LockoutEnds ==
  \A purpose \in Purposes : counter[purpose].count > 0 =>
    \/ now < counter[purpose].expires /\ counter[purpose].expires <= now + Window
    \/ /\ counter[purpose].expires = Never
       /\ \/ purpose \in crashed
          \/ \E r \in Requests : At(r, "expire") /\ request[r].purpose = purpose
=============================================================================
