------------------------------ MODULE Treasury ------------------------------
(***************************************************************************)
(* Treasury yield of one tenant (lib/yield): a new payment's idle balance  *)
(* is swept into a yield asset, and the payout route unwinds it again.     *)
(* The payment's own spine (lib/reconcile, modelled in Reconciliation)     *)
(* appears as the three status writes that meet the sweeps.                *)
(*                                                                         *)
(* A request is createPayment's tail or one call of the payout route.  The *)
(* swap is simulated by the code itself, so a failing unwind is a failing  *)
(* database call.  Amounts are in units of the eighth decimal, where the   *)
(* code rounds; a cent is Cent units.  Time held is in days.               *)
(***************************************************************************)
EXTENDS Integers, FiniteSets, FiniteSetsExt

CONSTANTS
  Payments,
  Requests,   \* requests the web process may run at once
  Sources,    \* source amounts
  Forms,      \* what an administrator may submit on the settings form
  Holds,      \* days between the sweep-in and the payout; negative is clock skew
  Cent,
  MaxFaults,  \* bound: failing steps of sweepOut
  MaxCrashes  \* bound: requests that die between two steps

Bps == 0 .. 10000
Config == [enabled : BOOLEAN, minIdleBuffer : Nat, sweepThreshold : Nat, feeBps : Bps]

ASSUME TreasuryAssumption ==
  /\ IsFiniteSet(Payments)
  /\ Sources \subseteq Nat /\ Holds \subseteq Int /\ Cent \in Nat \ {0}
  /\ MaxFaults \in Nat /\ MaxCrashes \in Nat

VARIABLES
  config,     \* the tenant's YieldConfig
  status,     \* Payment.status; "NONE" while the row does not exist
  position,   \* YieldPosition, with status "NONE" while the row does not exist
  onchain,    \* the ONCHAIN leg is confirmed
  paid,       \* the provider has been told to pay
  request,
  unseen,     \* auxiliary: payments a payout found without a position
  dropped,    \* auxiliary: requests whose last payout died or was answered with an error
  used        \* auxiliary: faults and crashes so far

vars == <<config, status, position, onchain, paid, request, unseen, dropped, used>>

Terminal == {"SETTLED", "FAILED"}

Idle == [pc |-> "idle"]
At(r, pc) == request[r].pc = pc
Become(r, s) == request' = [request EXCEPT ![r] = s]
Go(r, pc) == request' = [request EXCEPT ![r].pc = pc]

-----------------------------------------------------------------------------
(* The figures. *)

\* Decimal's toFixed: half up.
Round(a, b) == (2 * a + b) \div (2 * b)

SwapSlippageBps == 5
YieldApyPercent == 5

SweepAmount(source, c) ==
  IF ~c.enabled \/ source - c.minIdleBuffer < c.sweepThreshold THEN 0
  ELSE Max({0, source - c.minIdleBuffer})

\* What a swap of amount returns: par less the slippage.
Swapped(amount) == Round(amount * (10000 - SwapSlippageBps), 10000)

AccrueYield(principal, days) ==
  IF days <= 0 THEN 0 ELSE Round(principal * YieldApyPercent * days, 100 * 365)

FeeAmount(accrued, feeBps) == Round(accrued * feeBps, 10000)

-----------------------------------------------------------------------------
NoPosition ==
  [status |-> "NONE", principal |-> 0, sweptIn |-> 0, sweptOut |-> 0,
   accrued |-> 0, feeBps |-> 0, fee |-> 0]

Defaults == [enabled |-> FALSE, minIdleBuffer |-> 0, sweepThreshold |-> 0, feeBps |-> 0]

Init ==
  /\ config = Defaults
  /\ status = [p \in Payments |-> "NONE"]
  /\ position = [p \in Payments |-> NoPosition]
  /\ onchain = [p \in Payments |-> FALSE]
  /\ paid = [p \in Payments |-> FALSE]
  /\ request = [r \in Requests |-> Idle]
  /\ unseen = {}
  /\ dropped = {}
  /\ used = [faults |-> 0, crashes |-> 0]

\* A form with a field out of range is a 422.
Saved(form) == IF form \in Config THEN form ELSE config

\* The settings form always carries every field.
SaveYieldConfigAction ==
  /\ \E form \in Forms : config' = Saved(form)
  /\ UNCHANGED <<status, position, onchain, paid, request, unseen, dropped, used>>

-----------------------------------------------------------------------------
(* createPayment, from its insert on. *)

CreatePayment(r, p) ==
  /\ At(r, "idle") /\ status[p] = "NONE"
  /\ status' = [status EXCEPT ![p] = "PENDING"]
  /\ \E source \in Sources : Become(r, [pc |-> "sweepIn", payment |-> p, source |-> source])
  /\ UNCHANGED <<config, position, onchain, paid, unseen, dropped, used>>

\* sweepIn up to its transaction.
SweepInPlan(r) ==
  LET eligible == SweepAmount(request[r].source, config) IN
  /\ At(r, "sweepIn")
  /\ IF eligible = 0 THEN Become(r, Idle)
     ELSE Become(r, [pc |-> "sweptIn", payment |-> request[r].payment,
                     principal |-> eligible, feeBps |-> config.feeBps])
  /\ UNCHANGED <<config, status, position, onchain, paid, unseen, dropped, used>>

\* The transaction of sweepIn; paymentId is unique among the positions.
SweepInStore(r) ==
  LET p == request[r].payment
      principal == request[r].principal
  IN
  /\ At(r, "sweptIn") /\ position[p].status = "NONE"
  /\ position' = [position EXCEPT ![p] =
       [NoPosition EXCEPT !.status = "SWEPT_IN", !.principal = principal,
                          !.sweptIn = Swapped(principal), !.feeBps = request[r].feeBps]]
  /\ status' = IF status[p] = "PENDING" THEN [status EXCEPT ![p] = "SWEPT_IN"] ELSE status
  /\ Become(r, Idle)
  /\ UNCHANGED <<config, onchain, paid, unseen, dropped, used>>

\* createPayment swallows an error of sweepIn: the payment stays liquid.
SweepInFails(r) ==
  /\ request[r].pc \in {"sweepIn", "sweptIn"}
  /\ used.faults < MaxFaults
  /\ used' = [used EXCEPT !.faults = @ + 1]
  /\ Become(r, Idle)
  /\ UNCHANGED <<config, status, position, onchain, paid, unseen, dropped>>

-----------------------------------------------------------------------------
(* POST /api/mock-anchor/payout: sweepOut, then triggerMockPayout. *)

\* sweepOut's read, and its replies that need no unwind.
Payout(r, p) ==
  /\ At(r, "idle") /\ status[p] # "NONE"
  /\ IF position[p].status = "SWEPT_IN"
     THEN \E days \in Holds :
            LET accrued == AccrueYield(position[p].principal, days) IN
            Become(r, [pc |-> "unwind", payment |-> p, accrued |-> accrued,
                       fee |-> FeeAmount(accrued, position[p].feeBps),
                       gross |-> position[p].principal + accrued])
     ELSE Become(r, [pc |-> "payout", payment |-> p])
  /\ unseen' = IF position[p].status = "NONE" THEN unseen \cup {p} ELSE unseen
  /\ dropped' = dropped \ {r}
  /\ UNCHANGED <<config, status, position, onchain, paid, used>>

UnwoundBy(r) ==
  LET p == request[r].payment IN
  /\ position' = [position EXCEPT ![p].status = "SWEPT_OUT",
                                  ![p].sweptOut = Swapped(request[r].gross),
                                  ![p].accrued = request[r].accrued,
                                  ![p].fee = request[r].fee]
  /\ status' = IF status[p] \in Terminal THEN status
               ELSE [status EXCEPT ![p] = "SWEPT_OUT"]

\* (fault) The updateMany of the position is not guarded by its status.
UnwindAgain(r) ==
  /\ At(r, "unwind") /\ UnwoundBy(r) /\ Go(r, "payout")
  /\ UNCHANGED <<config, onchain, paid, unseen, dropped, used>>

Held(r) == At(r, "unwind") /\ position[request[r].payment].status = "SWEPT_IN"

\* sweepOut's transaction: the first unwind of a position wins.
Unwind(r) ==
  /\ \/ Held(r) /\ UnwoundBy(r) /\ Go(r, "payout")
     \/ At(r, "unwind") /\ ~Held(r) /\ Go(r, "reread") /\ UNCHANGED <<status, position>>
  /\ UNCHANGED <<config, onchain, paid, unseen, dropped, used>>

\* The loser reads the position of the winner (or of a fallback) and reports it.
Reread(r) ==
  /\ At(r, "reread")
  /\ Go(r, "payout")
  /\ UNCHANGED <<config, status, position, onchain, paid, unseen, dropped, used>>

\* A failing call of sweepOut; a commit whose reply is lost has been made.
UnwindThrows(r) ==
  /\ used.faults < MaxFaults
  /\ used' = [used EXCEPT !.faults = @ + 1]
  /\ \/ request[r].pc \in {"unwind", "reread"} /\ UNCHANGED <<status, position>>
     \/ Held(r) /\ UnwoundBy(r)
  /\ Go(r, "fallback")
  /\ UNCHANGED <<config, onchain, paid, unseen, dropped>>

\* (fault) The error is reported but the position is left as it is.
FallbackUnflagged(r) ==
  /\ At(r, "fallback")
  /\ Go(r, "payout")
  /\ UNCHANGED <<config, status, position, onchain, paid, unseen, dropped, used>>

\* (fault) The error reaches the route, which answers with it instead of paying.
FallbackRethrows(r) ==
  /\ At(r, "fallback")
  /\ position' = [position EXCEPT ![request[r].payment].status = "FAILED"]
  /\ Become(r, Idle)
  /\ UNCHANGED <<config, status, onchain, paid, unseen, dropped, used>>

\* The catch of sweepOut: FAILED whatever the position's status is by now.
Fallback(r) ==
  /\ At(r, "fallback")
  /\ position' = [position EXCEPT ![request[r].payment].status = "FAILED"]
  /\ Go(r, "payout")
  /\ UNCHANGED <<config, status, onchain, paid, unseen, dropped, used>>

\* That write is a call like any other: when it fails, sweepOut throws after all
\* and the route answers with the error instead of paying.
FallbackThrows(r) ==
  /\ At(r, "fallback")
  /\ used.faults < MaxFaults
  /\ used' = [used EXCEPT !.faults = @ + 1]
  /\ dropped' = dropped \cup {r}
  /\ Become(r, Idle)
  /\ UNCHANGED <<config, status, position, onchain, paid, unseen>>

TriggerPayout(r) ==
  /\ At(r, "payout")
  /\ paid' = [paid EXCEPT ![request[r].payment] = TRUE]
  /\ Become(r, Idle)
  /\ UNCHANGED <<config, status, position, onchain, unseen, dropped, used>>

Crash(r) ==
  /\ ~At(r, "idle") /\ used.crashes < MaxCrashes
  /\ used' = [used EXCEPT !.crashes = @ + 1]
  /\ dropped' = IF request[r].pc \in {"unwind", "reread", "fallback", "payout"}
                THEN dropped \cup {r} ELSE dropped
  /\ Become(r, Idle)
  /\ UNCHANGED <<config, status, position, onchain, paid, unseen>>

-----------------------------------------------------------------------------
(* The reconciliation spine. *)

\* The watcher's write, unguarded (watch-onchain.ts:48).
Confirm(p) ==
  /\ status[p] # "NONE" /\ ~onchain[p]
  /\ onchain' = [onchain EXCEPT ![p] = TRUE]
  /\ status' = [status EXCEPT ![p] = "ONCHAIN_CONFIRMED"]
  /\ UNCHANGED <<config, position, paid, request, unseen, dropped, used>>

\* tryReconcile settles from every status that is not terminal.
Settle(p) ==
  /\ paid[p] /\ onchain[p] /\ status[p] \notin Terminal
  /\ status' = [status EXCEPT ![p] = "SETTLED"]
  /\ UNCHANGED <<config, position, onchain, paid, request, unseen, dropped, used>>

\* A payment.failed event.
PayoutFails(p) ==
  /\ paid[p] /\ status[p] # "FAILED"
  /\ status' = [status EXCEPT ![p] = "FAILED"]
  /\ UNCHANGED <<config, position, onchain, paid, request, unseen, dropped, used>>

RequestStep(r) ==
  \/ SweepInPlan(r) \/ SweepInStore(r)
  \/ Unwind(r) \/ Reread(r) \/ Fallback(r) \/ TriggerPayout(r)

Next ==
  \/ SaveYieldConfigAction
  \/ \E r \in Requests : \/ RequestStep(r)
                         \/ SweepInFails(r) \/ UnwindThrows(r) \/ FallbackThrows(r) \/ Crash(r)
                         \/ \E p \in Payments : CreatePayment(r, p) \/ Payout(r, p)
  \/ \E p \in Payments : Confirm(p) \/ Settle(p) \/ PayoutFails(p)

\* Node runs every request it has accepted.
Spec == Init /\ [][Next]_vars /\ \A r \in Requests : WF_vars(RequestStep(r))
=============================================================================
