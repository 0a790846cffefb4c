------------------------------ MODULE Timeval ------------------------------
(***************************************************************************)
(* Grpc\Timeval (src/src/timeval.rs) and what a call makes of one as its   *)
(* deadline (src/src/call.rs).  A script builds a Timeval, sleeps until it *)
(* or gives it to a unary call.  The call reads the clock four times: when *)
(* it is created, when it is dispatched, when it sets the request's        *)
(* timeout and when it starts its own timer; time passes in between.       *)
(*                                                                         *)
(* i64 is Min .. Max with Max a parameter; times are microseconds since    *)
(* the epoch.  The wall clock and the timers advance together.             *)
(***************************************************************************)
EXTENDS Integers

CONSTANTS
  Max,   \* i64::MAX
  MaxNow \* bound: the clock

ASSUME WidthAssumption == Max \in Nat /\ MaxNow \in Nat /\ MaxNow < Max

Min == -Max - 1
I64 == Min .. Max
Timevals == [usec : I64, is_span : BOOLEAN]

\* Saturating arithmetic of i64.
Clamp(x) == IF x > Max THEN Max ELSE IF x < Min THEN Min ELSE x
saturating_abs(x) == Clamp(IF x < 0 THEN -x ELSE x)

-----------------------------------------------------------------------------
(* Timeval *)

Tv(usec, is_span) == [usec |-> usec, is_span |-> is_span]

Infinite(t) == t.usec = Max \/ t.usec = Min

\* Mutant of add: the sum alone decides.
addPlain(self, other) == Tv(Clamp(self.usec + other.usec), self.is_span /\ other.is_span)

add(self, other) ==
  IF Infinite(self) THEN self
  ELSE Tv(Clamp(self.usec + other.usec), self.is_span /\ other.is_span)

subtract(self, other) ==
  IF Infinite(self) THEN self
  ELSE Tv(Clamp(self.usec - other.usec), self.is_span /\ other.is_span)

similar(a, b, threshold) ==
  saturating_abs(Clamp(a.usec - b.usec)) <= saturating_abs(threshold.usec)

\* Mutant of to_absolute_usec: a span is taken for a time.
to_absolute_usec_raw(t, now_usec) == t.usec

to_absolute_usec(t, now_usec) ==
  IF ~t.is_span \/ Infinite(t) THEN t.usec ELSE Clamp(now_usec + t.usec)

-----------------------------------------------------------------------------
(* Deadlines *)

\* A deadline that is set at all.
Real(d) == d > 0 /\ d < Max

deadline_already_expired(d, now_usec) == Real(d) /\ d <= now_usec

AtLeast(n, x) == IF x < n THEN n ELSE x

\* When a timer goes off; NoTimer is out of reach.
NoTimer == Max + 1

\* Mutant of deadline_instant: the remaining time is rounded down a unit.
deadline_instant_early(d, now_usec) ==
  IF Real(d) THEN now_usec + AtLeast(0, d - now_usec - 1) ELSE NoTimer

deadline_instant(d, now_usec) ==
  IF Real(d) THEN now_usec + AtLeast(0, d - now_usec) ELSE NoTimer

request_timeout(d, now_usec) ==
  IF Real(d) THEN now_usec + AtLeast(1, d - now_usec) ELSE NoTimer

\* Mutant of cancelled_to_php: only after the deadline, not at it.
cancelled_to_php_late(d, now_usec) ==
  IF Real(d) /\ now_usec > d THEN "DEADLINE_EXCEEDED" ELSE "CANCELLED"

\* status_to_php of a CANCELLED.
cancelled_to_php(d, now_usec) ==
  IF Real(d) /\ now_usec >= d THEN "DEADLINE_EXCEEDED" ELSE "CANCELLED"

-----------------------------------------------------------------------------
VARIABLES
  now,      \* the clock
  tv,       \* the Timeval the script has
  pc,       \* "script", or where the call or the sleep is
  deadline, \* deadline_usec of the call
  timeout,  \* when tonic's timer goes off, or the sleep ends
  instant,  \* when the call's own timer goes off
  code,     \* the status of the call
  cause     \* history: what ended it

callVars == <<deadline, timeout, instant, code, cause>>
vars == <<now, tv, pc, callVars>>

TypeOK ==
  /\ now \in 0 .. MaxNow
  /\ tv.usec \in I64
  /\ pc \in {"script", "created", "request", "timer", "wire", "over", "sleep", "slept"}
  /\ deadline \in I64
  /\ timeout \in Int /\ instant \in Int

Init ==
  /\ now \in 0 .. MaxNow
  /\ tv = Tv(0, TRUE)
  /\ pc = "script"
  /\ deadline = 0 /\ timeout = NoTimer /\ instant = NoTimer
  /\ code = "none" /\ cause = "none"

Have(t) ==
  /\ pc = "script"
  /\ tv' = t
  /\ UNCHANGED <<now, pc, callVars>>

\* A float is cut to an i64, which saturates; anything else throws.
Construct(usec) == Have(Tv(usec, TRUE))
Now == Have(Tv(now, FALSE))
InfFuture == Have(Tv(Max, FALSE))
InfPast == Have(Tv(Min, FALSE))
Zero == Have(Tv(0, TRUE))
Add(other) == Have(add(tv, other))
Subtract(other) == Have(subtract(tv, other))

\* sleepUntil
SleepUntil ==
  /\ pc = "script"
  /\ LET remaining == Clamp(tv.usec - now) IN
     IF remaining > 0 /\ tv.usec # Max
     THEN pc' = "sleep" /\ timeout' = now + remaining
     ELSE pc' = "slept" /\ UNCHANGED timeout
  /\ UNCHANGED <<now, tv, deadline, instant, code, cause>>

Wake ==
  /\ pc = "sleep" /\ now >= timeout
  /\ pc' = "slept"
  /\ UNCHANGED <<now, tv, callVars>>

\* Call::__construct
CreateCall ==
  /\ pc = "script"
  /\ pc' = "created"
  /\ deadline' = to_absolute_usec(tv, now)
  /\ UNCHANGED <<now, tv, timeout, instant, code, cause>>

End(status, why) ==
  /\ pc' = "over" /\ code' = status /\ cause' = why
  /\ UNCHANGED <<now, tv, deadline, timeout, instant>>

\* execute_call, after the pump
Dispatch ==
  /\ pc = "created"
  /\ \/ deadline_already_expired(deadline, now) /\ End("DEADLINE_EXCEEDED", "expired")
     \/ /\ ~deadline_already_expired(deadline, now)
        /\ pc' = "request"
        /\ UNCHANGED <<now, tv, callVars>>

\* request.set_timeout, which tonic starts to count no earlier.
SetTimeout ==
  /\ pc = "request"
  /\ pc' = "timer"
  /\ timeout' = request_timeout(deadline, now)
  /\ UNCHANGED <<now, tv, deadline, instant, code, cause>>

SetInstant ==
  /\ pc = "timer"
  /\ pc' = "wire"
  /\ instant' = deadline_instant(deadline, now)
  /\ UNCHANGED <<now, tv, deadline, timeout, code, cause>>

\* The select! of the call: its own timer, tonic's timer as a CANCELLED, or an
\* answer.
InstantFires == pc = "wire" /\ now >= instant /\ End("DEADLINE_EXCEEDED", "instant")

TimeoutFires ==
  /\ pc = "wire" /\ now >= timeout
  /\ End(cancelled_to_php(deadline, now), "timeout")

Answered == pc = "wire" /\ End("OK", "answer")

Tick ==
  /\ now < MaxNow
  /\ now' = now + 1
  /\ UNCHANGED <<tv, pc, callVars>>

Script ==
  \/ \E usec \in I64 : Construct(usec)
  \/ Now
  \/ InfFuture
  \/ InfPast
  \/ Zero
  \/ \E other \in Timevals : Add(other)
  \/ \E other \in Timevals : Subtract(other)
  \/ SleepUntil
  \/ CreateCall

Next ==
  \/ Script
  \/ Wake
  \/ Dispatch
  \/ SetTimeout
  \/ SetInstant
  \/ InstantFires
  \/ TimeoutFires
  \/ Answered
  \/ Tick

Spec == Init /\ [][Next]_vars

-----------------------------------------------------------------------------
(* Properties *)

\* Whatever timer fires first, an expired deadline is reported as
\* DEADLINE_EXCEEDED, never as the CANCELLED of tonic's timeout, although the two
\* timers and status_to_php read the clock at different times.
TimeoutIsDeadline ==
  cause \in {"expired", "instant", "timeout"} => code = "DEADLINE_EXCEEDED"

\* No call is ended by its deadline before the deadline, or without one.
NeverEarly ==
  cause \in {"expired", "instant", "timeout"} => Real(deadline) /\ deadline <= now

\* What makes both inductive: no timer is set to go off before the deadline.
TimersInv ==
  /\ TypeOK
  /\ pc # "over" => cause = "none"
  /\ pc \in {"timer", "wire"} =>
       timeout >= deadline /\ (~Real(deadline) => timeout = NoTimer)
  /\ pc = "wire" =>
       instant >= deadline /\ (~Real(deadline) => instant = NoTimer)
  /\ TimeoutIsDeadline
  /\ NeverEarly

\* A TIMESPAN as a deadline means the same as now() plus the span, for every span
\* but infPast's: to_absolute_usec and add agree, at the infinities too.
SpanIsFromNow ==
  \A usec \in I64 \ {Min} :
    to_absolute_usec(Tv(usec, TRUE), now) =
      to_absolute_usec(add(Tv(now, FALSE), Tv(usec, TRUE)), now)

\* add and subtract, on every Timeval a script can get to: "inf +- finite == inf",
\* and else the exact sum or difference when it fits.
ArithmeticSaturates ==
  \A other \in Timevals :
    LET sum == add(tv, other).usec
        diff == subtract(tv, other).usec
    IN IF Infinite(tv) THEN sum = tv.usec /\ diff = tv.usec
       ELSE /\ tv.usec + other.usec \in I64 => sum = tv.usec + other.usec
            /\ tv.usec - other.usec \in I64 => diff = tv.usec - other.usec

\* similar is symmetric and compares distances: values further apart than an i64
\* can tell are similar only for an infinite threshold.
SimilarIsDistance ==
  \A other, threshold \in Timevals :
    LET Distance(x, y) == IF x < y THEN y - x ELSE x - y
    IN /\ similar(tv, other, threshold) <=> similar(other, tv, threshold)
       /\ similar(tv, other, threshold) <=>
            \/ Distance(tv.usec, other.usec) <= Distance(threshold.usec, 0)
            \/ saturating_abs(threshold.usec) = Max

-----------------------------------------------------------------------------
\* "Blocks until this (absolute) time has been reached" (timeval.rs,
\* sleep_until): not met, infFuture() returns at once.
SleepReaches == (pc = "slept" /\ ~tv.is_span) => now >= tv.usec
=============================================================================
