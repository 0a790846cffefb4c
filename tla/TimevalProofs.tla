--------------------------- MODULE TimevalProofs ---------------------------
(***************************************************************************)
(* Proofs about Timeval, for every width of the integer and every clock.   *)
(***************************************************************************)
EXTENDS Timeval, TLAPS

\* A saturating operation yields an i64.
LEMMA ClampInRange == \A x \in Int : Clamp(x) \in I64
BY WidthAssumption DEF Clamp, I64, Min

\* The fields of a new Timeval.
LEMMA TvFields ==
  ASSUME NEW usec, NEW is_span
  PROVE  Tv(usec, is_span).usec = usec /\ Tv(usec, is_span).is_span = is_span
BY DEF Tv

\* Timeval::add and Timeval::subtract yield an i64.
LEMMA AddInRange ==
  ASSUME NEW a, NEW b \in Timevals, a.usec \in I64
  PROVE  add(a, b).usec \in I64 /\ subtract(a, b).usec \in I64
BY ClampInRange, WidthAssumption
DEF add, subtract, Tv, Infinite, Timevals, I64, Min

\* Timeval::to_absolute_usec yields an i64.
LEMMA ToAbsoluteInRange ==
  ASSUME NEW t, t.usec \in I64, NEW n \in 0 .. MaxNow
  PROVE  to_absolute_usec(t, n) \in I64
BY ClampInRange, WidthAssumption DEF to_absolute_usec, I64, Min

\* Before the first call no timer is set.
LEMMA TimersInitial == Init => TimersInv
BY WidthAssumption
DEF Init, TimersInv, TypeOK, TimeoutIsDeadline, NeverEarly, Tv, I64, Min, NoTimer

\* What a script does with its Timevals touches no timer of a call under way;
\* the deadline of a new call is an i64.
LEMMA ScriptKeeps == TimersInv /\ Script => TimersInv'
<1> SUFFICES ASSUME TimersInv, Script PROVE TimersInv'
  OBVIOUS
<1> USE DEF TimersInv, TypeOK, TimeoutIsDeadline, NeverEarly
<1>1. ASSUME NEW t, t.usec \in I64, Have(t) PROVE TimersInv'
  BY <1>1 DEF Have, callVars
<1>2. /\ \A usec \in I64 : Tv(usec, TRUE).usec \in I64
      /\ Tv(now, FALSE).usec \in I64 /\ Tv(Max, FALSE).usec \in I64
      /\ Tv(Min, FALSE).usec \in I64 /\ Tv(0, TRUE).usec \in I64
  BY WidthAssumption DEF Tv, I64, Min
<1>3. CASE SleepUntil
  <2>1. Clamp(tv.usec - now) \in Int
    BY ClampInRange, WidthAssumption DEF I64, Min
  <2> QED
    BY <1>3, <2>1 DEF SleepUntil
<1>4. CASE CreateCall
  BY <1>4, ToAbsoluteInRange DEF CreateCall
<1> QED
  BY <1>1, <1>2, <1>3, <1>4, AddInRange
  DEF Script, Construct, Now, InfFuture, InfPast, Zero, Add, Subtract

\* Every timer execute_call sets is at or after the deadline, and there is none
\* without a deadline.
LEMMA TimersKeep == TimersInv /\ [Next]_vars => TimersInv'
<1> SUFFICES ASSUME TimersInv, [Next]_vars PROVE TimersInv'
  OBVIOUS
<1> USE WidthAssumption DEF TimersInv, TypeOK, TimeoutIsDeadline, NeverEarly, callVars
<1>1. CASE Script
  BY <1>1, ScriptKeeps
<1>2. CASE Wake
  BY <1>2 DEF Wake
<1>3. CASE Dispatch
  BY <1>3 DEF Dispatch, End, deadline_already_expired
<1>4. CASE SetTimeout
  BY <1>4 DEF SetTimeout, request_timeout, AtLeast, NoTimer, Real, I64, Min
<1>5. CASE SetInstant
  BY <1>5 DEF SetInstant, deadline_instant, AtLeast, NoTimer, Real, I64, Min
<1>6. CASE InstantFires
  BY <1>6 DEF InstantFires, End, NoTimer, I64, Min
<1>7. CASE TimeoutFires
  BY <1>7 DEF TimeoutFires, End, cancelled_to_php, NoTimer, I64, Min
<1>8. CASE Answered
  BY <1>8 DEF Answered, End
<1>9. CASE Tick
  BY <1>9 DEF Tick, I64, Min
<1>10. CASE UNCHANGED vars
  BY <1>10 DEF vars
<1> QED
  BY <1>1, <1>2, <1>3, <1>4, <1>5, <1>6, <1>7, <1>8, <1>9, <1>10 DEF Next

\* The timers of a call never go off before its deadline, whatever its value
\* (deadline_instant, request.set_timeout).
THEOREM TimersHold == Spec => []TimersInv
BY TimersInitial, TimersKeep, PTL DEF Spec

\* A deadline that ends a call is reported as DEADLINE_EXCEEDED, whichever of the
\* timers of execute_call fires first and however much time passes between them.
THEOREM DeadlineReported == Spec => []TimeoutIsDeadline
<1>1. TimersInv => TimeoutIsDeadline
  BY DEF TimersInv
<1> QED
  BY <1>1, TimersHold, PTL

\* No deadline ends a call early (deadline_instant, request.set_timeout).
THEOREM DeadlineNotEarly == Spec => []NeverEarly
<1>1. TimersInv => NeverEarly
  BY DEF TimersInv
<1> QED
  BY <1>1, TimersHold, PTL

\* A span as a deadline is now() plus the span, the infinite future included
\* (Timeval::to_absolute_usec against Timeval::add).
THEOREM SpanFromNow == Spec => []SpanIsFromNow
<1>1. TimersInv => SpanIsFromNow
  <2> SUFFICES ASSUME TimersInv, NEW usec \in I64 \ {Min}
               PROVE  to_absolute_usec(Tv(usec, TRUE), now) =
                        to_absolute_usec(add(Tv(now, FALSE), Tv(usec, TRUE)), now)
    BY DEF SpanIsFromNow
  <2>1. now \in Nat /\ now < Max
    BY WidthAssumption DEF TimersInv, TypeOK
  <2> DEFINE sum == add(Tv(now, FALSE), Tv(usec, TRUE))
  <2>2. Tv(now, FALSE).usec = now /\ Tv(usec, TRUE).usec = usec
    BY TvFields, Zenon
  <2>3. ~Infinite(Tv(now, FALSE))
    <3>1. now # Max /\ now # Min
      BY <2>1, WidthAssumption DEF Min
    <3> QED
      BY <2>2, <3>1, Zenon DEF Infinite
  <2>4. sum.usec = Clamp(now + usec) /\ sum.is_span = FALSE
    <3>1. Tv(now, FALSE).is_span = FALSE
      BY TvFields, Zenon
    <3>2. (Tv(now, FALSE).is_span /\ Tv(usec, TRUE).is_span) = FALSE
      BY <3>1, Zenon
    <3>3. sum = Tv(Clamp(now + usec), FALSE)
      BY <2>2, <2>3, <3>2, Zenon DEF add
    <3>4. /\ Tv(Clamp(now + usec), FALSE).usec = Clamp(now + usec)
          /\ Tv(Clamp(now + usec), FALSE).is_span = FALSE
      BY TvFields, Zenon
    <3> HIDE DEF sum
    <3> QED
      BY <3>3, <3>4, Zenon
  <2>5. to_absolute_usec(sum, now) = Clamp(now + usec)
    BY <2>4 DEF to_absolute_usec
  <2>6. to_absolute_usec(Tv(usec, TRUE), now) =
          IF usec = Max THEN usec ELSE Clamp(now + usec)
    <3>1. Tv(usec, TRUE).is_span = TRUE
      BY TvFields, Zenon
    <3> QED
      BY <2>2, <3>1 DEF to_absolute_usec, Infinite
  <2>7. usec = Max => Clamp(now + usec) = Max
    BY <2>1, WidthAssumption DEF Clamp, Min
  <2> QED
    BY <2>5, <2>6, <2>7
<1> QED
  BY <1>1, TimersHold, PTL

\* similar is symmetric and exact up to saturation (Timeval::similar).
THEOREM SimilarExact == Spec => []SimilarIsDistance
<1>1. TimersInv => SimilarIsDistance
  BY WidthAssumption
  DEF TimersInv, TypeOK, SimilarIsDistance, similar, saturating_abs, Clamp, Timevals,
      I64, Min
<1> QED
  BY <1>1, TimersHold, PTL

\* add and subtract keep infinities and are exact where the result fits
\* (Timeval::add, Timeval::subtract).
THEOREM ArithmeticExact == Spec => []ArithmeticSaturates
<1>1. TimersInv => ArithmeticSaturates
  BY WidthAssumption
  DEF TimersInv, TypeOK, ArithmeticSaturates, add, subtract, Tv, Infinite, Clamp,
      Timevals, I64, Min
<1> QED
  BY <1>1, TimersHold, PTL
=============================================================================
