------------------------------- MODULE Clock -------------------------------
(***************************************************************************)
(* The millisecond counter of src/src/hal.cpp and the arithmetic on it.    *)
(* It is a uint32_t: it starts at 0, wraps after 49.7 days, and is negative *)
(* as an int32_t from its half on (24.8 days).                             *)
(***************************************************************************)
EXTENDS Integers

CONSTANT HalfWrap   \* 2^31

ASSUME ClockAssumption == HalfWrap \in Nat /\ HalfWrap >= 2

VARIABLE millis_count

Wrap == 2 * HalfWrap
Times == 0 .. Wrap - 1

(* Unsigned sums and differences, modulo 2^32 *)
M_PlusNoWrap(t, ms) == t + ms
Plus(t, ms) == IF t + ms >= Wrap THEN t + ms - Wrap ELSE t + ms
Minus(t, u) == IF t >= u THEN t - u ELSE t - u + Wrap

(* The same bits as an int32_t *)
Signed(t) == IF t < HalfWrap THEN t ELSE t - Wrap

(* "(int32_t)timeout - (int32_t)millis_count <= 0".  The difference may    *)
(* overflow, which is undefined: the processor's subtraction wraps, but    *)
(* a compiler may as well (gcc -Os does) compare the two numbers.          *)
M_UnsignedOrder(timeout) == {timeout <= millis_count}
HasExpired(timeout) ==
  { Signed(Minus(timeout, millis_count)) <= 0, Signed(timeout) <= Signed(millis_count) }
Overflows(timeout) ==
  Signed(timeout) - Signed(millis_count) \notin -HalfWrap .. HalfWrap - 1

(* sys_tick_handler *)
SysTick == millis_count' = Plus(millis_count, 1)
=============================================================================
