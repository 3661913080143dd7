------------------------------- MODULE Timing -------------------------------
(***************************************************************************)
(* The ways in which the firmware measures time, each against the time     *)
(* that really passes:                                                     *)
(*   - the driver's timeout (fusb302.cpp), compared with a margin;         *)
(*   - mcu_hal::has_expired (the keep-alive of pd_sink.cpp, the LED) and   *)
(*     mcu_hal::delay, which compare signed numbers;                       *)
(*   - the 60ms at start (main.cpp), an unsigned difference.               *)
(* They share the counter only, so one of them is under way at a time.     *)
(***************************************************************************)
EXTENDS Clock

CONSTANTS
  Margin,     \* 0x8000000 in has_timeout_expired
  DriverMs, KeepAliveMs, DelayMs, StartupMs   \* sets of durations

ASSUME TimingAssumption ==
  /\ Margin \in 0 .. HalfWrap
  /\ DriverMs \subseteq 0 .. Margin
  /\ KeepAliveMs \cup DelayMs \cup StartupMs \subseteq 0 .. HalfWrap - 1

VARIABLES
  wait,   \* what is under way: "none", "driver", "keep_alive", "delay", "startup"
  mark,   \* timeout_expiration, next_pps_request, target_time or start
  ms,     \* how long it was to be
  left    \* history: milliseconds to go, negative when they are over

timingVars == <<millis_count, wait, mark, ms, left>>

TimingInit == millis_count = 0 /\ wait = "none" /\ mark = 0 /\ ms = 0 /\ left = 0

Begin(kind, m, d) ==
  wait' = kind /\ mark' = m /\ ms' = d /\ left' = d /\ UNCHANGED millis_count
End == wait' = "none" /\ mark' = 0 /\ ms' = 0 /\ left' = 0 /\ UNCHANGED millis_count

(* fusb302::start_timeout may be called while a timeout is active. *)
StartTimeout ==
  \E d \in DriverMs :
    wait \in {"none", "driver"} /\ Begin("driver", Plus(millis_count, d), d)
CancelTimeout == wait = "driver" /\ End

(* fusb302::has_timeout_expired *)
M_PlainCompare == millis_count > mark
TimeoutExpired == Minus(mark, millis_count) > Margin
PollTimeout == wait = "driver" /\ TimeoutExpired /\ End

(* pd_sink: a request to a programmable supply, its repetition, and another *)
(* request                                                                 *)
RequestPps ==
  \E d \in KeepAliveMs :
    /\ wait = "none" \/ (wait = "keep_alive" /\ TRUE \in HasExpired(mark))
    /\ Begin("keep_alive", Plus(millis_count, d), d)
RequestFixed == wait = "keep_alive" /\ End

(* mcu_hal::delay *)
Delay ==
  \E d \in DelayMs : wait = "none" /\ Begin("delay", Plus(millis_count, d), d)
DelayOver == wait = "delay" /\ TRUE \in HasExpired(mark) /\ End

(* main: "Wait 60ms for button presses" *)
StartupWait == \E d \in StartupMs : wait = "none" /\ Begin("startup", millis_count, d)
StartupOver == Minus(millis_count, mark) >= ms
StartupDone == wait = "startup" /\ StartupOver /\ End

(* How late a timeout may be looked at without being misread: 48 days for  *)
(* the driver's, 24 for a signed one.  The program looks every millisecond. *)
Lateness ==
  CASE wait = "driver"  -> Wrap - Margin - 1
    [] wait = "startup" -> Wrap - 1 - ms
    [] OTHER            -> HalfWrap

Tick ==
  /\ SysTick
  /\ IF wait = "none" THEN UNCHANGED left ELSE left' = left - 1 /\ left > -Lateness
  /\ UNCHANGED <<wait, mark, ms>>

TimingNext ==
  \/ StartTimeout \/ CancelTimeout \/ PollTimeout \/ RequestPps \/ RequestFixed
  \/ Delay \/ DelayOver \/ StartupWait \/ StartupDone \/ Tick

TimingSpec == TimingInit /\ [][TimingNext]_timingVars

-----------------------------------------------------------------------------
(* Properties *)

(* The types: times stay within the counter's width. *)
TimingTypeOK ==
  /\ millis_count \in Times /\ mark \in Times
  /\ wait \in {"none", "driver", "keep_alive", "delay", "startup"}
  /\ ms \in 0 .. HalfWrap
  /\ left \in -Wrap .. ms

(* The driver's timeout has expired exactly when its time is over, and the *)
(* wait at start is over exactly then, at any value of the counter, across *)
(* its wrap, and however late within Lateness they are looked at.          *)
UnsignedExact ==
  /\ wait = "driver"  => (TimeoutExpired <=> left < 0)
  /\ wait = "startup" => (StartupOver <=> left <= 0)

(* "Returns if the specified timeout time has been reached or passed"      *)
(* (hal.h:143), and delay likewise, as long as the difference does not     *)
(* overflow, which the wrap of the counter does not make it do.            *)
IsSigned == wait \in {"keep_alive", "delay"}
SignedExact == IsSigned /\ ~Overflows(mark) => HasExpired(mark) = {left <= 0}

(* The same at any time, as the header says. *)
HasExpiredExact == IsSigned => HasExpired(mark) = {left <= 0}
=============================================================================
