----------------------------- MODULE TimingProofs -----------------------------
(***************************************************************************)
(* Proofs about Timing and Hal: for every width of the counter and every   *)
(* margin, durations are measured right across its wrap, the LED flashes   *)
(* as it was told and presses of the button are told apart by their time.  *)
(***************************************************************************)
EXTENDS Timing, Hal, TLAPS

-----------------------------------------------------------------------------
(* The counter *)

LEMMA TimesWrap == HalfWrap \in Int /\ HalfWrap >= 2 /\ Wrap = 2 * HalfWrap /\ Times = 0 .. Wrap - 1
BY ClockAssumption DEF Wrap, Times

(* Sums and differences stay within the counter's width and are what the   *)
(* numbers' are, up to one turn.                                           *)
LEMMA PlusTurns ==
  ASSUME NEW t \in Times, NEW d \in 0 .. HalfWrap
  PROVE  Plus(t, d) \in Times /\ Plus(t, d) - t - d \in {0, -Wrap}
BY TimesWrap DEF Plus

LEMMA MinusTurns ==
  ASSUME NEW t \in Times, NEW u \in Times
  PROVE  Minus(t, u) \in Times /\ Minus(t, u) - (t - u) \in {0, Wrap}
BY TimesWrap DEF Minus

LEMMA SignedTurns ==
  ASSUME NEW t \in Times
  PROVE  Signed(t) \in -HalfWrap .. HalfWrap - 1 /\ t - Signed(t) \in {0, Wrap}
BY TimesWrap DEF Signed

-----------------------------------------------------------------------------
(* The inductive invariant: mark and counter are apart by what is left, up *)
(* to turns of the counter; and what is left is not so far below 0 that it *)
(* could be taken for a time still to come.                                *)

IsEnd == wait \in {"driver", "keep_alive", "delay"}

MarkInStep ==
  /\ IsEnd => mark - millis_count - left \in {-Wrap, 0, Wrap}
  /\ wait = "startup" => millis_count - mark - (ms - left) \in {-Wrap, 0}

InTime ==
  /\ left >= -Lateness
  /\ wait = "driver" => ms <= Margin
  /\ wait \in {"keep_alive", "delay", "startup"} => ms < HalfWrap

TimingInv == TimingTypeOK /\ MarkInStep /\ InTime

LEMMA InitInv == TimingInit => TimingInv
BY TimesWrap, TimingAssumption
   DEF TimingInit, TimingInv, TimingTypeOK, MarkInStep, InTime, IsEnd, Lateness

(* A new time to wait for, given as its end *)
LEMMA BeginEnd ==
  ASSUME TimingInv,
         NEW kind \in {"driver", "keep_alive", "delay"}, NEW d \in 0 .. HalfWrap,
         kind = "driver" => d <= Margin,
         kind # "driver" => d < HalfWrap,
         Begin(kind, Plus(millis_count, d), d)
  PROVE  TimingInv'
<1>1. Plus(millis_count, d) \in Times /\ Plus(millis_count, d) - millis_count - d \in {0, -Wrap}
  BY PlusTurns DEF TimingInv, TimingTypeOK
<1>2. TimingTypeOK'
  BY <1>1, TimesWrap DEF TimingInv, TimingTypeOK, Begin
<1>3. MarkInStep'
  BY <1>1, TimesWrap DEF TimingInv, TimingTypeOK, Begin, MarkInStep, IsEnd
<1>4. InTime'
  <2>1. wait' = kind /\ ms' = d /\ left' = d
    BY DEF Begin
  <2>2. Lateness' = IF kind = "driver" THEN Wrap - Margin - 1 ELSE HalfWrap
    BY <2>1 DEF Lateness
  <2>3. d >= -Lateness'
    BY <2>2, TimesWrap, TimingAssumption
  <2>4. QED  BY <2>1, <2>3 DEF InTime
<1>5. QED  BY <1>2, <1>3, <1>4 DEF TimingInv

LEMMA BeginStartup ==
  ASSUME TimingInv, NEW d \in 0 .. HalfWrap - 1, Begin("startup", millis_count, d)
  PROVE  TimingInv'
BY TimesWrap, TimingAssumption
   DEF TimingInv, TimingTypeOK, MarkInStep, InTime, IsEnd, Lateness, Begin

LEMMA EndKeeps ==
  ASSUME TimingInv, End
  PROVE  TimingInv'
BY TimesWrap, TimingAssumption
   DEF TimingInv, TimingTypeOK, MarkInStep, InTime, IsEnd, Lateness, End

(* The counter goes on: the distances stay the same up to turns. *)
LEMMA EndTurns ==
  ASSUME NEW W \in Nat, NEW m \in 0 .. W - 1, NEW c \in Int, NEW d \in 0 .. W - 1,
         NEW l \in Int, l - 1 > -W,
         m - c - l = -W \/ m - c - l = 0 \/ m - c - l = W,
         d - c = 1 \/ d - c = 1 - W
  PROVE  m - d - (l - 1) = -W \/ m - d - (l - 1) = 0 \/ m - d - (l - 1) = W
OBVIOUS

LEMMA StartTurns ==
  ASSUME NEW W \in Nat, NEW m \in 0 .. W - 1, NEW c \in Int, NEW d \in 0 .. W - 1,
         NEW e \in 0 .. W - 2,
         c - m - e = -W \/ c - m - e = 0,
         d - c = 1 \/ d - c = 1 - W
  PROVE  d - m - (e + 1) = -W \/ d - m - (e + 1) = 0
OBVIOUS

LEMMA TickKeeps ==
  ASSUME TimingInv, Tick
  PROVE  TimingInv'
<1>1. millis_count' \in Times /\ millis_count' - millis_count \in {1, 1 - Wrap}
  <2>1. millis_count' = Plus(millis_count, 1) /\ millis_count \in Times /\ 1 \in 0 .. HalfWrap
    BY TimesWrap DEF TimingInv, TimingTypeOK, Tick, SysTick
  <2>2. Plus(millis_count, 1) \in Times /\ Plus(millis_count, 1) - millis_count - 1 \in {0, -Wrap}
    BY <2>1, PlusTurns
  <2>3. QED  BY <2>1, <2>2, TimesWrap
<1>2. Lateness' = Lateness /\ Lateness \in 0 .. Wrap - 1
  <2>1. Lateness' = Lateness
    BY DEF Tick, Lateness
  <2>2. Wrap = 2 * HalfWrap /\ HalfWrap \in Nat /\ HalfWrap >= 2 /\ Margin \in 0 .. HalfWrap
    BY TimesWrap, TimingAssumption
  <2>3. ms \in 0 .. HalfWrap /\ (wait = "startup" => ms < HalfWrap)
    BY DEF TimingInv, TimingTypeOK, InTime
  <2>4. Lateness \in 0 .. Wrap - 1
    BY <2>2, <2>3 DEF Lateness
  <2>5. QED  BY <2>1, <2>4
<1>3. left' \in Int /\ left' <= left /\ left' >= -Lateness
  BY <1>2 DEF TimingInv, TimingTypeOK, InTime, Tick
<1>4. TimingTypeOK'
  BY <1>1, <1>2, <1>3, TimesWrap DEF TimingInv, TimingTypeOK, Tick
<1>5. InTime'
  BY <1>2, <1>3 DEF TimingInv, InTime, Tick
<1>6. ASSUME IsEnd'  PROVE mark' - millis_count' - left' \in {-Wrap, 0, Wrap}
  <2>1. mark' = mark /\ left' = left - 1 /\ mark - millis_count - left \in {-Wrap, 0, Wrap}
    BY <1>6 DEF TimingInv, MarkInStep, IsEnd, Tick
  <2>2. /\ mark \in 0 .. Wrap - 1 /\ millis_count \in Int /\ left \in Int /\ Wrap \in Nat
        /\ left - 1 > -Wrap /\ millis_count' \in 0 .. Wrap - 1
    BY <1>1, <1>2, <1>3, <2>1, TimesWrap DEF TimingInv, TimingTypeOK
  <2> DEFINE d == millis_count'
  <2>3. /\ d \in 0 .. Wrap - 1
        /\ d - millis_count = 1 \/ d - millis_count = 1 - Wrap
        /\ mark - millis_count - left = -Wrap \/ mark - millis_count - left = 0
           \/ mark - millis_count - left = Wrap
    BY <1>1, <2>1, <2>2
  <2>4. \/ mark - d - (left - 1) = -Wrap \/ mark - d - (left - 1) = 0
        \/ mark - d - (left - 1) = Wrap
    <3> HIDE DEF d
    <3> QED BY ONLY <2>2, <2>3, EndTurns
  <2>5. mark - d - (left - 1) \in {-Wrap, 0, Wrap}
    BY ONLY <2>4
  <2>6. QED  BY ONLY <2>1, <2>5
<1>7. ASSUME wait' = "startup"  PROVE millis_count' - mark' - (ms' - left') \in {-Wrap, 0}
  <2>1. /\ mark' = mark /\ ms' = ms /\ left' = left - 1
        /\ millis_count - mark - (ms - left) \in {-Wrap, 0}
        /\ Lateness = Wrap - 1 - ms
    BY <1>7 DEF TimingInv, MarkInStep, Tick, Lateness
  <2>2. /\ mark \in 0 .. Wrap - 1 /\ millis_count \in Int /\ Wrap \in Nat
        /\ millis_count' \in 0 .. Wrap - 1 /\ ms \in Int /\ left \in Int
        /\ ms - left \in 0 .. Wrap - 2
    BY <1>1, <1>3, <2>1, TimesWrap DEF TimingInv, TimingTypeOK
  <2> DEFINE d == millis_count'
             e == ms - left
  <2>6. /\ d \in 0 .. Wrap - 1 /\ e \in 0 .. Wrap - 2
        /\ d - millis_count = 1 \/ d - millis_count = 1 - Wrap
        /\ millis_count - mark - e = -Wrap \/ millis_count - mark - e = 0
    BY <1>1, <2>1, <2>2
  <2>7. d - mark - (e + 1) = -Wrap \/ d - mark - (e + 1) = 0
    <3> HIDE DEF d, e
    <3> QED BY ONLY <2>2, <2>6, StartTurns
  <2>3. millis_count' - mark - (ms - left + 1) \in {-Wrap, 0}
    BY ONLY <2>7
  <2>4. ms' - left' = ms - left + 1
    BY <2>1, <2>2
  <2>5. QED  BY <2>1, <2>3, <2>4
<1>8. QED  BY <1>4, <1>5, <1>6, <1>7 DEF TimingInv, MarkInStep

LEMMA StepInv == TimingInv /\ [TimingNext]_timingVars => TimingInv'
<1> SUFFICES ASSUME TimingInv, [TimingNext]_timingVars PROVE TimingInv'
  OBVIOUS
<1>1. CASE StartTimeout
  BY <1>1, BeginEnd, TimesWrap, TimingAssumption DEF StartTimeout
<1>2. CASE CancelTimeout \/ PollTimeout \/ RequestFixed \/ DelayOver \/ StartupDone
  BY <1>2, EndKeeps DEF CancelTimeout, PollTimeout, RequestFixed, DelayOver, StartupDone
<1>3. CASE RequestPps
  BY <1>3, BeginEnd, TimesWrap, TimingAssumption DEF RequestPps
<1>4. CASE Delay
  BY <1>4, BeginEnd, TimesWrap, TimingAssumption DEF Delay
<1>5. CASE StartupWait
  BY <1>5, BeginStartup, TimesWrap, TimingAssumption DEF StartupWait
<1>6. CASE Tick
  BY <1>6, TickKeeps
<1>7. CASE UNCHANGED timingVars
  BY <1>7 DEF timingVars, TimingInv, TimingTypeOK, MarkInStep, InTime, IsEnd, Lateness
<1>8. QED  BY <1>1, <1>2, <1>3, <1>4, <1>5, <1>6, <1>7 DEF TimingNext

(* What is left is known up to turns of the counter in every state. *)
THEOREM TimingInvariance == TimingSpec => []TimingInv
BY InitInv, StepInv, PTL DEF TimingSpec

(* Times stay within the counter's width (TimingTypeOK). *)
THEOREM TimingTypes == TimingSpec => []TimingTypeOK
<1>1. TimingInv => TimingTypeOK
  BY DEF TimingInv
<1>2. QED  BY <1>1, TimingInvariance, PTL

-----------------------------------------------------------------------------
(* What is read from the counter *)

LEMMA DriverExact ==
  ASSUME TimingInv, wait = "driver"
  PROVE  TimeoutExpired <=> left < 0
<1>1. Minus(mark, millis_count) \in Times
      /\ Minus(mark, millis_count) - (mark - millis_count) \in {0, Wrap}
  BY MinusTurns DEF TimingInv, TimingTypeOK
<1>2. mark - millis_count - left \in {-Wrap, 0, Wrap}
  BY DEF TimingInv, MarkInStep, IsEnd
<1>3. left \in -(Wrap - Margin - 1) .. Margin
  BY TimesWrap, TimingAssumption DEF TimingInv, TimingTypeOK, InTime, Lateness
<1>4. QED
  BY <1>1, <1>2, <1>3, TimesWrap, TimingAssumption DEF TimeoutExpired, TimingInv, TimingTypeOK

LEMMA StartupExact ==
  ASSUME TimingInv, wait = "startup"
  PROVE  StartupOver <=> left <= 0
<1>1. Minus(millis_count, mark) \in Times
      /\ Minus(millis_count, mark) - (millis_count - mark) \in {0, Wrap}
  BY MinusTurns DEF TimingInv, TimingTypeOK
<1>2. millis_count - mark - (ms - left) \in {-Wrap, 0}
  BY DEF TimingInv, MarkInStep
<1>3. ms - left \in 0 .. Wrap - 1
  BY TimesWrap, TimingAssumption DEF TimingInv, TimingTypeOK, InTime, Lateness
<1>4. QED
  BY <1>1, <1>2, <1>3, TimesWrap DEF StartupOver, TimingInv, TimingTypeOK

(* The driver's timeout and the wait at start are over exactly when their  *)
(* time is (UnsignedExact), whatever the counter's width.                  *)
THEOREM UnsignedExactHolds == TimingSpec => []UnsignedExact
<1>1. TimingInv => UnsignedExact
  BY DriverExact, StartupExact DEF UnsignedExact
<1>2. QED  BY <1>1, TimingInvariance, PTL

LEMMA ExpiredExact ==
  ASSUME NEW t \in Times, millis_count \in Times, NEW l \in -HalfWrap .. HalfWrap - 1,
         t - millis_count - l \in {-Wrap, 0, Wrap}, ~Overflows(t)
  PROVE  HasExpired(t) = {l <= 0}
<1> DEFINE diff == Minus(t, millis_count)
<1>1. diff \in Times /\ diff - (t - millis_count) \in {0, Wrap}
  BY MinusTurns
<1>2. Signed(diff) \in -HalfWrap .. HalfWrap - 1 /\ diff - Signed(diff) \in {0, Wrap}
  BY <1>1, SignedTurns
<1>3. /\ Signed(t) \in -HalfWrap .. HalfWrap - 1 /\ t - Signed(t) \in {0, Wrap}
      /\ Signed(millis_count) \in -HalfWrap .. HalfWrap - 1
      /\ millis_count - Signed(millis_count) \in {0, Wrap}
  BY SignedTurns
<1>4. t \in Int /\ millis_count \in Int
  BY TimesWrap
<1>5. Signed(diff) = l
  BY <1>1, <1>2, <1>4, TimesWrap
<1>6. Signed(t) - Signed(millis_count) = l
  BY <1>3, <1>4, TimesWrap DEF Overflows
<1>7. (Signed(t) <= Signed(millis_count)) <=> (l <= 0)
  BY <1>3, <1>6, TimesWrap
<1> HIDE DEF diff
<1>8. HasExpired(t) = {Signed(diff) <= 0, Signed(t) <= Signed(millis_count)}
  BY DEF HasExpired, diff
<1> QED BY <1>5, <1>7, <1>8

(* A signed comparison is right unless it overflows (SignedExact), however *)
(* it is compiled: the wrap of the counter does it no harm.                *)
THEOREM SignedExactHolds == TimingSpec => []SignedExact
<1>1. TimingInv => SignedExact
  <2> SUFFICES ASSUME TimingInv, IsSigned, ~Overflows(mark)
               PROVE  HasExpired(mark) = {left <= 0}
    BY DEF SignedExact
  <2>1. mark \in Times /\ millis_count \in Times
    BY DEF TimingInv, TimingTypeOK
  <2>2. left \in -HalfWrap .. HalfWrap - 1
    BY TimesWrap DEF TimingInv, TimingTypeOK, InTime, Lateness, IsSigned
  <2>3. mark - millis_count - left \in {-Wrap, 0, Wrap}
    BY DEF TimingInv, MarkInStep, IsEnd, IsSigned
  <2> QED BY <2>1, <2>2, <2>3, ExpiredExact
<1>2. QED  BY <1>1, TimingInvariance, PTL

-----------------------------------------------------------------------------
(* LED and button: what HalTypeOK, LedKeepsTime and ButtonTimed need to be *)
(* inductive.  The history is in step with the marks of the code, up to    *)
(* turns of the counter, and no older than the polls allow.                *)

LedPhaseEnd == IF is_led_on THEN led_on ELSE led_on + led_off

LedInStep ==
  led_off # 0 /\ ~led_overflow =>
    led_timeout - millis_count - (LedPhaseEnd - led_age) \in {-Wrap, 0, Wrap}

LedAges ==
  /\ led_age \in Nat
  /\ led_off = 0 => is_led_on
  /\ led_off # 0 /\ ~led_overflow =>
       /\ is_led_on  => led_age <= led_on + lag
       /\ ~is_led_on => led_on <= led_age /\ led_age <= led_on + led_off + lag

HeldInStep == is_button_down => Minus(millis_count, last_button_change_time) = held

HeldAges ==
  IF ~is_button_down THEN held = 0
  ELSE /\ button_pin => held <= MaxHeld
       /\ held <= MaxHeld + lag + (IF h_pc = "idle" THEN 0 ELSE MaxLag)

HalInv == HalTypeOK /\ LedInStep /\ LedAges /\ HeldInStep /\ HeldAges

LEMMA HalConstants ==
  /\ MaxLag \in Nat /\ MaxLag >= 1 /\ MaxHeld \in Nat /\ MaxHeld + 2 * MaxLag < Wrap
  /\ DebounceMs \in Nat /\ LongPressMs \in Nat
BY HalAssumption DEF Wrap

LEMMA PatternSet ==
  ASSUME NEW p \in Patterns
  PROVE  /\ p = [color |-> p.color, on |-> p.on, off |-> p.off]
         /\ p.on \in Nat /\ p.off \in Nat /\ p.on + p.off + 2 * MaxLag < HalfWrap
         /\ p.off = 0 \/ p.off >= MaxLag
BY HalAssumption

LEMMA PatternShown ==
  ASSUME HalTypeOK
  PROVE  /\ led_on \in Nat /\ led_off \in Nat
         /\ led_off # 0 => led_on + led_off + 2 * MaxLag < HalfWrap /\ led_off >= MaxLag
<1> DEFINE p == [color |-> led_color, on |-> led_on, off |-> led_off]
<1>1. p.on = led_on /\ p.off = led_off
  OBVIOUS
<1>2. p \in Patterns \/ p = [color |-> "off", on |-> 0, off |-> 0]
  BY DEF HalTypeOK
<1>3. CASE p \in Patterns
  <2> HIDE DEF p
  <2>1. /\ p.on \in Nat /\ p.off \in Nat /\ p.on + p.off + 2 * MaxLag < HalfWrap
        /\ p.off = 0 \/ p.off >= MaxLag
    BY ONLY <1>3, PatternSet
  <2> QED BY ONLY <1>1, <2>1
<1>4. CASE p = [color |-> "off", on |-> 0, off |-> 0]
  BY <1>4
<1> QED BY <1>2, <1>3, <1>4

LEMMA HalTimes ==
  ASSUME HalTypeOK
  PROVE  /\ millis_count \in Times /\ led_timeout \in Times /\ last_button_change_time \in Times
         /\ is_led_on \in BOOLEAN /\ is_button_down \in BOOLEAN /\ button_pin \in BOOLEAN
         /\ button_has_been_pressed \in BOOLEAN /\ led_overflow \in BOOLEAN
         /\ lag \in 0 .. MaxLag /\ held \in Nat
BY HalConstants DEF HalTypeOK

LEMMA InitHal == HalInit => HalInv
<1> SUFFICES ASSUME HalInit PROVE HalInv
  OBVIOUS
<1>1. HalTypeOK
  <2>1. {millis_count, led_timeout, last_button_change_time} \subseteq Times
    BY TimesWrap DEF HalInit
  <2>2. {is_led_on, is_button_down, button_has_been_pressed, button_pin, led_overflow} \subseteq BOOLEAN
    BY DEF HalInit
  <2> QED BY <2>1, <2>2, HalConstants DEF HalInit, HalTypeOK
<1>2. LedInStep /\ LedAges /\ HeldAges
  BY HalConstants DEF HalInit, LedInStep, LedAges, HeldAges
<1>3. HeldInStep
  BY DEF HalInit, HeldInStep
<1> QED BY <1>1, <1>2, <1>3 DEF HalInv

-----------------------------------------------------------------------------
(* The LED *)

(* A pattern begins: the LED is lit until its time on is over. *)
LEMMA ShowKeeps ==
  ASSUME HalInv, NEW c, NEW on \in Nat, NEW off \in Nat, ShowLed(c, on, off), led_age' = 0,
         off # 0 => on < HalfWrap, UNCHANGED millis_count
  PROVE  led_timeout' \in Times /\ LedInStep'
<1> DEFINE d == IF off # 0 THEN on ELSE HalfWrap - 1
<1>1. d \in 0 .. HalfWrap
  BY TimesWrap
<1>2. led_timeout' = Plus(millis_count, d) /\ millis_count \in Times
  BY HalTimes DEF HalInv, ShowLed, LedTimeout
<1>3. led_timeout' \in Times /\ led_timeout' - millis_count - d \in {0, -Wrap}
  BY <1>1, <1>2, PlusTurns
<1>4. LedInStep'
  <2> SUFFICES ASSUME led_off' # 0
               PROVE  led_timeout' - millis_count' - (LedPhaseEnd' - led_age') \in {-Wrap, 0, Wrap}
    BY DEF LedInStep
  <2>1. led_off' = off /\ led_on' = on /\ is_led_on' = TRUE
    BY DEF ShowLed
  <2>2. d = on /\ LedPhaseEnd' - led_age' = on
    BY <2>1 DEF LedPhaseEnd
  <2> QED BY <1>3, <2>2
<1> QED BY <1>3, <1>4

LEMMA SetLedKeeps ==
  ASSUME HalInv, SetLed
  PROVE  HalInv'
<1>1. PICK p \in Patterns : ShowLed(p.color, p.on, p.off)
  BY DEF SetLed
<1>2. /\ p = [color |-> p.color, on |-> p.on, off |-> p.off]
      /\ p.on \in Nat /\ p.off \in Nat /\ p.on + p.off + 2 * MaxLag < HalfWrap
  BY PatternSet
<1>3. p.on < HalfWrap
  BY ONLY <1>2, HalConstants, TimesWrap
<1>4. led_timeout' \in Times /\ LedInStep'
  BY <1>1, <1>2, <1>3, ShowKeeps DEF SetLed
<1>5. HalTypeOK'
  BY <1>1, <1>2, <1>4 DEF SetLed, ShowLed, HalInv, HalTypeOK, buttonVars
<1>6. LedAges'
  BY <1>1, <1>2, HalTimes, HalConstants DEF SetLed, ShowLed, HalInv, LedAges
<1>7. HeldInStep' /\ HeldAges'
  BY DEF SetLed, HalInv, HeldInStep, HeldAges, Minus, Wrap, buttonVars
<1> QED BY <1>4, <1>5, <1>6, <1>7 DEF HalInv

(* Short of an overflow, has_expired is right about the LED's time. *)
LEMMA LedExact ==
  ASSUME HalInv, led_off # 0, ~led_overflow, ~Overflows(led_timeout)
  PROVE  HasExpired(led_timeout) = {led_age >= LedPhaseEnd}
<1> DEFINE l == LedPhaseEnd - led_age
<1>1. /\ led_on \in Nat /\ led_off \in Nat /\ led_on + led_off + 2 * MaxLag < HalfWrap
      /\ lag \in 0 .. MaxLag /\ is_led_on \in BOOLEAN
      /\ led_timeout \in Times /\ millis_count \in Times
  BY PatternShown, HalTimes DEF HalInv
<1>2. led_age \in 0 .. led_on + led_off + MaxLag /\ LedPhaseEnd \in 0 .. led_on + led_off
  <2>1. is_led_on => led_age <= led_on + lag
    BY DEF HalInv, LedAges
  <2>2. ~is_led_on => led_age <= led_on + led_off + lag
    BY DEF HalInv, LedAges
  <2>3. led_age \in Nat
    BY DEF HalInv, LedAges
  <2>4. led_age <= led_on + led_off + MaxLag
    BY <1>1, <2>1, <2>2, <2>3, HalConstants
  <2>5. LedPhaseEnd \in 0 .. led_on + led_off
    BY <1>1 DEF LedPhaseEnd
  <2> QED BY <1>1, <2>3, <2>4, <2>5, HalConstants
<1>3. l \in -HalfWrap .. HalfWrap - 1
  BY <1>1, <1>2, HalConstants, TimesWrap
<1>4. led_timeout - millis_count - l \in {-Wrap, 0, Wrap}
  BY DEF HalInv, LedInStep
<1>5. (l <= 0) <=> (led_age >= LedPhaseEnd)
  BY <1>2
<1>6. HasExpired(led_timeout) = {l <= 0}
  <2> HIDE DEF l
  <2> QED BY <1>1, <1>3, <1>4, ExpiredExact
<1> QED BY <1>5, <1>6

LEMMA DarkTurns ==
  ASSUME NEW W \in Nat, NEW h \in Nat, W = 2 * h, NEW t \in 0 .. W - 1, NEW u \in 0 .. W - 1,
         NEW c \in 0 .. W - 1, NEW l \in Int, NEW d \in Nat, l + d \in -h .. h,
         t - c - l = -W \/ t - c - l = 0 \/ t - c - l = W,
         u - t - d = 0 \/ u - t - d = -W
  PROVE  u - c - (l + d) = -W \/ u - c - (l + d) = 0 \/ u - c - (l + d) = W
OBVIOUS

LEMMA UpdateLedKeeps ==
  ASSUME HalInv, UpdateLed
  PROVE  HalInv'
<1>1. PICK e \in HasExpired(led_timeout) :
        IF e THEN NextPhase
        ELSE UNCHANGED <<led_color, led_on, led_off, is_led_on, led_timeout, led_pins, led_age>>
  BY DEF UpdateLed
<1>2. /\ led_overflow' = (led_overflow \/ Overflows(led_timeout)) /\ lag' = 0 /\ h_pc' = "button"
      /\ UNCHANGED <<millis_count, buttonVars, button_pin>> /\ h_pc = "idle"
  BY DEF UpdateLed
<1>3. /\ led_on \in Nat /\ led_off \in Nat
      /\ led_off # 0 => led_on + led_off + 2 * MaxLag < HalfWrap /\ led_off >= MaxLag
      /\ lag \in 0 .. MaxLag
  BY PatternShown, HalTimes DEF HalInv
<1>4. HeldInStep' /\ HeldAges'
  BY <1>2, <1>3, HalConstants, HalTimes
     DEF HalInv, HeldInStep, HeldAges, Minus, Wrap, buttonVars
<1>5. HalTypeOK' /\ LedInStep' /\ LedAges'
  <2>1. CASE ~e
    <3>1. HalTypeOK'
      BY <1>1, <1>2, <2>1, HalConstants, HalTimes DEF HalInv, HalTypeOK, buttonVars
    <3>2. LedInStep'
      BY <1>1, <1>2, <2>1 DEF HalInv, LedInStep, LedPhaseEnd
    <3>3. LedAges'
      <4> SUFFICES ASSUME led_off # 0, ~led_overflow'
                   PROVE  /\ is_led_on  => led_age <= led_on
                          /\ ~is_led_on => led_on <= led_age /\ led_age <= led_on + led_off
        BY <1>1, <1>2, <1>3, <2>1 DEF HalInv, LedAges
      <4>1. ~led_overflow /\ ~Overflows(led_timeout)
        BY <1>2
      <4>2. e = (led_age >= LedPhaseEnd)
        BY <1>1, <4>1, LedExact
      <4>5. ~(led_age >= LedPhaseEnd)
        BY ONLY <2>1, <4>2, Zenon
      <4>3. led_age < LedPhaseEnd /\ led_age \in Nat
        BY <1>3, <4>5 DEF HalInv, LedAges, LedPhaseEnd
      <4>4. ~is_led_on => led_on <= led_age
        BY <4>1 DEF HalInv, LedAges
      <4> QED BY <1>3, <4>3, <4>4 DEF LedPhaseEnd
    <3> QED BY <3>1, <3>2, <3>3
  <2>2. CASE e /\ GoesDark
    <3>1. /\ led_pins' = "off" /\ is_led_on' = FALSE /\ led_timeout' = Plus(led_timeout, led_off)
          /\ UNCHANGED <<led_color, led_on, led_off, led_age>> /\ is_led_on /\ led_off # 0
      BY <1>1, <2>2 DEF NextPhase, GoesDark, DarkTimeout
    <3>2. led_timeout \in Times /\ led_off \in 0 .. HalfWrap
      BY <1>3, <3>1, HalConstants, HalTimes, TimesWrap DEF HalInv
    <3>3. led_timeout' \in Times /\ led_timeout' - led_timeout - led_off \in {0, -Wrap}
      BY <3>1, <3>2, PlusTurns
    <3>4. HalTypeOK'
      <4>1. {millis_count, led_timeout, last_button_change_time}' \subseteq Times
        BY <1>2, <3>3, HalTimes DEF HalInv, buttonVars
      <4>2. {is_led_on, is_button_down, button_has_been_pressed, button_pin, led_overflow}' \subseteq BOOLEAN
        BY <1>2, <3>1, HalTimes DEF HalInv, buttonVars, Overflows
      <4>3. led_pins' = (IF is_led_on' THEN led_color' ELSE "off")
        BY <3>1
      <4> QED BY <1>2, <3>1, <4>1, <4>2, <4>3, HalConstants DEF HalInv, HalTypeOK, buttonVars
    <3> SUFFICES ASSUME ~led_overflow' PROVE LedInStep' /\ LedAges'
      BY <1>2, <3>1, <3>4 DEF LedInStep, LedAges, HalInv
    <3>5. ~led_overflow /\ ~Overflows(led_timeout)
      BY <1>2
    <3>6. led_age >= led_on /\ led_age <= led_on + lag /\ led_age \in Nat
      BY <2>2, <3>1, <3>5, LedExact DEF HalInv, LedAges, LedPhaseEnd
    <3>7. LedAges'
      <4>1. led_on <= led_age /\ led_age <= led_on + led_off
        BY <1>3, <3>1, <3>6, HalConstants
      <4> QED BY <1>2, <1>3, <3>1, <3>6, <4>1 DEF LedAges
    <3>8. LedInStep'
      <4>1. led_timeout - millis_count - (led_on - led_age) \in {-Wrap, 0, Wrap}
        BY <3>1, <3>5 DEF HalInv, LedInStep, LedPhaseEnd
      <4>2. LedPhaseEnd' - led_age' = led_on - led_age + led_off
        BY <1>3, <3>1, <3>6 DEF LedPhaseEnd
      <4>3. led_on - led_age + led_off \in -HalfWrap .. HalfWrap
        BY <1>3, <3>1, <3>6, HalConstants, TimesWrap
      <4>4. millis_count \in Times /\ millis_count' = millis_count
        BY <1>2, HalTimes DEF HalInv
      <4>5. led_timeout' - millis_count - (led_on - led_age + led_off) \in {-Wrap, 0, Wrap}
        <5>1. /\ Wrap \in Nat /\ HalfWrap \in Nat /\ Wrap = 2 * HalfWrap
              /\ led_timeout \in 0 .. Wrap - 1 /\ led_timeout' \in 0 .. Wrap - 1
              /\ millis_count \in 0 .. Wrap - 1
          BY <3>2, <3>3, <4>4, TimesWrap
        <5>2. led_on - led_age \in Int /\ led_off \in Nat
          BY <1>3, <3>1, <3>6
        <5>3. /\ led_timeout - millis_count - (led_on - led_age) = -Wrap
                 \/ led_timeout - millis_count - (led_on - led_age) = 0
                 \/ led_timeout - millis_count - (led_on - led_age) = Wrap
              /\ led_timeout' - led_timeout - led_off = 0 \/ led_timeout' - led_timeout - led_off = -Wrap
          BY <3>3, <4>1
        <5> DEFINE l == led_on - led_age
                   u == led_timeout'
        <5>4. l \in Int /\ l + led_off \in -HalfWrap .. HalfWrap
          BY ONLY <4>3, <5>2
        <5>5. /\ led_timeout - millis_count - l = -Wrap \/ led_timeout - millis_count - l = 0
                 \/ led_timeout - millis_count - l = Wrap
              /\ u - led_timeout - led_off = 0 \/ u - led_timeout - led_off = -Wrap
              /\ u \in 0 .. Wrap - 1
          BY ONLY <5>1, <5>3
        <5>6. u - millis_count - (l + led_off) \in {-Wrap, 0, Wrap}
          <6> HIDE DEF l, u
          <6>1. \/ u - millis_count - (l + led_off) = -Wrap \/ u - millis_count - (l + led_off) = 0
                \/ u - millis_count - (l + led_off) = Wrap
            BY ONLY <5>1, <5>2, <5>4, <5>5, DarkTurns
          <6> QED BY ONLY <6>1
        <5> QED BY ONLY <5>6
      <4> QED BY <4>2, <4>4, <4>5 DEF LedInStep
    <3> QED BY <3>7, <3>8
  <2>3. CASE e /\ ~GoesDark
    <3>1. ShowLed(led_color, led_on, led_off) /\ led_age' = 0
      BY <1>1, <2>3 DEF NextPhase
    <3>2. led_timeout' \in Times /\ LedInStep'
      <4>1. led_off # 0 => led_on < HalfWrap
        BY <1>3, HalConstants, TimesWrap
      <4> QED BY <1>2, <1>3, <3>1, <4>1, ShowKeeps
    <3>3. HalTypeOK'
      BY <1>2, <3>1, <3>2, HalConstants, HalTimes DEF HalInv, HalTypeOK, ShowLed, buttonVars
    <3>4. LedAges'
      BY <1>2, <1>3, <3>1 DEF LedAges, ShowLed
    <3> QED BY <3>2, <3>3, <3>4
  <2> QED BY <2>1, <2>2, <2>3
<1> QED BY <1>4, <1>5 DEF HalInv

-----------------------------------------------------------------------------
(* The button, and time *)

LEMMA ButtonKeeps ==
  ASSUME HalInv, SampleButton \/ ButtonChanged \/ TakePress \/ Finger
  PROVE  HalInv'
<1>1. /\ UNCHANGED <<millis_count, ledVars, lag>>
      /\ is_button_down' \in BOOLEAN /\ button_pin' \in BOOLEAN
      /\ button_has_been_pressed' \in BOOLEAN
      /\ h_pc' \in {"idle", "button", "change"}
      /\ last_button_change_time' \in Times
  BY HalTimes DEF SampleButton, ButtonChanged, ChangeTime, TakePress, Finger, buttonVars, HalInv, HalTypeOK
<1>2. LedInStep' /\ LedAges'
  BY <1>1 DEF HalInv, LedInStep, LedAges, LedPhaseEnd, ledVars
<1>3. lag \in 0 .. MaxLag /\ held \in Nat
  BY HalTimes DEF HalInv
<1>4. HeldInStep' /\ HeldAges'
  <2>1. CASE SampleButton
    BY <1>3, <2>1, HalConstants
       DEF SampleButton, ledVars, HalInv, HeldInStep, HeldAges, HalTypeOK, Minus, Wrap
  <2>2. CASE ButtonChanged
    <3>1. millis_count \in Int
      BY HalTimes, TimesWrap DEF HalInv
    <3> QED BY <1>3, <2>2, <3>1, HalConstants
            DEF ButtonChanged, ChangeTime, ledVars, HalInv, HeldInStep, HeldAges, Minus, Wrap
  <2>3. CASE TakePress
    BY <2>3 DEF TakePress, ledVars, HalInv, HeldInStep, HeldAges, Minus, Wrap
  <2>4. CASE Finger
    <3>1. HeldInStep'
      BY <2>4 DEF Finger, ledVars, buttonVars, HalInv, HeldInStep, Minus, Wrap
    <3>2. ~button_pin => held < MaxHeld
      BY <2>4 DEF Finger
    <3>3. UNCHANGED <<is_button_down, held, lag, h_pc>> /\ button_pin' = ~button_pin
      BY <2>4 DEF Finger, buttonVars
    <3> QED BY <1>3, <3>1, <3>2, <3>3, HalConstants DEF HalInv, HeldAges
  <2> QED BY <2>1, <2>2, <2>3, <2>4
<1>5. held' \in 0 .. MaxHeld + 2 * MaxLag
  <2>1. held' \in Nat
    BY <1>3 DEF SampleButton, ButtonChanged, TakePress, Finger, buttonVars
  <2>2. held' <= MaxHeld + lag' + MaxLag \/ held' = 0
    BY <1>1, <1>3, <1>4, <2>1, HalConstants DEF HeldAges, ledVars
  <2> QED BY <1>1, <1>3, <2>1, <2>2, HalConstants
<1>6. HalTypeOK'
  <2>1. {millis_count, led_timeout, last_button_change_time}' \subseteq Times
    BY <1>1, HalTimes DEF HalInv, ledVars
  <2>2. {is_led_on, is_button_down, button_has_been_pressed, button_pin, led_overflow}' \subseteq BOOLEAN
    BY <1>1, HalTimes DEF HalInv, ledVars
  <2> QED BY <1>1, <1>5, <2>1, <2>2 DEF HalInv, HalTypeOK, ledVars
<1> QED BY <1>2, <1>4, <1>6 DEF HalInv

(* A millisecond passes: counter and history go on together. *)
LEMMA AgeTurns ==
  ASSUME NEW W \in Nat, NEW m \in 0 .. W - 1, NEW c \in Int, NEW d \in 0 .. W - 1,
         NEW e \in Int, NEW a \in Int, e - (a + 1) > -W, e - (a + 1) < W,
         m - c - (e - a) = -W \/ m - c - (e - a) = 0 \/ m - c - (e - a) = W,
         d - c = 1 \/ d - c = 1 - W
  PROVE  m - d - (e - (a + 1)) = -W \/ m - d - (e - (a + 1)) = 0 \/ m - d - (e - (a + 1)) = W
OBVIOUS

LEMMA HeldTurns ==
  ASSUME NEW m \in Times, NEW c \in Times, NEW d \in Times, NEW h \in Nat,
         Minus(c, m) = h, h + 1 < Wrap, d - c \in {1, 1 - Wrap}
  PROVE  Minus(d, m) = h + 1
BY TimesWrap DEF Minus

LEMMA TickKeepsHal ==
  ASSUME HalInv, HalTick
  PROVE  HalInv'
<1>1. /\ millis_count' \in Times /\ millis_count \in Times
      /\ millis_count' - millis_count \in {1, 1 - Wrap}
  <2>1. millis_count' = Plus(millis_count, 1) /\ millis_count \in Times /\ 1 \in 0 .. HalfWrap
    BY TimesWrap, HalTimes DEF HalInv, HalTick, SysTick
  <2>2. Plus(millis_count, 1) \in Times /\ Plus(millis_count, 1) - millis_count - 1 \in {0, -Wrap}
    BY <2>1, PlusTurns
  <2> QED BY <2>1, <2>2, TimesWrap
<1>2. /\ lag' = lag + 1 /\ lag \in Nat /\ lag < MaxLag
      /\ held \in Nat /\ held' = (IF is_button_down THEN held + 1 ELSE 0)
      /\ led_age' = (IF led_off = 0 \/ led_overflow THEN 0 ELSE led_age + 1)
      /\ is_button_down /\ button_pin => held < MaxHeld
      /\ UNCHANGED <<led_color, led_on, led_off, is_led_on, led_timeout, led_pins, led_overflow,
                     is_button_down, last_button_change_time, button_has_been_pressed,
                     button_pin, h_pc>>
  BY HalTimes, HalConstants DEF HalInv, HalTick
<1>3. /\ led_on \in Nat /\ led_off \in Nat /\ led_age \in Nat
      /\ led_off # 0 => led_on + led_off + 2 * MaxLag < HalfWrap
  BY PatternShown DEF HalInv, LedAges
<1>4. HeldAges'
  BY <1>2, HalConstants DEF HalInv, HeldAges
<1>5. HeldInStep'
  <2> SUFFICES ASSUME is_button_down PROVE Minus(millis_count', last_button_change_time) = held + 1
    BY <1>2 DEF HeldInStep, Minus, Wrap
  <2>1. Minus(millis_count, last_button_change_time) = held /\ last_button_change_time \in Times
    BY HalTimes DEF HalInv, HeldInStep
  <2>2. held + 1 < Wrap
    BY <1>2, <1>4, HalConstants, TimesWrap DEF HeldAges
  <2> QED BY <1>1, <1>2, <2>1, <2>2, HeldTurns
<1>6. LedAges'
  BY <1>2, <1>3 DEF HalInv, LedAges
<1>7. LedInStep'
  <2> SUFFICES ASSUME led_off # 0, ~led_overflow
               PROVE  led_timeout - millis_count' - (LedPhaseEnd - (led_age + 1)) \in {-Wrap, 0, Wrap}
    BY <1>2 DEF LedInStep, LedPhaseEnd
  <2>1. LedPhaseEnd \in 0 .. led_on + led_off
    BY <1>3 DEF LedPhaseEnd
  <2>2. led_age + 1 <= led_on + led_off + lag + 1
    <3>1. is_led_on => led_age <= led_on + lag
      BY DEF HalInv, LedAges
    <3>2. ~is_led_on => led_age <= led_on + led_off + lag
      BY DEF HalInv, LedAges
    <3> QED BY <1>2, <1>3, <3>1, <3>2
  <2>3. LedPhaseEnd - (led_age + 1) > -Wrap /\ LedPhaseEnd - (led_age + 1) < Wrap /\ LedPhaseEnd \in Int
    BY <1>2, <1>3, <2>1, <2>2, HalConstants, TimesWrap
  <2>4. \/ led_timeout - millis_count - (LedPhaseEnd - led_age) = -Wrap
        \/ led_timeout - millis_count - (LedPhaseEnd - led_age) = 0
        \/ led_timeout - millis_count - (LedPhaseEnd - led_age) = Wrap
    BY DEF HalInv, LedInStep
  <2>5. /\ Wrap \in Nat /\ led_timeout \in 0 .. Wrap - 1 /\ millis_count \in Int
        /\ millis_count' \in 0 .. Wrap - 1
    BY <1>1, HalTimes, TimesWrap DEF HalInv
  <2> DEFINE e == LedPhaseEnd
             d == millis_count'
  <2>6. /\ e \in Int /\ e - (led_age + 1) > -Wrap /\ e - (led_age + 1) < Wrap
        /\ led_timeout - millis_count - (e - led_age) = -Wrap
           \/ led_timeout - millis_count - (e - led_age) = 0
           \/ led_timeout - millis_count - (e - led_age) = Wrap
        /\ d \in 0 .. Wrap - 1
        /\ d - millis_count = 1 \/ d - millis_count = 1 - Wrap
    BY <1>1, <2>3, <2>4, <2>5
  <2>7. \/ led_timeout - d - (e - (led_age + 1)) = -Wrap \/ led_timeout - d - (e - (led_age + 1)) = 0
        \/ led_timeout - d - (e - (led_age + 1)) = Wrap
    <3> HIDE DEF e, d
    <3> QED BY ONLY <1>3, <2>5, <2>6, AgeTurns
  <2> QED BY ONLY <2>7
<1>8. HalTypeOK'
  <2>1. {millis_count, led_timeout, last_button_change_time}' \subseteq Times
    BY <1>1, <1>2, HalTimes DEF HalInv
  <2>2. {is_led_on, is_button_down, button_has_been_pressed, button_pin, led_overflow}' \subseteq BOOLEAN
    BY <1>2, HalTimes DEF HalInv
  <2>3. lag' \in 0 .. MaxLag /\ held' \in 0 .. MaxHeld + 2 * MaxLag
    BY <1>2, <1>4, HalConstants DEF HeldAges
  <2> QED BY <1>2, <2>1, <2>2, <2>3 DEF HalInv, HalTypeOK
<1> QED BY <1>4, <1>5, <1>6, <1>7, <1>8 DEF HalInv

LEMMA StepHal == HalInv /\ [HalNext]_halVars => HalInv'
<1> SUFFICES ASSUME HalInv, [HalNext]_halVars PROVE HalInv'
  OBVIOUS
<1>1. CASE SetLed
  BY <1>1, SetLedKeeps
<1>2. CASE UpdateLed
  BY <1>2, UpdateLedKeeps
<1>3. CASE SampleButton \/ ButtonChanged \/ TakePress \/ Finger
  BY <1>3, ButtonKeeps
<1>4. CASE HalTick
  BY <1>4, TickKeepsHal
<1>5. CASE UNCHANGED halVars
  BY <1>5 DEF halVars, ledVars, buttonVars, HalInv, HalTypeOK, LedInStep, LedAges, HeldInStep,
              HeldAges, LedPhaseEnd, Minus, Wrap
<1> QED BY <1>1, <1>2, <1>3, <1>4, <1>5 DEF HalNext

(* History and marks of LED and button are in step in every state. *)
THEOREM HalInvariance == HalSpec => []HalInv
BY InitHal, StepHal, PTL DEF HalSpec

(* The LED's pins are what its fields say, and the times stay within the   *)
(* counter's width (HalTypeOK), whatever the width is.                     *)
THEOREM HalTypes == HalSpec => []HalTypeOK
<1>1. HalInv => HalTypeOK
  BY DEF HalInv
<1> QED BY <1>1, HalInvariance, PTL

(* hal.h:74: the LED flashes as set_led was told (LedKeepsTime), for all   *)
(* patterns, and across the wrap of the counter.                           *)
THEOREM LedKeepsTimeHolds == HalSpec => LedKeepsTime
<1> DEFINE Kept ==
      ~led_overflow /\ ~led_overflow' =>
        /\ led_off = 0 => is_led_on
        /\ is_led_on /\ led_off # 0 => led_age <= led_on + MaxLag
        /\ ~is_led_on => led_age \in led_on .. led_on + led_off + MaxLag
        /\ ~is_led_on /\ is_led_on' /\ h_pc' = "button" => led_age >= led_on + led_off
<1>1. HalInv /\ [HalNext]_halVars => [Kept]_halVars
  <2> SUFFICES ASSUME HalInv, HalNext, ~led_overflow, ~led_overflow' PROVE Kept
    OBVIOUS
  <2>1. led_off # 0 =>
          /\ is_led_on  => led_age <= led_on + lag
          /\ ~is_led_on => led_on <= led_age /\ led_age <= led_on + led_off + lag
    BY DEF HalInv, LedAges
  <2>2. led_age \in Nat /\ led_on \in Nat /\ led_off \in Nat /\ lag \in 0 .. MaxLag
    BY PatternShown, HalTimes DEF HalInv, LedAges
  <2>3. led_off = 0 => is_led_on
    BY DEF HalInv, LedAges
  <2>4. ASSUME ~is_led_on, is_led_on', h_pc' = "button" PROVE led_age >= led_on + led_off
    <3>1. UpdateLed
      BY <2>4 DEF HalNext, SetLed, SampleButton, ButtonChanged, TakePress, Finger, HalTick, ledVars
    <3>2. PICK e \in HasExpired(led_timeout) : ~e => UNCHANGED is_led_on
      BY <3>1 DEF UpdateLed
    <3>3. e
      BY <2>4, <3>2
    <3>4. ~Overflows(led_timeout)
      BY <3>1 DEF UpdateLed
    <3>5. e = (led_age >= LedPhaseEnd)
      BY <2>3, <2>4, <3>2, <3>4, LedExact
    <3>6. led_age >= LedPhaseEnd
      BY ONLY <3>3, <3>5, Zenon
    <3> QED BY <2>4, <3>6 DEF LedPhaseEnd
  <2> QED BY <2>1, <2>2, <2>3, <2>4, HalConstants
<1> QED BY <1>1, HalInvariance, PTL DEF HalSpec, LedKeepsTime

(* A press counts exactly after more than 50ms, and is long exactly after  *)
(* 700ms (ButtonTimed), at any value of the counter.                       *)
THEOREM ButtonTimedHolds == HalSpec => ButtonTimed
<1> DEFINE Timed ==
      /\ is_long_press <=> is_button_down /\ held > LongPressMs
      /\ button_has_been_pressed' /\ ~button_has_been_pressed => is_button_down /\ held > DebounceMs
      /\ h_pc = "button" /\ is_button_down /\ ~button_pin /\ held > DebounceMs /\ h_pc' # h_pc
           => button_has_been_pressed'
<1>1. HalInv /\ [HalNext]_halVars => [Timed]_halVars
  <2> SUFFICES ASSUME HalInv, HalNext PROVE Timed
    OBVIOUS
  <2>1. ASSUME NEW d PROVE is_button_down => (LongerThan(d) <=> held > d)
    BY DEF HalInv, HeldInStep, LongerThan
  <2>2. is_long_press <=> is_button_down /\ held > LongPressMs
    BY <2>1 DEF is_long_press
  <2>3. button_has_been_pressed' /\ ~button_has_been_pressed => is_button_down /\ held > DebounceMs
    BY <2>1 DEF HalNext, SetLed, UpdateLed, SampleButton, ButtonChanged, TakePress, Finger, HalTick,
                buttonVars
  <2>4. h_pc = "button" /\ is_button_down /\ ~button_pin /\ held > DebounceMs /\ h_pc' # h_pc
           => button_has_been_pressed'
    BY <2>1 DEF HalNext, SetLed, UpdateLed, SampleButton, ButtonChanged, TakePress, Finger, HalTick
  <2> QED BY <2>2, <2>3, <2>4
<1> QED BY <1>1, HalInvariance, PTL DEF HalSpec, ButtonTimed
=============================================================================
