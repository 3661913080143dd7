-------------------------------- MODULE Hal --------------------------------
(***************************************************************************)
(* LED and button of struct mcu_hal (src/src/hal.cpp).  The program calls  *)
(* poll() and the other functions; SysTick comes between any two of their  *)
(* reads of the counter.  h_pc is where poll() is: "idle" (not running),   *)
(* "button" (update_led is done), "change" (the button has changed, the    *)
(* counter is about to be read again).  led_age and held are history: the  *)
(* milliseconds since set_led and since the last change of the button.     *)
(***************************************************************************)
EXTENDS Clock

CONSTANTS
  Patterns,           \* what set_led is called with: [color, on, off]
  DebounceMs, LongPressMs,   \* 50 and 700
  MaxLag,             \* bound: milliseconds between two polls
  MaxHeld             \* bound: how long a button is held down

ASSUME HalAssumption ==
  /\ \A p \in Patterns :
       /\ p = [color |-> p.color, on |-> p.on, off |-> p.off]
       /\ p.on \in Nat /\ p.off \in Nat /\ p.on + p.off + 2 * MaxLag < HalfWrap
       (* no pause is so short that it passes between two polls (40ms at least) *)
       /\ p.off = 0 \/ p.off >= MaxLag
  /\ MaxLag \in Nat \ {0} /\ DebounceMs \in Nat /\ LongPressMs \in Nat
  /\ MaxHeld \in Nat /\ MaxHeld + 2 * MaxLag < 2 * HalfWrap

VARIABLES
  led_color, led_on, led_off, is_led_on, led_timeout,
  led_pins,          \* the colour that the pins show
  is_button_down, last_button_change_time, button_has_been_pressed,
  button_pin,        \* the user's finger
  h_pc, lag, led_age, held,
  led_overflow       \* history: the LED's timeout was compared with an overflow

ledVars    == <<led_color, led_on, led_off, is_led_on, led_timeout, led_pins, led_age, led_overflow>>
buttonVars == <<is_button_down, last_button_change_time, button_has_been_pressed, held>>
halVars    == <<millis_count, ledVars, buttonVars, button_pin, h_pc, lag>>

HalInit ==
  /\ millis_count = 0
  /\ led_color = "off" /\ led_on = 0 /\ led_off = 0 /\ is_led_on = TRUE
  /\ led_timeout = HalfWrap - 1 /\ led_pins = "off"
  /\ is_button_down = FALSE /\ last_button_change_time = 0 /\ button_has_been_pressed = FALSE
  /\ button_pin \in BOOLEAN
  /\ h_pc = "idle" /\ lag = 0 /\ led_age = 0 /\ held = 0 /\ led_overflow = FALSE

-----------------------------------------------------------------------------
(* LED *)

LedTimeout(on, off) == Plus(millis_count, IF off # 0 THEN on ELSE HalfWrap - 1)

(* set_led without the history *)
ShowLed(c, on, off) ==
  /\ led_pins' = c /\ led_color' = c /\ led_on' = on /\ led_off' = off
  /\ is_led_on' = TRUE /\ led_timeout' = LedTimeout(on, off)

SetLed ==
  /\ h_pc = "idle"
  /\ \E p \in Patterns : ShowLed(p.color, p.on, p.off)
  /\ led_age' = 0 /\ led_overflow' = FALSE
  /\ UNCHANGED <<millis_count, buttonVars, button_pin, h_pc, lag>>

M_DarkWhenOn == is_led_on
GoesDark == is_led_on /\ led_off # 0

DarkTimeout == Plus(led_timeout, led_off)

M_NextPhaseKeepsOn ==
  IF GoesDark
  THEN /\ led_pins' = "off"
       /\ led_timeout' = DarkTimeout
       /\ UNCHANGED <<led_color, led_on, led_off, is_led_on, led_age>>
  ELSE ShowLed(led_color, led_on, led_off) /\ led_age' = 0

(* update_led once has_expired has returned TRUE *)
NextPhase ==
  IF GoesDark
  THEN /\ led_pins' = "off" /\ is_led_on' = FALSE
       /\ led_timeout' = DarkTimeout
       /\ UNCHANGED <<led_color, led_on, led_off, led_age>>
  ELSE ShowLed(led_color, led_on, led_off) /\ led_age' = 0

(* poll() begins with update_led. *)
UpdateLed ==
  /\ h_pc = "idle" /\ h_pc' = "button"
  /\ \E expired \in HasExpired(led_timeout) :
       IF expired THEN NextPhase
       ELSE UNCHANGED <<led_color, led_on, led_off, is_led_on, led_timeout, led_pins, led_age>>
  /\ led_overflow' = (led_overflow \/ Overflows(led_timeout))
  /\ lag' = 0
  /\ UNCHANGED <<millis_count, buttonVars, button_pin>>

-----------------------------------------------------------------------------
(* Button *)

M_LaterThan(d) == millis_count > Plus(last_button_change_time, d)
LongerThan(d) == Minus(millis_count, last_button_change_time) > d

(* A release after more than 50ms is a press. *)
SampleButton ==
  /\ h_pc = "button"
  /\ h_pc' = IF button_pin # is_button_down THEN "change" ELSE "idle"
  /\ button_has_been_pressed' =
       (button_has_been_pressed \/ (is_button_down /\ ~button_pin /\ LongerThan(DebounceMs)))
  /\ UNCHANGED <<millis_count, ledVars, is_button_down, last_button_change_time, held,
                 button_pin, lag>>

(* The pin has been read before; it may have changed again. *)
ChangeTime == millis_count
ButtonChanged ==
  /\ h_pc = "change" /\ h_pc' = "idle"
  /\ is_button_down' = ~is_button_down
  /\ last_button_change_time' = ChangeTime
  /\ held' = 0
  /\ UNCHANGED <<millis_count, ledVars, button_has_been_pressed, button_pin, lag>>

(* has_button_been_pressed returns TRUE. *)
TakePress ==
  /\ h_pc = "idle" /\ button_has_been_pressed
  /\ button_has_been_pressed' = FALSE
  /\ UNCHANGED <<millis_count, ledVars, is_button_down, last_button_change_time, held,
                 button_pin, h_pc, lag>>

is_long_press == is_button_down /\ LongerThan(LongPressMs)

-----------------------------------------------------------------------------
(* The user and time *)

Finger ==
  /\ button_pin' = ~button_pin
  /\ ~button_pin => held < MaxHeld
  /\ UNCHANGED <<millis_count, ledVars, buttonVars, h_pc, lag>>

(* Bound: the ages stop to grow where nothing depends on them. *)
HalTick ==
  /\ lag < MaxLag /\ lag' = lag + 1
  /\ is_button_down /\ button_pin => held < MaxHeld
  /\ SysTick
  /\ held' = IF is_button_down THEN held + 1 ELSE 0
  /\ led_age' = IF led_off = 0 \/ led_overflow THEN 0 ELSE led_age + 1
  /\ UNCHANGED <<led_color, led_on, led_off, is_led_on, led_timeout, led_pins, led_overflow,
                 is_button_down, last_button_change_time, button_has_been_pressed,
                 button_pin, h_pc>>

HalNext ==
  \/ SetLed \/ UpdateLed \/ SampleButton \/ ButtonChanged \/ TakePress \/ Finger \/ HalTick

HalSpec == HalInit /\ [][HalNext]_halVars

-----------------------------------------------------------------------------
(* Properties *)

(* The types, and that the pins are what the fields say. *)
HalTypeOK ==
  /\ {millis_count, led_timeout, last_button_change_time} \subseteq Times
  /\ {is_led_on, is_button_down, button_has_been_pressed, button_pin, led_overflow} \subseteq BOOLEAN
  /\ led_pins = (IF is_led_on THEN led_color ELSE "off")
  /\ [color |-> led_color, on |-> led_on, off |-> led_off]
       \in Patterns \cup {[color |-> "off", on |-> 0, off |-> 0]}
  /\ h_pc \in {"idle", "button", "change"}
  /\ lag \in 0 .. MaxLag /\ held \in 0 .. MaxHeld + 2 * MaxLag

(* "Sets the LED color and flash pattern" (hal.h:74): the LED is lit for   *)
(* the time on, at most a poll longer, a period is never shorter than      *)
(* on + off, and an LED without pattern never goes dark; as long as no     *)
(* comparison has overflowed, so also while the counter wraps.             *)
LedKeepsTime ==
  [][ ~led_overflow /\ ~led_overflow' =>
        /\ led_off = 0 => is_led_on
        /\ is_led_on /\ led_off # 0 => led_age <= led_on + MaxLag
        /\ ~is_led_on => led_age \in led_on .. led_on + led_off + MaxLag
        /\ ~is_led_on /\ is_led_on' /\ h_pc' = "button" => led_age >= led_on + led_off
    ]_halVars

(* Presses and long presses are measured right, at any value of the        *)
(* counter: a release counts exactly if the button was down for more than  *)
(* 50ms, and a press is long exactly after 700ms.                          *)
ButtonTimed ==
  [][ /\ is_long_press <=> is_button_down /\ held > LongPressMs
      /\ button_has_been_pressed' /\ ~button_has_been_pressed => is_button_down /\ held > DebounceMs
      /\ h_pc = "button" /\ is_button_down /\ ~button_pin /\ held > DebounceMs /\ h_pc' # h_pc
           => button_has_been_pressed' ]_halVars
=============================================================================
