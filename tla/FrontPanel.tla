------------------------------ MODULE FrontPanel ----------------------------
(***************************************************************************)
(* The button's requests to the status LED (system.c on_button_event,      *)
(* status_led.c): a short press asks for the battery level, a hold of 30 s *)
(* resets the device after a blink that confirms it.  The LED task takes a *)
(* request between two patterns, which block it for seconds.  How a press  *)
(* is told from another is the business of Button.                         *)
(*                                                                         *)
(* Time passes in ticks, no faster than the tasks act on it.               *)
(***************************************************************************)
EXTENDS Naturals

CONSTANTS
  BUTTON_DEBOUNCE, BUTTON_PAIRING_HOLD, BUTTON_FACTORY_RESET_HOLD,
  StartDelay,      (* of the LED task                                       *)
  BatteryBlinks,   (* how long a level may take to show                     *)
  FactoryBlink,    (* how long the confirmation takes                       *)
  FactoryDelay,    (* from the request for it to the reset                  *)
  LED_TICK         (* the LED task's pause between two turns                *)

PanelAssumption ==
  /\ {BUTTON_DEBOUNCE, BUTTON_PAIRING_HOLD, BUTTON_FACTORY_RESET_HOLD, StartDelay,
      FactoryBlink, FactoryDelay, LED_TICK} \union BatteryBlinks \subseteq Nat \ {0}
  /\ BUTTON_DEBOUNCE < BUTTON_PAIRING_HOLD
  /\ BUTTON_PAIRING_HOLD < BUTTON_FACTORY_RESET_HOLD
  /\ BatteryBlinks # {}
  \* The hold outlasts any two patterns, the delay the blink.
  /\ \A x, y \in BatteryBlinks \union {StartDelay, LED_TICK} :
       x + y < BUTTON_FACTORY_RESET_HOLD
  /\ LED_TICK + FactoryBlink <= FactoryDelay

VARIABLES
  hold,            (* how long the button has been held, or 0               *)
  reset_in,        (* ticks until the device resets plus 1, or 0            *)
  panel,           (* on, or reset                                          *)
  s_battery_req,   (* a level is to be shown                                *)
  s_factory_reset,
  pattern,         (* what the LED shows: start, battery, factory, mode     *)
  busy,            (* ticks until the LED task goes on                      *)
  unanswered,      (* history: how long the last press has waited           *)
  confirmed        (* history: the confirmation was shown to its end        *)

button == <<hold, reset_in, panel>>
vars == <<button, s_battery_req, s_factory_reset, pattern, busy, unanswered, confirmed>>

Init ==
  /\ hold = 0 /\ reset_in = 0 /\ panel = "on"
  /\ s_battery_req = FALSE /\ s_factory_reset = FALSE
  /\ pattern = "start" /\ busy = StartDelay
  /\ unanswered = 0 /\ confirmed = FALSE
-----------------------------------------------------------------------------
(* The button task.                                                         *)

Press ==
  /\ panel = "on" /\ hold = 0 /\ reset_in = 0
  /\ hold' = 1
  /\ UNCHANGED <<reset_in, panel, s_battery_req, s_factory_reset, pattern, busy,
                 unanswered, confirmed>>

\* BUTTON_EVENT_SHORT_PRESS: status_led_show_battery.
ShortPress ==
  /\ panel = "on" /\ hold \in BUTTON_DEBOUNCE..(BUTTON_PAIRING_HOLD - 1)
  /\ hold' = 0
  /\ s_battery_req' = TRUE
  /\ unanswered' = IF unanswered = 0 THEN 1 ELSE unanswered
  /\ UNCHANGED <<reset_in, panel, s_factory_reset, pattern, busy, confirmed>>

\* Too short, or long enough for pairing.
OtherRelease ==
  /\ panel = "on" /\ reset_in = 0
  /\ hold \in (1..BUTTON_FACTORY_RESET_HOLD)
              \ (BUTTON_DEBOUNCE..(BUTTON_PAIRING_HOLD - 1))
  /\ hold' = 0
  /\ UNCHANGED <<reset_in, panel, s_battery_req, s_factory_reset, pattern, busy,
                 unanswered, confirmed>>

VeryLongPressDelays(ticks) ==
  /\ panel = "on" /\ hold = BUTTON_FACTORY_RESET_HOLD /\ reset_in = 0
  /\ s_factory_reset' = TRUE
  /\ reset_in' = ticks + 1
  /\ hold' = 0
  /\ UNCHANGED <<panel, s_battery_req, pattern, busy, unanswered, confirmed>>

\* Mutant: the device resets as soon as the blink takes.
VeryLongPressHasty == VeryLongPressDelays(FactoryBlink)

\* BUTTON_EVENT_VERY_LONG_PRESS: status_led_factory_reset_notify, a delay.
VeryLongPress == VeryLongPressDelays(FactoryDelay)

Button == Press \/ ShortPress \/ OtherRelease \/ VeryLongPress
-----------------------------------------------------------------------------
(* status_task.                                                             *)

\* The task is at the top of its loop.
AtTop == panel = "on" /\ busy = 0

Shows(what, ticks) == pattern' = what /\ busy' = ticks

\* factory_reset_blink.
ShowFactory ==
  /\ AtTop /\ s_factory_reset
  /\ s_factory_reset' = FALSE
  /\ Shows("factory", FactoryBlink)
  /\ confirmed' = (confirmed \/ pattern = "factory")
  /\ UNCHANGED <<button, s_battery_req, unanswered>>

\* battery_blink_seq; the request was withdrawn before it.
ShowBattery ==
  /\ AtTop /\ ~s_factory_reset /\ s_battery_req
  /\ \E ticks \in BatteryBlinks : Shows("battery", ticks)
  /\ s_battery_req' = FALSE
  /\ unanswered' = 0
  /\ confirmed' = (confirmed \/ pattern = "factory")
  /\ UNCHANGED <<button, s_factory_reset>>

ShowMode ==
  /\ AtTop /\ ~s_factory_reset /\ ~s_battery_req
  /\ Shows("mode", LED_TICK)
  /\ confirmed' = (confirmed \/ pattern = "factory")
  /\ UNCHANGED <<button, s_battery_req, s_factory_reset, unanswered>>

Led == ShowFactory \/ ShowBattery \/ ShowMode
-----------------------------------------------------------------------------
\* A tick passes when no task has anything to do at this one.
Tick ==
  /\ panel = "on" /\ busy > 0
  /\ reset_in # 1
  /\ hold < BUTTON_FACTORY_RESET_HOLD
  /\ busy' = busy - 1
  /\ hold' = IF hold = 0 THEN 0 ELSE hold + 1
  /\ reset_in' = IF reset_in = 0 THEN 0 ELSE reset_in - 1
  /\ unanswered' = IF unanswered = 0 THEN 0 ELSE unanswered + 1
  /\ UNCHANGED <<panel, s_battery_req, s_factory_reset, pattern, confirmed>>

\* nvs_flash_erase and esp_restart.
Resets ==
  /\ panel = "on" /\ reset_in = 1
  /\ panel' = "reset"
  /\ UNCHANGED <<hold, reset_in, s_battery_req, s_factory_reset, pattern, busy,
                 unanswered, confirmed>>

Next == Button \/ Led \/ Tick \/ Resets
Spec == Init /\ [][Next]_vars
-----------------------------------------------------------------------------
TypeOK ==
  /\ hold \in 0..BUTTON_FACTORY_RESET_HOLD
  /\ reset_in \in 0..(FactoryDelay + 1)
  /\ panel \in {"on", "reset"}
  /\ {s_battery_req, s_factory_reset, confirmed} \subseteq BOOLEAN
  /\ pattern \in {"start", "battery", "factory", "mode"}
  /\ {busy, unanswered} \subseteq Nat

(* A device that resets itself has shown the whole of the blink that        *)
(* confirms it, whatever was pressed before: the patterns a press may have  *)
(* queued are over when the hold is (system.c on_button_event,              *)
(* status_led.c status_task).                                               *)
ResetIsShown ==
  panel = "reset" => confirmed \/ (pattern = "factory" /\ busy = 0)

(* A press is answered as soon as the pattern it met has ended: the task    *)
(* withdraws a request before the blink, so none made during it is lost     *)
(* (status_led.c status_led_show_battery, status_task).                     *)
PressAnswered ==
  \E ticks \in BatteryBlinks \union {StartDelay, LED_TICK} :
    unanswered <= ticks + 1
=============================================================================
