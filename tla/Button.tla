-------------------------------- MODULE Button -------------------------------
(***************************************************************************)
(* The button task (button.c): it polls the pin and tells a short press, a *)
(* long one (pairing) and a very long one (factory reset) apart by         *)
(* comparing a clock that wraps around with the time the press began.      *)
(* Polls are BUTTON_TASK_MS apart or, after a callback or when the task is *)
(* preempted, later.                                                       *)
(***************************************************************************)
EXTENDS Naturals, Sequences

CONSTANTS
  CLOCK,                      (* the clock counts modulo this (2^32 ms)     *)
  BUTTON_TASK_MS,             (* shortest time between two polls            *)
  BUTTON_DEBOUNCE_MS, BUTTON_PAIRING_HOLD, BUTTON_FACTORY_RESET_HOLD,
  MaxDelay,                   (* bound: longest time between two polls      *)
  MaxHold                     (* bound: longest press, less than CLOCK      *)

ButtonAssumption ==
  /\ {CLOCK, BUTTON_TASK_MS, MaxDelay, MaxHold} \subseteq Nat \ {0}
  /\ {BUTTON_DEBOUNCE_MS, BUTTON_PAIRING_HOLD, BUTTON_FACTORY_RESET_HOLD} \subseteq Nat
  /\ BUTTON_DEBOUNCE_MS < BUTTON_PAIRING_HOLD
  /\ BUTTON_PAIRING_HOLD < BUTTON_FACTORY_RESET_HOLD
  /\ MaxHold + MaxDelay < CLOCK

VARIABLES
  now,             (* the clock, at the last poll                           *)
  btn_held, press_start, armed, long_fired, very_long_fired,
  events,          (* history: events of the press that is or was last on   *)
  held             (* history: how long it has been seen pressed            *)

vars == <<now, btn_held, press_start, armed, long_fired, very_long_fired,
          events, held>>

Init ==
  /\ now \in 0..(CLOCK - 1)
  /\ btn_held = FALSE /\ press_start = 0 /\ armed = FALSE
  /\ long_fired = FALSE /\ very_long_fired = FALSE
  /\ events = <<>> /\ held = 0

\* Unsigned subtraction.
Since(t, start) == (t + CLOCK - start) % CLOCK

Fire(event) == events' = Append(events, event)

\* Mutant: the time of the first poll of a press is not taken.
PressBeginsUntimed(t) ==
  /\ ~btn_held
  /\ btn_held' = TRUE
  /\ armed' = TRUE
  /\ long_fired' = FALSE
  /\ events' = <<>> /\ held' = 0
  /\ UNCHANGED <<press_start, very_long_fired>>

PressBegins(t) ==
  /\ ~btn_held
  /\ btn_held' = TRUE
  /\ press_start' = t
  /\ armed' = TRUE
  /\ long_fired' = FALSE
  /\ events' = <<>> /\ held' = 0
  /\ UNCHANGED very_long_fired

LongPress(t) ==
  /\ btn_held /\ armed
  /\ Since(t, press_start) >= BUTTON_PAIRING_HOLD
  /\ armed' = FALSE
  /\ long_fired' = TRUE
  /\ Fire("LONG_PRESS")
  /\ UNCHANGED <<btn_held, press_start, very_long_fired>>

VeryLongPress(t) ==
  /\ btn_held /\ long_fired /\ ~very_long_fired
  /\ Since(t, press_start) >= BUTTON_FACTORY_RESET_HOLD
  /\ very_long_fired' = TRUE
  /\ Fire("VERY_LONG_PRESS")
  /\ UNCHANGED <<btn_held, press_start, armed, long_fired>>

PressLasts(t) ==
  /\ btn_held
  /\ ~(armed /\ Since(t, press_start) >= BUTTON_PAIRING_HOLD)
  /\ ~(long_fired /\ ~very_long_fired
       /\ Since(t, press_start) >= BUTTON_FACTORY_RESET_HOLD)
  /\ UNCHANGED <<btn_held, press_start, armed, long_fired, very_long_fired, events>>

Pressed(t, delay) ==
  \/ PressBegins(t)
  \/ /\ held + delay <= MaxHold
     /\ held' = held + delay
     /\ LongPress(t) \/ VeryLongPress(t) \/ PressLasts(t)

Released(t) ==
  /\ IF btn_held /\ ~long_fired /\ Since(t, press_start) >= BUTTON_DEBOUNCE_MS
     THEN Fire("SHORT_PRESS")
     ELSE UNCHANGED events
  /\ btn_held' = FALSE
  /\ armed' = FALSE
  /\ very_long_fired' = FALSE
  /\ UNCHANGED <<press_start, long_fired, held>>

Poll ==
  \E delay \in BUTTON_TASK_MS..MaxDelay :
    /\ now' = (now + delay) % CLOCK
    /\ Pressed(now', delay) \/ Released(now')

Next == Poll

Spec == Init /\ [][Next]_vars
-----------------------------------------------------------------------------
TypeOK ==
  /\ now \in 0..(CLOCK - 1) /\ press_start \in 0..(CLOCK - 1)
  /\ {btn_held, armed, long_fired, very_long_fired} \subseteq BOOLEAN
  /\ very_long_fired => long_fired
  /\ held \in 0..MaxHold
  /\ events \in Seq({"SHORT_PRESS", "LONG_PRESS", "VERY_LONG_PRESS"})

(* A gesture needs its time: the pairing window opens and the flash is      *)
(* erased only after the pin was low at every poll for that long.           *)
HeldLongEnough ==
  \A i \in DOMAIN events :
    /\ events[i] = "LONG_PRESS" => held >= BUTTON_PAIRING_HOLD
    /\ events[i] = "VERY_LONG_PRESS" => held >= BUTTON_FACTORY_RESET_HOLD
=============================================================================
