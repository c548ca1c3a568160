------------------------------- MODULE Inputs -------------------------------
(***************************************************************************)
(* The parts of the firmware that are one task over one input and share no *)
(* state with each other: the RNS deframer, the KISS receiver behind its   *)
(* stream buffer, the serial line to the radio, the button poll, the       *)
(* requests to the LED and the battery.  A behaviour runs one of them, or  *)
(* none: those that do not run stay out of it.                             *)
(***************************************************************************)
EXTENDS Part, Naturals, Sequences, FiniteSets

CONSTANTS
  Byte,                                                 (* of both lines    *)
  HDLC_FLAG, HDLC_ESC, Masked,                          (* FramingStream    *)
  RNS_FRAMING_MAX_PACKET, MaxFrames, MaxFrameLen,
  KissByte, FEND, FESC, TFEND, TFESC,                   (* KissStream       *)
  CMD_DATA, CMD_CONFIG, KISS_FRAME_MAX,
  RX_STREAM_SIZE, Frames, MaxWrite, MaxLeave,
  SLIP_END, SLIP_ESC, SLIP_ESC_END, SLIP_ESC_ESC,       (* Slip             *)
  SLIP_BUF_SIZE, Datagram, MaxAccidents,
  CLOCK, BUTTON_TASK_MS, BUTTON_DEBOUNCE_MS,            (* Button           *)
  BUTTON_PAIRING_HOLD, BUTTON_FACTORY_RESET_HOLD,
  MaxDelay, MaxHold,
  PressTicks, PairingTicks, ResetTicks, StartDelay,     (* FrontPanel       *)
  BatteryBlinks, FactoryBlink, FactoryDelay, LED_TICK,
  CONNECTED_MV, BATTERY_FULL_MV, MaxMv, MinMv,          (* Battery          *)
  EMA_SHARE, BATTERY_TREND_EVERY, BATTERY_TREND_MV

VARIABLES
  frames, joined, line, deframer, received,             (* FramingStream    *)
  written, rx_stream, s_rx_resync, kiss, handled,       (* KissStream       *)
  sunk, replied, torn, hurt, abandoned,
  sent, uart, slip_rx, input, accidents,                (* Slip             *)
  clock, btn_held, press_start, armed, long_fired,      (* Button           *)
  very_long_fired, events, held,
  hold, reset_in, panel, s_battery_req,                 (* FrontPanel       *)
  s_factory_reset, pattern, busy, unanswered,
  confirmed,
  vbat_mv, s_filt_ready, s_connected, s_filt_mv,        (* Battery          *)
  s_state, s_snapshot_mv, s_snapshot_count, lowest,
  highest, rose, checks, since

Framing == INSTANCE FramingStream WITH stream <- line
Receiver == INSTANCE KissStream WITH Byte <- KissByte
Serial == INSTANCE Slip
Gesture == INSTANCE Button WITH now <- clock
Panel == INSTANCE FrontPanel WITH
  BUTTON_DEBOUNCE <- PressTicks, BUTTON_PAIRING_HOLD <- PairingTicks,
  BUTTON_FACTORY_RESET_HOLD <- ResetTicks
Charge == INSTANCE Battery

ASSUME InputsAssumption ==
  /\ Framing!FramingAssumption
  /\ Receiver!KissAssumption /\ Receiver!StreamAssumption
  /\ Serial!SlipAssumption
  /\ Gesture!ButtonAssumption
  /\ Panel!PanelAssumption
  /\ Charge!BatteryAssumption

framingVars ==
  <<frames, joined, line, deframer, received>>
receiverVars ==
  <<written, rx_stream, s_rx_resync, kiss, handled, sunk, replied, torn, hurt,
  abandoned>>
serialVars ==
  <<sent, uart, slip_rx, input, accidents>>
gestureVars ==
  <<clock, btn_held, press_start, armed, long_fired, very_long_fired, events,
  held>>
panelVars ==
  <<hold, reset_in, panel, s_battery_req, s_factory_reset, pattern, busy,
  unanswered, confirmed>>
chargeVars ==
  <<vbat_mv, s_filt_ready, s_connected, s_filt_mv, s_state, s_snapshot_mv,
  s_snapshot_count, lowest, highest, rose, checks, since>>
inputVars ==
  <<framingVars, receiverVars, serialVars, gestureVars, panelVars, chargeVars>>

\* A part that does not run keeps every variable of it at 0.
FramingOut ==
  /\ frames = 0 /\ joined = 0 /\ line = 0 /\ deframer = 0
  /\ received = 0
ReceiverOut ==
  /\ written = 0 /\ rx_stream = 0 /\ s_rx_resync = 0 /\ kiss = 0
  /\ handled = 0 /\ sunk = 0 /\ replied = 0
  /\ torn = 0 /\ hurt = 0 /\ abandoned = 0
SerialOut ==
  /\ sent = 0 /\ uart = 0 /\ slip_rx = 0 /\ input = 0
  /\ accidents = 0
GestureOut ==
  /\ clock = 0 /\ btn_held = 0 /\ press_start = 0 /\ armed = 0
  /\ long_fired = 0 /\ very_long_fired = 0 /\ events = 0 /\ held = 0
PanelOut ==
  /\ hold = 0 /\ reset_in = 0 /\ panel = 0 /\ s_battery_req = 0
  /\ s_factory_reset = 0 /\ pattern = 0 /\ busy = 0 /\ unanswered = 0
  /\ confirmed = 0
ChargeOut ==
  /\ vbat_mv = 0 /\ s_filt_ready = 0 /\ s_connected = 0 /\ s_filt_mv = 0
  /\ s_state = 0 /\ s_snapshot_mv = 0 /\ s_snapshot_count = 0 /\ lowest = 0
  /\ highest = 0 /\ rose = 0 /\ checks = 0 /\ since = 0

InputsInit ==
  /\ IF Runs("deframer") THEN Framing!Init ELSE FramingOut
  /\ IF Runs("kiss") THEN Receiver!Init ELSE ReceiverOut
  /\ IF Runs("slip") THEN Serial!Init ELSE SerialOut
  /\ IF Runs("button") THEN Gesture!Init ELSE GestureOut
  /\ IF Runs("panel") THEN Panel!Init ELSE PanelOut
  /\ IF Runs("battery") THEN Charge!Init ELSE ChargeOut

InputsNext ==
  /\ part' = part
  /\ \/ /\ Runs("deframer") /\ Framing!Next
        /\ UNCHANGED <<receiverVars, serialVars, gestureVars, panelVars, chargeVars>>
     \/ /\ Runs("kiss") /\ Receiver!Next
        /\ UNCHANGED <<framingVars, serialVars, gestureVars, panelVars, chargeVars>>
     \/ /\ Runs("slip") /\ Serial!Next
        /\ UNCHANGED <<framingVars, receiverVars, gestureVars, panelVars, chargeVars>>
     \/ /\ Runs("button") /\ Gesture!Next
        /\ UNCHANGED <<framingVars, receiverVars, serialVars, panelVars, chargeVars>>
     \/ /\ Runs("panel") /\ Panel!Next
        /\ UNCHANGED <<framingVars, receiverVars, serialVars, gestureVars, chargeVars>>
     \/ /\ Runs("battery") /\ Charge!Next
        /\ UNCHANGED <<framingVars, receiverVars, serialVars, gestureVars, panelVars>>

InputsSpec == InputsInit /\ [][InputsNext]_<<part, inputVars>>
-----------------------------------------------------------------------------
(* RNS framing and FramingStream: what a receiver of the whole stream is    *)
(* handed is what was sent, and one that joins inside a packet gets all     *)
(* that follow (rns_framing.c).                                             *)
FramesArrive ==
  Runs("deframer") => Framing!RoundTrip /\ Framing!Resynchronises

(* KissStream: without an accident every frame written is handled, in order *)
(* and byte for byte; a full stream or a disconnect costs the frames it     *)
(* cuts into and at most the one behind them, and invents at most one       *)
(* (kiss.c, ble.c).                                                         *)
CommandsArrive ==
  Runs("kiss") => Receiver!IntactWhenUntorn /\ Receiver!DamageBounded

(* Slip: a byte lost or changed costs at most one datagram (slip.c).        *)
LineRecovers == Runs("slip") => Serial!OneAccidentOneDatagram

(* Button: a gesture is given only for a press as long as it asks           *)
(* (button.c).                                                              *)
HeldLongEnough == Runs("button") => Gesture!HeldLongEnough

(* FrontPanel: a reset was confirmed and a press is answered                *)
(* (status_led.c, system.c).                                                *)
PanelAnswers == Runs("panel") => Panel!ResetIsShown /\ Panel!PressAnswered

(* Battery: a voltage that only falls is not called charging after the      *)
(* first check (battery.c).                                                 *)
TrendIsTrue == Runs("battery") => Charge!TrendIsTrue
=============================================================================
