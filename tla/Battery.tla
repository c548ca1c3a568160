------------------------------- MODULE Battery ------------------------------
(***************************************************************************)
(* battery_task (battery.c): a filter over the measured voltage, and the   *)
(* guess at whether the battery is charging from how the filtered voltage  *)
(* differs from a snapshot of it.  The voltage does as it likes, and the   *)
(* battery is taken out and put back.  Not modelled: the ADC, and the      *)
(* percentage (a table in floating point).                                 *)
(***************************************************************************)
EXTENDS Integers

CONSTANTS
  CONNECTED_MV,        (* less is no battery (2000)                         *)
  BATTERY_FULL_MV,
  MaxMv,               (* bound: the highest voltage                        *)
  MinMv,               (* bound: the lowest voltage of a battery            *)
  EMA_SHARE,           (* 1 / BATTERY_EMA_ALPHA                             *)
  BATTERY_TREND_EVERY, BATTERY_TREND_MV

BatteryAssumption ==
  /\ {CONNECTED_MV, BATTERY_FULL_MV, MinMv, MaxMv, EMA_SHARE,
      BATTERY_TREND_EVERY, BATTERY_TREND_MV} \subseteq Nat \ {0}
  /\ CONNECTED_MV <= MinMv /\ MinMv <= MaxMv

VARIABLES
  vbat_mv,             (* what is measured next                             *)
  s_filt_ready, s_connected, s_filt_mv,
  s_state, s_snapshot_mv, s_snapshot_count,
  lowest, highest,     (* history: of the samples since it was connected    *)
  rose,                (* history: a sample since then was a rise           *)
  checks,              (* history: trend checks since then, 2 for more      *)
  since                (* history: checks when it began to be charging      *)

vars == <<vbat_mv, s_filt_ready, s_connected, s_filt_mv, s_state, s_snapshot_mv,
          s_snapshot_count, lowest, highest, rose, checks, since>>

Voltage == {0} \union MinMv..MaxMv

Init ==
  /\ vbat_mv \in Voltage
  /\ s_filt_ready = FALSE /\ s_connected = FALSE /\ s_filt_mv = 0
  /\ s_state = "unknown" /\ s_snapshot_mv = 0 /\ s_snapshot_count = 0
  /\ lowest = 0 /\ highest = 0 /\ rose = FALSE /\ checks = 0 /\ since = 0

\* (int) of the share: towards zero.
Share(delta) == IF delta >= 0 THEN delta \div EMA_SHARE ELSE -((-delta) \div EMA_SHARE)

Connected == vbat_mv >= CONNECTED_MV

\* Mutant: the filter goes on over a battery that was taken out.
RestartsOnce == ~s_filt_ready

\* The filter begins anew.
Restarts == ~s_filt_ready \/ Connected # s_connected

Filtered == IF Restarts THEN vbat_mv ELSE s_filt_mv + Share(vbat_mv - s_filt_mv)

\* What the trend check says of a filtered voltage.
Trend(mv) ==
  CASE mv >= BATTERY_FULL_MV -> "charged"
    [] mv < BATTERY_FULL_MV /\ mv - s_snapshot_mv >= BATTERY_TREND_MV -> "charging"
    [] mv < BATTERY_FULL_MV /\ mv - s_snapshot_mv <= -BATTERY_TREND_MV -> "discharging"
    [] OTHER -> IF s_state = "unknown" THEN "discharging" ELSE s_state

CheckDue == s_snapshot_count + 1 >= BATTERY_TREND_EVERY

StateAfter(mv) ==
  IF ~Connected THEN s_state' = "unknown" /\ s_snapshot_count' = 0 /\ UNCHANGED s_snapshot_mv
  ELSE IF CheckDue
  THEN s_state' = Trend(mv) /\ s_snapshot_count' = 0 /\ s_snapshot_mv' = mv
  ELSE /\ s_state' = IF s_state = "unknown" THEN "discharging" ELSE s_state
       /\ s_snapshot_count' = s_snapshot_count + 1
       /\ UNCHANGED s_snapshot_mv

\* The history of this connection.
Record ==
  LET anew == ~s_connected \/ ~Connected
      done == IF anew THEN 0 ELSE checks
  IN  /\ lowest' = IF anew \/ vbat_mv < lowest THEN vbat_mv ELSE lowest
      /\ highest' = IF anew \/ vbat_mv > highest THEN vbat_mv ELSE highest
      /\ rose' = IF anew THEN FALSE ELSE rose \/ vbat_mv > lowest
      /\ checks' = IF Connected /\ CheckDue /\ done < 2 THEN done + 1 ELSE done
      /\ since' = IF s_state' # "charging" THEN 0
                  ELSE IF s_state = "charging" THEN since ELSE checks'

\* One round of battery_task; without a valid reading it changes nothing.
Sample ==
  /\ s_filt_mv' = Filtered
  /\ s_filt_ready' = TRUE
  /\ s_connected' = Connected
  /\ StateAfter(Filtered)
  /\ Record
  /\ vbat_mv' \in Voltage

Next == Sample
Spec == Init /\ [][Next]_vars
-----------------------------------------------------------------------------
TypeOK ==
  /\ {vbat_mv, s_filt_mv, s_snapshot_mv, lowest, highest} \subseteq Voltage
  /\ {s_filt_ready, s_connected, rose} \subseteq BOOLEAN
  /\ s_state \in {"unknown", "discharging", "charging", "charged"}
  /\ s_snapshot_count \in 0..(BATTERY_TREND_EVERY - 1)
  /\ {checks, since} \subseteq 0..2

(* The filter never leaves the range of what was measured since the battery *)
(* was connected, although its steps are cut to whole millivolts; so after  *)
(* the first trend check a voltage that only falls is not what makes the    *)
(* state CHARGING (battery.c battery_task).                                 *)
TrendIsTrue ==
  /\ s_connected => s_filt_mv \in lowest..highest
  /\ s_state = "charging" /\ ~rose => since = 1
-----------------------------------------------------------------------------
(* battery.c:19-23: the filtered voltage is compared with a snapshot "taken *)
(* BATTERY_TREND_EVERY updates ago", and a rise since then "means           *)
(* charging".  At the first check there is no such snapshot: it is 0, or    *)
(* that of the battery before, and slow falling later keeps the state.      *)
ChargingMeansRise == s_state = "charging" => rose
=============================================================================
