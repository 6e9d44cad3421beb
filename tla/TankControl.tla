----------------------------- MODULE TankControl -----------------------------
(***************************************************************************)
(* The tank: the WaterControl thread, which samples the two level probes   *)
(* and the temperature once a second and switches the heater, and the      *)
(* WaterLevel thread, which once a second opens or shuts the cold-water    *)
(* valve by what WaterControl sampled last.  They share L_LEVEL and        *)
(* H_LEVEL, without a lock.                                                *)
(*                                                                         *)
(* WaterControl has the default priority and preempts WaterLevel, so that  *)
(* its turn is one action, which may fall between WaterLevel's two tests.  *)
(* The two loops sleep the same second, from different starts: within a    *)
(* second their turns come in either order.  In a second the level and     *)
(* the temperature move by at most one unit.                               *)
(***************************************************************************)
EXTENDS Integers

CONSTANTS LowMark, HighMark,   \* the levels at which the probes get wet
          Top,                 \* the height of the tank
          ColdMark, HotMark,   \* the temperatures that read as 2.66 V and 2.69 V
          MaxTemp

ASSUME MarksAssumption ==
  /\ {LowMark, HighMark, Top, ColdMark, HotMark, MaxTemp} \subseteq Nat
  /\ 2 <= LowMark /\ LowMark < HighMark /\ HighMark < Top
  /\ ColdMark < HotMark /\ HotMark < MaxTemp

\* A probe reads near the supply in air and low in water; 0xE00 lies between.
THRESHOLD == 3584
AIR       == 4095
WATER     == 100

VARIABLES
  level, temp,         \* the tank
  L_LEVEL, H_LEVEL,    \* the last samples
  heating,             \* HEATING_PIN
  valva,               \* VALVE_RCOLD_PIN
  control,             \* TRUE while WaterControl's turn of this second is due
  waterlevel           \* WaterLevel: "due", "tested" (L_LEVEL), "sleep"

tank == <<level, temp>>
vars == <<level, temp, L_LEVEL, H_LEVEL, heating, valva, control, waterlevel>>

TypeOK == /\ level \in 0 .. Top /\ temp \in 0 .. MaxTemp
          /\ {L_LEVEL, H_LEVEL} \subseteq {0, AIR, WATER}
          /\ heating \in {"LOW", "HIGH"} /\ valva \in {"LOW", "HIGH"}
          /\ control \in BOOLEAN
          /\ waterlevel \in {"due", "tested", "sleep"}

\* The samples are 0 until WaterControl's first turn.  The tank is found filled,
\* at most one unit short of the lower probe, and no warmer than the heater
\* leaves it.
Init == /\ level \in LowMark - 1 .. HighMark /\ temp \in 0 .. HotMark
        /\ L_LEVEL = 0 /\ H_LEVEL = 0
        /\ heating = "LOW" /\ valva = "LOW"
        /\ control = TRUE /\ waterlevel = "due"

-----------------------------------------------------------------------------
Probe(mark) == IF level < mark THEN AIR ELSE WATER

\* A slip: the heater switched on where it is to be switched off.
heating_inverted == IF temp < ColdMark THEN "LOW"
                    ELSE IF temp > HotMark THEN "HIGH" ELSE heating

\* A slip: the heater never switched off.
heating_kept == IF temp < ColdMark THEN "HIGH" ELSE heating

\* Between the two thresholds the heater stays as it is.
water_heating == IF temp < ColdMark THEN "HIGH"
                 ELSE IF temp > HotMark THEN "LOW" ELSE heating

\* One turn of WaterControl's loop: get_water_temp samples the probes, then the
\* temperature, and the heater follows.
WaterControl == /\ control
                /\ L_LEVEL' = Probe(LowMark) /\ H_LEVEL' = Probe(HighMark)
                /\ heating' = water_heating
                /\ control' = FALSE
                /\ UNCHANGED <<tank, valva, waterlevel>>

\* A slip: the valve opened by a wet lower probe.
open_valva_wet == /\ waterlevel = "due"
                  /\ valva' = IF L_LEVEL < THRESHOLD THEN "HIGH" ELSE valva
                  /\ waterlevel' = "tested"
                  /\ UNCHANGED <<tank, L_LEVEL, H_LEVEL, heating, control>>

\* A slip: the valve opened whenever the tank is not full.
open_valva_early == /\ waterlevel = "due"
                    /\ valva' = IF H_LEVEL > THRESHOLD THEN "HIGH" ELSE valva
                    /\ waterlevel' = "tested"
                    /\ UNCHANGED <<tank, L_LEVEL, H_LEVEL, heating, control>>

\* The first half of a turn of WaterLevel's loop ...
open_valva == /\ waterlevel = "due"
              /\ valva' = IF L_LEVEL > THRESHOLD THEN "HIGH" ELSE valva
              /\ waterlevel' = "tested"
              /\ UNCHANGED <<tank, L_LEVEL, H_LEVEL, heating, control>>

\* A slip: the upper probe compared with the wrong side of its range.
close_valva_never == /\ waterlevel = "tested"
                     /\ valva' = IF H_LEVEL > AIR THEN "LOW" ELSE valva
                     /\ waterlevel' = "sleep"
                     /\ UNCHANGED <<tank, L_LEVEL, H_LEVEL, heating, control>>

\* ... and the second.
close_valva == /\ waterlevel = "tested"
               /\ valva' = IF H_LEVEL < THRESHOLD THEN "LOW" ELSE valva
               /\ waterlevel' = "sleep"
               /\ UNCHANGED <<tank, L_LEVEL, H_LEVEL, heating, control>>

\* A second passes: the valve lets water in, the dispenser takes some out, the
\* heater warms and the air or the cold water cools.
Second == /\ ~control /\ waterlevel = "sleep"
          /\ \E used \in {0, 1} :
               level' = level + (IF valva = "HIGH" THEN 1 ELSE 0)
                              - (IF level > 0 THEN used ELSE 0)
          /\ \/ heating = "HIGH" /\ temp' = temp + 1
             \/ heating = "LOW" /\ temp' \in {temp, IF temp > 0 THEN temp - 1 ELSE 0}
          /\ control' = TRUE /\ waterlevel' = "due"
          /\ UNCHANGED <<L_LEVEL, H_LEVEL, heating, valva>>

Next == WaterControl \/ open_valva \/ close_valva \/ Second

Spec == Init /\ [][Next]_vars

\* Both threads only sleep and compute, and nothing more urgent computes for
\* long: every turn is taken and every second passes.
FairSpec == Spec /\ WF_vars(WaterControl) /\ WF_vars(open_valva)
                 /\ WF_vars(close_valva) /\ WF_vars(Second)

-----------------------------------------------------------------------------
\* The valve is shut in time: the samples are at most a second old when they are
\* tested, and the tank rises no more than one unit above the upper probe.
NoOverflow == level <= HighMark + 1

\* It is opened in time, and the lower probe is never more than two units dry.
NeverEmpty == level >= LowMark - 2

\* The valve is opened only for a tank that has fallen below the lower probe,
\* never for one that is merely not full: the stale sample that a shut valve is
\* opened by still describes the tank.
OpenedOnlyWhenLow == [][valva = "LOW" /\ valva' = "HIGH" => level < LowMark]_vars

\* The water stays within one unit of the upper threshold ...
HeatBounded == temp <= HotMark + 1

\* ... and cold water comes to be heated.
ColdIsHeated == temp < ColdMark ~> heating = "HIGH"

\* A tank below the lower probe comes to be filled.
LowIsFilled == level < LowMark ~> valva = "HIGH"
=============================================================================
