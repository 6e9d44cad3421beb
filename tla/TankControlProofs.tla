-------------------------- MODULE TankControlProofs --------------------------
(***************************************************************************)
(* The bounds of TankControl, for every tank that meets MarksAssumption.   *)
(*                                                                         *)
(* A bound on the level alone is not inductive: it depends on what the     *)
(* samples still say of the level.  They are exact once WaterControl has   *)
(* had its turn, and at most one unit off before.                          *)
(***************************************************************************)
EXTENDS TankControl, TLAPS

\* What the sample of the lower probe is worth: exact after WaterControl's turn
\* (~control); else the level has moved by a unit, up only with the valve open.
LowerSample ==
  /\ L_LEVEL # AIR => level >= IF control THEN LowMark - 1 ELSE LowMark
  /\ L_LEVEL = AIR => /\ H_LEVEL = AIR
                      /\ ~control => level < LowMark
                      /\ waterlevel = "due" /\ valva = "LOW" => level < LowMark

\* The same of the upper probe.
UpperSample ==
  H_LEVEL = AIR => level <= IF control THEN HighMark ELSE HighMark - 1

\* What WaterLevel's tests have made of it.
Valve ==
  /\ waterlevel = "tested" /\ level < LowMark - 1 => valva = "HIGH" /\ H_LEVEL = AIR
  /\ waterlevel = "sleep" =>
       IF valva = "HIGH" THEN level <= HighMark ELSE level >= LowMark - 1

Heater == ~control /\ temp > HotMark => heating = "LOW"

IInv == /\ TypeOK /\ NoOverflow /\ NeverEmpty /\ HeatBounded
        /\ LowerSample /\ UpperSample /\ Valve /\ Heater

\* The assumption, number by number.
LEMMA Marks ==
  /\ LowMark \in Nat /\ HighMark \in Nat /\ Top \in Nat
  /\ ColdMark \in Nat /\ HotMark \in Nat /\ MaxTemp \in Nat
  /\ 2 <= LowMark /\ LowMark < HighMark /\ HighMark < Top
  /\ ColdMark < HotMark /\ HotMark < MaxTemp
BY MarksAssumption

\* The types, variable by variable.
Types == /\ level \in Int /\ 0 <= level /\ level <= Top
         /\ temp \in Int /\ 0 <= temp /\ temp <= MaxTemp
         /\ L_LEVEL \in {0, AIR, WATER} /\ H_LEVEL \in {0, AIR, WATER}
         /\ heating \in {"LOW", "HIGH"} /\ valva \in {"LOW", "HIGH"}
         /\ control \in BOOLEAN
         /\ waterlevel \in {"due", "tested", "sleep"}

\* TypeOK, as the proofs use it.
LEMMA TypesOK == TypeOK <=> Types
BY Marks DEF TypeOK, Types

\* Whatever the tank is found with, the samples of 0 say nothing yet.
LEMMA InitIInv == Init => IInv
<1> SUFFICES ASSUME Init PROVE IInv OBVIOUS
<1>1. Types BY Marks DEF Init, Types
<1>2. NoOverflow /\ NeverEmpty /\ HeatBounded
  BY Marks DEF Init, NoOverflow, NeverEmpty, HeatBounded
<1>3. LowerSample /\ UpperSample /\ Valve /\ Heater
  BY Marks DEF Init, LowerSample, UpperSample, Valve, Heater, AIR
<1>4. QED BY <1>1, <1>2, <1>3, TypesOK DEF IInv

\* WaterControl's turn makes the samples exact, before or between WaterLevel's tests.
LEMMA WaterControlIInv == IInv /\ WaterControl => IInv'
<1> SUFFICES ASSUME IInv, WaterControl PROVE IInv' OBVIOUS
<1> USE Marks, TypesOK DEF IInv, WaterControl, Probe, water_heating, tank
<1>1. Types' BY DEF Types, NoOverflow, HeatBounded, Valve, Heater
<1>2. (NoOverflow /\ NeverEmpty /\ HeatBounded)'
  BY DEF Types, NoOverflow, NeverEmpty, HeatBounded, Valve, Heater
<1>3. LowerSample' BY DEF Types, LowerSample, AIR, WATER
<1>4. UpperSample' BY DEF Types, UpperSample, Valve, AIR, WATER
<1>5. Valve' BY DEF Types, LowerSample, UpperSample, Valve, NeverEmpty, THRESHOLD, AIR, WATER
<1>6. Heater' BY DEF Types, Heater
<1>7. QED BY <1>1, <1>2, <1>3, <1>4, <1>5, <1>6, TypesOK, PTL

\* The first test opens the valve only on a sample that still tells the level.
LEMMA OpenIInv == IInv /\ open_valva => IInv'
<1> SUFFICES ASSUME IInv, open_valva PROVE IInv' OBVIOUS
<1> USE Marks, TypesOK DEF IInv, open_valva, tank
<1>1. Types' BY DEF Types, NoOverflow, HeatBounded, Valve, Heater
<1>2. (NoOverflow /\ NeverEmpty /\ HeatBounded)'
  BY DEF Types, NoOverflow, NeverEmpty, HeatBounded, Valve, Heater
<1>3. LowerSample' BY DEF Types, LowerSample, AIR, WATER
<1>4. UpperSample' BY DEF Types, UpperSample, Valve, AIR, WATER
<1>5. Valve' BY DEF Types, LowerSample, UpperSample, Valve, NeverEmpty, THRESHOLD, AIR, WATER
<1>6. Heater' BY DEF Types, Heater
<1>7. QED BY <1>1, <1>2, <1>3, <1>4, <1>5, <1>6, TypesOK, PTL

\* The second test shuts it before the tank can rise further.
LEMMA CloseIInv == IInv /\ close_valva => IInv'
<1> SUFFICES ASSUME IInv, close_valva PROVE IInv' OBVIOUS
<1> USE Marks, TypesOK DEF IInv, close_valva, tank
<1>1. Types' BY DEF Types, NoOverflow, HeatBounded, Valve, Heater
<1>2. (NoOverflow /\ NeverEmpty /\ HeatBounded)'
  BY DEF Types, NoOverflow, NeverEmpty, HeatBounded, Valve, Heater
<1>3. LowerSample' BY DEF Types, LowerSample, AIR, WATER
<1>4. UpperSample' BY DEF Types, UpperSample, Valve, AIR, WATER
<1>5. Valve' BY DEF Types, LowerSample, UpperSample, Valve, NeverEmpty, THRESHOLD, AIR, WATER
<1>6. Heater' BY DEF Types, Heater
<1>7. QED BY <1>1, <1>2, <1>3, <1>4, <1>5, <1>6, TypesOK, PTL

\* A second moves the level by one unit, from where the two turns left the valve.
LEMMA SecondIInv == IInv /\ Second => IInv'
<1> SUFFICES ASSUME IInv, Second PROVE IInv' OBVIOUS
<1> USE Marks, TypesOK DEF IInv, Second
<1>1. Types' BY DEF Types, NoOverflow, HeatBounded, Valve, Heater
<1>2. (NoOverflow /\ NeverEmpty /\ HeatBounded)'
  BY DEF Types, NoOverflow, NeverEmpty, HeatBounded, Valve, Heater
<1>3. LowerSample' BY DEF Types, LowerSample, AIR, WATER
<1>4. UpperSample' BY DEF Types, UpperSample, Valve, AIR, WATER
<1>5. Valve' BY DEF Types, LowerSample, UpperSample, Valve, NeverEmpty, THRESHOLD, AIR, WATER
<1>6. Heater' BY DEF Types, Heater
<1>7. QED BY <1>1, <1>2, <1>3, <1>4, <1>5, <1>6, TypesOK, PTL

\* Every reachable state satisfies the strengthened invariant.
LEMMA Inductive == Spec => []IInv
<1>1. ASSUME IInv, [Next]_vars
      PROVE  IInv'
  <2>1. CASE UNCHANGED vars
    BY <1>1, <2>1 DEF vars, IInv, TypeOK, NoOverflow,
       NeverEmpty, HeatBounded, LowerSample, UpperSample, Valve, Heater
  <2>2. QED BY <1>1, <2>1, WaterControlIInv, OpenIInv, CloseIInv, SecondIInv DEF Next
<1>2. QED BY <1>1, InitIInv, PTL DEF Spec

\* The probes, the pins and the two threads' positions keep to their ranges (waterlevel.c,
\* WaterControl_thread.c).
THEOREM TypeCorrect == Spec => []TypeOK
<1>1. IInv => TypeOK BY DEF IInv
<1>2. QED BY <1>1, Inductive, PTL

\* In every tank that meets MarksAssumption, WaterLevel shuts the valve before the water is two
\* units above the upper probe, though it tests samples that may be a second old.
THEOREM TankNeverOverflows == Spec => []NoOverflow
<1>1. IInv => NoOverflow BY DEF IInv
<1>2. QED BY <1>1, Inductive, PTL

\* It opens the valve before the water is three units below the lower probe: a tank, however
\* small its marks, is never emptied by a dispenser that takes no more than a unit a second.
THEOREM TankNeverEmpty == Spec => []NeverEmpty
<1>1. IInv => NeverEmpty BY DEF IInv
<1>2. QED BY <1>1, Inductive, PTL

\* WaterControl switches the heater off within a turn of the upper threshold.
THEOREM WaterNeverTooHot == Spec => []HeatBounded
<1>1. IInv => HeatBounded BY DEF IInv
<1>2. QED BY <1>1, Inductive, PTL

\* WaterLevel opens a shut valve only while the water really is below the lower probe, whichever
\* of the two threads had its turn first.
THEOREM ValveOpensOnlyWhenLow == Spec => OpenedOnlyWhenLow
<1>1. ASSUME IInv, [Next]_vars, valva = "LOW", valva' = "HIGH"
      PROVE  level < LowMark
  BY <1>1, MarksAssumption DEF Next, vars, WaterControl, open_valva, close_valva, Second, THRESHOLD,
     IInv, TypeOK, LowerSample, AIR, WATER
<1>2. QED BY <1>1, Inductive, PTL DEF Spec, OpenedOnlyWhenLow
=============================================================================
