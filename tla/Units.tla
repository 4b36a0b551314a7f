-------------------------------- MODULE Units --------------------------------
(***************************************************************************)
(* The ports on which SmartData travel: the code of a unit                 *)
(* (SmartData::Unit, smart_data/smart_data.hpp), its cast to a port, and   *)
(* the ports to which Protocol::update hands a frame.                      *)
(***************************************************************************)
EXTENDS Integers, Sequences

(* The exponents of sr, rad, m, kg, s, A, K, mol and cd.                   *)
Acceleration == <<0, 0, 1, 0, -2, 0, 0, 0, 0>>
Current      == <<0, 0, 0, 0, 0, 1, 0, 0, 0>>
Pressure     == <<0, 0, -1, 1, -2, 0, 0, 0, 0>>
Temperature  == <<0, 0, 0, 0, 0, 0, 1, 0, 0>>
Velocity     == <<0, 0, 1, 0, -1, 0, 0, 0, 0>>
Voltage      == <<0, 0, 2, 1, -3, -1, 0, 0, 0>>

(* The units of the transducers and of the InterestedSmartData of the      *)
(* components.                                                             *)
UnitsInUse == {Acceleration, Current, Pressure, Temperature, Velocity, Voltage}

EXP == 4

(* The nine fields of three bits of SIUnit::UNIT, each shifted to its      *)
(* place: SR_POS = 24 down to CD_POS = 0.  The bits for SI, NUM and MOD    *)
(* are above them.                                                         *)
UNIT(u) ==
  (u[1] + EXP) * 16777216 + (u[2] + EXP) * 2097152 + (u[3] + EXP) * 262144
    + (u[4] + EXP) * 32768 + (u[5] + EXP) * 4096 + (u[6] + EXP) * 512
    + (u[7] + EXP) * 64 + (u[8] + EXP) * 8 + (u[9] + EXP)

(* Mutant: the cast keeps the upper half.                                  *)
PortUpper(u) == (UNIT(u) \div 65536) % 65536

(* static_cast<Protocol::Port>(UNIT), a uint16_t: m, rad, sr and two bits  *)
(* of kg go.                                                               *)
Port(u) == UNIT(u) % 65536

GATEWAY     == 1000
TIME_CLIENT == 1004
RSU         == 9999
Reserved    == {GATEWAY, 1001, 1002, 1003, TIME_CLIENT, RSU}

(* What a frame carries: a PTP frame of type 0 to 3, or NotPTP (by size).  *)
NotPTP == -1

(* Protocol::update: the ports that are notified.                          *)
Notified(dst, ptp) ==
  IF dst # 0 THEN {dst}
  ELSE IF ptp \in {1, 3} THEN {TIME_CLIENT}
  ELSE {GATEWAY} \cup (IF ptp = NotPTP THEN {} ELSE {RSU})

(* An observer on the port of unit u is notified of a frame of unit v,      *)
(* whether the frame has the size of a PTP frame or not.                   *)
Hears(u, v) == \E ptp \in NotPTP .. 3 : Port(u) \in Notified(Port(v), ptp)

(* A frame of unit v reaches one of the components that have a fixed port. *)
Strays(v) == \E ptp \in NotPTP .. 3 : Notified(Port(v), ptp) \cap Reserved # {}

(* The units whose observers hear their own unit and nothing else.         *)
Separate == {u \in UnitsInUse : ~Strays(u) /\ \A v \in UnitsInUse : Hears(u, v) <=> u = v}
==============================================================================
