------------------------------ MODULE MCLayouts ------------------------------
(***************************************************************************)
(* The instance of Layouts that TLC checks.  The waypoints are those of a  *)
(* triangle, flown either way round or to and fro, and one a short hop     *)
(* away from home and 25 m from the next corner.  The genes take end       *)
(* values of the ranges in genes.py, to the metre; of the angles 36.9 and  *)
(* 53.1 degrees, a wall's range has both and a gate's the second.          *)
(***************************************************************************)
EXTENDS Layouts

MCWaypoint == {<<0, 0>>, <<0, 15>>, <<0, 40>>, <<-30, 40>>}
MCBounds == <<-40, 30, 10, 40>>
MCAlong == [wall |-> {1, 2, 4}, gate |-> {1, 4}]
MCLength == [wall |-> {17, 20}, gate |-> {18}]
MCOverhang == [wall |-> {6, 10}, gate |-> {4}]
MCGateWidth == [wall |-> {0}, gate |-> {7, 10}]
MCAngle == [wall |-> {<<4, 3>>, <<3, 4>>}, gate |-> {<<3, 4>>}]
=============================================================================
