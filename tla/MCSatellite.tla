----------------------------- MODULE MCSatellite -----------------------------
(* The satellite with a controller, an injector and a late comer, and the  *)
(* values on both sides of every comparison the code makes.                *)
EXTENDS Satellite

MCInputs == [f \in Fields |->
  CASE f = "ALTITUDE" -> {0, 500, 100000}
    [] f = "SPEED"    -> {0, 40}
    [] f = "FUEL"     -> {0, 100}
    [] f = "TEMP"     -> {350, 351}
    [] f = "STRESS"   -> {80, 81}
    [] OTHER          -> {0}]

(* Fewer values for the temporal run, where both faults can be raised over *)
(* and over again while a clock runs.                                      *)
MCLiveInputs == [f \in Fields |->
  CASE f = "ALTITUDE" -> {0, 100000}
    [] f = "TEMP"     -> {20, 351}
    [] f = "SPEED"    -> {0, 40}
    [] f = "FUEL"     -> {0}
    [] f = "STRESS"   -> {81}
    [] OTHER          -> {}]
=============================================================================
