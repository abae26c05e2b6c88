---------------------------- MODULE MissionPhase ----------------------------
(***************************************************************************)
(* What the satellite promises its clients about a mission: the phases it  *)
(* goes through and the faults that are open.  There is no LANDING phase;  *)
(* READY and FLYING are interchangeable under telemetry, EMERGENCY ends    *)
(* only by touchdown, destruction or reset, and EXPLODED only by reset.    *)
(***************************************************************************)
CONSTANT Faults

VARIABLES phase, open

Init == phase = "READY" /\ open = {}

(* A launch command: every fault is closed.                                *)
Launch == phase = "READY" /\ phase' = "FLYING" /\ open' = {}

(* Telemetry moves a rocket that is neither descending nor destroyed       *)
(* between ground and flight; past a threshold it opens one fault, never   *)
(* on the ground.                                                          *)
Observe ==
  /\ IF phase \in {"READY", "FLYING"} THEN phase' \in {"READY", "FLYING"}
                                      ELSE phase' = phase
  /\ \/ open' = open
     \/ phase # "READY" /\ \E f \in Faults \ open : open' = open \cup {f}

Land == phase = "FLYING" /\ phase' = "EMERGENCY" /\ open' = open

Touchdown == phase = "EMERGENCY" /\ phase' = "READY" /\ open' = open

Explode == phase' = "EXPLODED" /\ open' = open

Repair == phase' = phase /\ \E f \in open : open' = open \ {f}

Reset == phase' = "READY" /\ open' = {}

Next == Launch \/ Observe \/ Land \/ Touchdown \/ Explode \/ Repair \/ Reset

Spec == Init /\ [][Next]_<<phase, open>>
=============================================================================
