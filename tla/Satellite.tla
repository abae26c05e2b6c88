------------------------------ MODULE Satellite ------------------------------
(***************************************************************************)
(* The satellite server (src/Network): one select() loop that owns the     *)
(* telemetry of the rocket, the phase of the mission and up to MaxClients  *)
(* TCP clients, the CONTROLLER (JoyPi) and the INJECTOR (physics) among    *)
(* them.                                                                   *)
(*                                                                         *)
(* One turn of the loop is: read lines of any clients (pc = "input"), then *)
(* check_state_transitions once (Check), then the periodic telemetry if it *)
(* is due (Push).  Each complete line is handled in one step: the server   *)
(* has one thread and a handler never yields.                              *)
(*                                                                         *)
(* Abstractions.  Temperature, stress, pressure and thrust are only        *)
(* compared with a threshold on arrival or echoed, so they are inputs and  *)
(* not state.  g_fault1/2_started is kept as the time elapsed since it was *)
(* taken, which is all the code computes from it.  out and pipe hold the   *)
(* lines the current step writes to each socket and to the local FIFOs; a  *)
(* connection refused with ERR SERVER_BUSY changes no state of the server. *)
(***************************************************************************)
EXTENDS Integers, Sequences

CONSTANTS
  MaxClients,   \* slots of the client table (16 in the source)
  FaultDelay,   \* seconds a fault may stay open (10 in the source)
  Inputs        \* field |-> the values an INJECTOR sends for it

Faults     == {1, 2}                      \* 1: temperature, 2: stress
Roles      == {"CONTROLLER", "INJECTOR"}
Fields     == {"ALTITUDE", "SPEED", "FUEL", "TEMP", "STRESS", "OTHER"}
Phases     == {"READY", "FLYING", "LANDING", "EMERGENCY", "EXPLODED"}
Descending == {"LANDING", "EMERGENCY"}
Orbit      == 100000
Critical   == [f \in Faults |-> IF f = 1 THEN 350 ELSE 80]
Off        == -1                          \* g_faultN_started = 0
Slots      == 1..MaxClients
Nobody     == 0                           \* a step that answers no client

ASSUME SatelliteAssumption ==
  /\ MaxClients \in Nat \ {0}
  /\ FaultDelay \in Nat \ {0}
  /\ Inputs \in [Fields -> SUBSET Int]

VARIABLES
  pc,             \* "input" or "push": where the loop is
  type,           \* per slot; "free" is fd < 0
  authed,         \* the slots whose client is authenticated
  state,          \* g_telem.state
  altitude, speed, fuel, altitude_received,
  pressure,       \* pressure_fault and pressure_corrector: "nominal" when
                  \* neither, "fault" when the first, "corrected" when both
  active,         \* the faults N with g_telem.faultN_active
  started,        \* g_faultN_started, as the time elapsed since
  out, pipe,      \* the lines written by the current step
  told, alarms    \* history: the last phase announced by an EVENT line, and
                  \* the faults announced and not yet announced resolved

clients   == <<type, authed>>
telemetry == <<altitude, speed, fuel, altitude_received>>
faults    == <<active, started>>
writes    == <<out, pipe, told, alarms>>
vars      == <<pc, clients, state, telemetry, pressure, faults, writes>>

-----------------------------------------------------------------------------
(* What a step writes.                                                     *)

(* Wrong variant of Listens: the role is not looked at.                    *)
ListensAnyRole(s, role) == role \in Roles /\ s \in authed

Listens(s, role) == type[s] = role /\ s \in authed

Silence == [s \in Slots |-> << >>]

PhaseEvents ==
  {"EVENT_LAUNCH", "EVENT_LAND", "EVENT_LANDED", "EVENT_EXPLODED", "EVENT_RESET"}

Events == PhaseEvents \cup
  {"TELEMETRY", "EVENT_MEL", "EVENT_PROBLEM", "EVENT_PROBLEM1", "EVENT_PROBLEM2",
   "EVENT_RESOLVED", "EVENT_RESOLVED1", "EVENT_RESOLVED2"}

Orders ==
  {"CMD_EVENT_LAUNCH", "CMD_EVENT_LAND", "CMD_EVENT_EXPLODE", "CMD_EVENT_RESUME",
   "CMD_EVENT_FIX_TEMP", "CMD_EVENT_FIX_STRESS"}

Replies ==
  {"AUTH_OK", "AUTH_FAIL", "OK", "OK_LAUNCH", "OK_LAND", "OK_PRES_FAULT", "OK_PRES_FIX",
   "OK_PRES_OK", "OK_REP1_NONE", "OK_REP1_FIX", "OK_REP2_NONE", "OK_REP2_FIX", "OK_MEL",
   "DATA_ALT", "DATA_TEMP", "FAIL_ALREADY_LAUNCHED", "FAIL_NOT_READY", "FAIL_NOT_FLYING",
   "FAIL_NOT_IN_ORBIT", "FAIL_BAD_MELODY", "FAIL_BAD_FORMAT", "FAIL_UNKNOWN_CMD"}

SocketLines == Replies \cup Events \cup Orders

FifoLines ==
  {"EXPLODE", "LAUNCH_OK", "LAND", "RESUME", "RESET_SIM", "CLEAR_ALERTS", "FAULT1",
   "FAULT2", "PROBLEM_ON", "PROBLEM_OFF", "SET"}

(* What a listener concludes from one more EVENT line.  LAUNCH and RESET   *)
(* silently close every fault.                                             *)
Opens(ev) ==
  {f \in Faults : ev = IF f = 1 THEN "EVENT_PROBLEM1" ELSE "EVENT_PROBLEM2"}

Closes(ev) ==
  {f \in Faults : ev \in {"EVENT_LAUNCH", "EVENT_RESET",
                         IF f = 1 THEN "EVENT_RESOLVED1" ELSE "EVENT_RESOLVED2"}}

Heard(ev) ==
  /\ told' = IF ev \in PhaseEvents THEN ev ELSE told
  /\ alarms' = (alarms \ Closes(ev)) \cup Opens(ev)

(* Lines for c before and after the broadcasts ev (controllers) and inj    *)
(* (injectors), slot by slot, and the lines for the local FIFOs.           *)
Write(c, before, ev, inj, after, fifo) ==
  /\ out' = [s \in Slots |->
              (IF s = c THEN before ELSE << >>)
              \o (IF Listens(s, "CONTROLLER") THEN ev ELSE << >>)
              \o (IF Listens(s, "INJECTOR") THEN inj ELSE << >>)
              \o (IF s = c THEN after ELSE << >>)]
  /\ pipe' = fifo
  /\ IF ev = << >> THEN UNCHANGED <<told, alarms>> ELSE Heard(Head(ev))

Answer(c, line) == Write(c, <<line>>, << >>, << >>, << >>, << >>)

Explode(c, after) ==
  /\ state' = "EXPLODED"
  /\ Write(c, << >>, <<"EVENT_EXPLODED">>, <<"CMD_EVENT_EXPLODE">>, after,
           <<"EXPLODE">>)

-----------------------------------------------------------------------------
(* Initial state: memset of g_telem and of the client table in main.       *)

Init ==
  /\ pc = "input"
  /\ type = [s \in Slots |-> "free"]
  /\ authed = {}
  /\ state = "READY"
  /\ altitude = 0 /\ speed = 0 /\ fuel = 100 /\ altitude_received = FALSE
  /\ pressure = "nominal"
  /\ active = {}
  /\ started = [f \in Faults |-> Off]
  /\ out = Silence /\ pipe = << >> /\ told = "EVENT_RESET" /\ alarms = {}

-----------------------------------------------------------------------------
(* Connections.                                                            *)

FirstFree(s) == type[s] = "free" /\ \A r \in Slots : r < s => type[r] # "free"

Accept(s) ==
  /\ pc = "input" /\ FirstFree(s)
  /\ type' = [type EXCEPT ![s] = "UNKNOWN"]
  /\ authed' = authed \ {s}
  /\ out' = Silence /\ pipe' = << >>
  /\ UNCHANGED <<pc, state, telemetry, pressure, faults, told, alarms>>

(* read() returns 0 or an error: remove_client.                            *)
Disconnect(c) ==
  /\ pc = "input" /\ type[c] # "free"
  /\ type' = [type EXCEPT ![c] = "free"]
  /\ authed' = authed \ {c}
  /\ out' = Silence /\ pipe' = << >>
  /\ UNCHANGED <<pc, state, telemetry, pressure, faults, told, alarms>>

(* AUTH <role>: a controller's authentication also pushes the telemetry to *)
(* every controller, the new one included.                                 *)
Authenticate(c, role) ==
  /\ type' = [type EXCEPT ![c] = role]
  /\ authed' = authed \cup {c}
  /\ out' = [s \in Slots |->
              (IF s = c THEN <<"AUTH_OK">> ELSE << >>)
              \o (IF role = "CONTROLLER" /\ (s = c \/ Listens(s, role))
                  THEN <<"TELEMETRY">> ELSE << >>)]
  /\ pipe' = << >>
  /\ UNCHANGED <<pc, state, telemetry, pressure, faults, told, alarms>>

Refuse(c, line) ==
  Answer(c, line) /\ UNCHANGED <<pc, clients, state, telemetry, pressure, faults>>

-----------------------------------------------------------------------------
(* Commands of a CONTROLLER.                                               *)

CmdLU(c) ==
  \/ /\ state # "READY"
     /\ Refuse(c, IF state = "FLYING" THEN "FAIL_ALREADY_LAUNCHED"
                                      ELSE "FAIL_NOT_READY")
  \/ /\ state = "READY"
     /\ state' = "FLYING"
     /\ pressure' = "nominal"
     /\ active' = {}
     /\ started' = [f \in Faults |-> Off]
     /\ Write(c, <<"OK_LAUNCH">>, <<"EVENT_LAUNCH">>, <<"CMD_EVENT_LAUNCH">>,
              << >>, <<"LAUNCH_OK">>)
     /\ UNCHANGED <<pc, clients, telemetry>>

(* Wrong variant of CmdLD: the reply follows the broadcast.                *)
CmdLDReplyLast(c) ==
  \/ state # "FLYING" /\ Refuse(c, "FAIL_NOT_FLYING")
  \/ state = "FLYING" /\ altitude < Orbit /\ Refuse(c, "FAIL_NOT_IN_ORBIT")
  \/ /\ state = "FLYING" /\ altitude >= Orbit
     /\ state' = "EMERGENCY"
     /\ Write(c, << >>, <<"EVENT_LAND">>, <<"CMD_EVENT_LAND">>, <<"OK_LAND">>,
              <<"LAND">>)
     /\ UNCHANGED <<pc, clients, telemetry, pressure, faults>>

CmdLD(c) ==
  \/ state # "FLYING" /\ Refuse(c, "FAIL_NOT_FLYING")
  \/ state = "FLYING" /\ altitude < Orbit /\ Refuse(c, "FAIL_NOT_IN_ORBIT")
  \/ /\ state = "FLYING" /\ altitude >= Orbit
     /\ state' = "EMERGENCY"
     /\ Write(c, <<"OK_LAND">>, <<"EVENT_LAND">>, <<"CMD_EVENT_LAND">>, << >>,
              <<"LAND">>)
     /\ UNCHANGED <<pc, clients, telemetry, pressure, faults>>

(* CMD PRES walks through fault, correction and back to nominal.           *)
CmdPRES(c) ==
  /\ \/ /\ pressure = "nominal" /\ pressure' = "fault"
        /\ Write(c, <<"OK_PRES_FAULT">>, <<"EVENT_PROBLEM">>, << >>, << >>,
                 <<"PROBLEM_ON">>)
     \/ /\ pressure = "fault" /\ pressure' = "corrected"
        /\ Write(c, <<"OK_PRES_FIX">>, <<"EVENT_RESOLVED">>, << >>, << >>,
                 <<"PROBLEM_OFF">>)
     \/ /\ pressure = "corrected" /\ pressure' = "nominal"
        /\ Write(c, <<"OK_PRES_OK">>, << >>, << >>, << >>, <<"CLEAR_ALERTS">>)
  /\ UNCHANGED <<pc, clients, state, telemetry, faults>>

RepairReply == [f \in Faults |->
  [none  |-> IF f = 1 THEN "OK_REP1_NONE" ELSE "OK_REP2_NONE",
   fixed |-> IF f = 1 THEN "OK_REP1_FIX" ELSE "OK_REP2_FIX",
   event |-> IF f = 1 THEN "EVENT_RESOLVED1" ELSE "EVENT_RESOLVED2",
   inj   |-> IF f = 1 THEN "CMD_EVENT_FIX_TEMP" ELSE "CMD_EVENT_FIX_STRESS"]]

(* Wrong variant of CmdREP: a repair stops the clocks of both faults.      *)
CmdREPStopsBoth(c, f) ==
  \/ f \notin active /\ Refuse(c, RepairReply[f].none)
  \/ /\ f \in active
     /\ active' = active \ {f}
     /\ started' = [g \in Faults |-> Off]
     /\ Write(c, <<RepairReply[f].fixed>>, <<RepairReply[f].event>>,
              <<RepairReply[f].inj>>, << >>, <<"PROBLEM_OFF">>)
     /\ UNCHANGED <<pc, clients, state, telemetry, pressure>>

CmdREP(c, f) ==
  \/ f \notin active /\ Refuse(c, RepairReply[f].none)
  \/ /\ f \in active
     /\ active' = active \ {f}
     /\ started' = [started EXCEPT ![f] = Off]
     /\ Write(c, <<RepairReply[f].fixed>>, <<RepairReply[f].event>>,
              <<RepairReply[f].inj>>, << >>, <<"PROBLEM_OFF">>)
     /\ UNCHANGED <<pc, clients, state, telemetry, pressure>>

(* CMD MEL n with n in 1..3; any other n is FAIL BAD_MELODY.               *)
CmdMEL(c, n) ==
  \/ n \notin 1..3 /\ Refuse(c, "FAIL_BAD_MELODY")
  \/ /\ n \in 1..3
     /\ Write(c, <<"OK_MEL">>, <<"EVENT_MEL">>, << >>, << >>, << >>)
     /\ UNCHANGED <<pc, clients, state, telemetry, pressure, faults>>

-----------------------------------------------------------------------------
(* Commands of an INJECTOR.                                                *)

Reset(c) ==
  /\ state' = "READY"
  /\ altitude' = 0 /\ speed' = 0 /\ fuel' = 100 /\ altitude_received' = FALSE
  /\ pressure' = "nominal"
  /\ active' = {}
  /\ started' = [f \in Faults |-> Off]
  /\ Write(c, << >>, <<"EVENT_RESET">>, << >>, <<"OK">>,
           <<"RESET_SIM", "CLEAR_ALERTS", "PROBLEM_OFF">>)
  /\ UNCHANGED <<pc, clients>>

(* Wrong variants of Refreshed: destruction, or a descent, is not final.   *)
RefreshedAfterExplosion(alt, spd, received) ==
  IF state \in Descending THEN state
  ELSE IF alt <= 0 /\ spd <= 0 /\ received THEN "READY"
  ELSE IF alt > 0 \/ spd > 0 THEN "FLYING" ELSE state

RefreshedInDescent(alt, spd, received) ==
  IF state = "EXPLODED" THEN state
  ELSE IF alt <= 0 /\ spd <= 0 /\ received THEN "READY"
  ELSE IF alt > 0 \/ spd > 0 THEN "FLYING" ELSE state

(* refresh_state_from_telemetry: the phase after a SET.                    *)
Refreshed(alt, spd, received) ==
  IF state \in Descending \cup {"EXPLODED"} THEN state
  ELSE IF alt <= 0 /\ spd <= 0 /\ received THEN "READY"
  ELSE IF alt > 0 \/ spd > 0 THEN "FLYING" ELSE state

(* Wrong variant of SetAltitude: only an altitude on the ground counts as  *)
(* received.                                                               *)
SetAltitudeGroundOnly(c, v) ==
  /\ altitude' = v /\ altitude_received' = (v <= 0)
  /\ state' = Refreshed(v, speed, v <= 0)
  /\ Write(c, << >>, << >>, << >>, <<"OK">>, <<"SET">>)
  /\ UNCHANGED <<pc, clients, speed, fuel, pressure, faults>>

SetAltitude(c, v) ==
  /\ altitude' = v /\ altitude_received' = TRUE
  /\ state' = Refreshed(v, speed, TRUE)
  /\ Write(c, << >>, << >>, << >>, <<"OK">>, <<"SET">>)
  /\ UNCHANGED <<pc, clients, speed, fuel, pressure, faults>>

SetSpeed(c, v) ==
  /\ speed' = v
  /\ state' = Refreshed(altitude, v, altitude_received)
  /\ Write(c, << >>, << >>, << >>, <<"OK">>, <<"SET">>)
  /\ UNCHANGED <<pc, clients, altitude, fuel, altitude_received, pressure, faults>>

SetFuel(c, v) ==
  /\ fuel' = v
  /\ state' = Refreshed(altitude, speed, altitude_received)
  /\ Write(c, << >>, << >>, << >>, <<"OK">>, <<"SET">>)
  /\ UNCHANGED <<pc, clients, altitude, speed, altitude_received, pressure, faults>>

FaultLine == [f \in Faults |->
  [event |-> IF f = 1 THEN "EVENT_PROBLEM1" ELSE "EVENT_PROBLEM2",
   fifo  |-> IF f = 1 THEN <<"SET", "FAULT1", "PROBLEM_ON">> ELSE <<"FAULT2", "PROBLEM_ON">>,
   quiet |-> IF f = 1 THEN <<"SET">> ELSE << >>]]

(* Wrong variant of Raises: a critical value restarts an open fault.       *)
RaisesAgain(f, v) == v > Critical[f] /\ state # "READY"

Raises(f, v) == v > Critical[f] /\ state # "READY" /\ f \notin active

(* SET TEMP and SET STRESS: past the threshold they open a fault and start *)
(* its clock, once, in any phase but READY.                                *)
SetMonitored(c, f, v) ==
  /\ \/ /\ Raises(f, v)
        /\ active' = active \cup {f}
        /\ started' = [started EXCEPT ![f] = 0]
        /\ Write(c, << >>, <<FaultLine[f].event>>, << >>, <<"OK">>, FaultLine[f].fifo)
     \/ /\ ~Raises(f, v)
        /\ Write(c, << >>, << >>, << >>, <<"OK">>, FaultLine[f].quiet)
        /\ UNCHANGED faults
  /\ state' = Refreshed(altitude, speed, altitude_received)
  /\ UNCHANGED <<pc, clients, telemetry, pressure>>

(* PRESSURE, THRUST and unknown fields still refresh the phase.            *)
SetOther(c) ==
  /\ state' = Refreshed(altitude, speed, altitude_received)
  /\ Write(c, << >>, << >>, << >>, <<"OK">>, <<"SET">>)
  /\ UNCHANGED <<pc, clients, telemetry, pressure, faults>>

(* Wrong variant of ForcedExplosion: nobody is told.                       *)
SilentExplosion(c) ==
  /\ state' = "EXPLODED"
  /\ Write(c, << >>, << >>, << >>, <<"OK">>, << >>)
  /\ UNCHANGED <<pc, clients, telemetry, pressure, faults>>

ForcedExplosion(c) ==
  Explode(c, <<"OK">>) /\ UNCHANGED <<pc, clients, telemetry, pressure, faults>>

-----------------------------------------------------------------------------
(* dispatch_line: one complete line l = [op, field, val] of client c.      *)

Line(op)         == [op |-> op, field |-> "OTHER", val |-> 0]
SetLine(f, v)    == [op |-> "SET", field |-> f, val |-> v]
Melody(n)        == [op |-> "CMD_MEL", field |-> "OTHER", val |-> n]

ControllerOps == {"CMD_LU", "CMD_LD", "CMD_ALT", "CMD_TEMP", "CMD_PRES",
                  "CMD_REP1", "CMD_REP2", "CMD_MEL"}
InjectorOps   == {"RESET", "SET", "SET_BAD", "EXPLODE"}

Lines ==
  {Line(op) : op \in {"AUTH_CONTROLLER", "AUTH_INJECTOR", "GARBAGE"}
                     \cup (ControllerOps \ {"CMD_MEL"}) \cup (InjectorOps \ {"SET"})}
  \cup {Melody(n) : n \in {1, 4}}
  \cup UNION {{SetLine(f, v) : v \in Inputs[f]} : f \in Fields}

(* A client that has not identified itself may only send AUTH.             *)
UnknownLine(c, l) ==
  \/ l.op = "AUTH_CONTROLLER" /\ Authenticate(c, "CONTROLLER")
  \/ l.op = "AUTH_INJECTOR" /\ Authenticate(c, "INJECTOR")
  \/ l.op \notin {"AUTH_CONTROLLER", "AUTH_INJECTOR"} /\ Refuse(c, "AUTH_FAIL")

(* The !authed branch of both handlers is unreachable (see Audience), so   *)
(* authed is a guard here.                                                 *)
ControllerLine(c, l) ==
  \/ l.op = "AUTH_CONTROLLER" /\ Authenticate(c, "CONTROLLER")
  \/ /\ c \in authed
     /\ \/ l.op = "CMD_LU" /\ CmdLU(c)
        \/ l.op = "CMD_LD" /\ CmdLD(c)
        \/ l.op = "CMD_ALT" /\ Refuse(c, "DATA_ALT")
        \/ l.op = "CMD_TEMP" /\ Refuse(c, "DATA_TEMP")
        \/ l.op = "CMD_PRES" /\ CmdPRES(c)
        \/ l.op = "CMD_REP1" /\ CmdREP(c, 1)
        \/ l.op = "CMD_REP2" /\ CmdREP(c, 2)
        \/ l.op = "CMD_MEL" /\ CmdMEL(c, l.val)
        \/ l.op \notin ControllerOps \cup {"AUTH_CONTROLLER"} /\ Refuse(c, "FAIL_UNKNOWN_CMD")

InjectorLine(c, l) ==
  \/ l.op = "AUTH_INJECTOR" /\ Authenticate(c, "INJECTOR")
  \/ /\ c \in authed
     /\ \/ l.op = "RESET" /\ Reset(c)
        \/ l.op = "EXPLODE" /\ ForcedExplosion(c)
        \/ l.op = "SET_BAD" /\ Refuse(c, "FAIL_BAD_FORMAT")
        \/ /\ l.op = "SET"
           /\ \/ l.field = "ALTITUDE" /\ SetAltitude(c, l.val)
              \/ l.field = "SPEED" /\ SetSpeed(c, l.val)
              \/ l.field = "FUEL" /\ SetFuel(c, l.val)
              \/ l.field = "TEMP" /\ SetMonitored(c, 1, l.val)
              \/ l.field = "STRESS" /\ SetMonitored(c, 2, l.val)
              \/ l.field = "OTHER" /\ SetOther(c)
        \/ l.op \notin InjectorOps \cup {"AUTH_INJECTOR"} /\ Refuse(c, "FAIL_UNKNOWN_CMD")

Dispatch(c, l) ==
  /\ pc = "input"
  /\ \/ type[c] = "UNKNOWN" /\ UnknownLine(c, l)
     \/ type[c] = "CONTROLLER" /\ ControllerLine(c, l)
     \/ type[c] = "INJECTOR" /\ InjectorLine(c, l)

-----------------------------------------------------------------------------
(* check_state_transitions, once per turn: the first case that applies.    *)

(* Wrong variants: an empty tank is not empty yet, touchdown waits for the *)
(* rocket to stop.                                                         *)
TankBelowZero   == state \in Descending \cup {"FLYING"} /\ fuel < 0
StoppedOnGround == state \in Descending /\ altitude <= 0 /\ speed <= 0 /\ altitude_received

Expired(f) == f \in active /\ started[f] # Off /\ started[f] >= FaultDelay
OutOfFuel  == state \in Descending \cup {"FLYING"} /\ fuel <= 0
TouchedDown == state \in Descending /\ altitude <= 0 /\ altitude_received

FaultExplodes(f) ==
  /\ Expired(f) /\ (f = 2 => ~Expired(1))
  /\ Explode(Nobody, << >>)
  /\ started' = [started EXCEPT ![f] = Off]
  /\ UNCHANGED <<clients, telemetry, pressure, active>>

(* Wrong variant of FuelExplodes: the automatic landing of the documents.  *)
FuelLands ==
  /\ \A f \in Faults : ~Expired(f)
  /\ OutOfFuel
  /\ state' = "LANDING"
  /\ Write(Nobody, << >>, <<"EVENT_LAND">>, <<"CMD_EVENT_LAND">>, << >>, <<"LAND">>)
  /\ UNCHANGED <<clients, telemetry, pressure, faults>>

FuelExplodes ==
  /\ \A f \in Faults : ~Expired(f)
  /\ OutOfFuel
  /\ Explode(Nobody, << >>)
  /\ UNCHANGED <<clients, telemetry, pressure, faults>>

(* Wrong variant of Landed: the last speed received survives touchdown.    *)
LandedStillMoving ==
  /\ \A f \in Faults : ~Expired(f)
  /\ ~OutOfFuel /\ TouchedDown
  /\ state' = "READY" /\ altitude' = 0 /\ altitude_received' = FALSE
  /\ Write(Nobody, << >>, <<"EVENT_LANDED">>, <<"CMD_EVENT_RESUME">>, << >>, <<"RESUME">>)
  /\ UNCHANGED <<clients, speed, fuel, pressure, faults>>

Landed ==
  /\ \A f \in Faults : ~Expired(f)
  /\ ~OutOfFuel /\ TouchedDown
  /\ state' = "READY" /\ altitude' = 0 /\ speed' = 0 /\ altitude_received' = FALSE
  /\ Write(Nobody, << >>, <<"EVENT_LANDED">>, <<"CMD_EVENT_RESUME">>, << >>, <<"RESUME">>)
  /\ UNCHANGED <<clients, fuel, pressure, faults>>

NoTransition ==
  /\ \A f \in Faults : ~Expired(f)
  /\ ~OutOfFuel /\ ~TouchedDown
  /\ out' = Silence /\ pipe' = << >>
  /\ UNCHANGED <<clients, state, telemetry, pressure, faults, told, alarms>>

Check ==
  /\ pc = "input" /\ pc' = "push"
  /\ (\E f \in Faults : FaultExplodes(f)) \/ FuelExplodes \/ Landed \/ NoTransition

(* The telemetry goes out every 500 ms; a turn lasts at most 100 ms.       *)
Push ==
  /\ pc = "push" /\ pc' = "input"
  /\ \/ Write(Nobody, << >>, <<"TELEMETRY">>, << >>, << >>, << >>)
     \/ out' = Silence /\ pipe' = << >> /\ UNCHANGED <<told, alarms>>
  /\ UNCHANGED <<clients, state, telemetry, pressure, faults>>

(* A second passes.  Clocks stop at FaultDelay: Expired tells nothing      *)
(* beyond it.                                                              *)
Tick ==
  /\ \E f \in Faults : started[f] \in 0..(FaultDelay - 1)
  /\ started' = [f \in Faults |-> IF started[f] \in 0..(FaultDelay - 1)
                                  THEN started[f] + 1 ELSE started[f]]
  /\ UNCHANGED <<pc, clients, state, telemetry, pressure, active, writes>>

(* SIGINT/SIGTERM or a crash, then a new start: nothing is persisted.      *)
Restart ==
  /\ pc' = "input"
  /\ type' = [s \in Slots |-> "free"]
  /\ authed' = {}
  /\ state' = "READY"
  /\ altitude' = 0 /\ speed' = 0 /\ fuel' = 100 /\ altitude_received' = FALSE
  /\ pressure' = "nominal"
  /\ active' = {}
  /\ started' = [f \in Faults |-> Off]
  /\ out' = Silence /\ pipe' = << >> /\ told' = "EVENT_RESET" /\ alarms' = {}

Next ==
  \/ \E s \in Slots : Accept(s) \/ Disconnect(s)
  \/ \E c \in Slots : \E l \in Lines : Dispatch(c, l)
  \/ Check
  \/ Push
  \/ Tick
  \/ Restart

Spec == Init /\ [][Next]_vars

(* The loop keeps turning (select times out after 100 ms) and time passes. *)
FairSpec == Spec /\ WF_vars(Check) /\ WF_vars(Push) /\ WF_vars(Tick)

-----------------------------------------------------------------------------
(* Properties.                                                             *)

(* Types.  LANDING is declared in satellite_protocol.h and tested for in   *)
(* four places, yet no assignment enters it: only the other phases occur.  *)
TypeOK ==
  /\ pc \in {"input", "push"}
  /\ type \in [Slots -> Roles \cup {"free", "UNKNOWN"}]
  /\ authed \subseteq Slots
  /\ state \in Phases \ {"LANDING"}
  /\ altitude \in Int /\ speed \in Int /\ fuel \in Int
  /\ altitude_received \in BOOLEAN
  /\ pressure \in {"nominal", "fault", "corrected"}
  /\ active \subseteq Faults
  /\ started \in [Faults -> {Off} \cup 0..FaultDelay]
  /\ out \in [Slots -> Seq(SocketLines)] /\ pipe \in Seq(FifoLines)
  /\ told \in PhaseEvents /\ alarms \subseteq Faults

(* No fault is forgotten: an open fault either has its clock running or    *)
(* has already destroyed the rocket, and no clock runs without its fault.  *)
(* check_state_transitions stops the clock without closing the fault, and  *)
(* the repairs, launch and reset touch both: they must stay in step.       *)
NoFaultForgotten ==
  \A f \in Faults :
    /\ started[f] # Off => f \in active
    /\ f \in active /\ started[f] = Off => state = "EXPLODED"

(* A descent can end: touchdown needs g_altitude_received, so a phase that *)
(* only touchdown (or destruction) leaves never occurs without it.         *)
DescentHasAltitude == state \in Descending => altitude_received

(* READY means at rest on the ground, whatever order the SET lines, the    *)
(* touchdown and the launches came in.                                     *)
ReadyIsAtRest == state = "READY" => altitude <= 0 /\ speed <= 0

(* No phase that check_state_transitions should have left.                 *)
Settled ==
  /\ state \in {"FLYING", "EMERGENCY"} => fuel > 0
  /\ state = "EMERGENCY" => altitude > 0

Says(line) == \E s \in Slots : \E i \in DOMAIN out[s] : out[s][i] = line

(* A telemetry line shows a rocket out of fuel in flight, or on the ground *)
(* in a descent, only if AUTH CONTROLLER pushes it: that push comes in the *)
(* middle of a turn, the periodic one after the automatic transitions.     *)
TelemetryIsSettled == Says("TELEMETRY") => Settled \/ Says("AUTH_OK")

(* Listening to EVENT lines is enough to know a descent and a destruction, *)
(* and which faults are open: every change of these is announced, and      *)
(* nothing is announced that is not so.                                    *)
EventsTellTheStory ==
  /\ state = "EMERGENCY" <=> told = "EVENT_LAND"
  /\ state = "EXPLODED" <=> told = "EVENT_EXPLODED"
  /\ alarms = active

(* Pushes reach authenticated clients of the right role only, and being    *)
(* identified and being authenticated are the same thing, which makes the  *)
(* AUTH_FAIL branches of the two handlers dead.                            *)
Audience ==
  \A s \in Slots :
    /\ s \in authed <=> type[s] \in Roles
    /\ \A i \in DOMAIN out[s] :
         /\ out[s][i] \in Events => type[s] = "CONTROLLER"
         /\ out[s][i] \in Orders => type[s] = "INJECTOR"
         /\ type[s] # "free"

(* The reply to a controller comes before every push of the same step, and *)
(* the reply to an injector after every order: one reply, at the place the *)
(* two clients look for it.                                                *)
ReplyDiscipline ==
  \A s \in Slots : \A i \in DOMAIN out[s] :
    /\ type[s] = "CONTROLLER" /\ i > 1 => out[s][i] \in Events
    /\ type[s] = "INJECTOR" /\ i < Len(out[s]) => out[s][i] \in Orders

(* Destruction is final: only RESET (or a new server) leaves EXPLODED, no  *)
(* telemetry and no landing does.                                          *)
ExplosionIsFinal ==
  [][state = "EXPLODED" /\ state' # "EXPLODED" => told' = "EVENT_RESET"]_vars

(* A fault is decided: repaired, closed by a launch or a reset, or fatal.  *)
(* Sending more critical telemetry does not postpone it.                   *)
FaultIsDecided ==
  \A f \in Faults : f \in active ~> (f \notin active \/ state = "EXPLODED")

(* A descent that reaches the ground is over, unless the telemetry takes   *)
(* the rocket off the ground again first.                                  *)
DescentEnds ==
  state = "EMERGENCY" /\ altitude <= 0 ~> state # "EMERGENCY" \/ altitude > 0

(* The satellite implements the life cycle MissionPhase promises.          *)
Mission == INSTANCE MissionPhase
             WITH phase <- state, open <- active
MissionLifeCycle == Mission!Spec
=============================================================================
