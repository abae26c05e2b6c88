-------------------------------- MODULE Dashboard --------------------------------
(***************************************************************************)
(* The dashboard (src/Dashboard/main.c, dashboard_logic.c,                 *)
(* dashboard_dynamics.c, pipes.c): every 120 ms it reads the lines of two  *)
(* FIFOs, the commands first, and steps its own simulation, which flies    *)
(* the rocket on the screen when telemetry is silent and counts ten        *)
(* seconds for every fault shown.  The launch popup is module Entry's.     *)
(*                                                                         *)
(* The satellite is MissionPhase with its pressure cycle and fault clocks. *)
(* The controller between them is taken with the satellite: a step writes  *)
(* the lines that module Controller shows it to write for the pushes and   *)
(* replies of that step.  wire holds them in the order they are written,   *)
(* from the network to the FIFOs; a frame has the commands of a prefix and *)
(* the data of a longer prefix, since the FIFOs are read one after the     *)
(* other.                                                                  *)
(*                                                                         *)
(* Abstractions.  Time is counted in frames.  Altitude is on the ground,   *)
(* below orbit or in orbit; fuel none, below the 20 % of a controlled      *)
(* landing, or more.  The SET lines of one telemetry are one.  Left out:   *)
(* what only the screen shows (attitude, thrust, melodies, the messages),  *)
(* the two alerts that only tests raise, steering, and the commands no     *)
(* program sends (PAUSE, QUIT, FIX_PROBLEM and the tests).                 *)
(***************************************************************************)
EXTENDS Integers, SequencesExt

CONSTANTS
  Faults,       \* the faults of the satellite (1: temperature, 2: stress)
  FaultFrames,  \* frames in ten seconds (84)
  FreshFrames,  \* frames telemetry counts as live (10)
  PendingMax,   \* lines that fit into a pending buffer (512 bytes)
  Fuels,        \* bound of the exploration: the fuel levels telemetry shows
  Telemetered,  \* bound of the exploration: the altitudes of telemetry in flight
  Everything,   \* bound of the exploration: FALSE restricts it by Explored, Quiet,
                \* TwoOpen and in Restart
  WireMax       \* bound of the exploration: lines unread when more are written

Altitudes == {"ground", "air", "orbit"}
Off       == -1

ASSUME DashboardAssumption ==
  /\ Faults \subseteq {1, 2}
  /\ FaultFrames \in Nat \ {0} /\ FreshFrames \in Nat
  /\ PendingMax \in Nat \ {0} /\ WireMax \in Nat
  /\ Fuels \subseteq {"none", "low", "high"}
  /\ Telemetered \subseteq Altitudes /\ Everything \in BOOLEAN

VARIABLES
  st,        \* RocketState, the picture
  framed,    \* a frame was made since time last passed
  wire,      \* lines on their way to the dashboard
  phase, open, pressure,  \* the satellite
  clock,     \* time since a fault opened, or Off when none runs
  up,        \* the controller is connected to the satellite
  notified, moving,       \* explosion_notified; last_altitude or last_speed > 0
  untold     \* history: since the last reset the dashboard lost a line, or was
             \* not sent one

mission == <<phase, open, pressure, clock>>
control == <<up, notified, moving>>
vars == <<st, framed, wire, mission, control, untold>>

Mission == INSTANCE MissionPhase

-----------------------------------------------------------------------------
(* Lines.                                                                  *)

Line(op) == [op |-> op]
Set(altitude, fuel) == [op |-> "SET", altitude |-> altitude, fuel |-> fuel]
DataOps  == {"SET", "PROBLEM_ON", "PROBLEM_OFF"}
IsData(line) == line.op \in DataOps
IsCmd(line)  == line.op \notin DataOps

Fault    == [f \in {1, 2} |-> IF f = 1 THEN "FAULT1" ELSE "FAULT2"]
FaultOff == [f \in {1, 2} |-> IF f = 1 THEN "FAULT1_OFF" ELSE "FAULT2_OFF"]
Coming(op) == \E i \in DOMAIN wire : wire[i].op = op

-----------------------------------------------------------------------------
(* dashboard_logic.c.                                                      *)

init_state ==
  [launched |-> FALSE, landing |-> FALSE, exploded |-> FALSE,
   problem |-> FALSE, alert |-> FALSE,         \* problem_active, alerts[2]
   shown |-> {},                               \* fault1_display, fault2_display
   since |-> [f \in Faults |-> Off],           \* fault1_since_ms, fault2_since_ms
   altitude |-> "ground", fuel |-> "high",
   reserve |-> FALSE,                          \* landing_start_fuel >= 20
   begun |-> FALSE,                            \* mission_ms > 0
   age |-> FreshFrames + 1]                    \* mission_ms - last_telemetry_ms

(* apply_cmd: launch and landing.                                          *)
Launches(p, op) ==
  CASE op = "LAUNCH_OK" /\ ~p.launched -> [p EXCEPT !.launched = TRUE, !.fuel = "high"]
    [] op = "LAND" /\ p.launched /\ p.altitude = "orbit" ->
         [p EXCEPT !.landing = TRUE, !.reserve = (p.fuel = "high"),
                   !.problem = p.problem /\ p.shown # {},
                   !.alert = p.alert /\ p.shown # {}]
    [] OTHER -> p

(* apply_cmd: faults and alerts.                                           *)
FaultOn(p, f) ==
  [p EXCEPT !.shown = @ \cup {f}, !.problem = TRUE, !.alert = TRUE,
            !.since[f] = IF p.begun THEN 0 ELSE Off]

(* Wrong variant of FaultResolved: the anomaly stays on.                   *)
FaultHidden(p, f) == [p EXCEPT !.shown = @ \ {f}, !.since[f] = Off]

FaultResolved(p, f) ==
  LET rest == p.shown \ {f} IN
  [p EXCEPT !.shown = rest, !.since[f] = Off,
            !.problem = @ /\ rest # {}, !.alert = @ /\ rest # {}]

(* Wrong variant of reset_for_relaunch: the faults stay on the screen.     *)
reset_but_faults(p) == [init_state EXCEPT !.shown = p.shown]

(* RESET_SIM clears the alerts too: only what is left out here survives.   *)
reset_for_relaunch(p) == init_state

Alerts(p, op) ==
  CASE \E f \in Faults : op = Fault[f] -> FaultOn(p, CHOOSE f \in Faults : op = Fault[f])
    [] \E f \in Faults : op = FaultOff[f] ->
         FaultResolved(p, CHOOSE f \in Faults : op = FaultOff[f])
    [] op = "RESET_SIM"    -> reset_for_relaunch(p)
    [] op = "CLEAR_ALERTS" -> [p EXCEPT !.alert = FALSE]
    [] op = "EXPLODE"      -> [p EXCEPT !.exploded = TRUE, !.alert = TRUE]
    [] OTHER -> p

apply_cmd(p, line) == Alerts(Launches(p, line.op), line.op)

apply_data(p, line) ==
  CASE line.op = "SET"         -> [p EXCEPT !.altitude = line.altitude, !.fuel = line.fuel,
                                            !.age = 0]
    [] line.op = "PROBLEM_ON"  -> [p EXCEPT !.problem = TRUE, !.alert = TRUE]
    [] line.op = "PROBLEM_OFF" -> [p EXCEPT !.problem = @ /\ p.shown # {}]

-----------------------------------------------------------------------------
(* dashboard_dynamics.c.  Speed is not kept: it makes a descent unstable   *)
(* at any time.                                                            *)

telemetry_fresh(p) == p.age <= FreshFrames

(* mission_ms advances.                                                    *)
Aged(p) ==
  [p EXCEPT !.begun = TRUE,
            !.since = [f \in Faults |-> IF p.since[f] = Off THEN Off ELSE p.since[f] + 1],
            !.age = IF @ > FreshFrames THEN @ ELSE @ + 1]

Higher == [ground |-> {"air"}, air |-> {"air", "orbit"}]
Lower  == [ground |-> {"ground"}, air |-> {"ground", "air"}, orbit |-> {"air", "orbit"}]

Moved(p, altitude, fuel) == [p EXCEPT !.altitude = altitude, !.fuel = fuel]

VehicleLost(p) ==
  [p EXCEPT !.exploded = TRUE, !.launched = FALSE, !.landing = FALSE, !.fuel = "none",
            !.problem = TRUE, !.alert = TRUE]

Flight(p) ==
  CASE ~p.launched \/ p.landing \/ telemetry_fresh(p) -> {p}
    [] OTHER ->
       CASE p.problem -> {[p EXCEPT !.altitude = a] : a \in Lower[p.altitude]}
         [] ~p.problem /\ p.altitude = "orbit" -> {[p EXCEPT !.fuel = "high"]}
         [] ~p.problem /\ p.altitude # "orbit" /\ p.fuel # "none" ->
              {Moved(p, a, IF a = "orbit" THEN "high" ELSE p.fuel) : a \in Higher[p.altitude]}
         [] OTHER -> {VehicleLost(p)}

(* A descent under control burns fuel; without it, it alarms.              *)
Guided(p) == {Moved(p, a, level) : a \in Lower[p.altitude], level \in {p.fuel, "low"}}

Descending(p) ==
  {[p EXCEPT !.altitude = a, !.problem = TRUE] : a \in Lower[p.altitude]}
  \cup IF p.reserve /\ p.fuel # "none" /\ p.shown = {} THEN Guided(p) ELSE {}

Descended(p) ==
  CASE p.fuel = "none" -> VehicleLost(p)
    [] p.fuel # "none" /\ p.altitude = "ground" ->
         [p EXCEPT !.landing = FALSE, !.launched = FALSE, !.reserve = FALSE,
                   !.problem = FALSE]
    [] OTHER -> p

Descent(p) ==
  IF p.landing /\ ~telemetry_fresh(p) THEN {Descended(q) : q \in Descending(p)} ELSE {p}

(* Wrong variants of Timers: a frame late, a frame early.                  *)
TimersLate(p) ==
  [p EXCEPT !.alert = p.problem \/ p.shown # {},
            !.exploded = @ \/ \E f \in p.shown : p.since[f] > FaultFrames]

TimersEarly(p) ==
  [p EXCEPT !.alert = p.problem \/ p.shown # {},
            !.exploded = @ \/ \E f \in p.shown : p.since[f] >= FaultFrames - 1]

(* The alarm lamp, and the ten seconds of each fault.                      *)
Timers(p) ==
  [p EXCEPT !.alert = p.problem \/ p.shown # {},
            !.exploded = @ \/ \E f \in p.shown : p.since[f] >= FaultFrames]

(* The pictures a frame may turn p into.                                   *)
update_dynamics(p) ==
  IF p.exploded THEN {p}
  ELSE UNION {{Timers(r) : r \in Descent(q)} : q \in Flight(Aged(p))}

-----------------------------------------------------------------------------
(* pipes.c and the loop of main.c.                                         *)

(* poll_pipe_lines: what is left of lines read at once.  When they do not  *)
(* fit, the buffer is emptied, and some of the last remain.                *)
Kept(lines) ==
  IF Len(lines) <= PendingMax THEN {lines}
  ELSE {SubSeq(lines, k, Len(lines)) : k \in (Len(lines) - PendingMax + 1)..(Len(lines) + 1)}

(* The lines at the positions S, in order.                                 *)
Picked(S) ==
  LET pick(lines, i) == IF i \in S THEN Append(lines, wire[i]) ELSE lines
  IN  FoldLeftDomain(pick, << >>, wire)

(* The positions of the commands of the first a lines and of the data of   *)
(* the first b.                                                            *)
Read(a, b) == {i \in DOMAIN wire : i <= IF IsCmd(wire[i]) THEN a ELSE b}

Unread(a, b) == Picked(DOMAIN wire \ Read(a, b))

(* One turn of main.  The data FIFO is read after the command FIFO.        *)
Frame ==
  /\ ~framed /\ framed' = TRUE
  /\ \E a \in 0..Len(wire) : \E b \in a..Len(wire) :
       LET cmds == Picked({i \in Read(a, b) : IsCmd(wire[i])})
           data == Picked({i \in Read(a, b) : IsData(wire[i])}) IN
       \E kept \in Kept(cmds), sets \in Kept(data) :
         /\ st' \in update_dynamics(FoldLeft(apply_data, FoldLeft(apply_cmd, st, kept), sets))
         /\ wire' = Unread(a, b)
         /\ untold' = (untold \/ kept # cmds \/ sets # data)
  /\ UNCHANGED <<mission, control>>

(* The bound Everything.  The satellite acts before the frame of a tick,   *)
(* and only resets once the rocket is lost or the dashboard was not told   *)
(* something; BT1 is pressed and the connection breaks when all is read;   *)
(* two of the three faults may be open.                                    *)
Explored == Everything \/ (~untold /\ ~framed /\ phase # "EXPLODED")
Quiet    == Everything \/ (~untold /\ ~framed /\ wire = << >>)
TwoOpen  == Everything \/ pressure' = "nominal" \/ open' # {1, 2}

(* The dashboard is closed and started again.  Lines written meanwhile are *)
(* lost, and with them those of the same FIFO unread before.  The command  *)
(* FIFO is the first one opened again.                                     *)
Restart ==
  /\ Explored /\ (Everything \/ Len(wire) <= 1)
  /\ st' = init_state /\ untold' = TRUE
  /\ \E a \in 0..Len(wire) : \E b \in a..Len(wire) : wire' = Unread(a, b)
  /\ UNCHANGED <<framed, mission, control>>

-----------------------------------------------------------------------------
(* The controller and the satellite.                                       *)

Plain(ops) == [i \in DOMAIN ops |-> Line(ops[i])]

(* cmd_pipe_write, data_pipe_write.                                        *)
Writes(ops) == Len(wire) < WireMax /\ wire' = wire \o Plain(ops)

(* What the controller writes for a push, which it gets when it is         *)
(* connected.                                                              *)
Pushed(ops, silent) ==
  \/ up /\ Writes(ops) /\ untold' = (untold \/ silent)
  \/ ~up /\ UNCHANGED wire /\ untold' = TRUE

(* BT1 forgets that the loss was told; the popup it opens is left out.     *)
LaunchKey ==
  Quiet /\ notified' = FALSE /\ UNCHANGED <<st, framed, wire, mission, up, moving, untold>>

(* CMD LU is accepted.  Faults that it closes are not announced closed.    *)
Launch ==
  /\ Explored /\ up /\ Mission!Launch
  /\ pressure' = "nominal" /\ clock' = [f \in Faults |-> Off]
  /\ Pushed(<<"LAUNCH_OK">>, open # {} \/ pressure = "fault")
  /\ notified' = FALSE
  /\ UNCHANGED <<st, framed, up, moving>>

(* OK LAND and EVENT LAND both write LAND.                                 *)
Land ==
  /\ Explored /\ up /\ Mission!Land /\ UNCHANGED <<pressure, clock>>
  /\ Pushed(<<"LAND", "LAND">>, FALSE)
  /\ UNCHANGED <<st, framed, control>>

(* CMD PRES: its reply, then the event.                                    *)
Pressure ==
  /\ Explored /\ up /\ UNCHANGED <<phase, open, clock>>
  /\ \/ /\ pressure = "nominal" /\ pressure' = "fault"
        /\ Pushed(<<"PROBLEM_ON", "PROBLEM_ON">>, FALSE)
     \/ /\ pressure = "fault" /\ pressure' = "corrected"
        /\ Pushed(<<"PROBLEM_OFF", "CLEAR_ALERTS", "PROBLEM_OFF">>, FALSE)
     \/ /\ pressure = "corrected" /\ pressure' = "nominal"
        /\ Pushed(<<"CLEAR_ALERTS">>, FALSE)
  /\ TwoOpen /\ UNCHANGED <<st, framed, control>>

(* CMD REPn: the reply clears the alerts when no other fault is flagged,   *)
(* and faults announced and open are flagged (Controller!FaultsFlagged).   *)
Repair(f) ==
  /\ Explored /\ up /\ f \in open
  /\ open' = open \ {f} /\ clock' = [clock EXCEPT ![f] = Off]
  /\ \/ Pushed(<<FaultOff[f]>>, FALSE)
     \/ /\ untold \/ (open' = {} /\ pressure # "fault")
        /\ Pushed(<<"CLEAR_ALERTS", FaultOff[f]>>, FALSE)
  /\ UNCHANGED <<st, framed, control, phase, pressure>>

(* A value of the injector changes the phase, or opens a fault.            *)
Observe ==
  /\ Explored /\ Mission!Observe /\ UNCHANGED pressure
  /\ IF open' = open
     THEN UNCHANGED <<wire, clock, untold>>
     ELSE \E f \in open' \ open :
            clock' = [clock EXCEPT ![f] = 0] /\ Pushed(<<Fault[f]>>, FALSE)
  /\ TwoOpen /\ UNCHANGED <<st, framed, control>>

(* EVENT LANDED: SIM_FLIGHT OFF only stops the guided drift.               *)
Touchdown ==
  /\ Explored /\ Mission!Touchdown /\ UNCHANGED <<pressure, clock>>
  /\ notified' = (notified /\ ~up)
  /\ UNCHANGED <<st, framed, wire, up, moving, untold>>

(* EVENT EXPLODED, told once.                                              *)
Explodes ==
  /\ Mission!Explode /\ UNCHANGED pressure
  /\ \/ up /\ notified /\ UNCHANGED <<wire, untold>>
     \/ up /\ ~notified /\ wire' = wire \o Plain(<<"EXPLODE">>) /\ UNCHANGED untold
     \/ ~up /\ untold' = TRUE /\ UNCHANGED wire
  /\ notified' = (notified \/ up)
  /\ UNCHANGED <<st, framed, up, moving>>

(* Destroyed by the injector or for want of fuel, or by a fault left open. *)
Explode    == Explored /\ Explodes /\ UNCHANGED clock
Expires(f) == clock[f] = FaultFrames /\ Explodes /\ clock' = [clock EXCEPT ![f] = Off]

(* Wrong variant of Reset: explosion_notified is not reset.                *)
ResetStaysNotified ==
  /\ Mission!Reset /\ pressure' = "nominal" /\ clock' = [f \in Faults |-> Off]
  /\ \/ /\ up /\ Writes(<<"PROBLEM_OFF", "RESET_SIM", "CLEAR_ALERTS">>) /\ untold' = FALSE
     \/ ~up /\ untold' = TRUE /\ UNCHANGED wire
  /\ UNCHANGED <<st, framed, control>>

Reset ==
  /\ Mission!Reset /\ pressure' = "nominal" /\ clock' = [f \in Faults |-> Off]
  /\ \/ /\ up /\ Writes(<<"PROBLEM_OFF", "RESET_SIM", "CLEAR_ALERTS">>)
        /\ notified' = FALSE /\ untold' = FALSE
     \/ ~up /\ untold' = TRUE /\ UNCHANGED <<wire, notified>>
  /\ UNCHANGED <<st, framed, up, moving>>

(* handle_telemetry: at rest after having moved, the picture is reset,     *)
(* whatever fault is still open.                                           *)
Telemetry ==
  /\ Explored /\ up /\ Len(wire) < WireMax
  /\ \E altitude \in Telemetered \cup {"ground"}, fuel \in Fuels, moves \in BOOLEAN :
       /\ IF phase = "READY" THEN altitude = "ground" /\ ~moves ELSE altitude \in Telemetered
       /\ phase \in {"FLYING", "EMERGENCY"} => fuel # "none"
       /\ phase = "EMERGENCY" => altitude # "ground"
       /\ altitude # "ground" => moves
       /\ moving' = moves
       /\ wire' = Append(wire, Set(altitude, fuel))
                  \o IF phase = "READY" /\ moving THEN Plain(<<"RESET_SIM">>) ELSE << >>
  /\ untold' = (untold \/ (phase = "READY" /\ moving /\ (open # {} \/ pressure = "fault")))
  /\ UNCHANGED <<st, framed, mission, up, notified>>

(* The connection breaks, alone or by a restart of the satellite, and is   *)
(* made again.                                                             *)
Cut ==
  /\ Quiet /\ up /\ up' = FALSE
  /\ \/ UNCHANGED <<mission, untold>>
     \/ Mission!Reset /\ pressure' = "nominal" /\ clock' = [f \in Faults |-> Off]
        /\ untold' = TRUE
  /\ UNCHANGED <<st, framed, wire, notified, moving>>

Reconnect == ~up /\ up' = TRUE /\ UNCHANGED <<st, framed, wire, mission, notified, moving, untold>>

(* 120 ms pass, with a frame in them or, in a terminal too small, without. *)
(* The satellite decides an expired fault first.                           *)
Tick ==
  /\ \A f \in Faults : clock[f] < FaultFrames
  /\ framed' = FALSE
  /\ clock' = [f \in Faults |-> IF clock[f] = Off THEN Off ELSE clock[f] + 1]
  /\ UNCHANGED <<st, wire, phase, open, pressure, control, untold>>

-----------------------------------------------------------------------------
Init ==
  /\ st = init_state /\ framed = FALSE /\ wire = << >>
  /\ Mission!Init /\ pressure = "nominal" /\ clock = [f \in Faults |-> Off]
  /\ up = TRUE /\ notified = FALSE /\ moving = FALSE /\ untold = FALSE

Environment ==
  \/ LaunchKey \/ Launch \/ Land \/ Pressure
  \/ \E f \in Faults : Repair(f) \/ Expires(f)
  \/ Observe \/ Touchdown \/ Explode \/ Reset \/ Telemetry
  \/ Cut \/ Reconnect

Next == Frame \/ Restart \/ Environment \/ Tick

Spec == Init /\ [][Next]_vars

-----------------------------------------------------------------------------
(* Properties.                                                             *)

CmdLines ==
  {Line(op) : op \in {"LAUNCH_OK", "LAND", "RESET_SIM", "CLEAR_ALERTS", "EXPLODE"}
                     \cup {Fault[f] : f \in Faults} \cup {FaultOff[f] : f \in Faults}}

DataLines ==
  {Set(a, l) : a \in Altitudes, l \in Fuels} \cup {Line("PROBLEM_ON"), Line("PROBLEM_OFF")}

RocketStates ==
  [launched : BOOLEAN, landing : BOOLEAN, exploded : BOOLEAN, problem : BOOLEAN,
   alert : BOOLEAN, shown : SUBSET Faults, since : [Faults -> Off..FaultFrames],
   altitude : Altitudes, fuel : {"none", "low", "high"}, reserve : BOOLEAN, begun : BOOLEAN,
   age : 0..(FreshFrames + 1)]

(* Types; no timer of the screen runs past ten seconds.                    *)
TypeOK ==
  /\ st \in RocketStates
  /\ framed \in BOOLEAN
  /\ wire \in Seq(CmdLines \cup DataLines)
  /\ phase \in {"READY", "FLYING", "EMERGENCY", "EXPLODED"} /\ open \subseteq Faults
  /\ pressure \in {"nominal", "fault", "corrected"}
  /\ clock \in [Faults -> Off..FaultFrames]
  /\ up \in BOOLEAN /\ notified \in BOOLEAN /\ moving \in BOOLEAN /\ untold \in BOOLEAN

(* The faults on the screen are those of the satellite, but for lines on   *)
(* their way, and a fault on the screen has its lamp lit: neither another  *)
(* fault's repair, CLEAR_ALERTS nor PROBLEM_OFF, in whatever order the two *)
(* FIFOs are read, puts it out.                                            *)
FaultsAgree ==
  ~untold =>
    \A f \in Faults :
      /\ f \in open \ st.shown => Coming(Fault[f])
      /\ f \in st.shown \ open => Coming(FaultOff[f]) \/ Coming("RESET_SIM")
      /\ f \in st.shown => st.alert \/ st.exploded

(* No lamp without a cause: one that is lit on a rocket that neither lands *)
(* nor is lost belongs to a fault on the screen, of which FaultsAgree      *)
(* speaks, or to the pressure fault, or PROBLEM OFF is on its way.         *)
NoPhantomAlarm ==
  ~untold /\ st.alert /\ ~st.landing /\ ~st.exploded =>
    st.shown # {} \/ pressure = "fault" \/ Coming("PROBLEM_OFF")

(* A rocket the satellite lost is lost on the screen, or soon.             *)
LossShown == ~untold /\ phase = "EXPLODED" => st.exploded \/ Coming("EXPLODE")

(* A frame with telemetry shows the loss of a rocket only when the         *)
(* satellite lost it, or when the ten seconds of a fault are over but for  *)
(* one frame, or its repair is on the way.                                 *)
NoLoneLoss ==
  [][~st.exploded /\ st'.exploded /\ telemetry_fresh(st') /\ ~untold' =>
       \/ phase = "EXPLODED" \/ Coming("RESET_SIM")
       \/ \E f \in st'.shown :
            (f \in open /\ clock[f] >= FaultFrames - 1) \/ Coming(FaultOff[f])]_vars
=============================================================================
