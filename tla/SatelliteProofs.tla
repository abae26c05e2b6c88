--------------------------- MODULE SatelliteProofs ---------------------------
(***************************************************************************)
(* What holds of the satellite for every number of clients, every fault    *)
(* delay and every value an injector may send.                             *)
(***************************************************************************)
EXTENDS Satellite, SequenceTheorems, TLAPS

ThePhases == {"READY", "FLYING", "EMERGENCY", "EXPLODED"}

(* What the handlers of clients and the checks write is well typed.        *)
WritesOK ==
  /\ out \in [Slots -> Seq(SocketLines)] /\ pipe \in Seq(FifoLines)
  /\ told \in PhaseEvents /\ alarms \subseteq Faults

LEMMA WriteType ==
  ASSUME WritesOK, NEW c,
         NEW before \in Seq(SocketLines), NEW ev \in Seq(SocketLines), NEW inj \in Seq(SocketLines),
         NEW after \in Seq(SocketLines), NEW fifo \in Seq(FifoLines),
         Write(c, before, ev, inj, after, fifo)
  PROVE  WritesOK'
<1> USE DEF Write
<1>1. out' \in [Slots -> Seq(SocketLines)]
  <2> DEFINE F(s) == (IF s = c THEN before ELSE << >>)
              \o (IF Listens(s, "CONTROLLER") THEN ev ELSE << >>)
              \o (IF Listens(s, "INJECTOR") THEN inj ELSE << >>)
              \o (IF s = c THEN after ELSE << >>)
  <2>1. \A s \in Slots : F(s) \in Seq(SocketLines)
    <3> SUFFICES ASSUME NEW s \in Slots PROVE F(s) \in Seq(SocketLines)
      OBVIOUS
    <3> << >> \in Seq(SocketLines)
      OBVIOUS
    <3>1. /\ (IF s = c THEN before ELSE << >>) \in Seq(SocketLines)
          /\ (IF Listens(s, "CONTROLLER") THEN ev ELSE << >>) \in Seq(SocketLines)
          /\ (IF Listens(s, "INJECTOR") THEN inj ELSE << >>) \in Seq(SocketLines)
          /\ (IF s = c THEN after ELSE << >>) \in Seq(SocketLines)
      OBVIOUS
    <3> QED BY <3>1, ConcatProperties
  <2>2. out' = [s \in Slots |-> F(s)]
    BY Zenon
  <2> QED BY <2>1, <2>2
<1>2. told' \in PhaseEvents /\ alarms' \subseteq Faults
  BY DEF WritesOK, Heard, Faults, Opens, Closes
<1> QED BY <1>1, <1>2 DEF WritesOK

-----------------------------------------------------------------------------
(* The inductive invariant.  DescentHasAltitude is not inductive alone:    *)
(* that an altitude in orbit was received is what a landing command needs. *)
(* EventsTellTheStory and SettledBeforePush are inductive given the types. *)
AltitudeWasReceived == altitude > 0 => altitude_received

(* Once check_state_transitions has run, no phase is left to leave: why    *)
(* the periodic telemetry is settled.                                      *)
SettledBeforePush ==
  pc = "push" => /\ state \in {"FLYING", "EMERGENCY"} => fuel > 0
                 /\ state = "EMERGENCY" => altitude > 0

IInv ==
  /\ TypeOK
  /\ NoFaultForgotten
  /\ AltitudeWasReceived
  /\ DescentHasAltitude
  /\ ReadyIsAtRest
  /\ SettledBeforePush
  /\ EventsTellTheStory

USE SatelliteAssumption DEF Faults, Off, Orbit, Descending, Nobody

LEMMA InitIInv == Init => IInv
<1> SUFFICES ASSUME Init PROVE IInv
  OBVIOUS
<1> USE DEF Init
<1>1. TypeOK
  <2>1. out \in [Slots -> Seq(SocketLines)] /\ pipe \in Seq(FifoLines)
    BY DEF Silence
  <2>2. started \in [Faults -> {Off} \cup 0..FaultDelay] /\ active \subseteq Faults
    OBVIOUS
  <2>3. told \in PhaseEvents /\ alarms \subseteq Faults
    BY DEF PhaseEvents
  <2>4. type \in [Slots -> Roles \cup {"free", "UNKNOWN"}] /\ authed \subseteq Slots
    OBVIOUS
  <2>5. altitude_received \in BOOLEAN
    BY Zenon
  <2>6. /\ pc \in {"input", "push"} /\ state \in Phases \ {"LANDING"}
        /\ altitude \in Int /\ speed \in Int /\ fuel \in Int
        /\ pressure \in {"nominal", "fault", "corrected"}
    BY DEF Phases
  <2> QED BY <2>1, <2>2, <2>3, <2>4, <2>5, <2>6, Zenon DEF TypeOK
<1>2. NoFaultForgotten /\ AltitudeWasReceived /\ DescentHasAltitude /\ ReadyIsAtRest
        /\ SettledBeforePush
  BY DEF NoFaultForgotten, AltitudeWasReceived, DescentHasAltitude, ReadyIsAtRest,
         SettledBeforePush
<1>3. EventsTellTheStory
  BY DEF EventsTellTheStory
<1> QED BY <1>1, <1>2, <1>3 DEF IInv

(* A step that only writes, and announces nothing, changes nothing that    *)
(* matters.                                                                *)
LEMMA SilentStep ==
  ASSUME IInv, WritesOK', told' = told, alarms' = alarms, pc' \in {"input", "push"},
         pc' = "push" => pc = "push",
         type' \in [Slots -> Roles \cup {"free", "UNKNOWN"}],
         authed' \subseteq Slots,
         UNCHANGED <<state, telemetry, pressure, faults>>
  PROVE  IInv'
<1> USE DEF IInv, telemetry, faults
<1>1. TypeOK'
  BY DEF TypeOK, WritesOK
<1>2. NoFaultForgotten' /\ AltitudeWasReceived' /\ DescentHasAltitude' /\ ReadyIsAtRest'
        /\ SettledBeforePush'
  BY DEF NoFaultForgotten, AltitudeWasReceived, DescentHasAltitude, ReadyIsAtRest,
         SettledBeforePush
<1>3. EventsTellTheStory'
  BY DEF EventsTellTheStory
<1> QED BY <1>1, <1>2, <1>3

LEMMA RefuseStep ==
  ASSUME IInv, NEW c \in Slots, NEW line \in Replies, Refuse(c, line)
  PROVE  IInv'
<1>1. /\ WritesOK /\ <<line>> \in Seq(SocketLines)
      /\ << >> \in Seq(SocketLines) /\ << >> \in Seq(FifoLines)
  BY DEF IInv, TypeOK, WritesOK, SocketLines
<1>2. Write(c, <<line>>, << >>, << >>, << >>, << >>)
  BY DEF Refuse, Answer
<1>3. WritesOK'
  BY <1>1, <1>2, WriteType
<1>4. told' = told /\ alarms' = alarms
  BY <1>2 DEF Write
<1>5. /\ pc' \in {"input", "push"} /\ (pc' = "push" => pc = "push")
      /\ type' \in [Slots -> Roles \cup {"free", "UNKNOWN"}] /\ authed' \subseteq Slots
  BY DEF Refuse, IInv, TypeOK, clients
<1>6. UNCHANGED <<state, telemetry, pressure, faults>>
  BY DEF Refuse
<1> QED BY <1>3, <1>4, <1>5, <1>6, SilentStep

(* Typing of a step from the typing of its parts.                          *)
LEMMA TypedStep ==
  ASSUME IInv, WritesOK', pc' = "input", UNCHANGED clients,
         state' \in Phases \ {"LANDING"},
         altitude' \in Int, speed' \in Int, fuel' \in Int, altitude_received' \in BOOLEAN,
         pressure' \in {"nominal", "fault", "corrected"}, active' \subseteq Faults,
         started' \in [Faults -> {Off} \cup 0..FaultDelay]
  PROVE  TypeOK'
BY DEF IInv, TypeOK, WritesOK, clients

(* A broadcast event is heard, and without one nothing is.                 *)
LEMMA Announced ==
  ASSUME NEW c, NEW before, NEW e, NEW inj, NEW after, NEW fifo,
         Write(c, before, <<e>>, inj, after, fifo)
  PROVE  Heard(e)
BY DEF Write

LEMMA NotAnnounced ==
  ASSUME NEW c, NEW before, NEW inj, NEW after, NEW fifo,
         Write(c, before, << >>, inj, after, fifo)
  PROVE  told' = told /\ alarms' = alarms
BY DEF Write

LEMMA CmdLUStep ==
  ASSUME IInv, NEW c \in Slots, CmdLU(c), pc = "input"
  PROVE  IInv'
<1>1. CASE state # "READY"
  <2>1. PICK line \in {"FAIL_ALREADY_LAUNCHED", "FAIL_NOT_READY"} : Refuse(c, line)
    BY <1>1, Zenon DEF CmdLU
  <2>2. line \in Replies
    BY DEF Replies
  <2> QED BY <2>1, <2>2, RefuseStep
<1>2. CASE state = "READY"
  <2>1. Write(c, <<"OK_LAUNCH">>, <<"EVENT_LAUNCH">>, <<"CMD_EVENT_LAUNCH">>, << >>,
              <<"LAUNCH_OK">>)
    BY <1>2 DEF CmdLU
  <2>2. WritesOK'
    <3>1. /\ <<"OK_LAUNCH">> \in Seq(SocketLines) /\ <<"EVENT_LAUNCH">> \in Seq(SocketLines)
          /\ <<"CMD_EVENT_LAUNCH">> \in Seq(SocketLines) /\ <<"LAUNCH_OK">> \in Seq(FifoLines)
          /\ << >> \in Seq(SocketLines)
      BY DEF SocketLines, Replies, Events, PhaseEvents, Orders, FifoLines
    <3> QED BY <2>1, <3>1, WriteType DEF IInv, TypeOK, WritesOK
  <2>3. told' = "EVENT_LAUNCH" /\ alarms' = {}
    <3>1. Heard("EVENT_LAUNCH")
      BY <2>1, Announced
    <3> QED BY <3>1 DEF Heard, PhaseEvents, Opens, Closes, IInv, TypeOK
  <2>4. /\ state' = "FLYING" /\ active' = {} /\ started' = [f \in Faults |-> Off]
        /\ UNCHANGED <<pc, clients, telemetry>> /\ pressure' = "nominal"
    BY <1>2 DEF CmdLU
  <2>5. TypeOK'
    BY <2>2, <2>4, TypedStep DEF IInv, TypeOK, Phases, telemetry
  <2>6. NoFaultForgotten'
    BY <2>4 DEF NoFaultForgotten
  <2>7. AltitudeWasReceived' /\ DescentHasAltitude' /\ ReadyIsAtRest' /\ SettledBeforePush'
    BY <2>4 DEF IInv, AltitudeWasReceived, DescentHasAltitude, ReadyIsAtRest,
                SettledBeforePush, telemetry
  <2>8. EventsTellTheStory'
    BY <2>3, <2>4 DEF EventsTellTheStory
  <2> QED BY <2>5, <2>6, <2>7, <2>8 DEF IInv
<1> QED BY <1>1, <1>2

LEMMA CmdLDStep ==
  ASSUME IInv, NEW c \in Slots, CmdLD(c), pc = "input"
  PROVE  IInv'
<1>1. CASE state # "FLYING" \/ altitude < Orbit
  <2>1. PICK line \in {"FAIL_NOT_FLYING", "FAIL_NOT_IN_ORBIT"} : Refuse(c, line)
    BY <1>1 DEF CmdLD, IInv, TypeOK
  <2>2. line \in Replies
    BY DEF Replies
  <2> QED BY <2>1, <2>2, RefuseStep
<1>2. CASE state = "FLYING" /\ altitude >= Orbit
  <2>1. Write(c, <<"OK_LAND">>, <<"EVENT_LAND">>, <<"CMD_EVENT_LAND">>, << >>, <<"LAND">>)
    BY <1>2 DEF CmdLD, IInv, TypeOK
  <2>2. WritesOK'
    <3>1. /\ << >> \in Seq(SocketLines) /\ << >> \in Seq(FifoLines)
          /\ <<"OK_LAND">> \in Seq(SocketLines)
          /\ <<"EVENT_LAND">> \in Seq(SocketLines)
          /\ <<"CMD_EVENT_LAND">> \in Seq(SocketLines)
          /\ <<"LAND">> \in Seq(FifoLines)
      BY DEF SocketLines, Replies, Events, PhaseEvents, Orders, FifoLines
    <3> QED BY <2>1, <3>1, WriteType DEF IInv, TypeOK, WritesOK
  <2>3. told' = "EVENT_LAND" /\ alarms' = alarms
    <3>1. Heard("EVENT_LAND")
      BY <2>1, Announced
    <3> QED BY <3>1 DEF Heard, PhaseEvents, Opens, Closes
  <2>4. state' = "EMERGENCY" /\ UNCHANGED <<pc, clients, telemetry, pressure, faults>>
    BY <1>2 DEF CmdLD, IInv, TypeOK
  <2>5. TypeOK'
    BY <2>2, <2>4, TypedStep DEF IInv, TypeOK, Phases, telemetry, faults
  <2>6. NoFaultForgotten'
    BY <1>2, <2>4 DEF IInv, NoFaultForgotten, faults
  <2>7. AltitudeWasReceived' /\ DescentHasAltitude' /\ ReadyIsAtRest' /\ SettledBeforePush'
    BY <1>2, <2>4 DEF IInv, TypeOK, AltitudeWasReceived, DescentHasAltitude, ReadyIsAtRest,
                SettledBeforePush, telemetry
  <2>8. EventsTellTheStory'
    BY <2>3, <2>4 DEF IInv, EventsTellTheStory, faults
  <2> QED BY <2>5, <2>6, <2>7, <2>8 DEF IInv
<1> QED BY <1>1, <1>2 DEF IInv, TypeOK

(* Steps that only write and change the pressure state.                    *)
LEMMA PressureStep ==
  ASSUME IInv, WritesOK', told' = told, alarms' = alarms,
         pressure' \in {"nominal", "fault", "corrected"},
         UNCHANGED <<pc, clients, state, telemetry, faults>>
  PROVE  IInv'
<1> USE DEF IInv, telemetry, faults, clients
<1>1. TypeOK'
  BY DEF TypeOK, WritesOK
<1>2. NoFaultForgotten' /\ AltitudeWasReceived' /\ DescentHasAltitude' /\ ReadyIsAtRest'
        /\ SettledBeforePush'
  BY DEF NoFaultForgotten, AltitudeWasReceived, DescentHasAltitude, ReadyIsAtRest,
         SettledBeforePush
<1>3. EventsTellTheStory'
  BY DEF EventsTellTheStory
<1> QED BY <1>1, <1>2, <1>3

LEMMA CmdPRESStep ==
  ASSUME IInv, NEW c \in Slots, CmdPRES(c)
  PROVE  IInv'
<1>1. PICK r \in {"OK_PRES_FAULT", "OK_PRES_FIX", "OK_PRES_OK"},
           e \in {<< >>, <<"EVENT_PROBLEM">>, <<"EVENT_RESOLVED">>},
           f \in {"PROBLEM_ON", "PROBLEM_OFF", "CLEAR_ALERTS"} :
        Write(c, <<r>>, e, << >>, << >>, <<f>>)
  BY Zenon DEF CmdPRES
<1>2. /\ << >> \in Seq(SocketLines) /\ <<f>> \in Seq(FifoLines)
      /\ <<r>> \in Seq(SocketLines)
  <2>1. f \in FifoLines /\ r \in SocketLines
    BY DEF SocketLines, Replies, FifoLines
  <2> QED BY <2>1
<1>3. e \in Seq(SocketLines)
  <2>1. "EVENT_PROBLEM" \in SocketLines /\ "EVENT_RESOLVED" \in SocketLines
    BY DEF SocketLines, Events
  <2>2. /\ <<"EVENT_PROBLEM">> \in Seq(SocketLines) /\ <<"EVENT_RESOLVED">> \in Seq(SocketLines)
        /\ << >> \in Seq(SocketLines)
    BY <2>1
  <2> QED BY <2>2
<1>4. WritesOK'
  BY <1>1, <1>2, <1>3, WriteType DEF IInv, TypeOK, WritesOK
<1>5. told' = told /\ alarms' = alarms
  <2>1. CASE e = << >>
    BY <1>1, <2>1, NotAnnounced
  <2>2. CASE e = <<"EVENT_PROBLEM">>
    <3>1. Heard("EVENT_PROBLEM")
      BY <1>1, <2>2, Announced
    <3> QED BY <3>1 DEF Heard, PhaseEvents, Opens, Closes
  <2>3. CASE e = <<"EVENT_RESOLVED">>
    <3>1. Heard("EVENT_RESOLVED")
      BY <1>1, <2>3, Announced
    <3> QED BY <3>1 DEF Heard, PhaseEvents, Opens, Closes
  <2> QED BY <2>1, <2>2, <2>3
<1>6. /\ pressure' \in {"nominal", "fault", "corrected"}
      /\ UNCHANGED <<pc, clients, state, telemetry, faults>>
  BY DEF CmdPRES
<1> QED BY <1>4, <1>5, <1>6, PressureStep

LEMMA CmdMELStep ==
  ASSUME IInv, NEW c \in Slots, NEW n, CmdMEL(c, n)
  PROVE  IInv'
<1>1. CASE n \notin 1..3
  BY <1>1, RefuseStep DEF CmdMEL, Replies
<1>2. CASE n \in 1..3
  <2>1. Write(c, <<"OK_MEL">>, <<"EVENT_MEL">>, << >>, << >>, << >>)
    BY <1>2 DEF CmdMEL
  <2>2. WritesOK'
    <3>1. /\ << >> \in Seq(SocketLines) /\ << >> \in Seq(FifoLines)
          /\ <<"OK_MEL">> \in Seq(SocketLines)
          /\ <<"EVENT_MEL">> \in Seq(SocketLines)
      BY DEF SocketLines, Replies, Events, PhaseEvents, Orders, FifoLines
    <3> QED BY <2>1, <3>1, WriteType DEF IInv, TypeOK, WritesOK
  <2>3. told' = told /\ alarms' = alarms
    <3>1. Heard("EVENT_MEL")
      BY <2>1, Announced
    <3> QED BY <3>1 DEF Heard, PhaseEvents, Opens, Closes
  <2>4. UNCHANGED <<pc, clients, state, telemetry, pressure, faults>>
    BY <1>2 DEF CmdMEL
  <2>5. pressure' \in {"nominal", "fault", "corrected"}
    BY <2>4 DEF IInv, TypeOK
  <2> QED BY <2>2, <2>3, <2>4, <2>5, PressureStep
<1> QED BY <1>1, <1>2

LEMMA CmdREPStep ==
  ASSUME IInv, NEW c \in Slots, NEW f \in Faults, CmdREP(c, f)
  PROVE  IInv'
<1>1. CASE f \notin active
  BY <1>1, RefuseStep DEF CmdREP, RepairReply, Replies
<1>2. CASE f \in active
  <2>1. Write(c, <<RepairReply[f].fixed>>, <<RepairReply[f].event>>, <<RepairReply[f].inj>>, << >>, <<"PROBLEM_OFF">>)
    BY <1>2 DEF CmdREP
  <2>2. WritesOK'
    <3>1. /\ << >> \in Seq(SocketLines) /\ << >> \in Seq(FifoLines)
          /\ <<RepairReply[f].fixed>> \in Seq(SocketLines)
          /\ <<RepairReply[f].event>> \in Seq(SocketLines)
          /\ <<RepairReply[f].inj>> \in Seq(SocketLines)
          /\ <<"PROBLEM_OFF">> \in Seq(FifoLines)
      BY DEF SocketLines, Replies, Events, PhaseEvents, Orders, FifoLines, RepairReply
    <3> QED BY <2>1, <3>1, WriteType DEF IInv, TypeOK, WritesOK
  <2>3. told' = told /\ alarms' = alarms \ {f}
    <3>1. Heard(RepairReply[f].event)
      BY <2>1, Announced
    <3> QED BY <3>1 DEF Heard, PhaseEvents, Opens, Closes, RepairReply
  <2>4. /\ active' = active \ {f} /\ started' = [started EXCEPT ![f] = Off]
        /\ UNCHANGED <<pc, clients, state, telemetry, pressure>>
    BY <1>2 DEF CmdREP
  <2>5. TypeOK'
    BY <2>2, <2>4 DEF IInv, TypeOK, WritesOK, clients, telemetry
  <2>6. NoFaultForgotten'
    BY <2>4 DEF IInv, TypeOK, NoFaultForgotten
  <2>7. AltitudeWasReceived' /\ DescentHasAltitude' /\ ReadyIsAtRest' /\ SettledBeforePush'
    BY <2>4 DEF IInv, AltitudeWasReceived, DescentHasAltitude, ReadyIsAtRest,
                SettledBeforePush, telemetry
  <2>8. EventsTellTheStory'
    BY <2>3, <2>4 DEF IInv, EventsTellTheStory
  <2> QED BY <2>5, <2>6, <2>7, <2>8 DEF IInv
<1> QED BY <1>1, <1>2

-----------------------------------------------------------------------------
(* Commands of an injector.                                                *)

LEMMA ResetStep ==
  ASSUME IInv, NEW c \in Slots, Reset(c), pc = "input"
  PROVE  IInv'
<1>1. Write(c, << >>, <<"EVENT_RESET">>, << >>, <<"OK">>, <<"RESET_SIM", "CLEAR_ALERTS", "PROBLEM_OFF">>)
  BY DEF Reset
<1>2. WritesOK'
  <2>1. /\ << >> \in Seq(SocketLines) /\ << >> \in Seq(FifoLines)
        /\ <<"EVENT_RESET">> \in Seq(SocketLines)
        /\ <<"OK">> \in Seq(SocketLines)
        /\ <<"RESET_SIM", "CLEAR_ALERTS", "PROBLEM_OFF">> \in Seq(FifoLines)
    BY DEF SocketLines, Replies, Events, PhaseEvents, Orders, FifoLines
  <2> QED BY <1>1, <2>1, WriteType DEF IInv, TypeOK, WritesOK
<1>3. told' = "EVENT_RESET" /\ alarms' = {}
  <2>1. Heard("EVENT_RESET")
    BY <1>1, Announced
  <2> QED BY <2>1 DEF Heard, PhaseEvents, Opens, Closes, IInv, TypeOK
<1>4. /\ state' = "READY" /\ altitude' = 0 /\ speed' = 0 /\ fuel' = 100
      /\ altitude_received' = FALSE /\ pressure' = "nominal" /\ active' = {}
      /\ started' = [f \in Faults |-> Off] /\ UNCHANGED <<pc, clients>>
  BY DEF Reset
<1>5. TypeOK'
  <2>1. altitude_received' \in BOOLEAN
    BY <1>4, Zenon
  <2>2. /\ state' \in Phases \ {"LANDING"} /\ altitude' \in Int /\ speed' \in Int
        /\ fuel' \in Int /\ pressure' \in {"nominal", "fault", "corrected"}
        /\ active' \subseteq Faults /\ started' \in [Faults -> {Off} \cup 0..FaultDelay]
    BY <1>4 DEF Phases
  <2>3. pc' = "input" /\ UNCHANGED clients
    BY <1>4
  <2> QED BY <1>2, <2>1, <2>2, <2>3, TypedStep
<1>6. NoFaultForgotten'
  BY <1>4 DEF NoFaultForgotten
<1>7. AltitudeWasReceived' /\ DescentHasAltitude' /\ ReadyIsAtRest' /\ SettledBeforePush'
  BY <1>4 DEF AltitudeWasReceived, DescentHasAltitude, ReadyIsAtRest, SettledBeforePush
<1>8. EventsTellTheStory'
  BY <1>3, <1>4 DEF EventsTellTheStory
<1> QED BY <1>5, <1>6, <1>7, <1>8 DEF IInv

(* refresh_state_from_telemetry enters and leaves neither a descent nor    *)
(* EXPLODED, and answers READY only at rest.                               *)
LEMMA RefreshedPhase ==
  ASSUME IInv, NEW alt \in Int, NEW spd \in Int, NEW received \in BOOLEAN
  PROVE  /\ Refreshed(alt, spd, received) \in Phases \ {"LANDING"}
         /\ Refreshed(alt, spd, received) = "EMERGENCY" <=> state = "EMERGENCY"
         /\ Refreshed(alt, spd, received) = "EXPLODED" <=> state = "EXPLODED"
         /\ Refreshed(alt, spd, received) = "READY" => alt <= 0 /\ spd <= 0
BY DEF Refreshed, IInv, TypeOK, Phases

(* What every SET line preserves, whatever telemetry it changes.           *)
LEMMA TelemetryStep ==
  ASSUME IInv, pc = "input", WritesOK', told' = told, alarms' = alarms,
         altitude' \in Int, speed' \in Int, fuel' \in Int, altitude_received' \in BOOLEAN,
         altitude' > 0 => altitude_received', altitude_received => altitude_received',
         state' = Refreshed(altitude', speed', altitude_received'),
         UNCHANGED <<pc, clients, pressure, faults>>
  PROVE  IInv'
<1>1. /\ state' \in Phases \ {"LANDING"}
      /\ state' = "EMERGENCY" <=> state = "EMERGENCY"
      /\ state' = "EXPLODED" <=> state = "EXPLODED"
      /\ state' = "READY" => altitude' <= 0 /\ speed' <= 0
  BY RefreshedPhase
<1>2. TypeOK'
  BY <1>1, TypedStep DEF IInv, TypeOK, faults
<1>3. NoFaultForgotten' /\ AltitudeWasReceived' /\ DescentHasAltitude' /\ ReadyIsAtRest'
        /\ SettledBeforePush'
  BY <1>1 DEF IInv, TypeOK, Phases, faults, NoFaultForgotten, AltitudeWasReceived, DescentHasAltitude,
              ReadyIsAtRest, SettledBeforePush
<1>4. EventsTellTheStory'
  BY <1>1 DEF IInv, EventsTellTheStory, faults
<1> QED BY <1>2, <1>3, <1>4 DEF IInv

LEMMA OkWrite ==
  ASSUME IInv, NEW c, NEW fifo \in {<< >>, <<"SET">>},
         Write(c, << >>, << >>, << >>, <<"OK">>, fifo)
  PROVE  WritesOK' /\ told' = told /\ alarms' = alarms
<1>1. /\ << >> \in Seq(SocketLines) /\ <<"OK">> \in Seq(SocketLines)
      /\ fifo \in Seq(FifoLines)
  <2>1. "OK" \in SocketLines /\ "SET" \in FifoLines
    BY DEF SocketLines, Replies, FifoLines
  <2>2. <<"OK">> \in Seq(SocketLines) /\ <<"SET">> \in Seq(FifoLines) /\ << >> \in Seq(FifoLines)
        /\ << >> \in Seq(SocketLines)
    BY <2>1
  <2> QED BY <2>2
<1>2. WritesOK'
  BY <1>1, WriteType DEF IInv, TypeOK, WritesOK
<1> QED BY <1>2, NotAnnounced

LEMMA SetAltitudeStep ==
  ASSUME IInv, NEW c \in Slots, NEW v \in Int, SetAltitude(c, v), pc = "input"
  PROVE  IInv'
<1>1. WritesOK' /\ told' = told /\ alarms' = alarms
  BY OkWrite DEF SetAltitude
<1>2. /\ altitude' \in Int /\ speed' \in Int /\ fuel' \in Int
      /\ altitude_received' \in BOOLEAN
  BY DEF SetAltitude, IInv, TypeOK
<1>3. /\ altitude' > 0 => altitude_received'
      /\ altitude_received => altitude_received'
  BY DEF SetAltitude, IInv, AltitudeWasReceived
<1>4. /\ state' = Refreshed(altitude', speed', altitude_received')
      /\ UNCHANGED <<pc, clients, pressure, faults>>
  BY DEF SetAltitude
<1> QED BY <1>1, <1>2, <1>3, <1>4, TelemetryStep

LEMMA SetSpeedStep ==
  ASSUME IInv, NEW c \in Slots, NEW v \in Int, SetSpeed(c, v), pc = "input"
  PROVE  IInv'
<1>1. WritesOK' /\ told' = told /\ alarms' = alarms
  BY OkWrite DEF SetSpeed
<1>2. /\ altitude' \in Int /\ speed' \in Int /\ fuel' \in Int
      /\ altitude_received' \in BOOLEAN
  BY DEF SetSpeed, IInv, TypeOK
<1>3. /\ altitude' > 0 => altitude_received'
      /\ altitude_received => altitude_received'
  BY DEF SetSpeed, IInv, AltitudeWasReceived
<1>4. /\ state' = Refreshed(altitude', speed', altitude_received')
      /\ UNCHANGED <<pc, clients, pressure, faults>>
  BY DEF SetSpeed
<1> QED BY <1>1, <1>2, <1>3, <1>4, TelemetryStep

LEMMA SetFuelStep ==
  ASSUME IInv, NEW c \in Slots, NEW v \in Int, SetFuel(c, v), pc = "input"
  PROVE  IInv'
<1>1. WritesOK' /\ told' = told /\ alarms' = alarms
  BY OkWrite DEF SetFuel
<1>2. /\ altitude' \in Int /\ speed' \in Int /\ fuel' \in Int
      /\ altitude_received' \in BOOLEAN
  BY DEF SetFuel, IInv, TypeOK
<1>3. /\ altitude' > 0 => altitude_received'
      /\ altitude_received => altitude_received'
  BY DEF SetFuel, IInv, AltitudeWasReceived
<1>4. /\ state' = Refreshed(altitude', speed', altitude_received')
      /\ UNCHANGED <<pc, clients, pressure, faults>>
  BY DEF SetFuel
<1> QED BY <1>1, <1>2, <1>3, <1>4, TelemetryStep

LEMMA SetOtherStep ==
  ASSUME IInv, NEW c \in Slots, SetOther(c), pc = "input"
  PROVE  IInv'
<1>1. WritesOK' /\ told' = told /\ alarms' = alarms
  BY OkWrite DEF SetOther
<1>2. /\ altitude' \in Int /\ speed' \in Int /\ fuel' \in Int
      /\ altitude_received' \in BOOLEAN
  BY DEF SetOther, IInv, TypeOK, telemetry
<1>3. /\ altitude' > 0 => altitude_received'
      /\ altitude_received => altitude_received'
  BY DEF SetOther, IInv, AltitudeWasReceived, telemetry
<1>4. /\ state' = Refreshed(altitude', speed', altitude_received')
      /\ UNCHANGED <<pc, clients, pressure, faults>>
  BY DEF SetOther, telemetry
<1> QED BY <1>1, <1>2, <1>3, <1>4, TelemetryStep

LEMMA SetMonitoredStep ==
  ASSUME IInv, NEW c \in Slots, NEW f \in Faults, NEW v \in Int, SetMonitored(c, f, v),
         pc = "input"
  PROVE  IInv'
<1>1. CASE ~Raises(f, v)
  <2>1. PICK fifo \in {<< >>, <<"SET">>} : Write(c, << >>, << >>, << >>, <<"OK">>, fifo)
    BY <1>1, Zenon DEF SetMonitored, FaultLine
  <2>2. WritesOK' /\ told' = told /\ alarms' = alarms
    BY <2>1, OkWrite
  <2>3. /\ UNCHANGED <<pc, clients, pressure, faults>>
        /\ UNCHANGED telemetry
        /\ state' = Refreshed(altitude, speed, altitude_received)
    BY <1>1 DEF SetMonitored
  <2>4. /\ altitude' \in Int /\ speed' \in Int /\ fuel' \in Int
        /\ altitude_received' \in BOOLEAN
    BY <2>3 DEF IInv, TypeOK, telemetry
  <2>5. /\ altitude' > 0 => altitude_received'
        /\ altitude_received => altitude_received'
    BY <2>3 DEF IInv, AltitudeWasReceived, telemetry
  <2>6. state' = Refreshed(altitude', speed', altitude_received')
    BY <2>3 DEF telemetry
  <2> QED BY <2>2, <2>3, <2>4, <2>5, <2>6, TelemetryStep
<1>2. CASE Raises(f, v)
  <2>1. Write(c, << >>, <<FaultLine[f].event>>, << >>, <<"OK">>, FaultLine[f].fifo)
    BY <1>2 DEF SetMonitored
  <2>2. WritesOK'
    <3>1. "OK" \in SocketLines /\ FaultLine[f].event \in SocketLines
      BY DEF SocketLines, Replies, Events, FaultLine
    <3>2. FaultLine[f].fifo \in Seq(FifoLines)
      <4>1. /\ <<"SET", "FAULT1", "PROBLEM_ON">> \in Seq(FifoLines)
            /\ <<"FAULT2", "PROBLEM_ON">> \in Seq(FifoLines)
        BY DEF FifoLines
      <4>2. FaultLine[f].fifo \in {<<"SET", "FAULT1", "PROBLEM_ON">>, <<"FAULT2", "PROBLEM_ON">>}
        BY Zenon DEF FaultLine
      <4> QED BY <4>1, <4>2
    <3>3. /\ <<"OK">> \in Seq(SocketLines) /\ <<FaultLine[f].event>> \in Seq(SocketLines)
          /\ << >> \in Seq(SocketLines)
      BY <3>1
    <3> QED BY <2>1, <3>2, <3>3, WriteType DEF IInv, TypeOK, WritesOK
  <2>3. told' = told /\ alarms' = alarms \cup {f}
    <3>1. Heard(FaultLine[f].event)
      BY <2>1, Announced
    <3> QED BY <3>1 DEF Heard, PhaseEvents, Opens, Closes, FaultLine
  <2>4. /\ active' = active \cup {f} /\ started' = [started EXCEPT ![f] = 0]
        /\ state' = Refreshed(altitude, speed, altitude_received)
        /\ UNCHANGED <<pc, clients, pressure>> /\ UNCHANGED telemetry
    BY <1>2 DEF SetMonitored
  <2>5. /\ state' \in Phases \ {"LANDING"}
        /\ state' = "EMERGENCY" <=> state = "EMERGENCY"
        /\ state' = "EXPLODED" <=> state = "EXPLODED"
        /\ state' = "READY" => altitude <= 0 /\ speed <= 0
    BY <2>4, RefreshedPhase DEF IInv, TypeOK
  <2>6. TypeOK'
    <3>1. started' \in [Faults -> {Off} \cup 0..FaultDelay] /\ active' \subseteq Faults
      BY <2>4 DEF IInv, TypeOK
    <3>2. /\ altitude' \in Int /\ speed' \in Int /\ fuel' \in Int
          /\ altitude_received' \in BOOLEAN
      BY <2>4 DEF IInv, TypeOK, telemetry
    <3>3. pressure' \in {"nominal", "fault", "corrected"} /\ pc' = "input"
      BY <2>4 DEF IInv, TypeOK
    <3> QED BY <2>2, <2>4, <2>5, <3>1, <3>2, <3>3, TypedStep
  <2>7. NoFaultForgotten'
    BY <2>4, <2>5 DEF IInv, TypeOK, NoFaultForgotten
  <2>8. AltitudeWasReceived' /\ DescentHasAltitude' /\ ReadyIsAtRest' /\ SettledBeforePush'
    <3>1. DescentHasAltitude' /\ ReadyIsAtRest'
      BY <2>4, <2>5 DEF IInv, Phases, DescentHasAltitude, ReadyIsAtRest, telemetry
    <3> QED BY <2>4, <3>1 DEF IInv, AltitudeWasReceived, SettledBeforePush, telemetry
  <2>9. EventsTellTheStory'
    BY <2>3, <2>4, <2>5 DEF IInv, EventsTellTheStory
  <2> QED BY <2>6, <2>7, <2>8, <2>9 DEF IInv
<1> QED BY <1>1, <1>2

-----------------------------------------------------------------------------
(* Explosions, forced or decided by check_state_transitions.               *)

LEMMA ExplodeWrites ==
  ASSUME IInv, NEW c, NEW after \in {<< >>, <<"OK">>}, Explode(c, after)
  PROVE  /\ WritesOK' /\ told' = "EVENT_EXPLODED" /\ alarms' = alarms
         /\ state' = "EXPLODED"
<1>1. Write(c, << >>, <<"EVENT_EXPLODED">>, <<"CMD_EVENT_EXPLODE">>, after, <<"EXPLODE">>)
  BY DEF Explode
<1>2. WritesOK'
  <2>1. /\ "OK" \in SocketLines /\ "EVENT_EXPLODED" \in SocketLines
        /\ "CMD_EVENT_EXPLODE" \in SocketLines /\ "EXPLODE" \in FifoLines
    BY DEF SocketLines, Replies, Events, PhaseEvents, Orders, FifoLines
  <2>2. /\ << >> \in Seq(SocketLines) /\ <<"OK">> \in Seq(SocketLines)
        /\ <<"EVENT_EXPLODED">> \in Seq(SocketLines)
        /\ <<"CMD_EVENT_EXPLODE">> \in Seq(SocketLines) /\ <<"EXPLODE">> \in Seq(FifoLines)
    BY <2>1
  <2>3. after \in Seq(SocketLines)
    BY <2>2
  <2> QED BY <1>1, <2>2, <2>3, WriteType DEF IInv, TypeOK, WritesOK
<1>3. told' = "EVENT_EXPLODED" /\ alarms' = alarms
  <2>1. Heard("EVENT_EXPLODED")
    BY <1>1, Announced
  <2> QED BY <2>1 DEF Heard, PhaseEvents, Opens, Closes
<1> QED BY <1>2, <1>3 DEF Explode

LEMMA ExplosionStep ==
  ASSUME IInv, NEW c, NEW after \in {<< >>, <<"OK">>}, Explode(c, after),
         pc' \in {"input", "push"}, UNCHANGED <<clients, telemetry, pressure, active>>,
         started' \in [Faults -> {Off} \cup 0..FaultDelay],
         \A f \in Faults : started'[f] # Off => started[f] # Off
  PROVE  IInv'
<1>1. WritesOK' /\ told' = "EVENT_EXPLODED" /\ alarms' = alarms /\ state' = "EXPLODED"
  BY ExplodeWrites
<1>2. TypeOK'
  BY <1>1 DEF IInv, TypeOK, WritesOK, Phases, clients, telemetry
<1>3. NoFaultForgotten'
  BY <1>1 DEF IInv, NoFaultForgotten
<1>4. AltitudeWasReceived' /\ DescentHasAltitude' /\ ReadyIsAtRest' /\ SettledBeforePush'
  BY <1>1 DEF IInv, AltitudeWasReceived, DescentHasAltitude, ReadyIsAtRest,
              SettledBeforePush, telemetry
<1>5. EventsTellTheStory'
  BY <1>1 DEF IInv, EventsTellTheStory
<1> QED BY <1>2, <1>3, <1>4, <1>5 DEF IInv

LEMMA ForcedExplosionStep ==
  ASSUME IInv, NEW c \in Slots, ForcedExplosion(c)
  PROVE  IInv'
<1>1. /\ Explode(c, <<"OK">>) /\ pc' \in {"input", "push"}
      /\ UNCHANGED <<clients, telemetry, pressure, active>> /\ UNCHANGED started
  BY DEF ForcedExplosion, IInv, TypeOK, faults
<1>2. /\ started' \in [Faults -> {Off} \cup 0..FaultDelay]
      /\ \A f \in Faults : started'[f] # Off => started[f] # Off
  BY <1>1 DEF IInv, TypeOK
<1> QED BY <1>1, <1>2, ExplosionStep

LEMMA FaultExplodesStep ==
  ASSUME IInv, NEW f \in Faults, FaultExplodes(f), pc' = "push"
  PROVE  IInv'
<1>1. /\ Explode(Nobody, << >>) /\ pc' \in {"input", "push"}
      /\ UNCHANGED <<clients, telemetry, pressure, active>>
      /\ started' = [started EXCEPT ![f] = Off]
  BY DEF FaultExplodes
<1>2. /\ started' \in [Faults -> {Off} \cup 0..FaultDelay]
      /\ \A g \in Faults : started'[g] # Off => started[g] # Off
  BY <1>1 DEF IInv, TypeOK
<1> QED BY <1>1, <1>2, ExplosionStep

LEMMA FuelExplodesStep ==
  ASSUME IInv, FuelExplodes, pc' = "push"
  PROVE  IInv'
<1>1. /\ Explode(Nobody, << >>) /\ pc' \in {"input", "push"}
      /\ UNCHANGED <<clients, telemetry, pressure, active>> /\ UNCHANGED started
  BY DEF FuelExplodes, faults
<1>2. /\ started' \in [Faults -> {Off} \cup 0..FaultDelay]
      /\ \A g \in Faults : started'[g] # Off => started[g] # Off
  BY <1>1 DEF IInv, TypeOK
<1> QED BY <1>1, <1>2, ExplosionStep

LEMMA LandedStep ==
  ASSUME IInv, Landed, pc' = "push"
  PROVE  IInv'
<1>1. Write(Nobody, << >>, <<"EVENT_LANDED">>, <<"CMD_EVENT_RESUME">>, << >>, <<"RESUME">>)
  BY DEF Landed
<1>2. WritesOK'
  <2>1. /\ "EVENT_LANDED" \in SocketLines /\ "CMD_EVENT_RESUME" \in SocketLines
        /\ "RESUME" \in FifoLines
    BY DEF SocketLines, Events, PhaseEvents, Orders, FifoLines
  <2>2. /\ << >> \in Seq(SocketLines) /\ <<"EVENT_LANDED">> \in Seq(SocketLines)
        /\ <<"CMD_EVENT_RESUME">> \in Seq(SocketLines) /\ <<"RESUME">> \in Seq(FifoLines)
    BY <2>1
  <2> QED BY <1>1, <2>2, WriteType DEF IInv, TypeOK, WritesOK
<1>3. told' = "EVENT_LANDED" /\ alarms' = alarms
  <2>1. Heard("EVENT_LANDED")
    BY <1>1, Announced
  <2> QED BY <2>1 DEF Heard, PhaseEvents, Opens, Closes
<1>4. /\ state' = "READY" /\ altitude' = 0 /\ speed' = 0 /\ altitude_received' = FALSE
      /\ UNCHANGED clients /\ UNCHANGED <<fuel, pressure, faults>>
      /\ \A f \in Faults : ~Expired(f)
      /\ state \in Descending
  BY DEF Landed, TouchedDown
<1>5. TypeOK'
  <2>1. altitude_received' \in BOOLEAN
    BY <1>4, Zenon
  <2>2. /\ state' \in Phases \ {"LANDING"} /\ altitude' \in Int /\ speed' \in Int
        /\ fuel' \in Int /\ pressure' \in {"nominal", "fault", "corrected"}
        /\ active' \subseteq Faults /\ started' \in [Faults -> {Off} \cup 0..FaultDelay]
    BY <1>4 DEF IInv, TypeOK, Phases, faults
  <2>3. type' \in [Slots -> Roles \cup {"free", "UNKNOWN"}] /\ authed' \subseteq Slots
    BY <1>4 DEF IInv, TypeOK, clients
  <2> QED BY <1>2, <2>1, <2>2, <2>3 DEF TypeOK, WritesOK
<1>6. NoFaultForgotten'
  BY <1>4 DEF IInv, NoFaultForgotten, faults
<1>7. AltitudeWasReceived' /\ DescentHasAltitude' /\ ReadyIsAtRest' /\ SettledBeforePush'
  BY <1>4 DEF AltitudeWasReceived, DescentHasAltitude, ReadyIsAtRest, SettledBeforePush
<1>8. EventsTellTheStory'
  BY <1>3, <1>4 DEF IInv, EventsTellTheStory, faults
<1> QED BY <1>5, <1>6, <1>7, <1>8 DEF IInv

(* No transition applies: what is pushed is settled.                       *)
LEMMA NoTransitionStep ==
  ASSUME IInv, NoTransition, pc' = "push"
  PROVE  IInv'
<1>1. /\ out' = Silence /\ pipe' = << >> /\ told' = told /\ alarms' = alarms
      /\ UNCHANGED clients /\ UNCHANGED state /\ UNCHANGED telemetry /\ UNCHANGED pressure
      /\ UNCHANGED faults
  BY DEF NoTransition
<1>2. WritesOK'
  BY <1>1 DEF IInv, TypeOK, WritesOK, Silence
<1>3. TypeOK'
  BY <1>1, <1>2 DEF IInv, TypeOK, WritesOK, clients, telemetry, faults
<1>4. NoFaultForgotten' /\ AltitudeWasReceived' /\ DescentHasAltitude' /\ ReadyIsAtRest'
  BY <1>1 DEF IInv, NoFaultForgotten, AltitudeWasReceived, DescentHasAltitude,
              ReadyIsAtRest, telemetry, faults
<1>5. SettledBeforePush'
  <2>1. ~OutOfFuel /\ ~TouchedDown
    BY DEF NoTransition
  <2>2. state' = state /\ fuel' = fuel /\ altitude' = altitude
    BY <1>1 DEF telemetry
  <2> QED BY <2>1, <2>2 DEF IInv, TypeOK, OutOfFuel, TouchedDown, DescentHasAltitude,
                            SettledBeforePush
<1>6. EventsTellTheStory'
  BY <1>1 DEF IInv, EventsTellTheStory, faults
<1> QED BY <1>3, <1>4, <1>5, <1>6 DEF IInv

LEMMA CheckStep ==
  ASSUME IInv, Check
  PROVE  IInv'
BY FaultExplodesStep, FuelExplodesStep, LandedStep, NoTransitionStep DEF Check

-----------------------------------------------------------------------------
(* Connections, the periodic telemetry, time and restarts.                 *)

(* Silence on every socket.                                                *)
LEMMA QuietStep ==
  ASSUME IInv, out' = Silence, pipe' = << >>, UNCHANGED <<told, alarms>>,
         pc' \in {"input", "push"}, pc' = "push" => pc = "push",
         type' \in [Slots -> Roles \cup {"free", "UNKNOWN"}], authed' \subseteq Slots,
         UNCHANGED <<state, telemetry, pressure, faults>>
  PROVE  IInv'
<1>1. WritesOK'
  BY DEF IInv, TypeOK, WritesOK, Silence
<1> QED BY <1>1, SilentStep

LEMMA AcceptStep ==
  ASSUME IInv, NEW s \in Slots, Accept(s)
  PROVE  IInv'
<1>1. type' \in [Slots -> Roles \cup {"free", "UNKNOWN"}] /\ authed' \subseteq Slots
  BY DEF Accept, IInv, TypeOK
<1>2. /\ out' = Silence /\ pipe' = << >> /\ UNCHANGED <<told, alarms>>
      /\ pc' \in {"input", "push"} /\ (pc' = "push" => pc = "push")
      /\ UNCHANGED <<state, telemetry, pressure, faults>>
  BY DEF Accept
<1> QED BY <1>1, <1>2, QuietStep

LEMMA DisconnectStep ==
  ASSUME IInv, NEW s \in Slots, Disconnect(s)
  PROVE  IInv'
<1>1. type' \in [Slots -> Roles \cup {"free", "UNKNOWN"}] /\ authed' \subseteq Slots
  BY DEF Disconnect, IInv, TypeOK
<1>2. /\ out' = Silence /\ pipe' = << >> /\ UNCHANGED <<told, alarms>>
      /\ pc' \in {"input", "push"} /\ (pc' = "push" => pc = "push")
      /\ UNCHANGED <<state, telemetry, pressure, faults>>
  BY DEF Disconnect
<1> QED BY <1>1, <1>2, QuietStep

LEMMA AuthenticateStep ==
  ASSUME IInv, NEW c \in Slots, NEW role \in Roles, Authenticate(c, role)
  PROVE  IInv'
<1>1. WritesOK'
  <2> DEFINE F(s) == (IF s = c THEN <<"AUTH_OK">> ELSE << >>)
              \o (IF role = "CONTROLLER" /\ (s = c \/ Listens(s, role))
                  THEN <<"TELEMETRY">> ELSE << >>)
  <2>1. \A s \in Slots : F(s) \in Seq(SocketLines)
    <3>1. "AUTH_OK" \in SocketLines /\ "TELEMETRY" \in SocketLines
      BY DEF SocketLines, Replies, Events
    <3>2. /\ <<"AUTH_OK">> \in Seq(SocketLines) /\ <<"TELEMETRY">> \in Seq(SocketLines)
          /\ << >> \in Seq(SocketLines)
      BY <3>1
    <3> QED BY <3>2, ConcatProperties
  <2>2. out' = [s \in Slots |-> F(s)] /\ pipe' = << >> /\ told' = told /\ alarms' = alarms
    BY Zenon DEF Authenticate
  <2>3. out' \in [Slots -> Seq(SocketLines)]
    BY <2>1, <2>2
  <2> QED BY <2>2, <2>3 DEF IInv, TypeOK, WritesOK
<1>2. type' \in [Slots -> Roles \cup {"free", "UNKNOWN"}] /\ authed' \subseteq Slots
  BY DEF Authenticate, IInv, TypeOK
<1>3. /\ told' = told /\ alarms' = alarms
      /\ pc' \in {"input", "push"} /\ (pc' = "push" => pc = "push")
      /\ UNCHANGED <<state, telemetry, pressure, faults>>
  BY DEF Authenticate, IInv, TypeOK
<1> QED BY <1>1, <1>2, <1>3, SilentStep

LEMMA PushStep ==
  ASSUME IInv, Push
  PROVE  IInv'
<1>1. /\ pc' \in {"input", "push"} /\ (pc' = "push" => pc = "push")
      /\ type' \in [Slots -> Roles \cup {"free", "UNKNOWN"}] /\ authed' \subseteq Slots
      /\ UNCHANGED <<state, telemetry, pressure, faults>>
  BY DEF Push, IInv, TypeOK, clients
<1>2. CASE Write(Nobody, << >>, <<"TELEMETRY">>, << >>, << >>, << >>)
  <2>1. WritesOK'
    <3>1. "TELEMETRY" \in SocketLines
      BY DEF SocketLines, Events
    <3>2. /\ << >> \in Seq(SocketLines) /\ <<"TELEMETRY">> \in Seq(SocketLines)
          /\ << >> \in Seq(FifoLines)
      BY <3>1
    <3> QED BY <1>2, <3>2, WriteType DEF IInv, TypeOK, WritesOK
  <2>2. told' = told /\ alarms' = alarms
    <3>1. Heard("TELEMETRY")
      BY <1>2, Announced
    <3> QED BY <3>1 DEF Heard, PhaseEvents, Opens, Closes
  <2> QED BY <1>1, <2>1, <2>2, SilentStep
<1>3. CASE out' = Silence /\ pipe' = << >> /\ UNCHANGED <<told, alarms>>
  BY <1>1, <1>3, QuietStep
<1> QED BY <1>2, <1>3 DEF Push

LEMMA TickStep ==
  ASSUME IInv, Tick
  PROVE  IInv'
<1>1. /\ started' = [f \in Faults |-> IF started[f] \in 0..(FaultDelay - 1)
                                      THEN started[f] + 1 ELSE started[f]]
      /\ UNCHANGED <<pc, clients, state, telemetry, pressure, active, writes>>
  BY DEF Tick
<1>2. \A f \in Faults : started'[f] \in {Off} \cup 0..FaultDelay
  BY <1>1 DEF IInv, TypeOK
<1>3. TypeOK'
  <2>1. started' \in [Faults -> {Off} \cup 0..FaultDelay]
    BY <1>1, <1>2
  <2>2. WritesOK'
    BY <1>1 DEF IInv, TypeOK, WritesOK, writes
  <2> QED BY <1>1, <2>1, <2>2 DEF IInv, TypeOK, WritesOK, clients, telemetry
<1>4. NoFaultForgotten'
  <2>1. \A f \in Faults : started'[f] # Off <=> started[f] # Off
    BY <1>1 DEF IInv, TypeOK
  <2> QED BY <1>1, <2>1 DEF IInv, NoFaultForgotten
<1>5. AltitudeWasReceived' /\ DescentHasAltitude' /\ ReadyIsAtRest' /\ SettledBeforePush'
  BY <1>1 DEF IInv, AltitudeWasReceived, DescentHasAltitude, ReadyIsAtRest,
              SettledBeforePush, telemetry
<1>6. EventsTellTheStory'
  BY <1>1 DEF IInv, EventsTellTheStory, writes
<1> QED BY <1>3, <1>4, <1>5, <1>6 DEF IInv

LEMMA RestartStep ==
  ASSUME IInv, Restart
  PROVE  IInv'
<1>1. /\ pc' = "input" /\ type' = [s \in Slots |-> "free"] /\ authed' = {}
      /\ state' = "READY" /\ altitude' = 0 /\ speed' = 0 /\ fuel' = 100
      /\ altitude_received' = FALSE /\ pressure' = "nominal" /\ active' = {}
      /\ started' = [f \in Faults |-> Off] /\ out' = Silence /\ pipe' = << >>
      /\ told' = "EVENT_RESET" /\ alarms' = {}
  BY DEF Restart
<1>2. TypeOK'
  <2>1. out' \in [Slots -> Seq(SocketLines)] /\ pipe' \in Seq(FifoLines)
    BY <1>1 DEF Silence
  <2>2. started' \in [Faults -> {Off} \cup 0..FaultDelay] /\ active' \subseteq Faults
    BY <1>1
  <2>3. told' \in PhaseEvents /\ alarms' \subseteq Faults
    BY <1>1 DEF PhaseEvents
  <2>4. type' \in [Slots -> Roles \cup {"free", "UNKNOWN"}] /\ authed' \subseteq Slots
    BY <1>1
  <2>5. altitude_received' \in BOOLEAN
    BY <1>1, Zenon
  <2>6. /\ pc' \in {"input", "push"} /\ state' \in Phases \ {"LANDING"}
        /\ altitude' \in Int /\ speed' \in Int /\ fuel' \in Int
        /\ pressure' \in {"nominal", "fault", "corrected"}
    BY <1>1 DEF Phases
  <2> QED BY <2>1, <2>2, <2>3, <2>4, <2>5, <2>6, Zenon DEF TypeOK
<1>3. NoFaultForgotten' /\ AltitudeWasReceived' /\ DescentHasAltitude' /\ ReadyIsAtRest'
        /\ SettledBeforePush'
  BY <1>1 DEF NoFaultForgotten, AltitudeWasReceived, DescentHasAltitude, ReadyIsAtRest,
              SettledBeforePush
<1>4. EventsTellTheStory'
  BY <1>1 DEF EventsTellTheStory
<1> QED BY <1>2, <1>3, <1>4 DEF IInv

-----------------------------------------------------------------------------
(* Dispatch, and the whole next-state relation.                            *)

LEMMA LineValues == \A l \in Lines : l.val \in Int
<1> SUFFICES ASSUME NEW l \in Lines PROVE l.val \in Int
  OBVIOUS
<1>1. CASE \E op : l = Line(op)
  BY <1>1 DEF Line
<1>2. CASE \E n \in {1, 4} : l = Melody(n)
  BY <1>2 DEF Melody
<1>3. CASE \E f \in Fields : \E v \in Inputs[f] : l = SetLine(f, v)
  <2>1. PICK f \in Fields : \E v \in Inputs[f] : l = SetLine(f, v)
    BY <1>3
  <2>2. PICK v \in Inputs[f] : l = SetLine(f, v)
    BY <2>1
  <2> QED BY <2>2 DEF SetLine
<1> QED BY <1>1, <1>2, <1>3, Zenon DEF Lines

LEMMA ControllerLineStep ==
  ASSUME IInv, pc = "input", NEW c \in Slots, NEW l \in Lines, ControllerLine(c, l)
  PROVE  IInv'
<1>1. CASE Authenticate(c, "CONTROLLER")
  BY <1>1, AuthenticateStep DEF Roles
<1>2. CASE CmdLU(c)
  BY <1>2, CmdLUStep
<1>3. CASE CmdLD(c)
  BY <1>3, CmdLDStep
<1>4. CASE Refuse(c, "DATA_ALT") \/ Refuse(c, "DATA_TEMP") \/ Refuse(c, "FAIL_UNKNOWN_CMD")
  BY <1>4, RefuseStep DEF Replies
<1>5. CASE CmdPRES(c)
  BY <1>5, CmdPRESStep
<1>6. CASE \E f \in Faults : CmdREP(c, f)
  BY <1>6, CmdREPStep
<1>7. CASE CmdMEL(c, l.val)
  BY <1>7, CmdMELStep
<1> QED BY <1>1, <1>2, <1>3, <1>4, <1>5, <1>6, <1>7, Zenon DEF ControllerLine

LEMMA InjectorLineStep ==
  ASSUME IInv, pc = "input", NEW c \in Slots, NEW l \in Lines, InjectorLine(c, l)
  PROVE  IInv'
<1>1. CASE Authenticate(c, "INJECTOR")
  BY <1>1, AuthenticateStep DEF Roles
<1>2. CASE Reset(c)
  BY <1>2, ResetStep
<1>3. CASE ForcedExplosion(c)
  BY <1>3, ForcedExplosionStep
<1>4. CASE Refuse(c, "FAIL_BAD_FORMAT") \/ Refuse(c, "FAIL_UNKNOWN_CMD")
  BY <1>4, RefuseStep DEF Replies
<1>5. CASE SetAltitude(c, l.val) \/ SetSpeed(c, l.val) \/ SetFuel(c, l.val) \/ SetOther(c)
  BY <1>5, LineValues, SetAltitudeStep, SetSpeedStep, SetFuelStep, SetOtherStep
<1>6. CASE \E f \in Faults : SetMonitored(c, f, l.val)
  BY <1>6, LineValues, SetMonitoredStep
<1> QED BY <1>1, <1>2, <1>3, <1>4, <1>5, <1>6, Zenon DEF InjectorLine

LEMMA DispatchStep ==
  ASSUME IInv, NEW c \in Slots, NEW l \in Lines, Dispatch(c, l)
  PROVE  IInv'
<1>1. CASE UnknownLine(c, l)
  <2>1. CASE Authenticate(c, "CONTROLLER") \/ Authenticate(c, "INJECTOR")
    BY <2>1, AuthenticateStep DEF Roles
  <2>2. CASE Refuse(c, "AUTH_FAIL")
    BY <2>2, RefuseStep DEF Replies
  <2> QED BY <1>1, <2>1, <2>2, Zenon DEF UnknownLine
<1>2. CASE ControllerLine(c, l)
  BY <1>2, ControllerLineStep DEF Dispatch
<1>3. CASE InjectorLine(c, l)
  BY <1>3, InjectorLineStep DEF Dispatch
<1> QED BY <1>1, <1>2, <1>3 DEF Dispatch

LEMMA StutterStep ==
  ASSUME IInv, UNCHANGED vars
  PROVE  IInv'
<1>1. /\ WritesOK' /\ told' = told /\ alarms' = alarms
      /\ pc' \in {"input", "push"} /\ (pc' = "push" => pc = "push")
      /\ type' \in [Slots -> Roles \cup {"free", "UNKNOWN"}] /\ authed' \subseteq Slots
      /\ UNCHANGED <<state, telemetry, pressure, faults>>
  BY DEF IInv, TypeOK, WritesOK, vars, clients, writes
<1> QED BY <1>1, SilentStep

LEMMA NextIInv == IInv /\ [Next]_vars => IInv'
<1> SUFFICES ASSUME IInv, [Next]_vars PROVE IInv'
  OBVIOUS
<1>1. CASE \E s \in Slots : Accept(s) \/ Disconnect(s)
  BY <1>1, AcceptStep, DisconnectStep
<1>2. CASE \E c \in Slots : \E l \in Lines : Dispatch(c, l)
  BY <1>2, DispatchStep
<1>3. CASE Check
  BY <1>3, CheckStep
<1>4. CASE Push
  BY <1>4, PushStep
<1>5. CASE Tick
  BY <1>5, TickStep
<1>6. CASE Restart
  BY <1>6, RestartStep
<1>7. CASE UNCHANGED vars
  BY <1>7, StutterStep
<1> QED BY <1>1, <1>2, <1>3, <1>4, <1>5, <1>6, <1>7, Zenon DEF Next

-----------------------------------------------------------------------------
(* The inductive invariant holds of every execution of the server loop.    *)
THEOREM Invariance == Spec => []IInv
BY InitIInv, NextIInv, PTL DEF Spec

(* Types, and with them: the phase LANDING of satellite_protocol.h is      *)
(* never entered, whatever clients send and in whatever order.             *)
THEOREM TypeCorrect == Spec => []TypeOK
BY Invariance, PTL DEF IInv

(* An open fault has a running clock or has destroyed the rocket: the      *)
(* clocks and the active flags of satellite_handler.c never part.          *)
THEOREM FaultsRemembered == Spec => []NoFaultForgotten
BY Invariance, PTL DEF IInv

(* A descent is never entered, nor lived through, without an altitude      *)
(* received from the injector: the touchdown test stays reachable.         *)
THEOREM DescentsCanEnd == Spec => []DescentHasAltitude
BY Invariance, PTL DEF IInv

(* READY means at rest, for every order of SET lines and touchdowns.       *)
THEOREM ReadyAtRest == Spec => []ReadyIsAtRest
BY Invariance, PTL DEF IInv

(* A controller that only listens to EVENT lines knows whether the rocket  *)
(* descends, whether it is destroyed, and which faults are open.           *)
THEOREM EventsSuffice == Spec => []EventsTellTheStory
BY Invariance, PTL DEF IInv

-----------------------------------------------------------------------------
(* The satellite implements MissionPhase: every handler and every check    *)
(* maps to one of its actions, or leaves the phase and the faults alone.   *)

LEMMA RefreshedObserves ==
  ASSUME IInv, NEW alt \in Int, NEW spd \in Int, NEW received \in BOOLEAN,
         state' = Refreshed(alt, spd, received)
  PROVE  IF state \in {"READY", "FLYING"} THEN state' \in {"READY", "FLYING"}
                                          ELSE state' = state
BY DEF Refreshed, IInv, TypeOK, Phases

LEMMA TelemetryObserves ==
  ASSUME IInv, NEW c \in Slots, NEW v \in Int,
         SetAltitude(c, v) \/ SetSpeed(c, v) \/ SetFuel(c, v) \/ SetOther(c)
  PROVE  Mission!Observe
<1>1. active' = active
  BY DEF SetAltitude, SetSpeed, SetFuel, SetOther, faults
<1>2. PICK alt \in Int, spd \in Int, received \in BOOLEAN :
        state' = Refreshed(alt, spd, received)
  <2>1. altitude \in Int /\ speed \in Int /\ altitude_received \in BOOLEAN /\ TRUE \in BOOLEAN
    BY DEF IInv, TypeOK
  <2>2. CASE SetAltitude(c, v)
    BY <2>1, <2>2, Zenon DEF SetAltitude
  <2>3. CASE SetSpeed(c, v)
    BY <2>1, <2>3, Zenon DEF SetSpeed
  <2>4. CASE SetFuel(c, v)
    BY <2>1, <2>4, Zenon DEF SetFuel
  <2>5. CASE SetOther(c)
    BY <2>1, <2>5, Zenon DEF SetOther
  <2> QED BY <2>2, <2>3, <2>4, <2>5
<1>3. IF state \in {"READY", "FLYING"} THEN state' \in {"READY", "FLYING"}
                                       ELSE state' = state
  BY <1>2, RefreshedObserves
<1> QED BY <1>1, <1>3 DEF Mission!Observe

LEMMA MonitoredObserves ==
  ASSUME IInv, NEW c \in Slots, NEW f \in Faults, NEW v \in Int, SetMonitored(c, f, v)
  PROVE  Mission!Observe
<1>1. IF state \in {"READY", "FLYING"} THEN state' \in {"READY", "FLYING"}
                                       ELSE state' = state
  <2>1. altitude \in Int /\ speed \in Int /\ altitude_received \in BOOLEAN
    BY DEF IInv, TypeOK
  <2>2. state' = Refreshed(altitude, speed, altitude_received)
    BY DEF SetMonitored
  <2> QED BY <2>1, <2>2, RefreshedObserves
<1>2. \/ active' = active
      \/ state # "READY" /\ \E g \in Faults \ active : active' = active \cup {g}
  <2>1. CASE Raises(f, v)
    BY <2>1 DEF SetMonitored, Raises
  <2>2. CASE ~Raises(f, v)
    BY <2>2 DEF SetMonitored, faults
  <2> QED BY <2>1, <2>2
<1> QED BY <1>1, <1>2 DEF Mission!Observe

LEMMA ControllerRefines ==
  ASSUME IInv, NEW c \in Slots, NEW l \in Lines, ControllerLine(c, l)
  PROVE  Mission!Next \/ UNCHANGED <<state, active>>
<1>1. CASE Authenticate(c, "CONTROLLER")
  BY <1>1 DEF Authenticate, faults
<1>2. CASE CmdLU(c)
  BY <1>2 DEF CmdLU, Refuse, faults, Mission!Next, Mission!Launch
<1>3. CASE CmdLD(c)
  BY <1>3 DEF CmdLD, Refuse, faults, Mission!Next, Mission!Land
<1>4. CASE Refuse(c, "DATA_ALT") \/ Refuse(c, "DATA_TEMP") \/ Refuse(c, "FAIL_UNKNOWN_CMD")
  BY <1>4 DEF Refuse, faults
<1>5. CASE CmdPRES(c)
  BY <1>5 DEF CmdPRES, faults
<1>6. CASE \E f \in Faults : CmdREP(c, f)
  BY <1>6 DEF CmdREP, Refuse, faults, Mission!Next, Mission!Repair
<1>7. CASE CmdMEL(c, l.val)
  BY <1>7 DEF CmdMEL, Refuse, faults
<1> QED BY <1>1, <1>2, <1>3, <1>4, <1>5, <1>6, <1>7, Zenon DEF ControllerLine

LEMMA InjectorRefines ==
  ASSUME IInv, NEW c \in Slots, NEW l \in Lines, InjectorLine(c, l)
  PROVE  Mission!Next \/ UNCHANGED <<state, active>>
<1>1. CASE Authenticate(c, "INJECTOR")
  BY <1>1 DEF Authenticate, faults
<1>2. CASE Reset(c)
  BY <1>2 DEF Reset, Mission!Next, Mission!Reset
<1>3. CASE ForcedExplosion(c)
  BY <1>3 DEF ForcedExplosion, Explode, faults, Mission!Next, Mission!Explode
<1>4. CASE Refuse(c, "FAIL_BAD_FORMAT") \/ Refuse(c, "FAIL_UNKNOWN_CMD")
  BY <1>4 DEF Refuse, faults
<1>5. CASE SetAltitude(c, l.val) \/ SetSpeed(c, l.val) \/ SetFuel(c, l.val) \/ SetOther(c)
  BY <1>5, LineValues, TelemetryObserves DEF Mission!Next
<1>6. CASE \E f \in Faults : SetMonitored(c, f, l.val)
  BY <1>6, LineValues, MonitoredObserves DEF Mission!Next
<1> QED BY <1>1, <1>2, <1>3, <1>4, <1>5, <1>6, Zenon DEF InjectorLine

LEMMA CheckRefines ==
  ASSUME IInv, Check
  PROVE  Mission!Next \/ UNCHANGED <<state, active>>
<1>1. CASE (\E f \in Faults : FaultExplodes(f)) \/ FuelExplodes
  BY <1>1 DEF FaultExplodes, FuelExplodes, Explode, faults, Mission!Next, Mission!Explode
<1>2. CASE Landed
  BY <1>2 DEF Landed, TouchedDown, IInv, TypeOK, faults, Mission!Next, Mission!Touchdown
<1>3. CASE NoTransition
  BY <1>3 DEF NoTransition, faults
<1> QED BY <1>1, <1>2, <1>3 DEF Check

LEMMA NextRefines == IInv /\ [Next]_vars => [Mission!Next]_<<state, active>>
<1> SUFFICES ASSUME IInv, [Next]_vars
             PROVE  Mission!Next \/ UNCHANGED <<state, active>>
  OBVIOUS
<1>1. CASE \E s \in Slots : Accept(s) \/ Disconnect(s)
  BY <1>1 DEF Accept, Disconnect, faults
<1>2. CASE \E c \in Slots : \E l \in Lines : Dispatch(c, l)
  <2>1. PICK c \in Slots : \E l \in Lines : Dispatch(c, l)
    BY <1>2
  <2>2. PICK l \in Lines : Dispatch(c, l)
    BY <2>1
  <2>3. CASE UnknownLine(c, l)
    BY <2>3 DEF UnknownLine, Authenticate, Refuse, faults
  <2> QED BY <2>2, <2>3, ControllerRefines, InjectorRefines DEF Dispatch
<1>3. CASE Check
  BY <1>3, CheckRefines
<1>4. CASE Push \/ Tick
  BY <1>4 DEF Push, Tick, faults
<1>5. CASE Restart
  BY <1>5 DEF Restart, Mission!Next, Mission!Reset
<1>6. CASE UNCHANGED vars
  BY <1>6 DEF vars, faults
<1> QED BY <1>1, <1>2, <1>3, <1>4, <1>5, <1>6, Zenon DEF Next

(* The server refines MissionPhase: whatever the clients do, phases follow *)
(* one another, and faults open and close, only the way it promises.       *)
THEOREM Refinement == Spec => MissionLifeCycle
<1>1. Init => Mission!Init
  BY DEF Init, Mission!Init
<1> QED BY <1>1, Invariance, NextRefines, PTL DEF Spec, MissionLifeCycle, Mission!Spec

-----------------------------------------------------------------------------
(* Leaving EXPLODED: the abstract actions that could, could only be a      *)
(* reset; in the server these are RESET and a new start.                   *)

LEMMA TelemetryKeepsExploded ==
  ASSUME IInv, state = "EXPLODED", Mission!Observe
  PROVE  state' = "EXPLODED"
BY DEF Mission!Observe

LEMMA ExplodedLine ==
  ASSUME IInv, state = "EXPLODED", NEW c \in Slots, NEW l \in Lines, Dispatch(c, l)
  PROVE  state' = "EXPLODED" \/ told' = "EVENT_RESET"
<1>1. CASE UnknownLine(c, l)
  BY <1>1 DEF UnknownLine, Authenticate, Refuse
<1>2. CASE ControllerLine(c, l)
  <2>1. CASE Authenticate(c, "CONTROLLER")
    BY <2>1 DEF Authenticate
  <2>2. CASE CmdLU(c) \/ CmdLD(c)
    BY <2>2 DEF CmdLU, CmdLD, Refuse
  <2>3. CASE Refuse(c, "DATA_ALT") \/ Refuse(c, "DATA_TEMP") \/ Refuse(c, "FAIL_UNKNOWN_CMD")
    BY <2>3 DEF Refuse
  <2>4. CASE CmdPRES(c) \/ (\E f \in Faults : CmdREP(c, f)) \/ CmdMEL(c, l.val)
    BY <2>4 DEF CmdPRES, CmdREP, CmdMEL, Refuse
  <2> QED BY <1>2, <2>1, <2>2, <2>3, <2>4, Zenon DEF ControllerLine
<1>3. CASE InjectorLine(c, l)
  <2>1. CASE Authenticate(c, "INJECTOR")
    BY <2>1 DEF Authenticate
  <2>2. CASE Reset(c)
    <3>1. Heard("EVENT_RESET")
      BY <2>2, Announced DEF Reset
    <3> QED BY <3>1 DEF Heard, PhaseEvents
  <2>3. CASE ForcedExplosion(c)
    BY <2>3 DEF ForcedExplosion, Explode
  <2>4. CASE Refuse(c, "FAIL_BAD_FORMAT") \/ Refuse(c, "FAIL_UNKNOWN_CMD")
    BY <2>4 DEF Refuse
  <2>5. CASE \/ SetAltitude(c, l.val) \/ SetSpeed(c, l.val) \/ SetFuel(c, l.val)
             \/ SetOther(c) \/ \E f \in Faults : SetMonitored(c, f, l.val)
    BY <2>5, LineValues, TelemetryObserves, MonitoredObserves, TelemetryKeepsExploded
  <2> QED BY <1>3, <2>1, <2>2, <2>3, <2>4, <2>5, Zenon DEF InjectorLine
<1> QED BY <1>1, <1>2, <1>3 DEF Dispatch

LEMMA ExplodedNext ==
  ASSUME IInv, [Next]_vars, state = "EXPLODED", state' # "EXPLODED"
  PROVE  told' = "EVENT_RESET"
<1>1. CASE \E s \in Slots : Accept(s) \/ Disconnect(s)
  BY <1>1 DEF Accept, Disconnect
<1>2. CASE \E c \in Slots : \E l \in Lines : Dispatch(c, l)
  BY <1>2, ExplodedLine
<1>3. CASE Check
  BY <1>3 DEF Check, FaultExplodes, FuelExplodes, Explode, Landed, TouchedDown, NoTransition
<1>4. CASE Push \/ Tick \/ Restart \/ UNCHANGED vars
  BY <1>4 DEF Push, Tick, Restart, vars
<1> QED BY <1>1, <1>2, <1>3, <1>4, Zenon DEF Next

(* Destruction is final: only RESET, or a new server, leaves EXPLODED.     *)
THEOREM Final == Spec => ExplosionIsFinal
<1>1. IInv /\ [Next]_vars
        => [state = "EXPLODED" /\ state' # "EXPLODED" => told' = "EVENT_RESET"]_vars
  BY ExplodedNext
<1> QED BY <1>1, Invariance, PTL DEF Spec, ExplosionIsFinal

-----------------------------------------------------------------------------
(* Who reads what the satellite writes, and in which order.  Both          *)
(* properties follow from one fact: in one step a socket receives at most  *)
(* one reply and one push, in the order of its role.                       *)

HIDE SatelliteAssumption DEF Faults, Off, Orbit, Descending, Nobody

(* Being identified and being authenticated are the same thing.            *)
Known ==
  /\ type \in [Slots -> Roles \cup {"free", "UNKNOWN"}]
  /\ \A s \in Slots : s \in authed <=> type[s] \in Roles

None(q)       == q = << >>
One(q, lines) == \E x \in lines : q = <<x>>

(* Every event but the telemetry.                                          *)
News == Events \ {"TELEMETRY"}

(* What one step may write to a client of type t, when ev are the events   *)
(* it may push.                                                            *)
Shaped(t, q, ev) ==
  \/ None(q)
  \/ t # "free" /\ One(q, Replies)
  \/ t = "CONTROLLER" /\ One(q, ev)
  \/ t = "CONTROLLER" /\ \E r \in Replies, e \in ev : q = <<r, e>>
  \/ t = "INJECTOR" /\ One(q, Orders)
  \/ t = "INJECTOR" /\ \E o \in Orders, r \in Replies : q = <<o, r>>

(* Telemetry is pushed when the phase is settled, or with an AUTH_OK.      *)
Pushable == IF Settled \/ Says("AUTH_OK") THEN Events ELSE News

AllShaped == \A s \in Slots : Shaped(type[s], out[s], Pushable)

RepliesInv == Known /\ AllShaped

LEMMA KindsDiffer ==
  /\ Replies \cap Events = {} /\ Replies \cap Orders = {} /\ Events \cap Orders = {}
  /\ "TELEMETRY" \notin Replies \cup News \cup Orders
BY DEF Replies, Events, News, PhaseEvents, Orders

LEMMA PushableEvents ==
  /\ Pushable \in SUBSET Events /\ Pushable \in {News, Events}
  /\ Settled \/ Says("AUTH_OK") \/ Pushable = News
BY DEF Pushable, News

(* A reply and a push, written one after the other.                        *)
LEMMA TwoLines ==
  ASSUME NEW x, NEW y
  PROVE  <<x>> \o <<y>> = <<x, y>>
<1> DEFINE q == <<x>> \o <<y>>
           p == <<x, y>>
<1>1. <<x>> \in Seq({x, y}) /\ <<y>> \in Seq({x, y}) /\ p \in Seq({x, y})
  OBVIOUS
<1>2. q \in Seq({x, y})
  BY <1>1, ConcatProperties
<1>3. Len(q) = 2 /\ q[1] = x /\ q[2] = y /\ Len(p) = 2 /\ p[1] = x /\ p[2] = y
  OBVIOUS
<1> HIDE DEF q, p
<1>4. \A i \in 1..Len(q) : q[i] = p[i]
  BY <1>3
<1>5. q = p
  BY <1>1, <1>2, <1>3, <1>4, SeqEqual
<1> QED BY <1>5 DEF q, p

LEMMA NothingMore ==
  ASSUME NEW x, NEW y
  PROVE  /\ <<x>> \o <<y>> \o << >> \o << >> = <<x, y>>
         /\ << >> \o << >> \o <<x>> \o <<y>> = <<x, y>>
<1>1. <<x>> \in Seq({x, y}) /\ <<y>> \in Seq({x, y}) /\ << >> \in Seq({x, y})
  OBVIOUS
<1>2. <<x>> \o <<y>> \in Seq({x, y}) /\ << >> \o <<x>> = <<x>> /\ << >> \o << >> = << >>
  BY <1>1, ConcatProperties, ConcatEmptySeq
<1> QED BY <1>1, <1>2, TwoLines, ConcatEmptySeq, Zenon

-----------------------------------------------------------------------------
(* What the shape means for one socket.                                    *)

LEMMA ShapedAudience ==
  ASSUME NEW t, NEW q, NEW ev \in SUBSET Events, Shaped(t, q, ev), NEW i \in DOMAIN q
  PROVE  /\ q[i] \in Events => t = "CONTROLLER"
         /\ q[i] \in Orders => t = "INJECTOR"
         /\ t # "free"
<1> USE KindsDiffer
<1>1. CASE None(q)
  BY <1>1 DEF None
<1>2. CASE t # "free" /\ One(q, Replies)
  BY <1>2 DEF One
<1>3. CASE t = "CONTROLLER" /\ One(q, ev)
  BY <1>3 DEF One
<1>4. CASE t = "CONTROLLER" /\ \E r \in Replies, e \in ev : q = <<r, e>>
  BY <1>4
<1>5. CASE t = "INJECTOR" /\ One(q, Orders)
  BY <1>5 DEF One
<1>6. CASE t = "INJECTOR" /\ \E o \in Orders, r \in Replies : q = <<o, r>>
  BY <1>6
<1> QED BY <1>1, <1>2, <1>3, <1>4, <1>5, <1>6 DEF Shaped

LEMMA ShapedOrder ==
  ASSUME NEW t, NEW q, NEW ev \in SUBSET Events, Shaped(t, q, ev), NEW i \in DOMAIN q
  PROVE  /\ t = "CONTROLLER" /\ i > 1 => q[i] \in Events
         /\ t = "INJECTOR" /\ i < Len(q) => q[i] \in Orders
<1>1. CASE None(q)
  BY <1>1 DEF None
<1>2. CASE \E x : q = <<x>>
  BY <1>2
<1>3. CASE t = "CONTROLLER" /\ \E r \in Replies, e \in ev : q = <<r, e>>
  BY <1>3
<1>4. CASE t = "INJECTOR" /\ \E o \in Orders, r \in Replies : q = <<o, r>>
  BY <1>4
<1> QED BY <1>1, <1>2, <1>3, <1>4, Zenon DEF Shaped, One

(* A step that pushes only news pushes no telemetry.                       *)
LEMMA ShapedQuiet ==
  ASSUME NEW t, NEW q, Shaped(t, q, News), NEW i \in DOMAIN q
  PROVE  q[i] # "TELEMETRY"
<1> USE KindsDiffer
<1>1. CASE None(q)
  BY <1>1 DEF None
<1>2. CASE One(q, Replies) \/ One(q, News) \/ One(q, Orders)
  BY <1>2 DEF One
<1>3. CASE \E r \in Replies, e \in News : q = <<r, e>>
  BY <1>3
<1>4. CASE \E o \in Orders, r \in Replies : q = <<o, r>>
  BY <1>4
<1> QED BY <1>1, <1>2, <1>3, <1>4, Zenon DEF Shaped

LEMMA RepliesAudience == RepliesInv => Audience
<1> SUFFICES ASSUME RepliesInv, NEW s \in Slots
             PROVE  /\ s \in authed <=> type[s] \in Roles
                    /\ \A i \in DOMAIN out[s] :
                         /\ out[s][i] \in Events => type[s] = "CONTROLLER"
                         /\ out[s][i] \in Orders => type[s] = "INJECTOR"
                         /\ type[s] # "free"
  BY Zenon DEF Audience
<1>1. s \in authed <=> type[s] \in Roles
  BY DEF RepliesInv, Known
<1>2. Shaped(type[s], out[s], Pushable) /\ Pushable \in SUBSET Events
  BY PushableEvents DEF RepliesInv, AllShaped
<1> QED BY <1>1, <1>2, ShapedAudience, Zenon

LEMMA InPlaceReplyDiscipline == RepliesInv => ReplyDiscipline
<1> SUFFICES ASSUME RepliesInv, NEW s \in Slots, NEW i \in DOMAIN out[s]
             PROVE  /\ type[s] = "CONTROLLER" /\ i > 1 => out[s][i] \in Events
                    /\ type[s] = "INJECTOR" /\ i < Len(out[s]) => out[s][i] \in Orders
  BY Zenon DEF ReplyDiscipline
<1>1. Shaped(type[s], out[s], Pushable) /\ Pushable \in SUBSET Events
  BY PushableEvents DEF RepliesInv, AllShaped
<1> QED BY <1>1, ShapedOrder, Zenon

LEMMA ShapedTelemetry == RepliesInv => TelemetryIsSettled
<1> SUFFICES ASSUME RepliesInv, Says("TELEMETRY")
             PROVE  Settled \/ Says("AUTH_OK")
  BY DEF TelemetryIsSettled
<1>1. PICK s \in Slots : \E i \in DOMAIN out[s] : out[s][i] = "TELEMETRY"
  BY DEF Says
<1>2. Shaped(type[s], out[s], Pushable)
  BY DEF RepliesInv, AllShaped
<1>3. Pushable # News
  BY <1>1, <1>2, ShapedQuiet
<1> QED BY <1>3, PushableEvents

-----------------------------------------------------------------------------
(* What a handler writes.                                                  *)

(* The parts of one Write for a reply to c: a reply to a controller, or to *)
(* a stranger, comes first; one to an injector last, or alone.             *)
Parts(c, before, ev, inj, after, kinds) ==
  /\ None(before) \/ One(before, Replies)
  /\ None(ev) \/ One(ev, kinds)
  /\ None(inj) \/ One(inj, Orders)
  /\ None(after) \/ One(after, Replies)
  /\ c \in Slots /\ ~None(before) =>
       type[c] # "free" /\ None(after) /\ (type[c] = "INJECTOR" => None(inj))
  /\ c \in Slots /\ ~None(after) => type[c] = "INJECTOR"

(* A step may push the news at any time, the telemetry when it is settled  *)
(* or greets a controller.                                                 *)
LEMMA MayPush ==
  ASSUME NEW kinds \in {News, Events}, kinds = News \/ Settled' \/ Says("AUTH_OK")',
         Known', \A s \in Slots : Shaped(type'[s], out'[s], kinds)
  PROVE  RepliesInv'
<1>1. kinds \subseteq Pushable'
  BY DEF Pushable, News
<1>2. ASSUME NEW s \in Slots
      PROVE  Shaped(type'[s], out'[s], Pushable')
  <2>1. Shaped(type'[s], out'[s], kinds)
    OBVIOUS
  <2> QED BY <2>1, <1>1 DEF Shaped, One
<1> QED BY <1>2 DEF RepliesInv, AllShaped

LEMMA WriteShaped ==
  ASSUME RepliesInv, NEW c, NEW before, NEW ev, NEW inj, NEW after, NEW fifo,
         NEW kinds \in {News, Events}, kinds = News \/ Settled',
         Parts(c, before, ev, inj, after, kinds),
         Write(c, before, ev, inj, after, fifo), UNCHANGED clients
  PROVE  RepliesInv'
<1>1. Known'
  BY DEF RepliesInv, Known, clients
<1>2. ASSUME NEW s \in Slots
      PROVE  Shaped(type[s], out'[s], kinds)
  <2> DEFINE mine == s = c
             toC == Listens(s, "CONTROLLER")
             toI == Listens(s, "INJECTOR")
  <2>1. out'[s] = (IF s = c THEN before ELSE << >>)
                  \o (IF toC THEN ev ELSE << >>)
                  \o (IF toI THEN inj ELSE << >>)
                  \o (IF s = c THEN after ELSE << >>)
    BY DEF Write
  <2>2. /\ toC <=> type[s] = "CONTROLLER"
        /\ toI <=> type[s] = "INJECTOR"
    BY DEF RepliesInv, Known, Listens, Roles
  <2> HIDE DEF toC, toI
  <2> DEFINE B == IF s = c THEN before ELSE << >>
             A == IF s = c THEN after ELSE << >>
  <2>b. /\ None(B) \/ One(B, Replies)
        /\ None(A) \/ One(A, Replies)
        /\ None(A) \/ (None(B) /\ type[s] = "INJECTOR")
        /\ None(B) \/ (type[s] # "free" /\ (type[s] = "INJECTOR" => None(inj)))
        /\ None(ev) \/ One(ev, kinds)
        /\ None(inj) \/ One(inj, Orders)
    <3>1. CASE s = c
      <4>1. A = after /\ B = before /\ c \in Slots
        BY <3>1
      <4> HIDE DEF A, B
      <4> QED BY <3>1, <4>1, Zenon DEF Parts
    <3>2. CASE s # c
      <4>1. None(A) /\ None(B)
        BY <3>2 DEF None
      <4> HIDE DEF A, B
      <4> QED BY <4>1, Zenon DEF Parts
    <3> QED BY <3>1, <3>2
  <2>c. out'[s] = B \o (IF toC THEN ev ELSE << >>) \o (IF toI THEN inj ELSE << >>) \o A
    BY <2>1
  <2> HIDE DEF A, B
  <2>3. CASE type[s] = "CONTROLLER"
    <3>1. out'[s] = B \o ev \o << >> \o << >>
      BY <2>b, <2>c, <2>2, <2>3 DEF None
    <3>2. CASE None(B) /\ None(ev)
      BY <3>1, <3>2 DEF None, Shaped
    <3>3. CASE One(B, Replies) /\ None(ev)
      BY <3>1, <3>3, <2>3 DEF None, One, Shaped
    <3>4. CASE None(B) /\ One(ev, kinds)
      BY <3>1, <3>4, <2>3 DEF None, One, Shaped
    <3>5. CASE One(B, Replies) /\ One(ev, kinds)
      <4>1. PICK r \in Replies, e \in kinds : B = <<r>> /\ ev = <<e>>
        BY <3>5 DEF One
      <4>2. out'[s] = <<r, e>>
        BY <3>1, <4>1, NothingMore, Zenon
      <4> QED BY <4>2, <2>3, Zenon DEF Shaped
    <3> QED BY <2>b, <3>2, <3>3, <3>4, <3>5
  <2>4. CASE type[s] = "INJECTOR"
    <3>1. out'[s] = B \o << >> \o inj \o A
      BY <2>c, <2>2, <2>4
    <3>2. CASE None(A) /\ None(inj)
      BY <3>1, <3>2, <2>4, <2>b DEF None, One, Shaped
    <3>3. CASE None(B) /\ One(A, Replies) /\ None(inj)
      BY <3>1, <3>3, <2>4 DEF None, One, Shaped
    <3>4. CASE None(B) /\ None(A) /\ One(inj, Orders)
      BY <3>1, <3>4, <2>4 DEF None, One, Shaped
    <3>5. CASE None(B) /\ One(A, Replies) /\ One(inj, Orders)
      <4>1. PICK o \in Orders, r \in Replies : inj = <<o>> /\ A = <<r>> /\ B = << >>
        BY <3>5 DEF None, One
      <4>2. out'[s] = <<o, r>>
        BY <3>1, <4>1, NothingMore, Zenon
      <4> QED BY <4>2, <2>4, Zenon DEF Shaped
    <3> QED BY <2>b, <2>4, <3>2, <3>3, <3>4, <3>5
  <2>5. CASE type[s] \notin Roles
    <3>1. out'[s] = B \o << >> \o << >> \o << >>
      BY <2>b, <2>c, <2>2, <2>5 DEF None, Roles
    <3>2. CASE None(B)
      BY <3>1, <3>2 DEF None, Shaped
    <3>3. CASE One(B, Replies) /\ type[s] # "free"
      BY <3>1, <3>3 DEF One, Shaped
    <3> QED BY <2>b, <3>2, <3>3 DEF None, One
  <2> QED BY <2>3, <2>4, <2>5 DEF Roles
<1> QED BY <1>1, <1>2, MayPush DEF clients

-----------------------------------------------------------------------------
(* The steps.                                                              *)

LEMMA InitReplies == Init => RepliesInv
<1> SUFFICES ASSUME Init PROVE RepliesInv
  OBVIOUS
<1> USE DEF Init
<1>1. Known
  BY DEF Known, Roles
<1>2. AllShaped
  BY DEF AllShaped, Shaped, None, Silence
<1> QED BY <1>1, <1>2 DEF RepliesInv

(* A step that writes nothing keeps the shape, whatever clients it knows.  *)
LEMMA SilentReplies ==
  ASSUME Known', out' = Silence
  PROVE  RepliesInv'
BY DEF RepliesInv, AllShaped, Shaped, None, Silence

LEMMA AcceptReplies ==
  ASSUME RepliesInv, NEW s \in Slots, Accept(s) \/ Disconnect(s)
  PROVE  RepliesInv'
<1>1. /\ type' = [type EXCEPT ![s] = "UNKNOWN"] \/ type' = [type EXCEPT ![s] = "free"]
      /\ authed' = authed \ {s} /\ out' = Silence
  BY DEF Accept, Disconnect
<1>2. Known'
  BY <1>1 DEF RepliesInv, Known, Roles
<1> QED BY <1>1, <1>2, SilentReplies

(* Only the telemetry follows AUTH_OK, and only to a controller.           *)
LEMMA AuthenticateReplies ==
  ASSUME RepliesInv, NEW c \in Slots, NEW role \in Roles, Authenticate(c, role),
         type[c] \in {"UNKNOWN", role}
  PROVE  RepliesInv'
<1>1. /\ type' = [type EXCEPT ![c] = role] /\ authed' = authed \cup {c}
  BY DEF Authenticate
<1>2. Known'
  BY <1>1 DEF RepliesInv, Known
<1>3. "AUTH_OK" \in Replies /\ "TELEMETRY" \in Events
  BY DEF Replies, Events
<1>4. ASSUME NEW s \in Slots
      PROVE  Shaped(type'[s], out'[s], Events)
  <2> DEFINE pushed == role = "CONTROLLER" /\ (s = c \/ Listens(s, role))
  <2>1. out'[s] = (IF s = c THEN <<"AUTH_OK">> ELSE << >>)
                  \o (IF pushed THEN <<"TELEMETRY">> ELSE << >>)
    BY DEF Authenticate
  <2>2. pushed => type'[s] = "CONTROLLER"
    BY <1>1 DEF Listens, RepliesInv, Known
  <2>3. s = c => type'[s] = role /\ role # "free"
    BY <1>1 DEF RepliesInv, Known, Roles
  <2> HIDE DEF pushed
  <2>4. CASE s # c /\ ~pushed
    BY <2>1, <2>4 DEF Shaped, None
  <2>5. CASE s # c /\ pushed
    BY <2>1, <2>2, <2>5, <1>3 DEF Shaped, One
  <2>6. CASE s = c /\ ~pushed
    BY <2>1, <2>3, <2>6, <1>3 DEF Shaped, One
  <2>7. CASE s = c /\ pushed
    <3>1. out'[s] = <<"AUTH_OK">> \o <<"TELEMETRY">>
      BY <2>1, <2>7, Zenon
    <3>2. out'[s] = <<"AUTH_OK", "TELEMETRY">>
      BY <3>1, TwoLines, Zenon
    <3> QED BY <3>2, <2>2, <2>7, <1>3, Zenon DEF Shaped
  <2> QED BY <2>4, <2>5, <2>6, <2>7
<1>5. Says("AUTH_OK")'
  <2>1. out'[c] = <<"AUTH_OK">> \o (IF role = "CONTROLLER" THEN <<"TELEMETRY">> ELSE << >>)
    BY DEF Authenticate
  <2>2. 1 \in DOMAIN out'[c] /\ out'[c][1] = "AUTH_OK"
    BY <2>1
  <2> QED BY <2>2 DEF Says
<1> QED BY <1>2, <1>4, <1>5, MayPush

LEMMA RefuseReplies ==
  ASSUME RepliesInv, NEW c \in Slots, type[c] # "free", NEW line \in Replies, Refuse(c, line)
  PROVE  RepliesInv'
<1>1. Write(c, <<line>>, << >>, << >>, << >>, << >>) /\ UNCHANGED clients
  BY DEF Refuse, Answer
<1>2. Parts(c, <<line>>, << >>, << >>, << >>, News)
  BY DEF Parts, None, One
<1> QED BY <1>1, <1>2, WriteShaped

(* A reply to a controller, then what the command announces.               *)
LEMMA ControllerReply ==
  ASSUME RepliesInv, NEW c \in Slots, type[c] = "CONTROLLER",
         NEW r \in Replies, NEW ev, NEW inj, NEW fifo,
         None(ev) \/ One(ev, News), None(inj) \/ One(inj, Orders),
         Write(c, <<r>>, ev, inj, << >>, fifo), UNCHANGED clients
  PROVE  RepliesInv'
<1>1. Parts(c, <<r>>, ev, inj, << >>, News)
  BY DEF Parts, None, One
<1> QED BY <1>1, WriteShaped

(* What an injector's line makes the server announce, then the reply.      *)
LEMMA InjectorReply ==
  ASSUME RepliesInv, NEW c \in Slots, type[c] = "INJECTOR",
         NEW ev, NEW inj, NEW fifo,
         None(ev) \/ One(ev, News), None(inj) \/ One(inj, Orders),
         Write(c, << >>, ev, inj, <<"OK">>, fifo), UNCHANGED clients
  PROVE  RepliesInv'
<1>1. Parts(c, << >>, ev, inj, <<"OK">>, News)
  BY DEF Parts, None, One, Replies
<1> QED BY <1>1, WriteShaped

(* What the server announces on its own account.                           *)
LEMMA Announcement ==
  ASSUME RepliesInv, NEW ev, NEW inj, NEW fifo,
         NEW kinds \in {News, Events}, kinds = News \/ Settled',
         None(ev) \/ One(ev, kinds), None(inj) \/ One(inj, Orders),
         Write(Nobody, << >>, ev, inj, << >>, fifo), UNCHANGED clients
  PROVE  RepliesInv'
<1>1. Parts(Nobody, << >>, ev, inj, << >>, kinds)
  BY DEF Parts, None, One
<1> QED BY <1>1, WriteShaped

(* The lines the handlers name are of their kind.                          *)
LEMMA Kinds ==
  /\ None(<< >>)
  /\ \A e \in News : One(<<e>>, News)
  /\ \A o \in Orders : One(<<o>>, Orders)
BY DEF None, One

LEMMA ControllerStep ==
  ASSUME RepliesInv, NEW c \in Slots, type[c] = "CONTROLLER", NEW l, ControllerLine(c, l)
  PROVE  RepliesInv'
<1>1. CASE Authenticate(c, "CONTROLLER")
  BY <1>1, AuthenticateReplies DEF Roles
<1>2. CASE CmdLU(c)
  <2>1. CASE state # "READY"
    <3>1. PICK line \in {"FAIL_ALREADY_LAUNCHED", "FAIL_NOT_READY"} : Refuse(c, line)
      BY <1>2, <2>1, Zenon DEF CmdLU
    <3> QED BY <3>1, RefuseReplies DEF Replies
  <2>2. CASE state = "READY"
    <3>1. /\ Write(c, <<"OK_LAUNCH">>, <<"EVENT_LAUNCH">>, <<"CMD_EVENT_LAUNCH">>, << >>,
                   <<"LAUNCH_OK">>)
          /\ UNCHANGED clients
      BY <1>2, <2>2 DEF CmdLU
    <3>2. "OK_LAUNCH" \in Replies /\ "EVENT_LAUNCH" \in News /\ "CMD_EVENT_LAUNCH" \in Orders
      BY DEF Replies, News, Events, PhaseEvents, Orders
    <3> QED BY <3>1, <3>2, Kinds, ControllerReply
  <2> QED BY <2>1, <2>2
<1>3. CASE CmdLD(c)
  <2>1. CASE \E line \in {"FAIL_NOT_FLYING", "FAIL_NOT_IN_ORBIT"} : Refuse(c, line)
    BY <2>1, RefuseReplies DEF Replies
  <2>2. CASE /\ Write(c, <<"OK_LAND">>, <<"EVENT_LAND">>, <<"CMD_EVENT_LAND">>, << >>,
                      <<"LAND">>)
             /\ UNCHANGED clients
    <3>1. "OK_LAND" \in Replies /\ "EVENT_LAND" \in News /\ "CMD_EVENT_LAND" \in Orders
      BY DEF Replies, News, Events, PhaseEvents, Orders
    <3> QED BY <2>2, <3>1, Kinds, ControllerReply
  <2> QED BY <1>3, <2>1, <2>2, Zenon DEF CmdLD
<1>4. CASE \E line \in {"DATA_ALT", "DATA_TEMP", "FAIL_UNKNOWN_CMD"} : Refuse(c, line)
  BY <1>4, RefuseReplies DEF Replies
<1>5. CASE CmdPRES(c)
  <2>1. PICK r \in {"OK_PRES_FAULT", "OK_PRES_FIX", "OK_PRES_OK"},
             ev \in {<< >>, <<"EVENT_PROBLEM">>, <<"EVENT_RESOLVED">>},
             fifo \in {<<"PROBLEM_ON">>, <<"PROBLEM_OFF">>, <<"CLEAR_ALERTS">>} :
          Write(c, <<r>>, ev, << >>, << >>, fifo)
    BY <1>5, Zenon DEF CmdPRES
  <2>2. r \in Replies /\ (None(ev) \/ One(ev, News))
    BY DEF Replies, News, Events, None, One
  <2>3. UNCHANGED clients
    BY <1>5 DEF CmdPRES
  <2> QED BY <2>1, <2>2, <2>3, Kinds, ControllerReply
<1>6. ASSUME NEW f \in Faults, CmdREP(c, f)
      PROVE  RepliesInv'
  <2>1. /\ RepairReply[f].none \in Replies /\ RepairReply[f].fixed \in Replies
        /\ RepairReply[f].event \in News /\ RepairReply[f].inj \in Orders
    BY DEF RepairReply, Faults, Replies, News, Events, Orders
  <2>2. CASE Refuse(c, RepairReply[f].none)
    BY <2>1, <2>2, RefuseReplies
  <2>3. CASE /\ Write(c, <<RepairReply[f].fixed>>, <<RepairReply[f].event>>,
                      <<RepairReply[f].inj>>, << >>, <<"PROBLEM_OFF">>)
             /\ UNCHANGED clients
    BY <2>1, <2>3, Kinds, ControllerReply
  <2> QED BY <1>6, <2>2, <2>3, Zenon DEF CmdREP
<1>7. CASE CmdMEL(c, l.val)
  <2>1. CASE Refuse(c, "FAIL_BAD_MELODY")
    BY <2>1, RefuseReplies DEF Replies
  <2>2. CASE Write(c, <<"OK_MEL">>, <<"EVENT_MEL">>, << >>, << >>, << >>) /\ UNCHANGED clients
    <3>1. "OK_MEL" \in Replies /\ "EVENT_MEL" \in News
      BY DEF Replies, News, Events
    <3> QED BY <2>2, <3>1, Kinds, ControllerReply
  <2> QED BY <1>7, <2>1, <2>2, Zenon DEF CmdMEL
<1> QED BY <1>1, <1>2, <1>3, <1>4, <1>5, <1>6, <1>7, Zenon DEF ControllerLine, Faults

(* What every SET line writes.                                             *)
LEMMA OkStep ==
  ASSUME RepliesInv, NEW c \in Slots, type[c] = "INJECTOR", NEW fifo,
         Write(c, << >>, << >>, << >>, <<"OK">>, fifo), UNCHANGED clients
  PROVE  RepliesInv'
BY Kinds, InjectorReply

LEMMA InjectorStep ==
  ASSUME RepliesInv, NEW c \in Slots, type[c] = "INJECTOR", NEW l, InjectorLine(c, l)
  PROVE  RepliesInv'
<1>1. CASE Authenticate(c, "INJECTOR")
  BY <1>1, AuthenticateReplies DEF Roles
<1>2. CASE Reset(c)
  <2>1. /\ Write(c, << >>, <<"EVENT_RESET">>, << >>, <<"OK">>,
                 <<"RESET_SIM", "CLEAR_ALERTS", "PROBLEM_OFF">>)
        /\ UNCHANGED clients
    BY <1>2 DEF Reset
  <2>2. "EVENT_RESET" \in News
    BY DEF News, Events, PhaseEvents
  <2> QED BY <2>1, <2>2, Kinds, InjectorReply
<1>3. CASE ForcedExplosion(c)
  <2>1. /\ Write(c, << >>, <<"EVENT_EXPLODED">>, <<"CMD_EVENT_EXPLODE">>, <<"OK">>,
                 <<"EXPLODE">>)
        /\ UNCHANGED clients
    BY <1>3 DEF ForcedExplosion, Explode
  <2>2. "EVENT_EXPLODED" \in News /\ "CMD_EVENT_EXPLODE" \in Orders
    BY DEF News, Events, PhaseEvents, Orders
  <2> QED BY <2>1, <2>2, Kinds, InjectorReply
<1>4. CASE \E line \in {"FAIL_BAD_FORMAT", "FAIL_UNKNOWN_CMD"} : Refuse(c, line)
  BY <1>4, RefuseReplies DEF Replies
<1>5. CASE SetAltitude(c, l.val) \/ SetSpeed(c, l.val) \/ SetFuel(c, l.val) \/ SetOther(c)
  <2>1. Write(c, << >>, << >>, << >>, <<"OK">>, <<"SET">>) /\ UNCHANGED clients
    BY <1>5 DEF SetAltitude, SetSpeed, SetFuel, SetOther
  <2> QED BY <2>1, OkStep
<1>6. ASSUME NEW f \in Faults, SetMonitored(c, f, l.val)
      PROVE  RepliesInv'
  <2>1. CASE Write(c, << >>, <<FaultLine[f].event>>, << >>, <<"OK">>, FaultLine[f].fifo)
    <3>1. FaultLine[f].event \in News
      BY DEF FaultLine, Faults, News, Events
    <3>2. UNCHANGED clients
      BY <1>6 DEF SetMonitored
    <3> QED BY <2>1, <3>1, <3>2, Kinds, InjectorReply
  <2>2. CASE Write(c, << >>, << >>, << >>, <<"OK">>, FaultLine[f].quiet)
    <3>1. UNCHANGED clients
      BY <1>6 DEF SetMonitored
    <3> QED BY <2>2, <3>1, OkStep
  <2> QED BY <1>6, <2>1, <2>2, Zenon DEF SetMonitored
<1> QED BY <1>1, <1>2, <1>3, <1>4, <1>5, <1>6, Zenon DEF InjectorLine, Faults

LEMMA UnknownStep ==
  ASSUME RepliesInv, NEW c \in Slots, type[c] = "UNKNOWN", NEW l, UnknownLine(c, l)
  PROVE  RepliesInv'
<1>1. CASE Authenticate(c, "CONTROLLER") \/ Authenticate(c, "INJECTOR")
  BY <1>1, AuthenticateReplies DEF Roles
<1>2. CASE Refuse(c, "AUTH_FAIL")
  BY <1>2, RefuseReplies DEF Replies
<1> QED BY <1>1, <1>2 DEF UnknownLine

LEMMA CheckReplies ==
  ASSUME RepliesInv, Check
  PROVE  RepliesInv'
<1>1. CASE /\ Write(Nobody, << >>, <<"EVENT_EXPLODED">>, <<"CMD_EVENT_EXPLODE">>, << >>,
                    <<"EXPLODE">>)
           /\ UNCHANGED clients
  <2>1. "EVENT_EXPLODED" \in News /\ "CMD_EVENT_EXPLODE" \in Orders
    BY DEF News, Events, PhaseEvents, Orders
  <2> QED BY <1>1, <2>1, Kinds, Announcement
<1>2. CASE /\ Write(Nobody, << >>, <<"EVENT_LANDED">>, <<"CMD_EVENT_RESUME">>, << >>,
                    <<"RESUME">>)
           /\ UNCHANGED clients
  <2>1. "EVENT_LANDED" \in News /\ "CMD_EVENT_RESUME" \in Orders
    BY DEF News, Events, PhaseEvents, Orders
  <2> QED BY <1>2, <2>1, Kinds, Announcement
<1>3. CASE out' = Silence /\ UNCHANGED clients
  <2>1. Known'
    BY <1>3 DEF RepliesInv, Known, clients
  <2> QED BY <1>3, <2>1, SilentReplies
<1>4. CASE (\E f \in Faults : FaultExplodes(f)) \/ FuelExplodes
  BY <1>1, <1>4 DEF FaultExplodes, FuelExplodes, Explode
<1>5. CASE Landed
  BY <1>2, <1>5 DEF Landed
<1>6. CASE NoTransition
  BY <1>3, <1>6 DEF NoTransition
<1> QED BY <1>4, <1>5, <1>6 DEF Check

(* The checks of the turn have run: the periodic telemetry is settled.     *)
LEMMA PushReplies ==
  ASSUME RepliesInv, SettledBeforePush, Push
  PROVE  RepliesInv'
<1>1. UNCHANGED clients /\ Settled'
  BY DEF Push, SettledBeforePush, Settled, telemetry
<1>2. CASE Write(Nobody, << >>, <<"TELEMETRY">>, << >>, << >>, << >>)
  <2>1. One(<<"TELEMETRY">>, Events)
    BY DEF Events, One
  <2> QED BY <1>1, <1>2, <2>1, Kinds, Announcement
<1>3. CASE out' = Silence
  <2>1. Known'
    BY <1>1 DEF RepliesInv, Known, clients
  <2> QED BY <1>3, <2>1, SilentReplies
<1> QED BY <1>2, <1>3 DEF Push

LEMMA RestartReplies ==
  ASSUME Restart
  PROVE  RepliesInv'
<1>1. Known'
  BY DEF Restart, Known, Roles
<1> QED BY <1>1, SilentReplies DEF Restart

LEMMA NextReplies == RepliesInv /\ SettledBeforePush /\ [Next]_vars => RepliesInv'
<1> SUFFICES ASSUME RepliesInv, SettledBeforePush, [Next]_vars PROVE RepliesInv'
  OBVIOUS
<1>1. ASSUME NEW s \in Slots, Accept(s) \/ Disconnect(s)
      PROVE  RepliesInv'
  BY <1>1, AcceptReplies
<1>2. ASSUME NEW c \in Slots, NEW l \in Lines, Dispatch(c, l)
      PROVE  RepliesInv'
  BY <1>2, UnknownStep, ControllerStep, InjectorStep DEF Dispatch
<1>3. CASE Tick \/ UNCHANGED vars
  <2>1. UNCHANGED <<clients, out, state, altitude, fuel>>
    BY <1>3 DEF Tick, writes, telemetry, vars
  <2>2. Pushable' = Pushable
    BY <2>1 DEF Pushable, Settled, Says
  <2> QED BY <2>1, <2>2 DEF RepliesInv, Known, AllShaped, clients
<1> QED BY <1>1, <1>2, <1>3, CheckReplies, PushReplies, RestartReplies DEF Next

(* In every step a client reads at most one reply and one push: the reply  *)
(* first if it is a controller, last if it is an injector, no push if it   *)
(* has not identified itself, and no telemetry that is not settled but in  *)
(* a step that greets (send_to_client, broadcast_to_controllers, *)
(* broadcast_to_injectors and the handlers of satellite_server.c).         *)
THEOREM RepliesInvariance == Spec => []RepliesInv
<1>1. RepliesInv /\ SettledBeforePush /\ [Next]_vars => RepliesInv'
  BY NextReplies
<1>2. IInv => SettledBeforePush
  BY DEF IInv
<1> QED BY InitReplies, Invariance, <1>1, <1>2, PTL DEF Spec

(* Pushes reach authenticated clients of the right role only, and the      *)
(* AUTH_FAIL branches of the two handlers are dead.                        *)
THEOREM PushesToTheRole == Spec => []Audience
BY RepliesInvariance, RepliesAudience, PTL

(* The reply to a controller precedes every push of its step, the reply to *)
(* an injector follows every order.                                        *)
THEOREM RepliesInPlace == Spec => []ReplyDiscipline
BY RepliesInvariance, InPlaceReplyDiscipline, PTL

(* A telemetry line shows a rocket out of fuel in flight, or on the ground *)
(* in a descent, only if an AUTH CONTROLLER pushed it: push_telemetry runs *)
(* after check_state_transitions, but for the call that follows AUTH_OK.   *)
THEOREM PushesAreSettled == Spec => []TelemetryIsSettled
BY RepliesInvariance, ShapedTelemetry, PTL
=============================================================================
