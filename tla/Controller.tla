------------------------------ MODULE Controller ------------------------------
(***************************************************************************)
(* The JoyPi controller (src/JoyPi/joypi_ctrl_*.c): one loop that          *)
(* reconnects, polls the satellite's pushes, scans the keys and reads the  *)
(* launch requests of the dashboard, and blocks in send_cmd_recv for every *)
(* command.  The GPIO build is modelled (USE_WIRINGPI).                    *)
(*                                                                         *)
(* The satellite is MissionPhase, which module Satellite refines, plus its *)
(* pressure cycle.  Lines arrive whole and in order: cutting the stream    *)
(* into lines is module Link's subject.  wire holds what is in transit and *)
(* what g_push_buf keeps.  The throttle of reconnections and the time-out  *)
(* of a command may strike at any turn.  CMD ALT, TEMP and MEL only drive  *)
(* displays and are one command, CMD_ASK; LEDs, buzzer and segments are    *)
(* left out, and so is the steering of scan_buttons_and_handle.            *)
(***************************************************************************)
EXTENDS Integers, Sequences

CONSTANTS
  Faults,      \* the faults of the satellite (1: temperature, 2: stress)
  Commands,    \* the commands of BT2 to BT8 that are pressed
  PwdLength,   \* digits that confirm by themselves (3 in the source)
  PwdLimit,    \* seconds MODE_PASSWORD may last (30 in the source)
  Telemetered, \* bound of the exploration: the kinds of telemetry lines
  WireMax      \* bound of the exploration: what is in transit when more is sent

ASSUME ControllerAssumption ==
  /\ Faults \subseteq {1, 2}
  /\ Commands \subseteq {"CMD_LD", "CMD_PRES", "CMD_REP1", "CMD_REP2", "CMD_ASK"}
  /\ PwdLength \in Nat \ {0} /\ PwdLimit \in Nat /\ WireMax \in Nat
  /\ Telemetered \subseteq {"TELEMETRY_REST", "TELEMETRY_STILL", "TELEMETRY_MOVING"}

Off      == -1                            \* pwd_start = 0
Pressure == 0                             \* the generic fault of CMD PRES
Problem  == [f \in {0, 1, 2} |->
  IF f = 0 THEN "EVENT_PROBLEM" ELSE IF f = 1 THEN "EVENT_PROBLEM1" ELSE "EVENT_PROBLEM2"]
Resolved == [f \in {0, 1, 2} |->
  IF f = 0 THEN "EVENT_RESOLVED" ELSE IF f = 1 THEN "EVENT_RESOLVED1" ELSE "EVENT_RESOLVED2"]
Repair   == [f \in {1, 2} |-> IF f = 1 THEN "CMD_REP1" ELSE "CMD_REP2"]

VARIABLES
  pc,           \* "connect", "poll", "scan", "keys", "pipe": the stage of the
                \* loop; "await": in send_cmd_recv
  back,         \* the stage send_cmd_recv returns to
  asked,        \* the command it waits for
  conn,         \* "down": sat_fd < 0; "up"; "cut": the peer is gone, unnoticed
  mode,         \* "NORMAL" or "PASSWORD"
  typed,        \* password_len: the digits in password_buf
  pwd_start,    \* time elapsed since the first scan in PASSWORD, or Off
  launch_in_progress, explosion_notified,
  flags,        \* fault_active (0), fault1_active (1), fault2_active (2)
  moving,       \* last_altitude > 0 or last_speed > 0
  fifo,         \* lines the current step writes for the dashboard
  phase, open, pressure,  \* the satellite
  wire,         \* lines on their way to the controller
  request,      \* command on its way to the satellite, or "none"
  since,        \* history: time elapsed since BT1 entered PASSWORD, or Off
  entered,      \* history: those of them entered since
  lost,         \* history: the link broke since launch_in_progress was set
  announced     \* history: faults announced on this session and still open

keypad  == <<mode, typed, pwd_start, since, entered>>
display == <<explosion_notified, flags, moving>>
mission == <<phase, open, pressure>>
link    == <<conn, wire, request, lost, announced>>
stage   == <<pc, back, asked>>
vars    == <<stage, keypad, launch_in_progress, display, fifo, mission, link>>

Mission == INSTANCE MissionPhase

-----------------------------------------------------------------------------
Init ==
  /\ pc = "connect" /\ back = "connect" /\ asked = "none"
  /\ conn = "down"
  /\ mode = "NORMAL" /\ typed = 0 /\ pwd_start = Off
  /\ launch_in_progress = FALSE /\ explosion_notified = FALSE
  /\ flags = {} /\ moving = FALSE
  /\ fifo = << >>
  /\ Mission!Init /\ pressure = "nominal"
  /\ wire = << >> /\ request = "none"
  /\ since = Off /\ entered = 0 /\ lost = FALSE /\ announced = {}

(* close(sat_fd), sat_fd = -1, authed = false: kept are the lines already  *)
(* in g_push_buf.                                                          *)
CloseKeeping(lines) ==
  /\ conn' = "down" /\ wire' = lines /\ lost' = launch_in_progress /\ announced' = {}
  /\ UNCHANGED request

Buffered == {SubSeq(wire, 1, k) : k \in 0..Len(wire)}

-----------------------------------------------------------------------------
(* try_reconnect: too early or refused by connect(); refused or unanswered *)
(* by auth_satellite, which leaves MODE_PASSWORD; or connected.  The first *)
(* telemetry line may be lost in the read of AUTH_OK.                      *)
Skip ==
  /\ pc = "connect" /\ pc' = "poll" /\ fifo' = << >>
  /\ UNCHANGED <<back, asked, keypad, launch_in_progress, display, mission, link>>

AuthFails ==
  /\ pc = "connect" /\ conn = "down"
  /\ pc' = "poll" /\ mode' = "NORMAL" /\ since' = Off /\ fifo' = << >>
  /\ UNCHANGED <<back, asked, typed, pwd_start, entered, launch_in_progress, display,
                 mission, link>>

Telemetry ==
  Telemetered \cap
    (IF phase = "READY" THEN {"TELEMETRY_REST"} ELSE {"TELEMETRY_STILL", "TELEMETRY_MOVING"})

Connect ==
  /\ pc = "connect" /\ conn = "down"
  /\ pc' = "poll" /\ conn' = "up" /\ fifo' = << >>
  /\ \/ UNCHANGED wire
     \/ Len(wire) < WireMax /\ \E t \in Telemetry : wire' = Append(wire, t)
  /\ UNCHANGED <<back, asked, keypad, launch_in_progress, display, mission,
                 request, lost, announced>>

-----------------------------------------------------------------------------
(* Pushes.                                                                 *)

Pushes == {"TELEMETRY_REST", "TELEMETRY_STILL", "TELEMETRY_MOVING", "EVENT_LAUNCH",
           "EVENT_LAND", "EVENT_LANDED", "EVENT_RESET", "EVENT_EXPLODED"}
          \cup {Problem[f] : f \in {0, 1, 2}} \cup {Resolved[f] : f \in {0, 1, 2}}

(* handle_telemetry: at rest after having moved, the dashboard is reset.   *)
HandleTelemetry(line) ==
  /\ line \in {"TELEMETRY_REST", "TELEMETRY_STILL", "TELEMETRY_MOVING"}
  /\ moving' = (line = "TELEMETRY_MOVING")
  /\ fifo' = IF line = "TELEMETRY_REST" /\ moving THEN <<"SET", "RESET_SIM">> ELSE <<"SET">>
  /\ UNCHANGED <<launch_in_progress, explosion_notified, flags>>

(* handle_event.                                                           *)
HandleEvent(line) ==
  /\ \/ /\ line = "EVENT_LAUNCH" /\ fifo' = <<"LAUNCH_OK">>
        /\ launch_in_progress' = FALSE /\ explosion_notified' = FALSE /\ UNCHANGED flags
     \/ /\ line = "EVENT_LAND" /\ fifo' = <<"LAND">>
        /\ UNCHANGED <<launch_in_progress, explosion_notified, flags>>
     \/ /\ line = "EVENT_LANDED" /\ fifo' = <<"SIM_FLIGHT OFF">>
        /\ launch_in_progress' = FALSE /\ explosion_notified' = FALSE /\ UNCHANGED flags
     \/ /\ line = "EVENT_RESET" /\ fifo' = <<"PROBLEM OFF", "RESET_SIM", "CLEAR_ALERTS">>
        /\ launch_in_progress' = FALSE /\ explosion_notified' = FALSE /\ flags' = {}
     \/ /\ line = "EVENT_EXPLODED" /\ explosion_notified
        /\ fifo' = << >>
        /\ UNCHANGED <<launch_in_progress, explosion_notified, flags>>
     \/ /\ line = "EVENT_EXPLODED" /\ ~explosion_notified
        /\ fifo' = <<"EXPLODE">>
        /\ launch_in_progress' = FALSE /\ explosion_notified' = TRUE /\ UNCHANGED flags
     \/ \E f \in {0, 1, 2} :
          \/ /\ line = Problem[f] /\ flags' = flags \cup {f}
             /\ fifo' = IF f = Pressure THEN <<"PROBLEM ON">>
                        ELSE IF f = 1 THEN <<"FAULT1">> ELSE <<"FAULT2">>
             /\ UNCHANGED <<launch_in_progress, explosion_notified>>
          \/ /\ line = Resolved[f] /\ flags' = flags \ {f}
             /\ fifo' = IF f = Pressure THEN <<"PROBLEM OFF">>
                        ELSE IF f = 1 THEN <<"FAULT1_OFF">> ELSE <<"FAULT2_OFF">>
             /\ UNCHANGED <<launch_in_progress, explosion_notified>>
  /\ UNCHANGED moving

HandlePush ==
  /\ wire # << >> /\ Head(wire) \in Pushes
  /\ HandleTelemetry(Head(wire)) \/ HandleEvent(Head(wire))
  /\ wire' = Tail(wire) /\ lost' = (lost /\ launch_in_progress')
  /\ UNCHANGED <<stage, keypad, mission, conn, request, announced>>

(* poll_satellite_push: some of the lines that are there, or the end of    *)
(* the connection.                                                         *)
PollPush == pc = "poll" /\ conn # "down" /\ HandlePush

PollLost ==
  /\ pc = "poll" /\ conn = "cut" /\ pc' = "scan"
  /\ \E lines \in Buffered : CloseKeeping(lines)
  /\ fifo' = << >>
  /\ UNCHANGED <<back, asked, keypad, launch_in_progress, display, mission>>

PollDone ==
  /\ pc = "poll" /\ pc' = "scan" /\ fifo' = << >>
  /\ UNCHANGED <<back, asked, keypad, launch_in_progress, display, mission, link>>

-----------------------------------------------------------------------------
(* send_cmd_recv.                                                          *)

(* Called for cmd at a stage that goes on with next: it fails at once      *)
(* without a connection, closes one it cannot write to, or waits.          *)
SendCmd(cmd, next) ==
  \/ /\ conn = "down" /\ pc' = next
     /\ UNCHANGED <<back, asked, conn, wire, request, lost, announced>>
  \/ /\ conn = "cut" /\ pc' = next
     /\ \E lines \in Buffered : CloseKeeping(lines)
     /\ UNCHANGED <<back, asked>>
  \/ /\ conn # "down"
     /\ pc' = "await" /\ back' = next /\ asked' = cmd /\ request' = cmd
     /\ lost' = (IF cmd = "CMD_LU" THEN conn = "cut" ELSE lost)
     /\ UNCHANGED <<conn, wire, announced>>

(* launch_in_progress is set before the call, and reset when it fails.     *)
SendLaunch(next) == SendCmd("CMD_LU", next) /\ launch_in_progress' = (pc' = "await")

AwaitPush == pc = "await" /\ HandlePush

(* Wrong variant of AnsweredLaunch: FAIL NOT_READY is not handled.         *)
AnsweredLaunchKept(reply) ==
  /\ asked = "CMD_LU" /\ fifo' = << >>
  /\ UNCHANGED <<flags, launch_in_progress>>

(* What the callers do with a reply: handle_response_* and, for a launch   *)
(* asked by the dashboard, poll_auth_pipe.                                 *)
AnsweredLaunch(reply) ==
  /\ asked = "CMD_LU" /\ fifo' = << >>
  /\ launch_in_progress' = (reply = "OK_LAUNCH" /\ launch_in_progress)
  /\ UNCHANGED flags

AnsweredLand(reply) ==
  /\ asked = "CMD_LD" /\ fifo' = IF reply = "OK_LAND" THEN <<"LAND">> ELSE << >>
  /\ UNCHANGED <<launch_in_progress, flags>>

AnsweredPres(reply) ==
  /\ asked = "CMD_PRES" /\ UNCHANGED launch_in_progress
  /\ \/ /\ reply = "OK_PRES_FAULT" /\ flags' = flags \cup {Pressure}
        /\ fifo' = <<"PROBLEM ON">>
     \/ /\ reply = "OK_PRES_FIX" /\ flags' = flags \ {Pressure}
        /\ fifo' = <<"PROBLEM OFF", "CLEAR_ALERTS">>
     \/ /\ reply = "OK_PRES_OK" /\ flags' = flags \ {Pressure}
        /\ fifo' = <<"CLEAR_ALERTS">>

(* Wrong variants of AnsweredRepair: the other faults are not looked at,   *)
(* or are forgotten.                                                       *)
AnsweredRepairAlone(reply) ==
  \E f \in {1, 2} :
    /\ asked = Repair[f] /\ UNCHANGED launch_in_progress
    /\ \/ reply = "OK_REP_FIX" /\ flags' = flags \ {f} /\ fifo' = <<"CLEAR_ALERTS">>
       \/ reply = "OK_REP_NONE" /\ fifo' = << >> /\ UNCHANGED flags

AnsweredRepairAll(reply) ==
  \E f \in {1, 2} :
    /\ asked = Repair[f] /\ UNCHANGED launch_in_progress
    /\ \/ reply = "OK_REP_FIX" /\ flags' = {} /\ fifo' = <<"CLEAR_ALERTS">>
       \/ reply = "OK_REP_NONE" /\ fifo' = << >> /\ UNCHANGED flags

(* The alerts are cleared only when no other fault is known.               *)
AnsweredRepair(reply) ==
  \E f \in {1, 2} :
    /\ asked = Repair[f] /\ UNCHANGED launch_in_progress
    /\ \/ /\ reply = "OK_REP_FIX" /\ flags' = flags \ {f}
          /\ fifo' = IF flags \subseteq {f} THEN <<"CLEAR_ALERTS">> ELSE << >>
       \/ reply = "OK_REP_NONE" /\ fifo' = << >> /\ UNCHANGED flags

AnsweredAsk(reply) == asked = "CMD_ASK" /\ fifo' = << >> /\ UNCHANGED <<launch_in_progress, flags>>

AwaitReply ==
  /\ pc = "await" /\ wire # << >> /\ Head(wire) \notin Pushes
  /\ \/ AnsweredLaunch(Head(wire)) \/ AnsweredLand(Head(wire)) \/ AnsweredPres(Head(wire))
     \/ AnsweredRepair(Head(wire)) \/ AnsweredAsk(Head(wire))
  /\ wire' = Tail(wire) /\ pc' = back /\ asked' = "none" /\ back' = "connect"
  /\ lost' = (lost /\ launch_in_progress')
  /\ UNCHANGED <<keypad, explosion_notified, moving, mission, conn, request, announced>>

(* Time-out or end of the connection, all complete lines being handled.    *)
AwaitFails ==
  /\ pc = "await" /\ pc' = back /\ asked' = "none" /\ back' = "connect"
  /\ CloseKeeping(<< >>)
  /\ launch_in_progress' = (asked # "CMD_LU" /\ launch_in_progress)
  /\ fifo' = << >>
  /\ UNCHANGED <<keypad, display, mission>>

-----------------------------------------------------------------------------
(* scan_buttons_and_handle in MODE_PASSWORD, where only the infrared       *)
(* remote is read.                                                         *)

PasswordTimeout ==
  /\ pc = "scan" /\ mode = "PASSWORD" /\ pwd_start > PwdLimit
  /\ mode' = "NORMAL" /\ pwd_start' = Off /\ since' = Off
  /\ pc' = "pipe" /\ fifo' = << >>
  /\ UNCHANGED <<back, asked, typed, entered, launch_in_progress, display, mission, link>>

(* Wrong variant of Clocked: every scan starts the clock.                  *)
ClockedAnew == pwd_start' = 0

(* The clock starts at the first scan that finds it stopped.               *)
Clocked == pwd_start' = IF pwd_start = Off THEN 0 ELSE pwd_start

Scanning == pc = "scan" /\ mode = "PASSWORD" /\ pwd_start <= PwdLimit /\ Clocked

NoKey ==
  /\ Scanning /\ pc' = "pipe" /\ fifo' = << >>
  /\ UNCHANGED <<back, asked, mode, typed, since, entered, launch_in_progress, display,
                 mission, link>>

(* password_confirm: all the digits may be the password; a wrong one, or a   *)
(* launch already in progress, leaves the mode as it is.                   *)
Confirm(digits, echo) ==
  /\ typed' = 0 /\ entered' = 0
  /\ fifo' = Append(echo, "PASSRESET")
  /\ \/ /\ digits = PwdLength /\ ~launch_in_progress
        /\ mode' = "NORMAL" /\ since' = Off /\ explosion_notified' = FALSE
        /\ SendLaunch("pipe")
     \/ /\ pc' = "pipe"
        /\ UNCHANGED <<back, asked, mode, since, explosion_notified, launch_in_progress, link>>

(* Wrong variant of Digit: the last digit does not confirm.                *)
DigitUnconfirmed ==
  /\ Scanning
  /\ typed' = typed + 1 /\ entered' = entered + 1
  /\ fifo' = <<"PASSCHAR">> /\ pc' = "pipe"
  /\ UNCHANGED <<back, asked, mode, since, launch_in_progress, explosion_notified, link>>
  /\ UNCHANGED <<flags, moving, mission>>

(* A digit key; the last digit confirms.                                    *)
Digit ==
  /\ Scanning
  /\ \/ /\ typed < PwdLength - 1
        /\ typed' = typed + 1 /\ entered' = entered + 1
        /\ fifo' = <<"PASSCHAR">> /\ pc' = "pipe"
        /\ UNCHANGED <<back, asked, mode, since, launch_in_progress, explosion_notified, link>>
     \/ typed = PwdLength - 1 /\ Confirm(PwdLength, <<"PASSCHAR">>)
  /\ UNCHANGED <<flags, moving, mission>>

ConfirmKey == Scanning /\ Confirm(typed, << >>) /\ UNCHANGED <<flags, moving, mission>>

Backspace ==
  /\ Scanning /\ pc' = "pipe"
  /\ \/ /\ typed > 0 /\ typed' = typed - 1
        /\ entered' = IF entered > 0 THEN entered - 1 ELSE 0
        /\ fifo' = <<"PASSBACK">> /\ UNCHANGED <<mode, since>>
     \/ /\ typed = 0 /\ UNCHANGED <<typed, entered>>
        /\ mode' = "NORMAL" /\ since' = Off /\ fifo' = <<"PASSRESET">>
  /\ UNCHANGED <<back, asked, launch_in_progress, display, mission, link>>

-----------------------------------------------------------------------------
(* scan_buttons_and_handle in MODE_NORMAL: the keys newly pressed, one     *)
(* after the other.  After BT1 the others are ignored.                     *)

ScanNormal ==
  /\ pc = "scan" /\ mode = "NORMAL" /\ pc' = "keys" /\ fifo' = << >>
  /\ UNCHANGED <<back, asked, keypad, launch_in_progress, display, mission, link>>

(* Wrong variant of LaunchKey: password_reset is not called.               *)
LaunchKeyKeepsBuffer ==
  /\ pc = "keys" /\ pc' = "pipe"
  /\ mode' = "PASSWORD" /\ since' = 0 /\ entered' = 0
  /\ explosion_notified' = FALSE
  /\ fifo' = <<"PASSRESET", "LAUNCH">>
  /\ UNCHANGED <<back, asked, typed, pwd_start, launch_in_progress, flags, moving, mission, link>>

LaunchKey ==
  /\ pc = "keys" /\ pc' = "pipe"
  /\ mode' = "PASSWORD" /\ since' = 0 /\ typed' = 0 /\ entered' = 0
  /\ explosion_notified' = FALSE
  /\ fifo' = <<"PASSRESET", "LAUNCH">>
  /\ UNCHANGED <<back, asked, pwd_start, launch_in_progress, flags, moving, mission, link>>

Button(cmd) ==
  /\ pc = "keys" /\ SendCmd(cmd, "keys") /\ fifo' = << >>
  /\ UNCHANGED <<keypad, launch_in_progress, display, mission>>

KeysDone ==
  /\ pc = "keys" /\ pc' = "pipe" /\ fifo' = << >>
  /\ UNCHANGED <<back, asked, keypad, launch_in_progress, display, mission, link>>

-----------------------------------------------------------------------------
(* poll_auth_pipe: nothing, or the dashboard's LAUNCH_AUTH_OK, which is    *)
(* read and forgotten without a connection or during a launch.             *)

PipeDone ==
  /\ pc = "pipe" /\ pc' = "connect" /\ fifo' = << >>
  /\ UNCHANGED <<back, asked, keypad, launch_in_progress, display, mission, link>>

KeyboardLaunch ==
  /\ pc = "pipe" /\ conn # "down" /\ ~launch_in_progress
  /\ mode' = "NORMAL" /\ since' = Off /\ fifo' = << >>
  /\ SendLaunch("connect")
  /\ UNCHANGED <<typed, pwd_start, entered, display, mission>>

-----------------------------------------------------------------------------
(* The satellite.  What it writes reaches the controller if it is there.   *)

Opening(lines)  == {f \in {0, 1, 2} : Problem[f] \in lines}
Closing(lines) ==
  IF lines \cap {"EVENT_LAUNCH", "EVENT_RESET"} # {} THEN {0, 1, 2}
  ELSE {f \in {0, 1, 2} : Resolved[f] \in lines}

Sends(lines) ==
  LET said == {lines[i] : i \in DOMAIN lines} IN
  /\ IF conn = "up"
     THEN /\ lines = << >> \/ Len(wire) < WireMax
          /\ wire' = wire \o lines
          /\ announced' = (announced \ Closing(said)) \cup Opening(said)
     ELSE UNCHANGED <<wire, announced>>
  /\ fifo' = << >>
  /\ UNCHANGED <<conn, lost, stage, keypad, launch_in_progress, display>>

(* The reply goes to the command awaited; one whose connection was closed  *)
(* may still be carried out.                                               *)
Replies(reply, events) ==
  /\ request' = "none"
  /\ Sends((IF pc = "await" THEN <<reply>> ELSE << >>) \o events)

DoesLaunch ==
  /\ request = "CMD_LU"
  /\ \/ /\ Mission!Launch /\ pressure' = "nominal"
        /\ Replies("OK_LAUNCH", <<"EVENT_LAUNCH">>)
     \/ /\ phase # "READY" /\ UNCHANGED mission
        /\ Replies(IF phase = "FLYING" THEN "FAIL_ALREADY_LAUNCHED" ELSE "FAIL_NOT_READY", << >>)

DoesLand ==
  /\ request = "CMD_LD" /\ UNCHANGED pressure
  /\ \/ Mission!Land /\ Replies("OK_LAND", <<"EVENT_LAND">>)
     \/ UNCHANGED <<phase, open>> /\ Replies("FAIL", << >>)

DoesPres ==
  /\ request = "CMD_PRES" /\ UNCHANGED <<phase, open>>
  /\ \/ /\ pressure = "nominal" /\ pressure' = "fault"
        /\ Replies("OK_PRES_FAULT", <<Problem[Pressure]>>)
     \/ /\ pressure = "fault" /\ pressure' = "corrected"
        /\ Replies("OK_PRES_FIX", <<Resolved[Pressure]>>)
     \/ /\ pressure = "corrected" /\ pressure' = "nominal"
        /\ Replies("OK_PRES_OK", << >>)

DoesRepair ==
  \E f \in {1, 2} :
    /\ request = Repair[f] /\ UNCHANGED <<phase, pressure>>
    /\ \/ f \in open /\ open' = open \ {f} /\ Replies("OK_REP_FIX", <<Resolved[f]>>)
       \/ f \notin open /\ UNCHANGED open /\ Replies("OK_REP_NONE", << >>)

DoesAsk == request = "CMD_ASK" /\ UNCHANGED mission /\ Replies("DATA", << >>)

Drops == request # "none" /\ pc # "await" /\ UNCHANGED mission /\ Replies("none", << >>)

SatelliteObserves ==
  /\ Mission!Observe /\ UNCHANGED <<pressure, request>>
  /\ open' \subseteq Faults
  /\ IF open' = open THEN Sends(<< >>)
     ELSE \E f \in open' \ open : Sends(<<Problem[f]>>)

SatelliteLands == Mission!Touchdown /\ UNCHANGED <<pressure, request>> /\ Sends(<<"EVENT_LANDED">>)

SatelliteExplodes ==
  Mission!Explode /\ UNCHANGED <<pressure, request>> /\ Sends(<<"EVENT_EXPLODED">>)

SatelliteResets ==
  /\ Mission!Reset /\ pressure' = "nominal" /\ UNCHANGED request
  /\ Sends(<<"EVENT_RESET">>)

SatelliteTelemetry ==
  UNCHANGED <<mission, request>> /\ conn = "up" /\ \E t \in Telemetry : Sends(<<t>>)

(* The connection breaks, alone or because the satellite restarts; part of *)
(* what was sent still arrives.                                            *)
Cut ==
  /\ conn = "up" /\ conn' = "cut"
  /\ \E lines \in Buffered : wire' = lines
  /\ lost' = launch_in_progress /\ announced' = {}
  /\ \/ UNCHANGED <<mission, request>>
     \/ Mission!Reset /\ pressure' = "nominal" /\ request' = "none"
  /\ fifo' = << >>
  /\ UNCHANGED <<stage, keypad, launch_in_progress, display>>

(* A second passes; elapsed times stop where they tell nothing more.       *)
Later(t) == IF t \in 0..PwdLimit THEN t + 1 ELSE t

Tick ==
  /\ pwd_start' = Later(pwd_start) /\ since' = Later(since)
  /\ <<pwd_start, since>>' # <<pwd_start, since>>
  /\ fifo' = << >>
  /\ UNCHANGED <<stage, mode, typed, entered, launch_in_progress, display, mission, link>>

-----------------------------------------------------------------------------
Satellite ==
  \/ DoesLaunch \/ DoesLand \/ DoesPres \/ DoesRepair \/ DoesAsk \/ Drops
  \/ SatelliteObserves \/ SatelliteLands \/ SatelliteExplodes \/ SatelliteResets
  \/ SatelliteTelemetry \/ Cut

Next ==
  \/ Skip \/ AuthFails \/ Connect
  \/ PollPush \/ PollLost \/ PollDone
  \/ AwaitPush \/ AwaitReply \/ AwaitFails
  \/ PasswordTimeout \/ NoKey \/ ConfirmKey \/ Backspace
  \/ Digit
  \/ ScanNormal \/ LaunchKey \/ KeysDone
  \/ \E cmd \in Commands : Button(cmd)
  \/ PipeDone \/ KeyboardLaunch
  \/ Satellite
  \/ Tick

Spec == Init /\ [][Next]_vars

(* Every stage of the loop ends, poll because it reads once, keys because  *)
(* there are eight, await because of its time-out; time passes.            *)
FairSpec ==
  /\ Spec
  /\ WF_vars(Skip) /\ WF_vars(PollDone) /\ WF_vars(KeysDone) /\ WF_vars(PipeDone)
  /\ WF_vars(ScanNormal) /\ WF_vars(PasswordTimeout \/ NoKey) /\ WF_vars(AwaitFails)
  /\ WF_vars(Tick)

(* Moreover the network delivers what is in transit, a broken connection   *)
(* is noticed, and the satellite accepts a new one after it.               *)
DeliveringSpec ==
  FairSpec /\ SF_vars(PollPush) /\ SF_vars(PollLost) /\ SF_vars(Connect)

-----------------------------------------------------------------------------
(* Properties.                                                             *)

Lines == Pushes \cup {"OK_LAUNCH", "FAIL_ALREADY_LAUNCHED", "FAIL_NOT_READY", "OK_LAND",
                      "FAIL", "OK_PRES_FAULT", "OK_PRES_FIX", "OK_PRES_OK", "OK_REP_FIX",
                      "OK_REP_NONE", "DATA"}

(* Types; the password buffer is never full between two keys.              *)
TypeOK ==
  /\ pc \in {"connect", "poll", "scan", "keys", "pipe", "await"}
  /\ back \in {"connect", "keys", "pipe"}
  /\ asked \in Commands \cup {"CMD_LU", "none"}
  /\ request \in Commands \cup {"CMD_LU", "none"}
  /\ conn \in {"down", "up", "cut"} /\ mode \in {"NORMAL", "PASSWORD"}
  /\ typed \in 0..(PwdLength - 1) /\ entered \in 0..(PwdLength - 1)
  /\ pwd_start \in Off..(PwdLimit + 1) /\ since \in Off..(PwdLimit + 1)
  /\ launch_in_progress \in BOOLEAN /\ explosion_notified \in BOOLEAN
  /\ flags \subseteq {0, 1, 2} /\ moving \in BOOLEAN
  /\ phase \in {"READY", "FLYING", "EMERGENCY", "EXPLODED"} /\ open \subseteq Faults
  /\ pressure \in {"nominal", "fault", "corrected"}
  /\ \A i \in DOMAIN wire : wire[i] \in Lines
  /\ lost \in BOOLEAN /\ announced \subseteq {0, 1, 2}

Coming(line) == \E i \in DOMAIN wire : wire[i] = line

(* A launch is "in progress" only as long as its command is unanswered or  *)
(* an event that ends it is on its way, unless the link broke since.       *)
LaunchPending ==
  launch_in_progress /\ ~lost =>
    \/ pc = "await" /\ asked = "CMD_LU"
    \/ \E e \in {"EVENT_LAUNCH", "EVENT_LANDED", "EVENT_RESET", "EVENT_EXPLODED"} : Coming(e)

(* Every fault announced on this session and still open is flagged, or its *)
(* announcement is still to be handled, although a repair is known twice,  *)
(* from the reply and from the event, and other faults come between.       *)
FaultsFlagged == \A f \in announced : f \in flags \/ Coming(Problem[f])

(* The digits in password_buf were typed since BT1 was pressed: an entry   *)
(* that timed out, lost its connection or was overtaken by the keyboard    *)
(* leaves nothing behind for the next one.                                 *)
NoLeftoverDigits == mode = "PASSWORD" => typed <= entered

(* A repair clears the alerts of the dashboard only when every other fault *)
(* announced and open is still to be shown there.                          *)
RepairKeepsAlerts ==
  [][\A f \in {1, 2} :
       pc = "await" /\ asked = Repair[f] /\ pc' # "await" /\ fifo' = <<"CLEAR_ALERTS">>
         => \A g \in announced \ {f} : Coming(Problem[g])]_vars

(* MODE_PASSWORD never lasts, whatever keys, pushes and failures do.       *)
PasswordModeEnds == mode = "PASSWORD" ~> mode = "NORMAL"

(* joypi_ctrl_keys.c:162, "Timeout MODE_PASSWORD (30s sans confirmation)": *)
(* the mode does not time out earlier.                                     *)
PasswordModeLasts == [][PasswordTimeout => since > PwdLimit]_vars

(* joypi_ctrl_net.c:515, "Le satellite va broadcaster EVENT LAUNCH":       *)
(* on a connection that lasts, launch_in_progress is reset in the end.     *)
LaunchEnds == launch_in_progress /\ conn = "up" ~> ~launch_in_progress \/ conn # "up"
=============================================================================
