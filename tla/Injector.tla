-------------------------------- MODULE Injector --------------------------------
(***************************************************************************)
(* The injector (src/Dashboard/data_input_text.c and data_gen_model.c): it *)
(* simulates the rocket, sends its telemetry to the satellite line by line *)
(* and obeys the CMD_EVENT lines of the satellite.                         *)
(*                                                                         *)
(* One turn of its loop is gen_step ("step"), the telemetry if it is due   *)
(* ("emit"), the reconnection ("link"), and one operator command or the    *)
(* lines of the satellite ("read").  A line is sent by send_set, which     *)
(* then waits ("await") for OK and obeys the events it reads meanwhile.    *)
(*                                                                         *)
(* Abstractions.  The physics is the flags of GenModel and the classes the *)
(* decisions tell apart: altitude on the ground, below orbit or in orbit;  *)
(* fuel none, below the 20 % a controlled landing needs, or more; stress   *)
(* critical or not.  A temperature relaxes below critical at the next step *)
(* and is left out.  Telemetry is sent much more often than the altitude   *)
(* changes class: once at most between two rounds.  PAUSE, which the       *)
(* satellite never sends, and steering, which changes only the stress a    *)
(* little, are left out, and so is RESUME, which only undoes PAUSE.        *)
(***************************************************************************)
EXTENDS Integers, SequencesExt

CONSTANTS
  Telemetry,    \* the lines of one round (seven in the source)
  Attempts,     \* wake-ups send_set waits for OK (6)
  Typed,        \* the commands the operator may type
  QueueMax      \* bound: orders in transit beyond which no other is given

Lines    == {"AUTH", "ALTITUDE", "OTHER", "BAD", "EXPLODE", "RESET"}
Commands == {"explode", "fault1", "fault2", "resolve", "reset", "LAUNCH",
             "SET_ALTITUDE", "SET_FUEL", "SET_STRESS", "SET_BAD"}
Orders   == {"LAUNCH", "LAND", "EXPLODE", "FIX_STRESS"}
Replies  == {"AUTH_OK", "OK", "FAIL"}
Altitudes == {"ground", "below", "orbit"}
Fuels     == {"none", "low", "high"}

ASSUME InjectorAssumption ==
  /\ Telemetry \in Seq({"ALTITUDE", "OTHER"}) /\ Telemetry # << >>
  /\ Attempts \in Nat \ {0} /\ QueueMax \in Nat
  /\ Typed \subseteq Commands

VARIABLES
  pc,         \* "step", "emit", "link", "auth", "read" or "await"
  fd,         \* "down": fd < 0; "up"; "cut": the peer is gone, unnoticed
  gm,         \* the GenModel
  moved,      \* the altitude has changed class since the last round
  task,       \* what send_set is called for: "telemetry", "command", "reset"
  todo,       \* the lines of the task: the one being sent, then the rest
  attempts, err,    \* of send_set; of its caller
  toSat,      \* lines on their way to the satellite, with their altitude
  toInj,      \* lines on their way to the injector, those kept in pending too
  phase, open,  \* of the satellite: the mission, its open faults
  received,   \* the class of the last altitude received
  apart       \* history: since the last reset, an order or a reset was lost,
              \* one of the two programs restarted, or the operator launched,
              \* moved or reset the rocket of the injector alone

sender == <<task, todo, attempts, err>>
wires  == <<toSat, toInj>>
satellite == <<phase, open, received>>
vars == <<pc, fd, gm, moved, sender, wires, satellite, apart>>

-----------------------------------------------------------------------------
(* The rocket: gen_reset_to_ground, gen_on_event and gen_step.             *)

Grounded == [launched |-> FALSE, landing |-> FALSE, exploded |-> FALSE,
             controlled |-> FALSE, altitude |-> "ground", fuel |-> "high",
             stressed |-> FALSE]

(* A wreck falls, and nothing but a launch or a reset makes it a rocket    *)
(* again: its other fields decide nothing and are reset here, although a   *)
(* crash and a break under stress leave launched and landing as they were. *)
Destroyed(g) == [Grounded EXCEPT !.exploded = TRUE, !.altitude = g.altitude]

(* Wrong variant of Landing: only above orbit, where no flight gets.       *)
LandingAboveOrbit(g) == g

(* LAND needs a launched rocket in orbit.                                  *)
Landing(g) ==
  IF g.launched /\ g.altitude = "orbit"
  THEN [g EXCEPT !.landing = TRUE, !.controlled = (g.fuel = "high")] ELSE g

(* Wrong variant of Exploding: only in flight.                             *)
ExplodingInFlight(g) == IF g.launched THEN Destroyed(g) ELSE g

Exploding(g) == Destroyed(g)

(* process_server_line and gen_on_event; any other line is ignored.        *)
OnEvent(g, event) ==
  CASE event = "LAUNCH"     -> [Grounded EXCEPT !.launched = TRUE]
    [] event = "LAND"       -> Landing(g)
    [] event = "EXPLODE"    -> Exploding(g)
    [] event = "FIX_STRESS" -> [g EXCEPT !.stressed = FALSE]
    [] OTHER                -> g

Obey(g, lines) == FoldLeft(OnEvent, g, lines)

Below(a) == IF a = "orbit" THEN "below" ELSE "ground"
Above(a) == IF a = "ground" THEN "below" ELSE "orbit"
Burnt(f) == IF f = "high" THEN {"high", "low"} ELSE {f, "none"}

Falls(g)  == {[g EXCEPT !.altitude = a] : a \in {g.altitude, Below(g.altitude)}}

(* Without fuel the rocket is lost, wherever it is.                        *)
Climbs(g) ==
  LET flown == IF g.altitude = "orbit" THEN {g}
               ELSE {[g EXCEPT !.altitude = a, !.fuel = f] :
                       a \in {g.altitude, Above(g.altitude)}, f \in Burnt(g.fuel)}
  IN  {IF h.fuel = "none" THEN Destroyed(h) ELSE h : h \in flown}

(* Wrong variant of Descends: without fuel for a controlled landing the    *)
(* rocket does not come down.                                              *)
DescendsControlled(g) ==
  {IF h.altitude = "ground"
   THEN [h EXCEPT !.launched = FALSE, !.landing = FALSE, !.controlled = FALSE]
   ELSE h : h \in IF g.controlled THEN Falls(g) ELSE {g}}

(* A controlled landing burns its fuel down to some 10 %, another none; at *)
(* the ground the first is over and the second a crash.                    *)
Descends(g) ==
  LET burns == IF g.controlled THEN {g.fuel, "low"} ELSE {g.fuel}
      fallen == {[h EXCEPT !.fuel = f] : h \in Falls(g), f \in burns}
  IN  IF g.fuel = "none" THEN {Destroyed(h) : h \in Falls(g)}
      ELSE {IF h.altitude # "ground" THEN h
            ELSE IF h.controlled
            THEN [h EXCEPT !.launched = FALSE, !.landing = FALSE, !.controlled = FALSE]
            ELSE Destroyed(h) : h \in fallen}

Flies(g) ==
  CASE g.exploded   -> Falls(g)
    [] ~g.exploded /\ g.launched /\ ~g.landing -> Climbs(g)
    [] ~g.exploded /\ g.launched /\ g.landing  -> Descends(g)
    [] OTHER        -> Falls(g)

(* Ten seconds above the critical stress destroy the rocket; except in a   *)
(* landing the stress may decay first.                                     *)
Strains(g) ==
  IF ~g.stressed THEN {g}
  ELSE {g, Destroyed(g)}
       \cup (IF g.landing THEN {} ELSE {[g EXCEPT !.stressed = FALSE]})

gen_step(g) == UNION {Strains(h) : h \in Flies(g)}

-----------------------------------------------------------------------------
(* What is lost with the lines in transit.                                 *)

Lost(lines) == \E i \in DOMAIN lines : lines[i] \in Orders
ResetPending == \E i \in DOMAIN toSat : toSat[i].line = "RESET"

Init ==
  /\ pc = "step" /\ fd = "down" /\ gm = Grounded /\ moved = FALSE
  /\ task = "telemetry" /\ todo = << >> /\ attempts = 0 /\ err = FALSE
  /\ toSat = << >> /\ toInj = << >>
  /\ phase = "READY" /\ open = {} /\ received = "ground" /\ apart = FALSE

Idle == task' = "telemetry" /\ todo' = << >> /\ attempts' = 0 /\ err' = FALSE

(* close(fd), fd = -1; reconnecting empties pending.  What is unread, rest *)
(* of it here, is gone.                                                    *)
Close(rest, next) ==
  /\ fd' = "down" /\ toSat' = << >> /\ toInj' = << >> /\ pc' = next
  /\ apart' = (apart \/ ResetPending \/ Lost(rest))
  /\ Idle /\ UNCHANGED satellite

Return(rest, next) ==
  /\ toInj' = rest /\ pc' = next
  /\ Idle /\ UNCHANGED <<fd, toSat, satellite, apart>>

-----------------------------------------------------------------------------
(* send_set and its callers.                                               *)

(* Writing to a peer that is gone is not noticed, or is the end of the     *)
(* program (see Restart).                                                  *)
Put(line, g) ==
  toSat' = IF fd = "up" THEN Append(toSat, [line |-> line, altitude |-> g.altitude])
           ELSE toSat

Begin(what, lines, g) ==
  /\ pc' = "await" /\ task' = what /\ todo' = lines /\ attempts' = 0 /\ err' = FALSE
  /\ Put(Head(lines), g)

(* After the telemetry reconnect_if_needed only acts without a connection. *)
Link(connection) == IF connection = "down" THEN "link" ELSE "read"

(* Where the loop goes on: a command skips the rest of its turn.           *)
Onward(connection) == IF task = "telemetry" THEN Link(connection) ELSE "step"

(* Wrong variant of Ends: an error is forgotten.                           *)
EndsUnnoticed(failed, rest) == Return(rest, Onward(fd))

(* The task is over.                                                       *)
Ends(failed, rest) ==
  IF failed THEN Close(rest, Onward("down")) ELSE Return(rest, Onward(fd))

(* send_set has returned: the next line is sent even after an error, but   *)
(* nothing after a RESET that failed.                                      *)
Returns(ok, rest) ==
  LET failed == err \/ ~ok
      over == Len(todo) = 1 \/ (Head(todo) = "RESET" /\ ~ok)
  IN  IF over THEN Ends(failed, rest)
      ELSE /\ todo' = Tail(todo) /\ attempts' = 0 /\ err' = failed
           /\ Put(todo[2], gm') /\ toInj' = rest
           /\ UNCHANGED <<pc, fd, task, satellite, apart>>

(* Wrong variant of GivesUp: one wake-up too many.                         *)
GivesUpLate == attempts = Attempts

GivesUp == attempts + 1 = Attempts

(* One wake-up: none of the lines (250 ms without any, or part of one) or  *)
(* the first k; all of them are obeyed, and any OK will do.                *)
Wake(k) ==
  /\ pc = "await" /\ k \in 0..Len(toInj)
  /\ LET lines == SubSeq(toInj, 1, k)
         rest == SubSeq(toInj, k + 1, Len(toInj))
     IN  /\ gm' = Obey(gm, lines)
         /\ IF Contains(lines, "OK") THEN Returns(TRUE, rest)
            ELSE IF GivesUp THEN Returns(FALSE, rest)
            ELSE /\ attempts' = attempts + 1 /\ toInj' = rest
                 /\ UNCHANGED <<pc, fd, task, todo, err, toSat, satellite, apart>>
  /\ UNCHANGED moved

(* read finds the connection closed: this line and those after it fail,    *)
(* unless writing one of them kills the program.                           *)
WakeLost ==
  /\ pc = "await" /\ fd = "cut" /\ toInj = << >>
  /\ Close(<< >>, Onward("down")) /\ UNCHANGED <<gm, moved>>

-----------------------------------------------------------------------------
(* The main loop.                                                          *)

Step ==
  /\ pc = "step" /\ pc' = "emit"
  /\ gm' \in gen_step(gm)
  /\ gm'.altitude # gm.altitude => ~moved
  /\ moved' = (moved \/ gm'.altitude # gm.altitude)
  /\ UNCHANGED <<fd, sender, wires, satellite, apart>>

(* 700 ms have passed since the last round, or have not.                   *)
Emit ==
  /\ pc = "emit" /\ moved' = FALSE
  /\ IF fd = "down" THEN pc' = Link(fd) /\ UNCHANGED <<sender, toSat>>
     ELSE Begin("telemetry", Telemetry, gm)
  /\ UNCHANGED <<fd, gm, toInj, satellite, apart>>

EmitLater ==
  /\ pc = "emit" /\ pc' = Link(fd)
  /\ UNCHANGED <<fd, gm, moved, sender, wires, satellite, apart>>

(* reconnect_if_needed: too early, or connect() fails.                     *)
NoConnect ==
  /\ pc = "link" /\ pc' = "read"
  /\ UNCHANGED <<fd, gm, moved, sender, wires, satellite, apart>>

Connect ==
  /\ pc = "link" /\ pc' = "auth"
  /\ fd' = "up" /\ toSat' = <<[line |-> "AUTH", altitude |-> "ground"]>>
  /\ UNCHANGED <<gm, moved, sender, toInj, satellite, apart>>

(* connect_to_satellite reads once, and events that come with AUTH_OK are  *)
(* lost.                                                                   *)
AuthRead(k) ==
  /\ pc = "auth" /\ k \in 1..Len(toInj) /\ pc' = "read"
  /\ toInj' = SubSeq(toInj, k + 1, Len(toInj))
  /\ apart' = (apart \/ Lost(SubSeq(toInj, 1, k)))
  /\ UNCHANGED <<fd, gm, moved, sender, toSat, satellite>>

AuthFails ==
  /\ pc = "auth" /\ fd = "cut" /\ toInj = << >>
  /\ Close(<< >>, "read") /\ UNCHANGED <<gm, moved>>

(* No operator command and nothing to read.                                *)
Timeout ==
  /\ pc = "read" /\ pc' = "step"
  /\ UNCHANGED <<fd, gm, moved, sender, wires, satellite, apart>>

(* poll_server_events reads all there is, and obeys only if the connection *)
(* still holds.                                                            *)
PollEvents ==
  /\ pc = "read" /\ fd = "up" /\ toInj # << >> /\ pc' = "step"
  /\ \E k \in 1..Len(toInj) :
       /\ gm' = Obey(gm, SubSeq(toInj, 1, k))
       /\ toInj' = SubSeq(toInj, k + 1, Len(toInj))
  /\ UNCHANGED <<fd, moved, sender, toSat, satellite, apart>>

PollLost ==
  /\ pc = "read" /\ fd = "cut" /\ Close(toInj, "step") /\ UNCHANGED <<gm, moved>>

-----------------------------------------------------------------------------
(* The operator.  Without a connection only explode, reset and LAUNCH do   *)
(* anything, and on this side only.                                        *)

(* apply_local_set and its like; of a wreck only the altitude counts.      *)
Tidy(g) == IF g.exploded THEN Destroyed(g) ELSE g

Command(what, g, lines) ==
  /\ pc = "read" /\ fd # "down"
  /\ gm' = Tidy(g) /\ Begin(what, lines, g)
  /\ UNCHANGED <<fd, moved, toInj, satellite>>

Locally(g) ==
  /\ pc = "read" /\ pc' = "step" /\ gm' = g
  /\ UNCHANGED <<fd, moved, sender, wires, satellite>>

Sends(g, line) == Command("command", g, <<line>>) /\ UNCHANGED apart

ForceExplosion ==
  IF fd = "down" THEN Locally(Destroyed(gm)) /\ UNCHANGED apart
                 ELSE Sends(Destroyed(gm), "EXPLODE")

ResetAll ==
  IF fd = "down" THEN Locally(Grounded) /\ apart' = TRUE
  ELSE /\ Command("reset", Grounded, <<"RESET">> \o Telemetry)
       /\ apart' = (apart \/ fd = "cut")

Resolve ==
  IF gm.exploded THEN fd # "down" /\ ResetAll
  ELSE /\ Command("command", [gm EXCEPT !.stressed = FALSE], <<"OTHER", "OTHER">>)
       /\ UNCHANGED apart

Operator(c) ==
  \/ c = "explode" /\ ForceExplosion
  \/ c = "fault1" /\ Sends(gm, "OTHER")
  \/ c = "fault2" /\ Sends([gm EXCEPT !.stressed = TRUE], "OTHER")
  \/ c = "resolve" /\ Resolve
  \/ c = "reset" /\ ResetAll
  \/ c = "LAUNCH" /\ Locally(OnEvent(gm, "LAUNCH")) /\ apart' = TRUE
  \/ /\ c = "SET_ALTITUDE" /\ apart' = TRUE
     /\ \E a \in Altitudes : Command("command", [gm EXCEPT !.altitude = a], <<"ALTITUDE">>)
  \/ c = "SET_FUEL" /\ \E f \in Fuels : Sends([gm EXCEPT !.fuel = f], "OTHER")
  \/ c = "SET_STRESS" /\ \E b \in BOOLEAN : Sends([gm EXCEPT !.stressed = b], "OTHER")
  \/ c = "SET_BAD" /\ Sends(gm, "BAD")

(* quit, or SIGPIPE, which this program does not ignore, as send_set       *)
(* writes to a peer that is gone; and the program is started again.        *)
Restart ==
  /\ pc = "read" \/ (pc = "await" /\ fd = "cut")
  /\ fd' = "down" /\ pc' = "step" /\ Idle
  /\ gm' = Grounded /\ moved' = FALSE /\ toSat' = << >> /\ toInj' = << >>
  /\ apart' = TRUE /\ UNCHANGED satellite

-----------------------------------------------------------------------------
(* The satellite, as MissionPhase promises it and Satellite implements it, *)
(* and the network.  Only fault 2 is kept: the repair of fault 1 orders    *)
(* FIX_TEMP, which changes nothing that is modelled here.                  *)

Sat == INSTANCE MissionPhase WITH Faults <- {2}

Listening == fd = "up" /\ \A i \in DOMAIN toSat : toSat[i].line # "AUTH"

(* broadcast_injectors: nobody keeps an order for an injector that is away. *)
Tell(orders) ==
  IF Listening THEN toInj' = toInj \o orders /\ UNCHANGED apart
  ELSE /\ apart' = (apart \/ orders # << >>) /\ UNCHANGED toInj

Local == <<pc, fd, gm, moved, sender>>

SatReply(lines) ==
  /\ toSat' = Tail(toSat) /\ toInj' = toInj \o lines /\ UNCHANGED Local

(* Telemetry may change the phase, but READY is on the ground              *)
(* (ReadyIsAtRest of module Satellite).                                    *)
SatObserves ==
  /\ toSat # << >> /\ Head(toSat).line \in {"ALTITUDE", "OTHER"}
  /\ Sat!Observe
  /\ received' = IF Head(toSat).line = "ALTITUDE" THEN Head(toSat).altitude ELSE received
  /\ phase' = "READY" => received' = "ground"
  /\ SatReply(<<"OK">>) /\ UNCHANGED apart

SatResets ==
  /\ toSat # << >> /\ Head(toSat).line = "RESET"
  /\ Sat!Reset /\ received' = "ground" /\ apart' = FALSE
  /\ SatReply(<<"OK">>)

SatForced ==
  /\ toSat # << >> /\ Head(toSat).line = "EXPLODE"
  /\ Sat!Explode /\ SatReply(<<"EXPLODE", "OK">>) /\ UNCHANGED <<received, apart>>

SatAnswers ==
  /\ toSat # << >>
  /\ \/ Head(toSat).line = "AUTH" /\ SatReply(<<"AUTH_OK">>)
     \/ Head(toSat).line = "BAD" /\ SatReply(<<"FAIL">>)
  /\ UNCHANGED <<satellite, apart>>

Room ==
  /\ Len(SelectSeq(toInj, LAMBDA l : l \in Orders)) < QueueMax
  /\ UNCHANGED <<Local, toSat>>

(* A flight nobody reported may be on while the satellite is READY.        *)
SatLaunches ==
  /\ Room /\ Sat!Launch /\ UNCHANGED received
  /\ IF gm.altitude # "ground"
     THEN apart' = TRUE /\ toInj' = toInj \o (IF Listening THEN <<"LAUNCH">> ELSE << >>)
     ELSE Tell(<<"LAUNCH">>)

SatLands ==
  Room /\ received = "orbit" /\ Sat!Land /\ Tell(<<"LAND">>) /\ UNCHANGED received

(* Out of fuel in flight, or a fault open for too long.                    *)
SatExplodes ==
  /\ Room /\ (phase \in {"FLYING", "EMERGENCY"} \/ open # {})
  /\ Sat!Explode /\ Tell(<<"EXPLODE">>) /\ UNCHANGED received

SatFixes == Room /\ Sat!Repair /\ Tell(<<"FIX_STRESS">>) /\ UNCHANGED received

SatTouchdown ==
  /\ received = "ground" /\ Sat!Touchdown
  /\ UNCHANGED <<Local, wires, received, apart>>

(* The connection breaks: some of what is on its way is lost.  It may be   *)
(* the end of the satellite, and a new one is started.                     *)
Cut ==
  /\ fd = "up" /\ fd' = "cut" /\ toSat' = << >>
  /\ \E k \in 0..Len(toInj) :
       /\ toInj' = SubSeq(toInj, 1, k)
       /\ \/ /\ apart' = (apart \/ ResetPending \/ Lost(SubSeq(toInj, k + 1, Len(toInj))))
             /\ UNCHANGED satellite
          \/ apart' = TRUE /\ phase' = "READY" /\ open' = {} /\ received' = "ground"
  /\ UNCHANGED <<pc, gm, moved, sender>>

Satellite == SatObserves \/ SatResets \/ SatForced \/ SatAnswers

Next ==
  \/ Step \/ Emit \/ EmitLater \/ NoConnect \/ Connect
  \/ \E k \in 0..Len(toInj) : Wake(k) \/ AuthRead(k)
  \/ WakeLost \/ AuthFails \/ Timeout \/ PollEvents \/ PollLost
  \/ \E c \in Typed : Operator(c)
  \/ Restart
  \/ Satellite \/ SatLaunches \/ SatLands \/ SatExplodes \/ SatFixes \/ SatTouchdown
  \/ Cut

Spec == Init /\ [][Next]_vars

Drop == Step /\ gm'.altitude # gm.altitude /\ gm.altitude # "ground"

(* The loop turns and never waits for long, telemetry is due again and     *)
(* again, what goes down reaches the ground, and the satellite answers and *)
(* looks for a touchdown every turn.                                       *)
FairSpec ==
  /\ Spec
  /\ WF_vars(Step \/ Emit \/ EmitLater \/ NoConnect \/ Connect \/ WakeLost \/ Timeout
              \/ \E k \in 0..Len(toInj) : Wake(k) \/ AuthRead(k))
  /\ SF_vars(Emit) /\ SF_vars(PollEvents) /\ SF_vars(Drop)
  /\ WF_vars(Satellite) /\ WF_vars(SatTouchdown)

-----------------------------------------------------------------------------
(* Properties.                                                             *)

Unanswered == toSat # << >> \/ \E i \in DOMAIN toInj : toInj[i] \in Replies
Coming(order) == Contains(toInj, order)

(* Types; send_set gives up before it has woken up Attempts times.         *)
TypeOK ==
  /\ pc \in {"step", "emit", "link", "auth", "read", "await"}
  /\ fd \in {"down", "up", "cut"}
  /\ gm \in [launched : BOOLEAN, landing : BOOLEAN, exploded : BOOLEAN,
             controlled : BOOLEAN, altitude : Altitudes, fuel : Fuels,
             stressed : BOOLEAN]
  /\ moved \in BOOLEAN /\ apart \in BOOLEAN
  /\ task \in {"telemetry", "command", "reset"} /\ todo \in Seq(Lines)
  /\ attempts \in 0..(Attempts - 1) /\ err \in BOOLEAN
  /\ toSat \in Seq([line : Lines, altitude : Altitudes])
  /\ toInj \in Seq(Orders \cup Replies)
  /\ phase \in {"READY", "FLYING", "EMERGENCY", "EXPLODED"}
  /\ open \subseteq {2} /\ received \in Altitudes

(* OK carries no name, so send_set takes any for its own.  Whenever the    *)
(* loop is between two tasks of a connection that holds, every line has    *)
(* been answered and every answer read: none is left for the next task,    *)
(* although wake-ups are spent on events and a task goes on after a        *)
(* failure.                                                                *)
InStep == pc \in {"step", "emit", "link", "read"} /\ fd = "up" => ~Unanswered

(* A rocket the satellite holds for destroyed is destroyed in the physics, *)
(* or will be by an order in transit, unless one was lost.                 *)
ExplosionReaches ==
  phase = "EXPLODED" /\ ~apart => gm.exploded \/ Coming("EXPLODE") \/ ResetPending

(* A descent ordered by the satellite is one in the physics, which checks  *)
(* orbit and launch again: neither check may refuse what the other side    *)
(* has accepted from older telemetry.                                      *)
LandingReaches ==
  phase = "EMERGENCY" /\ ~apart =>
    \/ Coming("LAND") \/ ResetPending
    \/ gm.landing \/ gm.exploded \/ gm.altitude = "ground"

(* A descent ends, on a connection that holds.                             *)
DescentCompletes ==
  phase = "EMERGENCY" /\ fd = "up" /\ ~apart ~>
    phase # "EMERGENCY" \/ fd # "up" \/ apart

(* data_input_text.c:453, "Explosion effacee, mission remise a zero.":     *)
(* printed when RESET and the telemetry after it have been answered.       *)
ResetErases ==
  [][pc = "await" /\ task = "reset" /\ pc' = "step" /\ fd' = "up"
     => ~gm'.exploded \/ phase = "EXPLODED"]_vars
=============================================================================
