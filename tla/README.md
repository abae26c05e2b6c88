# AstraControl in TLA+

AstraControl flies a simulated rocket from three machines. This directory holds a
formal model of its control software: TLA+ modules translated from the C sources,
TLC configurations that check them on small instances, and TLAPS proofs for every
value of the constants.

## 1. The system

| Part | Sources | State | Operations |
|---|---|---|---|
| **Satellite server** | `Network/satellite_server.c`, `satellite_handler.c` | client table (`fd`, type, `authed`, pending bytes), `g_telem` (altitude, speed, fuel, ..., phase, faults), fault clocks, `g_altitude_received` | accept, disconnect, AUTH, `CMD LU/LD/ALT/TEMP/PRES/REP1/REP2/MEL` from controllers, `SET`, `RESET`, `EXPLODE` from injectors, `check_state_transitions`, `push_telemetry` |
| **JoyPi controller** | `JoyPi/joypi_controller.c`, `joypi_ctrl_net.c`, `joypi_ctrl_actions.c`, `joypi_ctrl_keys.c` | socket, `authed`, `g_push_buf`, mode, password buffer and clock, `launch_in_progress`, `explosion_notified`, three fault flags, last telemetry | one loop: reconnect, poll pushes, scan keys, poll the dashboard's launch requests; `send_cmd_recv` blocks it up to 2 s |
| **Injector** | `Dashboard/data_input_text.c`, `data_gen_model.c` | flight physics, socket, pending bytes | step the physics, send `SET` lines every 700 ms, obey `CMD_EVENT`, operator commands |
| **Dashboard** | `Dashboard/main.c`, `dashboard_logic.c`, `dashboard_dynamics.c`, `pipes.c` | the picture of the rocket, alerts, launch popup, its own fault timers | a frame of 120 ms: read two FIFOs, then the keyboard, then the dynamics; write `LAUNCH_AUTH_OK` |
| Remote, actuators | `ir_input.c`, `actuators*.c` | decoder state | decode a key; drive LEDs, buzzer, displays |
| Library, tests, scripts | `Librairie/`, `JoyPi/tests/`, `To-JoyPI/` | none of the running system's | |

Interactions. Controller and injector are TCP clients of the satellite and speak
lines. A command gets one reply line; the satellite also *pushes* `TELEMETRY` and
`EVENT` lines to controllers and `CMD_EVENT` lines to injectors on the same
sockets. The controller, and the satellite when it runs on the same machine, write
lines to the dashboard's FIFOs; the dashboard answers through a third FIFO. Each
program is one thread around one loop, so a handler is atomic inside its program;
everything hard happens between programs.

What is hard:

* **order**: telemetry comes field by field while commands of another client change
  the phase; faults, fuel and touchdown are looked at once a turn, in a fixed order;
* **one stream, two readers**: replies and pushes share a socket, and two functions
  share the buffer that cuts it into lines; a read ends anywhere;
* **failure**: a broken connection loses what was in transit, a time-out closes it,
  a server restart forgets everything, and there is no resynchronisation;
* **time**: ten second fault clocks, the password clock, the 2 s reply time-out;
* **two pictures of one rocket**: the dashboard counts its own ten seconds and flies its
  own rocket when telemetry is silent, on lines that come through two FIFOs;
* **two keyboards**: the remote and the dashboard enter the password into one popup;
* **state that outlives its owner**: static clocks, buffers and flags.

What makes each part correct: the satellite's phase agrees with its telemetry, its
fault clocks with its faults, and its events tell both; the link loses, repeats and
reorders nothing within a session and pairs replies with commands; the controller's
flags follow the satellite and its password entry starts clean and ends; the screen shows
the faults and the loss the satellite knows and no others; no key is taken for another and
no launch is asked for without the password.
`PROJECT.json` lists every hazard at its line with the properties that cover it.

## 2. The modules

`MissionPhase` is the abstract promise: the phase of a mission and its open faults.
`Satellite` implements it (`MissionLifeCycle`, a refinement) and `Controller`, `Injector`
and `Dashboard` use it as their environment, so what is checked of them rests on
a promise the server has been proved to keep. `Link` looks below `Controller`, at bytes.
`Entry` is the password between the controller and the dashboard, on top of `Remote`,
the infrared decoder.

### Satellite

One action per command or line: `CmdLU`, `CmdLD`, `CmdPRES`, `CmdREP`, `CmdMEL`,
`Reset`, `SetAltitude`, `SetSpeed`, `SetFuel`, `SetMonitored` (temperature and
stress), `SetOther`, `ForcedExplosion`, reached through `Dispatch` as in
`dispatch_line`. `Check` is `check_state_transitions` with its four alternatives in
the order of the code, `Push` the periodic telemetry, `Tick` a second, `Restart` the
end of the process and a new one. `pc` keeps the turn of the loop: input, then
`Check`, then perhaps `Push`; `Authenticate` pushes telemetry too, in the middle of the
turn. `Refreshed` is `refresh_state_from_telemetry`.

`out` and `pipe` hold what the current step writes, per client slot and to the FIFOs,
in the order of the `send_to_client` and `broadcast_*` calls. `told` and `alarms` are
history: what a listener to the events would conclude.

Abstractions: a step takes a whole line; temperature, stress, pressure and thrust are
inputs only, since the code compares them on arrival and never reads them to decide
later; a fault clock is the time elapsed; a refused connection changes nothing. A
socket write is complete.

### Link

`joypi_ctrl_net.c` below the level of lines. A line is two fragments, so that a read
may cut it; `Store` is `buffer_incoming_bytes` with its overflow, `Drain` and
`AwaitPush`/`AwaitReply` the two places that cut lines, `AuthRead` the single read of
`auth_satellite`, `Close` the way every failure ends. `pc` keeps the turn of the main loop:
`idle`, where it reconnects and polls (`PollRead`, or `PollQuiet` after 80 ms without
anything), then `keys`, from where commands are sent, then the next turn. The satellite is
external to it: it replies, then pushes, in the order `ReplyDiscipline` of `Satellite` gives.

### Controller

The operator's side, with whole lines. `pc` is the stage of the main loop and
`await` is `send_cmd_recv`, in which pushes are handled and the caller resumes with
the reply (`Answered...`) or without it (`AwaitFails`). `Digit`, `ConfirmKey`,
`Backspace`, `PasswordTimeout` are the password mode, `LaunchKey` is BT1, `Button`
the other seven, `KeyboardLaunch` the dashboard's request. `HandleEvent` and
`HandleTelemetry` are the functions of that name; `fifo` holds the lines the step
writes to the dashboard. `wire` is what is in transit together with what
`g_push_buf` keeps; `Cut` breaks the connection at any point of it, and may restart the
satellite. Which digits are typed is left out: any full entry may be the password.
CMD ALT, TEMP and MEL, whose replies only drive displays, are one command `CMD_ASK`.
Steering, the simulation build and the actuators are left out.

### Injector

The physics and its connection. `pc` is the stage of the main loop: `Step` is
`gen_step`, `Emit` the telemetry when it is due, `Connect` the reconnection,
`PollEvents` and `Operator` what `select` woke it for. A task (a telemetry round, a
command, a reset) is a list of lines; `await` is `send_set`, where `Wake` is one of
its wake-ups: it obeys the orders it reads, takes any OK, and after `Attempts` of them
gives up. `Returns` and `Ends` are what the callers do with the result: the next line
follows even a failure, and the connection is closed at the end of the task; only a
failed RESET ends its task at once. Unlike the other two programs the injector does not
ignore SIGPIPE, so a write to a peer that is gone may end it: `Restart` is that, or `quit`,
followed by a new start.

`gm` is the `GenModel` in classes: on the ground, below orbit, in orbit; fuel none,
less or more than a controlled landing needs; stress critical or not. `gen_step`
gives the set of outcomes, `Climbs`, `Descends` and `Falls` the branches of the code.
A wreck keeps its altitude only. `moved` bounds how fast it goes: one class between
two rounds of telemetry, 700 ms apart, as each class takes tens of seconds to cross.

The satellite follows `MissionPhase`, with what the code and the theorems about
`Satellite` add: READY is on the ground (`ReadyIsAtRest`), CMD LD needs an orbital
altitude, orders precede the OK of their step (`ReplyDiscipline`), an explosion comes
in flight or of an open fault. `apart` is history: an order or a reset was lost, a
program restarted, or the rocket was launched, moved or reset on one side only.

### Dashboard

`st` is the `RocketState`. `Frame` is a turn of `main`: all the command lines read, then
all the data lines (`apply_cmd`, `apply_data`), then `update_dynamics`, whose parts are
`Flight`, `Descent` and `Timers`, each the set of pictures it may give, as altitude and
fuel are classes (on the ground, below orbit, orbit; none, below 20 %, more). Time is
counted in frames: `Tick` passes the 120 ms, in which a frame is made, or none in a
terminal that is too small. `Kept` is the overflow of `poll_pipe_lines`.

`wire` holds the lines of both FIFOs in the order they are written, and a frame takes a
prefix of the commands and a prefix at least as long of the data, which is what reading
one FIFO after the other can give. The satellite is `MissionPhase` with its pressure cycle
and fault clocks, and each of its steps writes the lines that `Controller` shows the
controller to write for the pushes and replies of that step. `untold` is history: since
the last reset a line was lost or never sent (the dashboard restarted, a buffer
overflowed, the controller was not connected, a launch closed faults that are not
announced closed), and nothing will repeat it.

The lines that the satellite itself writes to the FIFOs when it shares the machine with
the dashboard are left out: in the documented deployment it runs on the
machine of the controller (`docs/PROCEDURE_LANCEMENT.md:11`). So are attitude, thrust and messages, which decide nothing.

### Remote and Entry

`Remote` is `ir_input.c` at the level of edges, in units of 125 microseconds.
`ir_on_falling_edge` takes the time since the last edge that was seen; `Mark` is what
`ir_decode_poll` makes of one mark: it is missed, or seen between its start and its end.
`Heard` follows a whole NEC frame from any bits an earlier one left, and `ir_poll` gives
the keys that may be returned for the key pressed. `Table` is the table of the source.

`Entry` has the digits: `LaunchKey`, `RemoteKey`, `EntryEnds` and `ReadAuth` on the
controller, `ReadLine` and `KeyboardKey` on the dashboard, the launch between them and the
satellite (`Answers`, `Confirms`, `Resets`, ...). `password_add_char`, `password_confirm`
and `password_backspace` are the functions of that name with the lines they write.
`pressed` is history: how many digits of the password were pressed, in order, on each
device; `alone` that only the remote has touched the popup; `misread` that a key was read
as another. When the password mode times out is `Controller`'s matter: here it may at any
time. The popup opens, closes and is filled in any order of the lines and the keys.

## 3. What TLC checks

| Run | Instance | Shows |
|---|---|---|
| `SatelliteSafety` | 2 slots, fault delay 1, values on both sides of every threshold; 413,000 states | safety and refinement, below |
| `SatelliteLive` | the same with fewer values, `FairSpec`; 112,000 states | `FaultIsDecided`, `DescentEnds` |
| `LinkSafety` | reads of 1 to 3 fragments, buffer of 6, 5 pushes, 2 commands, 3 sessions; 520,000 states | `InOrder`, `NothingLostInSession`, `RepliesPaired` |
| `ControllerFaults` | fault 1 and the pressure cycle, one-digit password, up to 3 lines in transit; 1,800,000 states | `LaunchPending`, `FaultsFlagged`, `RepairKeepsAlerts` |
| `ControllerLive` | two-digit password, telemetry, CMD LD and CMD_ASK, `FairSpec`; 289,000 states | `NoLeftoverDigits`, `PasswordModeEnds` |
| `ControllerPwdDoc`, `ControllerLaunchDoc` | | expected violations, section 6 |
| `InjectorSafety` | rounds of 2 lines, 2 wake-ups, every operator command, 1 order in transit, `FairSpec`; 366,000 states | `InStep`, `ExplosionReaches`, `LandingReaches`, `DescentCompletes` |
| `InjectorResetDoc` | | expected violation |
| `DashboardSafety` | two faults and the pressure cycle, timers of 2 frames, 2 lines unread; 1,440,000 states | `FaultsAgree`, `NoPhantomAlarm`, `LossShown`, `NoLoneLoss` |
| `EntrySafety` | a remote of 4 keys and 6 bits, a password of 2 digits, a popup of 3, 2 lines unread; 1,300,000 states | `NoWrongKey`, `StarsMatch`, `LaunchAuthorised` |

Satellite:

* `NoFaultForgotten`: fault flags and clocks stay in step although five handlers and
  the loop touch them; a fault without a clock is a rocket already lost.
* `ReadyIsAtRest`, `DescentHasAltitude`: the phase never contradicts the telemetry, and a
  descent can always end.
* `TelemetryIsSettled`: a telemetry line shows a rocket flying without fuel, or descending on
  the ground, only when it comes with an AUTH_OK. `push_telemetry` has two callers: the
  loop, after `check_state_transitions`, and AUTH CONTROLLER, before it in the same turn.
* `EventsTellTheStory`: every change of the open faults, of descent and of destruction
  is announced, and nothing that is not so. The controller has no other source for faults.
* `Audience`, `ReplyDiscipline`: who receives what, and where the reply stands.
* `ExplosionIsFinal`, `MissionLifeCycle`: the action property and the refinement.
* `FaultIsDecided`: an open fault is closed or fatal, however often it is reported.
  `DescentEnds`: a descent that reaches the ground is over.

Link: `InOrder` (no push handled twice or out of order, ever), `NothingLostInSession`
(each push of a session is handled or still there intact, except the one that came
with AUTH_OK), `RepliesPaired` (in a session begun at a line boundary the reply is the
one of its own command; a late reply dies with its connection). A session begins inside a
line when the 63 bytes that `auth_satellite` reads hold AUTH_OK and part of a telemetry
line, or when `g_push_buf` has kept part of one; the poll that precedes the keys then reads
the rest and drops it, so a command could take it for its reply only if it is more than
80 ms late, and of such sessions nothing is claimed. `LinkAssumption` says
`2 * ReadMax <= BufMax`; with a buffer one fragment smaller `NothingLostInSession`
fails, and the source has 511 and 2047.

Controller: `LaunchPending` (`launch_in_progress` always has a command or an ending
event behind it, unless the connection broke), `FaultsFlagged` (a fault announced on
this session and open is flagged or its announcement is still to come),
`RepairKeepsAlerts` (alerts are cleared only when no other announced fault is shown),
`NoLeftoverDigits`, `PasswordModeEnds`.

Injector: `InStep` (between two tasks nothing is unanswered and no answer is left over,
so an OK never serves the wrong task), `ExplosionReaches` and `LandingReaches` (a rocket
the satellite holds for destroyed or descending is so in the physics, or an order for
it is in transit, as long as nothing was lost), `DescentCompletes` (EMERGENCY ends
while the connection holds: the two checks of orbit agree, every way of coming down
reaches the ground, and telemetry says so).

Dashboard: `FaultsAgree` (faults shown are the satellite's but for lines on their way, and
the lamp is lit for each: neither the repair of the other fault, CLEAR_ALERTS after a
pressure fix, nor PROBLEM OFF puts it out, in whatever order the FIFOs are read),
`NoPhantomAlarm` (a lamp is lit for a fault on the screen, a pressure fault, a descent or a
loss, or PROBLEM OFF is on its way), `LossShown` (EVENT EXPLODED is
passed on for every rocket, although it is told once), `NoLoneLoss` (while telemetry is
live, the screen shows a loss only when the satellite lost the rocket, its clock is within
a frame of the ten seconds, or the repair is on its way).

Entry: `NoWrongKey` (edges missed or late and bits left from an earlier frame make a key
unread, never another key), `StarsMatch` (a star for each digit of the remote once the
lines are read), `LaunchAuthorised` (a launch is asked for only when the whole password was
pressed, in order, on the one device that asks: no digits left over from an earlier entry,
no stars of the other device and no backspace complete a password).

Bounds. Two slots give a controller and an injector, or two of a kind, and reuse; a
third adds copies, as handlers only look at one slot and broadcast to a role. Delay 1
separates running from expired. Three lines in transit let a reply, its event and the
event of another fault queue up; the controller never has two commands pending.
Two digits give a full, a partial and an empty buffer. A round of two lines has one
that fails and one sent after it; two wake-ups let one be used up by an order; one
order in transit can stand before or behind an OK (`QueueMax = 2` has been checked for
safety once, without a difference). `DashboardSafety` is
restricted further by the constant `Everything`: the satellite acts before the frame of a
tick; after the loss of the rocket, or of a line, only a reset follows; BT1 is pressed and
the connection breaks when all lines are read; two of the three faults are open at once;
telemetry shows a rocket in orbit with fuel; a restart loses the lines of one FIFO up to
any point. Two lines unread still let the two FIFOs be read in either order, and a step
may write three. Two frames for ten seconds put a repair, a frame and the expiry next to
each other. The remote of `EntrySafety` has codes of one zero, a one and four bits of which
two are one, which is the form of NEC codes that `RemoteAssumption` names (a known head,
and no code whose ones include another's); `MCEntry!TableAssumption` has TLC evaluate
that form on the thirteen 32-bit codes of the source. Two digits and a
popup of three let stars and digits mix and overflow. `LinkSafety`
counts sessions, pushes and commands, and stops at the bound: there alone deadlock is
not checked.

Fairness. `Satellite!FairSpec`: `select` returns at least every 100 ms, so `Check`
and `Push` happen again and again, and time passes. `Controller!FairSpec`: each stage
of the loop ends (`poll` reads once, `keys` looks at eight buttons, `send_cmd_recv`
has a time-out, and telemetry every 500 ms leaves it the silence in which it is
noticed); time passes. Nothing is assumed of clients, operators or the network.
`Injector!FairSpec`: the loop
turns (`select` returns within 100 ms, `send_set` after six times 250 ms), telemetry is
due every 700 ms, the operator is not typing at every turn, what comes down loses height
every step, and the satellite answers and looks for a touchdown each turn; strong
fairness where a stage is passed again and again but not always with the choice on
offer. `DeliveringSpec`, used for one expected violation only, adds a network that delivers
and reconnects, so that the counterexample is not one of a dead network.

Every property is also run against a mutant of the mapped code, listed in
`PROJECT.json`, that must break it.

## 4. What is proved

Every theorem holds for all values of the constants that the named assumption of its
module allows: any number of client slots, any sizes of reads, buffers and queues, any
length of password, code or telemetry round, any bound of the exploration. Each proof has
the same plan: an inductive invariant `IInv`, checked by TLC on the instance of the run
before it was proved; one lemma per action, with a step per conjunct the action can
disturb; `Invariance` combines them; each property then follows from `IInv`.

| Module | Proves | Assumes of the constants |
|---|---|---|
| `SatelliteProofs` | `TypeOK`, `NoFaultForgotten`, `DescentHasAltitude`, `ReadyIsAtRest`, `TelemetryIsSettled`, `EventsTellTheStory`, `ExplosionIsFinal`, `Audience`, `ReplyDiscipline`, the refinement `MissionLifeCycle` | `SatelliteAssumption`: types |
| `LinkProofs` | `TypeOK`, `InOrder`, `NothingLostInSession`, `RepliesPaired` | `LinkAssumption`: a buffer holds two reads; a line fits a read; AUTH_OK and a push do not fit the first one |
| `ControllerProofs` | `TypeOK`, `LaunchPending`, `FaultsFlagged`, `NoLeftoverDigits`, `RepairKeepsAlerts` | `ControllerAssumption`: types |
| `InjectorProofs` | `TypeOK`, `InStep`, `ExplosionReaches`, `LandingReaches` | `InjectorAssumption`: a round of telemetry is not empty, a line is tried at least once |
| `RemoteProofs` | `KeysAreNotConfused`: whatever edges are lost or late, a key is read as itself or not at all | `RemoteAssumption`: the form of NEC codes |
| `DashboardProofs` | `TypeOK`, `FaultsAgree`, `NoPhantomAlarm`, `LossShown`, `NoLoneLoss` | `DashboardAssumption`: types |
| `EntryProofs` | `TypeOK`, `NoWrongKey`, `StarsMatch`, `LaunchAuthorised` | `EntryAssumption`, `RemoteAssumption` |

`Folding` has what `RemoteProofs`, `InjectorProofs` and `DashboardProofs` share: a fold over a sequence is
the last value of a chain of single steps, from the definitions of the community modules,
and a statement about naturals holds if its least counterexample is impossible
(`LeastOf`). With it the induction over the bits of a frame, the orders of one read and the
lines of one frame of the screen is done inside the proofs.

**Satellite.** `IInv` conjoins five of the invariants with `SettledBeforePush`, that once
`check_state_transitions` has run no phase is left to leave, and `AltitudeWasReceived`: a
positive altitude was received. The latter is what makes `DescentHasAltitude` inductive: `CmdLD` needs an
altitude of 100 km, and only `SET ALTITUDE` makes it positive, which sets
`g_altitude_received`; touchdown and reset, which clear it, also clear the altitude.
`ReadyIsAtRest` needs the type of the phase (LANDING is never entered) and
`NoFaultForgotten` uses that explosions keep the phase EXPLODED until a reset clears the
faults. `Refinement` shows each action to be a step of `MissionPhase` or a stutter.
For `Audience` and `ReplyDiscipline` the invariant says what a step writes to each slot
by the role of the client in it (`Shaped`: at most one reply and one push, in the order of
the role), and that a client has a role exactly when it is authenticated. It also says which
events may be among them: telemetry only if the phase is settled, which `SettledBeforePush`
gives for the periodic push, or the step greets a controller (`Pushable`), which is
`TelemetryIsSettled`.

**Link.** `IInv` speaks of one sequence, `Stream`: what is buffered followed by what is in
transit. `Follows` says that its pushes continue those delivered, `Keeps` that beyond some
point it has only whole lines and every push not yet delivered, `OneReply` that it holds
at most the reply of the command waited for. Reading moves the border inside `Stream`,
taking a line removes its head (in `send_cmd_recv`, its middle), a cut removes its tail:
the lemmas about removals carry the three statements through every action.
`Room` is why the buffer never overflows: between two reads less than one read is left in
it. That needs a line to be no longer than a read: the longest line is TELEMETRY with six
integers, under 150 bytes (`satellite_handler.c:111`), and a read takes 511
(`joypi_ctrl_net.c:250`). `LinkAssumption` also says that the one read of `auth_satellite`,
63 bytes, does not hold AUTH_OK and a whole telemetry line, which have 78 at least.

**Controller.** `OneReply` (a reply in transit is the only one and `send_cmd_recv` waits
for it), `Asking` (the satellite carries out the command awaited, never an older one),
`LaunchAnnounced` (OK LAUNCH is followed at once by its event), `Flagging` (after every
line that clears a fault flag of an announced fault its announcement is still to come).
`RepairKeepsAlerts`, an action property, follows from `Flagging`. `NoLeftoverDigits` comes
from a stronger conjunct: the buffer holds exactly what was typed since BT1.

**Injector.** `Single` and `Between` locate the one line that may be unanswered, which is
`InStep`. `Tracked` relates the physics to the phase: a rocket the satellite holds in orbit,
descending or destroyed can still land, comes down, or is a wreck, counting the orders in
transit. It is inductive only with `Launching`: while LAUNCH is in transit the rocket is
below orbit on both sides, and no answer is read before the order. The order in which a read
obeys its lines matters, so `Obey` is unfolded into its single events (`Folding`).

**Remote and Entry.** After each mark of a frame the decoder is too short to complete a
code, or what it holds has ones only where the code has some, or a zero where every code
has a one, or is the code behind one bit that the leader was taken for (`Progress`).
`RemoteAssumption` states the two properties of NEC codes this takes: every code begins
with zeros and a one, and no code's ones include another's (each carries a byte and its
complement); a head without a zero does not suffice, as TLC shows: the source masks eight. `Entry` says of
the lines still unread what the stars *will* be: from whatever line the dashboard starts,
the popup shows one star for each digit at the end (`StarsFollow`), and the digits entered are the
password's only as far as they were pressed in order (`PressedInOrder`).

**Dashboard.** Each thing the screen shows is switched by words of one FIFO, and the last
word decides (`Stands`). So `IInv` says what the unread lines *will* make of the picture: the
faults the satellite has open and no others (`FaultsFollow`), the loss if it lost the rocket
(`LossFollows`), no loss of an earlier rocket without RESET_SIM behind it (`LossIsNews`), the
end of every pressure alarm (`PressureFollows`, `AnomalyFollows`). A fault that is opened,
closed and opened again between two frames keeps its turns (`FaultsAlternate`), which keeps its
timer on the screen at most one frame ahead of the satellite's (`TimersFollow`) and gives
`NoLoneLoss`. `Lit` and `Sound` relate lamp, anomaly, faults and timers inside the picture;
`Lit` is made by the end of
`update_dynamics` and broken by single lines, so it holds of whole frames only. The hard action is `Frame`: the
lines it reads are picked from the two FIFOs and folded into the picture. The proof unfolds both
folds into chains of single lines, shows that what is picked lists its positions in order, so
that `Stands` says the same of it as of `wire`, and that the words that matter to one part of
the picture come from one FIFO. It holds for every pair of prefixes a frame may take, every size of the
pending buffers, every length of the timers, and with `Everything = TRUE`, that is without
the restrictions of `DashboardSafety`.

Model-checked only: liveness (`FaultIsDecided`, `DescentEnds`, `PasswordModeEnds`,
`DescentCompletes`), which is outside the prover. Every invariant and action property of the
passing runs is proved.

## 5. Not modelled

The actuators and the drawing of the screen: output that nothing reads back. The
integration of the flight physics, in the injector and on the dashboard, beyond its classes
(real time and floating point). Steering and its debounce, which change only attitude.
NEC repeat frames, which return no key. Partial writes on the server's sockets, the cutting
of its clients' lines, the unused socket library, the hardware tests.
`Satellite` accepts any lines of an injector, in any order and at any time, which
includes what the real one sends. `Injector` has one injector; `Satellite` has more.
What happens after a loss is modelled, but only `InStep` is claimed of it: a landing
order lost with the connection leaves the satellite in EMERGENCY until a reset, and so
does a CMD LD accepted on an old altitude after the satellite was restarted in flight.
A crash landing is not reported either: the satellite announces EVENT LANDED. The same
holds of the dashboard: after a lost line, or a launch with a fault open, the screen differs
until the next reset, and `untold` excludes it. The alert of a pressure fault goes out with
the repair of another one, and a popup left open by a time-out keeps its stars, so that the
right password is refused once at the keyboard: no document says otherwise.

## 6. Disagreements found

* `ControllerPwdDoc`: the 30 s clock of the password mode is only reset when it
  expires, so a later entry is cut short (`joypi_ctrl_keys.c:98`).
* `ControllerLaunchDoc`: a connection that breaks after `OK LAUNCH` leaves
  `launch_in_progress` set on the next one (`joypi_ctrl_net.c:511`).
* `InjectorResetDoc`: `resolve` and `reset` clear the model first, then obey an
  EXPLODE that was in transit while they wait for the OK of RESET; the mission is
  announced reset with the rocket destroyed, until another reset or a launch
  (`data_input_text.c:441`).

Without a run: `docs/FLUX_INTERACTIONS.md:400` announces an automatic landing
("LANDING auto, EVENT LAND_AUTO") when the tank is empty; the code destroys the rocket
(`satellite_handler.c:142`), and `Satellite!TypeOK`, proved, says that LANDING is never
entered.

## 7. Plan

1. A richer promise between the modules: `Controller`, `Injector` and `Dashboard` rest on the
   pressure cycle, the fault clocks and the place of the replies too, which are proved of
   `Satellite` one by one or read from the code, but not stated as one abstract specification
   that it refines.
2. The cutting of client lines in the server, steering and its debounce.
