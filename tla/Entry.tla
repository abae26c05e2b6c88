---------------------------------- MODULE Entry ----------------------------------
(***************************************************************************)
(* The entry of the launch password, by the infrared remote into the       *)
(* controller (joypi_ctrl_actions.c, joypi_ctrl_keys.c, with the decoder   *)
(* of module Remote) and by the keyboard into the popup of the dashboard   *)
(* (dashboard_logic.c), which shows a star for each digit of the remote.   *)
(* The controller writes the command FIFO, the dashboard the FIFO of       *)
(* launch authorisations.                                                  *)
(*                                                                         *)
(* The satellite is READY or not, and answers CMD LU; what else ends a     *)
(* flight, in the satellite or on the screen, may happen at any time.  The *)
(* clock of the password mode is module Controller's: here it may strike   *)
(* at any time.  A frame reads lines and then a key; lines are read one by *)
(* one, as those of a frame may be spread over several.                    *)
(***************************************************************************)
EXTENDS Remote

CONSTANTS
  Password,    \* PASSWORD_CORRECT, as a sequence of digits
  PassbufMax,  \* digits that fit into the popup (15)
  LinesMax     \* bound of the exploration: lines unread in a FIFO when more are
               \* written

Digits == Keys \ {"OK", "BACK"}
Star   == "*"

ASSUME EntryAssumption ==
  /\ {"OK", "BACK"} \subseteq Keys /\ Star \notin Digits
  /\ PassbufMax \in Nat /\ LinesMax \in Nat
  /\ Password \in Seq(Digits) /\ Len(Password) \in 1..PassbufMax

VARIABLES
  mode,               \* "NORMAL" or "PASSWORD"
  password_buf,       \* the digits of the remote
  launch_in_progress,
  request,            \* who asked for the CMD LU waited for: "remote", "keyboard"
  up,                 \* the controller is connected to the satellite
  ready,              \* the satellite is READY
  announced,          \* EVENT LAUNCH is on its way to the controller
  cmd,                \* lines of the command FIFO
  auth,               \* number of LAUNCH_AUTH_OK lines in the other one
  popup, passbuf, launched,  \* launch_auth_popup, launch_passbuf, launched
  pressed,            \* history: digits of the password pressed in order, on
                      \* the remote since BT1, in the popup since it opened
  alone,              \* history: no key of the keyboard since the popup was empty
  misread             \* history: a key of the remote was read as another one

controller == <<mode, password_buf, launch_in_progress, request>>
satellite  == <<up, ready, announced>>
dashboard  == <<popup, passbuf, launched>>
vars == <<controller, satellite, cmd, auth, dashboard, pressed, alone, misread>>

Init ==
  /\ mode = "NORMAL" /\ password_buf = << >> /\ launch_in_progress = FALSE
  /\ request = None
  /\ up = TRUE /\ ready = TRUE /\ announced = FALSE
  /\ cmd = << >> /\ auth = 0
  /\ popup = FALSE /\ passbuf = << >> /\ launched = FALSE
  /\ pressed = [remote |-> 0, keyboard |-> 0] /\ alone = TRUE
  /\ misread = FALSE

(* History: one more digit of the password was pressed.                    *)
Advanced(n, k) == IF n < Len(Password) /\ Password[n + 1] = k THEN n + 1 ELSE n

-----------------------------------------------------------------------------
(* The controller, when it does not wait for the answer of a CMD LU.       *)

Writes(lines) == Len(cmd) < LinesMax /\ cmd' = cmd \o lines
Runs == request = None /\ UNCHANGED <<satellite, dashboard, alone>>

(* Wrong variant of LaunchKey: password_reset is not called.               *)
LaunchKeyKeepsBuffer ==
  /\ Runs /\ mode = "NORMAL" /\ mode' = "PASSWORD"
  /\ Writes(<<"PASSRESET", "LAUNCH">>) /\ pressed' = [pressed EXCEPT !.remote = 0]
  /\ UNCHANGED <<password_buf, launch_in_progress, request, auth, misread>>

(* BT1.                                                                    *)
LaunchKey ==
  /\ Runs /\ mode = "NORMAL" /\ mode' = "PASSWORD" /\ password_buf' = << >>
  /\ Writes(<<"PASSRESET", "LAUNCH">>) /\ pressed' = [pressed EXCEPT !.remote = 0]
  /\ UNCHANGED <<launch_in_progress, request, auth, misread>>

(* CMD LU, which fails at once without a connection.                       *)
Asks(device) ==
  /\ mode' = "NORMAL" /\ launch_in_progress' = up
  /\ request' = IF up THEN device ELSE None

(* password_confirm of digits, whose echo is still to be written.  A right *)
(* password is ignored during a launch.                                    *)
password_confirm(digits, echo) ==
  /\ password_buf' = << >> /\ Writes(Append(echo, "PASSRESET"))
  /\ IF digits = Password /\ ~launch_in_progress
     THEN Asks("remote")
     ELSE UNCHANGED <<mode, launch_in_progress, request>>

(* Wrong variant of password_add_char: the last digit does not confirm.    *)
password_add_char_only(c) ==
  /\ password_buf' = Append(password_buf, c) /\ Writes(<<"PASSCHAR">>)
  /\ UNCHANGED <<mode, launch_in_progress, request>>

(* The last digit confirms.                                                *)
password_add_char(c) ==
  LET digits == Append(password_buf, c) IN
  IF Len(digits) = Len(Password)
  THEN password_confirm(digits, <<"PASSCHAR">>)
  ELSE /\ password_buf' = digits /\ Writes(<<"PASSCHAR">>)
       /\ UNCHANGED <<mode, launch_in_progress, request>>

(* Wrong variant of password_backspace: the dashboard is not told.         *)
password_backspace_silent ==
  IF password_buf # << >>
  THEN password_buf' = Front(password_buf) /\ UNCHANGED <<cmd, mode, launch_in_progress, request>>
  ELSE /\ mode' = "NORMAL" /\ Writes(<<"PASSRESET">>)
       /\ UNCHANGED <<password_buf, launch_in_progress, request>>

password_backspace ==
  /\ IF password_buf # << >>
     THEN password_buf' = Front(password_buf) /\ Writes(<<"PASSBACK">>) /\ UNCHANGED mode
     ELSE mode' = "NORMAL" /\ Writes(<<"PASSRESET">>) /\ UNCHANGED password_buf
  /\ UNCHANGED <<launch_in_progress, request>>

(* A key of the remote is pressed, and another one or none may be read.    *)
RemoteKey(k) ==
  /\ Runs /\ mode = "PASSWORD"
  /\ pressed' = [pressed EXCEPT !.remote = Advanced(@, k)]
  /\ \E read \in ir_poll[k] :
       /\ misread' = (misread \/ read \notin {k, None})
       /\ \/ read \in Digits /\ password_add_char(read)
          \/ read = "OK" /\ password_confirm(password_buf, << >>)
          \/ read = "BACK" /\ password_backspace
          \/ read = None /\ UNCHANGED <<controller, cmd>>
  /\ UNCHANGED auth

(* The time-out of the mode, or a failed authentication.                   *)
EntryEnds ==
  /\ Runs /\ mode = "PASSWORD" /\ mode' = "NORMAL"
  /\ UNCHANGED <<password_buf, launch_in_progress, request, cmd, auth, pressed, misread>>

(* poll_auth_pipe: one read takes all.                                     *)
ReadAuth ==
  /\ Runs /\ auth > 0 /\ auth' = 0
  /\ IF up /\ ~launch_in_progress
     THEN Asks("keyboard")
     ELSE UNCHANGED <<mode, launch_in_progress, request>>
  /\ UNCHANGED <<password_buf, cmd, pressed, misread>>

-----------------------------------------------------------------------------
(* The dashboard.                                                          *)

(* apply_cmd.                                                              *)
ReadLine ==
  /\ cmd # << >> /\ cmd' = Tail(cmd)
  /\ LET op == Head(cmd) IN
     \/ /\ op = "LAUNCH" /\ ~launched
        /\ popup' = TRUE /\ passbuf' = << >> /\ alone' = TRUE
        /\ pressed' = [pressed EXCEPT !.keyboard = 0] /\ UNCHANGED launched
     \/ /\ op = "LAUNCH_OK" /\ ~launched
        /\ launched' = TRUE /\ popup' = FALSE /\ UNCHANGED <<passbuf, pressed, alone>>
     \/ op \in {"LAUNCH", "LAUNCH_OK"} /\ launched /\ UNCHANGED <<dashboard, pressed, alone>>
     \/ /\ op = "PASSCHAR" /\ UNCHANGED <<popup, launched, pressed, alone>>
        /\ passbuf' = IF popup /\ Len(passbuf) < PassbufMax THEN Append(passbuf, Star) ELSE passbuf
     \/ /\ op = "PASSBACK" /\ UNCHANGED <<popup, launched, pressed, alone>>
        /\ passbuf' = IF popup /\ passbuf # << >> THEN Front(passbuf) ELSE passbuf
     \/ /\ op = "PASSRESET" /\ passbuf' = << >> /\ alone' = TRUE
        /\ UNCHANGED <<popup, launched, pressed>>
     \/ /\ op = "RESET_SIM" /\ popup' = FALSE /\ passbuf' = << >> /\ launched' = FALSE
        /\ alone' = TRUE /\ UNCHANGED pressed
  /\ UNCHANGED <<controller, satellite, auth, misread>>

(* handle_local_input: a key while the popup is open.  The authorisation   *)
(* is dropped when the controller has not opened its end of the FIFO.      *)
KeyboardKey(k) ==
  /\ popup /\ alone' = FALSE
  /\ \/ /\ k = "OK" /\ passbuf = Password /\ auth < LinesMax
        /\ popup' = FALSE /\ auth' \in {auth, auth + 1} /\ UNCHANGED <<passbuf, pressed>>
     \/ /\ k = "OK" /\ passbuf # Password
        /\ passbuf' = << >> /\ UNCHANGED <<popup, auth, pressed>>
     \/ /\ k = "BACK" /\ passbuf # << >> /\ passbuf' = Front(passbuf)
        /\ UNCHANGED <<popup, auth, pressed>>
     \/ /\ k \in Digits /\ Len(passbuf) < PassbufMax /\ passbuf' = Append(passbuf, k)
        /\ pressed' = [pressed EXCEPT !.keyboard = Advanced(@, k)] /\ UNCHANGED <<popup, auth>>
  /\ UNCHANGED <<controller, satellite, cmd, launched, misread>>

(* The simulation of the dashboard ends a flight, landed or lost.          *)
FlightEnds ==
  /\ launched /\ launched' = FALSE
  /\ UNCHANGED <<controller, satellite, cmd, auth, popup, passbuf, pressed, alone, misread>>

(* The dashboard restarts; lines are lost.                                 *)
Restart ==
  /\ popup' = FALSE /\ passbuf' = << >> /\ launched' = FALSE /\ alone' = TRUE
  /\ \E n \in 1..(Len(cmd) + 1) : cmd' = SubSeq(cmd, n, Len(cmd))
  /\ UNCHANGED <<controller, satellite, auth, pressed, misread>>

-----------------------------------------------------------------------------
(* The satellite and the connection.                                       *)

Elsewhere == UNCHANGED <<mode, password_buf, auth, dashboard, pressed, alone, misread>>

(* OK LAUNCH, after which EVENT LAUNCH follows; or FAIL.                   *)
Answers ==
  /\ request # None /\ request' = None /\ ready' = FALSE
  /\ launch_in_progress' = (ready /\ launch_in_progress) /\ announced' = (announced \/ ready)
  /\ UNCHANGED <<up, cmd>> /\ Elsewhere

(* EVENT LAUNCH.                                                           *)
Confirms ==
  /\ announced /\ announced' = FALSE /\ launch_in_progress' = FALSE
  /\ Writes(<<"LAUNCH_OK">>)
  /\ UNCHANGED <<request, up, ready>> /\ Elsewhere

(* The connection ends, noticed in send_cmd_recv or by poll_satellite_push; *)
(* a command that was sent may still be carried out.                       *)
Cut ==
  /\ up /\ up' = FALSE /\ announced' = FALSE /\ request' = None
  /\ launch_in_progress' = (request = None /\ launch_in_progress)
  /\ ready' \in {ready, ready /\ request = None}
  /\ UNCHANGED cmd /\ Elsewhere

Reconnect == ~up /\ up' = TRUE /\ UNCHANGED <<controller, ready, announced, cmd>> /\ Elsewhere

(* EVENT RESET, or EVENT LANDED, which does not reset the dashboard.       *)
Resets ==
  /\ ~announced /\ ready' = TRUE
  /\ launch_in_progress' = (launch_in_progress /\ ~up)
  /\ \/ up /\ Writes(<<"RESET_SIM">>)
     \/ ~ready /\ UNCHANGED cmd
  /\ UNCHANGED <<request, up, announced>> /\ Elsewhere

(* Telemetry at rest after a flight resets the dashboard too.              *)
Rests ==
  /\ up /\ ready /\ Writes(<<"RESET_SIM">>)
  /\ UNCHANGED <<launch_in_progress, request, satellite>> /\ Elsewhere

-----------------------------------------------------------------------------
Next ==
  \/ LaunchKey \/ \E k \in Keys : RemoteKey(k)
  \/ EntryEnds \/ ReadAuth
  \/ ReadLine \/ \E k \in Keys : KeyboardKey(k)
  \/ FlightEnds \/ Restart
  \/ Answers \/ Confirms \/ Cut \/ Reconnect \/ Resets \/ Rests

Spec == Init /\ [][Next]_vars

-----------------------------------------------------------------------------
(* Properties.                                                             *)

(* Types; the digits of the remote are always fewer than the password's.   *)
TypeOK ==
  /\ mode \in {"NORMAL", "PASSWORD"} /\ launch_in_progress \in BOOLEAN
  /\ password_buf \in Seq(Digits) /\ Len(password_buf) < Len(Password)
  /\ request \in {"remote", "keyboard", None}
  /\ up \in BOOLEAN /\ ready \in BOOLEAN /\ announced \in BOOLEAN
  /\ cmd \in Seq({"LAUNCH", "LAUNCH_OK", "PASSCHAR", "PASSBACK", "PASSRESET", "RESET_SIM"})
  /\ auth \in 0..LinesMax
  /\ popup \in BOOLEAN /\ launched \in BOOLEAN
  /\ passbuf \in Seq(Digits \cup {Star}) /\ Len(passbuf) <= PassbufMax
  /\ pressed \in [{"remote", "keyboard"} -> 0..Len(Password)]
  /\ alone \in BOOLEAN /\ misread \in BOOLEAN

(* However the edges of a frame are seen, it is read as the key that was   *)
(* pressed or not at all: neither edges missed or late, nor the rest of an *)
(* earlier frame, turn a key into another one.                             *)
NoWrongKey == ~misread

(* The popup shows a star for each digit the remote has entered, once its  *)
(* lines are read and unless the keyboard is used: through entries that    *)
(* time out, fail or start again, resets, flights and restarts.            *)
StarsMatch ==
  popup /\ alone /\ mode = "PASSWORD" /\ cmd = << >> =>
    passbuf = [i \in DOMAIN password_buf |-> Star]

(* The password is pressed on one device for each launch: the remote asks  *)
(* for one only if all its digits were pressed on it, in order, since BT1, *)
(* and the keyboard only if they were since the popup opened.  Neither the *)
(* decoder, an entry left unfinished, the stars of the other device nor    *)
(* its backspaces complete a password.                                     *)
LaunchAuthorised ==
  [][/\ request' = "remote" /\ request # "remote" => pressed'.remote = Len(Password)
     /\ auth' > auth => pressed.keyboard = Len(Password)]_vars
=============================================================================
