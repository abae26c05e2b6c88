--------------------------------- MODULE Link ---------------------------------
(***************************************************************************)
(* The TCP link of the JoyPi controller (src/JoyPi/joypi_ctrl_net.c): the  *)
(* satellite answers commands and pushes TELEMETRY and EVENT lines on one  *)
(* byte stream, and send_cmd_recv and poll_satellite_push share            *)
(* g_push_buf to cut that stream into lines.                               *)
(*                                                                         *)
(* Abstractions.  A line is two fragments, a start that holds its prefix   *)
(* and an end that holds its newline, so a read can cut a line in two; the *)
(* eight bytes of AUTH_OK, first on a fresh connection, are one fragment.  *)
(* Sizes are counted in fragments.  What a command asks and what a push    *)
(* says is left to module Controller: here they are numbered.  The 2 s     *)
(* time-outs may strike whenever no complete line is buffered.             *)
(***************************************************************************)
EXTENDS Integers, Sequences

CONSTANTS
  ReadMax,      \* what one read takes (511 bytes)
  AuthMax,      \* what the read of auth_satellite takes (63 bytes)
  BufMax,       \* sizeof(g_push_buf) - 1 (2047 bytes)
  MaxPushes, MaxCommands, MaxSessions   \* bounds of the exploration

ASSUME LinkAssumption ==
  /\ ReadMax \in Nat \ {0, 1}    \* a line fits into a read
  /\ AuthMax \in 1..2            \* AUTH_OK and a telemetry line, 78 bytes, do not
  /\ BufMax \in Nat
  /\ 2 * ReadMax <= BufMax      \* what a reply leaves, and one more read, fit
  /\ MaxPushes \in Nat /\ MaxCommands \in Nat /\ MaxSessions \in Nat

VARIABLES
  pc,          \* "idle": a turn of the main loop begins; "auth": in
               \* auth_satellite; "drain": in poll_satellite_push; "keys":
               \* the keys and the auth pipe; "await": in send_cmd_recv
  conn,        \* "down": sat_fd < 0; "up"; "cut": the peer is gone, unnoticed
  wire,        \* fragments on their way to the controller
  buf,         \* g_push_buf
  request,     \* line on its way to the satellite: 0 none, -1 AUTH, or command
  listening,   \* the satellite has authenticated this session
  session, pushes, commands,     \* how many so far
  first,       \* history: the push that came with AUTH_OK
  clean,       \* history: this session began at a line boundary
  delivered,   \* history: the pushes handled, in the order they were
  answer       \* history: what the last command was answered

local  == <<pc, conn, buf>>
remote == <<wire, request, listening, pushes>>
past   == <<first, clean, delivered, answer>>
vars   == <<local, remote, session, commands, past>>

-----------------------------------------------------------------------------
(* Lines and fragments.                                                    *)

Start(l) == [line |-> l, end |-> FALSE]
End(l)   == [line |-> l, end |-> TRUE]
Text(l)  == <<Start(l), End(l)>>
AuthOk   == End([kind |-> "auth", n |-> 0])
PushLine(n)  == [kind |-> "push", n |-> n]
ReplyLine(n) == [kind |-> "reply", n |-> n]

Complete(b)  == \E i \in DOMAIN b : b[i].end
LineEnd(b)   == CHOOSE i \in DOMAIN b : b[i].end /\ \A j \in 1..(i - 1) : ~b[j].end
FirstLine(b) == SubSeq(b, 1, LineEnd(b))
Rest(b)      == SubSeq(b, LineEnd(b) + 1, Len(b))

(* is_push_line looks at the prefix only.                                  *)
IsPush(text) == text[1].line.kind = "push" /\ ~text[1].end

(* A garbled push is handled too: its event is unknown, or not all its     *)
(* telemetry is there.                                                     *)
Handled(text) ==
  IF IsPush(text) /\ text = Text(text[1].line) THEN <<text[1].line.n>> ELSE << >>

(* Wrong variants of Store: no overflow check; new bytes go first.         *)
StoreUnchecked(b, bytes) == b \o bytes
StoreInFront(b, bytes)   == bytes \o b

(* buffer_incoming_bytes, and the same lines in poll_satellite_push: a     *)
(* buffer about to overflow is emptied first.                              *)
Store(b, bytes) == IF Len(b) + Len(bytes) >= BufMax THEN bytes ELSE b \o bytes

-----------------------------------------------------------------------------
Init ==
  /\ pc = "idle" /\ conn = "down"
  /\ wire = << >> /\ buf = << >> /\ request = 0 /\ listening = FALSE
  /\ session = 0 /\ pushes = 0 /\ commands = 0
  /\ first = 0 /\ clean = TRUE /\ delivered = << >>
  /\ answer = [command |-> 0, text |-> << >>, clean |-> TRUE]

(* close(sat_fd), sat_fd = -1, authed = false; g_push_buf keeps its bytes. *)
Close ==
  /\ conn' = "down" /\ wire' = << >> /\ request' = 0 /\ listening' = FALSE
  /\ pc' = "idle"
  /\ UNCHANGED <<buf, pushes, session, commands, past>>

(* try_reconnect, with which a turn begins; that connect() fails, or that  *)
(* it is too early to try, changes nothing.                                *)
Connect ==
  /\ pc = "idle" /\ conn = "down" /\ session < MaxSessions
  /\ conn' = "up" /\ pc' = "auth" /\ request' = -1
  /\ session' = session + 1
  /\ UNCHANGED <<buf, wire, listening, pushes, commands, past>>

(* auth_satellite reads once; what follows AUTH_OK in that read is lost.   *)
AuthRead(k) ==
  /\ pc = "auth" /\ k \in 1..AuthMax /\ k <= Len(wire)
  /\ wire[1] = AuthOk
  /\ wire' = SubSeq(wire, k + 1, Len(wire))
  /\ pc' = "idle"
  /\ clean' = (buf = << >> /\ wire[k].end)
  /\ UNCHANGED <<conn, buf, request, listening, pushes, session, commands,
                 first, delivered, answer>>

AuthFails == pc = "auth" /\ Close

-----------------------------------------------------------------------------
(* poll_satellite_push.                                                    *)

(* select finds nothing to read within 80 ms.                              *)
PollQuiet ==
  /\ pc = "idle" /\ conn # "down"
  /\ pc' = "keys"
  /\ UNCHANGED <<conn, buf, remote, session, commands, past>>

PollRead(k) ==
  /\ pc = "idle" /\ conn # "down"
  /\ k \in 1..ReadMax /\ k <= Len(wire)
  /\ buf' = Store(buf, SubSeq(wire, 1, k))
  /\ wire' = SubSeq(wire, k + 1, Len(wire))
  /\ pc' = "drain"
  /\ UNCHANGED <<conn, request, listening, pushes, session, commands, past>>

Drain ==
  /\ pc = "drain"
  /\ IF Complete(buf)
     THEN /\ delivered' = delivered \o Handled(FirstLine(buf))
          /\ buf' = Rest(buf)
          /\ UNCHANGED pc
     ELSE pc' = "keys" /\ UNCHANGED <<buf, delivered>>
  /\ UNCHANGED <<conn, remote, session, commands, first, clean, answer>>

PollLost == pc = "idle" /\ conn = "cut" /\ wire = << >> /\ Close

-----------------------------------------------------------------------------
(* send_cmd_recv, called for a key or for the auth pipe: after the poll.   *)

Send ==
  /\ pc = "keys" /\ commands < MaxCommands
  /\ commands' = commands + 1
  /\ request' = commands + 1
  /\ pc' = "await"
  /\ UNCHANGED <<conn, buf, wire, listening, pushes, session, past>>

(* write() fails on a connection that is gone.                             *)
SendFails == pc = "keys" /\ conn = "cut" /\ Close

AwaitPush ==
  /\ pc = "await" /\ Complete(buf) /\ IsPush(FirstLine(buf))
  /\ delivered' = delivered \o Handled(FirstLine(buf))
  /\ buf' = Rest(buf)
  /\ UNCHANGED <<pc, conn, remote, session, commands, first, clean, answer>>

(* Wrong variant of AwaitReply: what follows the reply is dropped.         *)
AwaitReplyOnly ==
  /\ pc = "await" /\ Complete(buf) /\ ~IsPush(FirstLine(buf))
  /\ answer' = [command |-> commands, text |-> FirstLine(buf), clean |-> clean]
  /\ buf' = << >>
  /\ pc' = "keys"
  /\ UNCHANGED <<conn, remote, session, commands, first, clean, delivered>>

(* The first line that is not a push is the reply; what follows it stays.  *)
AwaitReply ==
  /\ pc = "await" /\ Complete(buf) /\ ~IsPush(FirstLine(buf))
  /\ answer' = [command |-> commands, text |-> FirstLine(buf), clean |-> clean]
  /\ buf' = Rest(buf)
  /\ pc' = "keys"
  /\ UNCHANGED <<conn, remote, session, commands, first, clean, delivered>>

AwaitRead(k) ==
  /\ pc = "await" /\ ~Complete(buf)
  /\ k \in 1..ReadMax /\ k <= Len(wire)
  /\ buf' = Store(buf, SubSeq(wire, 1, k))
  /\ wire' = SubSeq(wire, k + 1, Len(wire))
  /\ UNCHANGED <<pc, conn, request, listening, pushes, session, commands, past>>

(* Wrong variant of AwaitFails: a time-out keeps the connection.           *)
AwaitGivesUp ==
  /\ pc = "await" /\ ~Complete(buf)
  /\ pc' = "keys"
  /\ UNCHANGED <<conn, buf, remote, session, commands, past>>

(* A time-out or a lost connection closes the socket.                      *)
AwaitFails == pc = "await" /\ ~Complete(buf) /\ Close

(* Nothing more to ask: the next turn begins.                              *)
TurnEnds ==
  /\ pc = "keys" /\ pc' = "idle"
  /\ UNCHANGED <<conn, buf, remote, session, commands, past>>

-----------------------------------------------------------------------------
(* The satellite and the network, external to this file.  A command's      *)
(* reply is written before the event it causes, AUTH_OK before a telemetry *)
(* line (see module Satellite).                                            *)

Push(n) == Text(PushLine(n))

SatelliteAuth ==
  /\ conn = "up" /\ request = -1 /\ pushes < MaxPushes
  /\ wire' = wire \o <<AuthOk>> \o Push(pushes + 1)
  /\ pushes' = pushes + 1 /\ first' = pushes + 1
  /\ listening' = TRUE /\ request' = 0
  /\ UNCHANGED <<local, session, commands, clean, delivered, answer>>

SatelliteReply ==
  /\ conn = "up" /\ request > 0 /\ request' = 0
  /\ \/ /\ wire' = wire \o Text(ReplyLine(request))
        /\ UNCHANGED pushes
     \/ /\ pushes < MaxPushes /\ pushes' = pushes + 1
        /\ wire' = wire \o Text(ReplyLine(request)) \o Push(pushes + 1)
  /\ UNCHANGED <<local, listening, session, commands, past>>

SatellitePush ==
  /\ conn = "up" /\ listening /\ pushes < MaxPushes
  /\ wire' = wire \o Push(pushes + 1)
  /\ pushes' = pushes + 1
  /\ UNCHANGED <<local, request, listening, session, commands, past>>

(* The connection breaks; some of what was on its way still arrives.       *)
Cut ==
  /\ conn = "up" /\ conn' = "cut"
  /\ \E k \in 0..Len(wire) : wire' = SubSeq(wire, 1, k)
  /\ request' = 0 /\ listening' = FALSE
  /\ UNCHANGED <<pc, buf, pushes, session, commands, past>>

Next ==
  \/ Connect \/ AuthFails
  \/ \E k \in 1..AuthMax : AuthRead(k)
  \/ \E k \in 1..ReadMax : PollRead(k) \/ AwaitRead(k)
  \/ PollQuiet \/ Drain \/ PollLost \/ TurnEnds
  \/ Send \/ SendFails \/ AwaitPush \/ AwaitReply \/ AwaitFails
  \/ SatelliteAuth \/ SatelliteReply \/ SatellitePush \/ Cut

Spec == Init /\ [][Next]_vars

-----------------------------------------------------------------------------
(* Properties.                                                             *)

LineSet == [kind : {"auth"}, n : {0}] \cup [kind : {"push"}, n : 1..MaxPushes]
                                     \cup [kind : {"reply"}, n : 1..MaxCommands]
Fragments == [line : LineSet, end : BOOLEAN]

(* Types; g_push_buf is never written past its end.                        *)
TypeOK ==
  /\ pc \in {"idle", "auth", "drain", "keys", "await"} /\ conn \in {"down", "up", "cut"}
  /\ wire \in Seq(Fragments) /\ buf \in Seq(Fragments) /\ Len(buf) < BufMax
  /\ request \in -1..MaxCommands /\ listening \in BOOLEAN /\ clean \in BOOLEAN
  /\ session \in 0..MaxSessions /\ pushes \in 0..MaxPushes
  /\ commands \in 0..MaxCommands /\ first \in 0..MaxPushes
  /\ delivered \in Seq(1..MaxPushes)
  /\ answer \in [command : 0..MaxCommands, text : Seq(Fragments), clean : BOOLEAN]

(* Pushes are handled in the order they were sent, and none of them twice, *)
(* although two functions read the socket, share a buffer that survives    *)
(* the connection, and handle pushes in the middle of a command.           *)
InOrder ==
  \A i, j \in DOMAIN delivered : i < j => delivered[i] < delivered[j]

Intact(n, b) ==
  \E i \in 1..(Len(b) - 1) :
    /\ b[i] = Start(PushLine(n)) /\ b[i + 1] = End(PushLine(n))
    /\ i = 1 \/ b[i - 1].end

(* While a session lasts no push is lost, but the telemetry that came with *)
(* AUTH_OK: each has been handled or is still there, intact.  This is what *)
(* docs/ARTICLE_JOURNAL_LINUX.md 5.4 and 11.2 ask of send_cmd_recv.        *)
NothingLostInSession ==
  conn = "up" /\ listening /\ pc # "auth" =>
    \A n \in (first + 1)..pushes :
      (\E i \in DOMAIN delivered : delivered[i] = n) \/ Intact(n, buf \o wire)

(* In a session that began at a line boundary, what send_cmd_recv returns  *)
(* is the reply to its own command, never a late reply to another one.     *)
(* (auth_satellite may drop the start of a line.  The poll of that turn    *)
(* finds its end, unless it is more than 80 ms late: then a command could  *)
(* take it for a reply.)                                                   *)
RepliesPaired ==
  answer.clean /\ answer.command > 0 => answer.text = Text(ReplyLine(answer.command))
=============================================================================
