--------------------------- MODULE ControllerProofs ---------------------------
(***************************************************************************)
(* What holds of the controller for any set of faults and commands, any    *)
(* length of the password and of its time-out, and any amount of lines in  *)
(* transit.                                                                *)
(***************************************************************************)
EXTENDS Controller, SequenceTheorems, TLAPS

-----------------------------------------------------------------------------
(* The inductive invariant.                                                *)

(* password_buf holds exactly the digits typed since BT1.                  *)
Typing == TypeOK /\ wire \in Seq(Lines) /\ entered = typed

(* A reply is in transit only to send_cmd_recv, and it is the only one.    *)
OneReply ==
  \A i \in 1..Len(wire) : wire[i] \notin Pushes =>
    /\ pc = "await" /\ request = "none"
    /\ \A j \in 1..Len(wire) : wire[j] \notin Pushes => j = i

(* The satellite carries out the command awaited, never an older one in    *)
(* its place.                                                              *)
Asking ==
  /\ pc = "await" => request \in {asked, "none"}
  /\ pc # "await" => asked = "none"

(* The launch event follows the reply at once: until it is handled the     *)
(* launch is either unanswered or announced.                               *)
LaunchAnnounced ==
  launch_in_progress /\ ~lost =>
    \/ /\ pc = "await" /\ asked = "CMD_LU"
       /\ \A i \in 1..Len(wire) : wire[i] = "OK_LAUNCH" =>
            i < Len(wire) /\ wire[i + 1] = "EVENT_LAUNCH"
    \/ \E i \in 1..Len(wire) : wire[i] = "EVENT_LAUNCH"

(* The lines that make the controller forget fault f.                      *)
Clears(line, f) ==
  \/ line \in {Resolved[f], "EVENT_RESET"}
  \/ f \in {1, 2} /\ asked = Repair[f] /\ line = "OK_REP_FIX"
  \/ f = Pressure /\ asked = "CMD_PRES" /\ line \in {"OK_PRES_FIX", "OK_PRES_OK"}

(* What is still to come leaves every announced fault flagged.             *)
Flagging ==
  \A f \in announced :
    /\ f \in flags \/ \E i \in 1..Len(wire) : wire[i] = Problem[f]
    /\ \A i \in 1..Len(wire) : Clears(wire[i], f) =>
         \E j \in (i + 1)..Len(wire) : wire[j] = Problem[f]

Announcing ==
  /\ conn # "up" => announced = {}
  /\ Pressure \in announced => pressure = "fault"

IInv ==
  /\ Typing /\ OneReply /\ Asking /\ LaunchAnnounced /\ Flagging /\ Announcing

USE ControllerAssumption DEF Pressure

-----------------------------------------------------------------------------
(* Lines and sequences of lines.                                           *)

LEMMA LineFacts ==
  /\ Pushes \subseteq Lines
  /\ {"OK_LAUNCH", "FAIL_ALREADY_LAUNCHED", "FAIL_NOT_READY", "OK_LAND", "FAIL",
      "OK_PRES_FAULT", "OK_PRES_FIX", "OK_PRES_OK", "OK_REP_FIX", "OK_REP_NONE", "DATA"}
     \subseteq Lines \ Pushes
  /\ {"EVENT_LAUNCH", "EVENT_LAND", "EVENT_LANDED", "EVENT_RESET", "EVENT_EXPLODED"}
     \subseteq Pushes
  /\ Telemetered \subseteq Pushes
  /\ \A f \in {0, 1, 2} : Problem[f] \in Pushes /\ Resolved[f] \in Pushes
BY DEF Lines, Pushes, Problem, Resolved

LEMMA WireFacts ==
  ASSUME NEW w \in Seq(Lines)
  PROVE  /\ Len(w) \in Nat /\ DOMAIN w = 1..Len(w)
         /\ \A i \in 1..Len(w) : w[i] \in Lines
         /\ w # << >> => Len(w) > 0
         /\ Len(w) > 0 => w # << >>
BY LenProperties, ElementOfSeq, EmptySeq

LEMMA TailFacts ==
  ASSUME NEW w \in Seq(Lines), w # << >>
  PROVE  /\ Head(w) = w[1] /\ Tail(w) \in Seq(Lines) /\ Len(Tail(w)) = Len(w) - 1
         /\ \A i \in 1..Len(Tail(w)) : Tail(w)[i] = w[i + 1]
         /\ \A i \in 2..Len(w) : i - 1 \in 1..Len(Tail(w)) /\ Tail(w)[i - 1] = w[i]
BY HeadTailProperties, WireFacts

(* What a broken connection leaves of the lines in transit.                *)
LEMMA PrefixFacts ==
  ASSUME NEW w \in Seq(Lines), NEW k \in 0..Len(w)
  PROVE  /\ SubSeq(w, 1, k) \in Seq(Lines) /\ Len(SubSeq(w, 1, k)) = k
         /\ \A i \in 1..k : SubSeq(w, 1, k)[i] = w[i]
BY SubSeqProperties, WireFacts

LEMMA AppendFacts ==
  ASSUME NEW w \in Seq(Lines), NEW x \in Seq(Lines)
  PROVE  /\ w \o x \in Seq(Lines) /\ Len(w \o x) = Len(w) + Len(x)
         /\ \A i \in 1..Len(w) : (w \o x)[i] = w[i]
         /\ \A i \in 1..Len(x) : (w \o x)[Len(w) + i] = x[i]
         /\ \A i \in (Len(w) + 1)..Len(w \o x) :
              i - Len(w) \in 1..Len(x) /\ (w \o x)[i] = x[i - Len(w)]
BY ConcatProperties, WireFacts

-----------------------------------------------------------------------------
(* Types.                                                                  *)

WireType    == wire \in Seq(Lines) /\ lost \in BOOLEAN /\ announced \subseteq {0, 1, 2}
MissionType ==
  /\ phase \in {"READY", "FLYING", "EMERGENCY", "EXPLODED"} /\ open \subseteq Faults
  /\ pressure \in {"nominal", "fault", "corrected"}
DisplayType ==
  /\ launch_in_progress \in BOOLEAN /\ explosion_notified \in BOOLEAN
  /\ flags \subseteq {0, 1, 2} /\ moving \in BOOLEAN
KeypadType ==
  /\ mode \in {"NORMAL", "PASSWORD"}
  /\ typed \in 0..(PwdLength - 1) /\ entered = typed
  /\ pwd_start \in Off..(PwdLimit + 1) /\ since \in Off..(PwdLimit + 1)
StageType ==
  /\ pc \in {"connect", "poll", "scan", "keys", "pipe", "await"}
  /\ back \in {"connect", "keys", "pipe"}
  /\ asked \in Commands \cup {"CMD_LU", "none"}
  /\ request \in Commands \cup {"CMD_LU", "none"}
  /\ conn \in {"down", "up", "cut"}

LEMMA TypingParts ==
  ASSUME Typing
  PROVE  WireType /\ MissionType /\ DisplayType /\ KeypadType /\ StageType
BY DEF Typing, TypeOK, WireType, MissionType, DisplayType, KeypadType, StageType

LEMMA TypingNext ==
  ASSUME WireType', MissionType', DisplayType', KeypadType', StageType'
  PROVE  Typing'
<1>1. \A i \in DOMAIN wire' : wire'[i] \in Lines
  BY WireFacts DEF WireType
<1> QED BY <1>1 DEF Typing, TypeOK, WireType, MissionType, DisplayType, KeypadType, StageType

(* The steps that neither ask nor receive anything.                        *)
QuietActions ==
  \/ Skip \/ AuthFails \/ PollDone \/ PasswordTimeout \/ NoKey \/ Backspace
  \/ ScanNormal \/ LaunchKey \/ KeysDone \/ PipeDone \/ Tick

LEMMA QuietTyping ==
  ASSUME Typing, QuietActions
  PROVE  Typing'
<1> WireType /\ MissionType /\ DisplayType /\ KeypadType /\ StageType
  BY TypingParts
<1>1. /\ UNCHANGED <<back, asked, mission, link, flags, moving, launch_in_progress>>
      /\ pc' = pc \/ pc' \in {"connect", "poll", "scan", "keys", "pipe"}
      /\ explosion_notified' = explosion_notified \/ explosion_notified' = FALSE
  BY DEF QuietActions, Skip, AuthFails, PollDone, PasswordTimeout, NoKey, Backspace,
         ScanNormal, LaunchKey, KeysDone, PipeDone, Tick, display, stage
<1>2. WireType' /\ MissionType'
  BY <1>1 DEF WireType, MissionType, link, mission
<1>3. DisplayType'
  <2>1. /\ launch_in_progress' = launch_in_progress /\ flags' = flags /\ moving' = moving
        /\ explosion_notified' \in BOOLEAN
    BY <1>1 DEF DisplayType
  <2> QED BY <2>1, Zenon DEF DisplayType
<1>4. StageType'
  BY <1>1 DEF StageType, link
<1>5. KeypadType'
  <2>1. CASE Skip \/ PollDone \/ ScanNormal \/ KeysDone \/ PipeDone
    <3>1. UNCHANGED keypad
      BY <2>1 DEF Skip, PollDone, ScanNormal, KeysDone, PipeDone
    <3> QED BY <3>1 DEF KeypadType, keypad
  <2>2. CASE AuthFails \/ PasswordTimeout \/ NoKey \/ LaunchKey
    BY <2>2 DEF KeypadType, AuthFails, PasswordTimeout, NoKey, LaunchKey, Scanning,
                Clocked, Off
  <2>3. CASE Backspace
    <3>1. pwd_start' \in Off..(PwdLimit + 1)
      <4>1. Clocked /\ pwd_start <= PwdLimit
        BY <2>3, Zenon DEF Backspace, Scanning
      <4> QED BY <4>1 DEF KeypadType, Clocked, Off
    <3>2. CASE typed > 0
      <4>1. typed' = typed - 1 /\ entered' = typed - 1 /\ UNCHANGED <<mode, since>>
        BY <2>3, <3>2 DEF KeypadType, Backspace
      <4> QED BY <3>1, <3>2, <4>1 DEF KeypadType
    <3>3. CASE typed = 0
      <4>1. UNCHANGED <<typed, entered>> /\ mode' = "NORMAL" /\ since' = Off
        BY <2>3, <3>3 DEF KeypadType, Backspace
      <4> QED BY <3>1, <3>3, <4>1 DEF KeypadType, Off
    <3> QED BY <3>2, <3>3 DEF KeypadType
  <2>4. CASE Tick
    BY <2>4 DEF KeypadType, Tick, Later, Off
  <2> QED BY <2>1, <2>2, <2>3, <2>4 DEF QuietActions
<1> QED BY <1>2, <1>3, <1>4, <1>5, TypingNext

LEMMA ClosingType ==
  ASSUME Typing, NEW lines \in Buffered \cup {<< >>}, CloseKeeping(lines)
  PROVE  WireType' /\ conn' = "down" /\ request' = request
<1>1. lines \in Seq(Lines)
  BY PrefixFacts, EmptySeq DEF Buffered, Typing
<1> QED BY <1>1 DEF CloseKeeping, WireType, Typing, TypeOK

LEMMA SendCmdType ==
  ASSUME Typing, NEW cmd \in Commands \cup {"CMD_LU"}, NEW next \in {"connect", "keys", "pipe"},
         SendCmd(cmd, next)
  PROVE  /\ WireType' /\ StageType'
         /\ pc' \in {next, "await"}
<1> WireType /\ MissionType /\ DisplayType /\ KeypadType /\ StageType
  BY TypingParts
<1>1. CASE conn = "down" /\ pc' = next
           /\ UNCHANGED <<back, asked, conn, wire, request, lost, announced>>
  BY <1>1 DEF WireType, StageType
<1>2. CASE /\ conn = "cut" /\ pc' = next
           /\ \E lines \in Buffered : CloseKeeping(lines)
           /\ UNCHANGED <<back, asked>>
  BY <1>2, ClosingType DEF StageType
<1>3. CASE /\ conn # "down"
           /\ pc' = "await" /\ back' = next /\ asked' = cmd /\ request' = cmd
           /\ lost' = (IF cmd = "CMD_LU" THEN conn = "cut" ELSE lost)
           /\ UNCHANGED <<conn, wire, announced>>
  <2>1. lost' \in BOOLEAN
    BY <1>3, Zenon DEF WireType
  <2> QED BY <1>3, <2>1 DEF WireType, StageType
<1> QED BY <1>1, <1>2, <1>3 DEF SendCmd

(* What a push does to the launch and to the flags.                        *)
LEMMA PushEffect ==
  ASSUME Typing, HandlePush
  PROVE  /\ wire # << >> /\ Head(wire) \in Pushes /\ wire' = Tail(wire)
         /\ launch_in_progress' \in {launch_in_progress, FALSE}
         /\ Head(wire) = "EVENT_LAUNCH" => launch_in_progress' = FALSE
         /\ flags' \subseteq {0, 1, 2}
         /\ \A f \in {0, 1, 2} :
              /\ Head(wire) = Problem[f] => f \in flags'
              /\ f \in flags \ flags' => Head(wire) \in {Resolved[f], "EVENT_RESET"}
         /\ lost' = (lost /\ launch_in_progress')
         /\ UNCHANGED <<stage, keypad, mission, conn, request, announced>>
         /\ explosion_notified' \in {explosion_notified, TRUE, FALSE}
         /\ moving' \in {moving, Head(wire) = "TELEMETRY_MOVING"}
<1>1. /\ wire # << >> /\ Head(wire) \in Pushes /\ wire' = Tail(wire)
      /\ lost' = (lost /\ launch_in_progress')
      /\ UNCHANGED <<stage, keypad, mission, conn, request, announced>>
  BY DEF HandlePush
<1> DEFINE line == Head(wire)
<1>2. flags \subseteq {0, 1, 2}
  BY DEF Typing, TypeOK
<1>3. CASE HandleTelemetry(line)
  <2>1. line \notin {"EVENT_LAUNCH"} /\ \A f \in {0, 1, 2} : line # Problem[f]
    BY <1>3 DEF HandleTelemetry, Problem
  <2> QED BY <1>1, <1>2, <1>3, <2>1 DEF HandleTelemetry
<1>4. CASE HandleEvent(line)
  <2> HIDE DEF line
  <2>1. UNCHANGED moving
    BY <1>4 DEF HandleEvent
  <2>2. CASE /\ line \in {"EVENT_LAUNCH", "EVENT_LAND", "EVENT_LANDED", "EVENT_EXPLODED"}
             /\ launch_in_progress' \in {launch_in_progress, FALSE}
             /\ line = "EVENT_LAUNCH" => launch_in_progress' = FALSE
             /\ explosion_notified' \in {explosion_notified, TRUE, FALSE} /\ UNCHANGED flags
    <3>1. \A f \in {0, 1, 2} : line # Problem[f]
      BY <2>2 DEF Problem
    <3> QED BY <1>1, <1>2, <2>1, <2>2, <3>1 DEF line
  <2>3. CASE /\ line = "EVENT_RESET" /\ launch_in_progress' = FALSE
             /\ explosion_notified' = FALSE /\ flags' = {}
    <3>1. \A f \in {0, 1, 2} : line # Problem[f]
      BY <2>3 DEF Problem
    <3> QED BY <1>1, <1>2, <2>1, <2>3, <3>1 DEF line
  <2>4. ASSUME NEW f \in {0, 1, 2},
               \/ line = Problem[f] /\ flags' = flags \cup {f}
               \/ line = Resolved[f] /\ flags' = flags \ {f},
               UNCHANGED <<launch_in_progress, explosion_notified>>
        PROVE  /\ flags' \subseteq {0, 1, 2} /\ line # "EVENT_LAUNCH"
               /\ \A g \in {0, 1, 2} :
                    /\ line = Problem[g] => g \in flags'
                    /\ g \in flags \ flags' => line \in {Resolved[g], "EVENT_RESET"}
    <3>1. line # "EVENT_LAUNCH"
      BY <2>4 DEF Problem, Resolved
    <3>2. \A g \in {0, 1, 2} : line = Problem[g] => g = f /\ line # Resolved[f]
      BY <2>4 DEF Problem, Resolved
    <3> QED BY <1>2, <2>4, <3>1, <3>2
  <2>5. CASE \E f \in {0, 1, 2} :
               /\ \/ line = Problem[f] /\ flags' = flags \cup {f}
                  \/ line = Resolved[f] /\ flags' = flags \ {f}
               /\ UNCHANGED <<launch_in_progress, explosion_notified>>
    BY <1>1, <1>2, <2>1, <2>4, <2>5 DEF line
  <2> QED BY <1>4, <2>2, <2>3, <2>5 DEF HandleEvent
<1> QED BY <1>3, <1>4 DEF HandlePush

LEMMA PushTyping ==
  ASSUME Typing, HandlePush, pc' = pc
  PROVE  Typing'
<1> WireType /\ MissionType /\ DisplayType /\ KeypadType /\ StageType
  BY TypingParts
<1>1. WireType'
  <2>1. lost' \in BOOLEAN
    BY PushEffect, Zenon
  <2>2. wire' \in Seq(Lines) /\ UNCHANGED announced
    BY PushEffect, TailFacts DEF Typing
  <2> QED BY <2>1, <2>2 DEF WireType
<1>2. MissionType' /\ KeypadType' /\ StageType'
  BY PushEffect DEF MissionType, KeypadType, StageType, mission, keypad, stage
<1>3. DisplayType'
  <2>1. flags' \subseteq {0, 1, 2}
    BY PushEffect
  <2>2. launch_in_progress' \in BOOLEAN /\ explosion_notified' \in BOOLEAN
    BY PushEffect DEF DisplayType
  <2>3. moving' \in BOOLEAN
    BY PushEffect, Zenon DEF DisplayType
  <2> QED BY <2>1, <2>2, <2>3 DEF DisplayType
<1> QED BY <1>1, <1>2, <1>3, TypingNext

(* What the satellite sends is in transit if the controller is there.      *)
LEMMA SendsType ==
  ASSUME Typing, NEW lines \in Seq(Lines), Sends(lines),
         MissionType', request' \in Commands \cup {"CMD_LU", "none"}
  PROVE  Typing'
<1> WireType /\ MissionType /\ DisplayType /\ KeypadType /\ StageType
  BY TypingParts
<1>1. UNCHANGED <<conn, lost, stage, keypad, launch_in_progress, display>>
  BY DEF Sends
<1>2. WireType'
  <2>1. CASE conn = "up"
    <3>1. wire' \in Seq(Lines)
      <4>1. wire' = wire \o lines
        BY <2>1, Zenon DEF Sends
      <4>2. wire \in Seq(Lines)
        BY DEF WireType
      <4> QED BY <4>1, <4>2, AppendFacts
    <3>2. announced' \subseteq {0, 1, 2}
      BY <2>1 DEF Sends, WireType, Opening
    <3> QED BY <1>1, <3>1, <3>2 DEF WireType
  <2>2. CASE conn # "up"
    BY <1>1, <2>2 DEF Sends, WireType
  <2> QED BY <2>1, <2>2
<1>3. DisplayType' /\ KeypadType' /\ StageType'
  BY <1>1 DEF DisplayType, KeypadType, StageType, display, keypad, stage
<1> QED BY <1>2, <1>3, TypingNext

-----------------------------------------------------------------------------
(* The satellite.                                                          *)

(* What the satellite answers, to send_cmd_recv only, and announces in one *)
(* step: events holds at most one push.                                    *)
Answer(answered, reply) == IF answered THEN <<reply>> ELSE << >>

Fits(answered, reply, events) ==
  /\ answered => reply \in Lines \ Pushes
  /\ events = << >> \/ \E e \in Pushes : events = <<e>>
  /\ answered /\ reply = "OK_LAUNCH" => events = <<"EVENT_LAUNCH">>
  /\ answered => \A f \in {0, 1, 2} :
       Clears(reply, f) => f \notin announced \/ events = <<Resolved[f]>>
  /\ pressure' # "fault" =>
       \/ Pressure \notin announced
       \/ events \in {<<"EVENT_LAUNCH">>, <<"EVENT_RESET">>, <<Resolved[Pressure]>>}
  /\ events = <<Problem[Pressure]>> => pressure' = "fault"

LEMMA AnswerFacts ==
  ASSUME NEW answered \in BOOLEAN, NEW reply, NEW events, Fits(answered, reply, events)
  PROVE  /\ Answer(answered, reply) \in Seq(Lines) /\ events \in Seq(Lines)
         /\ Answer(answered, reply) \o events \in Seq(Lines)
         /\ answered => Len(Answer(answered, reply)) = 1 /\ Answer(answered, reply)[1] = reply
         /\ ~answered => Len(Answer(answered, reply)) = 0
         /\ \/ events = << >> /\ Len(events) = 0
            \/ events[1] \in Pushes /\ events = <<events[1]>> /\ Len(events) = 1
<1>1. Answer(answered, reply) \in Seq(Lines)
  BY DEF Answer, Fits
<1>2. CASE events = << >>
  <2>1. events \in Seq(Lines) /\ Len(events) = 0
    BY <1>2
  <2> QED BY <1>1, <1>2, <2>1, ConcatProperties DEF Answer
<1>3. CASE \E e \in Pushes : events = <<e>>
  <2>1. PICK e \in Pushes : events = <<e>>
    BY <1>3
  <2>2. e \in Lines
    BY LineFacts
  <2>3. events \in Seq(Lines) /\ Len(events) = 1 /\ events[1] = e
    BY <2>1, <2>2
  <2> QED BY <1>1, <2>1, <2>3, ConcatProperties DEF Answer
<1> QED BY <1>2, <1>3 DEF Fits

(* The lines sent, one by one: the reply, then the event.                  *)
Sent(w, x, new, a, b, answered, reply, events) ==
  /\ x \in Seq(Lines) /\ Len(x) = Len(w) + a + b /\ Len(w) \in Nat
  /\ a = (IF answered THEN 1 ELSE 0) /\ b \in {0, 1}
  /\ \A i \in 1..Len(w) : x[i] = w[i]
  /\ a = 1 => x[Len(w) + 1] = reply
  /\ b = 1 => x[Len(w) + a + 1] = events[1]
  /\ \A z : (\E i \in DOMAIN new : z = new[i]) <=> (a = 1 /\ z = reply) \/ (b = 1 /\ z = events[1])

LEMMA SentFacts ==
  ASSUME NEW w \in Seq(Lines), NEW answered \in BOOLEAN, NEW reply, NEW events,
         Fits(answered, reply, events)
  PROVE  Sent(w, w \o (Answer(answered, reply) \o events), Answer(answered, reply) \o events,
              Len(Answer(answered, reply)), Len(events), answered, reply, events)
<1> DEFINE ans == Answer(answered, reply)
           new == ans \o events
           x == w \o new
           a == Len(ans)
           b == Len(events)
<1>1. /\ ans \in Seq(Lines) /\ events \in Seq(Lines) /\ new \in Seq(Lines)
      /\ a = (IF answered THEN 1 ELSE 0) /\ b \in {0, 1}
  BY AnswerFacts
<1>a. a = 1 => ans[1] = reply
  BY AnswerFacts
<1> HIDE DEF ans
<1>2. /\ Len(new) = a + b /\ DOMAIN new = 1..Len(new)
      /\ \A i \in 1..(a + b) : new[i] = IF i <= a THEN ans[i] ELSE events[i - a]
  <2>1. ans \in Seq(Lines) /\ events \in Seq(Lines) /\ new \in Seq(Lines)
    BY <1>1
  <2>2. /\ Len(ans \o events) = Len(ans) + Len(events)
        /\ \A i \in 1..(Len(ans) + Len(events)) :
             (ans \o events)[i] = IF i <= Len(ans) THEN ans[i] ELSE events[i - Len(ans)]
    BY <2>1, ConcatProperties
  <2>3. DOMAIN new = 1..Len(new)
    BY <2>1, LenProperties
  <2> QED BY <2>2, <2>3, Zenon
<1> HIDE DEF new
<1>3. /\ x \in Seq(Lines) /\ Len(x) = Len(w) + Len(new)
      /\ \A i \in 1..Len(w) : x[i] = w[i]
      /\ \A i \in 1..Len(new) : x[Len(w) + i] = new[i]
      /\ Len(w) \in Nat
  BY <1>1, AppendFacts, LenProperties
<1> HIDE DEF x, a, b
<1>4. a \in {0, 1}
  BY <1>1
<1>5. a = 1 => new[1] = reply /\ x[Len(w) + 1] = reply
  <2>1. a = 1 => 1 \in 1..(a + b) /\ 1 <= a
    BY <1>1
  <2> QED BY <1>2, <1>3, <1>a, <2>1
<1>6. b = 1 => new[a + 1] = events[1] /\ x[Len(w) + a + 1] = events[1]
  <2>1. b = 1 => a + 1 \in 1..(a + b) /\ ~(a + 1 <= a) /\ (a + 1) - a = 1
    BY <1>4
  <2>2. b = 1 => new[a + 1] = events[1]
    BY <1>2, <2>1
  <2>3. Len(w) + a + 1 = Len(w) + (a + 1)
    BY <1>3, <1>4
  <2> QED BY <1>2, <1>3, <2>1, <2>2, <2>3
<1>7. ASSUME NEW z
      PROVE  (\E i \in DOMAIN new : z = new[i]) <=> (a = 1 /\ z = reply) \/ (b = 1 /\ z = events[1])
  <2>1. ASSUME NEW i \in DOMAIN new
        PROVE  (a = 1 /\ i = 1) \/ (b = 1 /\ i = a + 1)
    BY <1>1, <1>2, <1>4
  <2>2. /\ a = 1 => 1 \in DOMAIN new
        /\ b = 1 => a + 1 \in DOMAIN new
    BY <1>1, <1>2, <1>4
  <2> QED BY <1>5, <1>6, <2>1, <2>2
<1>8. Sent(w, x, new, a, b, answered, reply, events)
  BY <1>1, <1>2, <1>3, <1>5, <1>6, <1>7 DEF Sent
<1> QED BY <1>8 DEF x, new, ans, a, b

LEMMA PushKinds ==
  /\ \A e \in Pushes, f \in {0, 1, 2} : Clears(e, f) <=> e \in {Resolved[f], "EVENT_RESET"}
  /\ \A f \in {0, 1, 2} : ~Clears(Problem[f], f)
  /\ \A f, g \in {0, 1, 2} : Problem[f] = Problem[g] => f = g
  /\ \A f, g \in {0, 1, 2} : Resolved[f] = Resolved[g] => f = g
  /\ \A f, g \in {0, 1, 2} :
       Problem[f] \notin {Resolved[g], "EVENT_LAUNCH", "EVENT_RESET", "OK_LAUNCH"}
  /\ "OK_LAUNCH" \notin Pushes
<1>1. \A e \in Pushes : e \notin {"OK_REP_FIX", "OK_PRES_FIX", "OK_PRES_OK", "OK_LAUNCH"}
  BY LineFacts
<1>2. \A e \in Pushes, f \in {0, 1, 2} : Clears(e, f) <=> e \in {Resolved[f], "EVENT_RESET"}
  BY <1>1 DEF Clears
<1>3. /\ \A f \in {0, 1, 2} : ~Clears(Problem[f], f)
      /\ \A f, g \in {0, 1, 2} : Problem[f] = Problem[g] => f = g
      /\ \A f, g \in {0, 1, 2} : Resolved[f] = Resolved[g] => f = g
      /\ \A f, g \in {0, 1, 2} :
           Problem[f] \notin {Resolved[g], "EVENT_LAUNCH", "EVENT_RESET", "OK_LAUNCH"}
  BY DEF Clears, Problem, Resolved
<1> QED BY <1>1, <1>2, <1>3

(* Every step of the satellite but a cut keeps the invariant: what it says *)
(* is in transit behind what was there.                                    *)
LEMMA SendsStep ==
  ASSUME IInv, NEW answered \in BOOLEAN, NEW reply, NEW events,
         Fits(answered, reply, events), Sends(Answer(answered, reply) \o events),
         MissionType', answered => pc = "await" /\ request # "none",
         answered => request' = "none", request' \in {request, "none"}
  PROVE  IInv'
<1> DEFINE new == Answer(answered, reply) \o events
           a == Len(Answer(answered, reply))
           b == Len(events)
           n == Len(wire)
           said == {new[i] : i \in DOMAIN new}
<1>1. UNCHANGED <<conn, lost, stage, launch_in_progress, display, flags>>
  BY DEF Sends, display
<1>2. Typing /\ wire \in Seq(Lines) /\ announced \subseteq {0, 1, 2}
  BY DEF IInv, Typing, TypeOK
<1>3. Typing'
  <2>1. request' \in Commands \cup {"CMD_LU", "none"}
    BY <1>2 DEF Typing, TypeOK
  <2> QED BY <1>2, <2>1, AnswerFacts, SendsType
<1>4. Asking'
  BY <1>1 DEF IInv, Asking, stage
<1>5. CASE conn # "up"
  <2>1. wire' = wire /\ announced' = announced /\ announced = {}
    BY <1>5 DEF Sends, IInv, Announcing
  <2>2. OneReply'
    BY <1>1, <2>1 DEF IInv, OneReply, stage
  <2>3. LaunchAnnounced'
    BY <1>1, <2>1 DEF IInv, LaunchAnnounced, stage
  <2>4. Flagging' /\ Announcing'
    BY <2>1 DEF Flagging, Announcing
  <2> QED BY <1>3, <1>4, <2>2, <2>3, <2>4 DEF IInv
<1>6. CASE conn = "up"
  <2>1. wire' = wire \o new /\ announced' = (announced \ Closing(said)) \cup Opening(said)
    BY <1>6 DEF Sends
  <2>2. /\ wire' \in Seq(Lines) /\ Len(wire') = n + a + b /\ n \in Nat
        /\ a = (IF answered THEN 1 ELSE 0) /\ b \in {0, 1}
        /\ \A i \in 1..n : wire'[i] = wire[i]
        /\ a = 1 => wire'[n + 1] = reply
        /\ b = 1 => wire'[n + a + 1] = events[1]
        /\ \A z : z \in said <=> (a = 1 /\ z = reply) \/ (b = 1 /\ z = events[1])
    <3> DEFINE x == wire \o new
    <3>1. Sent(wire, x, new, a, b, answered, reply, events)
      BY <1>2, SentFacts
    <3>2. \A z : z \in said <=> \E i \in DOMAIN new : z = new[i]
      OBVIOUS
    <3>3. wire' = x
      BY <2>1
    <3>4. n = Len(wire)
      OBVIOUS
    <3> HIDE DEF x, new, a, b, n, said
    <3> QED BY <3>1, <3>2, <3>3, <3>4 DEF Sent
  <2>3. /\ a = 1 => reply \in Lines \ Pushes /\ pc = "await" /\ request # "none" /\ request' = "none"
        /\ b = 1 => events[1] \in Pushes /\ events = <<events[1]>>
        /\ b = 0 => events = << >>
    BY <2>2, AnswerFacts DEF Fits
  <2> HIDE DEF new, a, b, n, said
  <2>a. \A i \in 1..Len(wire') :
          i \in 1..n \/ (a = 1 /\ i = n + 1) \/ (b = 1 /\ i = n + a + 1 /\ i = Len(wire'))
    BY <2>2
  <2>b. n = Len(wire)
    BY DEF n
  <2>4. OneReply'
    <3>1. a = 1 => \A i \in 1..n : wire[i] \in Pushes
      BY <2>3, <2>b DEF IInv, OneReply
    <3>2. \A i \in 1..n : wire[i] \notin Pushes =>
            /\ pc = "await" /\ request = "none" /\ \A j \in 1..n : wire[j] \notin Pushes => j = i
      BY <2>b DEF IInv, OneReply
    <3>3. \A i \in 1..Len(wire') : wire'[i] \notin Pushes =>
            \/ i \in 1..n /\ wire[i] \notin Pushes
            \/ a = 1 /\ i = n + 1
      BY <2>2, <2>3, <2>a
    <3>4. pc' = pc /\ (request = "none" => request' = "none")
      BY <1>1 DEF stage
    <3> QED BY <2>3, <3>1, <3>2, <3>3, <3>4 DEF OneReply
  <2>5. LaunchAnnounced'
    <3>1. UNCHANGED <<launch_in_progress, lost, pc, asked>>
      BY <1>1 DEF stage
    <3>2. SUFFICES ASSUME launch_in_progress, ~lost
                   PROVE  \/ /\ pc = "await" /\ asked = "CMD_LU"
                             /\ \A i \in 1..Len(wire') : wire'[i] = "OK_LAUNCH" =>
                                  i < Len(wire') /\ wire'[i + 1] = "EVENT_LAUNCH"
                          \/ \E i \in 1..Len(wire') : wire'[i] = "EVENT_LAUNCH"
      BY <3>1 DEF LaunchAnnounced
    <3>3. CASE \E i \in 1..n : wire[i] = "EVENT_LAUNCH"
      <4>1. PICK i \in 1..n : wire[i] = "EVENT_LAUNCH"
        BY <3>3
      <4>2. i \in 1..Len(wire') /\ wire'[i] = "EVENT_LAUNCH"
        BY <2>2, <4>1
      <4> QED BY <4>2
    <3>4. CASE /\ pc = "await" /\ asked = "CMD_LU"
               /\ \A i \in 1..n : wire[i] = "OK_LAUNCH" => i < n /\ wire[i + 1] = "EVENT_LAUNCH"
      <4>1. ASSUME NEW i \in 1..Len(wire'), wire'[i] = "OK_LAUNCH"
            PROVE  i < Len(wire') /\ wire'[i + 1] = "EVENT_LAUNCH"
        <5>1. CASE i \in 1..n
          <6>1. i < n /\ wire[i + 1] = "EVENT_LAUNCH" /\ i + 1 \in 1..n
            BY <2>2, <3>4, <4>1, <5>1
          <6> QED BY <2>2, <6>1
        <5>2. CASE a = 1 /\ i = n + 1
          <6>1. reply = "OK_LAUNCH" /\ answered
            BY <2>2, <4>1, <5>2
          <6>2. events = <<"EVENT_LAUNCH">>
            BY <6>1 DEF Fits
          <6>3. b = 1 /\ events[1] = "EVENT_LAUNCH"
            BY <2>2, <2>3, <6>2
          <6>4. n + a + 1 = i + 1
            BY <2>2, <5>2
          <6> QED BY <2>2, <5>2, <6>3, <6>4
        <5>3. CASE b = 1 /\ i = n + a + 1 /\ i = Len(wire')
          BY <2>2, <2>3, <4>1, <5>3, PushKinds
        <5> QED BY <2>a, <5>1, <5>2, <5>3
      <4> QED BY <3>4, <4>1
    <3> QED BY <2>b, <3>2, <3>3, <3>4 DEF IInv, LaunchAnnounced
  <2>6. Flagging'
    <3> SUFFICES ASSUME NEW f \in announced'
                 PROVE  /\ f \in flags \/ \E i \in 1..Len(wire') : wire'[i] = Problem[f]
                        /\ \A i \in 1..Len(wire') : Clears(wire'[i], f) =>
                             \E j \in (i + 1)..Len(wire') : wire'[j] = Problem[f]
      BY <1>1 DEF Flagging, Clears, stage
    <3>1. f \in {0, 1, 2}
      BY <1>3 DEF Typing, TypeOK
    <3>2. CASE f \in Opening(said)
      <4>1. Problem[f] \in said
        BY <3>2 DEF Opening
      <4>2. Problem[f] \in Pushes
        BY <3>1, LineFacts
      <4>3. b = 1 /\ events[1] = Problem[f]
        BY <2>2, <2>3, <4>1, <4>2
      <4>4. wire'[Len(wire')] = Problem[f] /\ Len(wire') \in 1..Len(wire')
        <5>1. Len(wire') = n + a + 1
          BY <2>2, <4>3
        <5> QED BY <2>2, <4>3, <5>1
      <4>5. ASSUME NEW i \in 1..Len(wire'), Clears(wire'[i], f)
            PROVE  Len(wire') \in (i + 1)..Len(wire')
        <5>1. i # Len(wire')
          BY <3>1, <4>4, <4>5, PushKinds
        <5> QED BY <2>2, <5>1
      <4> QED BY <4>4, <4>5
    <3>3. CASE f \in announced /\ f \notin Closing(said)
      <4>1. /\ f \in flags \/ \E i \in 1..n : wire[i] = Problem[f]
            /\ \A i \in 1..n : Clears(wire[i], f) => \E j \in (i + 1)..n : wire[j] = Problem[f]
        BY <2>b, <3>3 DEF IInv, Flagging
      <4>2. f \in flags \/ \E i \in 1..Len(wire') : wire'[i] = Problem[f]
        BY <2>2, <4>1
      <4>3. Resolved[f] \notin said /\ "EVENT_RESET" \notin said /\ "EVENT_LAUNCH" \notin said
        BY <3>1, <3>3 DEF Closing
      <4>4. ASSUME NEW i \in 1..Len(wire'), Clears(wire'[i], f)
            PROVE  \E j \in (i + 1)..Len(wire') : wire'[j] = Problem[f]
        <5>1. CASE i \in 1..n
          <6>1. PICK j \in (i + 1)..n : wire[j] = Problem[f]
            BY <2>2, <4>1, <4>4, <5>1
          <6>2. j \in 1..n /\ j \in (i + 1)..Len(wire')
            BY <2>2, <5>1
          <6> QED BY <2>2, <6>1, <6>2
        <5>2. CASE a = 1 /\ i = n + 1
          <6>1. answered /\ Clears(reply, f)
            BY <2>2, <4>4, <5>2
          <6>2. events = <<Resolved[f]>>
            BY <3>1, <3>3, <6>1 DEF Fits
          <6>3. b = 1 /\ events[1] = Resolved[f]
            BY <2>2, <2>3, <6>2
          <6> QED BY <2>2, <4>3, <6>3
        <5>3. CASE b = 1 /\ i = n + a + 1 /\ i = Len(wire')
          <6>1. events[1] \in {Resolved[f], "EVENT_RESET"}
            BY <2>2, <2>3, <3>1, <4>4, <5>3, PushKinds
          <6> QED BY <2>2, <4>3, <5>3, <6>1
        <5> QED BY <2>a, <5>1, <5>2, <5>3
      <4> QED BY <4>2, <4>4
    <3> QED BY <2>1, <3>2, <3>3
  <2>7. Announcing'
    <3>1. CASE Pressure \in Opening(said)
      <4>1. Problem[Pressure] \in said /\ Problem[Pressure] \in Pushes
        BY <3>1, LineFacts DEF Opening
      <4>2. b = 1 /\ events = <<Problem[Pressure]>>
        BY <2>2, <2>3, <4>1
      <4>3. pressure' = "fault"
        BY <4>2 DEF Fits
      <4> QED BY <1>1, <1>6, <4>3 DEF Announcing
    <3>2. CASE Pressure \in announced /\ Pressure \notin Closing(said)
      <4>1. {"EVENT_LAUNCH", "EVENT_RESET", Resolved[Pressure]} \cap said = {}
        BY <3>2 DEF Closing
      <4>2. ASSUME events \in {<<"EVENT_LAUNCH">>, <<"EVENT_RESET">>, <<Resolved[Pressure]>>}
            PROVE  FALSE
        <5>1. b = 1 /\ events[1] \in {"EVENT_LAUNCH", "EVENT_RESET", Resolved[Pressure]}
          BY <2>2, <2>3, <4>2
        <5> QED BY <2>2, <4>1, <5>1
      <4>3. pressure' = "fault"
        BY <3>2, <4>2 DEF Fits
      <4> QED BY <1>1, <1>6, <4>3 DEF Announcing
    <3> QED BY <1>1, <1>6, <2>1, <3>1, <3>2 DEF Announcing
  <2> QED BY <1>3, <1>4, <2>4, <2>5, <2>6, <2>7 DEF IInv
<1> QED BY <1>5, <1>6

LEMMA RepliesStep ==
  ASSUME IInv, NEW reply, NEW events, Fits(pc = "await", reply, events),
         Replies(reply, events), MissionType', request # "none"
  PROVE  IInv'
<1>1. (pc = "await") \in BOOLEAN
  BY Zenon
<1>2. Sends(Answer(pc = "await", reply) \o events) /\ request' = "none"
  BY DEF Replies, Answer
<1> QED BY <1>1, <1>2, SendsStep

(* A step that answers nothing and announces nothing or one push.          *)
LEMMA EventStep ==
  ASSUME IInv, NEW events \in Seq(Lines), NEW reply, Fits(FALSE, reply, events), Sends(events),
         MissionType', UNCHANGED request
  PROVE  IInv'
<1>1. Answer(FALSE, reply) \o events = events
  <2>1. << >> \o events = events
    BY ConcatEmptySeq
  <2> QED BY <2>1 DEF Answer
<1>2. FALSE \in BOOLEAN
  BY Zenon
<1> QED BY <1>1, <1>2, SendsStep, Zenon

LEMMA DoesLaunchStep ==
  ASSUME IInv, DoesLaunch
  PROVE  IInv'
<1>1. /\ MissionType /\ request = "CMD_LU" /\ (pc = "await" => asked = "CMD_LU")
      /\ Answer(pc = "await", "OK_LAUNCH") = IF pc = "await" THEN <<"OK_LAUNCH">> ELSE << >>
  BY DEF DoesLaunch, IInv, Typing, TypeOK, MissionType, Asking, Answer
<1>2. (pc = "await") \in BOOLEAN
  BY Zenon
<1>3. CASE /\ Mission!Launch /\ pressure' = "nominal"
           /\ Replies("OK_LAUNCH", <<"EVENT_LAUNCH">>)
  <2>1. Fits(pc = "await", "OK_LAUNCH", <<"EVENT_LAUNCH">>)
    BY <1>1, LineFacts DEF Fits, Clears, Repair, Problem, Resolved
  <2>2. MissionType'
    BY <1>1, <1>3 DEF MissionType, Mission!Launch
  <2>3. /\ Sends(Answer(pc = "await", "OK_LAUNCH") \o <<"EVENT_LAUNCH">>) /\ request' = "none"
    BY <1>3 DEF Replies, Answer
  <2> QED BY <1>1, <1>2, <2>1, <2>2, <2>3, SendsStep
<1>4. ASSUME NEW reply \in {"FAIL_ALREADY_LAUNCHED", "FAIL_NOT_READY"},
             UNCHANGED mission, Replies(reply, << >>)
      PROVE  IInv'
  <2>1. Fits(pc = "await", reply, << >>)
    BY <1>1, <1>4, LineFacts DEF Fits, Clears, Repair, Problem, Resolved, mission, IInv, Announcing
  <2>2. MissionType'
    BY <1>1, <1>4 DEF MissionType, mission
  <2>3. /\ Sends(Answer(pc = "await", reply) \o << >>) /\ request' = "none"
    BY <1>4 DEF Replies, Answer
  <2> QED BY <1>1, <1>2, <2>1, <2>2, <2>3, SendsStep
<1>5. CASE /\ UNCHANGED mission
           /\ \E reply \in {"FAIL_ALREADY_LAUNCHED", "FAIL_NOT_READY"} : Replies(reply, << >>)
  BY <1>4, <1>5
<1> QED BY <1>3, <1>5, Zenon DEF DoesLaunch

LEMMA DoesLandStep ==
  ASSUME IInv, DoesLand
  PROVE  IInv'
<1>1. /\ MissionType /\ request = "CMD_LD" /\ (pc = "await" => asked = "CMD_LD")
      /\ pressure' = pressure
  BY DEF DoesLand, IInv, Typing, TypeOK, MissionType, Asking
<1>2. (pc = "await") \in BOOLEAN
  BY Zenon
<1>3. ASSUME NEW reply \in {"OK_LAND", "FAIL"}, NEW events \in {<<"EVENT_LAND">>, << >>},
             Replies(reply, events), Mission!Land \/ UNCHANGED <<phase, open>>
      PROVE  IInv'
  <2>1. Fits(pc = "await", reply, events)
    <3>1. "EVENT_LAND" \in Pushes /\ reply \in Lines \ Pushes
      BY <1>3, LineFacts
    <3>2. \A f \in {0, 1, 2} : pc = "await" => ~Clears(reply, f)
      BY <1>1 DEF Clears, Repair, Resolved
    <3>3. events # <<Problem[Pressure]>>
      BY DEF Problem
    <3>4. pressure' # "fault" => Pressure \notin announced
      BY <1>1 DEF IInv, Announcing
    <3>5. reply # "OK_LAUNCH"
      OBVIOUS
    <3>6. events = << >> \/ \E e \in Pushes : events = <<e>>
      BY <3>1
    <3> QED BY <3>1, <3>2, <3>3, <3>4, <3>5, <3>6, Zenon DEF Fits
  <2>2. MissionType'
    BY <1>1, <1>3 DEF MissionType, Mission!Land
  <2>3. /\ Sends(Answer(pc = "await", reply) \o events) /\ request' = "none"
    BY <1>3 DEF Replies, Answer
  <2> QED BY <1>1, <1>2, <2>1, <2>2, <2>3, SendsStep
<1> QED BY <1>3 DEF DoesLand

LEMMA DoesPresStep ==
  ASSUME IInv, DoesPres
  PROVE  IInv'
<1>1. /\ MissionType /\ request = "CMD_PRES" /\ (pc = "await" => asked = "CMD_PRES")
      /\ UNCHANGED <<phase, open>> /\ (pressure # "fault" => Pressure \notin announced)
  BY DEF DoesPres, IInv, Typing, TypeOK, MissionType, Asking, Announcing
<1>2. /\ Problem[Pressure] = "EVENT_PROBLEM" /\ Resolved[Pressure] = "EVENT_RESOLVED"
      /\ Problem[Pressure] \in Pushes /\ Resolved[Pressure] \in Pushes
  BY LineFacts DEF Problem, Resolved
<1>3. {"OK_PRES_FAULT", "OK_PRES_FIX", "OK_PRES_OK"} \subseteq Lines \ Pushes
  BY LineFacts
<1>4. \A f \in {0, 1, 2}, reply \in {"OK_PRES_FAULT", "OK_PRES_FIX", "OK_PRES_OK"} :
        Clears(reply, f) => f = Pressure /\ reply # "OK_PRES_FAULT"
  BY DEF Clears, Repair, Resolved
<1>5. CASE /\ pressure = "nominal" /\ pressure' = "fault"
           /\ Replies("OK_PRES_FAULT", <<Problem[Pressure]>>)
  <2>1. Fits(pc = "await", "OK_PRES_FAULT", <<Problem[Pressure]>>)
    BY <1>2, <1>3, <1>4, <1>5 DEF Fits
  <2>2. MissionType' /\ request # "none"
    BY <1>1, <1>5 DEF MissionType
  <2> QED BY <1>5, <2>1, <2>2, RepliesStep
<1>6. CASE /\ pressure = "fault" /\ pressure' = "corrected"
           /\ Replies("OK_PRES_FIX", <<Resolved[Pressure]>>)
  <2>1. Fits(pc = "await", "OK_PRES_FIX", <<Resolved[Pressure]>>)
    BY <1>2, <1>3, <1>4, <1>6 DEF Fits
  <2>2. MissionType' /\ request # "none"
    BY <1>1, <1>6 DEF MissionType
  <2> QED BY <1>6, <2>1, <2>2, RepliesStep
<1>7. CASE /\ pressure = "corrected" /\ pressure' = "nominal" /\ Replies("OK_PRES_OK", << >>)
  <2>1. Fits(pc = "await", "OK_PRES_OK", << >>)
    BY <1>1, <1>3, <1>4, <1>7 DEF Fits
  <2>2. MissionType' /\ request # "none"
    BY <1>1, <1>7 DEF MissionType
  <2> QED BY <1>7, <2>1, <2>2, RepliesStep
<1> QED BY <1>5, <1>6, <1>7 DEF DoesPres

(* A repair is answered, then announced, for the fault it was asked for.   *)
LEMMA DoesRepairStep ==
  ASSUME IInv, DoesRepair
  PROVE  IInv'
<1>1. PICK f \in {1, 2} :
        /\ request = Repair[f] /\ UNCHANGED <<phase, pressure>>
        /\ \/ f \in open /\ open' = open \ {f} /\ Replies("OK_REP_FIX", <<Resolved[f]>>)
           \/ f \notin open /\ UNCHANGED open /\ Replies("OK_REP_NONE", << >>)
  BY DEF DoesRepair
<1>2. /\ MissionType /\ (pc = "await" => asked = Repair[f]) /\ Repair[f] # "none"
      /\ pressure' # "fault" => Pressure \notin announced
  BY <1>1 DEF IInv, Typing, TypeOK, MissionType, Asking, Announcing, Repair
<1>3. /\ Resolved[f] \in Pushes /\ <<Resolved[f]>> # <<Problem[Pressure]>>
      /\ {"OK_REP_FIX", "OK_REP_NONE"} \subseteq Lines \ Pushes
  BY LineFacts DEF Problem, Resolved
<1>4. pc = "await" => \A g \in {0, 1, 2} :
        ~Clears("OK_REP_NONE", g) /\ (Clears("OK_REP_FIX", g) => g = f)
  BY <1>2 DEF Clears, Repair, Resolved
<1>5. MissionType'
  BY <1>1, <1>2 DEF MissionType
<1>6. CASE Replies("OK_REP_FIX", <<Resolved[f]>>)
  <2>1. Fits(pc = "await", "OK_REP_FIX", <<Resolved[f]>>)
    BY <1>2, <1>3, <1>4 DEF Fits
  <2> QED BY <1>1, <1>2, <1>5, <1>6, <2>1, RepliesStep
<1>7. CASE Replies("OK_REP_NONE", << >>)
  <2>1. Fits(pc = "await", "OK_REP_NONE", << >>)
    BY <1>2, <1>3, <1>4 DEF Fits
  <2> QED BY <1>1, <1>2, <1>5, <1>7, <2>1, RepliesStep
<1> QED BY <1>1, <1>6, <1>7

LEMMA DoesAskStep ==
  ASSUME IInv, DoesAsk \/ Drops
  PROVE  IInv'
<1>1. /\ MissionType /\ request # "none" /\ UNCHANGED mission
      /\ pressure' # "fault" => Pressure \notin announced
  BY DEF DoesAsk, Drops, IInv, Typing, TypeOK, MissionType, Announcing, mission
<1>2. MissionType'
  BY <1>1 DEF MissionType, mission
<1>3. CASE DoesAsk
  <2>1. pc = "await" => asked = "CMD_ASK"
    BY <1>3 DEF DoesAsk, IInv, Asking
  <2>2. Fits(pc = "await", "DATA", << >>)
    BY <1>1, <2>1, LineFacts DEF Fits, Clears, Resolved
  <2>3. Replies("DATA", << >>)
    BY <1>3 DEF DoesAsk
  <2> QED BY <1>1, <1>2, <2>2, <2>3, RepliesStep
<1>4. CASE Drops
  <2>1. Fits(pc = "await", "none", << >>)
    BY <1>1, <1>4 DEF Fits, Drops
  <2>2. Replies("none", << >>)
    BY <1>4 DEF Drops
  <2> QED BY <1>1, <1>2, <2>1, <2>2, RepliesStep
<1> QED BY <1>3, <1>4

(* What the satellite announces of its own.                                *)
LEMMA SatelliteEventStep ==
  ASSUME IInv,
         \/ SatelliteObserves \/ SatelliteLands \/ SatelliteExplodes \/ SatelliteResets
         \/ SatelliteTelemetry
  PROVE  IInv'
<1>1. MissionType /\ (pressure # "fault" => Pressure \notin announced)
  BY DEF IInv, Typing, TypeOK, MissionType, Announcing
<1>2. ASSUME NEW e \in Pushes, Sends(<<e>>), UNCHANGED request, MissionType', e # Problem[Pressure],
             pressure' = pressure \/ e = "EVENT_RESET"
      PROVE  IInv'
  <2>1. Fits(FALSE, e, <<e>>)
    BY <1>1, <1>2 DEF Fits
  <2>2. <<e>> \in Seq(Lines)
    BY <1>2, LineFacts
  <2> QED BY <1>2, <2>1, <2>2, EventStep
<1>3. CASE SatelliteObserves
  <2>1. /\ Mission!Observe /\ UNCHANGED <<pressure, request>> /\ open' \subseteq Faults
        /\ IF open' = open THEN Sends(<< >>)
           ELSE \E f \in open' \ open : Sends(<<Problem[f]>>)
    BY <1>3 DEF SatelliteObserves
  <2>2. MissionType'
    BY <1>1, <2>1 DEF MissionType, Mission!Observe
  <2>3. CASE Sends(<< >>)
    <3>1. Fits(FALSE, "none", << >>)
      BY <1>1, <2>1 DEF Fits
    <3>2. << >> \in Seq(Lines)
      OBVIOUS
    <3> QED BY <2>1, <2>2, <2>3, <3>1, <3>2, EventStep
  <2>4. ASSUME NEW f \in Faults, Sends(<<Problem[f]>>)
        PROVE  IInv'
    <3>1. Problem[f] \in Pushes /\ Problem[f] # Problem[Pressure]
      BY LineFacts DEF Problem
    <3> QED BY <1>2, <2>1, <2>2, <2>4, <3>1
  <2> QED BY <2>1, <2>3, <2>4
<1>4. CASE SatelliteLands
  <2>1. /\ Mission!Touchdown /\ UNCHANGED <<pressure, request>> /\ Sends(<<"EVENT_LANDED">>)
    BY <1>4 DEF SatelliteLands
  <2>2. MissionType'
    BY <1>1, <2>1 DEF MissionType, Mission!Touchdown
  <2>3. "EVENT_LANDED" \in Pushes /\ "EVENT_LANDED" # Problem[Pressure]
    BY LineFacts DEF Problem
  <2> QED BY <1>2, <2>1, <2>2, <2>3
<1>5. CASE SatelliteExplodes
  <2>1. /\ Mission!Explode /\ UNCHANGED <<pressure, request>> /\ Sends(<<"EVENT_EXPLODED">>)
    BY <1>5 DEF SatelliteExplodes
  <2>2. MissionType'
    BY <1>1, <2>1 DEF MissionType, Mission!Explode
  <2>3. "EVENT_EXPLODED" \in Pushes /\ "EVENT_EXPLODED" # Problem[Pressure]
    BY LineFacts DEF Problem
  <2> QED BY <1>2, <2>1, <2>2, <2>3
<1>6. CASE SatelliteResets
  <2>1. /\ Mission!Reset /\ pressure' = "nominal" /\ UNCHANGED request
        /\ Sends(<<"EVENT_RESET">>)
    BY <1>6 DEF SatelliteResets
  <2>2. MissionType'
    BY <1>1, <2>1 DEF MissionType, Mission!Reset
  <2>3. "EVENT_RESET" \in Pushes /\ "EVENT_RESET" # Problem[Pressure]
    BY LineFacts DEF Problem
  <2> QED BY <1>2, <2>1, <2>2, <2>3
<1>7. CASE SatelliteTelemetry
  <2>1. PICK t \in Telemetry : Sends(<<t>>)
    BY <1>7 DEF SatelliteTelemetry
  <2>2. UNCHANGED <<mission, request>>
    BY <1>7 DEF SatelliteTelemetry
  <2>3. t \in Pushes /\ t # Problem[Pressure]
    BY LineFacts DEF Telemetry, Problem
  <2>4. MissionType' /\ pressure' = pressure
    BY <1>1, <2>2 DEF MissionType, mission
  <2> QED BY <1>2, <2>1, <2>2, <2>3, <2>4
<1> QED BY <1>3, <1>4, <1>5, <1>6, <1>7

-----------------------------------------------------------------------------
(* The controller.                                                         *)

LEMMA InitIInv == Init => IInv
<1> SUFFICES ASSUME Init PROVE IInv
  OBVIOUS
<1> USE DEF Init
<1>1. Typing
  <2>1. TypeOK
    <3>1. /\ launch_in_progress \in BOOLEAN /\ explosion_notified \in BOOLEAN
          /\ moving \in BOOLEAN /\ lost \in BOOLEAN
      BY Zenon
    <3>2. /\ pc \in {"connect", "poll", "scan", "keys", "pipe", "await"}
          /\ back \in {"connect", "keys", "pipe"}
          /\ asked \in Commands \cup {"CMD_LU", "none"}
          /\ request \in Commands \cup {"CMD_LU", "none"}
          /\ conn \in {"down", "up", "cut"} /\ mode \in {"NORMAL", "PASSWORD"}
      OBVIOUS
    <3>3. /\ typed \in 0..(PwdLength - 1) /\ entered \in 0..(PwdLength - 1)
          /\ pwd_start \in Off..(PwdLimit + 1) /\ since \in Off..(PwdLimit + 1)
      BY DEF Off
    <3>4. /\ flags \subseteq {0, 1, 2} /\ announced \subseteq {0, 1, 2}
          /\ phase \in {"READY", "FLYING", "EMERGENCY", "EXPLODED"} /\ open \subseteq Faults
          /\ pressure \in {"nominal", "fault", "corrected"}
          /\ \A i \in DOMAIN wire : wire[i] \in Lines
      BY DEF Mission!Init
    <3> QED BY <3>1, <3>2, <3>3, <3>4, Zenon DEF TypeOK
  <2>2. wire \in Seq(Lines) /\ entered = typed
    OBVIOUS
  <2> QED BY <2>1, <2>2 DEF Typing
<1>2. OneReply /\ LaunchAnnounced
  BY DEF OneReply, LaunchAnnounced
<1>3. Asking /\ Flagging /\ Announcing
  BY DEF Asking, Flagging, Announcing
<1> QED BY <1>1, <1>2, <1>3 DEF IInv

(* A step that neither asks, receives nor hears anything.                  *)
LEMMA SameStep ==
  ASSUME IInv, Typing', UNCHANGED <<asked, request, wire, lost, announced, conn, pressure, flags>>,
         launch_in_progress' \in {launch_in_progress, FALSE},
         pc' = pc \/ (pc # "await" /\ pc' # "await")
  PROVE  IInv'
<1>1. OneReply' /\ Asking'
  BY DEF IInv, OneReply, Asking
<1>2. LaunchAnnounced'
  BY DEF IInv, LaunchAnnounced
<1>3. Flagging'
  BY DEF IInv, Flagging, Clears
<1>4. Announcing'
  BY DEF IInv, Announcing
<1> QED BY <1>1, <1>2, <1>3, <1>4 DEF IInv

LEMMA QuietStep ==
  ASSUME IInv, QuietActions
  PROVE  IInv'
<1>1. Typing'
  BY QuietTyping DEF IInv
<1>2. /\ UNCHANGED <<asked, mission, link, flags, launch_in_progress>>
      /\ pc' = pc \/ (pc # "await" /\ pc' # "await")
  BY DEF QuietActions, Skip, AuthFails, PollDone, PasswordTimeout, NoKey, Backspace,
         ScanNormal, LaunchKey, KeysDone, PipeDone, Tick, display, stage, Scanning
<1> QED BY <1>1, <1>2, SameStep DEF mission, link

(* A telemetry line is neither a reply nor about faults or launches.       *)
LEMMA ConnectStep ==
  ASSUME IInv, Connect
  PROVE  IInv'
<1> Typing /\ WireType /\ MissionType /\ DisplayType /\ KeypadType /\ StageType
  BY TypingParts DEF IInv
<1>1. /\ pc' = "poll" /\ conn' = "up" /\ pc = "connect" /\ conn = "down"
      /\ UNCHANGED <<back, asked, keypad, launch_in_progress, display, mission,
                     request, lost, announced>>
      /\ wire' = wire \/ \E t \in Telemetry : wire' = Append(wire, t)
  BY DEF Connect
<1>2. wire' \in Seq(Lines) /\ wire \in Seq(Lines)
  BY <1>1, LineFacts DEF WireType, Telemetry
<1>3. Typing'
  BY <1>1, <1>2, TypingNext DEF WireType, MissionType, DisplayType, KeypadType, StageType,
                                mission, display, keypad
<1>4. /\ Len(wire') >= Len(wire)
      /\ \A i \in 1..Len(wire) : wire'[i] = wire[i]
      /\ \A i \in 1..Len(wire') : i \in 1..Len(wire) \/ wire'[i] \in Telemetry
  BY <1>1, <1>2
<1>5. announced' = {}
  BY <1>1 DEF IInv, Announcing
<1>6. OneReply'
  BY <1>1, <1>4, LineFacts DEF IInv, OneReply, Telemetry
<1>7. LaunchAnnounced'
  BY <1>1, <1>2, <1>4, WireFacts DEF IInv, LaunchAnnounced
<1>8. Asking' /\ Flagging' /\ Announcing'
  BY <1>1, <1>5 DEF IInv, Asking, Flagging, Announcing
<1> QED BY <1>3, <1>6, <1>7, <1>8 DEF IInv

(* The connection is closed, or cut: what was in transit or in g_push_buf  *)
(* may be lost from some line on.                                          *)
LEMMA ClosingStep ==
  ASSUME IInv, Typing', announced' = {}, launch_in_progress' => lost',
         wire' \in Buffered \cup {<< >>},
         request' \in {request, "none"}, UNCHANGED asked \/ asked' = "none",
         \/ pc' = pc /\ asked' = asked
         \/ pc # "await" /\ pc' # "await" /\ asked' = asked
         \/ pc' # "await" /\ asked' = "none" /\ wire' = << >>
  PROVE  IInv'
<1> Typing /\ wire \in Seq(Lines)
  BY DEF IInv, Typing
<1>1. \A i \in 1..Len(wire') : i \in 1..Len(wire) /\ wire'[i] = wire[i]
  <2>1. CASE wire' = << >>
    BY <2>1
  <2>2. CASE wire' \in Buffered
    <3>1. PICK k \in 0..Len(wire) : wire' = SubSeq(wire, 1, k)
      BY <2>2 DEF Buffered
    <3>2. Len(wire') = k /\ \A i \in 1..k : wire'[i] = wire[i]
      BY <3>1, PrefixFacts
    <3> QED BY <3>2, WireFacts
  <2> QED BY <2>1, <2>2
<1>2. OneReply'
  <2>1. CASE wire' = << >>
    BY <2>1 DEF OneReply
  <2>2. CASE pc' = pc \/ pc # "await"
    BY <1>1, <2>2 DEF IInv, OneReply
  <2> QED BY <2>1, <2>2
<1>3. Asking'
  BY DEF IInv, Asking
<1>4. LaunchAnnounced' /\ Flagging'
  BY DEF LaunchAnnounced, Flagging
<1>5. Announcing'
  BY DEF Announcing
<1> QED BY <1>2, <1>3, <1>4, <1>5 DEF IInv

LEMMA PushStep ==
  ASSUME IInv, HandlePush
  PROVE  IInv'
<1> Typing /\ wire \in Seq(Lines) /\ announced \subseteq {0, 1, 2}
  BY DEF IInv, Typing, TypeOK
<1>1. /\ wire # << >> /\ wire[1] \in Pushes /\ wire' = Tail(wire)
      /\ launch_in_progress' \in {launch_in_progress, FALSE}
      /\ wire[1] = "EVENT_LAUNCH" => launch_in_progress' = FALSE
      /\ \A f \in {0, 1, 2} :
           /\ wire[1] = Problem[f] => f \in flags'
           /\ f \in flags \ flags' => wire[1] \in {Resolved[f], "EVENT_RESET"}
      /\ lost' = (lost /\ launch_in_progress')
      /\ UNCHANGED <<pc, asked, pressure, conn, request, announced>>
  <2>1. Head(wire) = wire[1]
    BY PushEffect, TailFacts
  <2>2. UNCHANGED <<pc, asked, pressure, conn, request, announced>>
    BY PushEffect DEF stage, mission
  <2> QED BY <2>1, <2>2, PushEffect
<1>2. /\ Len(wire') = Len(wire) - 1 /\ Len(wire) \in Nat /\ Len(wire) > 0
      /\ \A i \in 1..Len(wire') : wire'[i] = wire[i + 1] /\ i + 1 \in 1..Len(wire)
      /\ \A i \in 2..Len(wire) : i - 1 \in 1..Len(wire') /\ wire'[i - 1] = wire[i]
  BY <1>1, TailFacts, WireFacts
<1>3. Typing'
  BY <1>1, PushTyping
<1>4. OneReply'
  BY <1>1, <1>2 DEF IInv, OneReply
<1>5. Asking' /\ Announcing'
  BY <1>1 DEF IInv, Asking, Announcing
<1>6. LaunchAnnounced'
  <2> SUFFICES ASSUME launch_in_progress', ~lost'
               PROVE  \/ /\ pc = "await" /\ asked = "CMD_LU"
                         /\ \A i \in 1..Len(wire') : wire'[i] = "OK_LAUNCH" =>
                              i < Len(wire') /\ wire'[i + 1] = "EVENT_LAUNCH"
                      \/ \E i \in 1..Len(wire') : wire'[i] = "EVENT_LAUNCH"
    BY <1>1 DEF LaunchAnnounced
  <2>1. launch_in_progress /\ ~lost /\ wire[1] # "EVENT_LAUNCH"
    BY <1>1
  <2>2. CASE \E i \in 1..Len(wire) : wire[i] = "EVENT_LAUNCH"
    <3>1. PICK i \in 1..Len(wire) : wire[i] = "EVENT_LAUNCH"
      BY <2>2
    <3>2. i \in 2..Len(wire)
      BY <1>2, <2>1, <3>1
    <3> QED BY <1>2, <3>1, <3>2
  <2>3. CASE /\ pc = "await" /\ asked = "CMD_LU"
             /\ \A i \in 1..Len(wire) : wire[i] = "OK_LAUNCH" =>
                  i < Len(wire) /\ wire[i + 1] = "EVENT_LAUNCH"
    <3>1. ASSUME NEW i \in 1..Len(wire'), wire'[i] = "OK_LAUNCH"
          PROVE  i < Len(wire') /\ wire'[i + 1] = "EVENT_LAUNCH"
      <4>1. i + 1 < Len(wire) /\ wire[i + 1 + 1] = "EVENT_LAUNCH"
        BY <1>2, <2>3, <3>1
      <4>2. i < Len(wire') /\ i + 1 \in 1..Len(wire')
        BY <1>2, <4>1
      <4> QED BY <1>2, <4>1, <4>2
    <3> QED BY <2>3, <3>1
  <2> QED BY <2>1, <2>2, <2>3 DEF IInv, LaunchAnnounced
<1>7. Flagging'
  <2> SUFFICES ASSUME NEW f \in announced
               PROVE  /\ f \in flags' \/ \E i \in 1..Len(wire') : wire'[i] = Problem[f]
                      /\ \A i \in 1..Len(wire') : Clears(wire'[i], f) =>
                           \E j \in (i + 1)..Len(wire') : wire'[j] = Problem[f]
    BY <1>1 DEF Flagging, Clears
  <2>1. /\ f \in flags \/ \E i \in 1..Len(wire) : wire[i] = Problem[f]
        /\ \A i \in 1..Len(wire) : Clears(wire[i], f) =>
             \E j \in (i + 1)..Len(wire) : wire[j] = Problem[f]
    BY DEF IInv, Flagging
  <2>2. f \in flags' \/ \E i \in 1..Len(wire') : wire'[i] = Problem[f]
    <3>1. ASSUME NEW i \in 1..Len(wire), wire[i] = Problem[f]
          PROVE  f \in flags' \/ \E j \in 1..Len(wire') : wire'[j] = Problem[f]
      <4>1. CASE i = 1
        BY <1>1, <3>1, <4>1
      <4>2. CASE i \in 2..Len(wire)
        BY <1>2, <3>1, <4>2
      <4> QED BY <1>2, <4>1, <4>2
    <3>2. CASE f \in flags \ flags'
      <4>1. Clears(wire[1], f)
        BY <1>1, <3>2 DEF Clears
      <4>2. PICK j \in 2..Len(wire) : wire[j] = Problem[f]
        BY <1>2, <2>1, <4>1
      <4> QED BY <1>2, <3>1, <4>2
    <3> QED BY <2>1, <3>1, <3>2
  <2>3. ASSUME NEW i \in 1..Len(wire'), Clears(wire'[i], f)
        PROVE  \E j \in (i + 1)..Len(wire') : wire'[j] = Problem[f]
    <3>1. PICK j \in (i + 1 + 1)..Len(wire) : wire[j] = Problem[f]
      BY <1>2, <2>1, <2>3
    <3>2. j \in 2..Len(wire) /\ j - 1 \in (i + 1)..Len(wire')
      BY <1>2, <3>1
    <3> QED BY <1>2, <3>1, <3>2
  <2> QED BY <2>2, <2>3
<1> QED BY <1>3, <1>4, <1>5, <1>6, <1>7 DEF IInv

(* A command is sent, or not: the digits and the displays may change too.  *)
LEMMA SendCmdStep ==
  ASSUME IInv, Typing', NEW cmd \in Commands \cup {"CMD_LU"}, NEW next \in {"connect", "keys", "pipe"},
         pc # "await", SendCmd(cmd, next), UNCHANGED <<flags, mission>>,
         cmd # "CMD_LU" => UNCHANGED launch_in_progress,
         cmd = "CMD_LU" => launch_in_progress' = (pc' = "await")
  PROVE  IInv'
<1> Typing /\ wire \in Seq(Lines)
  BY DEF IInv, Typing
<1>0. pressure' = pressure /\ launch_in_progress \in BOOLEAN
  BY DEF mission, Typing, TypeOK
<1>1. CASE conn = "down" /\ pc' = next
           /\ UNCHANGED <<back, asked, conn, wire, request, lost, announced>>
  <2>1. launch_in_progress' \in {launch_in_progress, FALSE} /\ pc' # "await"
    BY <1>1
  <2> QED BY <1>0, <1>1, <2>1, SameStep
<1>2. CASE /\ conn = "cut" /\ pc' = next
           /\ \E lines \in Buffered : CloseKeeping(lines)
           /\ UNCHANGED <<back, asked>>
  <2>1. /\ announced' = {} /\ wire' \in Buffered /\ request' = request
        /\ lost' = launch_in_progress
    BY <1>2 DEF CloseKeeping
  <2>2. pc' # "await"
    BY <1>2
  <2>3. launch_in_progress' => lost'
    <3>1. CASE cmd = "CMD_LU"
      BY <2>2, <3>1, Zenon
    <3>2. CASE cmd # "CMD_LU"
      BY <2>1, <3>2
    <3> QED BY <3>1, <3>2
  <2> QED BY <1>2, <2>1, <2>2, <2>3, ClosingStep
<1>3. CASE /\ conn # "down"
           /\ pc' = "await" /\ back' = next /\ asked' = cmd /\ request' = cmd
           /\ lost' = (IF cmd = "CMD_LU" THEN conn = "cut" ELSE lost)
           /\ UNCHANGED <<conn, wire, announced>>
  <2>1. \A i \in 1..Len(wire) : wire[i] \in Pushes
    BY DEF IInv, OneReply
  <2>2. OneReply' /\ Asking'
    BY <1>3, <2>1 DEF OneReply, Asking
  <2>3. LaunchAnnounced'
    <3>1. CASE cmd = "CMD_LU"
      BY <1>3, <2>1, <3>1, LineFacts DEF LaunchAnnounced
    <3>2. CASE cmd # "CMD_LU"
      BY <1>3, <3>2 DEF IInv, LaunchAnnounced
    <3> QED BY <3>1, <3>2
  <2>4. Flagging'
    <3>1. announced \subseteq {0, 1, 2}
      BY DEF Typing, TypeOK
    <3>2. \A i \in 1..Len(wire), f \in announced : Clears(wire[i], f)' => Clears(wire[i], f)
      BY <1>3, <2>1, <3>1, LineFacts DEF Clears
    <3> QED BY <1>3, <3>2 DEF IInv, Flagging, Clears
  <2>5. Announcing'
    BY <1>0, <1>3 DEF IInv, Announcing
  <2> QED BY <2>2, <2>3, <2>4, <2>5 DEF IInv
<1> QED BY <1>1, <1>2, <1>3 DEF SendCmd

(* What the callers of send_cmd_recv do with the reply.                    *)
LEMMA ReplyEffect ==
  ASSUME Typing, AwaitReply
  PROVE  /\ pc = "await" /\ wire # << >> /\ Head(wire) \notin Pushes
         /\ wire' = Tail(wire) /\ pc' = back /\ asked' = "none" /\ back' = "connect"
         /\ lost' = (lost /\ launch_in_progress')
         /\ launch_in_progress' \in {launch_in_progress, FALSE}
         /\ launch_in_progress' = launch_in_progress \/ asked = "CMD_LU"
         /\ asked = "CMD_LU" /\ launch_in_progress' => Head(wire) = "OK_LAUNCH"
         /\ flags' \subseteq {0, 1, 2}
         /\ \A f \in flags \ flags' : Clears(Head(wire), f)
         /\ UNCHANGED <<keypad, explosion_notified, moving, mission, conn, request, announced>>
<1> DEFINE reply == Head(wire)
<1>1. /\ pc = "await" /\ wire # << >> /\ reply \notin Pushes
      /\ wire' = Tail(wire) /\ pc' = back /\ asked' = "none" /\ back' = "connect"
      /\ lost' = (lost /\ launch_in_progress')
      /\ UNCHANGED <<keypad, explosion_notified, moving, mission, conn, request, announced>>
  BY DEF AwaitReply
<1>2. /\ launch_in_progress \in BOOLEAN /\ flags \subseteq {0, 1, 2}
  BY DEF Typing, TypeOK
<1> HIDE DEF reply
<1>3. CASE AnsweredLaunch(reply)
  <2>1. asked = "CMD_LU" /\ flags' = flags
    BY <1>3 DEF AnsweredLaunch
  <2>2. launch_in_progress' \in {launch_in_progress, FALSE}
    BY <1>2, <1>3, Zenon DEF AnsweredLaunch
  <2>3. launch_in_progress' => reply = "OK_LAUNCH"
    BY <1>3 DEF AnsweredLaunch
  <2> QED BY <1>1, <1>2, <2>1, <2>2, <2>3 DEF reply
<1>4. CASE AnsweredLand(reply) \/ AnsweredAsk(reply)
  <2>1. asked # "CMD_LU" /\ UNCHANGED <<flags, launch_in_progress>>
    BY <1>4 DEF AnsweredLand, AnsweredAsk
  <2> QED BY <1>1, <1>2, <2>1 DEF reply
<1>5. CASE AnsweredPres(reply)
  <2>1. asked = "CMD_PRES" /\ launch_in_progress' = launch_in_progress
    BY <1>5 DEF AnsweredPres
  <2>2. \/ flags' = flags \cup {Pressure}
        \/ flags' = flags \ {Pressure} /\ reply \in {"OK_PRES_FIX", "OK_PRES_OK"}
    BY <1>5 DEF AnsweredPres
  <2>3. \A f \in flags \ flags' : Clears(reply, f)
    BY <2>1, <2>2 DEF Clears
  <2> QED BY <1>1, <1>2, <2>1, <2>2, <2>3 DEF reply
<1>6. CASE AnsweredRepair(reply)
  <2>1. PICK f \in {1, 2} :
          /\ asked = Repair[f] /\ UNCHANGED launch_in_progress
          /\ \/ reply = "OK_REP_FIX" /\ flags' = flags \ {f}
             \/ flags' = flags
    BY <1>6 DEF AnsweredRepair
  <2>2. asked # "CMD_LU"
    BY <2>1 DEF Repair
  <2>3. \A g \in flags \ flags' : Clears(reply, g)
    BY <2>1 DEF Clears
  <2> QED BY <1>1, <1>2, <2>1, <2>2, <2>3 DEF reply
<1> QED BY <1>3, <1>4, <1>5, <1>6 DEF AwaitReply, reply

LEMMA ReplyStep ==
  ASSUME IInv, AwaitReply
  PROVE  IInv'
<1> Typing /\ wire \in Seq(Lines) /\ announced \subseteq {0, 1, 2}
  BY DEF IInv, Typing, TypeOK
<1> WireType /\ MissionType /\ DisplayType /\ KeypadType /\ StageType
  BY TypingParts
<1>1. /\ pc = "await" /\ wire # << >> /\ wire[1] \notin Pushes
      /\ wire' = Tail(wire) /\ pc' = back /\ asked' = "none" /\ back' = "connect"
      /\ lost' = (lost /\ launch_in_progress')
      /\ launch_in_progress' \in {launch_in_progress, FALSE}
      /\ launch_in_progress' = launch_in_progress \/ asked = "CMD_LU"
      /\ asked = "CMD_LU" /\ launch_in_progress' => wire[1] = "OK_LAUNCH"
      /\ flags' \subseteq {0, 1, 2}
      /\ \A f \in flags \ flags' : Clears(wire[1], f)
      /\ UNCHANGED <<keypad, explosion_notified, moving, mission, conn, request, announced>>
  <2>1. wire # << >>
    BY ReplyEffect
  <2>2. Head(wire) = wire[1]
    BY <2>1, TailFacts
  <2> QED BY <2>2, ReplyEffect
<1>2. /\ Len(wire') = Len(wire) - 1 /\ Len(wire) \in Nat /\ Len(wire) > 0
      /\ \A i \in 1..Len(wire') : wire'[i] = wire[i + 1] /\ i + 1 \in 1..Len(wire)
      /\ \A i \in 2..Len(wire) : i - 1 \in 1..Len(wire') /\ wire'[i - 1] = wire[i]
  BY <1>1, TailFacts, WireFacts
<1>3. Typing'
  <2>1. WireType'
    <3>1. wire' \in Seq(Lines) /\ announced' = announced
      BY <1>1, TailFacts
    <3>2. lost' \in BOOLEAN
      BY <1>1, Zenon
    <3> QED BY <3>1, <3>2 DEF WireType
  <2>2. DisplayType'
    BY <1>1 DEF DisplayType
  <2>3. MissionType' /\ KeypadType'
    BY <1>1 DEF MissionType, KeypadType, mission, keypad
  <2>4. StageType'
    BY <1>1 DEF StageType
  <2> QED BY <2>1, <2>2, <2>3, <2>4, TypingNext
<1>4. \A i \in 1..Len(wire') : wire'[i] \in Pushes
  BY <1>1, <1>2 DEF IInv, OneReply
<1>5. pc' # "await"
  BY <1>1 DEF StageType
<1>6. OneReply' /\ Asking'
  BY <1>1, <1>4, <1>5 DEF OneReply, Asking
<1>7. LaunchAnnounced'
  <2> SUFFICES ASSUME launch_in_progress', ~lost'
               PROVE  \E i \in 1..Len(wire') : wire'[i] = "EVENT_LAUNCH"
    BY DEF LaunchAnnounced
  <2>1. launch_in_progress /\ ~lost
    BY <1>1
  <2>2. CASE \E i \in 1..Len(wire) : wire[i] = "EVENT_LAUNCH"
    <3>1. PICK i \in 1..Len(wire) : wire[i] = "EVENT_LAUNCH"
      BY <2>2
    <3>2. i # 1
      BY <1>1, <3>1, LineFacts
    <3> QED BY <1>2, <3>1, <3>2
  <2>3. CASE /\ asked = "CMD_LU"
             /\ \A i \in 1..Len(wire) : wire[i] = "OK_LAUNCH" =>
                  i < Len(wire) /\ wire[i + 1] = "EVENT_LAUNCH"
    <3>1. 1 < Len(wire) /\ wire[2] = "EVENT_LAUNCH"
      BY <1>1, <1>2, <2>3
    <3> QED BY <1>2, <3>1
  <2> QED BY <2>1, <2>2, <2>3 DEF IInv, LaunchAnnounced
<1>8. Flagging'
  <2> SUFFICES ASSUME NEW f \in announced
               PROVE  /\ f \in flags' \/ \E i \in 1..Len(wire') : wire'[i] = Problem[f]
                      /\ \A i \in 1..Len(wire') : wire'[i] \in {Resolved[f], "EVENT_RESET"} =>
                           \E j \in (i + 1)..Len(wire') : wire'[j] = Problem[f]
    BY <1>1 DEF Flagging, Clears, Repair
  <2>1. /\ f \in flags \/ \E i \in 1..Len(wire) : wire[i] = Problem[f]
        /\ \A i \in 1..Len(wire) : Clears(wire[i], f) =>
             \E j \in (i + 1)..Len(wire) : wire[j] = Problem[f]
    BY DEF IInv, Flagging
  <2>2. f \in flags' \/ \E i \in 1..Len(wire') : wire'[i] = Problem[f]
    <3>1. ASSUME NEW i \in 1..Len(wire), wire[i] = Problem[f]
          PROVE  \E j \in 1..Len(wire') : wire'[j] = Problem[f]
      <4>1. i # 1
        BY <1>1, <3>1, LineFacts
      <4> QED BY <1>2, <3>1, <4>1
    <3>2. CASE f \in flags \ flags'
      <4>1. Clears(wire[1], f)
        BY <1>1, <3>2
      <4>2. PICK j \in 2..Len(wire) : wire[j] = Problem[f]
        BY <1>2, <2>1, <4>1
      <4> QED BY <1>2, <3>1, <4>2
    <3> QED BY <2>1, <3>1, <3>2
  <2>3. ASSUME NEW i \in 1..Len(wire'), wire'[i] \in {Resolved[f], "EVENT_RESET"}
        PROVE  \E j \in (i + 1)..Len(wire') : wire'[j] = Problem[f]
    <3>1. Clears(wire'[i], f)
      BY <2>3 DEF Clears
    <3>2. PICK j \in (i + 1 + 1)..Len(wire) : wire[j] = Problem[f]
      BY <1>2, <2>1, <3>1
    <3>3. j \in 2..Len(wire) /\ j - 1 \in (i + 1)..Len(wire')
      BY <1>2, <3>2
    <3> QED BY <1>2, <3>2, <3>3
  <2> QED BY <2>2, <2>3
<1>9. Announcing'
  BY <1>1 DEF IInv, Announcing, mission
<1> QED BY <1>3, <1>6, <1>7, <1>8, <1>9 DEF IInv

(* The connection is found closed, fails under a command, or is cut.       *)
LEMMA BrokenStep ==
  ASSUME IInv, PollLost \/ AwaitFails \/ Cut
  PROVE  IInv'
<1> Typing /\ WireType /\ MissionType /\ DisplayType /\ KeypadType /\ StageType
  BY TypingParts DEF IInv
<1>1. ASSUME NEW lines \in Buffered \cup {<< >>}
      PROVE  lines \in Seq(Lines)
  <2>1. wire \in Seq(Lines)
    BY DEF WireType
  <2> QED BY <2>1, PrefixFacts, EmptySeq DEF Buffered
<1>2. CASE PollLost
  <2>1. PICK lines \in Buffered : CloseKeeping(lines)
    BY <1>2 DEF PollLost
  <2>2. /\ pc = "poll" /\ pc' = "scan"
        /\ UNCHANGED <<back, asked, keypad, launch_in_progress, display, mission>>
    BY <1>2 DEF PollLost
  <2>3. WireType' /\ conn' = "down" /\ request' = request
    BY <2>1, ClosingType
  <2>4. Typing'
    BY <2>2, <2>3, TypingNext
       DEF MissionType, DisplayType, KeypadType, StageType, mission, display, keypad
  <2>5. announced' = {} /\ lost' = launch_in_progress /\ wire' \in Buffered
    BY <2>1 DEF CloseKeeping
  <2> QED BY <2>2, <2>3, <2>4, <2>5, ClosingStep
<1>3. CASE AwaitFails
  <2>1. /\ CloseKeeping(<< >>) /\ pc' = back /\ asked' = "none" /\ back' = "connect"
        /\ UNCHANGED <<keypad, display, mission>>
        /\ launch_in_progress' = (asked # "CMD_LU" /\ launch_in_progress)
    BY <1>3 DEF AwaitFails
  <2>2. WireType' /\ conn' = "down" /\ request' = request
    BY <2>1, ClosingType
  <2>3. launch_in_progress' \in BOOLEAN /\ (launch_in_progress' => launch_in_progress)
    BY <2>1, Zenon
  <2>4. DisplayType'
    BY <2>1, <2>3 DEF DisplayType, display
  <2>5. Typing'
    BY <2>1, <2>2, <2>4, TypingNext DEF MissionType, KeypadType, StageType, mission, keypad
  <2>6. announced' = {} /\ (launch_in_progress' => lost') /\ wire' = << >>
    BY <2>1, <2>3 DEF CloseKeeping
  <2>7. pc' # "await"
    BY <2>1 DEF StageType
  <2> QED BY <2>1, <2>2, <2>5, <2>6, <2>7, ClosingStep
<1>4. CASE Cut
  <2>1. /\ conn = "up" /\ conn' = "cut" /\ wire' \in Buffered
        /\ lost' = launch_in_progress /\ announced' = {}
        /\ UNCHANGED <<stage, keypad, launch_in_progress, display>>
        /\ request' \in {request, "none"}
    BY <1>4 DEF Cut
  <2>2. MissionType'
    BY <1>4 DEF Cut, MissionType, mission, Mission!Reset
  <2>3. WireType'
    BY <1>1, <2>1 DEF WireType, DisplayType
  <2>4. Typing'
    BY <2>1, <2>2, <2>3, TypingNext DEF DisplayType, KeypadType, StageType, display, keypad, stage
  <2> QED BY <2>1, <2>4, ClosingStep DEF stage
<1> QED BY <1>2, <1>3, <1>4

(* The types after a step of the keypad or of the buttons that may send a  *)
(* command.                                                                *)
LEMMA SendingTyping ==
  ASSUME Typing, NEW cmd \in Commands \cup {"CMD_LU"}, NEW next \in {"connect", "keys", "pipe"},
         SendCmd(cmd, next), KeypadType', UNCHANGED <<flags, moving, mission>>,
         launch_in_progress' \in BOOLEAN, explosion_notified' \in {explosion_notified, FALSE}
  PROVE  Typing'
<1> WireType /\ MissionType /\ DisplayType /\ KeypadType /\ StageType
  BY TypingParts
<1>1. WireType' /\ StageType'
  BY SendCmdType
<1>2. MissionType'
  BY DEF MissionType, mission
<1>3. explosion_notified' \in BOOLEAN
  BY Zenon DEF DisplayType
<1>4. DisplayType'
  BY <1>3 DEF DisplayType
<1> QED BY <1>1, <1>2, <1>4, TypingNext

LEMMA ClockedType ==
  ASSUME KeypadType, Scanning
  PROVE  pc = "scan" /\ pwd_start' \in Off..(PwdLimit + 1)
<1>1. pc = "scan" /\ Clocked /\ pwd_start <= PwdLimit
  BY DEF Scanning
<1> QED BY <1>1 DEF KeypadType, Clocked, Off

LEMMA ConfirmStep ==
  ASSUME IInv, Scanning, NEW digits, NEW echo, Confirm(digits, echo), UNCHANGED <<flags, moving, mission>>
  PROVE  IInv'
<1> Typing /\ WireType /\ MissionType /\ DisplayType /\ KeypadType /\ StageType
  BY TypingParts DEF IInv
<1>1. /\ pc = "scan" /\ pwd_start' \in Off..(PwdLimit + 1)
      /\ typed' = 0 /\ entered' = 0
  BY ClockedType DEF Confirm
<1>2. CASE /\ mode' = "NORMAL" /\ since' = Off /\ explosion_notified' = FALSE
           /\ SendLaunch("pipe")
  <2>1. SendCmd("CMD_LU", "pipe") /\ launch_in_progress' = (pc' = "await")
    BY <1>2 DEF SendLaunch
  <2>2. launch_in_progress' \in BOOLEAN
    BY <2>1, Zenon
  <2>3. KeypadType'
    BY <1>1, <1>2 DEF KeypadType, Off
  <2>4. Typing'
    BY <1>2, <2>1, <2>2, <2>3, SendingTyping
  <2> QED BY <1>1, <2>1, <2>4, SendCmdStep
<1>3. CASE /\ pc' = "pipe"
           /\ UNCHANGED <<back, asked, mode, since, explosion_notified, launch_in_progress, link>>
  <2>1. KeypadType'
    BY <1>1, <1>3 DEF KeypadType
  <2>2. Typing'
    BY <1>1, <1>3, <2>1, TypingNext DEF WireType, MissionType, DisplayType, StageType, mission, link
  <2> QED BY <1>1, <1>3, <2>2, SameStep DEF mission, link
<1> QED BY <1>2, <1>3 DEF Confirm

LEMMA DigitStep ==
  ASSUME IInv, Digit
  PROVE  IInv'
<1> Typing /\ WireType /\ MissionType /\ DisplayType /\ KeypadType /\ StageType
  BY TypingParts DEF IInv
<1>1. Scanning /\ UNCHANGED <<flags, moving, mission>>
  BY DEF Digit
<1>2. CASE Confirm(PwdLength, <<"PASSCHAR">>)
  BY <1>1, <1>2, ConfirmStep
<1>3. CASE /\ typed < PwdLength - 1
           /\ typed' = typed + 1 /\ entered' = entered + 1
           /\ fifo' = <<"PASSCHAR">> /\ pc' = "pipe"
           /\ UNCHANGED <<back, asked, mode, since, launch_in_progress, explosion_notified, link>>
  <2>1. pc = "scan" /\ pwd_start' \in Off..(PwdLimit + 1)
    BY <1>1, ClockedType
  <2>2. KeypadType'
    BY <1>3, <2>1 DEF KeypadType
  <2>3. Typing'
    BY <1>1, <1>3, <2>2, TypingNext DEF WireType, MissionType, DisplayType, StageType, mission, link
  <2> QED BY <1>1, <1>3, <2>1, <2>3, SameStep DEF mission, link
<1> QED BY <1>2, <1>3 DEF Digit

LEMMA ButtonStep ==
  ASSUME IInv, NEW cmd \in Commands, Button(cmd)
  PROVE  IInv'
<1> Typing /\ DisplayType /\ KeypadType
  BY TypingParts DEF IInv
<1>1. /\ pc = "keys" /\ SendCmd(cmd, "keys")
      /\ UNCHANGED <<keypad, launch_in_progress, display, mission>>
  BY DEF Button
<1>2. KeypadType' /\ UNCHANGED <<flags, moving, explosion_notified>> /\ launch_in_progress' \in BOOLEAN
  BY <1>1 DEF KeypadType, DisplayType, keypad, display
<1>3. Typing'
  BY <1>1, <1>2, SendingTyping
<1>4. cmd # "CMD_LU"
  OBVIOUS
<1> QED BY <1>1, <1>2, <1>3, <1>4, SendCmdStep

LEMMA KeyboardStep ==
  ASSUME IInv, KeyboardLaunch
  PROVE  IInv'
<1> Typing /\ DisplayType /\ KeypadType
  BY TypingParts DEF IInv
<1>1. /\ pc = "pipe" /\ SendCmd("CMD_LU", "connect") /\ launch_in_progress' = (pc' = "await")
      /\ mode' = "NORMAL" /\ since' = Off
      /\ UNCHANGED <<typed, pwd_start, entered, display, mission>>
  BY DEF KeyboardLaunch, SendLaunch
<1>2. launch_in_progress' \in BOOLEAN
  BY <1>1, Zenon
<1>3. KeypadType' /\ UNCHANGED <<flags, moving, explosion_notified>>
  BY <1>1 DEF KeypadType, display, Off
<1>4. Typing'
  BY <1>1, <1>2, <1>3, SendingTyping
<1> QED BY <1>1, <1>3, <1>4, SendCmdStep

LEMMA NextIInv == IInv /\ [Next]_vars => IInv'
<1> SUFFICES ASSUME IInv, [Next]_vars PROVE IInv'
  OBVIOUS
<1>1. CASE QuietActions
  BY <1>1, QuietStep
<1>2. CASE Connect
  BY <1>2, ConnectStep
<1>3. CASE PollPush \/ AwaitPush
  BY <1>3, PushStep DEF PollPush, AwaitPush
<1>4. CASE PollLost \/ AwaitFails \/ Cut
  BY <1>4, BrokenStep
<1>5. CASE AwaitReply
  BY <1>5, ReplyStep
<1>6. CASE ConfirmKey
  BY <1>6, ConfirmStep DEF ConfirmKey
<1>7. CASE Digit
  BY <1>7, DigitStep
<1>8. ASSUME NEW cmd \in Commands, Button(cmd) PROVE IInv'
  BY <1>8, ButtonStep
<1>9. CASE KeyboardLaunch
  BY <1>9, KeyboardStep
<1>10. CASE Satellite
  BY <1>4, <1>10, DoesLaunchStep, DoesLandStep, DoesPresStep, DoesRepairStep, DoesAskStep,
     SatelliteEventStep DEF Satellite
<1>11. CASE UNCHANGED vars
  <2>1. UNCHANGED <<stage, keypad, launch_in_progress, display, mission, link>>
    BY <1>11 DEF vars
  <2>2. Typing'
    <3>1. WireType /\ MissionType /\ DisplayType /\ KeypadType /\ StageType
      BY TypingParts DEF IInv
    <3> QED BY <2>1, <3>1, TypingNext DEF WireType, MissionType, DisplayType, KeypadType,
                                          StageType, stage, keypad, display, mission, link
  <2> QED BY <2>1, <2>2, SameStep DEF stage, display, mission, link
<1> QED BY <1>1, <1>2, <1>3, <1>4, <1>5, <1>6, <1>7, <1>8, <1>9, <1>10, <1>11
        DEF Next, QuietActions

-----------------------------------------------------------------------------
(* The theorems.                                                           *)

(* The conjuncts of IInv hold in every state: the one reply in transit is  *)
(* that of the command awaited, EVENT LAUNCH follows OK LAUNCH, and what   *)
(* makes the controller forget a fault is followed by what flags it again. *)
THEOREM Invariance == Spec => []IInv
<1>1. IInv /\ [Next]_vars => IInv'
  BY NextIInv
<1> QED BY InitIInv, <1>1, PTL DEF Spec

(* The variables keep the types of joypi_ctrl, and password_buf is never   *)
(* full between two keys.                                                  *)
THEOREM TypeCorrect == Spec => []TypeOK
<1>1. IInv => TypeOK
  BY DEF IInv, Typing
<1> QED BY Invariance, <1>1, PTL

(* launch_in_progress is set only while its command is unanswered or an    *)
(* event that resets it is coming, unless the link broke.                  *)
THEOREM LaunchIsPending == Spec => []LaunchPending
<1>1. IInv => LaunchPending
  <2>1. ASSUME IInv PROVE DOMAIN wire = 1..Len(wire)
    BY <2>1, WireFacts DEF IInv, Typing
  <2> QED BY <2>1 DEF IInv, LaunchAnnounced, LaunchPending, Coming
<1> QED BY Invariance, <1>1, PTL

(* No fault announced on a session and still open is forgotten.            *)
THEOREM FaultsAreFlagged == Spec => []FaultsFlagged
<1>1. IInv => FaultsFlagged
  <2>1. ASSUME IInv PROVE DOMAIN wire = 1..Len(wire)
    BY <2>1, WireFacts DEF IInv, Typing
  <2> QED BY <2>1 DEF IInv, Flagging, FaultsFlagged, Coming
<1> QED BY Invariance, <1>1, PTL

(* No digit of an earlier entry is left in password_buf.                   *)
THEOREM NothingLeftOver == Spec => []NoLeftoverDigits
<1>1. IInv => NoLeftoverDigits
  BY DEF IInv, Typing, TypeOK, NoLeftoverDigits
<1> QED BY Invariance, <1>1, PTL

(* The reply to a repair clears the alerts of the dashboard only if every  *)
(* other fault announced on the session is still to be shown there.        *)
THEOREM RepairsKeepAlerts == Spec => RepairKeepsAlerts
<1> DEFINE A == \A f \in {1, 2} :
                  pc = "await" /\ asked = Repair[f] /\ pc' # "await" /\ fifo' = <<"CLEAR_ALERTS">>
                    => \A g \in announced \ {f} : Coming(Problem[g])
<1>1. IInv /\ [Next]_vars => [A]_vars
  <2> SUFFICES ASSUME IInv, Next, NEW f \in {1, 2},
                      pc = "await", asked = Repair[f], pc' # "await", fifo' = <<"CLEAR_ALERTS">>,
                      NEW g \in announced \ {f}
               PROVE  Coming(Problem[g])
    BY Zenon DEF Coming
  <2>1. AwaitReply
    <3>1. fifo' # << >>
      OBVIOUS
    <3>2. ~AwaitFails
      BY <3>1 DEF AwaitFails
    <3>3. pc' # pc
      OBVIOUS
    <3>4. ~QuietActions /\ ~Connect /\ ~PollLost
      BY <3>3 DEF QuietActions, Skip, AuthFails, PollDone, PasswordTimeout, NoKey, Backspace, Scanning,
                  ScanNormal, LaunchKey, KeysDone, PipeDone, Tick, stage, Connect, PollLost
    <3>5. ~PollPush /\ ~AwaitPush
      BY <3>3 DEF PollPush, AwaitPush, HandlePush, stage
    <3>6. ~ConfirmKey /\ ~Digit /\ ~KeyboardLaunch /\ \A cmd \in Commands : ~Button(cmd)
      BY DEF ConfirmKey, Digit, Scanning, KeyboardLaunch, Button
    <3>7. ~Satellite
      <4>1. \A lines : Sends(lines) => pc' = pc
        BY DEF Sends, stage
      <4>2. \A reply, events : Replies(reply, events) => pc' = pc
        BY <4>1 DEF Replies
      <4>3. ~Cut
        BY <3>3 DEF Cut, stage
      <4> QED BY <3>3, <4>1, <4>2, <4>3
              DEF Satellite, DoesLaunch, DoesLand, DoesPres, DoesRepair, DoesAsk, Drops,
                  SatelliteObserves, SatelliteLands, SatelliteExplodes, SatelliteResets,
                  SatelliteTelemetry
    <3> QED BY <3>2, <3>4, <3>5, <3>6, <3>7 DEF Next, QuietActions
  <2>2. flags \subseteq {f}
    <3>1. asked \notin {"CMD_LU", "CMD_LD", "CMD_PRES", "CMD_ASK"} /\ \A h \in {1, 2} : asked = Repair[h] => h = f
      BY DEF Repair
    <3>2. AnsweredRepair(Head(wire))
      BY <2>1, <3>1 DEF AwaitReply, AnsweredLaunch, AnsweredLand, AnsweredPres, AnsweredAsk
    <3> QED BY <3>1, <3>2 DEF AnsweredRepair
  <2>3. FaultsFlagged
    <3>1. DOMAIN wire = 1..Len(wire)
      BY WireFacts DEF IInv, Typing
    <3> QED BY <3>1 DEF IInv, Flagging, FaultsFlagged, Coming
  <2> QED BY <2>2, <2>3 DEF FaultsFlagged
<1>2. Spec => [][A]_vars
  BY Invariance, <1>1, PTL DEF Spec
<1> QED BY <1>2 DEF RepairKeepsAlerts
=============================================================================
