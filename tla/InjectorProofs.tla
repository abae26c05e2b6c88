----------------------------- MODULE InjectorProofs ------------------------------
(***************************************************************************)
(* An OK serves the line that is waited for, and what the satellite knows  *)
(* of a rocket lost or descending is so in the physics, or will be by the  *)
(* orders in transit.                                                      *)
(*                                                                         *)
(* A landing order is refused unless the rocket is in orbit when it comes. *)
(* The invariant says why it is: an altitude in transit is still the       *)
(* rocket's, a rocket in orbit is launched and stays there, and no order   *)
(* to launch, which would put it on the ground, is then in transit, since  *)
(* such an order is read before the next round of telemetry ends and the   *)
(* rocket does not reach orbit by then.                                    *)
(***************************************************************************)
EXTENDS Injector, Folding, SequenceTheorems

Rockets == [launched : BOOLEAN, landing : BOOLEAN, exploded : BOOLEAN,
            controlled : BOOLEAN, altitude : Altitudes, fuel : Fuels, stressed : BOOLEAN]

News == Orders \cup Replies

Answers(lines) == {i \in DOMAIN lines : lines[i] \in Replies}
Alone(lines)   == \A i, j \in Answers(lines) : i = j
Leading(lines) == \A i \in Answers(lines) : i = 1

-----------------------------------------------------------------------------
(* The inductive invariant.                                                *)

(* Lines are only in transit on a connection.                              *)
Connected ==
  /\ fd # "up" => toSat = << >>
  /\ fd = "down" => toInj = << >>
  /\ pc = "link" => fd = "down"
  /\ pc \in {"auth", "await"} => fd # "down"

(* AUTH is answered before anything else is written.                       *)
Authenticating ==
  pc = "auth" =>
    /\ fd = "up" => toSat # << >> \/ toInj # << >>
    /\ Leading(toInj)
    /\ toInj # << >> => toSat = << >> /\ toInj[1] \in Replies
    /\ toSat # << >> => /\ Len(toSat) = 1 /\ toSat[1].line = "AUTH"
                        /\ toSat[1].altitude = "ground"

(* One line at most is unanswered or its answer unread.                    *)
Single ==
  /\ Len(toSat) <= 1
  /\ toSat # << >> => Answers(toInj) = {}
  /\ Alone(toInj)

(* In a task; after an error only its end is certain, which is to close.   *)
Working ==
  pc = "await" =>
    /\ todo # << >> /\ (~err => Single)
    /\ Head(todo) = "RESET" => ~err
    /\ \A i \in 2..Len(todo) : todo[i] # "RESET"

(* Between two tasks.                                                      *)
Between ==
  pc \in {"step", "emit", "link", "read"} => toSat = << >> /\ Answers(toInj) = {}

(* A RESET in transit is alone, and what it resets is on the ground.       *)
Resetting ==
  ResetPending => /\ pc = "await" /\ Head(todo) = "RESET" /\ Len(toSat) = 1
                  /\ gm.altitude = "ground"

(* A rocket that will come down, or that LAND will bring down.             *)
Descending(g) == g.landing \/ g.exploded \/ (g.altitude = "ground" /\ ~g.launched)
Landable(g)   == Descending(g) \/ (g.launched /\ g.altitude = "orbit")

InOrbit == ~apart /\ gm.altitude = "orbit" => Landable(gm)

(* An altitude in transit is the rocket's.                                 *)
Current ==
  ~apart => \A i \in DOMAIN toSat : toSat[i].altitude = "orbit" => gm.altitude = "orbit"

AtRest == phase = "READY" => received = "ground"

(* EXPLODE is in transit, and nothing after it makes a rocket again.       *)
Dooming(lines) ==
  \E i \in DOMAIN lines :
    lines[i] = "EXPLODE" /\ \A j \in DOMAIN lines : i < j => lines[j] # "LAUNCH"

(* What the satellite knows of the rocket g, with lines in transit.        *)
Tracked(g, lines) ==
  /\ received = "orbit" => Landable(g)
  /\ phase = "EMERGENCY" => Descending(g) \/ (Contains(lines, "LAND") /\ Landable(g))
  /\ phase = "EXPLODED" => Dooming(lines) \/ (g.exploded /\ ~Contains(lines, "LAUNCH"))

Knowing == ~apart /\ ~ResetPending => Tracked(gm, toInj)

(* No answer in lines is before an order to launch.                        *)
LaunchFirst(lines) ==
  \A i \in Answers(lines), j \in DOMAIN lines : i < j => lines[j] # "LAUNCH"

(* A rocket that is told to launch is not in orbit before.                 *)
Launching ==
  ~apart /\ Coming("LAUNCH") =>
    /\ gm.altitude # "orbit" /\ received # "orbit" /\ phase # "EMERGENCY"
    /\ gm.altitude = "below" => moved \/ (pc = "await" /\ task = "telemetry")
    /\ pc = "await" /\ gm.altitude # "ground" /\ ~err => LaunchFirst(toInj)

IInv ==
  /\ TypeOK /\ Connected /\ Authenticating /\ Working /\ Between /\ Resetting
  /\ InOrbit /\ Current /\ AtRest /\ Knowing /\ Launching

-----------------------------------------------------------------------------
(* One event.                                                              *)

LEMMA RocketParts ==
  ASSUME NEW g \in Rockets
  PROVE  /\ g.launched \in BOOLEAN /\ g.landing \in BOOLEAN /\ g.exploded \in BOOLEAN
         /\ g.controlled \in BOOLEAN /\ g.stressed \in BOOLEAN
         /\ g.altitude \in {"ground", "below", "orbit"} /\ g.fuel \in {"none", "low", "high"}
BY DEF Rockets, Altitudes, Fuels

LEMMA GroundedFacts ==
  /\ Grounded \in Rockets /\ Grounded.altitude = "ground" /\ ~Grounded.exploded
  /\ Descending(Grounded)
BY DEF Grounded, Rockets, Altitudes, Fuels, Descending

LEMMA DestroyedFacts ==
  ASSUME NEW g \in Rockets
  PROVE  /\ Destroyed(g) \in Rockets /\ Destroyed(g).exploded
         /\ Destroyed(g).altitude = g.altitude /\ Descending(Destroyed(g))
BY DEF Destroyed, Grounded, Rockets, Altitudes, Fuels, Descending

LEMMA LandingFacts ==
  ASSUME NEW g \in Rockets
  PROVE  /\ Landing(g) \in Rockets /\ Landing(g).altitude = g.altitude
         /\ Landing(g).exploded = g.exploded
         /\ Landable(g) => Descending(Landing(g))
<1>1. CASE g.launched /\ g.altitude = "orbit"
  <2>1. Landing(g) = [g EXCEPT !.landing = TRUE, !.controlled = (g.fuel = "high")]
    BY <1>1 DEF Landing
  <2>2. /\ Landing(g) \in Rockets /\ Landing(g).altitude = g.altitude
        /\ Landing(g).exploded = g.exploded /\ Landing(g).landing
    BY <2>1 DEF Rockets
  <2> QED BY <2>2 DEF Descending
<1>2. CASE ~(g.launched /\ g.altitude = "orbit")
  BY <1>2 DEF Landing, Landable
<1> QED BY <1>1, <1>2

LEMMA EventFacts ==
  ASSUME NEW g \in Rockets, NEW e \in News
  PROVE  /\ OnEvent(g, e) \in Rockets
         /\ e = "LAUNCH" => OnEvent(g, e).altitude = "ground"
         /\ e # "LAUNCH" => OnEvent(g, e).altitude = g.altitude
         /\ e # "LAUNCH" /\ g.exploded => OnEvent(g, e).exploded
         /\ e # "LAUNCH" /\ Descending(g) => Descending(OnEvent(g, e))
         /\ e # "LAUNCH" /\ Landable(g) => Landable(OnEvent(g, e))
         /\ e = "LAND" /\ Landable(g) => Descending(OnEvent(g, e))
         /\ e = "EXPLODE" => OnEvent(g, e).exploded
<1>1. CASE e = "LAUNCH"
  <2>1. OnEvent(g, e) = [Grounded EXCEPT !.launched = TRUE]
    BY <1>1 DEF OnEvent
  <2> QED BY <1>1, <2>1 DEF Grounded, Rockets, Altitudes, Fuels
<1>2. CASE e = "LAND"
  <2>1. OnEvent(g, e) = Landing(g)
    BY <1>2 DEF OnEvent
  <2>2. Descending(g) => Landable(g)
    BY DEF Landable
  <2>3. Descending(Landing(g)) => Landable(Landing(g))
    BY DEF Landable
  <2> QED BY <1>2, <2>1, <2>2, <2>3, LandingFacts
<1>3. CASE e = "EXPLODE"
  <2>1. OnEvent(g, e) = Destroyed(g)
    BY <1>3 DEF OnEvent, Exploding
  <2>2. Landable(Destroyed(g))
    BY DestroyedFacts DEF Landable
  <2> QED BY <1>3, <2>1, <2>2, DestroyedFacts
<1>4. CASE e = "FIX_STRESS"
  <2>1. OnEvent(g, e) = [g EXCEPT !.stressed = FALSE]
    BY <1>4 DEF OnEvent
  <2>2. /\ OnEvent(g, e) \in Rockets /\ OnEvent(g, e).altitude = g.altitude
        /\ OnEvent(g, e).exploded = g.exploded /\ OnEvent(g, e).landing = g.landing
        /\ OnEvent(g, e).launched = g.launched
    BY <2>1 DEF Rockets
  <2> QED BY <1>4, <2>2 DEF Descending, Landable
<1>5. CASE e \notin {"LAUNCH", "LAND", "EXPLODE", "FIX_STRESS"}
  <2>1. OnEvent(g, e) = g
    BY <1>5 DEF OnEvent
  <2> QED BY <1>5, <2>1
<1> QED BY <1>1, <1>2, <1>3, <1>4, <1>5

-----------------------------------------------------------------------------
(* All events of a read.                                                   *)

(* Obey is a fold: the rockets it goes through.                            *)
LEMMA ObeyChain ==
  ASSUME NEW g \in Rockets, NEW lines \in Seq(News)
  PROVE  \E c : /\ c[0] = g /\ c[Len(lines)] = Obey(g, lines)
                /\ \A m \in 0..Len(lines) : c[m] \in Rockets
                /\ \A m \in 1..Len(lines) : c[m] = OnEvent(c[m - 1], lines[m])
<1> DEFINE n == Len(lines)
           step == [p \in Rockets \X (1..n) |-> OnEvent(p[1], lines[p[2]])]
           Right(iter) == iter = [s \in SUBSET (1..n) |->
                            IF s = {} THEN g ELSE OnEvent(iter[s \ {Max(s)}], lines[Max(s)])]
           G == CHOOSE iter : Right(iter)
<1>1. n \in Nat /\ DOMAIN lines = 1..n /\ \A i \in 1..n : lines[i] \in News
  BY LenProperties, ElementOfSeq
<1>2. Obey(g, lines) = G[1..n]
  BY <1>1, Zenon DEF Obey, FoldLeft, MapThenFoldSet
<1> HIDE DEF n
<1>3. step \in [Rockets \X (1..n) -> Rockets]
  BY <1>1, EventFacts
<1>4. \A h \in Rockets, i \in 1..n : step[<<h, i>>] = OnEvent(h, lines[i])
  OBVIOUS
<1> HIDE DEF step
<1>5. \E iter : Right(iter)
  <2>1. PICK iter : Folds(iter, g, step, n) /\ \A s \in SUBSET (1..n) : iter[s] \in Rockets
    BY <1>1, <1>3, FoldExists
  <2>2. ASSUME NEW s \in SUBSET (1..n), s # {}
        PROVE  step[<<iter[s \ {Max(s)}], Max(s)>>] = OnEvent(iter[s \ {Max(s)}], lines[Max(s)])
    <3>1. s \ {Max(s)} \in SUBSET (1..n) /\ Max(s) \in 1..n
      BY <1>1, <2>2, MaxOf
    <3>2. iter[s \ {Max(s)}] \in Rockets
      BY <2>1, <3>1
    <3> HIDE DEF Max
    <3> QED BY <1>4, <3>1, <3>2
  <2>3. Right(iter)
    BY <2>1, <2>2, Zenon DEF Folds
  <2> QED BY <2>3
<1>6. Right(G)
  BY <1>5, Zenon
<1> HIDE DEF G
<1> DEFINE c == [m \in 0..n |-> G[1..m]]
<1>7. c[0] = g
  <2>1. 1..0 = {} /\ 0 \in 0..n /\ 1..0 \in SUBSET (1..n)
    BY <1>1
  <2>2. G[1..0] = g
    BY <1>6, <2>1, Zenon
  <2> QED BY <2>1, <2>2
<1>8. ASSUME NEW m \in 1..n PROVE c[m] = OnEvent(c[m - 1], lines[m])
  <2>1. m \in Nat /\ m > 0 /\ m \in 0..n /\ m - 1 \in 0..n /\ 1..m \in SUBSET (1..n)
    BY <1>1
  <2>2. G[1..m] = IF 1..m = {} THEN g ELSE OnEvent(G[(1..m) \ {Max(1..m)}], lines[Max(1..m)])
    BY <1>6, <2>1, Zenon
  <2>3. G[1..m] = OnEvent(G[1..(m - 1)], lines[m])
    BY <2>1, <2>2, MaxOfInterval
  <2> QED BY <2>1, <2>3
<1>9. c[n] = Obey(g, lines)
  BY <1>1, <1>2
<1> HIDE DEF c
<1>10. \A m \in 0..n : c[m] \in Rockets
  <2> DEFINE S == [m \in 0..n |-> Rockets]
  <2>1. c[0] \in S[0]
    BY <1>1, <1>7
  <2>2. ASSUME NEW m \in 1..n, c[m - 1] \in S[m - 1] PROVE c[m] \in S[m]
    <3>1. m \in 0..n /\ m - 1 \in 0..n
      BY <1>1
    <3>2. c[m - 1] \in Rockets
      BY <2>2, <3>1
    <3>3. c[m] \in Rockets
      BY <1>1, <1>8, <3>2, EventFacts
    <3> QED BY <3>1, <3>3
  <2> HIDE DEF S
  <2>3. \A m \in 0..n : c[m] \in S[m]
    BY <1>1, <2>1, <2>2, Climbing
  <2> QED BY <2>3 DEF S
<1> QED BY <1>7, <1>8, <1>9, <1>10 DEF n

(* What holds of the rocket from the event j on and is kept by the others. *)
LEMMA ObeyKeeps ==
  ASSUME NEW g \in Rockets, NEW lines \in Seq(News), NEW S \in SUBSET Rockets,
         NEW j \in 0..Len(lines), NEW Q \in SUBSET Rockets,
         j = 0 => g \in S,
         g \in Q,
         \A i \in 1..Len(lines), h \in Q : i <= j => OnEvent(h, lines[i]) \in Q,
         j # 0 => \A h \in Q : OnEvent(h, lines[j]) \in S,
         \A i \in 1..Len(lines), h \in S : j < i => OnEvent(h, lines[i]) \in S
  PROVE  Obey(g, lines) \in S
<1> DEFINE n == Len(lines)
           R == [m \in 0..n |-> IF m < j THEN Q ELSE S]
<1>1. n \in Nat
  BY LenProperties
<1>2. PICK c : /\ c[0] = g /\ c[n] = Obey(g, lines)
               /\ \A m \in 0..n : c[m] \in Rockets
               /\ \A m \in 1..n : c[m] = OnEvent(c[m - 1], lines[m])
  BY ObeyChain
<1> HIDE DEF n
<1>3. c[0] \in R[0]
  <2>1. 0 \in 0..n /\ j \in 0..n
    BY <1>1 DEF n
  <2>2. CASE j = 0
    BY <1>2, <2>1, <2>2
  <2>3. CASE j # 0
    <3>1. R[0] = Q
      BY <1>1, <2>1, <2>3
    <3> QED BY <1>2, <3>1
  <2> QED BY <2>2, <2>3
<1>4. ASSUME NEW m \in 1..n, c[m - 1] \in R[m - 1] PROVE c[m] \in R[m]
  <2>1. /\ m \in 0..n /\ m - 1 \in 0..n /\ c[m] = OnEvent(c[m - 1], lines[m])
        /\ j \in 0..n
    BY <1>1, <1>2 DEF n
  <2>2. CASE m < j
    <3>1. c[m - 1] \in Q /\ m <= j
      BY <1>1, <1>4, <2>1, <2>2
    <3>2. c[m] \in Q
      BY <2>1, <3>1 DEF n
    <3> QED BY <2>1, <2>2, <3>2
  <2>3. CASE m = j
    <3>1. c[m - 1] \in Q /\ j # 0
      BY <1>1, <1>4, <2>1, <2>3
    <3>2. c[m] \in S
      BY <2>1, <2>3, <3>1
    <3> QED BY <2>1, <2>3, <3>2
  <2>4. CASE m > j
    <3>1. c[m - 1] \in S
      BY <1>1, <1>4, <2>1, <2>4
    <3>2. c[m] \in S
      BY <2>1, <2>4, <3>1 DEF n
    <3> QED BY <2>1, <2>4, <3>2
  <2> QED BY <1>1, <2>1, <2>2, <2>3, <2>4
<1> HIDE DEF R
<1>5. c[n] \in R[n]
  <2>1. \A m \in 1..n : c[m - 1] \in R[m - 1] => c[m] \in R[m]
    BY <1>4
  <2>2. \A m \in 0..n : c[m] \in R[m]
    BY <1>1, <1>3, <2>1, Climbing
  <2>3. n \in 0..n
    BY <1>1
  <2> QED BY <2>2, <2>3
<1>6. R[n] = S
  BY <1>1 DEF R, n
<1> QED BY <1>2, <1>5, <1>6

(* The rocket after a read of lines.                                       *)
LEMMA ObeyFacts ==
  ASSUME NEW g \in Rockets, NEW lines \in Seq(News)
  PROVE  /\ Obey(g, lines) \in Rockets
         /\ Contains(lines, "LAUNCH") => Obey(g, lines).altitude = "ground"
         /\ ~Contains(lines, "LAUNCH") =>
              /\ Obey(g, lines).altitude = g.altitude
              /\ g.exploded => Obey(g, lines).exploded
              /\ Descending(g) => Descending(Obey(g, lines))
              /\ Landable(g) => Landable(Obey(g, lines))
              /\ Contains(lines, "LAND") /\ Landable(g) => Descending(Obey(g, lines))
         /\ Dooming(lines) => Obey(g, lines).exploded
<1> DEFINE h == Obey(g, lines)
<1>1. /\ Len(lines) \in Nat /\ DOMAIN lines = 1..Len(lines)
      /\ \A i \in 1..Len(lines) : lines[i] \in News
      /\ 0 \in 0..Len(lines)
  BY LenProperties, ElementOfSeq
<1>2. h \in Rockets
  <2>1. PICK c : c[Len(lines)] = Obey(g, lines) /\ \A m \in 0..Len(lines) : c[m] \in Rockets
    BY ObeyChain, Zenon
  <2>2. Len(lines) \in 0..Len(lines)
    BY <1>1
  <2> QED BY <2>1, <2>2
<1>3. ASSUME NEW S \in SUBSET Rockets, g \in S, ~Contains(lines, "LAUNCH"),
             \A q \in S, e \in News : e # "LAUNCH" => OnEvent(q, e) \in S
      PROVE  h \in S
  <2>1. \A i \in 1..Len(lines), q \in S : OnEvent(q, lines[i]) \in S
    BY <1>1, <1>3 DEF Contains
  <2>2. \A i \in 1..Len(lines), q \in S : 0 < i => OnEvent(q, lines[i]) \in S
    BY <2>1
  <2>3. \A i \in 1..Len(lines), q \in Rockets : i <= 0 => OnEvent(q, lines[i]) \in Rockets
    BY <1>1
  <2> HIDE DEF h
  <2>4. Obey(g, lines) \in S
    BY <1>1, <1>3, <2>2, <2>3, ObeyKeeps
  <2> QED BY <2>4 DEF h
<1>4. ASSUME NEW j \in 1..Len(lines), NEW Q \in SUBSET Rockets, NEW S \in SUBSET Rockets,
             g \in Q,
             \A i \in 1..Len(lines), q \in Q : i <= j => OnEvent(q, lines[i]) \in Q,
             \A q \in Q : OnEvent(q, lines[j]) \in S,
             \A i \in 1..Len(lines), q \in S : j < i => OnEvent(q, lines[i]) \in S
      PROVE  h \in S
  <2>1. j \in 0..Len(lines) /\ j # 0
    BY <1>1, <1>4
  <2> HIDE DEF h
  <2>2. Obey(g, lines) \in S
    BY <1>4, <2>1, ObeyKeeps
  <2> QED BY <2>2 DEF h
<1> HIDE DEF h
<1>5. ASSUME Contains(lines, "LAUNCH") PROVE h.altitude = "ground"
  <2>1. PICK j \in 1..Len(lines) : lines[j] = "LAUNCH"
    BY <1>5 DEF Contains
  <2> DEFINE S == {q \in Rockets : q.altitude = "ground"}
  <2>2. \A i \in 1..Len(lines), q \in Rockets : i <= j => OnEvent(q, lines[i]) \in Rockets
    BY <1>1, EventFacts
  <2>3. \A q \in Rockets : OnEvent(q, lines[j]) \in S
    BY <1>1, <2>1, EventFacts
  <2>4. \A i \in 1..Len(lines), q \in S : j < i => OnEvent(q, lines[i]) \in S
    BY <1>1, EventFacts
  <2>5. S \in SUBSET Rockets
    OBVIOUS
  <2> HIDE DEF S
  <2>6. h \in S
    BY <1>4, <2>2, <2>3, <2>4, <2>5
  <2> QED BY <2>6 DEF S
<1>6. ASSUME ~Contains(lines, "LAUNCH") PROVE h.altitude = g.altitude
  <2> DEFINE S == {q \in Rockets : q.altitude = g.altitude}
  <2>1. \A q \in S, e \in News : e # "LAUNCH" => OnEvent(q, e) \in S
    BY EventFacts
  <2>2. S \in SUBSET Rockets /\ g \in S
    OBVIOUS
  <2> HIDE DEF S
  <2>3. h \in S
    BY <1>3, <1>6, <2>1, <2>2
  <2> QED BY <2>3 DEF S
<1>7. ASSUME ~Contains(lines, "LAUNCH"), g.exploded PROVE h.exploded
  <2> DEFINE S == {q \in Rockets : q.exploded}
  <2>1. \A q \in S, e \in News : e # "LAUNCH" => OnEvent(q, e) \in S
    BY EventFacts
  <2>2. S \in SUBSET Rockets /\ g \in S
    BY <1>7
  <2> HIDE DEF S
  <2>3. h \in S
    BY <1>3, <1>7, <2>1, <2>2
  <2> QED BY <2>3 DEF S
<1>8. ASSUME ~Contains(lines, "LAUNCH"), Descending(g) PROVE Descending(h)
  <2> DEFINE S == {q \in Rockets : Descending(q)}
  <2>1. \A q \in S, e \in News : e # "LAUNCH" => OnEvent(q, e) \in S
    BY EventFacts
  <2>2. S \in SUBSET Rockets /\ g \in S
    BY <1>8
  <2> HIDE DEF S
  <2>3. h \in S
    BY <1>3, <1>8, <2>1, <2>2
  <2> QED BY <2>3 DEF S
<1>9. ASSUME ~Contains(lines, "LAUNCH"), Landable(g) PROVE Landable(h)
  <2> DEFINE S == {q \in Rockets : Landable(q)}
  <2>1. \A q \in S, e \in News : e # "LAUNCH" => OnEvent(q, e) \in S
    BY EventFacts
  <2>2. S \in SUBSET Rockets /\ g \in S
    BY <1>9
  <2> HIDE DEF S
  <2>3. h \in S
    BY <1>3, <1>9, <2>1, <2>2
  <2> QED BY <2>3 DEF S
<1>10. ASSUME ~Contains(lines, "LAUNCH"), Contains(lines, "LAND"), Landable(g)
       PROVE  Descending(h)
  <2>1. PICK j \in 1..Len(lines) : lines[j] = "LAND"
    BY <1>10 DEF Contains
  <2>2. \A i \in 1..Len(lines) : lines[i] \in News /\ lines[i] # "LAUNCH"
    BY <1>1, <1>10 DEF Contains
  <2> DEFINE Q == {q \in Rockets : Landable(q)}
             S == {q \in Rockets : Descending(q)}
  <2>3. \A i \in 1..Len(lines), q \in Q : i <= j => OnEvent(q, lines[i]) \in Q
    BY <2>2, EventFacts
  <2>4. \A q \in Q : OnEvent(q, lines[j]) \in S
    BY <2>1, <2>2, EventFacts
  <2>5. \A i \in 1..Len(lines), q \in S : j < i => OnEvent(q, lines[i]) \in S
    BY <2>2, EventFacts
  <2>6. S \in SUBSET Rockets /\ Q \in SUBSET Rockets /\ g \in Q
    BY <1>10
  <2> HIDE DEF S, Q
  <2>7. h \in S
    BY <1>4, <2>3, <2>4, <2>5, <2>6
  <2> QED BY <2>7 DEF S
<1>11. ASSUME Dooming(lines) PROVE h.exploded
  <2>1. PICK j \in 1..Len(lines) : /\ lines[j] = "EXPLODE"
                                   /\ \A i \in 1..Len(lines) : j < i => lines[i] # "LAUNCH"
    BY <1>1, <1>11 DEF Dooming
  <2> DEFINE S == {q \in Rockets : q.exploded}
  <2>2. \A i \in 1..Len(lines), q \in Rockets : i <= j => OnEvent(q, lines[i]) \in Rockets
    BY <1>1, EventFacts
  <2>3. \A q \in Rockets : OnEvent(q, lines[j]) \in S
    BY <1>1, <2>1, EventFacts
  <2>4. \A i \in 1..Len(lines), q \in S : j < i => OnEvent(q, lines[i]) \in S
    BY <1>1, <2>1, EventFacts
  <2>5. S \in SUBSET Rockets
    OBVIOUS
  <2> HIDE DEF S
  <2>6. h \in S
    BY <1>4, <2>2, <2>3, <2>4, <2>5
  <2> QED BY <2>6 DEF S
<1> QED BY <1>2, <1>5, <1>6, <1>7, <1>8, <1>9, <1>10, <1>11 DEF h

-----------------------------------------------------------------------------
(* The physics.                                                            *)

LEMMA FallsFacts ==
  ASSUME NEW g \in Rockets, NEW h \in Falls(g)
  PROVE  /\ h \in Rockets /\ h.exploded = g.exploded /\ h.landing = g.landing
         /\ h.launched = g.launched
         /\ h.controlled = g.controlled /\ h.fuel = g.fuel /\ h.stressed = g.stressed
         /\ g.altitude = "ground" => h.altitude = "ground"
         /\ h.altitude = "orbit" => g.altitude = "orbit"
<1>1. PICK a \in {g.altitude, Below(g.altitude)} : h = [g EXCEPT !.altitude = a]
  BY DEF Falls
<1>2. /\ g.altitude = "ground" => a = "ground"
      /\ a = "orbit" => g.altitude = "orbit"
      /\ a \in Altitudes
  BY <1>1, RocketParts DEF Below, Altitudes
<1> QED BY <1>1, <1>2 DEF Rockets

(* What a step of the physics gives, and what it keeps.                    *)
Flown(g, h) ==
  /\ h \in Rockets
  /\ g.exploded => h.exploded
  /\ Descending(g) => Descending(h)
  /\ Landable(g) => Landable(h)
  /\ (g.altitude = "orbit" => Landable(g)) /\ h.altitude = "orbit" => Landable(h)
  /\ g.altitude = "ground" => h.altitude # "orbit"

LEMMA FallsFlown ==
  ASSUME NEW g \in Rockets, NEW h \in Falls(g), g.exploded \/ g.landing \/ ~g.launched
  PROVE  Flown(g, h)
BY FallsFacts DEF Flown, Descending, Landable

(* The sets Climbs and Descends are made of.                               *)
Starved(h) == IF h.fuel = "none" THEN Destroyed(h) ELSE h
With(g, a, f) == [g EXCEPT !.altitude = a, !.fuel = f]
Upward(g) ==
  IF g.altitude = "orbit" THEN {g}
  ELSE {With(g, a, f) : a \in {g.altitude, Above(g.altitude)}, f \in Burnt(g.fuel)}

Burning(h, f) == [h EXCEPT !.fuel = f]
Burns(g) == IF g.controlled THEN {g.fuel, "low"} ELSE {g.fuel}
Fallen(g) == {Burning(h, f) : h \in Falls(g), f \in Burns(g)}
Landed(h) ==
  IF h.altitude # "ground" THEN h
  ELSE IF h.controlled
  THEN [h EXCEPT !.launched = FALSE, !.landing = FALSE, !.controlled = FALSE]
  ELSE Destroyed(h)

LEMMA ClimbsParts ==
  ASSUME NEW g
  PROVE  Climbs(g) = {Starved(h) : h \in Upward(g)}
BY SMT DEF Climbs, Starved, Upward, With

LEMMA DescendsParts ==
  ASSUME NEW g
  PROVE  Descends(g) = IF g.fuel = "none" THEN {Destroyed(h) : h \in Falls(g)}
                       ELSE {Landed(h) : h \in Fallen(g)}
BY SMT DEF Descends, Landed, Fallen, Burns, Burning

LEMMA ClimbsFlown ==
  ASSUME NEW g \in Rockets, NEW h \in Climbs(g), ~g.exploded, g.launched, ~g.landing
  PROVE  Flown(g, h)
<1>1. PICK q : /\ q \in Rockets /\ q.launched /\ ~q.exploded /\ ~q.landing
               /\ h = IF q.fuel = "none" THEN Destroyed(q) ELSE q
               /\ g.altitude = "orbit" => q.altitude = "orbit"
               /\ g.altitude = "ground" => q.altitude # "orbit"
  <2>1. CASE g.altitude = "orbit"
    <3>1. h = IF g.fuel = "none" THEN Destroyed(g) ELSE g
      BY <2>1 DEF Climbs
    <3> QED BY <2>1, <3>1
  <2>2. CASE g.altitude # "orbit"
    <3>0. PICK q \in Upward(g) : h = Starved(q)
      BY ClimbsParts, SMT
    <3>1. PICK a \in {g.altitude, Above(g.altitude)}, f \in Burnt(g.fuel) : q = With(g, a, f)
      BY <2>2, <3>0, SMT DEF Upward
    <3>2. a \in Altitudes /\ f \in Fuels /\ (g.altitude = "ground" => a # "orbit")
      BY <3>1, RocketParts DEF Altitudes, Fuels, Above, Burnt
    <3>3. /\ q \in Rockets /\ q.launched = g.launched /\ q.exploded = g.exploded
          /\ q.landing = g.landing /\ q.altitude = a
      BY <3>1, <3>2 DEF Rockets, With
    <3> QED BY <2>2, <3>0, <3>2, <3>3 DEF Starved
  <2> QED BY <2>1, <2>2
<1>2. ~Descending(g) \/ FALSE
  BY DEF Descending
<1>3. Landable(g) => g.altitude = "orbit"
  BY <1>2 DEF Landable
<1>4. CASE q.fuel = "none"
  <2>1. h = Destroyed(q)
    BY <1>1, <1>4
  <2> QED BY <1>1, <1>2, <2>1, DestroyedFacts DEF Flown, Landable
<1>5. CASE q.fuel # "none"
  <2>1. h = q
    BY <1>1, <1>5
  <2> QED BY <1>1, <1>2, <1>3, <2>1 DEF Flown, Landable
<1> QED BY <1>4, <1>5

LEMMA DescendsFlown ==
  ASSUME NEW g \in Rockets, NEW h \in Descends(g), ~g.exploded, g.launched, g.landing
  PROVE  Flown(g, h)
<1>1. PICK q : /\ q \in Rockets /\ q.landing
               /\ g.altitude = "ground" => q.altitude = "ground"
               /\ \/ h = q
                  \/ h = Destroyed(q)
                  \/ /\ q.altitude = "ground"
                     /\ h = [q EXCEPT !.launched = FALSE, !.landing = FALSE, !.controlled = FALSE]
  <2>1. CASE g.fuel = "none"
    <3>1. PICK q \in Falls(g) : h = Destroyed(q)
      BY <2>1, DescendsParts, SMT
    <3> QED BY <3>1, FallsFacts
  <2>2. CASE g.fuel # "none"
    <3>0. PICK q \in Fallen(g) : h = Landed(q)
      BY <2>2, DescendsParts, SMT
    <3>1. PICK r \in Falls(g), f \in Burns(g) : q = Burning(r, f)
      BY <3>0, SMT DEF Fallen
    <3>2. /\ r \in Rockets /\ r.landing = g.landing
          /\ g.altitude = "ground" => r.altitude = "ground"
      BY FallsFacts
    <3>3. f \in Fuels
      BY <3>1, RocketParts DEF Burns, Fuels
    <3>4. q \in Rockets /\ q.landing = r.landing /\ q.altitude = r.altitude
      BY <3>1, <3>2, <3>3 DEF Rockets, Burning
    <3> QED BY <2>2, <3>0, <3>2, <3>4 DEF Landed
  <2> QED BY <2>1, <2>2
<1>2. CASE h = q
  BY <1>1, <1>2 DEF Flown, Descending, Landable
<1>3. CASE h = Destroyed(q)
  BY <1>1, <1>3, DestroyedFacts DEF Flown, Landable
<1>4. CASE /\ q.altitude = "ground"
           /\ h = [q EXCEPT !.launched = FALSE, !.landing = FALSE, !.controlled = FALSE]
  <2>1. h \in Rockets /\ h.altitude = "ground" /\ ~h.launched
    BY <1>1, <1>4 DEF Rockets
  <2> QED BY <2>1 DEF Flown, Descending, Landable
<1> QED BY <1>1, <1>2, <1>3, <1>4

LEMMA StrainsFacts ==
  ASSUME NEW g \in Rockets, NEW q \in Rockets, Flown(g, q), NEW h \in Strains(q)
  PROVE  Flown(g, h)
<1>1. \/ h = q
      \/ h = Destroyed(q)
      \/ h = [q EXCEPT !.stressed = FALSE]
  BY DEF Strains
<1>2. CASE h = q
  BY <1>2
<1>3. CASE h = Destroyed(q)
  BY <1>3, DestroyedFacts DEF Flown, Landable
<1>4. CASE h = [q EXCEPT !.stressed = FALSE]
  <2>1. /\ h \in Rockets /\ h.altitude = q.altitude /\ h.exploded = q.exploded
        /\ h.landing = q.landing /\ h.launched = q.launched
    BY <1>4 DEF Rockets
  <2> QED BY <2>1 DEF Flown, Descending, Landable
<1> QED BY <1>1, <1>2, <1>3, <1>4

LEMMA StepFacts ==
  ASSUME NEW g \in Rockets, NEW h \in gen_step(g)
  PROVE  Flown(g, h)
<1>1. PICK q \in Flies(g) : h \in Strains(q)
  BY DEF gen_step
<1>2. Flown(g, q)
  <2>1. CASE g.exploded
    BY <2>1, FallsFlown DEF Flies
  <2>2. CASE ~g.exploded /\ g.launched /\ ~g.landing
    BY <2>2, ClimbsFlown DEF Flies
  <2>3. CASE ~g.exploded /\ g.launched /\ g.landing
    BY <2>3, DescendsFlown DEF Flies
  <2>4. CASE ~g.exploded /\ ~g.launched
    BY <2>4, FallsFlown DEF Flies
  <2> QED BY <2>1, <2>2, <2>3, <2>4, RocketParts
<1>3. q \in Rockets
  BY <1>2 DEF Flown
<1> QED BY <1>1, <1>2, <1>3, StrainsFacts
-----------------------------------------------------------------------------
(* The lines in transit: some are read, or some are lost.                  *)

(* s is a, its first k lines, and b.                                       *)
Halves(s, k, a, b) ==
  /\ s \in Seq(News) /\ a \in Seq(News) /\ b \in Seq(News)
  /\ Len(s) \in Nat /\ DOMAIN s = 1..Len(s) /\ k \in 0..Len(s)
  /\ Len(a) = k /\ DOMAIN a = 1..k
  /\ Len(b) = Len(s) - k /\ DOMAIN b = 1..(Len(s) - k)
  /\ \A i \in 1..k : a[i] = s[i]
  /\ \A i \in 1..(Len(s) - k) : b[i] = s[k + i]

LEMMA HalvesOf ==
  ASSUME NEW s \in Seq(News), NEW k \in 0..Len(s)
  PROVE  Halves(s, k, SubSeq(s, 1, k), SubSeq(s, k + 1, Len(s)))
<1>1. /\ Len(s) \in Nat /\ DOMAIN s = 1..Len(s) /\ k \in Int /\ k + 1 \in Int
      /\ k <= Len(s) /\ 0 <= k
      /\ \A i \in 1..Len(s) : s[i] \in News
  BY LenProperties, ElementOfSeq
<1>2. /\ SubSeq(s, 1, k) \in Seq(News) /\ Len(SubSeq(s, 1, k)) = k
      /\ \A i \in 1..k : SubSeq(s, 1, k)[i] = s[i]
  <2>1. \A i \in 1..k : s[i] \in News
    BY <1>1
  <2> QED BY <1>1, <2>1, SubSeqProperties
<1>3. /\ SubSeq(s, k + 1, Len(s)) \in Seq(News)
      /\ Len(SubSeq(s, k + 1, Len(s))) = Len(s) - k
      /\ \A i \in 1..(Len(s) - k) : SubSeq(s, k + 1, Len(s))[i] = s[k + i]
  <2>1. \A i \in (k + 1)..Len(s) : s[i] \in News
    BY <1>1
  <2> DEFINE b == SubSeq(s, k + 1, Len(s))
  <2>2. /\ b \in Seq(News)
        /\ Len(b) = IF k + 1 <= Len(s) THEN Len(s) - (k + 1) + 1 ELSE 0
        /\ \A i \in 1..(Len(s) - (k + 1) + 1) : b[i] = s[(k + 1) + i - 1]
    BY <1>1, <2>1, SubSeqProperties
  <2> HIDE DEF b
  <2>3. b \in Seq(News) /\ Len(b) = Len(s) - k
    <3> DEFINE n == Len(s)
    <3>1. n \in Nat /\ k \in Nat /\ k <= n
      BY <1>1
    <3>2. Len(b) = IF k + 1 <= n THEN n - (k + 1) + 1 ELSE 0
      BY <2>2
    <3> HIDE DEF n
    <3>3. Len(b) = n - k
      BY <3>1, <3>2
    <3> QED BY <2>2, <3>3 DEF n
  <2>4. \A i \in 1..(Len(s) - k) : b[i] = s[k + i]
    <3>1. \A i \in 1..(Len(s) - k) : i \in 1..(Len(s) - (k + 1) + 1) /\ (k + 1) + i - 1 = k + i
      BY <1>1
    <3> QED BY <2>2, <3>1
  <2> QED BY <2>3, <2>4 DEF b
<1> DEFINE a == SubSeq(s, 1, k)
           b == SubSeq(s, k + 1, Len(s))
<1>4. a \in Seq(News) /\ Len(a) = k /\ b \in Seq(News) /\ Len(b) = Len(s) - k
  BY <1>2, <1>3
<1> HIDE DEF a, b
<1>5. DOMAIN a = 1..k /\ DOMAIN b = 1..(Len(s) - k)
  BY <1>4, LenProperties
<1>6. /\ \A i \in 1..k : a[i] = s[i]
      /\ \A i \in 1..(Len(s) - k) : b[i] = s[k + i]
  BY <1>2, <1>3, Zenon DEF a, b
<1>7. Halves(s, k, a, b)
  BY <1>1, <1>4, <1>5, <1>6 DEF Halves
<1> QED BY <1>7 DEF a, b

LEMMA HalvesFacts ==
  ASSUME NEW s, NEW k, NEW a, NEW b, Halves(s, k, a, b)
  PROVE  /\ a \in Seq(News) /\ b \in Seq(News)
         /\ \A e : Contains(s, e) <=> Contains(a, e) \/ Contains(b, e)
         /\ Answers(s) = {} => Answers(a) = {} /\ Answers(b) = {}
         /\ Alone(s) => Alone(a) /\ Alone(b) /\ (Contains(a, "OK") => Answers(b) = {})
         /\ Contains(a, "OK") => Answers(s) # {}
         /\ Dooming(s) => Dooming(b) \/ (Dooming(a) /\ ~Contains(b, "LAUNCH"))
         /\ Dooming(s) /\ ~Contains(b, "EXPLODE") => Dooming(a)
         /\ LaunchFirst(s) => /\ LaunchFirst(a) /\ LaunchFirst(b)
                              /\ Contains(a, "OK") => ~Contains(b, "LAUNCH")
         /\ Leading(s) => Leading(a)
         /\ Leading(s) /\ k # 0 => Answers(b) = {}
         /\ a # << >> => s # << >> /\ a[1] = s[1]
<1>1. /\ s \in Seq(News) /\ a \in Seq(News) /\ b \in Seq(News)
      /\ DOMAIN a = 1..k /\ Len(a) = k /\ k \in 0..Len(s)
      /\ DOMAIN b = 1..(Len(s) - k) /\ Len(b) = Len(s) - k
      /\ \A i \in 1..k : a[i] = s[i]
      /\ \A i \in 1..(Len(s) - k) : b[i] = s[k + i]
      /\ DOMAIN s = 1..Len(s) /\ Len(s) \in Nat
  BY DEF Halves
<1>2. ASSUME NEW i \in 1..Len(s), i > k
      PROVE  i - k \in 1..(Len(s) - k) /\ b[i - k] = s[i]
  <2>1. i - k \in 1..(Len(s) - k) /\ k + (i - k) = i
    BY <1>1, <1>2
  <2> QED BY <1>1, <2>1
<1>3. \A i \in 1..k : i \in 1..Len(s)
  BY <1>1
<1>4. \A i \in 1..(Len(s) - k) : k + i \in 1..Len(s) /\ k + i > k
  BY <1>1
<1>5. \A i \in 1..Len(s) : i \in 1..k \/ i > k
  BY <1>1
<1>6. ASSUME NEW e PROVE Contains(s, e) <=> Contains(a, e) \/ Contains(b, e)
  BY <1>1, <1>2, <1>3, <1>4, <1>5 DEF Contains
<1>7. /\ \A i : i \in Answers(a) => i \in 1..k /\ i \in Answers(s)
      /\ \A i : i \in Answers(b) => i \in 1..(Len(s) - k) /\ k + i \in Answers(s) /\ k + i > k
  BY <1>1, <1>3, <1>4 DEF Answers
<1>8. Contains(a, "OK") => \E i \in Answers(a) : i \in 1..k
  BY <1>1 DEF Contains, Answers, Replies
<1>9. Dooming(s) => Dooming(b) \/ (Dooming(a) /\ ~Contains(b, "LAUNCH"))
  <2>1. SUFFICES ASSUME NEW i \in 1..Len(s), s[i] = "EXPLODE",
                        \A j \in 1..Len(s) : i < j => s[j] # "LAUNCH"
                 PROVE  Dooming(b) \/ (Dooming(a) /\ ~Contains(b, "LAUNCH"))
    BY <1>1 DEF Dooming
  <2>2. CASE i > k
    <3>1. i - k \in 1..(Len(s) - k) /\ b[i - k] = "EXPLODE"
      BY <1>2, <2>1, <2>2
    <3>2. \A j \in 1..(Len(s) - k) : i - k < j => b[j] # "LAUNCH"
      BY <1>1, <1>4, <2>1
    <3> QED BY <1>1, <3>1, <3>2 DEF Dooming
  <2>3. CASE i \in 1..k
    <3>1. \A j \in 1..k : i < j => a[j] # "LAUNCH"
      BY <1>1, <1>3, <2>1
    <3>2. \A j \in 1..(Len(s) - k) : b[j] # "LAUNCH"
      BY <1>1, <1>4, <2>1, <2>3
    <3> QED BY <1>1, <2>1, <2>3, <3>1, <3>2 DEF Dooming, Contains
  <2> QED BY <1>5, <2>2, <2>3
<1>10. Dooming(b) => Contains(b, "EXPLODE")
  BY <1>1 DEF Dooming, Contains
<1>11. ASSUME LaunchFirst(s)
       PROVE  /\ LaunchFirst(a) /\ LaunchFirst(b)
              /\ Contains(a, "OK") => ~Contains(b, "LAUNCH")
  <2>1. \A i \in Answers(s), j \in 1..Len(s) : i < j => s[j] # "LAUNCH"
    BY <1>1, <1>11 DEF LaunchFirst
  <2>2. LaunchFirst(a)
    BY <1>1, <1>3, <1>7, <2>1 DEF LaunchFirst
  <2>3. \A i \in Answers(b), j \in 1..(Len(s) - k) : i < j => b[j] # "LAUNCH"
    <3>1. SUFFICES ASSUME NEW i \in Answers(b), NEW j \in 1..(Len(s) - k), i < j
                   PROVE  b[j] # "LAUNCH"
      OBVIOUS
    <3>2. k + i \in Answers(s) /\ k + j \in 1..Len(s) /\ k + i < k + j
      BY <1>1, <1>4, <1>7, <3>1
    <3> QED BY <1>1, <2>1, <3>2
  <2>4. \A i \in Answers(a), j \in 1..(Len(s) - k) : b[j] # "LAUNCH"
    <3>1. SUFFICES ASSUME NEW i \in Answers(a), NEW j \in 1..(Len(s) - k)
                   PROVE  b[j] # "LAUNCH"
      OBVIOUS
    <3>2. i \in Answers(s) /\ k + j \in 1..Len(s) /\ i < k + j
      BY <1>1, <1>4, <1>7, <3>1
    <3> QED BY <1>1, <2>1, <3>2
  <2> QED BY <1>1, <1>8, <2>2, <2>3, <2>4 DEF LaunchFirst, Contains
<1>12. ASSUME Alone(s)
       PROVE  Alone(a) /\ Alone(b) /\ (Contains(a, "OK") => Answers(b) = {})
  <2>1. \A i, j \in Answers(s) : i = j
    BY <1>12 DEF Alone
  <2>2. Alone(a)
    BY <1>7, <2>1 DEF Alone
  <2>3. Alone(b)
    <3>1. SUFFICES ASSUME NEW i \in Answers(b), NEW j \in Answers(b) PROVE i = j
      BY DEF Alone
    <3>2. k + i = k + j /\ i \in Int /\ j \in Int /\ k \in Int
      BY <1>1, <1>7, <2>1, <3>1
    <3> QED BY <3>2
  <2>4. ASSUME NEW i \in Answers(a), NEW j \in Answers(b) PROVE FALSE
    <3>1. i \in 1..k /\ k + j > k /\ i = k + j /\ k \in Int
      BY <1>1, <1>7, <2>1, <2>4
    <3> QED BY <3>1
  <2> QED BY <1>8, <2>2, <2>3, <2>4
<1>13. ASSUME Leading(s)
       PROVE  Leading(a) /\ (k # 0 => Answers(b) = {})
  <2>1. ASSUME NEW j \in Answers(b), k # 0 PROVE FALSE
    <3>1. k + j = 1 /\ j \in 1..(Len(s) - k)
      BY <1>7, <1>13 DEF Leading
    <3> QED BY <1>1, <2>1, <3>1
  <2> QED BY <1>7, <1>13, <2>1 DEF Leading
<1>14. a # << >> => s # << >> /\ a[1] = s[1]
  <2>1. a # << >> => k # 0
    BY <1>1, EmptySeq
  <2>2. a # << >> => 1 \in 1..k /\ Len(s) # 0
    BY <1>1, <2>1
  <2>3. s = << >> => Len(s) = 0
    BY EmptySeq
  <2> QED BY <1>1, <2>2, <2>3
<1> QED BY <1>1, <1>6, <1>7, <1>8, <1>9, <1>10, <1>11, <1>12, <1>13, <1>14

(* The satellite adds lines.                                               *)
(* t is s and then o.                                                      *)
Joined(s, o, t) ==
  /\ s \in Seq(News) /\ o \in Seq(News) /\ t \in Seq(News)
  /\ Len(s) \in Nat /\ Len(o) \in Nat /\ Len(t) = Len(s) + Len(o)
  /\ DOMAIN s = 1..Len(s) /\ DOMAIN o = 1..Len(o) /\ DOMAIN t = 1..(Len(s) + Len(o))
  /\ \A i \in 1..(Len(s) + Len(o)) : t[i] = IF i <= Len(s) THEN s[i] ELSE o[i - Len(s)]
  /\ s = << >> => t = o

LEMMA JoinedBy ==
  ASSUME NEW s \in Seq(News), NEW o \in Seq(News)
  PROVE  Joined(s, o, s \o o)
<1> DEFINE t == s \o o
<1>1. /\ t \in Seq(News) /\ Len(t) = Len(s) + Len(o)
      /\ \A i \in 1..(Len(s) + Len(o)) : t[i] = IF i <= Len(s) THEN s[i] ELSE o[i - Len(s)]
      /\ s = << >> => t = o
  BY ConcatProperties, ConcatEmptySeq
<1> HIDE DEF t
<1>2. /\ Len(s) \in Nat /\ Len(o) \in Nat
      /\ DOMAIN s = 1..Len(s) /\ DOMAIN o = 1..Len(o) /\ DOMAIN t = 1..Len(t)
  BY <1>1, LenProperties
<1>3. Joined(s, o, t)
  BY <1>1, <1>2 DEF Joined
<1> QED BY <1>3 DEF t

LEMMA JoinedFacts ==
  ASSUME NEW s, NEW o, NEW t, Joined(s, o, t)
  PROVE  /\ t \in Seq(News)
         /\ \A e : Contains(t, e) <=> Contains(s, e) \/ Contains(o, e)
         /\ Answers(s) = {} /\ Alone(o) => Alone(t)
         /\ Answers(o) = {} => Answers(t) = Answers(s)
         /\ Dooming(s) /\ ~Contains(o, "LAUNCH") => Dooming(t)
         /\ Dooming(o) => Dooming(t)
         /\ LaunchFirst(s) /\ ~Contains(o, "LAUNCH") => LaunchFirst(t)
         /\ s # << >> => t # << >> /\ t[1] = s[1]
         /\ s = << >> => t = o
<1> DEFINE m == Len(s)
           n == Len(o)
<1>0. /\ s \in Seq(News) /\ o \in Seq(News)
      /\ \A i \in 1..(m + n) : t[i] = IF i <= m THEN s[i] ELSE o[i - m]
      /\ s = << >> => t = o
  BY DEF Joined
<1>1. /\ t \in Seq(News) /\ m \in Nat /\ n \in Nat /\ Len(t) = m + n
      /\ DOMAIN s = 1..m /\ DOMAIN o = 1..n /\ DOMAIN t = 1..(m + n)
  BY DEF Joined
<1> HIDE DEF m, n
<1>2. /\ \A i \in 1..m : i \in 1..(m + n) /\ t[i] = s[i]
      /\ \A i \in 1..n : m + i \in 1..(m + n) /\ t[m + i] = o[i]
  <2>1. ASSUME NEW i \in 1..m PROVE i \in 1..(m + n) /\ t[i] = s[i]
    <3>1. i \in 1..(m + n) /\ i <= m
      BY <1>1
    <3> QED BY <1>0, <3>1
  <2>2. ASSUME NEW i \in 1..n PROVE m + i \in 1..(m + n) /\ t[m + i] = o[i]
    <3>1. m + i \in 1..(m + n) /\ ~(m + i <= m) /\ (m + i) - m = i
      BY <1>1
    <3> QED BY <1>0, <3>1
  <2> QED BY <2>1, <2>2
<1>3. ASSUME NEW i \in 1..(m + n)
      PROVE  i \in 1..m \/ (i > m /\ i - m \in 1..n /\ t[i] = o[i - m])
  <2>1. i \in 1..m \/ (i > m /\ i - m \in 1..n /\ ~(i <= m))
    BY <1>1
  <2> QED BY <1>0, <2>1
<1>4. ASSUME NEW e PROVE Contains(t, e) <=> Contains(s, e) \/ Contains(o, e)
  <2>1. Contains(t, e) <=> \E i \in 1..(m + n) : t[i] = e
    BY <1>1 DEF Contains
  <2>2. Contains(s, e) <=> \E i \in 1..m : s[i] = e
    BY DEF Contains, m
  <2>3. Contains(o, e) <=> \E i \in 1..n : o[i] = e
    BY DEF Contains, n
  <2> QED BY <1>2, <1>3, <2>1, <2>2, <2>3
<1>5. ASSUME NEW i \in Answers(t)
      PROVE  i \in Answers(s) \/ (i > m /\ i - m \in Answers(o) /\ i \in 1..(m + n))
  BY <1>1, <1>2, <1>3 DEF Answers
<1>6. ASSUME Answers(s) = {}, Alone(o) PROVE Alone(t)
  <2>1. SUFFICES ASSUME NEW i \in Answers(t), NEW j \in Answers(t) PROVE i = j
    BY DEF Alone
  <2>2. i - m = j - m /\ i \in 1..(m + n) /\ j \in 1..(m + n)
    BY <1>5, <1>6 DEF Alone
  <2> QED BY <1>1, <2>2
<1>7. ASSUME Answers(o) = {} PROVE Answers(t) = Answers(s)
  <2>1. \A i \in Answers(s) : i \in Answers(t)
    BY <1>1, <1>2 DEF Answers
  <2> QED BY <1>5, <1>7, <2>1
<1>8. ASSUME Dooming(s), ~Contains(o, "LAUNCH") PROVE Dooming(t)
  <2>1. PICK i \in 1..m : s[i] = "EXPLODE" /\ \A j \in 1..m : i < j => s[j] # "LAUNCH"
    BY <1>1, <1>8 DEF Dooming
  <2>2. \A j \in 1..n : o[j] # "LAUNCH"
    BY <1>8 DEF Contains, n
  <2>3. i \in 1..(m + n) /\ t[i] = "EXPLODE"
    BY <1>2, <2>1
  <2>4. \A j \in 1..(m + n) : i < j => t[j] # "LAUNCH"
    BY <1>2, <1>3, <2>1, <2>2
  <2> QED BY <1>1, <2>3, <2>4 DEF Dooming
<1>9. ASSUME Dooming(o) PROVE Dooming(t)
  <2>1. PICK i \in 1..n : o[i] = "EXPLODE" /\ \A j \in 1..n : i < j => o[j] # "LAUNCH"
    BY <1>1, <1>9 DEF Dooming
  <2>2. m + i \in 1..(m + n) /\ t[m + i] = "EXPLODE"
    BY <1>2, <2>1
  <2>3. \A j \in 1..(m + n) : m + i < j => t[j] # "LAUNCH"
    <3>1. SUFFICES ASSUME NEW j \in 1..(m + n), m + i < j PROVE t[j] # "LAUNCH"
      OBVIOUS
    <3>2. j - m \in 1..n /\ t[j] = o[j - m] /\ i < j - m
      BY <1>1, <1>3, <2>1, <3>1
    <3> QED BY <2>1, <3>2
  <2> QED BY <1>1, <2>2, <2>3 DEF Dooming
<1>10. ASSUME LaunchFirst(s), ~Contains(o, "LAUNCH") PROVE LaunchFirst(t)
  <2>1. \A j \in 1..n : o[j] # "LAUNCH"
    BY <1>10 DEF Contains, n
  <2>2. SUFFICES ASSUME NEW i \in Answers(t), NEW j \in 1..(m + n), i < j
                 PROVE  t[j] # "LAUNCH"
    BY <1>1 DEF LaunchFirst
  <2>3. CASE j \in 1..m
    <3>1. i \in Answers(s)
      BY <1>1, <1>5, <2>2, <2>3
    <3> QED BY <1>1, <1>2, <1>10, <2>2, <2>3, <3>1 DEF LaunchFirst
  <2>4. CASE j \notin 1..m
    BY <1>3, <2>1, <2>4
  <2> QED BY <2>3, <2>4
<1>11. s # << >> => t # << >> /\ t[1] = s[1]
  <2>1. s # << >> => m # 0
    BY <1>0, EmptySeq DEF m
  <2>2. s # << >> => 1 \in 1..m /\ m + n # 0
    BY <1>1, <2>1
  <2>3. t = << >> => m + n = 0
    BY <1>1, EmptySeq
  <2> QED BY <1>2, <2>2, <2>3
<1>12. s = << >> => t = o
  BY <1>0
<1> QED BY <1>1, <1>4, <1>6, <1>7, <1>8, <1>9, <1>10, <1>11, <1>12

LEMMA NoLines ==
  /\ << >> \in Seq(News) /\ Answers(<< >>) = {} /\ \A e : ~Contains(<< >>, e)
  /\ Alone(<< >>) /\ Leading(<< >>) /\ ~Dooming(<< >>) /\ LaunchFirst(<< >>) /\ ~Lost(<< >>)
BY EmptySeq DEF Answers, Contains, Alone, Leading, Dooming, LaunchFirst, Lost

LEMMA OneLine ==
  ASSUME NEW e \in News
  PROVE  /\ <<e>> \in Seq(News) /\ Alone(<<e>>) /\ <<e>> # << >> /\ <<e>>[1] = e
         /\ Leading(<<e>>)
         /\ e \in Orders => Answers(<<e>>) = {}
         /\ \A f : Contains(<<e>>, f) <=> f = e
         /\ e = "EXPLODE" => Dooming(<<e>>)
<1>1. /\ <<e>> \in Seq(News) /\ Len(<<e>>) = 1 /\ DOMAIN <<e>> = {1} /\ <<e>>[1] = e
      /\ <<e>> # << >>
  OBVIOUS
<1>2. e \in Orders => e \notin Replies
  BY DEF Orders, Replies
<1> QED BY <1>1, <1>2 DEF Answers, Alone, Leading, Contains, Dooming

LEMMA ExplosionLines ==
  LET o == <<"EXPLODE", "OK">>
  IN  o \in Seq(News) /\ Alone(o) /\ ~Contains(o, "LAUNCH") /\ Dooming(o)
<1> DEFINE o == <<"EXPLODE", "OK">>
<1>1. /\ o \in Seq(News) /\ Len(o) = 2 /\ DOMAIN o = {1, 2} /\ 1..2 = {1, 2}
      /\ o[1] = "EXPLODE" /\ o[2] = "OK"
  BY DEF News, Orders, Replies
<1> HIDE DEF o
<1>2. \A i \in Answers(o) : i = 2
  BY <1>1 DEF Answers, Replies
<1>3. Alone(o) /\ ~Contains(o, "LAUNCH")
  BY <1>1, <1>2 DEF Alone, Contains
<1>4. Dooming(o)
  BY <1>1 DEF Dooming
<1> QED BY <1>1, <1>3, <1>4 DEF o

(* Without an answer any order may come first.                             *)
LEMMA NoAnswers ==
  ASSUME NEW lines, Answers(lines) = {}
  PROVE  LaunchFirst(lines) /\ Alone(lines)
BY DEF LaunchFirst, Alone
-----------------------------------------------------------------------------
(* Nothing but the place in the loop changes.                              *)

LEMMA QuietKeeps ==
  ASSUME IInv, pc \in {"step", "emit", "link", "read"},
         pc' \in {"step", "emit", "link", "read"}, pc' = "link" => fd = "down",
         UNCHANGED <<fd, gm, moved, sender, wires, satellite, apart>>
  PROVE  IInv'
<1>1. /\ fd' = fd /\ gm' = gm /\ moved' = moved /\ task' = task /\ todo' = todo
      /\ attempts' = attempts /\ err' = err /\ toSat' = toSat /\ toInj' = toInj
      /\ phase' = phase /\ open' = open /\ received' = received /\ apart' = apart
  BY DEF sender, wires, satellite
<1>2. TypeOK'
  BY <1>1 DEF IInv, TypeOK
<1>3. Connected' /\ Authenticating' /\ Working' /\ Between'
  BY <1>1 DEF IInv, Connected, Authenticating, Working, Between
<1>4. Resetting'
  BY <1>1 DEF IInv, Resetting, ResetPending
<1>5. InOrbit' /\ Current' /\ AtRest'
  BY <1>1 DEF IInv, InOrbit, Current, AtRest
<1>6. Knowing'
  BY <1>1 DEF IInv, Knowing, ResetPending, Tracked
<1>7. Launching'
  BY <1>1 DEF IInv, Launching, Coming
<1> QED BY <1>2, <1>3, <1>4, <1>5, <1>6, <1>7 DEF IInv

LEMMA EmitLaterKeeps ==
  ASSUME IInv, EmitLater
  PROVE  IInv'
BY QuietKeeps DEF EmitLater, Link

LEMMA NoConnectKeeps ==
  ASSUME IInv, NoConnect
  PROVE  IInv'
BY QuietKeeps DEF NoConnect

LEMMA TimeoutKeeps ==
  ASSUME IInv, Timeout
  PROVE  IInv'
BY QuietKeeps DEF Timeout

(* What holds between two tasks: nothing in transit to the satellite.      *)
LEMMA AtPeace ==
  ASSUME IInv, pc \in {"step", "emit", "link", "read"}
  PROVE  /\ toSat = << >> /\ Answers(toInj) = {} /\ ~ResetPending
         /\ gm \in Rockets /\ toInj \in Seq(News) /\ Altitudes = {"ground", "below", "orbit"}
         /\ ~apart => Tracked(gm, toInj)
<1>1. toSat = << >> /\ Answers(toInj) = {}
  BY DEF IInv, Between
<1>2. ~ResetPending
  BY <1>1 DEF ResetPending
<1> QED BY <1>1, <1>2 DEF IInv, TypeOK, Rockets, News, Knowing, Altitudes

LEMMA StepKeeps ==
  ASSUME IInv, Step
  PROVE  IInv'
<1>1. /\ pc = "step" /\ pc' = "emit" /\ gm' \in gen_step(gm)
      /\ gm'.altitude # gm.altitude => ~moved
      /\ moved' = (moved \/ gm'.altitude # gm.altitude)
      /\ fd' = fd /\ task' = task /\ todo' = todo
      /\ attempts' = attempts /\ err' = err /\ toSat' = toSat /\ toInj' = toInj
      /\ phase' = phase /\ open' = open /\ received' = received /\ apart' = apart
  BY DEF Step, sender, wires, satellite
<1>2. /\ toSat = << >> /\ Answers(toInj) = {} /\ ~ResetPending
      /\ gm \in Rockets
      /\ ~apart => Tracked(gm, toInj)
  BY <1>1, AtPeace
<1>3. Flown(gm, gm')
  BY <1>1, <1>2, StepFacts
<1>4. gm' \in Rockets
  BY <1>3 DEF Flown
<1>5. TypeOK'
  <2>1. moved' \in BOOLEAN
    BY <1>1
  <2> QED BY <1>1, <1>4, <2>1 DEF IInv, TypeOK, Rockets
<1>6. Connected' /\ Authenticating' /\ Working' /\ Between'
  BY <1>1 DEF IInv, Connected, Authenticating, Working, Between
<1>7. ~ResetPending' /\ Resetting' /\ Current' /\ AtRest'
  BY <1>1, <1>2 DEF IInv, Resetting, ResetPending, Current, AtRest
<1>8. InOrbit'
  BY <1>1, <1>3 DEF IInv, InOrbit, Flown
<1>9. Knowing'
  BY <1>1, <1>2, <1>3 DEF Knowing, Tracked, Flown
<1>10. Launching'
  <2>1. SUFFICES ASSUME ~apart, Contains(toInj, "LAUNCH")
                 PROVE  /\ gm'.altitude # "orbit" /\ received # "orbit" /\ phase # "EMERGENCY"
                        /\ gm'.altitude = "below" => moved'
    BY <1>1 DEF Launching, Coming
  <2>2. /\ gm.altitude # "orbit" /\ received # "orbit" /\ phase # "EMERGENCY"
        /\ gm.altitude = "below" => moved
    BY <1>1, <2>1 DEF IInv, Launching, Coming
  <2>3. gm.altitude \in {"ground", "below"}
    BY <1>2, <2>2, RocketParts
  <2> QED BY <1>1, <1>3, <2>2, <2>3 DEF Flown
<1> QED BY <1>4, <1>5, <1>6, <1>7, <1>8, <1>9, <1>10 DEF IInv
-----------------------------------------------------------------------------
(* A line is written; a task begins.                                       *)

Written == [line : Lines, altitude : Altitudes]

LEMMA PutFacts ==
  ASSUME toSat \in Seq(Written), NEW line \in Lines, NEW g \in Rockets, Put(line, g)
  PROVE  /\ toSat' \in Seq(Written)
         /\ \A i \in DOMAIN toSat' :
              \/ toSat'[i].line = line /\ toSat'[i].altitude = g.altitude
              \/ i \in DOMAIN toSat /\ toSat'[i] = toSat[i]
         /\ toSat = << >> => /\ Len(toSat') <= 1
                             /\ \A i \in DOMAIN toSat' :
                                  toSat'[i].line = line /\ toSat'[i].altitude = g.altitude
                             /\ fd = "up" => Len(toSat') = 1 /\ 1 \in DOMAIN toSat'
         /\ fd # "up" => toSat' = toSat
<1> DEFINE new == [line |-> line, altitude |-> g.altitude]
<1>1. new \in Written /\ new.line = line /\ new.altitude = g.altitude
  BY RocketParts DEF Written, Altitudes
<1>2. toSat' = IF fd = "up" THEN Append(toSat, new) ELSE toSat
  BY DEF Put
<1> HIDE DEF new
<1>3. /\ Len(toSat) \in Nat /\ DOMAIN toSat = 1..Len(toSat)
      /\ toSat = << >> => Len(toSat) = 0
  BY LenProperties, EmptySeq
<1>4. CASE fd # "up"
  BY <1>2, <1>3, <1>4
<1>5. CASE fd = "up"
  <2>1. toSat' = Append(toSat, new)
    BY <1>2, <1>5
  <2>2. /\ toSat' \in Seq(Written) /\ Len(toSat') = Len(toSat) + 1
        /\ \A i \in 1..Len(toSat) : toSat'[i] = toSat[i]
        /\ toSat'[Len(toSat) + 1] = new
    BY <1>1, <2>1, AppendProperties
  <2>3. DOMAIN toSat' = 1..(Len(toSat) + 1)
    BY <2>2, LenProperties
  <2>4. \A i \in 1..(Len(toSat) + 1) : i \in 1..Len(toSat) \/ i = Len(toSat) + 1
    BY <1>3
  <2>5. \A i \in DOMAIN toSat' :
          \/ toSat'[i].line = line /\ toSat'[i].altitude = g.altitude
          \/ i \in DOMAIN toSat /\ toSat'[i] = toSat[i]
    BY <1>1, <1>3, <2>2, <2>3, <2>4
  <2>6. toSat = << >> => Len(toSat') = 1 /\ DOMAIN toSat' = {1} /\ toSat'[1] = new
    BY <1>3, <2>2, <2>3
  <2> QED BY <1>1, <1>5, <2>2, <2>5, <2>6
<1> QED BY <1>4, <1>5

LEMMA TelemetryFacts ==
  /\ Telemetry \in Seq(Lines) /\ Telemetry # << >> /\ Len(Telemetry) \in Nat \ {0}
  /\ \A i \in 1..Len(Telemetry) : Telemetry[i] \in {"ALTITUDE", "OTHER"}
  /\ Head(Telemetry) \in {"ALTITUDE", "OTHER"}
BY InjectorAssumption, HeadTailProperties, ElementOfSeq, EmptySeq DEF InjectorAssumption, Lines

(* A rocket the satellite knows no less of than before.                    *)
Kept(g, h) ==
  /\ h \in Rockets /\ h.altitude = g.altitude
  /\ g.exploded => h.exploded
  /\ Descending(g) => Descending(h)
  /\ Landable(g) => Landable(h)

LEMMA KeptTracked ==
  ASSUME NEW g, NEW h, NEW lines, Kept(g, h), Tracked(g, lines)
  PROVE  Tracked(h, lines)
BY DEF Kept, Tracked

LEMMA BeginKeeps ==
  ASSUME IInv, pc \in {"step", "emit", "link", "read"}, fd # "down",
         NEW what \in {"telemetry", "command", "reset"},
         NEW lines \in Seq(Lines), lines # << >>,
         \A i \in 2..Len(lines) : lines[i] # "RESET",
         NEW g \in Rockets, Begin(what, lines, g),
         gm' \in Rockets, gm'.altitude = g.altitude,
         moved' \in BOOLEAN, apart' \in BOOLEAN,
         fd' = fd, toInj' = toInj, phase' = phase, open' = open, received' = received,
         Head(lines) = "RESET" => gm'.altitude = "ground",
         ~apart' => ~apart /\ IF Head(lines) = "RESET" THEN fd = "up" ELSE Kept(gm, gm'),
         ~apart' /\ Contains(toInj, "LAUNCH") /\ gm'.altitude = "below" =>
           moved' \/ what = "telemetry"
  PROVE  IInv'
<1>1. /\ toSat = << >> /\ Answers(toInj) = {} /\ ~ResetPending
      /\ ~apart => Tracked(gm, toInj)
  BY AtPeace
<1>2. /\ pc' = "await" /\ task' = what /\ todo' = lines /\ attempts' = 0 /\ err' = FALSE
      /\ Put(Head(lines), g)
  BY DEF Begin
<1>3. Head(lines) \in Lines
  BY HeadTailProperties
<1>4. toSat \in Seq(Written)
  BY DEF IInv, TypeOK, Written
<1>5. /\ toSat' \in Seq(Written) /\ Len(toSat') <= 1
      /\ \A i \in DOMAIN toSat' :
           toSat'[i].line = Head(lines) /\ toSat'[i].altitude = g.altitude
      /\ fd = "up" => Len(toSat') = 1 /\ 1 \in DOMAIN toSat'
      /\ fd # "up" => toSat' = << >>
  BY <1>1, <1>2, <1>3, <1>4, PutFacts
<1>6. TypeOK'
  <2>1. attempts' \in 0..(Attempts - 1)
    BY <1>2, InjectorAssumption DEF InjectorAssumption
  <2> QED BY <1>2, <1>5, <2>1 DEF IInv, TypeOK, Rockets, Written
<1>7. Connected' /\ Authenticating' /\ Between'
  BY <1>2, <1>5 DEF IInv, Connected, Authenticating, Between
<1>8. Alone(toInj)
  BY <1>1, NoAnswers
<1>9. Working'
  BY <1>1, <1>2, <1>5, <1>8 DEF Working, Single
<1>10. ResetPending' => Head(lines) = "RESET" /\ toSat' # << >>
  BY <1>5 DEF ResetPending
<1>11. Head(lines) = "RESET" /\ fd = "up" => ResetPending'
  BY <1>5 DEF ResetPending
<1>12. Resetting'
  BY <1>2, <1>5, <1>10 DEF Resetting
<1>13. Current' /\ AtRest'
  BY <1>5 DEF IInv, Current, AtRest
<1>14. InOrbit'
  BY DEF IInv, InOrbit, Kept
<1>15. Knowing'
  <2>1. SUFFICES ASSUME ~apart', ~ResetPending' PROVE Tracked(gm', toInj')
    <3>1. Tracked(gm, toInj)' <=> Tracked(gm', toInj')
      BY DEF Tracked
    <3> QED BY <3>1 DEF Knowing
  <2> QED BY <1>1, <1>11, <2>1, KeptTracked
<1>16. Launching'
  <2>1. SUFFICES ASSUME ~apart', Contains(toInj, "LAUNCH")
                 PROVE  /\ gm'.altitude # "orbit" /\ received # "orbit" /\ phase # "EMERGENCY"
                        /\ gm'.altitude = "below" => moved' \/ task' = "telemetry"
                        /\ LaunchFirst(toInj)
    BY <1>2 DEF Launching, Coming
  <2>2. gm.altitude # "orbit" /\ received # "orbit" /\ phase # "EMERGENCY"
    BY <2>1 DEF IInv, Launching, Coming
  <2>3. gm'.altitude # "orbit"
    BY <2>1, <2>2 DEF Kept
  <2> QED BY <1>1, <1>2, <2>1, <2>2, <2>3, NoAnswers
<1> QED BY <1>6, <1>7, <1>9, <1>12, <1>13, <1>14, <1>15, <1>16 DEF IInv

LEMMA EmitKeeps ==
  ASSUME IInv, Emit
  PROVE  IInv'
<1>1. /\ pc = "emit" /\ moved' = FALSE /\ fd' = fd /\ gm' = gm /\ toInj' = toInj
      /\ phase' = phase /\ open' = open /\ received' = received /\ apart' = apart
  BY DEF Emit, satellite
<1>2. CASE fd = "down"
  <2>1. /\ pc' = "link" /\ task' = task /\ todo' = todo /\ attempts' = attempts
        /\ err' = err /\ toSat' = toSat
    BY <1>2 DEF Emit, Link, sender
  <2>2. toInj = << >> /\ toSat = << >> /\ ~Contains(toInj, "LAUNCH")
    BY <1>2, NoLines DEF IInv, Connected
  <2>3. TypeOK'
    BY <1>1, <2>1 DEF IInv, TypeOK
  <2>4. Connected' /\ Authenticating' /\ Working' /\ Between' /\ Resetting'
    BY <1>1, <1>2, <2>1, <2>2
    DEF IInv, Connected, Authenticating, Working, Between, Resetting, ResetPending
  <2>5. InOrbit' /\ Current' /\ AtRest'
    BY <1>1, <2>1 DEF IInv, InOrbit, Current, AtRest
  <2>6. Knowing'
    BY <1>1, <2>1 DEF IInv, Knowing, ResetPending, Tracked
  <2>7. Launching'
    BY <1>1, <2>2 DEF Launching, Coming
  <2> QED BY <2>3, <2>4, <2>5, <2>6, <2>7 DEF IInv
<1>3. CASE fd # "down"
  <2>1. Begin("telemetry", Telemetry, gm)
    BY <1>3 DEF Emit
  <2>2. gm \in Rockets /\ apart \in BOOLEAN
    BY DEF IInv, TypeOK, Rockets
  <2>3. Head(Telemetry) # "RESET" /\ \A i \in 2..Len(Telemetry) : Telemetry[i] # "RESET"
    BY TelemetryFacts
  <2>4. Kept(gm, gm)
    BY <2>2 DEF Kept
  <2> QED BY <1>1, <1>3, <2>1, <2>2, <2>3, <2>4, TelemetryFacts, BeginKeeps
<1> QED BY <1>2, <1>3

LEMMA ConnectKeeps ==
  ASSUME IInv, Connect
  PROVE  IInv'
<1> DEFINE first == [line |-> "AUTH", altitude |-> "ground"]
<1>1. /\ pc = "link" /\ pc' = "auth" /\ fd' = "up" /\ toSat' = <<first>>
      /\ gm' = gm /\ moved' = moved /\ task' = task /\ todo' = todo
      /\ attempts' = attempts /\ err' = err /\ toInj' = toInj
      /\ phase' = phase /\ open' = open /\ received' = received /\ apart' = apart
  BY DEF Connect, sender, satellite
<1>2. first \in Written /\ first.line = "AUTH" /\ first.altitude = "ground"
  BY DEF Written, Lines, Altitudes
<1> HIDE DEF first
<1>3. /\ toSat' \in Seq(Written) /\ Len(toSat') = 1 /\ DOMAIN toSat' = {1}
      /\ toSat'[1] = first /\ toSat' # << >>
  BY <1>1, <1>2
<1>4. toInj = << >> /\ ~Contains(toInj, "LAUNCH") /\ Answers(toInj) = {} /\ Leading(toInj)
  BY <1>1, NoLines DEF IInv, Connected
<1>5. ~ResetPending /\ ~ResetPending'
  BY <1>1, <1>2, <1>3, AtPeace DEF ResetPending
<1>6. TypeOK'
  BY <1>1, <1>3 DEF IInv, TypeOK, Written
<1>7. Connected' /\ Authenticating' /\ Working' /\ Between' /\ Resetting'
  BY <1>1, <1>2, <1>3, <1>4, <1>5
  DEF IInv, Connected, Authenticating, Working, Between, Resetting
<1>8. InOrbit' /\ Current' /\ AtRest'
  BY <1>1, <1>2, <1>3 DEF IInv, InOrbit, Current, AtRest
<1>9. Knowing'
  BY <1>1, <1>5 DEF IInv, Knowing, Tracked
<1>10. Launching'
  BY <1>1, <1>4 DEF Launching, Coming
<1> QED BY <1>6, <1>7, <1>8, <1>9, <1>10 DEF IInv
-----------------------------------------------------------------------------
(* Lines are read and obeyed, or lost with the connection.                 *)

LEMMA ObeyedFacts ==
  ASSUME IInv, NEW k, NEW a, NEW b, Halves(toInj, k, a, b), NEW g, g = Obey(gm, a)
  PROVE  /\ g \in Rockets
         /\ ResetPending => g.altitude = "ground"
         /\ ~apart /\ g.altitude = "orbit" => Landable(g)
         /\ ~apart => \A i \in DOMAIN toSat :
                        toSat[i].altitude = "orbit" => g.altitude = "orbit"
         /\ ~apart /\ ~ResetPending => Tracked(g, b)
         /\ ~apart /\ Contains(b, "LAUNCH") =>
              /\ g.altitude # "orbit" /\ received # "orbit" /\ phase # "EMERGENCY"
              /\ g.altitude = "below" => moved \/ (pc = "await" /\ task = "telemetry")
              /\ pc = "await" /\ g.altitude # "ground" /\ ~err =>
                   LaunchFirst(b) /\ ~Contains(a, "OK")
<1>1. gm \in Rockets
  BY DEF IInv, TypeOK, Rockets
<1>2. /\ a \in Seq(News) /\ b \in Seq(News)
      /\ \A e : Contains(toInj, e) <=> Contains(a, e) \/ Contains(b, e)
      /\ Dooming(toInj) => Dooming(b) \/ (Dooming(a) /\ ~Contains(b, "LAUNCH"))
      /\ LaunchFirst(toInj) => /\ LaunchFirst(b)
                               /\ Contains(a, "OK") => ~Contains(b, "LAUNCH")
  BY HalvesFacts
<1>3. /\ g \in Rockets
      /\ Contains(a, "LAUNCH") => g.altitude = "ground"
      /\ ~Contains(a, "LAUNCH") =>
           /\ g.altitude = gm.altitude
           /\ gm.exploded => g.exploded
           /\ Descending(gm) => Descending(g)
           /\ Landable(gm) => Landable(g)
           /\ Contains(a, "LAND") /\ Landable(gm) => Descending(g)
      /\ Dooming(a) => g.exploded
  BY <1>1, <1>2, ObeyFacts
<1>4. ~apart /\ Contains(toInj, "LAUNCH") =>
        /\ gm.altitude # "orbit" /\ received # "orbit" /\ phase # "EMERGENCY"
        /\ gm.altitude = "below" => moved \/ (pc = "await" /\ task = "telemetry")
        /\ pc = "await" /\ gm.altitude # "ground" /\ ~err => LaunchFirst(toInj)
  BY DEF IInv, Launching, Coming
<1>5. ResetPending => g.altitude = "ground"
  BY <1>3 DEF IInv, Resetting
<1>6. ~apart /\ g.altitude = "orbit" => Landable(g)
  BY <1>3 DEF IInv, InOrbit
<1>7. ~apart => \A i \in DOMAIN toSat : toSat[i].altitude = "orbit" => g.altitude = "orbit"
  BY <1>2, <1>3, <1>4 DEF IInv, Current
<1>8. ASSUME ~apart, ~ResetPending PROVE Tracked(g, b)
  <2>1. Tracked(gm, toInj)
    BY <1>8 DEF IInv, Knowing
  <2>2. received = "orbit" => Landable(g)
    BY <1>2, <1>3, <1>4, <1>8, <2>1 DEF Tracked
  <2>3. Descending(gm) => Landable(gm)
    BY DEF Landable
  <2>4. phase = "EMERGENCY" => Descending(g) \/ (Contains(b, "LAND") /\ Landable(g))
    BY <1>2, <1>3, <1>4, <1>8, <2>1, <2>3 DEF Tracked
  <2>5. phase = "EXPLODED" => Dooming(b) \/ (g.exploded /\ ~Contains(b, "LAUNCH"))
    BY <1>2, <1>3, <2>1 DEF Tracked
  <2> QED BY <2>2, <2>4, <2>5 DEF Tracked
<1>9. ASSUME ~apart, Contains(b, "LAUNCH")
      PROVE  /\ g.altitude # "orbit" /\ received # "orbit" /\ phase # "EMERGENCY"
             /\ g.altitude = "below" => moved \/ (pc = "await" /\ task = "telemetry")
             /\ pc = "await" /\ g.altitude # "ground" /\ ~err =>
                  LaunchFirst(b) /\ ~Contains(a, "OK")
  BY <1>2, <1>3, <1>4, <1>9
<1> QED BY <1>3, <1>5, <1>6, <1>7, <1>8, <1>9

(* What is lost says nothing when it holds no order.                       *)
LEMMA NothingLost ==
  ASSUME NEW lines \in Seq(News), ~Lost(lines)
  PROVE  /\ \A e \in Orders : ~Contains(lines, e)
         /\ ~Contains(lines, "LAUNCH") /\ ~Contains(lines, "LAND")
         /\ ~Contains(lines, "EXPLODE") /\ ~Dooming(lines)
<1>1. DOMAIN lines = 1..Len(lines)
  BY LenProperties
<1>2. \A e \in Orders : ~Contains(lines, e)
  BY <1>1 DEF Lost, Contains
<1>3. Dooming(lines) => Contains(lines, "EXPLODE")
  BY <1>1 DEF Dooming, Contains
<1> QED BY <1>2, <1>3 DEF Orders

LEMMA CloseKeeps ==
  ASSUME TypeOK, AtRest, NEW rest \in Seq(News), NEW next \in {"step", "link", "read"},
         Close(rest, next), gm' \in Rockets, moved' \in BOOLEAN,
         ~apart /\ gm'.altitude = "orbit" => Landable(gm'),
         ~apart /\ ~ResetPending => Tracked(gm', rest)
  PROVE  IInv'
<1>1. /\ fd' = "down" /\ toSat' = << >> /\ toInj' = << >> /\ pc' = next
      /\ apart' = (apart \/ ResetPending \/ Lost(rest))
      /\ task' = "telemetry" /\ todo' = << >> /\ attempts' = 0 /\ err' = FALSE
      /\ phase' = phase /\ open' = open /\ received' = received
  BY DEF Close, Idle, satellite
<1>2. TypeOK'
  <2>1. attempts' \in 0..(Attempts - 1)
    BY <1>1, InjectorAssumption DEF InjectorAssumption
  <2>2. todo' \in Seq(Lines) /\ toSat' \in Seq(Written) /\ toInj' \in Seq(Orders \cup Replies)
    BY <1>1, EmptySeq
  <2>3. apart' \in BOOLEAN
    BY <1>1
  <2> QED BY <1>1, <2>1, <2>2, <2>3 DEF TypeOK, Rockets, Written
<1>3. ~Contains(toInj', "LAUNCH") /\ Answers(toInj') = {} /\ ~ResetPending'
  BY <1>1, NoLines DEF ResetPending
<1>4. Connected' /\ Authenticating' /\ Working' /\ Between' /\ Resetting'
  BY <1>1, <1>3 DEF Connected, Authenticating, Working, Between, Resetting
<1>5. InOrbit' /\ Current' /\ AtRest'
  <2>1. ~apart' => ~apart
    BY <1>1
  <2>2. InOrbit'
    BY <2>1 DEF InOrbit
  <2>3. Current' /\ AtRest'
    BY <1>1 DEF Current, AtRest
  <2> QED BY <2>2, <2>3
<1>6. Knowing'
  <2>1. SUFFICES ASSUME ~apart' PROVE Tracked(gm', << >>)
    <3>1. Tracked(gm, toInj)' <=> Tracked(gm', << >>)
      BY <1>1 DEF Tracked
    <3> QED BY <3>1 DEF Knowing
  <2>2. ~apart /\ ~ResetPending /\ ~Lost(rest)
    BY <1>1, <2>1
  <2>3. Tracked(gm', rest)
    BY <2>2
  <2> QED BY <2>2, <2>3, NothingLost, NoLines DEF Tracked
<1>7. Launching'
  BY <1>3 DEF Launching, Coming
<1> QED BY <1>2, <1>4, <1>5, <1>6, <1>7 DEF IInv

(* Reading finds that the connection is gone.                              *)
LEMMA LossKeeps ==
  ASSUME IInv, NEW next \in {"step", "link", "read"}, NEW rest, rest = toInj,
         Close(rest, next), gm' = gm, moved' = moved
  PROVE  IInv'
<1>1. TypeOK /\ AtRest /\ rest \in Seq(News) /\ gm' \in Rockets /\ moved' \in BOOLEAN
  BY DEF IInv, TypeOK, Rockets, News
<1>2. ~apart /\ gm'.altitude = "orbit" => Landable(gm')
  BY DEF IInv, InOrbit
<1>3. ~apart /\ ~ResetPending => Tracked(gm', rest)
  BY DEF IInv, Knowing
<1> QED BY <1>1, <1>2, <1>3, CloseKeeps

LEMMA WakeLostKeeps ==
  ASSUME IInv, WakeLost
  PROVE  IInv'
<1>1. Onward("down") \in {"step", "link", "read"}
  BY DEF Onward, Link
<1> QED BY <1>1, LossKeeps DEF WakeLost

LEMMA AuthFailsKeeps ==
  ASSUME IInv, AuthFails
  PROVE  IInv'
BY LossKeeps DEF AuthFails

LEMMA PollLostKeeps ==
  ASSUME IInv, PollLost
  PROVE  IInv'
BY LossKeeps DEF PollLost

(* Lines are read without the end of a task.                               *)
LEMMA ReadKeeps ==
  ASSUME IInv, NEW k, NEW a, NEW b, Halves(toInj, k, a, b), gm' = Obey(gm, a),
         fd' = fd, moved' = moved, task' = task, todo' = todo, err' = err,
         attempts' \in 0..(Attempts - 1), toSat' = toSat, toInj' = b,
         phase' = phase, open' = open, received' = received, apart' = apart,
         \/ pc = "await" /\ pc' = "await"
         \/ pc = "read" /\ pc' = "step"
  PROVE  IInv'
<1>1. /\ gm' \in Rockets
      /\ ResetPending => gm'.altitude = "ground"
      /\ ~apart /\ gm'.altitude = "orbit" => Landable(gm')
      /\ ~apart => \A i \in DOMAIN toSat :
                     toSat[i].altitude = "orbit" => gm'.altitude = "orbit"
      /\ ~apart /\ ~ResetPending => Tracked(gm', b)
      /\ ~apart /\ Contains(b, "LAUNCH") =>
           /\ gm'.altitude # "orbit" /\ received # "orbit" /\ phase # "EMERGENCY"
           /\ gm'.altitude = "below" => moved \/ (pc = "await" /\ task = "telemetry")
           /\ pc = "await" /\ gm'.altitude # "ground" /\ ~err =>
                LaunchFirst(b) /\ ~Contains(a, "OK")
  BY ObeyedFacts
<1>2. /\ b \in Seq(News)
      /\ Answers(toInj) = {} => Answers(b) = {}
      /\ Alone(toInj) => Alone(b)
      /\ \A e : Contains(b, e) => Contains(toInj, e)
  BY HalvesFacts
<1>3. TypeOK'
  BY <1>1, <1>2 DEF IInv, TypeOK, Rockets, News
<1>4. Connected'
  <2>1. fd = "down" => toInj = << >>
    BY DEF IInv, Connected
  <2>2. toInj = << >> => b = << >>
    <3>1. toInj = << >> => Len(toInj) = 0
      BY EmptySeq
    <3>2. /\ k \in 0..Len(toInj) /\ Len(toInj) \in Nat /\ Len(b) = Len(toInj) - k
      BY DEF Halves
    <3>3. Len(toInj) = 0 => Len(b) = 0
      <4> DEFINE n == Len(toInj)
                 m == Len(b)
      <4>1. k \in 0..n /\ n \in Nat /\ m = n - k
        BY <3>2
      <4> HIDE DEF n, m
      <4>2. n = 0 => k = 0
        BY <4>1
      <4>3. k = 0 => m = n
        BY <4>1
      <4> QED BY <4>2, <4>3 DEF n, m
    <3>4. b # << >> => Len(b) # 0
      BY <1>2, EmptySeq
    <3> QED BY <3>1, <3>3, <3>4
  <2> QED BY <2>1, <2>2 DEF IInv, Connected
<1>5. ResetPending' <=> ResetPending
  BY DEF ResetPending
<1>6. Authenticating' /\ Working' /\ Between' /\ Resetting'
  BY <1>1, <1>2, <1>5 DEF IInv, Authenticating, Working, Single, Between, Resetting
<1>7. InOrbit' /\ Current' /\ AtRest'
  BY <1>1 DEF IInv, InOrbit, Current, AtRest
<1>8. Knowing'
  BY <1>1, <1>5 DEF Knowing, Tracked
<1>9. Launching'
  BY <1>1 DEF Launching, Coming
<1> QED BY <1>3, <1>4, <1>6, <1>7, <1>8, <1>9 DEF IInv

LEMMA PollEventsKeeps ==
  ASSUME IInv, PollEvents
  PROVE  IInv'
<1>1. PICK k \in 1..Len(toInj) :
        /\ gm' = Obey(gm, SubSeq(toInj, 1, k))
        /\ toInj' = SubSeq(toInj, k + 1, Len(toInj))
  BY DEF PollEvents
<1>2. /\ pc = "read" /\ pc' = "step" /\ fd' = fd /\ moved' = moved /\ task' = task
      /\ todo' = todo /\ attempts' = attempts /\ err' = err /\ toSat' = toSat
      /\ phase' = phase /\ open' = open /\ received' = received /\ apart' = apart
  BY DEF PollEvents, sender, satellite
<1>3. toInj \in Seq(News) /\ attempts' \in 0..(Attempts - 1)
  BY <1>2 DEF IInv, TypeOK, News
<1>4. k \in 0..Len(toInj)
  BY <1>3, LenProperties
<1>5. Halves(toInj, k, SubSeq(toInj, 1, k), SubSeq(toInj, k + 1, Len(toInj)))
  BY <1>3, <1>4, HalvesOf
<1> QED BY <1>1, <1>2, <1>3, <1>5, ReadKeeps

(* connect_to_satellite reads AUTH_OK and what came with it.               *)
LEMMA AuthReadKeeps ==
  ASSUME IInv, NEW k \in 0..Len(toInj), AuthRead(k)
  PROVE  IInv'
<1> DEFINE a == SubSeq(toInj, 1, k)
           b == SubSeq(toInj, k + 1, Len(toInj))
<1>1. /\ pc = "auth" /\ k # 0 /\ pc' = "read" /\ toInj' = b
      /\ apart' = (apart \/ Lost(a))
      /\ fd' = fd /\ gm' = gm /\ moved' = moved /\ task' = task
      /\ todo' = todo /\ attempts' = attempts /\ err' = err /\ toSat' = toSat
      /\ phase' = phase /\ open' = open /\ received' = received
  BY DEF AuthRead, sender, satellite
<1>2. toInj \in Seq(News)
  BY DEF IInv, TypeOK, News
<1>3. Halves(toInj, k, a, b)
  BY <1>2, HalvesOf
<1> HIDE DEF a, b
<1>4. /\ a \in Seq(News) /\ b \in Seq(News)
      /\ \A e : Contains(toInj, e) <=> Contains(a, e) \/ Contains(b, e)
      /\ Dooming(toInj) => Dooming(b) \/ (Dooming(a) /\ ~Contains(b, "LAUNCH"))
  BY <1>3, HalvesFacts
<1>5. Answers(b) = {}
  <2>1. Leading(toInj)
    BY <1>1 DEF IInv, Authenticating
  <2> QED BY <1>1, <1>3, <2>1, HalvesFacts
<1>6. toInj # << >> /\ toSat = << >> /\ fd # "down"
  <2>1. Len(toInj) \in Nat
    BY <1>2, LenProperties
  <2>2. Len(toInj) # 0
    <3> DEFINE n == Len(toInj)
    <3>1. k \in 0..n /\ n \in Nat /\ k # 0
      BY <1>1, <2>1
    <3> HIDE DEF n
    <3>2. n # 0
      BY <3>1
    <3> QED BY <3>2 DEF n
  <2>3. toInj # << >>
    BY <2>2, EmptySeq
  <2> QED BY <1>1, <2>3 DEF IInv, Authenticating, Connected
<1>7. TypeOK'
  <2>1. apart' \in BOOLEAN
    BY <1>1
  <2> QED BY <1>1, <1>4, <2>1 DEF IInv, TypeOK, News
<1>8. ~ResetPending /\ ~ResetPending'
  BY <1>1, <1>6 DEF ResetPending
<1>9. Connected' /\ Authenticating' /\ Working' /\ Between' /\ Resetting'
  BY <1>1, <1>5, <1>6, <1>8 DEF IInv, Connected, Authenticating, Working, Between, Resetting
<1>10. ~apart' => ~apart /\ ~Lost(a)
  BY <1>1
<1>11. InOrbit' /\ Current' /\ AtRest'
  BY <1>1, <1>10 DEF IInv, InOrbit, Current, AtRest
<1>12. Knowing'
  <2>1. SUFFICES ASSUME ~apart' PROVE Tracked(gm, b)
    <3>1. Tracked(gm, toInj)' <=> Tracked(gm, b)
      BY <1>1 DEF Tracked
    <3> QED BY <3>1 DEF Knowing
  <2>2. Tracked(gm, toInj)
    BY <1>8, <1>10, <2>1 DEF IInv, Knowing
  <2>3. ~Contains(a, "LAND") /\ ~Dooming(a)
    BY <1>4, <1>10, <2>1, NothingLost
  <2> QED BY <1>4, <2>2, <2>3 DEF Tracked
<1>13. Launching'
  BY <1>1, <1>4, <1>10 DEF IInv, Launching, Coming
<1> QED BY <1>7, <1>9, <1>11, <1>12, <1>13 DEF IInv

(* send_set goes on with the next line of the task.                        *)
LEMMA NextLineKeeps ==
  ASSUME IInv, NEW k, NEW a, NEW b, Halves(toInj, k, a, b), gm' = Obey(gm, a),
         pc = "await", pc' = "await", fd' = fd, moved' = moved, task' = task,
         todo' = Tail(todo), Len(todo) # 1, Put(todo[2], gm'), attempts' = 0, toInj' = b,
         err' \in BOOLEAN, ~err' => ~err /\ Contains(a, "OK"),
         Contains(a, "OK") \/ Head(todo) # "RESET",
         phase' = phase, open' = open, received' = received, apart' = apart
  PROVE  IInv'
<1>1. /\ gm' \in Rockets
      /\ ~apart /\ gm'.altitude = "orbit" => Landable(gm')
      /\ ~apart => \A i \in DOMAIN toSat :
                     toSat[i].altitude = "orbit" => gm'.altitude = "orbit"
      /\ ~apart /\ ~ResetPending => Tracked(gm', b)
      /\ ~apart /\ Contains(b, "LAUNCH") =>
           /\ gm'.altitude # "orbit" /\ received # "orbit" /\ phase # "EMERGENCY"
           /\ gm'.altitude = "below" => moved \/ (pc = "await" /\ task = "telemetry")
           /\ pc = "await" /\ gm'.altitude # "ground" /\ ~err =>
                LaunchFirst(b) /\ ~Contains(a, "OK")
  BY ObeyedFacts
<1>2. /\ b \in Seq(News)
      /\ Contains(a, "OK") => Answers(toInj) # {}
      /\ Alone(toInj) => Alone(b) /\ (Contains(a, "OK") => Answers(b) = {})
  BY HalvesFacts
<1>3. /\ todo \in Seq(Lines) /\ todo # << >> /\ fd # "down"
      /\ ~err => Single
      /\ Head(todo) = "RESET" => ~err
      /\ \A i \in 2..Len(todo) : todo[i] # "RESET"
  BY DEF IInv, TypeOK, Working, Connected
<1>4. /\ Len(todo) \in Nat /\ Len(todo) > 1
      /\ Tail(todo) \in Seq(Lines) /\ Len(Tail(todo)) = Len(todo) - 1
      /\ \A i \in 1..(Len(todo) - 1) : Tail(todo)[i] = todo[i + 1]
  <2>1. Len(todo) \in Nat \ {0}
    BY <1>3, EmptySeq
  <2>2. Len(todo) > 1
    <3> DEFINE n == Len(todo)
    <3>1. n \in Nat /\ n # 0 /\ n # 1
      BY <2>1
    <3> HIDE DEF n
    <3>2. n > 1
      BY <3>1
    <3> QED BY <3>2 DEF n
  <2> QED BY <1>3, <2>1, <2>2, HeadTailProperties
<1>5. /\ todo[2] \in Lines /\ todo[2] # "RESET"
      /\ Tail(todo) # << >> /\ Head(Tail(todo)) = todo[2]
      /\ \A i \in 2..Len(Tail(todo)) : Tail(todo)[i] # "RESET"
  <2>1. 2 \in 1..Len(todo) /\ 2 \in 2..Len(todo) /\ 1 \in 1..(Len(todo) - 1) /\ 1 + 1 = 2
    BY <1>4
  <2>2. todo[2] \in Lines /\ todo[2] # "RESET"
    BY <1>3, <2>1, ElementOfSeq
  <2>3. Tail(todo)[1] = todo[2]
    BY <1>4, <2>1
  <2>4. Len(Tail(todo)) # 0
    BY <1>4
  <2>5. Tail(todo) # << >>
    BY <2>4, EmptySeq
  <2>6. Head(Tail(todo)) = Tail(todo)[1]
    BY <1>4, <2>5
  <2>7. \A i \in 2..Len(Tail(todo)) : i \in 1..(Len(todo) - 1) /\ i + 1 \in 2..Len(todo)
    BY <1>4
  <2>8. \A i \in 2..Len(Tail(todo)) : Tail(todo)[i] # "RESET"
    BY <1>3, <1>4, <2>7
  <2> QED BY <2>2, <2>3, <2>5, <2>6, <2>8
<1>6. toSat \in Seq(Written)
  BY DEF IInv, TypeOK, Written
<1>7. /\ toSat' \in Seq(Written)
      /\ \A i \in DOMAIN toSat' :
           \/ toSat'[i].line = todo[2] /\ toSat'[i].altitude = gm'.altitude
           \/ i \in DOMAIN toSat /\ toSat'[i] = toSat[i]
      /\ toSat = << >> => Len(toSat') <= 1
      /\ fd # "up" => toSat' = toSat
  BY <1>1, <1>5, <1>6, PutFacts
<1>8. ~err' => toSat = << >> /\ Answers(b) = {} /\ Alone(b)
  BY <1>2, <1>3 DEF Single
<1>9. ~ResetPending
  <2>1. SUFFICES ASSUME ResetPending PROVE FALSE
    OBVIOUS
  <2>2. Head(todo) = "RESET" /\ Len(toSat) = 1
    BY <2>1 DEF IInv, Resetting
  <2>3. Single /\ Contains(a, "OK")
    BY <1>3, <2>2
  <2>4. Len(toSat) # 0
    BY <2>2
  <2>5. toSat # << >>
    BY <2>4, EmptySeq
  <2> QED BY <1>2, <2>3, <2>5 DEF Single
<1>10. ~ResetPending'
  BY <1>5, <1>7, <1>9 DEF ResetPending
<1>11. TypeOK'
  <2>1. attempts' \in 0..(Attempts - 1)
    BY InjectorAssumption DEF InjectorAssumption
  <2> QED BY <1>1, <1>2, <1>4, <1>7, <2>1 DEF IInv, TypeOK, Rockets, News, Written
<1>12. Working'
  BY <1>5, <1>7, <1>8 DEF Working, Single
<1>13. Connected' /\ Authenticating' /\ Between' /\ Resetting'
  BY <1>3, <1>7, <1>10 DEF IInv, Connected, Authenticating, Between, Resetting
<1>14. InOrbit' /\ AtRest'
  BY <1>1 DEF IInv, InOrbit, AtRest
<1>15. Current'
  BY <1>1, <1>7 DEF Current
<1>16. Knowing'
  BY <1>1, <1>9 DEF Knowing, Tracked
<1>17. Launching'
  BY <1>1 DEF Launching, Coming
<1> QED BY <1>11, <1>12, <1>13, <1>14, <1>15, <1>16, <1>17 DEF IInv

(* The task is over without an error.                                      *)
LEMMA ReturnKeeps ==
  ASSUME IInv, NEW k, NEW a, NEW b, Halves(toInj, k, a, b), gm' = Obey(gm, a),
         pc = "await", ~err, Contains(a, "OK"), moved' = moved,
         NEW next \in {"step", "read"}, Return(b, next)
  PROVE  IInv'
<1>1. /\ gm' \in Rockets
      /\ ~apart /\ gm'.altitude = "orbit" => Landable(gm')
      /\ ~apart /\ ~ResetPending => Tracked(gm', b)
      /\ ~apart /\ Contains(b, "LAUNCH") =>
           /\ gm'.altitude # "orbit" /\ received # "orbit" /\ phase # "EMERGENCY"
           /\ pc = "await" /\ gm'.altitude # "ground" /\ ~err =>
                LaunchFirst(b) /\ ~Contains(a, "OK")
  BY ObeyedFacts
<1>2. /\ b \in Seq(News)
      /\ Contains(a, "OK") => Answers(toInj) # {}
      /\ Alone(toInj) => Alone(b) /\ (Contains(a, "OK") => Answers(b) = {})
  BY HalvesFacts
<1>3. toSat = << >> /\ Answers(b) = {} /\ fd # "down"
  BY <1>2 DEF IInv, Working, Single, Connected
<1>4. /\ toInj' = b /\ pc' = next /\ fd' = fd /\ toSat' = toSat
      /\ task' = "telemetry" /\ todo' = << >> /\ attempts' = 0 /\ err' = FALSE
      /\ phase' = phase /\ open' = open /\ received' = received /\ apart' = apart
  BY DEF Return, Idle, satellite
<1>5. ~ResetPending /\ ~ResetPending'
  BY <1>3, <1>4 DEF ResetPending
<1>6. TypeOK'
  <2>1. attempts' \in 0..(Attempts - 1)
    BY <1>4, InjectorAssumption DEF InjectorAssumption
  <2>2. todo' \in Seq(Lines)
    BY <1>4, EmptySeq
  <2> QED BY <1>1, <1>2, <1>4, <2>1, <2>2 DEF IInv, TypeOK, Rockets, News
<1>7. Connected' /\ Authenticating' /\ Working' /\ Between' /\ Resetting'
  BY <1>3, <1>4, <1>5 DEF IInv, Connected, Authenticating, Working, Between, Resetting
<1>8. InOrbit' /\ Current' /\ AtRest'
  BY <1>1, <1>3, <1>4 DEF IInv, InOrbit, Current, AtRest
<1>9. Knowing'
  BY <1>1, <1>4, <1>5 DEF Knowing, Tracked
<1>10. Launching'
  BY <1>1, <1>4 DEF Launching, Coming
<1> QED BY <1>6, <1>7, <1>8, <1>9, <1>10 DEF IInv

LEMMA WakeKeeps ==
  ASSUME IInv, NEW k \in 0..Len(toInj), Wake(k)
  PROVE  IInv'
<1> DEFINE a == SubSeq(toInj, 1, k)
           b == SubSeq(toInj, k + 1, Len(toInj))
<1>1. /\ pc = "await" /\ gm' = Obey(gm, a) /\ moved' = moved
      /\ \/ Contains(a, "OK") /\ Returns(TRUE, b)
         \/ ~Contains(a, "OK") /\ GivesUp /\ Returns(FALSE, b)
         \/ /\ ~Contains(a, "OK") /\ ~GivesUp
            /\ attempts' = attempts + 1 /\ toInj' = b
            /\ UNCHANGED <<pc, fd, task, todo, err, toSat, satellite, apart>>
  BY DEF Wake
<1>2. toInj \in Seq(News)
  BY DEF IInv, TypeOK, News
<1>3. Halves(toInj, k, a, b)
  BY <1>2, HalvesOf
<1> HIDE DEF a, b
<1>4. b \in Seq(News) /\ fd # "down"
  BY <1>1, <1>3, HalvesFacts DEF IInv, Connected
<1>5. ASSUME NEW ok \in BOOLEAN, Returns(ok, b), ok <=> Contains(a, "OK") PROVE IInv'
  <2> DEFINE failed == err \/ ~ok
             over == Len(todo) = 1 \/ (Head(todo) = "RESET" /\ ~ok)
  <2>1. CASE over /\ failed
    <3>1. Close(b, Onward("down"))
      BY <1>5, <2>1 DEF Returns, Ends
    <3>2. Onward("down") \in {"step", "link", "read"}
      BY DEF Onward, Link
    <3>3. /\ gm' \in Rockets
          /\ ~apart /\ gm'.altitude = "orbit" => Landable(gm')
          /\ ~apart /\ ~ResetPending => Tracked(gm', b)
      BY <1>1, <1>3, ObeyedFacts
    <3>4. TypeOK /\ AtRest /\ moved' \in BOOLEAN
      BY <1>1 DEF IInv, TypeOK
    <3> QED BY <1>4, <3>1, <3>2, <3>3, <3>4, CloseKeeps
  <2>2. CASE over /\ ~failed
    <3>1. Return(b, Onward(fd)) /\ ~err /\ Contains(a, "OK")
      BY <1>5, <2>2 DEF Returns, Ends
    <3>2. Onward(fd) \in {"step", "read"}
      BY <1>4 DEF Onward, Link
    <3> QED BY <1>1, <1>3, <3>1, <3>2, ReturnKeeps
  <2>3. CASE ~over
    <3>1. /\ todo' = Tail(todo) /\ attempts' = 0 /\ err' = failed
          /\ Put(todo[2], gm') /\ toInj' = b
          /\ UNCHANGED <<pc, fd, task, satellite, apart>>
      BY <1>5, <2>3 DEF Returns
    <3>2. /\ pc' = pc /\ fd' = fd /\ task' = task /\ apart' = apart
          /\ phase' = phase /\ open' = open /\ received' = received
      BY <3>1 DEF satellite
    <3>3. Len(todo) # 1 /\ (Contains(a, "OK") \/ Head(todo) # "RESET")
      BY <1>5, <2>3
    <3>4. err' \in BOOLEAN /\ (~err' => ~err /\ Contains(a, "OK"))
      BY <1>5, <3>1
    <3> HIDE DEF failed, over
    <3> QED BY <1>1, <1>3, <3>1, <3>2, <3>3, <3>4, NextLineKeeps
  <2> QED BY <2>1, <2>2, <2>3
<1>6. CASE /\ ~Contains(a, "OK") /\ ~GivesUp
           /\ attempts' = attempts + 1 /\ toInj' = b
           /\ UNCHANGED <<pc, fd, task, todo, err, toSat, satellite, apart>>
  <2>1. /\ pc' = pc /\ fd' = fd /\ task' = task /\ todo' = todo /\ err' = err
        /\ toSat' = toSat /\ apart' = apart /\ toInj' = b
        /\ phase' = phase /\ open' = open /\ received' = received
    BY <1>6 DEF satellite
  <2>2. attempts' \in 0..(Attempts - 1)
    BY <1>6, InjectorAssumption DEF IInv, TypeOK, GivesUp, InjectorAssumption
  <2> QED BY <1>1, <1>3, <2>1, <2>2, ReadKeeps
<1> QED BY <1>1, <1>5, <1>6, Zenon
-----------------------------------------------------------------------------
(* The operator.                                                           *)

LEMMA KeptFacts ==
  ASSUME NEW g \in Rockets
  PROVE  /\ Kept(g, g) /\ Kept(g, Destroyed(g)) /\ Kept(g, Tidy(g))
         /\ Tidy(g) \in Rockets /\ Tidy(g).altitude = g.altitude
         /\ \A b \in BOOLEAN : Kept(g, [g EXCEPT !.stressed = b])
         /\ \A f \in Fuels : Kept(g, [g EXCEPT !.fuel = f])
<1>1. Kept(g, g)
  BY DEF Kept
<1>2. Kept(g, Destroyed(g))
  BY DestroyedFacts DEF Kept, Landable
<1>3. Kept(g, Tidy(g)) /\ Tidy(g) \in Rockets /\ Tidy(g).altitude = g.altitude
  <2>1. Tidy(g) = g \/ Tidy(g) = Destroyed(g)
    BY DEF Tidy
  <2>2. Kept(g, Tidy(g))
    BY <1>1, <1>2, <2>1
  <2> QED BY <2>2 DEF Kept
<1>4. ASSUME NEW b \in BOOLEAN PROVE Kept(g, [g EXCEPT !.stressed = b])
  <2> DEFINE h == [g EXCEPT !.stressed = b]
  <2>1. /\ h \in Rockets /\ h.altitude = g.altitude /\ h.exploded = g.exploded
        /\ h.landing = g.landing /\ h.launched = g.launched
    BY DEF Rockets
  <2> HIDE DEF h
  <2>2. Kept(g, h)
    BY <2>1 DEF Kept, Descending, Landable
  <2> QED BY <2>2 DEF h
<1>5. ASSUME NEW f \in Fuels PROVE Kept(g, [g EXCEPT !.fuel = f])
  <2> DEFINE h == [g EXCEPT !.fuel = f]
  <2>1. /\ h \in Rockets /\ h.altitude = g.altitude /\ h.exploded = g.exploded
        /\ h.landing = g.landing /\ h.launched = g.launched
    BY DEF Rockets
  <2> HIDE DEF h
  <2>2. Kept(g, h)
    BY <2>1 DEF Kept, Descending, Landable
  <2> QED BY <2>2 DEF h
<1> QED BY <1>1, <1>2, <1>3, <1>4, <1>5

LEMMA KeptTwice ==
  ASSUME NEW g, NEW h, NEW q, Kept(g, h), Kept(h, q)
  PROVE  Kept(g, q)
BY DEF Kept

LEMMA CommandKeeps ==
  ASSUME IInv, NEW what \in {"command", "reset"}, NEW g \in Rockets,
         NEW lines \in Seq(Lines), lines # << >>,
         \A i \in 2..Len(lines) : lines[i] # "RESET",
         Command(what, g, lines), apart' \in BOOLEAN,
         Head(lines) = "RESET" => g.altitude = "ground",
         ~apart' => ~apart /\ IF Head(lines) = "RESET" THEN fd = "up" ELSE Kept(gm, g)
  PROVE  IInv'
<1>1. /\ pc = "read" /\ fd # "down" /\ gm' = Tidy(g) /\ Begin(what, lines, g)
      /\ fd' = fd /\ moved' = moved /\ toInj' = toInj
      /\ phase' = phase /\ open' = open /\ received' = received
  BY DEF Command, satellite
<1>2. gm' \in Rockets /\ gm'.altitude = g.altitude /\ Kept(g, gm') /\ moved' \in BOOLEAN
  BY <1>1, KeptFacts DEF IInv, TypeOK
<1>3. ~apart' => ~apart /\ IF Head(lines) = "RESET" THEN fd = "up" ELSE Kept(gm, gm')
  BY <1>2, KeptTwice
<1>4. ~apart' /\ Contains(toInj, "LAUNCH") /\ gm'.altitude = "below" => moved'
  <2>1. SUFFICES ASSUME ~apart', Contains(toInj, "LAUNCH"), gm'.altitude = "below"
                 PROVE  moved
    BY <1>1
  <2>2. Kept(gm, gm') /\ ~apart
    BY <1>2, <1>3, <2>1
  <2>3. gm.altitude = "below"
    BY <2>1, <2>2 DEF Kept
  <2> QED BY <1>1, <2>1, <2>2, <2>3 DEF IInv, Launching, Coming
<1> QED BY <1>1, <1>2, <1>3, <1>4, BeginKeeps

LEMMA LocallyKeeps ==
  ASSUME IInv, NEW g \in Rockets, Locally(g), apart' \in BOOLEAN,
         ~apart' => ~apart /\ Kept(gm, g)
  PROVE  IInv'
<1>1. /\ pc = "read" /\ pc' = "step" /\ gm' = g
      /\ fd' = fd /\ moved' = moved /\ task' = task /\ todo' = todo
      /\ attempts' = attempts /\ err' = err /\ toSat' = toSat /\ toInj' = toInj
      /\ phase' = phase /\ open' = open /\ received' = received
  BY DEF Locally, sender, wires, satellite
<1>2. /\ toSat = << >> /\ ~ResetPending
      /\ ~apart => Tracked(gm, toInj)
  BY <1>1, AtPeace
<1>3. TypeOK'
  BY <1>1 DEF IInv, TypeOK, Rockets
<1>4. ~ResetPending'
  BY <1>1, <1>2 DEF ResetPending
<1>5. Connected' /\ Authenticating' /\ Working' /\ Between' /\ Resetting'
  BY <1>1, <1>4 DEF IInv, Connected, Authenticating, Working, Between, Resetting
<1>6. InOrbit' /\ Current' /\ AtRest'
  BY <1>1, <1>2 DEF IInv, InOrbit, Current, AtRest, Kept
<1>7. Knowing'
  <2>1. SUFFICES ASSUME ~apart' PROVE Tracked(g, toInj)
    <3>1. Tracked(gm, toInj)' <=> Tracked(g, toInj)
      BY <1>1 DEF Tracked
    <3> QED BY <3>1 DEF Knowing
  <2> QED BY <1>2, <2>1, KeptTracked
<1>8. Launching'
  BY <1>1 DEF IInv, Launching, Coming, Kept
<1> QED BY <1>3, <1>5, <1>6, <1>7, <1>8 DEF IInv

(* A command of one line.                                                  *)
LEMMA SendsKeeps ==
  ASSUME IInv, NEW g \in Rockets, Kept(gm, g), NEW line \in {"OTHER", "EXPLODE", "BAD"},
         Sends(g, line)
  PROVE  IInv'
<1> DEFINE lines == <<line>>
<1>1. /\ lines \in Seq(Lines) /\ lines # << >> /\ Head(lines) = line
      /\ \A i \in 2..Len(lines) : lines[i] # "RESET"
  BY DEF Lines
<1>2. Command("command", g, lines) /\ apart' = apart
  BY DEF Sends
<1>3. apart \in BOOLEAN /\ Head(lines) # "RESET"
  BY <1>1 DEF IInv, TypeOK
<1> HIDE DEF lines
<1> QED BY <1>1, <1>2, <1>3, CommandKeeps

LEMMA ResetLines ==
  LET lines == <<"RESET">> \o Telemetry
  IN  /\ lines \in Seq(Lines) /\ lines # << >> /\ Head(lines) = "RESET"
      /\ \A i \in 2..Len(lines) : lines[i] # "RESET"
<1> DEFINE first == <<"RESET">>
           lines == first \o Telemetry
           n == Len(Telemetry)
<1>1. first \in Seq(Lines) /\ Len(first) = 1 /\ first[1] = "RESET"
  BY DEF Lines
<1> HIDE DEF first
<1>2. /\ lines \in Seq(Lines) /\ Len(lines) = 1 + n
      /\ \A i \in 1..(1 + n) : lines[i] = IF i <= 1 THEN first[i] ELSE Telemetry[i - 1]
  <2>1. Telemetry \in Seq(Lines)
    BY TelemetryFacts
  <2>2. /\ lines \in Seq(Lines) /\ Len(lines) = Len(first) + n
        /\ \A i \in 1..(Len(first) + n) :
             lines[i] = IF i <= Len(first) THEN first[i] ELSE Telemetry[i - Len(first)]
    BY <1>1, <2>1, ConcatProperties
  <2> HIDE DEF lines, n
  <2> QED BY <1>1, <2>2
<1>3. n \in Nat /\ \A i \in 1..n : Telemetry[i] # "RESET"
  BY TelemetryFacts
<1> HIDE DEF lines, n
<1>4. 1 + n # 0 /\ 1 \in 1..(1 + n) /\ \A i \in 2..(1 + n) : i - 1 \in 1..n /\ ~(i <= 1)
  BY <1>3
<1>5. lines # << >>
  BY <1>2, <1>4, EmptySeq
<1>6. lines[1] = "RESET"
  BY <1>1, <1>2, <1>4
<1>7. Head(lines) = "RESET"
  BY <1>2, <1>5, <1>6
<1>8. \A i \in 2..(1 + n) : i \in 1..(1 + n)
  BY <1>3
<1>9. \A i \in 2..(1 + n) : lines[i] # "RESET"
  BY <1>2, <1>3, <1>4, <1>8
<1>10. /\ lines \in Seq(Lines) /\ lines # << >> /\ Head(lines) = "RESET"
       /\ \A i \in 2..Len(lines) : lines[i] # "RESET"
  BY <1>2, <1>5, <1>7, <1>9
<1> QED BY <1>10 DEF lines, first

LEMMA ResetAllKeeps ==
  ASSUME IInv, ResetAll
  PROVE  IInv'
<1>1. CASE fd = "down"
  <2>1. Locally(Grounded) /\ apart' = TRUE
    BY <1>1 DEF ResetAll
  <2> QED BY <2>1, GroundedFacts, LocallyKeeps
<1>2. CASE fd # "down"
  <2> DEFINE lines == <<"RESET">> \o Telemetry
  <2>1. Command("reset", Grounded, lines) /\ apart' = (apart \/ fd = "cut")
    BY <1>2 DEF ResetAll
  <2>2. /\ lines \in Seq(Lines) /\ lines # << >> /\ Head(lines) = "RESET"
        /\ \A i \in 2..Len(lines) : lines[i] # "RESET"
    BY ResetLines
  <2> HIDE DEF lines
  <2>3. apart' \in BOOLEAN /\ (~apart' => ~apart /\ fd = "up")
    BY <1>2, <2>1 DEF IInv, TypeOK
  <2> QED BY <2>1, <2>2, <2>3, GroundedFacts, CommandKeeps
<1> QED BY <1>1, <1>2

LEMMA ForceExplosionKeeps ==
  ASSUME IInv, ForceExplosion
  PROVE  IInv'
<1>1. gm \in Rockets /\ apart \in BOOLEAN
  BY DEF IInv, TypeOK, Rockets
<1>2. Destroyed(gm) \in Rockets /\ Kept(gm, Destroyed(gm))
  BY <1>1, DestroyedFacts, KeptFacts
<1>3. CASE fd = "down"
  <2>1. Locally(Destroyed(gm)) /\ apart' = apart
    BY <1>3 DEF ForceExplosion
  <2> QED BY <1>1, <1>2, <2>1, LocallyKeeps
<1>4. CASE fd # "down"
  <2>1. Sends(Destroyed(gm), "EXPLODE")
    BY <1>4 DEF ForceExplosion
  <2> QED BY <1>2, <2>1, SendsKeeps
<1> QED BY <1>3, <1>4

LEMMA ResolveKeeps ==
  ASSUME IInv, Resolve
  PROVE  IInv'
<1>1. CASE gm.exploded
  BY <1>1, ResetAllKeeps DEF Resolve
<1>2. CASE ~gm.exploded
  <2> DEFINE g == [gm EXCEPT !.stressed = FALSE]
             lines == <<"OTHER", "OTHER">>
  <2>1. Command("command", g, lines) /\ apart' = apart
    BY <1>2 DEF Resolve
  <2>2. gm \in Rockets /\ apart \in BOOLEAN
    BY DEF IInv, TypeOK, Rockets
  <2>3. Kept(gm, g)
    BY <2>2, KeptFacts
  <2>4. /\ lines \in Seq(Lines) /\ lines # << >> /\ Head(lines) # "RESET"
        /\ \A i \in 2..Len(lines) : lines[i] # "RESET"
    BY DEF Lines
  <2> HIDE DEF g, lines
  <2>5. g \in Rockets
    BY <2>3 DEF Kept
  <2> QED BY <2>1, <2>2, <2>3, <2>4, <2>5, CommandKeeps
<1> QED BY <1>1, <1>2

LEMMA SetAltitudeKeeps ==
  ASSUME IInv, apart' = TRUE, NEW a \in Altitudes,
         Command("command", [gm EXCEPT !.altitude = a], <<"ALTITUDE">>)
  PROVE  IInv'
<1> DEFINE g == [gm EXCEPT !.altitude = a]
           lines == <<"ALTITUDE">>
<1>1. g \in Rockets
  BY DEF IInv, TypeOK, Rockets
<1>2. /\ lines \in Seq(Lines) /\ lines # << >> /\ Head(lines) # "RESET"
      /\ \A i \in 2..Len(lines) : lines[i] # "RESET"
  BY DEF Lines
<1>3. Command("command", g, lines)
  OBVIOUS
<1> HIDE DEF g, lines
<1> QED BY <1>1, <1>2, <1>3, CommandKeeps

LEMMA OperatorKeeps ==
  ASSUME IInv, NEW c, Operator(c)
  PROVE  IInv'
<1>1. gm \in Rockets
  BY DEF IInv, TypeOK, Rockets
<1>2. \/ ForceExplosion
      \/ Sends(gm, "OTHER")
      \/ Sends([gm EXCEPT !.stressed = TRUE], "OTHER")
      \/ Resolve
      \/ ResetAll
      \/ Locally(OnEvent(gm, "LAUNCH")) /\ apart' = TRUE
      \/ apart' = TRUE /\ \E a \in Altitudes :
           Command("command", [gm EXCEPT !.altitude = a], <<"ALTITUDE">>)
      \/ \E f \in Fuels : Sends([gm EXCEPT !.fuel = f], "OTHER")
      \/ \E b \in BOOLEAN : Sends([gm EXCEPT !.stressed = b], "OTHER")
      \/ Sends(gm, "BAD")
  BY Zenon DEF Operator
<1>3. CASE ForceExplosion
  BY <1>3, ForceExplosionKeeps
<1>4. CASE Sends(gm, "OTHER") \/ Sends(gm, "BAD")
  BY <1>1, <1>4, KeptFacts, SendsKeeps
<1>5. CASE Resolve \/ ResetAll
  BY <1>5, ResolveKeeps, ResetAllKeeps
<1>6. CASE Locally(OnEvent(gm, "LAUNCH")) /\ apart' = TRUE
  <2>1. OnEvent(gm, "LAUNCH") \in Rockets
    BY <1>1, EventFacts DEF News, Orders
  <2> QED BY <1>6, <2>1, LocallyKeeps
<1>7. CASE apart' = TRUE /\ \E a \in Altitudes :
             Command("command", [gm EXCEPT !.altitude = a], <<"ALTITUDE">>)
  BY <1>7, SetAltitudeKeeps
<1>8. ASSUME NEW f \in Fuels, Sends([gm EXCEPT !.fuel = f], "OTHER") PROVE IInv'
  <2>1. Kept(gm, [gm EXCEPT !.fuel = f])
    BY <1>1, KeptFacts
  <2>2. [gm EXCEPT !.fuel = f] \in Rockets
    BY <2>1 DEF Kept
  <2> QED BY <1>8, <2>1, <2>2, SendsKeeps
<1>9. ASSUME NEW b \in BOOLEAN, Sends([gm EXCEPT !.stressed = b], "OTHER") PROVE IInv'
  <2>1. Kept(gm, [gm EXCEPT !.stressed = b])
    BY <1>1, KeptFacts
  <2>2. [gm EXCEPT !.stressed = b] \in Rockets
    BY <2>1 DEF Kept
  <2> QED BY <1>9, <2>1, <2>2, SendsKeeps
<1> QED BY <1>2, <1>3, <1>4, <1>5, <1>6, <1>7, <1>8, <1>9, Zenon

LEMMA RestartKeeps ==
  ASSUME IInv, Restart
  PROVE  IInv'
<1>1. /\ fd' = "down" /\ pc' = "step" /\ gm' = Grounded /\ moved' = FALSE
      /\ toSat' = << >> /\ toInj' = << >> /\ apart' = TRUE
      /\ task' = "telemetry" /\ todo' = << >> /\ attempts' = 0 /\ err' = FALSE
      /\ phase' = phase /\ open' = open /\ received' = received
  BY DEF Restart, Idle, satellite
<1>2. TypeOK'
  <2>1. attempts' \in 0..(Attempts - 1)
    BY <1>1, InjectorAssumption DEF InjectorAssumption
  <2>2. todo' \in Seq(Lines) /\ toSat' \in Seq(Written) /\ toInj' \in Seq(Orders \cup Replies)
    BY <1>1, EmptySeq
  <2>3. gm' \in Rockets
    BY <1>1, GroundedFacts
  <2> QED BY <1>1, <2>1, <2>2, <2>3 DEF IInv, TypeOK, Rockets, Written
<1>3. ~ResetPending' /\ Answers(toInj') = {}
  BY <1>1, NoLines DEF ResetPending
<1>4. Connected' /\ Authenticating' /\ Working' /\ Between' /\ Resetting'
  BY <1>1, <1>3 DEF Connected, Authenticating, Working, Between, Resetting
<1>5. InOrbit' /\ Current' /\ AtRest' /\ Knowing' /\ Launching'
  BY <1>1 DEF IInv, InOrbit, Current, AtRest, Knowing, Launching
<1> QED BY <1>2, <1>4, <1>5 DEF IInv
-----------------------------------------------------------------------------
(* The satellite answers the line that waits.                              *)

LEMMA ReplyKeeps ==
  ASSUME IInv, toSat # << >>, NEW o \in Seq(News), Alone(o), SatReply(o),
         Head(toSat).line = "AUTH" => Leading(o) /\ o # << >> /\ o[1] \in Replies,
         phase' \in {"READY", "FLYING", "EMERGENCY", "EXPLODED"},
         open' \subseteq {2}, received' \in Altitudes, apart' \in BOOLEAN
  PROVE  /\ TypeOK' /\ Connected' /\ Authenticating' /\ Working' /\ Between' /\ Resetting'
         /\ ~ResetPending'
         /\ ResetPending => Head(toSat).line = "RESET"
         /\ Head(toSat).line = toSat[1].line /\ Head(toSat).altitude = toSat[1].altitude
         /\ 1 \in DOMAIN toSat
         /\ \A i \in DOMAIN toSat' : i + 1 \in DOMAIN toSat /\ toSat'[i] = toSat[i + 1]
         /\ Joined(toInj, o, toInj')
         /\ gm' = gm /\ gm \in Rockets /\ moved' = moved /\ pc' = pc /\ task' = task
         /\ err' = err
<1>1. /\ toSat' = Tail(toSat) /\ toInj' = toInj \o o
      /\ pc' = pc /\ fd' = fd /\ gm' = gm /\ moved' = moved /\ task' = task
      /\ todo' = todo /\ attempts' = attempts /\ err' = err
  BY DEF SatReply, Local, sender
<1>2. toSat \in Seq(Written) /\ toInj \in Seq(News) /\ gm \in Rockets
  BY DEF IInv, TypeOK, Written, News, Rockets
<1>3. /\ Tail(toSat) \in Seq(Written) /\ Len(Tail(toSat)) = Len(toSat) - 1
      /\ \A i \in 1..Len(Tail(toSat)) : Tail(toSat)[i] = toSat[i + 1]
      /\ Len(toSat) \in Nat \ {0} /\ Head(toSat) = toSat[1]
      /\ DOMAIN toSat = 1..Len(toSat)
  BY <1>2, HeadTailProperties, EmptySeq, LenProperties
<1>4. DOMAIN toSat' = 1..(Len(toSat) - 1)
  BY <1>1, <1>3, LenProperties
<1>5. \A i \in 1..(Len(toSat) - 1) : i + 1 \in 1..Len(toSat)
  BY <1>3
<1>6. \A i \in DOMAIN toSat' : i + 1 \in DOMAIN toSat /\ toSat'[i] = toSat[i + 1]
  BY <1>1, <1>3, <1>4, <1>5
<1>7. Len(toSat) = 1 => toSat' = << >>
  <2>1. Len(toSat) = 1 => Len(Tail(toSat)) = 0
    BY <1>3
  <2>2. Tail(toSat) # << >> => Len(Tail(toSat)) # 0
    BY <1>3, EmptySeq
  <2> QED BY <1>1, <2>1, <2>2
<1>8. Joined(toInj, o, toInj')
  BY <1>1, <1>2, JoinedBy
<1>9. /\ toInj' \in Seq(News)
      /\ Answers(toInj) = {} => Alone(toInj')
      /\ toInj = << >> => toInj' = o
  BY <1>8, JoinedFacts
<1>10. ResetPending => Len(toSat) = 1 /\ Head(toSat).line = "RESET"
  <2>1. SUFFICES ASSUME ResetPending
                 PROVE  Len(toSat) = 1 /\ Head(toSat).line = "RESET"
    OBVIOUS
  <2>2. Len(toSat) = 1
    BY <2>1 DEF IInv, Resetting
  <2>3. PICK i \in 1..Len(toSat) : toSat[i].line = "RESET"
    BY <1>3, <2>1 DEF ResetPending
  <2>4. i = 1
    BY <2>2
  <2> QED BY <1>3, <2>2, <2>3, <2>4
<1>11. ~ResetPending'
  <2>1. SUFFICES ASSUME NEW i \in DOMAIN toSat', toSat'[i].line = "RESET" PROVE FALSE
    BY DEF ResetPending
  <2>2. ResetPending
    BY <1>6, <2>1 DEF ResetPending
  <2>3. toSat' = << >>
    BY <1>7, <1>10, <2>2
  <2> QED BY <2>1, <2>3
<1>12. TypeOK'
  BY <1>1, <1>3, <1>9 DEF IInv, TypeOK, Written, News
<1>13. fd = "up"
  BY DEF IInv, Connected
<1>14. Connected'
  BY <1>1, <1>13 DEF IInv, Connected
<1>15. Authenticating'
  <2>1. SUFFICES ASSUME pc = "auth"
                 PROVE  /\ toInj' # << >> /\ Leading(toInj') /\ toSat' = << >>
                        /\ toInj'[1] \in Replies
    BY <1>1 DEF Authenticating
  <2>2. Len(toSat) = 1 /\ toSat[1].line = "AUTH" /\ toInj = << >>
    BY <2>1 DEF IInv, Authenticating
  <2> QED BY <1>3, <1>7, <1>9, <2>2
<1>16. Working'
  <2>1. SUFFICES ASSUME pc = "await"
                 PROVE  /\ todo # << >> /\ (~err => Single')
                        /\ Head(todo) = "RESET" => ~err
                        /\ \A i \in 2..Len(todo) : todo[i] # "RESET"
    BY <1>1 DEF Working
  <2>2. /\ todo # << >> /\ (~err => Single)
        /\ Head(todo) = "RESET" => ~err
        /\ \A i \in 2..Len(todo) : todo[i] # "RESET"
    BY <2>1 DEF IInv, Working
  <2>3. ASSUME ~err PROVE Single'
    <3>1. Len(toSat) <= 1 /\ Answers(toInj) = {}
      BY <2>2, <2>3 DEF Single
    <3>2. Len(toSat) = 1
      <4> DEFINE n == Len(toSat)
      <4>1. n \in Nat /\ n # 0 /\ n <= 1
        BY <1>3, <3>1
      <4> HIDE DEF n
      <4>2. n = 1
        BY <4>1
      <4> QED BY <4>2 DEF n
    <3>3. toSat' = << >> /\ Alone(toInj')
      BY <1>7, <1>9, <3>1, <3>2
    <3> QED BY <3>3, EmptySeq DEF Single
  <2> QED BY <2>2, <2>3
<1>17. Between'
  BY <1>1 DEF IInv, Between
<1>18. Resetting'
  BY <1>11 DEF Resetting
<1>19. 1 \in DOMAIN toSat
  BY <1>3
<1> QED BY <1>1, <1>2, <1>3, <1>6, <1>8, <1>10, <1>11, <1>12, <1>14, <1>15, <1>16, <1>17,
           <1>18, <1>19

LEMMA SatObservesKeeps ==
  ASSUME IInv, SatObserves
  PROVE  IInv'
<1> DEFINE o == <<"OK">>
<1>1. o \in Seq(News) /\ Alone(o) /\ \A f : Contains(o, f) <=> f = "OK"
  BY OneLine DEF News, Replies
<1> HIDE DEF o
<1>2. /\ toSat # << >> /\ Head(toSat).line \in {"ALTITUDE", "OTHER"} /\ SatReply(o)
      /\ received' = IF Head(toSat).line = "ALTITUDE" THEN Head(toSat).altitude ELSE received
      /\ phase' = "READY" => received' = "ground"
      /\ apart' = apart
  BY DEF SatObserves, o
<1>3. /\ IF phase \in {"READY", "FLYING"} THEN phase' \in {"READY", "FLYING"}
                                         ELSE phase' = phase
      /\ open' \subseteq {2}
  BY DEF SatObserves, Sat!Observe, IInv, TypeOK
<1>4. /\ Head(toSat).line \notin {"AUTH", "RESET"}
      /\ phase' \in {"READY", "FLYING", "EMERGENCY", "EXPLODED"} /\ apart' \in BOOLEAN
  BY <1>2, <1>3 DEF IInv, TypeOK
<1>5. received' \in Altitudes
  <2>1. Head(toSat) \in Written
    BY <1>2, HeadTailProperties DEF IInv, TypeOK, Written
  <2> QED BY <1>2, <2>1 DEF IInv, TypeOK, Written
<1>6. /\ TypeOK' /\ Connected' /\ Authenticating' /\ Working' /\ Between' /\ Resetting'
      /\ ~ResetPending'
      /\ ResetPending => Head(toSat).line = "RESET"
      /\ Head(toSat).altitude = toSat[1].altitude
      /\ 1 \in DOMAIN toSat
      /\ \A i \in DOMAIN toSat' : i + 1 \in DOMAIN toSat /\ toSat'[i] = toSat[i + 1]
      /\ Joined(toInj, o, toInj')
      /\ gm' = gm /\ gm \in Rockets /\ moved' = moved /\ pc' = pc /\ task' = task
      /\ err' = err
  BY <1>1, <1>2, <1>3, <1>4, <1>5, ReplyKeeps
<1>7. /\ \A e \in {"LAUNCH", "LAND"} : Contains(toInj', e) <=> Contains(toInj, e)
      /\ Dooming(toInj) => Dooming(toInj')
      /\ LaunchFirst(toInj) => LaunchFirst(toInj')
  BY <1>1, <1>6, JoinedFacts
<1>8. InOrbit' /\ Current'
  BY <1>2, <1>6 DEF IInv, InOrbit, Current
<1>9. AtRest'
  BY <1>2 DEF AtRest
<1>10. ~apart /\ received' = "orbit" => received = "orbit" \/ gm.altitude = "orbit"
  BY <1>2, <1>6 DEF IInv, Current
<1>11. Knowing'
  <2>1. SUFFICES ASSUME ~apart PROVE Tracked(gm, toInj)'
    BY <1>2 DEF Knowing
  <2>2. Tracked(gm, toInj)
    BY <1>4, <1>6, <2>1 DEF IInv, Knowing
  <2>3. received' = "orbit" => Landable(gm)
    BY <1>10, <2>1, <2>2 DEF IInv, InOrbit, Tracked
  <2>4. /\ phase' = "EMERGENCY" => phase = "EMERGENCY"
        /\ phase' = "EXPLODED" => phase = "EXPLODED"
    BY <1>3
  <2> QED BY <1>6, <1>7, <2>2, <2>3, <2>4 DEF Tracked
<1>12. Launching'
  <2>1. SUFFICES ASSUME ~apart, Contains(toInj, "LAUNCH")
                 PROVE  /\ gm.altitude # "orbit" /\ received' # "orbit" /\ phase' # "EMERGENCY"
                        /\ gm.altitude = "below" => moved \/ (pc = "await" /\ task = "telemetry")
                        /\ pc = "await" /\ gm.altitude # "ground" /\ ~err => LaunchFirst(toInj')
    BY <1>2, <1>6, <1>7 DEF Launching, Coming
  <2>2. /\ gm.altitude # "orbit" /\ received # "orbit" /\ phase # "EMERGENCY"
        /\ gm.altitude = "below" => moved \/ (pc = "await" /\ task = "telemetry")
        /\ pc = "await" /\ gm.altitude # "ground" /\ ~err => LaunchFirst(toInj)
    BY <2>1 DEF IInv, Launching, Coming
  <2>3. phase' # "EMERGENCY"
    BY <1>3, <2>2
  <2> QED BY <1>7, <1>10, <2>1, <2>2, <2>3
<1> QED BY <1>6, <1>8, <1>9, <1>11, <1>12 DEF IInv

LEMMA SatResetsKeeps ==
  ASSUME IInv, SatResets
  PROVE  IInv'
<1> DEFINE o == <<"OK">>
<1>1. o \in Seq(News) /\ Alone(o)
  BY OneLine DEF News, Replies
<1> HIDE DEF o
<1>2. /\ toSat # << >> /\ Head(toSat).line = "RESET" /\ SatReply(o)
      /\ phase' = "READY" /\ open' = {} /\ received' = "ground" /\ apart' = FALSE
  BY DEF SatResets, Sat!Reset, o
<1>3. received' \in Altitudes
  BY <1>2 DEF Altitudes
<1>4. /\ TypeOK' /\ Connected' /\ Authenticating' /\ Working' /\ Between' /\ Resetting'
      /\ Head(toSat).line = toSat[1].line
      /\ 1 \in DOMAIN toSat
      /\ \A i \in DOMAIN toSat' : i + 1 \in DOMAIN toSat /\ toSat'[i] = toSat[i + 1]
      /\ gm' = gm
  BY <1>1, <1>2, <1>3, ReplyKeeps
<1>5. ResetPending
  BY <1>2, <1>4 DEF ResetPending
<1>6. gm.altitude = "ground" /\ Len(toSat) = 1
  BY <1>5 DEF IInv, Resetting
<1>7. toSat' = << >>
  <2>1. toSat \in Seq(Written)
    BY DEF IInv, TypeOK, Written
  <2>2. /\ toSat' = Tail(toSat) /\ Tail(toSat) \in Seq(Written)
        /\ Len(Tail(toSat)) = Len(toSat) - 1
    BY <1>2, <2>1, HeadTailProperties DEF SatReply
  <2>3. Len(Tail(toSat)) = 0
    BY <1>6, <2>2
  <2> QED BY <2>2, <2>3, EmptySeq
<1>8. InOrbit' /\ Current' /\ AtRest'
  BY <1>2, <1>4, <1>6, <1>7 DEF InOrbit, Current, AtRest
<1>9. Knowing' /\ Launching'
  BY <1>2, <1>4, <1>6 DEF Knowing, Tracked, Launching
<1> QED BY <1>4, <1>8, <1>9 DEF IInv

LEMMA SatForcedKeeps ==
  ASSUME IInv, SatForced
  PROVE  IInv'
<1> DEFINE o == <<"EXPLODE", "OK">>
<1>1. o \in Seq(News) /\ Alone(o) /\ ~Contains(o, "LAUNCH") /\ Dooming(o)
  BY ExplosionLines
<1> HIDE DEF o
<1>2. /\ toSat # << >> /\ Head(toSat).line = "EXPLODE" /\ SatReply(o)
      /\ phase' = "EXPLODED" /\ open' = open /\ received' = received /\ apart' = apart
  BY DEF SatForced, Sat!Explode, o
<1>3. /\ TypeOK' /\ Connected' /\ Authenticating' /\ Working' /\ Between' /\ Resetting'
      /\ ResetPending => Head(toSat).line = "RESET"
      /\ \A i \in DOMAIN toSat' : i + 1 \in DOMAIN toSat /\ toSat'[i] = toSat[i + 1]
      /\ Joined(toInj, o, toInj')
      /\ gm' = gm /\ gm \in Rockets /\ moved' = moved /\ pc' = pc /\ task' = task
      /\ err' = err
  <2>1. open' \subseteq {2} /\ received' \in Altitudes /\ apart' \in BOOLEAN
    BY <1>2 DEF IInv, TypeOK
  <2> QED BY <1>1, <1>2, <2>1, ReplyKeeps
<1>4. /\ Contains(toInj', "LAUNCH") <=> Contains(toInj, "LAUNCH")
      /\ Dooming(toInj')
      /\ LaunchFirst(toInj) => LaunchFirst(toInj')
  BY <1>1, <1>3, JoinedFacts
<1>5. InOrbit' /\ Current' /\ AtRest'
  BY <1>2, <1>3 DEF IInv, InOrbit, Current, AtRest
<1>6. Knowing'
  BY <1>2, <1>3, <1>4 DEF IInv, Knowing, Tracked
<1>7. Launching'
  BY <1>2, <1>3, <1>4 DEF IInv, Launching, Coming
<1> QED BY <1>3, <1>5, <1>6, <1>7 DEF IInv

LEMMA SatAnswersKeeps ==
  ASSUME IInv, SatAnswers
  PROVE  IInv'
<1>1. PICK e \in {"AUTH_OK", "FAIL"} :
        /\ toSat # << >> /\ SatReply(<<e>>)
        /\ Head(toSat).line = (IF e = "AUTH_OK" THEN "AUTH" ELSE "BAD")
  <2>1. \/ Head(toSat).line = "AUTH" /\ SatReply(<<"AUTH_OK">>)
        \/ Head(toSat).line = "BAD" /\ SatReply(<<"FAIL">>)
    BY DEF SatAnswers
  <2>2. toSat # << >>
    BY DEF SatAnswers
  <2> QED BY <2>1, <2>2
<1>2. phase' = phase /\ open' = open /\ received' = received /\ apart' = apart
  BY DEF SatAnswers, satellite
<1> DEFINE o == <<e>>
<1>3. /\ o \in Seq(News) /\ Alone(o) /\ Leading(o) /\ o # << >> /\ o[1] \in Replies
      /\ \A f : Contains(o, f) <=> f = e
  BY OneLine DEF News, Replies
<1> HIDE DEF o
<1>4. /\ TypeOK' /\ Connected' /\ Authenticating' /\ Working' /\ Between' /\ Resetting'
      /\ ~ResetPending'
      /\ ResetPending => Head(toSat).line = "RESET"
      /\ \A i \in DOMAIN toSat' : i + 1 \in DOMAIN toSat /\ toSat'[i] = toSat[i + 1]
      /\ Joined(toInj, o, toInj')
      /\ gm' = gm /\ gm \in Rockets /\ moved' = moved /\ pc' = pc /\ task' = task
      /\ err' = err
  <2>1. SatReply(o)
    BY <1>1 DEF o
  <2>2. /\ phase' \in {"READY", "FLYING", "EMERGENCY", "EXPLODED"}
        /\ open' \subseteq {2} /\ received' \in Altitudes /\ apart' \in BOOLEAN
    BY <1>2 DEF IInv, TypeOK
  <2> QED BY <1>1, <1>3, <2>1, <2>2, ReplyKeeps
<1>5. /\ \A f \in {"LAUNCH", "LAND"} : Contains(toInj', f) <=> Contains(toInj, f)
      /\ Dooming(toInj) => Dooming(toInj')
      /\ LaunchFirst(toInj) => LaunchFirst(toInj')
  BY <1>3, <1>4, JoinedFacts
<1>6. ~ResetPending
  BY <1>1, <1>4
<1>7. InOrbit' /\ Current' /\ AtRest'
  BY <1>2, <1>4 DEF IInv, InOrbit, Current, AtRest
<1>8. Knowing'
  BY <1>2, <1>4, <1>5, <1>6 DEF IInv, Knowing, Tracked
<1>9. Launching'
  BY <1>2, <1>4, <1>5 DEF IInv, Launching, Coming
<1> QED BY <1>4, <1>7, <1>8, <1>9 DEF IInv
-----------------------------------------------------------------------------
(* The satellite gives an order.                                           *)

(* The order e, which nobody keeps for an injector that is away.           *)
Told(e) == toInj' = toInj \/ (Listening /\ toInj' = toInj \o <<e>>)

LEMMA TellTold ==
  ASSUME NEW e, Tell(<<e>>)
  PROVE  /\ Told(e) /\ (~apart' => ~apart /\ toInj' = toInj \o <<e>>)
         /\ apart \in BOOLEAN => apart' \in BOOLEAN
<1>1. <<e>> # << >>
  OBVIOUS
<1>2. CASE Listening
  BY <1>2 DEF Tell, Told
<1>3. CASE ~Listening
  <2>1. toInj' = toInj /\ apart' = (apart \/ <<e>> # << >>)
    BY <1>3 DEF Tell
  <2> QED BY <1>1, <2>1 DEF Told
<1> QED BY <1>2, <1>3

LEMMA OrderKeeps ==
  ASSUME IInv, NEW e \in Orders, Told(e), UNCHANGED <<Local, toSat>>,
         phase' \in {"READY", "FLYING", "EMERGENCY", "EXPLODED"},
         open' \subseteq {2}, received' = received, apart' \in BOOLEAN,
         apart => apart'
  PROVE  /\ TypeOK' /\ Connected' /\ Authenticating' /\ Working' /\ Between' /\ Resetting'
         /\ InOrbit' /\ Current'
         /\ ResetPending' <=> ResetPending
         /\ gm' = gm /\ gm \in Rockets /\ moved' = moved /\ pc' = pc /\ task' = task
         /\ err' = err
         /\ toInj' = toInj \o <<e>> => Joined(toInj, <<e>>, toInj')
         /\ Contains(toInj', "LAUNCH") => Contains(toInj, "LAUNCH") \/ e = "LAUNCH"
         /\ e # "LAUNCH" /\ LaunchFirst(toInj) => LaunchFirst(toInj')
<1>1. /\ toSat' = toSat /\ pc' = pc /\ fd' = fd /\ gm' = gm /\ moved' = moved
      /\ task' = task /\ todo' = todo /\ attempts' = attempts /\ err' = err
  BY DEF Local, sender
<1>2. toSat \in Seq(Written) /\ toInj \in Seq(News) /\ gm \in Rockets
  BY DEF IInv, TypeOK, Written, News, Rockets
<1> DEFINE o == <<e>>
<1>3. /\ o \in Seq(News) /\ Answers(o) = {} /\ \A f : Contains(o, f) <=> f = e
  BY OneLine DEF News
<1>4. toInj' = toInj \o o => Joined(toInj, o, toInj')
  BY <1>2, <1>3, JoinedBy
<1>5. toInj' = toInj \/ (Listening /\ Joined(toInj, o, toInj'))
  BY <1>4 DEF Told
<1> HIDE DEF o
<1>6. /\ toInj' \in Seq(News)
      /\ Answers(toInj') = Answers(toInj)
      /\ toInj # << >> => toInj' # << >> /\ toInj'[1] = toInj[1]
      /\ Contains(toInj', "LAUNCH") => Contains(toInj, "LAUNCH") \/ e = "LAUNCH"
      /\ e # "LAUNCH" /\ LaunchFirst(toInj) => LaunchFirst(toInj')
  <2>1. CASE toInj' = toInj
    BY <1>2, <2>1
  <2>2. CASE Joined(toInj, o, toInj')
    BY <1>3, <2>2, JoinedFacts
  <2> QED BY <1>5, <2>1, <2>2
<1>7. TypeOK'
  BY <1>1, <1>6 DEF IInv, TypeOK, News
<1>8. toInj' = toInj \/ fd = "up"
  BY <1>5 DEF Listening
<1>9. Connected'
  BY <1>1, <1>8 DEF IInv, Connected
<1>10. Alone(toInj) => Alone(toInj')
  BY <1>6 DEF Alone
<1>11. Leading(toInj) => Leading(toInj')
  BY <1>6 DEF Leading
<1>12. Authenticating'
  <2>1. CASE toInj' = toInj
    BY <1>1, <2>1 DEF IInv, Authenticating
  <2>2. CASE Listening
    <3>1. SUFFICES ASSUME pc = "auth" PROVE Authenticating'
      BY <1>1 DEF Authenticating
    <3>2. toSat = << >>
      <4>1. toSat # << >> => Len(toSat) = 1 /\ toSat[1].line = "AUTH"
        BY <3>1 DEF IInv, Authenticating
      <4>2. Len(toSat) = 1 => 1 \in DOMAIN toSat
        BY <1>2, LenProperties
      <4> QED BY <2>2, <4>1, <4>2 DEF Listening
    <3>3. toInj # << >> /\ Leading(toInj) /\ toInj[1] \in Replies
      BY <2>2, <3>1, <3>2 DEF IInv, Authenticating, Listening
    <3> QED BY <1>1, <1>6, <1>11, <3>2, <3>3 DEF Authenticating
  <2> QED BY <1>5, <2>1, <2>2
<1>13. Working' /\ Between'
  BY <1>1, <1>6, <1>10 DEF IInv, Working, Single, Between
<1>14. ResetPending' <=> ResetPending
  BY <1>1 DEF ResetPending
<1>15. Resetting'
  BY <1>1, <1>14 DEF IInv, Resetting
<1>16. InOrbit' /\ Current'
  BY <1>1 DEF IInv, InOrbit, Current
<1>17. toInj' = toInj \o <<e>> => Joined(toInj, <<e>>, toInj')
  BY <1>4 DEF o
<1> QED BY <1>1, <1>2, <1>6, <1>7, <1>9, <1>12, <1>13, <1>14, <1>15, <1>16, <1>17

(* A rocket that is on the ground when the order to launch is given.       *)
LEMMA SatLaunchesKeeps ==
  ASSUME IInv, SatLaunches
  PROVE  IInv'
<1>1. /\ UNCHANGED <<Local, toSat>> /\ received' = received
      /\ phase = "READY" /\ phase' = "FLYING" /\ open' = {}
  BY DEF SatLaunches, Room, Sat!Launch
<1>2. Told("LAUNCH") /\ apart' \in BOOLEAN /\ (~apart' => ~apart /\ gm.altitude = "ground")
  <2>1. CASE gm.altitude # "ground"
    <3>1. apart' = TRUE /\ toInj' = toInj \o (IF Listening THEN <<"LAUNCH">> ELSE << >>)
      BY <2>1 DEF SatLaunches
    <3>2. toInj \o << >> = toInj
      BY ConcatEmptySeq DEF IInv, TypeOK
    <3> QED BY <3>1, <3>2 DEF Told
  <2>2. CASE gm.altitude = "ground"
    BY <2>2, TellTold DEF SatLaunches, IInv, TypeOK
  <2> QED BY <2>1, <2>2
<1>3. "LAUNCH" \in Orders
  BY DEF Orders
<1>4. /\ TypeOK' /\ Connected' /\ Authenticating' /\ Working' /\ Between' /\ Resetting'
      /\ InOrbit' /\ Current' /\ gm' = gm
  BY <1>1, <1>2, <1>3, OrderKeeps
<1>5. received = "ground"
  BY <1>1 DEF IInv, AtRest
<1>6. AtRest' /\ Knowing'
  BY <1>1, <1>5 DEF AtRest, Knowing, Tracked
<1>7. Launching'
  BY <1>1, <1>2, <1>4, <1>5 DEF Launching
<1> QED BY <1>4, <1>6, <1>7 DEF IInv

LEMMA SatLandsKeeps ==
  ASSUME IInv, SatLands
  PROVE  IInv'
<1>1. /\ UNCHANGED <<Local, toSat>> /\ received' = received /\ received = "orbit"
      /\ phase' = "EMERGENCY" /\ open' = open /\ Tell(<<"LAND">>)
  BY DEF SatLands, Room, Sat!Land
<1>2. /\ Told("LAND") /\ apart' \in BOOLEAN
      /\ ~apart' => ~apart /\ toInj' = toInj \o <<"LAND">>
  BY <1>1, TellTold DEF IInv, TypeOK
<1>3. "LAND" \in Orders /\ "LAND" # "LAUNCH" /\ "LAND" \in News
  BY DEF Orders, News
<1>4. /\ TypeOK' /\ Connected' /\ Authenticating' /\ Working' /\ Between' /\ Resetting'
      /\ InOrbit' /\ Current' /\ gm' = gm
      /\ ResetPending' <=> ResetPending
      /\ toInj' = toInj \o <<"LAND">> => Joined(toInj, <<"LAND">>, toInj')
      /\ Contains(toInj', "LAUNCH") => Contains(toInj, "LAUNCH")
  <2>1. open' \subseteq {2}
    BY <1>1 DEF IInv, TypeOK
  <2> QED BY <1>1, <1>2, <1>3, <2>1, OrderKeeps
<1>5. ~apart' => Contains(toInj', "LAND")
  <2>1. <<"LAND">> \in Seq(News) /\ Contains(<<"LAND">>, "LAND")
    BY <1>3, OneLine
  <2> QED BY <1>2, <1>4, <2>1, JoinedFacts
<1>6. AtRest'
  BY <1>1 DEF AtRest
<1>7. Knowing'
  <2>1. SUFFICES ASSUME ~apart', ~ResetPending' PROVE Tracked(gm, toInj)'
    BY DEF Knowing
  <2>2. Landable(gm)
    BY <1>1, <1>2, <1>4, <2>1 DEF IInv, Knowing, Tracked
  <2> QED BY <1>1, <1>4, <1>5, <2>1, <2>2 DEF Tracked
<1>8. Launching'
  <2>1. ~apart' => ~Contains(toInj', "LAUNCH")
    BY <1>1, <1>2, <1>4 DEF IInv, Launching, Coming
  <2> QED BY <2>1 DEF Launching, Coming
<1> QED BY <1>4, <1>6, <1>7, <1>8 DEF IInv

LEMMA SatExplodesKeeps ==
  ASSUME IInv, SatExplodes
  PROVE  IInv'
<1>1. /\ UNCHANGED <<Local, toSat>> /\ received' = received
      /\ phase' = "EXPLODED" /\ open' = open /\ Tell(<<"EXPLODE">>)
  BY DEF SatExplodes, Room, Sat!Explode
<1>2. /\ Told("EXPLODE") /\ apart' \in BOOLEAN
      /\ ~apart' => ~apart /\ toInj' = toInj \o <<"EXPLODE">>
  BY <1>1, TellTold DEF IInv, TypeOK
<1>3. "EXPLODE" \in Orders /\ "EXPLODE" # "LAUNCH" /\ "EXPLODE" \in News
  BY DEF Orders, News
<1>4. /\ TypeOK' /\ Connected' /\ Authenticating' /\ Working' /\ Between' /\ Resetting'
      /\ InOrbit' /\ Current' /\ gm' = gm /\ moved' = moved /\ pc' = pc /\ task' = task
      /\ err' = err
      /\ ResetPending' <=> ResetPending
      /\ toInj' = toInj \o <<"EXPLODE">> => Joined(toInj, <<"EXPLODE">>, toInj')
      /\ Contains(toInj', "LAUNCH") => Contains(toInj, "LAUNCH")
      /\ LaunchFirst(toInj) => LaunchFirst(toInj')
  <2>1. open' \subseteq {2}
    BY <1>1 DEF IInv, TypeOK
  <2> QED BY <1>1, <1>2, <1>3, <2>1, OrderKeeps
<1>5. ~apart' => Dooming(toInj')
  <2>1. <<"EXPLODE">> \in Seq(News) /\ Dooming(<<"EXPLODE">>)
    BY <1>3, OneLine
  <2> QED BY <1>2, <1>4, <2>1, JoinedFacts
<1>6. AtRest'
  BY <1>1 DEF AtRest
<1>7. Knowing'
  BY <1>1, <1>2, <1>4, <1>5 DEF IInv, Knowing, Tracked
<1>8. Launching'
  BY <1>1, <1>2, <1>4 DEF IInv, Launching, Coming
<1> QED BY <1>4, <1>6, <1>7, <1>8 DEF IInv

LEMMA SatFixesKeeps ==
  ASSUME IInv, SatFixes
  PROVE  IInv'
<1>1. /\ UNCHANGED <<Local, toSat>> /\ received' = received
      /\ phase' = phase /\ open' \subseteq open /\ Tell(<<"FIX_STRESS">>)
  BY DEF SatFixes, Room, Sat!Repair
<1>2. /\ Told("FIX_STRESS") /\ apart' \in BOOLEAN
      /\ ~apart' => ~apart /\ toInj' = toInj \o <<"FIX_STRESS">>
  BY <1>1, TellTold DEF IInv, TypeOK
<1>3. "FIX_STRESS" \in Orders /\ "FIX_STRESS" # "LAUNCH" /\ "FIX_STRESS" \in News
  BY DEF Orders, News
<1>4. /\ TypeOK' /\ Connected' /\ Authenticating' /\ Working' /\ Between' /\ Resetting'
      /\ InOrbit' /\ Current' /\ gm' = gm /\ moved' = moved /\ pc' = pc /\ task' = task
      /\ err' = err
      /\ ResetPending' <=> ResetPending
      /\ toInj' = toInj \o <<"FIX_STRESS">> => Joined(toInj, <<"FIX_STRESS">>, toInj')
      /\ Contains(toInj', "LAUNCH") => Contains(toInj, "LAUNCH")
      /\ LaunchFirst(toInj) => LaunchFirst(toInj')
  <2>1. /\ open' \subseteq {2}
        /\ phase' \in {"READY", "FLYING", "EMERGENCY", "EXPLODED"}
    BY <1>1 DEF IInv, TypeOK
  <2> QED BY <1>1, <1>2, <1>3, <2>1, OrderKeeps
<1>5. ~apart' => /\ Dooming(toInj) => Dooming(toInj')
                 /\ Contains(toInj, "LAND") => Contains(toInj', "LAND")
  <2>1. <<"FIX_STRESS">> \in Seq(News) /\ ~Contains(<<"FIX_STRESS">>, "LAUNCH")
    BY <1>3, OneLine
  <2> QED BY <1>2, <1>4, <2>1, JoinedFacts
<1>6. AtRest'
  BY <1>1 DEF IInv, AtRest
<1>7. Knowing'
  <2>1. SUFFICES ASSUME ~apart', ~ResetPending' PROVE Tracked(gm, toInj)'
    BY DEF Knowing
  <2>2. Tracked(gm, toInj)
    BY <1>2, <1>4, <2>1 DEF IInv, Knowing
  <2> QED BY <1>1, <1>4, <1>5, <2>1, <2>2 DEF Tracked
<1>8. Launching'
  BY <1>1, <1>2, <1>4 DEF IInv, Launching, Coming
<1> QED BY <1>4, <1>6, <1>7, <1>8 DEF IInv

LEMMA SatTouchdownKeeps ==
  ASSUME IInv, SatTouchdown
  PROVE  IInv'
<1>1. /\ pc' = pc /\ fd' = fd /\ gm' = gm /\ moved' = moved
      /\ task' = task /\ todo' = todo /\ attempts' = attempts /\ err' = err
      /\ toSat' = toSat /\ toInj' = toInj /\ received' = received /\ apart' = apart
      /\ received = "ground" /\ phase' = "READY" /\ open' = open
  BY DEF SatTouchdown, Local, sender, wires, Sat!Touchdown
<1>2. TypeOK'
  BY <1>1 DEF IInv, TypeOK
<1>3. Connected' /\ Authenticating' /\ Working' /\ Between'
  BY <1>1 DEF IInv, Connected, Authenticating, Working, Single, Between
<1>4. ResetPending' <=> ResetPending
  BY <1>1 DEF ResetPending
<1>5. Resetting' /\ InOrbit' /\ Current' /\ AtRest'
  BY <1>1, <1>4 DEF IInv, Resetting, InOrbit, Current, AtRest
<1>6. Knowing'
  BY <1>1, <1>4 DEF Knowing, Tracked
<1>7. Launching'
  BY <1>1 DEF IInv, Launching, Coming
<1> QED BY <1>2, <1>3, <1>5, <1>6, <1>7 DEF IInv

-----------------------------------------------------------------------------
(* The connection breaks.                                                  *)

LEMMA CutKeeps ==
  ASSUME IInv, Cut
  PROVE  IInv'
<1>1. PICK k \in 0..Len(toInj) :
        /\ toInj' = SubSeq(toInj, 1, k)
        /\ \/ /\ apart' = (apart \/ ResetPending \/ Lost(SubSeq(toInj, k + 1, Len(toInj))))
              /\ UNCHANGED satellite
           \/ apart' = TRUE /\ phase' = "READY" /\ open' = {} /\ received' = "ground"
  BY DEF Cut
<1>2. /\ fd = "up" /\ fd' = "cut" /\ toSat' = << >>
      /\ pc' = pc /\ gm' = gm /\ moved' = moved
      /\ task' = task /\ todo' = todo /\ attempts' = attempts /\ err' = err
  BY DEF Cut, sender
<1>3. toInj \in Seq(News) /\ gm \in Rockets
  BY DEF IInv, TypeOK, News, Rockets
<1> DEFINE a == SubSeq(toInj, 1, k)
           b == SubSeq(toInj, k + 1, Len(toInj))
<1>4. Halves(toInj, k, a, b) /\ toInj' = a
  BY <1>1, <1>3, HalvesOf
<1>5. /\ ~apart' => /\ ~apart /\ ~ResetPending /\ ~Lost(b)
                    /\ phase' = phase /\ received' = received
      /\ phase' = "READY" => (phase = "READY" /\ received' = received) \/ received' = "ground"
      /\ apart' \in BOOLEAN /\ open' \subseteq {2}
      /\ phase' \in {"READY", "FLYING", "EMERGENCY", "EXPLODED"} /\ received' \in Altitudes
  <2>1. CASE apart' = (apart \/ ResetPending \/ Lost(b)) /\ UNCHANGED satellite
    BY <2>1 DEF satellite, IInv, TypeOK
  <2>2. CASE apart' = TRUE /\ phase' = "READY" /\ open' = {} /\ received' = "ground"
    BY <2>2 DEF Altitudes
  <2> QED BY <1>1, <2>1, <2>2
<1> HIDE DEF a, b
<1>6. /\ a \in Seq(News) /\ b \in Seq(News)
      /\ \A e : Contains(toInj, e) <=> Contains(a, e) \/ Contains(b, e)
      /\ Answers(toInj) = {} => Answers(a) = {}
      /\ Alone(toInj) => Alone(a)
      /\ Leading(toInj) => Leading(a)
      /\ Dooming(toInj) /\ ~Contains(b, "EXPLODE") => Dooming(a)
      /\ LaunchFirst(toInj) => LaunchFirst(a)
      /\ a # << >> => toInj # << >> /\ a[1] = toInj[1]
  BY <1>4, HalvesFacts
<1>7. TypeOK'
  <2>1. toSat' \in Seq(Written)
    BY <1>2, EmptySeq
  <2> QED BY <1>2, <1>4, <1>5, <1>6, <2>1 DEF IInv, TypeOK, News, Written
<1>8. ~ResetPending'
  BY <1>2 DEF ResetPending
<1>9. Connected' /\ Authenticating' /\ Between' /\ Resetting'
  BY <1>2, <1>4, <1>6, <1>8 DEF IInv, Connected, Authenticating, Between, Resetting
<1>10. Working'
  <2>1. Single => Single'
    BY <1>2, <1>4, <1>6, EmptySeq DEF Single
  <2> QED BY <1>2, <2>1 DEF IInv, Working
<1>11. InOrbit' /\ Current' /\ AtRest'
  BY <1>2, <1>5 DEF IInv, InOrbit, Current, AtRest
<1>12. Knowing'
  <2>1. SUFFICES ASSUME ~apart' PROVE Tracked(gm, toInj)'
    BY DEF Knowing
  <2>2. Tracked(gm, toInj) /\ phase' = phase /\ received' = received
    BY <1>5, <2>1 DEF IInv, Knowing
  <2>3. ~Contains(b, "LAND") /\ ~Contains(b, "EXPLODE")
    BY <1>5, <1>6, <2>1, NothingLost
  <2> QED BY <1>2, <1>4, <1>6, <2>2, <2>3 DEF Tracked
<1>13. Launching'
  BY <1>2, <1>4, <1>5, <1>6 DEF IInv, Launching, Coming
<1> QED BY <1>7, <1>9, <1>10, <1>11, <1>12, <1>13 DEF IInv

-----------------------------------------------------------------------------
(* All steps.                                                              *)

LEMMA Initially ==
  ASSUME Init
  PROVE  IInv
<1>1. gm \in Rockets
  BY GroundedFacts DEF Init
<1>2. TypeOK
  <2>1. /\ << >> \in Seq(Lines) /\ << >> \in Seq(Written)
        /\ << >> \in Seq(Orders \cup Replies)
    BY EmptySeq
  <2>2. attempts \in 0..(Attempts - 1)
    BY InjectorAssumption DEF Init, InjectorAssumption
  <2> QED BY <1>1, <2>1, <2>2 DEF Init, TypeOK, Rockets, Written, Altitudes
<1>3. ~ResetPending /\ Answers(toInj) = {} /\ ~Contains(toInj, "LAUNCH")
  BY NoLines DEF Init, ResetPending
<1>4. Connected /\ Authenticating /\ Working /\ Between /\ Resetting
  BY <1>3 DEF Init, Connected, Authenticating, Working, Between, Resetting
<1>5. InOrbit /\ Current /\ AtRest /\ Knowing /\ Launching
  BY <1>3, GroundedFacts DEF Init, InOrbit, Current, AtRest, Knowing, Tracked, Launching, Coming
<1> QED BY <1>2, <1>4, <1>5 DEF IInv

LEMMA Stuttering ==
  ASSUME IInv, UNCHANGED vars
  PROVE  IInv'
<1>1. /\ pc' = pc /\ fd' = fd /\ gm' = gm /\ moved' = moved
      /\ task' = task /\ todo' = todo /\ attempts' = attempts /\ err' = err
      /\ toSat' = toSat /\ toInj' = toInj /\ received' = received /\ apart' = apart
      /\ phase' = phase /\ open' = open
  BY DEF vars, sender, wires, satellite
<1>2. TypeOK'
  BY <1>1 DEF IInv, TypeOK
<1>3. Connected' /\ Authenticating' /\ Working' /\ Between'
  BY <1>1 DEF IInv, Connected, Authenticating, Working, Single, Between
<1>4. ResetPending' <=> ResetPending
  BY <1>1 DEF ResetPending
<1>5. Resetting' /\ InOrbit' /\ Current' /\ AtRest'
  BY <1>1, <1>4 DEF IInv, Resetting, InOrbit, Current, AtRest
<1>6. Knowing'
  BY <1>1, <1>4 DEF IInv, Knowing, Tracked
<1>7. Launching'
  BY <1>1 DEF IInv, Launching, Coming
<1> QED BY <1>2, <1>3, <1>5, <1>6, <1>7 DEF IInv

LEMMA Steps ==
  ASSUME IInv, [Next]_vars
  PROVE  IInv'
<1>1. \/ Step \/ Emit \/ EmitLater \/ NoConnect \/ Connect
      \/ \E k \in 0..Len(toInj) : Wake(k) \/ AuthRead(k)
      \/ WakeLost \/ AuthFails \/ Timeout \/ PollEvents \/ PollLost
      \/ \E c \in Typed : Operator(c)
      \/ Restart
      \/ SatObserves \/ SatResets \/ SatForced \/ SatAnswers
      \/ SatLaunches \/ SatLands \/ SatExplodes \/ SatFixes \/ SatTouchdown
      \/ Cut \/ UNCHANGED vars
  BY Zenon DEF Next, Satellite
<1>2. CASE Step \/ Emit \/ EmitLater \/ NoConnect \/ Connect \/ Timeout
  BY <1>2, StepKeeps, EmitKeeps, EmitLaterKeeps, NoConnectKeeps, ConnectKeeps, TimeoutKeeps,
     Zenon
<1>3. CASE \E k \in 0..Len(toInj) : Wake(k) \/ AuthRead(k)
  BY <1>3, WakeKeeps, AuthReadKeeps, Zenon
<1>4. CASE WakeLost \/ AuthFails \/ PollEvents \/ PollLost
  BY <1>4, WakeLostKeeps, AuthFailsKeeps, PollEventsKeeps, PollLostKeeps, Zenon
<1>5. CASE (\E c \in Typed : Operator(c)) \/ Restart
  BY <1>5, OperatorKeeps, RestartKeeps, Zenon
<1>6. CASE SatObserves \/ SatResets \/ SatForced \/ SatAnswers
  BY <1>6, SatObservesKeeps, SatResetsKeeps, SatForcedKeeps, SatAnswersKeeps, Zenon
<1>7. CASE SatLaunches \/ SatLands \/ SatExplodes \/ SatFixes \/ SatTouchdown
  BY <1>7, SatLaunchesKeeps, SatLandsKeeps, SatExplodesKeeps, SatFixesKeeps,
     SatTouchdownKeeps, Zenon
<1>8. CASE Cut \/ UNCHANGED vars
  BY <1>8, CutKeeps, Stuttering, Zenon
<1> QED BY <1>1, <1>2, <1>3, <1>4, <1>5, <1>6, <1>7, <1>8, Zenon

-----------------------------------------------------------------------------
(* The theorems.                                                           *)

(* The inductive invariant holds in every state the injector, the          *)
(* satellite and their connection can reach.                               *)
THEOREM Invariance == Spec => []IInv
<1>1. Init => IInv
  BY Initially
<1>2. IInv /\ [Next]_vars => IInv'
  BY Steps
<1> QED BY <1>1, <1>2, PTL DEF Spec

(* Every variable keeps its type; send_set returns before it has woken up  *)
(* Attempts times without an OK.                                           *)
THEOREM TypeCorrect == Spec => []TypeOK
<1>1. IInv => TypeOK
  BY DEF IInv
<1> QED BY <1>1, Invariance, PTL

(* Between two tasks of a connection that holds nothing is unanswered and  *)
(* no answer is left unread: send_set never takes the answer to an earlier *)
(* line for the one it waits for.                                          *)
THEOREM AnswersInStep == Spec => []InStep
<1>1. IInv => InStep
  <2>1. SUFFICES ASSUME IInv, pc \in {"step", "emit", "link", "read"} PROVE ~Unanswered
    BY DEF InStep
  <2>2. toSat = << >> /\ Answers(toInj) = {}
    BY <2>1 DEF IInv, Between
  <2> QED BY <2>2 DEF Unanswered, Answers
<1> QED BY <1>1, Invariance, PTL

(* A rocket the satellite holds for destroyed is destroyed in the physics, *)
(* or an order to explode is in transit, unless an order was lost, a       *)
(* program restarted or the operator acted on the injector alone.          *)
THEOREM ExplosionsReach == Spec => []ExplosionReaches
<1>1. IInv => ExplosionReaches
  <2>1. SUFFICES ASSUME IInv, phase = "EXPLODED", ~apart, ~ResetPending
                 PROVE  gm.exploded \/ Coming("EXPLODE")
    BY DEF ExplosionReaches
  <2>2. Dooming(toInj) \/ gm.exploded
    BY <2>1 DEF IInv, Knowing, Tracked
  <2>3. DOMAIN toInj = 1..Len(toInj)
    BY <2>1, LenProperties DEF IInv, TypeOK
  <2>4. Dooming(toInj) => Coming("EXPLODE")
    BY <2>3 DEF Dooming, Coming, Contains
  <2> QED BY <2>2, <2>4
<1> QED BY <1>1, Invariance, PTL

(* A descent the satellite has ordered goes on in the physics, or its      *)
(* order is in transit, under the same condition: gen_on_event refuses     *)
(* LAND to a rocket that is not launched or not in orbit, and such a       *)
(* refusal never leaves the satellite waiting.                             *)
THEOREM LandingsReach == Spec => []LandingReaches
<1>1. IInv => LandingReaches
  <2>1. SUFFICES ASSUME IInv, phase = "EMERGENCY", ~apart, ~ResetPending
                 PROVE  \/ Coming("LAND")
                        \/ gm.landing \/ gm.exploded \/ gm.altitude = "ground"
    BY DEF LandingReaches
  <2>2. Descending(gm) \/ Contains(toInj, "LAND")
    BY <2>1 DEF IInv, Knowing, Tracked
  <2> QED BY <2>2 DEF Descending, Coming
<1> QED BY <1>1, Invariance, PTL
=============================================================================
