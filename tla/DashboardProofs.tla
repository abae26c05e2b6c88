---------------------------- MODULE DashboardProofs ----------------------------
(***************************************************************************)
(* What holds of the dashboard for every length of its timers and buffers, *)
(* any number of lines unread, and without the bounds of the exploration.  *)
(*                                                                         *)
(* Faults, the loss and pressure alarms are words said in one FIFO: the    *)
(* picture is right when the last word said, once it is read, makes it so. *)
(***************************************************************************)
EXTENDS Dashboard, Folding, SequenceTheorems

Lines == CmdLines \cup DataLines

(* After the lines of w at S: the last word on or off, or else held.       *)
Stands(held, w, S, on, off) ==
  \/ held /\ \A i \in S : w[i].op \notin off
  \/ \E i \in S : w[i].op = on /\ \A j \in S : i < j => w[j].op \notin off

(* Every word on is taken back.                                            *)
Covered(w, S, on, off) ==
  \A i \in S : w[i].op = on => \E k \in S : i < k /\ w[k].op \in off

Has(w, S, op) == \E i \in S : w[i].op = op

Offs(f) == {FaultOff[f], "RESET_SIM"}

(* Between two words that a fault is open, or from the fault on the screen *)
(* to the first, there is one that it is closed, unless all are reset.     *)
Alternating(held, w, S, on, off) ==
  \A j \in S : w[j].op = on =>
    \/ \E k \in S : j < k /\ w[k].op = "RESET_SIM"
    \/ /\ held => \E k \in S : k < j /\ w[k].op \in off
       /\ \A i \in S : i < j /\ w[i].op = on =>
            \E k \in S : i < k /\ k < j /\ w[k].op \in off

-----------------------------------------------------------------------------
(* The inductive invariant.                                                *)

(* A timer of the screen belongs to a fault shown, and ends in its loss.   *)
Sound(p) ==
  /\ p \in RocketStates
  /\ \A f \in Faults : p.since[f] # Off => f \in p.shown
  /\ \A f \in Faults : p.since[f] = FaultFrames => p.exploded

(* After a frame the lamp shows the anomaly and the faults, and no more.   *)
Lit(p) == ~p.exploded => (p.alert <=> p.problem \/ p.shown # {})

(* An anomaly has a fault, a descent or the loss for a cause.              *)
Explained(p) == p.problem => p.shown # {} \/ p.landing \/ p.exploded

Basics ==
  /\ TypeOK /\ Sound(st) /\ Lit(st)
  /\ \A f \in open : clock[f] = Off => phase = "EXPLODED"

(* What the lines of v will make of the picture.                          *)
Faulty(v, f) == Stands(f \in st.shown, v, DOMAIN v, Fault[f], Offs(f))
Doomed(v)    == Stands(st.exploded, v, DOMAIN v, "EXPLODE", {"RESET_SIM"})
DoomOver(v)  == Covered(v, DOMAIN v, "EXPLODE", {"RESET_SIM"})
CycleOver(v) == Covered(v, DOMAIN v, "PROBLEM_ON", {"PROBLEM_OFF"})
Turns(v, f)  == Alternating(f \in st.shown, v, DOMAIN v, Fault[f], Offs(f))

FaultsFollow == \A f \in Faults : f \in open <=> Faulty(wire, f)

LossFollows == phase = "EXPLODED" => Doomed(wire)

(* EXPLODE in transit is this rocket's, or RESET_SIM follows it.           *)
LossIsNews == phase = "EXPLODED" \/ DoomOver(wire)

PressureFollows == pressure = "fault" \/ CycleOver(wire)

AnomalyFollows == Explained(st) \/ pressure = "fault" \/ Has(wire, DOMAIN wire, "PROBLEM_OFF")

FaultsAlternate == \A f \in Faults : Turns(wire, f)

(* The timer of a fault is at most the frame of this tick ahead.           *)
TimersFollow ==
  \A f \in open \cap st.shown :
    ~Has(wire, DOMAIN wire, Fault[f]) /\ phase # "EXPLODED"
      => st.since[f] <= clock[f] + (IF framed THEN 1 ELSE 0)

Informed ==
  /\ FaultsFollow /\ LossFollows /\ LossIsNews /\ PressureFollows /\ AnomalyFollows
  /\ FaultsAlternate /\ TimersFollow
  /\ notified => phase = "EXPLODED"

IInv == Basics /\ (~untold => Informed)

-----------------------------------------------------------------------------
(* Lines.                                                                  *)

LEMMA LineFacts ==
  /\ \A l \in CmdLines : IsCmd(l) /\ ~IsData(l)
  /\ \A l \in DataLines : IsData(l) /\ ~IsCmd(l)
  /\ \A l \in Lines : IsCmd(l) => l \in CmdLines
  /\ \A l \in Lines : IsData(l) => l \in DataLines
<1>1. ASSUME NEW l \in CmdLines PROVE l.op \notin DataOps
  <2>1. PICK op \in {"LAUNCH_OK", "LAND", "RESET_SIM", "CLEAR_ALERTS", "EXPLODE"}
                     \cup {Fault[f] : f \in Faults} \cup {FaultOff[f] : f \in Faults} :
               l = Line(op)
    BY <1>1, Zenon DEF CmdLines
  <2>2. op \notin DataOps
    BY <2>1, DashboardAssumption DEF Fault, FaultOff, DataOps
  <2> QED BY <2>1, <2>2 DEF Line
<1>2. ASSUME NEW l \in DataLines PROVE l.op \in DataOps
  <2>1. CASE l \in {Set(a, v) : a \in Altitudes, v \in Fuels}
    <3>1. \E a \in Altitudes, v \in Fuels : l = Set(a, v)
      BY <2>1
    <3>2. PICK a \in Altitudes, v \in Fuels : l = Set(a, v)
      BY <3>1
    <3>3. l.op = "SET"
      BY <3>2 DEF Set
    <3> QED BY <3>3 DEF DataOps
  <2>2. CASE l \in {Line("PROBLEM_ON"), Line("PROBLEM_OFF")}
    BY <2>2 DEF Line, DataOps
  <2> QED BY <1>2, <2>1, <2>2 DEF DataLines
<1>3. /\ \A l \in CmdLines : IsCmd(l) /\ ~IsData(l)
      /\ \A l \in DataLines : IsData(l) /\ ~IsCmd(l)
  BY <1>1, <1>2, Zenon DEF IsCmd, IsData
<1> QED BY <1>3, Zenon DEF Lines

LEMMA WordFacts ==
  ASSUME NEW f \in Faults
  PROVE  /\ Fault[f] \notin Offs(f) /\ Fault[f] \in {"FAULT1", "FAULT2"}
         /\ FaultOff[f] \in {"FAULT1_OFF", "FAULT2_OFF"}
         /\ \A g \in Faults : Fault[g] = Fault[f] \/ FaultOff[g] = FaultOff[f] => g = f
         /\ \A g \in Faults : Fault[g] \notin Offs(f)
BY DashboardAssumption DEF Fault, FaultOff, Offs

-----------------------------------------------------------------------------
(* One line that is read.                                                  *)

LEMMA RocketParts ==
  ASSUME NEW p \in RocketStates
  PROVE  /\ p.launched \in BOOLEAN /\ p.landing \in BOOLEAN /\ p.exploded \in BOOLEAN
         /\ p.problem \in BOOLEAN /\ p.alert \in BOOLEAN /\ p.shown \subseteq Faults
         /\ p.since \in [Faults -> Off..FaultFrames] /\ p.altitude \in Altitudes
         /\ p.fuel \in {"none", "low", "high"} /\ p.reserve \in BOOLEAN
         /\ p.begun \in BOOLEAN /\ p.age \in 0..(FreshFrames + 1)
BY DEF RocketStates

LEMMA LaunchesFacts ==
  ASSUME NEW p \in RocketStates, NEW op
  PROVE  LET q == Launches(p, op) IN
         /\ q \in RocketStates
         /\ q.shown = p.shown /\ q.since = p.since /\ q.exploded = p.exploded
         /\ q.begun = p.begun
         /\ Explained(p) => Explained(q)
<1> DEFINE q == Launches(p, op)
<1>1. CASE op = "LAUNCH_OK" /\ ~p.launched
  <2>1. q = [p EXCEPT !.launched = TRUE, !.fuel = "high"]
    BY <1>1 DEF Launches
  <2> QED BY <2>1 DEF RocketStates, Explained
<1>2. CASE op = "LAND" /\ p.launched /\ p.altitude = "orbit"
  <2>1. q = [p EXCEPT !.landing = TRUE, !.reserve = (p.fuel = "high"),
                      !.problem = p.problem /\ p.shown # {},
                      !.alert = p.alert /\ p.shown # {}]
    BY <1>2 DEF Launches
  <2>2. (p.fuel = "high") \in BOOLEAN /\ (p.problem /\ p.shown # {}) \in BOOLEAN
        /\ (p.alert /\ p.shown # {}) \in BOOLEAN
    OBVIOUS
  <2> QED BY <2>1, <2>2 DEF RocketStates, Explained
<1>3. CASE ~(op = "LAUNCH_OK" /\ ~p.launched)
           /\ ~(op = "LAND" /\ p.launched /\ p.altitude = "orbit")
  <2>1. q = p
    BY <1>3 DEF Launches
  <2> QED BY <2>1
<1> QED BY <1>1, <1>2, <1>3

LEMMA FaultOnFacts ==
  ASSUME NEW p \in RocketStates, NEW f \in Faults
  PROVE  LET q == FaultOn(p, f) IN
         /\ q \in RocketStates
         /\ q.shown = p.shown \cup {f} /\ q.exploded = p.exploded
         /\ q.since[f] \in {0, Off}
         /\ \A g \in Faults \ {f} : q.since[g] = p.since[g]
<1> DEFINE x == IF p.begun THEN 0 ELSE Off
           s == [p.since EXCEPT ![f] = x]
           q == FaultOn(p, f)
<1>1. x \in {0, Off} /\ x \in Off..FaultFrames
  BY DashboardAssumption DEF Off
<1>2. q = [p EXCEPT !.shown = @ \cup {f}, !.problem = TRUE, !.alert = TRUE, !.since[f] = x]
  BY DEF FaultOn
<1> HIDE DEF x, q
<1>3. s \in [Faults -> Off..FaultFrames] /\ s[f] = x
      /\ \A g \in Faults \ {f} : s[g] = p.since[g]
  BY <1>1, RocketParts
<1>4. q = [p EXCEPT !.shown = p.shown \cup {f}, !.problem = TRUE, !.alert = TRUE, !.since = s]
  BY <1>2
<1> HIDE DEF s
<1>5. q \in RocketStates
  BY <1>3, <1>4 DEF RocketStates
<1>6. q.shown = p.shown \cup {f} /\ q.exploded = p.exploded /\ q.since = s
  BY <1>4 DEF RocketStates
<1> QED BY <1>1, <1>3, <1>5, <1>6 DEF q

LEMMA FaultResolvedFacts ==
  ASSUME NEW p \in RocketStates, NEW f \in Faults
  PROVE  LET q == FaultResolved(p, f) IN
         /\ q \in RocketStates
         /\ q.shown = p.shown \ {f} /\ q.exploded = p.exploded
         /\ q.since[f] = Off
         /\ \A g \in Faults \ {f} : q.since[g] = p.since[g]
         /\ q.problem => q.shown # {}
<1> DEFINE rest == p.shown \ {f}
           s == [p.since EXCEPT ![f] = Off]
           problem == p.problem /\ rest # {}
           alert == p.alert /\ rest # {}
           q == FaultResolved(p, f)
<1>1. q = [p EXCEPT !.shown = rest, !.since[f] = Off, !.problem = @ /\ rest # {},
                   !.alert = @ /\ rest # {}]
  BY DEF FaultResolved
<1> HIDE DEF q
<1>2. s \in [Faults -> Off..FaultFrames] /\ s[f] = Off
      /\ \A g \in Faults \ {f} : s[g] = p.since[g]
  BY RocketParts, DashboardAssumption DEF Off
<1>3. problem \in BOOLEAN /\ alert \in BOOLEAN
  OBVIOUS
<1>4. q = [p EXCEPT !.shown = rest, !.since = s, !.problem = problem, !.alert = alert]
  BY <1>1
<1>5. problem => rest # {}
  OBVIOUS
<1>6. rest \in SUBSET Faults
  BY RocketParts
<1> HIDE DEF s, problem, alert, rest
<1>7. q \in RocketStates
  BY <1>2, <1>3, <1>4, <1>6 DEF RocketStates
<1>8. q.shown = rest /\ q.exploded = p.exploded /\ q.since = s /\ q.problem = problem
  BY <1>4 DEF RocketStates
<1> QED BY <1>2, <1>5, <1>7, <1>8 DEF q, rest

LEMMA ResetFacts ==
  /\ init_state \in RocketStates /\ init_state.shown = {} /\ ~init_state.exploded
  /\ ~init_state.problem /\ ~init_state.alert /\ \A f \in Faults : init_state.since[f] = Off
<1> DEFINE s == [f \in Faults |-> Off]
<1>1. s \in [Faults -> Off..FaultFrames] /\ \A f \in Faults : s[f] = Off
  BY DashboardAssumption DEF Off
<1>2. FreshFrames + 1 \in 0..(FreshFrames + 1) /\ {} \in SUBSET Faults
  BY DashboardAssumption
<1>3. init_state =
        [launched |-> FALSE, landing |-> FALSE, exploded |-> FALSE,
         problem |-> FALSE, alert |-> FALSE, shown |-> {}, since |-> s,
         altitude |-> "ground", fuel |-> "high", reserve |-> FALSE, begun |-> FALSE,
         age |-> FreshFrames + 1]
  BY DEF init_state
<1> HIDE DEF s
<1>4. init_state \in RocketStates
  BY <1>1, <1>2, <1>3 DEF RocketStates, Altitudes
<1> QED BY <1>1, <1>3, <1>4

(* What a word makes of the faults, the loss and the anomaly.              *)
Follows(p, q, op) ==
  /\ q \in RocketStates
  /\ \A f \in Faults :
       /\ f \in q.shown <=> op = Fault[f] \/ (f \in p.shown /\ op \notin Offs(f))
       /\ \/ q.since[f] \in {0, Off}
          \/ q.since[f] = p.since[f] /\ op # Fault[f] /\ op \notin Offs(f)
       /\ (p.since[f] # Off => f \in p.shown) => (q.since[f] # Off => f \in q.shown)
  /\ q.exploded <=> op = "EXPLODE" \/ (p.exploded /\ op # "RESET_SIM")
  /\ Explained(p) => Explained(q)

LEMMA AlertsFacts ==
  ASSUME NEW p \in RocketStates, NEW op
  PROVE  Follows(p, Alerts(p, op), op)
<1> DEFINE q == Alerts(p, op)
<1>1. CASE \E f \in Faults : op = Fault[f]
  <2>1. PICK f \in Faults : op = Fault[f]
    BY <1>1
  <2>2. \A g \in Faults : op = Fault[g] => g = f
    BY <2>1, WordFacts
  <2>3. q = FaultOn(p, f)
    <3> DEFINE h == CHOOSE g \in Faults : op = Fault[g]
    <3>1. h = f
      BY <2>1, <2>2, Zenon
    <3>2. /\ \A g \in Faults : op # FaultOff[g]
          /\ op # "RESET_SIM" /\ op # "CLEAR_ALERTS" /\ op # "EXPLODE"
      BY <2>1, WordFacts
    <3>3. q = FaultOn(p, h)
      BY <1>1, <3>2, Zenon DEF Alerts
    <3> QED BY <3>1, <3>3
  <2> HIDE DEF q
  <2>4. op \notin {"EXPLODE", "RESET_SIM"} /\ \A g \in Faults : op \notin Offs(g)
    BY <2>1, WordFacts
  <2>5. /\ q \in RocketStates
        /\ q.shown = p.shown \cup {f} /\ q.exploded = p.exploded
        /\ q.since[f] \in {0, Off}
        /\ \A g \in Faults \ {f} : q.since[g] = p.since[g]
    BY <2>3, FaultOnFacts
  <2>6. Explained(q)
    BY <2>5 DEF Explained
  <2>7. Follows(p, q, op)
    BY <2>1, <2>2, <2>4, <2>5, <2>6 DEF Follows
  <2> QED BY <2>7 DEF q
<1>2. CASE ~(\E f \in Faults : op = Fault[f]) /\ \E f \in Faults : op = FaultOff[f]
  <2>1. PICK f \in Faults : op = FaultOff[f]
    BY <1>2
  <2>2. \A g \in Faults : op = FaultOff[g] => g = f
    BY <2>1, WordFacts
  <2>3. q = FaultResolved(p, f)
    <3> DEFINE h == CHOOSE g \in Faults : op = FaultOff[g]
    <3>1. h = f
      BY <2>1, <2>2, Zenon
    <3>2. op # "RESET_SIM" /\ op # "CLEAR_ALERTS" /\ op # "EXPLODE"
      BY <2>1, WordFacts
    <3>3. q = FaultResolved(p, h)
      BY <1>2, <3>2, Zenon DEF Alerts
    <3> QED BY <3>1, <3>3
  <2> HIDE DEF q
  <2>4. /\ op \notin {"EXPLODE", "RESET_SIM"} /\ op \in Offs(f)
        /\ \A g \in Faults \ {f} : op \notin Offs(g)
        /\ \A g \in Faults : op # Fault[g]
    BY <1>2, <2>1, <2>2, WordFacts DEF Offs
  <2>5. /\ q \in RocketStates
        /\ q.shown = p.shown \ {f} /\ q.exploded = p.exploded
        /\ q.since[f] = Off
        /\ \A g \in Faults \ {f} : q.since[g] = p.since[g]
        /\ q.problem => q.shown # {}
    BY <2>3, FaultResolvedFacts
  <2>6. Explained(q)
    BY <2>5 DEF Explained
  <2>7. Follows(p, q, op)
    BY <2>4, <2>5, <2>6 DEF Follows
  <2> QED BY <2>7 DEF q
<1>3. CASE op = "RESET_SIM"
  <2>1. \A f \in Faults : op \in Offs(f) /\ op # Fault[f] /\ op # FaultOff[f]
    BY <1>3, WordFacts DEF Offs
  <2>2. q = init_state
    BY <1>3, <2>1, Zenon DEF Alerts, reset_for_relaunch
  <2> HIDE DEF q
  <2>3. Explained(q)
    BY <2>2, ResetFacts DEF Explained
  <2>4. Follows(p, q, op)
    BY <1>3, <2>1, <2>2, <2>3, ResetFacts DEF Follows
  <2> QED BY <2>4 DEF q
<1>4. CASE op # "RESET_SIM" /\ \A f \in Faults : op # Fault[f] /\ op # FaultOff[f]
  <2>1. \A f \in Faults : op \notin Offs(f)
    BY <1>4 DEF Offs
  <2>2. CASE op = "EXPLODE"
    <3>1. q = [p EXCEPT !.exploded = TRUE, !.alert = TRUE]
      BY <1>4, <2>2, Zenon DEF Alerts
    <3> HIDE DEF q
    <3>2. q \in RocketStates /\ q.shown = p.shown /\ q.since = p.since /\ q.exploded
      BY <3>1 DEF RocketStates
    <3>3. Follows(p, q, op)
      BY <1>4, <2>1, <2>2, <3>2 DEF Follows, Explained
    <3> QED BY <3>3 DEF q
  <2>3. CASE op # "EXPLODE"
    <3>1. q = p \/ q = [p EXCEPT !.alert = FALSE]
      BY <1>4, <2>3, Zenon DEF Alerts
    <3> HIDE DEF q
    <3>2. /\ q \in RocketStates /\ q.shown = p.shown /\ q.since = p.since
          /\ q.exploded = p.exploded /\ q.problem = p.problem /\ q.landing = p.landing
      BY <3>1 DEF RocketStates
    <3>3. Follows(p, q, op)
      BY <1>4, <2>1, <2>3, <3>2 DEF Follows, Explained
    <3> QED BY <3>3 DEF q
  <2> QED BY <2>2, <2>3
<1> QED BY <1>1, <1>2, <1>3, <1>4, Zenon

LEMMA CmdFacts ==
  ASSUME NEW p \in RocketStates, NEW l
  PROVE  LET q == apply_cmd(p, l) IN
         Follows(p, q, l.op) /\ (Sound(p) => Sound(q))
<1> DEFINE q == apply_cmd(p, l)
           r == Launches(p, l.op)
<1>1. /\ r \in RocketStates /\ r.shown = p.shown /\ r.since = p.since
      /\ r.exploded = p.exploded
      /\ Explained(p) => Explained(r)
  BY LaunchesFacts
<1>2. q = Alerts(r, l.op)
  BY DEF apply_cmd
<1> HIDE DEF q, r
<1>3. Follows(r, q, l.op)
  BY <1>1, <1>2, AlertsFacts
<1>4. Follows(p, q, l.op)
  BY <1>1, <1>3 DEF Follows
<1>5. ASSUME Sound(p) PROVE Sound(q)
  <2>1. ASSUME NEW f \in Faults, q.since[f] = FaultFrames PROVE q.exploded
    <3>1. q.since[f] \notin {0, Off}
      BY <2>1, DashboardAssumption DEF Off
    <3>2. q.since[f] = p.since[f] /\ l.op \notin Offs(f)
      BY <1>4, <3>1 DEF Follows
    <3> QED BY <1>4, <1>5, <2>1, <3>2 DEF Follows, Sound, Offs
  <2>2. \A f \in Faults : q.since[f] # Off => f \in q.shown
    BY <1>4, <1>5 DEF Follows, Sound
  <2>3. q \in RocketStates
    BY <1>4 DEF Follows
  <2> QED BY <2>1, <2>2, <2>3 DEF Sound
<1> QED BY <1>4, <1>5 DEF q

LEMMA DataFacts ==
  ASSUME NEW p \in RocketStates, NEW l \in DataLines
  PROVE  LET q == apply_data(p, l) IN
         /\ q \in RocketStates
         /\ q.shown = p.shown /\ q.since = p.since /\ q.exploded = p.exploded
         /\ q.landing = p.landing
         /\ p.shown = {} =>
              (q.problem <=> l.op = "PROBLEM_ON" \/ (p.problem /\ l.op # "PROBLEM_OFF"))
<1> DEFINE q == apply_data(p, l)
<1>1. CASE l \in {Set(a, v) : a \in Altitudes, v \in Fuels}
  <2>1. \E a \in Altitudes, v \in Fuels : l = Set(a, v)
    BY <1>1
  <2>2. PICK a \in Altitudes, v \in Fuels : l = Set(a, v)
    BY <2>1
  <2>3. l.op = "SET" /\ l.altitude \in Altitudes /\ l.fuel \in {"none", "low", "high"}
    BY <2>2, DashboardAssumption DEF Set
  <2>4. q = [p EXCEPT !.altitude = l.altitude, !.fuel = l.fuel, !.age = 0]
    BY <2>3 DEF apply_data
  <2>5. 0 \in 0..(FreshFrames + 1)
    BY DashboardAssumption
  <2> HIDE DEF q
  <2>6. /\ q \in RocketStates
        /\ q.shown = p.shown /\ q.since = p.since /\ q.exploded = p.exploded
        /\ q.landing = p.landing /\ q.problem = p.problem
    BY <2>3, <2>4, <2>5 DEF RocketStates
  <2> QED BY <2>3, <2>6 DEF q
<1>2. CASE l.op = "PROBLEM_ON"
  <2>1. q = [p EXCEPT !.problem = TRUE, !.alert = TRUE]
    BY <1>2 DEF apply_data
  <2> HIDE DEF q
  <2>2. /\ q \in RocketStates
        /\ q.shown = p.shown /\ q.since = p.since /\ q.exploded = p.exploded
        /\ q.landing = p.landing /\ q.problem
    BY <2>1 DEF RocketStates
  <2> QED BY <1>2, <2>2 DEF q
<1>3. CASE l.op = "PROBLEM_OFF"
  <2> DEFINE problem == p.problem /\ p.shown # {}
  <2>1. q = [p EXCEPT !.problem = problem]
    BY <1>3 DEF apply_data
  <2>2. problem \in BOOLEAN /\ (p.shown = {} => ~problem)
    OBVIOUS
  <2> HIDE DEF q, problem
  <2>3. /\ q \in RocketStates
        /\ q.shown = p.shown /\ q.since = p.since /\ q.exploded = p.exploded
        /\ q.landing = p.landing /\ q.problem = problem
    BY <2>1, <2>2 DEF RocketStates
  <2> QED BY <1>3, <2>2, <2>3 DEF q
<1>4. \/ l \in {Set(a, v) : a \in Altitudes, v \in Fuels}
      \/ l.op = "PROBLEM_ON" \/ l.op = "PROBLEM_OFF"
  BY DEF DataLines, Line
<1> QED BY <1>1, <1>2, <1>3, <1>4

-----------------------------------------------------------------------------
(* The dynamics of a frame.                                                *)

LEMMA AgedFacts ==
  ASSUME NEW p, Sound(p), ~p.exploded
  PROVE  LET q == Aged(p) IN
         /\ q \in RocketStates
         /\ q.shown = p.shown /\ q.exploded = p.exploded /\ q.problem = p.problem
         /\ q.landing = p.landing
         /\ \A f \in Faults :
              q.since[f] = IF p.since[f] = Off THEN Off ELSE p.since[f] + 1
<1> DEFINE s == [f \in Faults |-> IF p.since[f] = Off THEN Off ELSE p.since[f] + 1]
           age == IF p.age > FreshFrames THEN p.age ELSE p.age + 1
           q == Aged(p)
<1>1. p \in RocketStates
  BY DEF Sound
<1>2. q = [p EXCEPT !.begun = TRUE, !.since = s, !.age = age]
  BY DEF Aged
<1>3. s \in [Faults -> Off..FaultFrames]
  <2>1. ASSUME NEW f \in Faults
        PROVE  (IF p.since[f] = Off THEN Off ELSE p.since[f] + 1) \in Off..FaultFrames
    <3>1. p.since[f] \in Off..FaultFrames /\ p.since[f] # FaultFrames
      BY <1>1, RocketParts DEF Sound
    <3> QED BY <3>1, DashboardAssumption DEF Off
  <2> QED BY <2>1
<1>4. age \in 0..(FreshFrames + 1)
  BY <1>1, RocketParts, DashboardAssumption
<1>5. \A f \in Faults : s[f] = IF p.since[f] = Off THEN Off ELSE p.since[f] + 1
  OBVIOUS
<1> HIDE DEF s, age, q
<1>6. /\ q \in RocketStates
      /\ q.shown = p.shown /\ q.exploded = p.exploded /\ q.problem = p.problem
      /\ q.landing = p.landing /\ q.since = s
  BY <1>1, <1>2, <1>3, <1>4 DEF RocketStates
<1> QED BY <1>5, <1>6 DEF q

(* What flight and descent keep; they lose the rocket without telemetry.   *)
Flown(p, q) ==
  /\ q \in RocketStates
  /\ q.shown = p.shown /\ q.since = p.since /\ q.age = p.age
  /\ p.exploded => q.exploded
  /\ q.exploded => p.exploded \/ ~telemetry_fresh(q)
  /\ Explained(p) => Explained(q)

LEMMA LowerFacts ==
  ASSUME NEW a \in Altitudes
  PROVE  Lower[a] \subseteq Altitudes /\ (a # "orbit" => Higher[a] \subseteq Altitudes)
BY DEF Altitudes, Lower, Higher

LEMMA LostFacts ==
  ASSUME NEW p \in RocketStates, ~telemetry_fresh(p)
  PROVE  Flown(p, VehicleLost(p))
<1> DEFINE q == VehicleLost(p)
<1>1. q = [p EXCEPT !.exploded = TRUE, !.launched = FALSE, !.landing = FALSE, !.fuel = "none",
                   !.problem = TRUE, !.alert = TRUE]
  BY DEF VehicleLost
<1> HIDE DEF q
<1>2. /\ q \in RocketStates
      /\ q.shown = p.shown /\ q.since = p.since /\ q.age = p.age /\ q.exploded
  BY <1>1 DEF RocketStates
<1>3. ~telemetry_fresh(q) /\ Explained(q)
  BY <1>2 DEF telemetry_fresh, Explained
<1>4. Flown(p, q)
  BY <1>2, <1>3 DEF Flown
<1> QED BY <1>4 DEF q

(* Altitude and fuel change, or the anomaly of a descent begins.           *)
LEMMA MovedFacts ==
  ASSUME NEW p \in RocketStates, NEW a \in Altitudes, NEW v \in {"none", "low", "high"},
         NEW problem \in BOOLEAN, problem => p.problem \/ p.landing
  PROVE  LET q == [p EXCEPT !.altitude = a, !.fuel = v, !.problem = problem] IN
         Flown(p, q) /\ q.landing = p.landing /\ q.altitude = a /\ q.fuel = v
<1> DEFINE q == [p EXCEPT !.altitude = a, !.fuel = v, !.problem = problem]
<1>1. /\ q \in RocketStates
      /\ q.shown = p.shown /\ q.since = p.since /\ q.age = p.age
      /\ q.exploded = p.exploded /\ q.problem = problem /\ q.landing = p.landing
      /\ q.altitude = a /\ q.fuel = v
  BY DEF RocketStates
<1> HIDE DEF q
<1>2. Explained(p) => Explained(q)
  BY <1>1 DEF Explained
<1>3. Flown(p, q)
  BY <1>1, <1>2 DEF Flown
<1> QED BY <1>1, <1>3 DEF q

LEMMA FlownSelf ==
  ASSUME NEW p \in RocketStates
  PROVE  Flown(p, p)
BY DEF Flown

LEMMA FlightFacts ==
  ASSUME NEW p \in RocketStates, NEW q \in Flight(p)
  PROVE  Flown(p, q)
<1>1. /\ p.altitude \in Altitudes /\ p.fuel \in {"none", "low", "high"}
      /\ p.problem \in BOOLEAN
  BY RocketParts
<1>2. CASE ~p.launched \/ p.landing \/ telemetry_fresh(p)
  <2>1. q = p
    BY <1>2 DEF Flight
  <2> QED BY <2>1, FlownSelf
<1>3. CASE ~(~p.launched \/ p.landing \/ telemetry_fresh(p))
  <2>1. CASE p.problem
    <3>1. q \in {[p EXCEPT !.altitude = a] : a \in Lower[p.altitude]}
      BY <1>3, <2>1 DEF Flight
    <3>2. PICK a \in Lower[p.altitude] : q = [p EXCEPT !.altitude = a]
      BY <3>1
    <3>3. a \in Altitudes
      BY <1>1, <3>2, LowerFacts
    <3>4. q = [p EXCEPT !.altitude = a, !.fuel = p.fuel, !.problem = p.problem]
      BY <3>2 DEF RocketStates
    <3> QED BY <1>1, <3>3, <3>4, MovedFacts
  <2>2. CASE ~p.problem /\ p.altitude = "orbit"
    <3>1. q = [p EXCEPT !.fuel = "high"]
      BY <1>3, <2>2 DEF Flight
    <3>2. q = [p EXCEPT !.altitude = p.altitude, !.fuel = "high", !.problem = p.problem]
      BY <3>1 DEF RocketStates
    <3> QED BY <1>1, <3>2, MovedFacts
  <2>3. CASE ~p.problem /\ p.altitude # "orbit" /\ p.fuel # "none"
    <3>1. q \in {Moved(p, a, IF a = "orbit" THEN "high" ELSE p.fuel) : a \in Higher[p.altitude]}
      BY <1>3, <2>3 DEF Flight
    <3>2. PICK a \in Higher[p.altitude] :
             q = Moved(p, a, IF a = "orbit" THEN "high" ELSE p.fuel)
      BY <3>1
    <3>3. a \in Altitudes
      BY <1>1, <2>3, <3>2, LowerFacts
    <3> DEFINE v == IF a = "orbit" THEN "high" ELSE p.fuel
    <3>4. v \in {"none", "low", "high"}
      BY <1>1
    <3>5. q = [p EXCEPT !.altitude = a, !.fuel = v, !.problem = p.problem]
      BY <3>2 DEF Moved, RocketStates
    <3> HIDE DEF v
    <3> QED BY <1>1, <3>3, <3>4, <3>5, MovedFacts
  <2>4. CASE ~p.problem /\ p.altitude # "orbit" /\ p.fuel = "none"
    <3>1. q = VehicleLost(p)
      BY <1>3, <2>4 DEF Flight
    <3> QED BY <1>3, <3>1, LostFacts
  <2> QED BY <1>1, <2>1, <2>2, <2>3, <2>4
<1> QED BY <1>2, <1>3

LEMMA FlownTwice ==
  ASSUME NEW p, NEW q, NEW r, Flown(p, q), Flown(q, r)
  PROVE  Flown(p, r)
BY DEF Flown, telemetry_fresh

LEMMA DescendedFacts ==
  ASSUME NEW p \in RocketStates, p.landing, ~telemetry_fresh(p)
  PROVE  Flown(p, Descended(p))
<1>1. CASE p.fuel = "none"
  <2>1. Descended(p) = VehicleLost(p)
    BY <1>1 DEF Descended
  <2> QED BY <2>1, LostFacts
<1>2. CASE p.fuel # "none" /\ p.altitude = "ground"
  <2> DEFINE q == Descended(p)
  <2>1. q = [p EXCEPT !.landing = FALSE, !.launched = FALSE, !.reserve = FALSE,
                     !.problem = FALSE]
    BY <1>2 DEF Descended
  <2> HIDE DEF q
  <2>2. /\ q \in RocketStates
        /\ q.shown = p.shown /\ q.since = p.since /\ q.age = p.age
        /\ q.exploded = p.exploded /\ ~q.problem
    BY <2>1 DEF RocketStates
  <2>3. Flown(p, q)
    BY <2>2 DEF Flown, Explained
  <2> QED BY <2>3 DEF q
<1>3. CASE p.fuel # "none" /\ p.altitude # "ground"
  <2>1. Descended(p) = p
    BY <1>3 DEF Descended
  <2> QED BY <2>1, FlownSelf
<1> QED BY <1>1, <1>2, <1>3

LEMMA DescendingFacts ==
  ASSUME NEW p \in RocketStates, p.landing, NEW q \in Descending(p)
  PROVE  Flown(p, q) /\ q.landing
<1> DEFINE A == {[p EXCEPT !.altitude = a, !.problem = TRUE] : a \in Lower[p.altitude]}
           B == Guided(p)
<1>1. p.altitude \in Altitudes /\ p.fuel \in {"none", "low", "high"} /\ p.problem \in BOOLEAN
  BY RocketParts
<1>2. CASE q \in A
  <2>1. PICK a \in Lower[p.altitude] : q = [p EXCEPT !.altitude = a, !.problem = TRUE]
    BY <1>2
  <2>2. a \in Altitudes
    BY <1>1, <2>1, LowerFacts
  <2>3. q = [p EXCEPT !.altitude = a, !.fuel = p.fuel, !.problem = TRUE]
    BY <2>1 DEF RocketStates
  <2>4. q.landing
    BY <2>1 DEF RocketStates
  <2> QED BY <1>1, <2>2, <2>3, <2>4, MovedFacts
<1>3. CASE q \in B
  <2>1. PICK a \in Lower[p.altitude], v \in {p.fuel, "low"} : q = Moved(p, a, v)
    BY <1>3 DEF Guided
  <2>2. a \in Altitudes /\ v \in {"none", "low", "high"}
    BY <1>1, <2>1, LowerFacts
  <2>3. q = [p EXCEPT !.altitude = a, !.fuel = v, !.problem = p.problem]
    BY <2>1 DEF Moved, RocketStates
  <2>4. q.landing
    BY <2>1 DEF Moved, RocketStates
  <2> QED BY <1>1, <2>2, <2>3, <2>4, MovedFacts
<1>4. q \in A \/ q \in B
  BY DEF Descending
<1> HIDE DEF A, B
<1> QED BY <1>2, <1>3, <1>4

LEMMA DescentFacts ==
  ASSUME NEW p \in RocketStates, NEW r \in Descent(p)
  PROVE  Flown(p, r)
<1>1. CASE ~(p.landing /\ ~telemetry_fresh(p))
  <2>1. r = p
    BY <1>1 DEF Descent
  <2> QED BY <2>1, FlownSelf
<1>2. CASE p.landing /\ ~telemetry_fresh(p)
  <2>1. r \in {Descended(q) : q \in Descending(p)}
    BY <1>2 DEF Descent
  <2>2. PICK q \in Descending(p) : r = Descended(q)
    BY <2>1
  <2>3. Flown(p, q) /\ q.landing
    BY <1>2, <2>2, DescendingFacts
  <2>4. q \in RocketStates /\ ~telemetry_fresh(q)
    BY <1>2, <2>3 DEF Flown, telemetry_fresh
  <2> QED BY <2>2, <2>3, <2>4, DescendedFacts, FlownTwice
<1> QED BY <1>1, <1>2

(* A frame without lines.                                                  *)
LEMMA DynamicsFacts ==
  ASSUME NEW p, Sound(p), NEW r \in update_dynamics(p)
  PROVE  /\ Sound(r) /\ Lit(r) /\ r.shown = p.shown
         /\ p.exploded => r = p
         /\ \A f \in Faults :
              r.since[f] = p.since[f] \/ (p.since[f] # Off /\ r.since[f] = p.since[f] + 1)
         /\ Explained(p) => Explained(r)
         /\ ~p.exploded /\ r.exploded /\ telemetry_fresh(r) =>
              \E f \in r.shown : r.since[f] >= FaultFrames
<1>1. CASE p.exploded
  <2>1. r = p
    BY <1>1 DEF update_dynamics
  <2> QED BY <1>1, <2>1 DEF Lit
<1>2. CASE ~p.exploded
  <2>1. PICK q \in Flight(Aged(p)) : r \in {Timers(d) : d \in Descent(q)}
    BY <1>2 DEF update_dynamics
  <2>2. PICK d \in Descent(q) : r = Timers(d)
    BY <2>1
  <2> DEFINE o == Aged(p)
  <2>3. /\ o \in RocketStates
        /\ o.shown = p.shown /\ ~o.exploded /\ o.problem = p.problem
        /\ o.landing = p.landing
        /\ \A f \in Faults :
              o.since[f] = IF p.since[f] = Off THEN Off ELSE p.since[f] + 1
    BY <1>2, AgedFacts
  <2>4. Explained(p) => Explained(o)
    BY <1>2, <2>3 DEF Explained
  <2> HIDE DEF o
  <2>5. Flown(o, q)
    BY <2>1, <2>3, FlightFacts DEF o
  <2>6. q \in RocketStates
    BY <2>5 DEF Flown
  <2>7. Flown(q, d)
    BY <2>2, <2>6, DescentFacts
  <2>8. Flown(o, d)
    BY <2>5, <2>7, FlownTwice
  <2> DEFINE alert == d.problem \/ d.shown # {}
             due == \E f \in d.shown : d.since[f] >= FaultFrames
             exploded == d.exploded \/ due
  <2>9. r = [d EXCEPT !.alert = alert, !.exploded = exploded]
    BY <2>2 DEF Timers
  <2>10. alert \in BOOLEAN /\ exploded \in BOOLEAN /\ (alert <=> d.problem \/ d.shown # {})
         /\ (exploded <=> d.exploded \/ due)
    OBVIOUS
  <2> HIDE DEF alert, exploded, due
  <2>11. /\ r \in RocketStates /\ r.shown = d.shown /\ r.since = d.since /\ r.age = d.age
         /\ r.problem = d.problem /\ r.landing = d.landing
         /\ r.alert = alert /\ r.exploded = exploded
    BY <2>8, <2>9, <2>10 DEF Flown, RocketStates
  <2>12. Lit(r)
    BY <2>10, <2>11 DEF Lit
  <2>13. \A f \in Faults : r.since[f] = IF p.since[f] = Off THEN Off ELSE p.since[f] + 1
    BY <2>3, <2>8, <2>11 DEF Flown
  <2>14. r.shown = p.shown
    BY <2>3, <2>8, <2>11 DEF Flown
  <2>15. Sound(r)
    <3>1. ASSUME NEW f \in Faults, r.since[f] # Off PROVE f \in r.shown
      BY <2>13, <2>14, <3>1 DEF Sound
    <3>2. ASSUME NEW f \in Faults, r.since[f] = FaultFrames PROVE r.exploded
      <4>1. f \in r.shown
        BY <3>1, <3>2, DashboardAssumption DEF Off
      <4>2. due
        BY <2>11, <3>2, <4>1, DashboardAssumption DEF due
      <4> QED BY <2>10, <2>11, <4>2
    <3> QED BY <2>11, <3>1, <3>2 DEF Sound
  <2>16. Explained(p) => Explained(r)
    BY <2>4, <2>8, <2>10, <2>11 DEF Flown, Explained
  <2>17. ASSUME r.exploded, telemetry_fresh(r)
         PROVE  \E f \in r.shown : r.since[f] >= FaultFrames
    <3>1. telemetry_fresh(d)
      BY <2>11, <2>17 DEF telemetry_fresh
    <3>2. ~d.exploded
      BY <2>3, <2>8, <3>1 DEF Flown
    <3> QED BY <2>10, <2>11, <2>17, <3>2 DEF due
  <2> QED BY <1>2, <2>12, <2>13, <2>14, <2>15, <2>16, <2>17
<1> QED BY <1>1, <1>2

-----------------------------------------------------------------------------
(* Folds over lines are chains of single lines.                            *)

LEMMA CmdsChain ==
  ASSUME NEW p \in RocketStates, NEW lines \in Seq(CmdLines)
  PROVE  \E c : /\ c[0] = p /\ c[Len(lines)] = FoldLeft(apply_cmd, p, lines)
                /\ \A m \in 0..Len(lines) : c[m] \in RocketStates
                /\ \A m \in 1..Len(lines) : c[m] = apply_cmd(c[m - 1], lines[m])
<1> DEFINE n == Len(lines)
           step == [t \in RocketStates \X (1..n) |-> apply_cmd(t[1], lines[t[2]])]
           Right(iter) == iter = [s \in SUBSET (1..n) |->
                            IF s = {} THEN p ELSE apply_cmd(iter[s \ {Max(s)}], lines[Max(s)])]
           G == CHOOSE iter : Right(iter)
<1>1. n \in Nat /\ DOMAIN lines = 1..n
  BY LenProperties
<1>2. FoldLeft(apply_cmd, p, lines) = G[1..n]
  BY <1>1, Zenon DEF FoldLeft, MapThenFoldSet
<1> HIDE DEF n
<1>3. step \in [RocketStates \X (1..n) -> RocketStates]
  BY <1>1, CmdFacts DEF Follows
<1>4. \A h \in RocketStates, i \in 1..n : step[<<h, i>>] = apply_cmd(h, lines[i])
  OBVIOUS
<1> HIDE DEF step
<1>5. \E iter : Right(iter)
  <2>1. PICK iter : Folds(iter, p, step, n) /\ \A s \in SUBSET (1..n) : iter[s] \in RocketStates
    BY <1>1, <1>3, FoldExists
  <2>2. ASSUME NEW s \in SUBSET (1..n), s # {}
        PROVE  step[<<iter[s \ {Max(s)}], Max(s)>>] = apply_cmd(iter[s \ {Max(s)}], lines[Max(s)])
    <3>1. s \ {Max(s)} \in SUBSET (1..n) /\ Max(s) \in 1..n
      BY <1>1, <2>2, MaxOf
    <3>2. iter[s \ {Max(s)}] \in RocketStates
      BY <2>1, <3>1
    <3> HIDE DEF Max
    <3> QED BY <1>4, <3>1, <3>2
  <2>3. Right(iter)
    BY <2>1, <2>2, Zenon DEF Folds
  <2> QED BY <2>3
<1>6. Right(G)
  BY <1>5, Zenon
<1> HIDE DEF G
<1> DEFINE c == [m \in 0..n |-> G[1..m]]
<1>7. c[0] = p
  <2>1. 1..0 = {} /\ 0 \in 0..n /\ 1..0 \in SUBSET (1..n)
    BY <1>1
  <2>2. G[1..0] = p
    BY <1>6, <2>1, Zenon
  <2> QED BY <2>1, <2>2
<1>8. ASSUME NEW m \in 1..n PROVE c[m] = apply_cmd(c[m - 1], lines[m])
  <2>1. m \in Nat /\ m > 0 /\ m \in 0..n /\ m - 1 \in 0..n /\ 1..m \in SUBSET (1..n)
    BY <1>1
  <2>2. G[1..m] = IF 1..m = {} THEN p ELSE apply_cmd(G[(1..m) \ {Max(1..m)}], lines[Max(1..m)])
    BY <1>6, <2>1, Zenon
  <2>3. G[1..m] = apply_cmd(G[1..(m - 1)], lines[m])
    BY <2>1, <2>2, MaxOfInterval
  <2> QED BY <2>1, <2>3
<1>9. c[n] = FoldLeft(apply_cmd, p, lines)
  BY <1>1, <1>2
<1> HIDE DEF c
<1>10. \A m \in 0..n : c[m] \in RocketStates
  <2> DEFINE S == [m \in 0..n |-> RocketStates]
  <2>1. c[0] \in S[0]
    BY <1>1, <1>7
  <2>2. ASSUME NEW m \in 1..n, c[m - 1] \in S[m - 1] PROVE c[m] \in S[m]
    <3>1. m \in 0..n /\ m - 1 \in 0..n
      BY <1>1
    <3>2. c[m - 1] \in RocketStates
      BY <2>2, <3>1
    <3>3. c[m] \in RocketStates
      <4>1. /\ c[m] = apply_cmd(c[m - 1], lines[m])
            /\ Follows(c[m - 1], apply_cmd(c[m - 1], lines[m]), lines[m].op)
        BY <1>8, <3>2, CmdFacts
      <4> QED BY <4>1 DEF Follows
    <3> QED BY <3>1, <3>3
  <2> HIDE DEF S
  <2>3. \A m \in 0..n : c[m] \in S[m]
    BY <1>1, <2>1, <2>2, Climbing
  <2> QED BY <2>3 DEF S
<1> QED BY <1>7, <1>8, <1>9, <1>10 DEF n

LEMMA DataChain ==
  ASSUME NEW p \in RocketStates, NEW lines \in Seq(DataLines)
  PROVE  \E c : /\ c[0] = p /\ c[Len(lines)] = FoldLeft(apply_data, p, lines)
                /\ \A m \in 0..Len(lines) : c[m] \in RocketStates
                /\ \A m \in 1..Len(lines) : c[m] = apply_data(c[m - 1], lines[m])
<1> DEFINE n == Len(lines)
           step == [t \in RocketStates \X (1..n) |-> apply_data(t[1], lines[t[2]])]
           Right(iter) == iter = [s \in SUBSET (1..n) |->
                            IF s = {} THEN p ELSE apply_data(iter[s \ {Max(s)}], lines[Max(s)])]
           G == CHOOSE iter : Right(iter)
<1>1. n \in Nat /\ DOMAIN lines = 1..n /\ \A i \in 1..n : lines[i] \in DataLines
  BY LenProperties, ElementOfSeq
<1>2. FoldLeft(apply_data, p, lines) = G[1..n]
  BY <1>1, Zenon DEF FoldLeft, MapThenFoldSet
<1> HIDE DEF n
<1>3. step \in [RocketStates \X (1..n) -> RocketStates]
  BY <1>1, DataFacts
<1>4. \A h \in RocketStates, i \in 1..n : step[<<h, i>>] = apply_data(h, lines[i])
  OBVIOUS
<1> HIDE DEF step
<1>5. \E iter : Right(iter)
  <2>1. PICK iter : Folds(iter, p, step, n) /\ \A s \in SUBSET (1..n) : iter[s] \in RocketStates
    BY <1>1, <1>3, FoldExists
  <2>2. ASSUME NEW s \in SUBSET (1..n), s # {}
        PROVE  step[<<iter[s \ {Max(s)}], Max(s)>>] = apply_data(iter[s \ {Max(s)}], lines[Max(s)])
    <3>1. s \ {Max(s)} \in SUBSET (1..n) /\ Max(s) \in 1..n
      BY <1>1, <2>2, MaxOf
    <3>2. iter[s \ {Max(s)}] \in RocketStates
      BY <2>1, <3>1
    <3> HIDE DEF Max
    <3> QED BY <1>4, <3>1, <3>2
  <2>3. Right(iter)
    BY <2>1, <2>2, Zenon DEF Folds
  <2> QED BY <2>3
<1>6. Right(G)
  BY <1>5, Zenon
<1> HIDE DEF G
<1> DEFINE c == [m \in 0..n |-> G[1..m]]
<1>7. c[0] = p
  <2>1. 1..0 = {} /\ 0 \in 0..n /\ 1..0 \in SUBSET (1..n)
    BY <1>1
  <2>2. G[1..0] = p
    BY <1>6, <2>1, Zenon
  <2> QED BY <2>1, <2>2
<1>8. ASSUME NEW m \in 1..n PROVE c[m] = apply_data(c[m - 1], lines[m])
  <2>1. m \in Nat /\ m > 0 /\ m \in 0..n /\ m - 1 \in 0..n /\ 1..m \in SUBSET (1..n)
    BY <1>1
  <2>2. G[1..m] = IF 1..m = {} THEN p ELSE apply_data(G[(1..m) \ {Max(1..m)}], lines[Max(1..m)])
    BY <1>6, <2>1, Zenon
  <2>3. G[1..m] = apply_data(G[1..(m - 1)], lines[m])
    BY <2>1, <2>2, MaxOfInterval
  <2> QED BY <2>1, <2>3
<1>9. c[n] = FoldLeft(apply_data, p, lines)
  BY <1>1, <1>2
<1> HIDE DEF c
<1>10. \A m \in 0..n : c[m] \in RocketStates
  <2> DEFINE S == [m \in 0..n |-> RocketStates]
  <2>1. c[0] \in S[0]
    BY <1>1, <1>7
  <2>2. ASSUME NEW m \in 1..n, c[m - 1] \in S[m - 1] PROVE c[m] \in S[m]
    <3>1. m \in 0..n /\ m - 1 \in 0..n
      BY <1>1
    <3>2. c[m - 1] \in RocketStates
      BY <2>2, <3>1
    <3>3. c[m] \in RocketStates
      BY <1>1, <1>8, <3>2, DataFacts
    <3> QED BY <3>1, <3>3
  <2> HIDE DEF S
  <2>3. \A m \in 0..n : c[m] \in S[m]
    BY <1>1, <2>1, <2>2, Climbing
  <2> QED BY <2>3 DEF S
<1> QED BY <1>7, <1>8, <1>9, <1>10 DEF n

LEMMA PickedChain ==
  ASSUME wire \in Seq(Lines), NEW S
  PROVE  \E c : /\ c[0] = << >> /\ c[Len(wire)] = Picked(S)
                /\ \A m \in 0..Len(wire) : c[m] \in Seq(Lines)
                /\ \A m \in 1..Len(wire) :
                     c[m] = IF m \in S THEN Append(c[m - 1], wire[m]) ELSE c[m - 1]
<1> DEFINE n == Len(wire)
           pick(q, i) == IF i \in S THEN Append(q, wire[i]) ELSE q
           at == [i \in DOMAIN wire |-> i]
           step == [t \in Seq(Lines) \X (1..n) |-> pick(t[1], at[t[2]])]
           Right(iter) == iter = [s \in SUBSET (1..n) |->
                            IF s = {} THEN << >> ELSE pick(iter[s \ {Max(s)}], at[Max(s)])]
           G == CHOOSE iter : Right(iter)
<1>1. n \in Nat /\ DOMAIN wire = 1..n /\ \A i \in 1..n : wire[i] \in Lines /\ at[i] = i
  BY LenProperties, ElementOfSeq
<1>2. Picked(S) = G[1..n]
  <2>1. Picked(S) = FoldLeft(pick, << >>, at)
    BY Zenon DEF Picked, FoldLeftDomain
  <2>2. DOMAIN at = 1..n /\ \A i \in 1..n : at[i] = i
    BY <1>1
  <2> QED BY <1>1, <2>1, <2>2, Zenon DEF FoldLeft, MapThenFoldSet
<1> HIDE DEF n, at
<1>3. step \in [Seq(Lines) \X (1..n) -> Seq(Lines)]
  BY <1>1, AppendProperties
<1>4. \A h \in Seq(Lines), i \in 1..n : step[<<h, i>>] = pick(h, at[i])
  OBVIOUS
<1> HIDE DEF step
<1>5. \E iter : Right(iter)
  <2>1. PICK iter : Folds(iter, << >>, step, n) /\ \A s \in SUBSET (1..n) : iter[s] \in Seq(Lines)
    BY <1>1, <1>3, FoldExists, EmptySeq
  <2>2. ASSUME NEW s \in SUBSET (1..n), s # {}
        PROVE  step[<<iter[s \ {Max(s)}], Max(s)>>] = pick(iter[s \ {Max(s)}], at[Max(s)])
    <3>1. s \ {Max(s)} \in SUBSET (1..n) /\ Max(s) \in 1..n
      BY <1>1, <2>2, MaxOf
    <3>2. iter[s \ {Max(s)}] \in Seq(Lines)
      BY <2>1, <3>1
    <3> HIDE DEF Max
    <3> QED BY <1>4, <3>1, <3>2
  <2>3. Right(iter)
    BY <2>1, <2>2, Zenon DEF Folds
  <2> QED BY <2>3
<1>6. Right(G)
  BY <1>5, Zenon
<1> HIDE DEF G
<1> DEFINE c == [m \in 0..n |-> G[1..m]]
<1>7. c[0] = << >>
  <2>1. 1..0 = {} /\ 0 \in 0..n /\ 1..0 \in SUBSET (1..n)
    BY <1>1
  <2>2. G[1..0] = << >>
    BY <1>6, <2>1, Zenon
  <2> QED BY <2>1, <2>2
<1>8. ASSUME NEW m \in 1..n PROVE c[m] = pick(c[m - 1], at[m])
  <2>1. m \in Nat /\ m > 0 /\ m \in 0..n /\ m - 1 \in 0..n /\ 1..m \in SUBSET (1..n)
    BY <1>1
  <2>2. G[1..m] = IF 1..m = {} THEN << >> ELSE pick(G[(1..m) \ {Max(1..m)}], at[Max(1..m)])
    BY <1>6, <2>1, Zenon
  <2>3. G[1..m] = pick(G[1..(m - 1)], at[m])
    BY <2>1, <2>2, MaxOfInterval
  <2> QED BY <2>1, <2>3
<1>9. c[n] = Picked(S)
  BY <1>1, <1>2
<1> HIDE DEF c
<1>10. \A m \in 0..n : c[m] \in Seq(Lines)
  <2> DEFINE K == [m \in 0..n |-> Seq(Lines)]
  <2>1. c[0] \in K[0]
    BY <1>1, <1>7
  <2>2. ASSUME NEW m \in 1..n, c[m - 1] \in K[m - 1] PROVE c[m] \in K[m]
    <3>1. m \in 0..n /\ m - 1 \in 0..n
      BY <1>1
    <3>2. c[m - 1] \in Seq(Lines)
      BY <2>2, <3>1
    <3>3. c[m] \in Seq(Lines)
      <4>1. Append(c[m - 1], wire[m]) \in Seq(Lines)
        BY <1>1, <3>2, AppendProperties
      <4>2. c[m] = Append(c[m - 1], wire[at[m]]) \/ c[m] = c[m - 1]
        BY <1>8
      <4> QED BY <1>1, <3>2, <4>1, <4>2
    <3> QED BY <3>1, <3>3
  <2> HIDE DEF K
  <2>3. \A m \in 0..n : c[m] \in K[m]
    BY <1>1, <2>1, <2>2, Climbing
  <2> QED BY <2>3 DEF K
<1>11. \A m \in 1..n : c[m] = IF m \in S THEN Append(c[m - 1], wire[m]) ELSE c[m - 1]
  BY <1>1, <1>8
<1> QED BY <1>7, <1>9, <1>10, <1>11 DEF n

-----------------------------------------------------------------------------
(* The lines of a read.                                                    *)

LEMMA StandsStep ==
  ASSUME NEW held \in BOOLEAN, NEW w, NEW S \in SUBSET Nat, NEW k \in Nat, NEW on, NEW off,
         \A i \in S : i < k, on \notin off
  PROVE  Stands(held, w, S \cup {k}, on, off) <=>
           w[k].op = on \/ (Stands(held, w, S, on, off) /\ w[k].op \notin off)
<1>1. k \notin S /\ \A i \in S : ~(k < i)
  OBVIOUS
<1>2. ASSUME w[k].op = on PROVE Stands(held, w, S \cup {k}, on, off)
  <2>1. \A j \in S \cup {k} : ~(k < j)
    BY <1>1
  <2> QED BY <1>2, <2>1 DEF Stands
<1>3. ASSUME Stands(held, w, S, on, off), w[k].op \notin off
      PROVE  Stands(held, w, S \cup {k}, on, off)
  BY <1>3 DEF Stands
<1>4. ASSUME Stands(held, w, S \cup {k}, on, off), w[k].op # on
      PROVE  Stands(held, w, S, on, off) /\ w[k].op \notin off
  BY <1>4 DEF Stands
<1> QED BY <1>2, <1>3, <1>4

(* What the first m lines make of p.                                       *)
Heard(p, q, lines, m) ==
  /\ q \in RocketStates
  /\ \A f \in Faults :
       /\ f \in q.shown <=> Stands(f \in p.shown, lines, 1..m, Fault[f], Offs(f))
       /\ \/ q.since[f] \in {0, Off}
          \/ /\ q.since[f] = p.since[f]
             /\ \A i \in 1..m : lines[i].op # Fault[f] /\ lines[i].op \notin Offs(f)
  /\ q.exploded <=> Stands(p.exploded, lines, 1..m, "EXPLODE", {"RESET_SIM"})
  /\ Explained(p) => Explained(q)
  /\ Sound(p) => Sound(q)

LEMMA HeardNext ==
  ASSUME NEW p \in RocketStates, NEW q, NEW lines, NEW m \in Nat, m > 0,
         Heard(p, q, lines, m - 1)
  PROVE  Heard(p, apply_cmd(q, lines[m]), lines, m)
<1> DEFINE r == apply_cmd(q, lines[m])
           op == lines[m].op
<1>1. q \in RocketStates
  BY DEF Heard
<1>2. Follows(q, r, op) /\ (Sound(q) => Sound(r))
  BY <1>1, CmdFacts
<1> HIDE DEF r
<1>3. 1..m = (1..(m - 1)) \cup {m} /\ (1..(m - 1)) \in SUBSET Nat /\ \A i \in 1..(m - 1) : i < m
  OBVIOUS
<1>4. ASSUME NEW held \in BOOLEAN, NEW on, NEW off, on \notin off
      PROVE  Stands(held, lines, 1..m, on, off) <=>
               op = on \/ (Stands(held, lines, 1..(m - 1), on, off) /\ op \notin off)
  <2> DEFINE T == 1..(m - 1)
  <2>1. T \in SUBSET Nat /\ \A i \in T : i < m
    BY <1>3
  <2> HIDE DEF T
  <2>2. Stands(held, lines, T \cup {m}, on, off) <=>
          op = on \/ (Stands(held, lines, T, on, off) /\ op \notin off)
    BY <1>4, <2>1, StandsStep
  <2> QED BY <1>3, <2>2 DEF T
<1>5. ASSUME NEW f \in Faults
      PROVE  /\ f \in r.shown <=> Stands(f \in p.shown, lines, 1..m, Fault[f], Offs(f))
             /\ \/ r.since[f] \in {0, Off}
                \/ /\ r.since[f] = p.since[f]
                   /\ \A i \in 1..m : lines[i].op # Fault[f] /\ lines[i].op \notin Offs(f)
  <2>1. f \in r.shown <=> op = Fault[f] \/ (f \in q.shown /\ op \notin Offs(f))
    BY <1>2 DEF Follows
  <2>2. f \in q.shown <=> Stands(f \in p.shown, lines, 1..(m - 1), Fault[f], Offs(f))
    BY DEF Heard
  <2>3. (f \in p.shown) \in BOOLEAN /\ Fault[f] \notin Offs(f)
    BY WordFacts
  <2>4. f \in r.shown <=> Stands(f \in p.shown, lines, 1..m, Fault[f], Offs(f))
    BY <1>4, <2>1, <2>2, <2>3
  <2>5. CASE r.since[f] \notin {0, Off}
    <3>1. r.since[f] = q.since[f] /\ op # Fault[f] /\ op \notin Offs(f)
      BY <1>2, <2>5 DEF Follows
    <3>2. /\ q.since[f] = p.since[f]
          /\ \A i \in 1..(m - 1) : lines[i].op # Fault[f] /\ lines[i].op \notin Offs(f)
      BY <2>5, <3>1 DEF Heard
    <3> QED BY <1>3, <2>4, <3>1, <3>2
  <2> QED BY <2>4, <2>5
<1>6. r.exploded <=> Stands(p.exploded, lines, 1..m, "EXPLODE", {"RESET_SIM"})
  <2>1. r.exploded <=> op = "EXPLODE" \/ (q.exploded /\ op # "RESET_SIM")
    BY <1>2 DEF Follows
  <2>2. q.exploded <=> Stands(p.exploded, lines, 1..(m - 1), "EXPLODE", {"RESET_SIM"})
    BY DEF Heard
  <2>3. p.exploded \in BOOLEAN
    BY RocketParts
  <2> QED BY <1>4, <2>1, <2>2, <2>3
<1>7. r \in RocketStates /\ (Explained(p) => Explained(r)) /\ (Sound(p) => Sound(r))
  BY <1>2 DEF Heard, Follows
<1> QED BY <1>5, <1>6, <1>7 DEF Heard, r

LEMMA CmdsRead ==
  ASSUME NEW p \in RocketStates, NEW lines \in Seq(CmdLines)
  PROVE  Heard(p, FoldLeft(apply_cmd, p, lines), lines, Len(lines))
<1> DEFINE n == Len(lines)
           S == [m \in 0..n |-> {q \in RocketStates : Heard(p, q, lines, m)}]
<1>1. n \in Nat
  BY LenProperties
<1>2. PICK c : /\ c[0] = p /\ c[n] = FoldLeft(apply_cmd, p, lines)
               /\ \A m \in 0..n : c[m] \in RocketStates
               /\ \A m \in 1..n : c[m] = apply_cmd(c[m - 1], lines[m])
  BY CmdsChain
<1> HIDE DEF n
<1>3. c[0] \in S[0]
  <2>1. Heard(p, p, lines, 0)
    BY DEF Heard, Stands
  <2> QED BY <1>1, <1>2, <2>1
<1>4. ASSUME NEW m \in 1..n, c[m - 1] \in S[m - 1] PROVE c[m] \in S[m]
  <2>1. m \in 0..n /\ m - 1 \in 0..n /\ m \in Nat /\ m > 0
    BY <1>1
  <2>2. Heard(p, c[m - 1], lines, m - 1)
    BY <1>4, <2>1
  <2>3. Heard(p, c[m], lines, m)
    BY <1>2, <2>1, <2>2, HeardNext
  <2> QED BY <1>2, <2>1, <2>3
<1> HIDE DEF S
<1>5. \A m \in 0..n : c[m] \in S[m]
  BY <1>1, <1>3, <1>4, Climbing
<1>6. c[n] \in S[n] /\ n \in 0..n
  BY <1>1, <1>5
<1> QED BY <1>1, <1>2, <1>6 DEF S, n

(* What the first m lines of data make of p: telemetry and anomaly.        *)
Shown(p, q, lines, m) ==
  /\ q \in RocketStates
  /\ q.shown = p.shown /\ q.since = p.since /\ q.exploded = p.exploded
  /\ q.landing = p.landing
  /\ p.shown = {} =>
       (q.problem <=> Stands(p.problem, lines, 1..m, "PROBLEM_ON", {"PROBLEM_OFF"}))

LEMMA ShownNext ==
  ASSUME NEW p \in RocketStates, NEW q, NEW lines, NEW m \in Nat, m > 0,
         lines[m] \in DataLines, Shown(p, q, lines, m - 1)
  PROVE  Shown(p, apply_data(q, lines[m]), lines, m)
<1> DEFINE r == apply_data(q, lines[m])
           op == lines[m].op
<1>1. q \in RocketStates
  BY DEF Shown
<1>2. /\ r \in RocketStates
      /\ r.shown = q.shown /\ r.since = q.since /\ r.exploded = q.exploded
      /\ r.landing = q.landing
      /\ q.shown = {} => (r.problem <=> op = "PROBLEM_ON" \/ (q.problem /\ op # "PROBLEM_OFF"))
  BY <1>1, DataFacts
<1> HIDE DEF r
<1>3. 1..m = (1..(m - 1)) \cup {m} /\ (1..(m - 1)) \in SUBSET Nat /\ \A i \in 1..(m - 1) : i < m
  OBVIOUS
<1>4. p.problem \in BOOLEAN
  BY RocketParts
<1>5. Stands(p.problem, lines, 1..m, "PROBLEM_ON", {"PROBLEM_OFF"}) <=>
        \/ op = "PROBLEM_ON"
        \/ /\ Stands(p.problem, lines, 1..(m - 1), "PROBLEM_ON", {"PROBLEM_OFF"})
           /\ op \notin {"PROBLEM_OFF"}
  <2> DEFINE T == 1..(m - 1)
             on == "PROBLEM_ON"
             off == {"PROBLEM_OFF"}
  <2>1. T \in SUBSET Nat /\ \A i \in T : i < m
    BY <1>3
  <2>2. on \notin off
    OBVIOUS
  <2> HIDE DEF T, on, off
  <2>3. Stands(p.problem, lines, T \cup {m}, on, off) <=>
          op = on \/ (Stands(p.problem, lines, T, on, off) /\ op \notin off)
    BY <1>4, <2>1, <2>2, StandsStep
  <2> QED BY <1>3, <2>3 DEF T, on, off
<1> QED BY <1>2, <1>5 DEF Shown, r

LEMMA DataRead ==
  ASSUME NEW p \in RocketStates, NEW lines \in Seq(DataLines)
  PROVE  Shown(p, FoldLeft(apply_data, p, lines), lines, Len(lines))
<1> DEFINE n == Len(lines)
           S == [m \in 0..n |-> {q \in RocketStates : Shown(p, q, lines, m)}]
<1>1. n \in Nat /\ \A m \in 1..n : lines[m] \in DataLines
  BY LenProperties, ElementOfSeq
<1>2. PICK c : /\ c[0] = p /\ c[n] = FoldLeft(apply_data, p, lines)
               /\ \A m \in 0..n : c[m] \in RocketStates
               /\ \A m \in 1..n : c[m] = apply_data(c[m - 1], lines[m])
  BY DataChain
<1> HIDE DEF n
<1>3. c[0] \in S[0]
  <2>1. Shown(p, p, lines, 0)
    BY DEF Shown, Stands
  <2> QED BY <1>1, <1>2, <2>1
<1>4. ASSUME NEW m \in 1..n, c[m - 1] \in S[m - 1] PROVE c[m] \in S[m]
  <2>1. m \in 0..n /\ m - 1 \in 0..n /\ m \in Nat /\ m > 0
    BY <1>1
  <2>2. Shown(p, c[m - 1], lines, m - 1) /\ lines[m] \in DataLines
    BY <1>1, <1>4, <2>1
  <2>3. Shown(p, c[m], lines, m)
    BY <1>2, <2>1, <2>2, ShownNext
  <2> QED BY <1>2, <2>1, <2>3
<1> HIDE DEF S
<1>5. \A m \in 0..n : c[m] \in S[m]
  BY <1>1, <1>3, <1>4, Climbing
<1>6. c[n] \in S[n] /\ n \in 0..n
  BY <1>1, <1>5
<1> QED BY <1>1, <1>2, <1>6 DEF S, n

-----------------------------------------------------------------------------
(* Words in the same order say the same.                                   *)

(* e lists the positions S of w, in order, with the words q has at T.      *)
Lists(e, q, T, w, S) ==
  /\ T \in SUBSET Nat /\ S \in SUBSET Nat
  /\ \A i \in T : e[i] \in S /\ q[i].op = w[e[i]].op
  /\ \A k \in S : \E i \in T : e[i] = k
  /\ \A i, j \in T : i < j <=> e[i] < e[j]

LEMMA SameWords ==
  ASSUME NEW e, NEW q, NEW T, NEW w, NEW S, Lists(e, q, T, w, S)
  PROVE  /\ \A op : Has(q, T, op) <=> Has(w, S, op)
         /\ \A held \in BOOLEAN : \A on, off :
              Stands(held, q, T, on, off) <=> Stands(held, w, S, on, off)
         /\ \A on, off : Covered(q, T, on, off) <=> Covered(w, S, on, off)
         /\ \A held \in BOOLEAN : \A on, off :
              Alternating(held, w, S, on, off) => Alternating(held, q, T, on, off)
<1>1. /\ \A i \in T : e[i] \in S /\ q[i].op = w[e[i]].op
      /\ \A k \in S : \E i \in T : e[i] = k
      /\ \A i, j \in T : i < j <=> e[i] < e[j]
  BY DEF Lists
<1>2. ASSUME NEW op PROVE Has(q, T, op) <=> Has(w, S, op)
  BY <1>1 DEF Has
<1>3. ASSUME NEW held \in BOOLEAN, NEW on, NEW off
      PROVE  Stands(held, q, T, on, off) <=> Stands(held, w, S, on, off)
  <2>1. (\A i \in T : q[i].op \notin off) <=> (\A k \in S : w[k].op \notin off)
    BY <1>1
  <2>2. ASSUME NEW i \in T
        PROVE  (\A j \in T : i < j => q[j].op \notin off)
                 <=> (\A k \in S : e[i] < k => w[k].op \notin off)
    BY <1>1
  <2>3. (\E i \in T : q[i].op = on /\ \A j \in T : i < j => q[j].op \notin off)
          <=> (\E k \in S : w[k].op = on /\ \A j \in S : k < j => w[j].op \notin off)
    BY <1>1, <2>2
  <2> QED BY <2>1, <2>3 DEF Stands
<1>4. ASSUME NEW on, NEW off PROVE Covered(q, T, on, off) <=> Covered(w, S, on, off)
  <2>1. ASSUME NEW i \in T
        PROVE  (\E j \in T : i < j /\ q[j].op \in off)
                 <=> (\E k \in S : e[i] < k /\ w[k].op \in off)
    BY <1>1
  <2> QED BY <1>1, <2>1 DEF Covered
<1>5. ASSUME NEW held \in BOOLEAN, NEW on, NEW off, Alternating(held, w, S, on, off)
      PROVE  Alternating(held, q, T, on, off)
  <2> SUFFICES ASSUME NEW j \in T, q[j].op = on,
                      ~\E k \in T : j < k /\ q[k].op = "RESET_SIM"
               PROVE  /\ held => \E k \in T : k < j /\ q[k].op \in off
                      /\ \A i \in T : i < j /\ q[i].op = on =>
                           \E k \in T : i < k /\ k < j /\ q[k].op \in off
    BY DEF Alternating
  <2>1. e[j] \in S /\ w[e[j]].op = on
    BY <1>1
  <2>2. ~\E k \in S : e[j] < k /\ w[k].op = "RESET_SIM"
    BY <1>1
  <2>3. /\ held => \E k \in S : k < e[j] /\ w[k].op \in off
        /\ \A i \in S : i < e[j] /\ w[i].op = on =>
             \E k \in S : i < k /\ k < e[j] /\ w[k].op \in off
    BY <1>5, <2>1, <2>2 DEF Alternating
  <2>4. held => \E k \in T : k < j /\ q[k].op \in off
    BY <1>1, <2>3
  <2>5. ASSUME NEW i \in T, i < j, q[i].op = on
        PROVE  \E k \in T : i < k /\ k < j /\ q[k].op \in off
    <3>1. e[i] \in S /\ e[i] < e[j] /\ w[e[i]].op = on
      BY <1>1, <2>5
    <3>2. PICK k \in S : e[i] < k /\ k < e[j] /\ w[k].op \in off
      BY <2>3, <3>1
    <3>3. PICK h \in T : e[h] = k
      BY <1>1
    <3> QED BY <1>1, <3>2, <3>3
  <2> QED BY <2>4, <2>5
<1> QED BY <1>2, <1>3, <1>4, <1>5

(* e lists the positions T of the wire, in order, with the lines of q.     *)
Enumerates(e, q, T) ==
  /\ q \in Seq(Lines)
  /\ \A i \in DOMAIN q : e[i] \in T /\ q[i] = wire[e[i]]
  /\ \A k \in T : \E i \in DOMAIN q : e[i] = k
  /\ \A i, j \in DOMAIN q : i < j <=> e[i] < e[j]

LEMMA EnumeratesNext ==
  ASSUME wire \in Seq(Lines), NEW T \in SUBSET Nat, NEW m \in 1..Len(wire),
         \A k \in T : k < m,
         NEW e, NEW q, Enumerates(e, q, T)
  PROVE  \E d : Enumerates(d, Append(q, wire[m]), T \cup {m})
<1> DEFINE n == Len(q)
           r == Append(q, wire[m])
           d == [i \in 1..(n + 1) |-> IF i = n + 1 THEN m ELSE e[i]]
<1>1. n \in Nat /\ q \in Seq(Lines) /\ DOMAIN q = 1..n
  BY LenProperties DEF Enumerates
<1>2. wire[m] \in Lines /\ m \in Nat
  BY ElementOfSeq, LenProperties
<1>3. r \in Seq(Lines) /\ Len(r) = n + 1 /\ r[n + 1] = wire[m] /\ \A i \in 1..n : r[i] = q[i]
  BY <1>1, <1>2, AppendProperties
<1>4. DOMAIN r = 1..(n + 1)
  BY <1>3, LenProperties
<1>5. d[n + 1] = m /\ \A i \in 1..n : d[i] = e[i] /\ i # n + 1
  BY <1>1
<1> HIDE DEF n, r, d
<1>6. /\ \A i \in 1..n : e[i] \in T /\ q[i] = wire[e[i]]
      /\ \A k \in T : \E i \in 1..n : e[i] = k
      /\ \A i, j \in 1..n : i < j <=> e[i] < e[j]
  BY <1>1 DEF Enumerates
<1>7. \A i \in 1..(n + 1) : i \in 1..n \/ i = n + 1
  BY <1>1
<1>8. n + 1 \in 1..(n + 1) /\ \A i \in 1..n : i \in 1..(n + 1) /\ i < n + 1 /\ ~(n + 1 < i)
  BY <1>1
<1>9. \A i \in DOMAIN r : d[i] \in T \cup {m} /\ r[i] = wire[d[i]]
  BY <1>3, <1>4, <1>5, <1>6, <1>7
<1>10. \A k \in T \cup {m} : \E i \in DOMAIN r : d[i] = k
  BY <1>4, <1>5, <1>6, <1>8
<1>11. ASSUME NEW i \in DOMAIN r, NEW j \in DOMAIN r PROVE i < j <=> d[i] < d[j]
  <2>1. CASE i \in 1..n /\ j \in 1..n
    BY <1>5, <1>6, <2>1
  <2>2. CASE i \in 1..n /\ j = n + 1
    <3>1. d[i] < m /\ d[j] = m
      BY <1>5, <1>6, <2>2
    <3> QED BY <1>8, <2>2, <3>1
  <2>3. CASE i = n + 1 /\ j \in 1..n
    <3>1. d[j] < m /\ d[i] = m /\ d[j] \in Nat
      BY <1>5, <1>6, <2>3
    <3>2. ~(m < d[j])
      BY <1>2, <3>1
    <3> QED BY <1>8, <2>3, <3>1, <3>2
  <2>4. CASE i = n + 1 /\ j = n + 1
    BY <1>1, <1>2, <1>5, <2>4
  <2> QED BY <1>4, <1>7, <2>1, <2>2, <2>3, <2>4
<1>12. Enumerates(d, r, T \cup {m})
  BY <1>3, <1>9, <1>10, <1>11 DEF Enumerates
<1> QED BY <1>12 DEF r

LEMMA PickedFacts ==
  ASSUME wire \in Seq(Lines), NEW S \in SUBSET (DOMAIN wire)
  PROVE  \E e : Enumerates(e, Picked(S), S)
<1> DEFINE n == Len(wire)
           G == [m \in 0..n |-> {q \in Seq(Lines) : \E e : Enumerates(e, q, S \cap (1..m))}]
<1>1. n \in Nat /\ DOMAIN wire = 1..n
  BY LenProperties
<1>2. PICK c : /\ c[0] = << >> /\ c[n] = Picked(S)
               /\ \A m \in 0..n : c[m] \in Seq(Lines)
               /\ \A m \in 1..n : c[m] = IF m \in S THEN Append(c[m - 1], wire[m]) ELSE c[m - 1]
  BY PickedChain
<1>3. c[0] \in G[0]
  <2>1. Enumerates(<< >>, << >>, S \cap (1..0))
    BY EmptySeq DEF Enumerates
  <2> QED BY <1>1, <1>2, <2>1, EmptySeq
<1>4. ASSUME NEW m \in 1..n, c[m - 1] \in G[m - 1] PROVE c[m] \in G[m]
  <2>1. m \in 0..n /\ m - 1 \in 0..n
    BY <1>1
  <2>2. PICK e : Enumerates(e, c[m - 1], S \cap (1..(m - 1)))
    BY <1>4, <2>1
  <2>3. CASE m \in S
    <3> DEFINE T == S \cap (1..(m - 1))
    <3>1. T \in SUBSET Nat /\ \A k \in T : k < m
      BY <1>1
    <3>2. S \cap (1..m) = T \cup {m}
      BY <1>1, <2>3
    <3> HIDE DEF T
    <3>3. \E d : Enumerates(d, Append(c[m - 1], wire[m]), T \cup {m})
      BY <2>2, <3>1, EnumeratesNext DEF T
    <3>4. \E d : Enumerates(d, c[m], S \cap (1..m))
      BY <1>2, <2>3, <3>2, <3>3
    <3> QED BY <1>2, <2>1, <3>4
  <2>4. CASE m \notin S
    <3>1. S \cap (1..m) = S \cap (1..(m - 1)) /\ c[m] = c[m - 1]
      BY <1>1, <1>2, <2>4
    <3>2. \E d : Enumerates(d, c[m], S \cap (1..m))
      BY <2>2, <3>1
    <3> QED BY <1>2, <2>1, <3>2
  <2> QED BY <2>3, <2>4
<1> HIDE DEF G
<1>5. \A m \in 0..n : c[m] \in G[m]
  BY <1>1, <1>3, <1>4, Climbing
<1>6. c[n] \in G[n] /\ n \in 0..n
  BY <1>1, <1>5
<1>7. \E e : Enumerates(e, c[n], S \cap (1..n))
  BY <1>6 DEF G
<1>8. S \cap (1..n) = S
  BY <1>1
<1> QED BY <1>2, <1>7, <1>8

(* What the lines picked say is what those of the wire say.                *)
LEMMA PickedWords ==
  ASSUME wire \in Seq(Lines), NEW S \in SUBSET (DOMAIN wire)
  PROVE  LET q == Picked(S)
             T == DOMAIN q
         IN
         /\ q \in Seq(Lines)
         /\ \A i \in T : \E k \in S : q[i] = wire[k]
         /\ \A op : Has(q, T, op) <=> Has(wire, S, op)
         /\ \A held \in BOOLEAN : \A on, off :
              Stands(held, q, T, on, off) <=> Stands(held, wire, S, on, off)
         /\ \A on, off : Covered(q, T, on, off) <=> Covered(wire, S, on, off)
         /\ \A held \in BOOLEAN : \A on, off :
              Alternating(held, wire, S, on, off) => Alternating(held, q, T, on, off)
<1> DEFINE q == Picked(S)
           T == DOMAIN q
<1>1. PICK e : Enumerates(e, q, S)
  BY PickedFacts
<1> HIDE DEF q
<1>2. q \in Seq(Lines) /\ \A i \in T : \E k \in S : q[i] = wire[k]
  BY <1>1 DEF Enumerates
<1>3. T \in SUBSET Nat /\ S \in SUBSET Nat
  BY <1>2, LenProperties
<1>4. Lists(e, q, T, wire, S)
  BY <1>1, <1>3 DEF Enumerates, Lists
<1>5. /\ \A op : Has(q, T, op) <=> Has(wire, S, op)
      /\ \A held \in BOOLEAN : \A on, off :
           Stands(held, q, T, on, off) <=> Stands(held, wire, S, on, off)
      /\ \A on, off : Covered(q, T, on, off) <=> Covered(wire, S, on, off)
      /\ \A held \in BOOLEAN : \A on, off :
           Alternating(held, wire, S, on, off) => Alternating(held, q, T, on, off)
  BY <1>4, SameWords
<1> QED BY <1>2, <1>5 DEF q

-----------------------------------------------------------------------------
(* One line that is written.                                               *)

(* What the line op, written after w, changes.                             *)
Said(w, u, op) ==
  /\ u \in Seq(Lines)
  /\ \A o : Has(u, DOMAIN u, o) <=> Has(w, DOMAIN w, o) \/ op = o
  /\ \A f \in Faults : Faulty(u, f) <=> op = Fault[f] \/ (Faulty(w, f) /\ op \notin Offs(f))
  /\ Doomed(u) <=> op = "EXPLODE" \/ (Doomed(w) /\ op # "RESET_SIM")
  /\ DoomOver(u) <=> op = "RESET_SIM" \/ (DoomOver(w) /\ op # "EXPLODE")
  /\ CycleOver(u) <=> op = "PROBLEM_OFF" \/ (CycleOver(w) /\ op # "PROBLEM_ON")
  /\ \A f \in Faults :
       op = "RESET_SIM" \/ (Turns(w, f) /\ (op = Fault[f] => ~Faulty(w, f))) => Turns(u, f)

LEMMA CoveredStep ==
  ASSUME NEW w, NEW S \in SUBSET Nat, NEW k \in Nat, NEW on, NEW off,
         \A i \in S : i < k, on \notin off
  PROVE  Covered(w, S \cup {k}, on, off) <=>
           w[k].op \in off \/ (Covered(w, S, on, off) /\ w[k].op # on)
<1>1. k \notin S /\ \A i \in S : ~(k < i)
  OBVIOUS
<1>2. ASSUME w[k].op \in off PROVE Covered(w, S \cup {k}, on, off)
  BY <1>2 DEF Covered
<1>3. ASSUME Covered(w, S, on, off), w[k].op # on PROVE Covered(w, S \cup {k}, on, off)
  BY <1>3 DEF Covered
<1>4. ASSUME Covered(w, S \cup {k}, on, off), w[k].op \notin off
      PROVE  Covered(w, S, on, off) /\ w[k].op # on
  <2>1. w[k].op # on
    <3>1. \A i \in S \cup {k} : ~(k < i)
      BY <1>1
    <3> QED BY <1>4, <3>1 DEF Covered
  <2> QED BY <1>4, <2>1 DEF Covered
<1> QED BY <1>2, <1>3, <1>4

LEMMA AlternatingStep ==
  ASSUME NEW held \in BOOLEAN, NEW w, NEW S \in SUBSET Nat, NEW k \in Nat, NEW on, NEW off,
         \A i \in S : i < k, on # "RESET_SIM",
         \/ w[k].op = "RESET_SIM"
         \/ /\ Alternating(held, w, S, on, off)
            /\ w[k].op = on => ~Stands(held, w, S, on, off)
  PROVE  Alternating(held, w, S \cup {k}, on, off)
<1>1. k \notin S /\ \A i \in S : ~(k < i)
  OBVIOUS
<1>2. CASE w[k].op = "RESET_SIM"
  BY <1>2 DEF Alternating
<1>3. CASE /\ Alternating(held, w, S, on, off)
           /\ w[k].op = on => ~Stands(held, w, S, on, off)
  <2> SUFFICES ASSUME NEW j \in S \cup {k}, w[j].op = on
               PROVE  \/ \E i \in S \cup {k} : j < i /\ w[i].op = "RESET_SIM"
                      \/ /\ held => \E h \in S \cup {k} : h < j /\ w[h].op \in off
                         /\ \A i \in S \cup {k} : i < j /\ w[i].op = on =>
                              \E h \in S \cup {k} : i < h /\ h < j /\ w[h].op \in off
    BY DEF Alternating
  <2>1. CASE j \in S
    <3>1. \A i \in S \cup {k} : i < j => i \in S
      BY <1>1, <2>1
    <3>2. \/ \E i \in S : j < i /\ w[i].op = "RESET_SIM"
          \/ /\ held => \E h \in S : h < j /\ w[h].op \in off
             /\ \A i \in S : i < j /\ w[i].op = on =>
                  \E h \in S : i < h /\ h < j /\ w[h].op \in off
      BY <1>3, <2>1 DEF Alternating
    <3> QED BY <3>1, <3>2
  <2>2. CASE j = k
    <3>1. ~Stands(held, w, S, on, off)
      BY <1>3, <2>2
    <3>2. held => \E i \in S : w[i].op \in off
      BY <3>1 DEF Stands
    <3>3. \A i \in S : w[i].op = on => \E h \in S : i < h /\ w[h].op \in off
      BY <3>1 DEF Stands
    <3>4. \A i \in S \cup {k} : i < j => i \in S
      BY <1>1, <2>2
    <3>5. \A i \in S : i < j
      BY <2>2
    <3> QED BY <3>2, <3>3, <3>4, <3>5
  <2> QED BY <2>1, <2>2
<1> QED BY <1>2, <1>3

LEMMA SaidLine ==
  ASSUME st \in RocketStates, NEW w \in Seq(Lines), NEW l \in Lines
  PROVE  Said(w, Append(w, l), l.op)
<1> DEFINE n == Len(w)
           u == Append(w, l)
           S == DOMAIN w
           k == n + 1
           op == l.op
           e == [i \in S |-> i]
<1>1. n \in Nat /\ S = 1..n
  BY LenProperties
<1>2. /\ u \in Seq(Lines) /\ Len(u) = n + 1 /\ u[n + 1] = l
      /\ \A i \in 1..n : u[i] = w[i]
  BY AppendProperties
<1>3. DOMAIN u = S \cup {k} /\ S \in SUBSET Nat /\ k \in Nat /\ \A i \in S : i < k
  BY <1>1, <1>2, LenProperties
<1>4. Lists(e, u, S, w, S)
  BY <1>1, <1>2, <1>3 DEF Lists
<1>5. u[k].op = op
  BY <1>2
<1> HIDE DEF u, S, k, op, n, e
<1>6. /\ \A o : Has(u, S, o) <=> Has(w, S, o)
      /\ \A held \in BOOLEAN : \A on, off :
           Stands(held, u, S, on, off) <=> Stands(held, w, S, on, off)
      /\ \A on, off : Covered(u, S, on, off) <=> Covered(w, S, on, off)
      /\ \A held \in BOOLEAN : \A on, off :
           Alternating(held, w, S, on, off) => Alternating(held, u, S, on, off)
  BY <1>4, SameWords
<1>7. \A o : Has(u, DOMAIN u, o) <=> Has(w, S, o) \/ op = o
  <2>1. \A o : Has(u, S \cup {k}, o) <=> Has(u, S, o) \/ u[k].op = o
    BY DEF Has
  <2> QED BY <1>3, <1>5, <1>6, <2>1
<1>8. ASSUME NEW held \in BOOLEAN, NEW on, NEW off, on \notin off
      PROVE  Stands(held, u, DOMAIN u, on, off) <=>
               op = on \/ (Stands(held, w, S, on, off) /\ op \notin off)
  <2>1. Stands(held, u, S \cup {k}, on, off) <=>
          u[k].op = on \/ (Stands(held, u, S, on, off) /\ u[k].op \notin off)
    BY <1>3, <1>8, StandsStep
  <2> QED BY <1>3, <1>5, <1>6, <2>1
<1>9. ASSUME NEW on, NEW off, on \notin off
      PROVE  Covered(u, DOMAIN u, on, off) <=> op \in off \/ (Covered(w, S, on, off) /\ op # on)
  <2>1. Covered(u, S \cup {k}, on, off) <=>
          u[k].op \in off \/ (Covered(u, S, on, off) /\ u[k].op # on)
    BY <1>3, <1>9, CoveredStep
  <2> QED BY <1>3, <1>5, <1>6, <2>1
<1>10. ASSUME NEW held \in BOOLEAN, NEW on, NEW off, on # "RESET_SIM",
              \/ op = "RESET_SIM"
              \/ Alternating(held, w, S, on, off) /\ (op = on => ~Stands(held, w, S, on, off))
       PROVE  Alternating(held, u, DOMAIN u, on, off)
  <2>1. \/ u[k].op = "RESET_SIM"
        \/ /\ Alternating(held, u, S, on, off)
           /\ u[k].op = on => ~Stands(held, u, S, on, off)
    BY <1>5, <1>6, <1>10
  <2>2. Alternating(held, u, S \cup {k}, on, off)
    BY <1>3, <1>10, <2>1, AlternatingStep
  <2> QED BY <1>3, <2>2
<1>11. ASSUME NEW f \in Faults
       PROVE  /\ Faulty(u, f) <=> op = Fault[f] \/ (Faulty(w, f) /\ op \notin Offs(f))
              /\ op = "RESET_SIM" \/ (Turns(w, f) /\ (op = Fault[f] => ~Faulty(w, f)))
                   => Turns(u, f)
  <2> DEFINE held == f \in st.shown
             on == Fault[f]
             off == Offs(f)
  <2>1. held \in BOOLEAN /\ on \notin off /\ on # "RESET_SIM"
    BY WordFacts
  <2>2. /\ Faulty(u, f) <=> Stands(held, u, DOMAIN u, on, off)
        /\ Faulty(w, f) <=> Stands(held, w, S, on, off)
        /\ Turns(u, f) <=> Alternating(held, u, DOMAIN u, on, off)
        /\ Turns(w, f) <=> Alternating(held, w, S, on, off)
    BY Zenon DEF Faulty, Turns, S
  <2> HIDE DEF held, on, off
  <2>3. Stands(held, u, DOMAIN u, on, off) <=>
          op = on \/ (Stands(held, w, S, on, off) /\ op \notin off)
    BY <1>8, <2>1
  <2>4. \/ op = "RESET_SIM"
        \/ Alternating(held, w, S, on, off) /\ (op = on => ~Stands(held, w, S, on, off))
        => Alternating(held, u, DOMAIN u, on, off)
    BY <1>10, <2>1
  <2> QED BY <2>2, <2>3, <2>4 DEF on, off
<1>12. Doomed(u) <=> op = "EXPLODE" \/ (Doomed(w) /\ op # "RESET_SIM")
  <2>1. st.exploded \in BOOLEAN
    BY RocketParts
  <2>2. "EXPLODE" \notin {"RESET_SIM"}
    OBVIOUS
  <2> QED BY <1>8, <2>1, <2>2 DEF Doomed, S
<1>13. DoomOver(u) <=> op = "RESET_SIM" \/ (DoomOver(w) /\ op # "EXPLODE")
  BY <1>9 DEF DoomOver, S
<1>14. CycleOver(u) <=> op = "PROBLEM_OFF" \/ (CycleOver(w) /\ op # "PROBLEM_ON")
  BY <1>9 DEF CycleOver, S
<1>15. u \in Seq(Lines)
  BY <1>2
<1>16. \A o : Has(u, DOMAIN u, o) <=> Has(w, DOMAIN w, o) \/ op = o
  BY <1>7 DEF S
<1> QED BY <1>11, <1>12, <1>13, <1>14, <1>15, <1>16 DEF Said, u, op

-----------------------------------------------------------------------------
(* Lines written by a push.                                                *)

LEMMA PlainFacts ==
  ASSUME NEW a, NEW b, NEW c
  PROVE  /\ Plain(<<a>>) = <<Line(a)>>
         /\ Plain(<<a, b>>) = <<Line(a), Line(b)>>
         /\ Plain(<<a, b, c>>) = <<Line(a), Line(b), Line(c)>>
BY DEF Plain

LEMMA TupleFacts ==
  ASSUME NEW a, NEW b, NEW c
  PROVE  Append(<<a>>, b) = <<a, b>> /\ Append(<<a, b>>, c) = <<a, b, c>>
<1> DEFINE S == {a, b, c}
<1>1. /\ <<a>> \in Seq(S) /\ Len(<<a>>) = 1
      /\ <<a, b>> \in Seq(S) /\ Len(<<a, b>>) = 2
      /\ <<a, b, c>> \in Seq(S) /\ Len(<<a, b, c>>) = 3
  OBVIOUS
<1>2. Append(<<a>>, b) = <<a, b>>
  <2> DEFINE u == Append(<<a>>, b)
  <2>1. u \in Seq(S) /\ Len(u) = 2 /\ u[1] = a /\ u[2] = b
    BY <1>1, AppendProperties
  <2> HIDE DEF u, S
  <2>2. \A i \in 1..Len(u) : u[i] = <<a, b>>[i]
    BY <2>1
  <2>3. u = <<a, b>>
    BY <1>1, <2>1, <2>2, SeqEqual
  <2> QED BY <2>3 DEF u
<1>3. Append(<<a, b>>, c) = <<a, b, c>>
  <2> DEFINE u == Append(<<a, b>>, c)
  <2>1. u \in Seq(S) /\ Len(u) = 3 /\ u[1] = a /\ u[2] = b /\ u[3] = c
    BY <1>1, AppendProperties
  <2> HIDE DEF u, S
  <2>2. \A i \in 1..Len(u) : u[i] = <<a, b, c>>[i]
    BY <2>1
  <2>3. u = <<a, b, c>>
    BY <1>1, <2>1, <2>2, SeqEqual
  <2> QED BY <2>3 DEF u
<1> QED BY <1>2, <1>3

(* The commands and data the satellite's messages become.                  *)
Ops == {"LAUNCH_OK", "LAND", "RESET_SIM", "CLEAR_ALERTS", "EXPLODE", "PROBLEM_ON", "PROBLEM_OFF"}
         \cup {Fault[f] : f \in Faults} \cup {FaultOff[f] : f \in Faults}

LEMMA OpLines ==
  ASSUME NEW op \in Ops
  PROVE  Line(op) \in Lines /\ Line(op).op = op
<1>1. Line(op) \in Lines
  <2>1. CASE op \in {"PROBLEM_ON", "PROBLEM_OFF"}
    BY <2>1 DEF Lines, DataLines
  <2>2. CASE op \in {"LAUNCH_OK", "LAND", "RESET_SIM", "CLEAR_ALERTS", "EXPLODE"}
                   \cup {Fault[f] : f \in Faults} \cup {FaultOff[f] : f \in Faults}
    BY <2>2, Zenon DEF Lines, CmdLines
  <2>3. \/ op \in {"PROBLEM_ON", "PROBLEM_OFF"}
        \/ op \in {"LAUNCH_OK", "LAND", "RESET_SIM", "CLEAR_ALERTS", "EXPLODE"}
        \/ op \in {Fault[f] : f \in Faults} \/ op \in {FaultOff[f] : f \in Faults}
    BY DEF Ops
  <2> QED BY <2>1, <2>2, <2>3, Zenon
<1>2. Line(op).op = op
  BY DEF Line
<1> QED BY <1>1, <1>2

LEMMA WroteOne ==
  ASSUME st \in RocketStates, NEW w \in Seq(Lines), NEW a \in Ops
  PROVE  Said(w, w \o Plain(<<a>>), a)
<1>1. Line(a) \in Lines /\ Line(a).op = a
  BY OpLines
<1>2. w \o Plain(<<a>>) = Append(w, Line(a))
  <2>1. Plain(<<a>>) = <<Line(a)>>
    BY PlainFacts
  <2> QED BY <1>1, <2>1, AppendIsConcat
<1>3. Said(w, Append(w, Line(a)), Line(a).op)
  BY <1>1, SaidLine
<1> QED BY <1>1, <1>2, <1>3

LEMMA WroteTwo ==
  ASSUME st \in RocketStates, NEW w \in Seq(Lines), NEW a \in Ops, NEW b \in Ops
  PROVE  \E v : Said(w, v, a) /\ Said(v, w \o Plain(<<a, b>>), b)
<1> DEFINE v == w \o Plain(<<a>>)
           x == <<Line(a)>>
           y == <<Line(b)>>
<1>1. Said(w, v, a)
  BY WroteOne
<1>2. v \in Seq(Lines)
  BY <1>1 DEF Said
<1>3. Said(v, v \o Plain(<<b>>), b)
  BY <1>2, WroteOne
<1>4. w \o Plain(<<a, b>>) = v \o Plain(<<b>>)
  <2>1. Plain(<<a, b>>) = <<Line(a), Line(b)>> /\ Plain(<<a>>) = x /\ Plain(<<b>>) = y
    BY PlainFacts
  <2>2. x \in Seq(Lines) /\ y \in Seq(Lines)
    BY OpLines
  <2>3. x \o y = <<Line(a), Line(b)>>
    <3>1. Append(x, Line(b)) = <<Line(a), Line(b)>>
      BY TupleFacts
    <3> QED BY <2>2, <3>1, OpLines, AppendIsConcat
  <2>4. (w \o x) \o y = w \o (x \o y)
    BY <2>2, ConcatAssociative
  <2> QED BY <2>1, <2>3, <2>4
<1> QED BY <1>1, <1>3, <1>4

LEMMA WroteThree ==
  ASSUME st \in RocketStates, NEW w \in Seq(Lines), NEW a \in Ops, NEW b \in Ops, NEW c \in Ops
  PROVE  \E u, v : Said(w, u, a) /\ Said(u, v, b) /\ Said(v, w \o Plain(<<a, b, c>>), c)
<1> DEFINE v == w \o Plain(<<a, b>>)
           x == <<Line(a), Line(b)>>
           y == <<Line(c)>>
<1>1. PICK u : Said(w, u, a) /\ Said(u, v, b)
  BY WroteTwo
<1>2. v \in Seq(Lines)
  BY <1>1 DEF Said
<1>3. Said(v, v \o Plain(<<c>>), c)
  BY <1>2, WroteOne
<1>4. w \o Plain(<<a, b, c>>) = v \o Plain(<<c>>)
  <2>1. Plain(<<a, b, c>>) = <<Line(a), Line(b), Line(c)>> /\ Plain(<<a, b>>) = x
        /\ Plain(<<c>>) = y
    BY PlainFacts
  <2>2. x \in Seq(Lines) /\ y \in Seq(Lines)
    BY OpLines
  <2>3. x \o y = <<Line(a), Line(b), Line(c)>>
    <3>1. Append(x, Line(c)) = <<Line(a), Line(b), Line(c)>>
      BY TupleFacts
    <3> QED BY <2>2, <3>1, OpLines, AppendIsConcat
  <2>4. (w \o x) \o y = w \o (x \o y)
    BY <2>2, ConcatAssociative
  <2> QED BY <2>1, <2>3, <2>4
<1> HIDE DEF v
<1>5. Said(w, u, a) /\ Said(u, v, b) /\ Said(v, w \o Plain(<<a, b, c>>), c)
  BY <1>1, <1>3, <1>4
<1> QED BY <1>5

LEMMA OpsAre ==
  /\ {"LAUNCH_OK", "LAND", "RESET_SIM", "CLEAR_ALERTS", "EXPLODE", "PROBLEM_ON", "PROBLEM_OFF"}
       \subseteq Ops
  /\ \A f \in Faults : Fault[f] \in Ops /\ FaultOff[f] \in Ops
BY Zenon DEF Ops

-----------------------------------------------------------------------------
(* The satellite, the controller and time leave the screen alone.          *)

LEMMA SameScreen ==
  ASSUME st' = st
  PROVE  /\ FaultsFollow' <=> \A f \in Faults : f \in open' <=> Faulty(wire', f)
         /\ LossFollows' <=> (phase' = "EXPLODED" => Doomed(wire'))
         /\ LossIsNews' <=> phase' = "EXPLODED" \/ DoomOver(wire')
         /\ PressureFollows' <=> pressure' = "fault" \/ CycleOver(wire')
         /\ AnomalyFollows' <=> \/ Explained(st) \/ pressure' = "fault"
                                \/ Has(wire', DOMAIN wire', "PROBLEM_OFF")
         /\ FaultsAlternate' <=> \A f \in Faults : Turns(wire', f)
         /\ TimersFollow' <=>
              \A f \in open' \cap st.shown :
                ~Has(wire', DOMAIN wire', Fault[f]) /\ phase' # "EXPLODED"
                  => st.since[f] <= clock'[f] + (IF framed' THEN 1 ELSE 0)
<1>1. FaultsFollow' <=> \A f \in Faults : f \in open' <=> Faulty(wire', f)
  BY DEF FaultsFollow, Faulty
<1>2. LossFollows' <=> (phase' = "EXPLODED" => Doomed(wire'))
  BY DEF LossFollows, Doomed
<1>3. LossIsNews' <=> phase' = "EXPLODED" \/ DoomOver(wire')
  BY DEF LossIsNews, DoomOver
<1>4. PressureFollows' <=> pressure' = "fault" \/ CycleOver(wire')
  BY DEF PressureFollows, CycleOver
<1>5. AnomalyFollows' <=> \/ Explained(st) \/ pressure' = "fault"
                          \/ Has(wire', DOMAIN wire', "PROBLEM_OFF")
  BY DEF AnomalyFollows
<1>6. FaultsAlternate' <=> \A f \in Faults : Turns(wire', f)
  BY DEF FaultsAlternate, Turns
<1>7. TimersFollow' <=>
        \A f \in open' \cap st.shown :
          ~Has(wire', DOMAIN wire', Fault[f]) /\ phase' # "EXPLODED"
            => st.since[f] <= clock'[f] + (IF framed' THEN 1 ELSE 0)
  BY DEF TimersFollow
<1> QED BY <1>1, <1>2, <1>3, <1>4, <1>5, <1>6, <1>7

LEMMA BasicsKept ==
  ASSUME Basics, st' = st, framed' \in BOOLEAN, wire' \in Seq(Lines),
         phase' \in {"READY", "FLYING", "EMERGENCY", "EXPLODED"}, open' \subseteq Faults,
         pressure' \in {"nominal", "fault", "corrected"},
         clock' \in [Faults -> Off..FaultFrames],
         up' \in BOOLEAN, notified' \in BOOLEAN, moving' \in BOOLEAN, untold' \in BOOLEAN,
         \A f \in open' : clock'[f] = Off => phase' = "EXPLODED"
  PROVE  Basics'
<1>1. TypeOK'
  BY DEF Basics, TypeOK, Lines
<1>2. Sound(st)' /\ Lit(st)'
  BY DEF Basics
<1> QED BY <1>1, <1>2 DEF Basics

(* Lines that say nothing of faults, loss or pressure.                     *)
Mute(w, u) ==
  /\ u \in Seq(Lines)
  /\ \A o \in {"PROBLEM_OFF", "FAULT1", "FAULT2"} :
       Has(u, DOMAIN u, o) <=> Has(w, DOMAIN w, o)
  /\ \A f \in Faults : Faulty(u, f) <=> Faulty(w, f)
  /\ Doomed(u) <=> Doomed(w)
  /\ DoomOver(u) <=> DoomOver(w)
  /\ CycleOver(u) <=> CycleOver(w)
  /\ \A f \in Faults : Turns(w, f) => Turns(u, f)

LEMMA MuteOps ==
  ASSUME NEW w, NEW u, NEW op \in {"LAUNCH_OK", "LAND", "CLEAR_ALERTS", "SET"}, Said(w, u, op)
  PROVE  Mute(w, u)
<1>1. \A f \in Faults : op # Fault[f] /\ op \notin Offs(f)
  BY WordFacts DEF Offs
<1> QED BY <1>1 DEF Said, Mute

LEMMA MuteTwice ==
  ASSUME NEW w, NEW u, NEW v, Mute(w, u), Mute(u, v)
  PROVE  Mute(w, v)
BY DEF Mute

LEMMA MuteSame ==
  ASSUME wire \in Seq(Lines)
  PROVE  Mute(wire, wire)
BY DEF Mute

LEMMA InvFacts ==
  ASSUME IInv
  PROVE  /\ TypeOK /\ st \in RocketStates /\ wire \in Seq(Lines)
         /\ ~untold => Informed
BY DEF IInv, Basics, TypeOK, Lines

LEMMA FirstClock ==
  /\ [f \in Faults |-> Off] \in [Faults -> Off..FaultFrames]
  /\ Off \in Off..FaultFrames /\ 0 \in Off..FaultFrames /\ Off # 0
BY DashboardAssumption DEF Off

LEMMA LaunchKeyKeeps ==
  ASSUME IInv, LaunchKey
  PROVE  IInv'
<1> USE DEF LaunchKey, mission
<1>1. Basics'
  BY InvFacts, BasicsKept DEF IInv, Basics, TypeOK
<1>2. ~untold' => Informed'
  <2> SUFFICES ASSUME ~untold' PROVE Informed'
    OBVIOUS
  <2>1. Informed
    BY InvFacts
  <2> QED BY <2>1, SameScreen
       DEF Informed, FaultsFollow, LossFollows, LossIsNews, PressureFollows, AnomalyFollows,
           FaultsAlternate, TimersFollow
<1> QED BY <1>1, <1>2 DEF IInv

LEMMA ReconnectKeeps ==
  ASSUME IInv, Reconnect
  PROVE  IInv'
<1> USE DEF Reconnect, mission
<1>1. Basics'
  BY InvFacts, BasicsKept DEF IInv, Basics, TypeOK
<1>2. ~untold' => Informed'
  <2> SUFFICES ASSUME ~untold' PROVE Informed'
    OBVIOUS
  <2>1. Informed
    BY InvFacts
  <2> QED BY <2>1, SameScreen
       DEF Informed, FaultsFollow, LossFollows, LossIsNews, PressureFollows, AnomalyFollows,
           FaultsAlternate, TimersFollow
<1> QED BY <1>1, <1>2 DEF IInv

LEMMA CutKeeps ==
  ASSUME IInv, Cut
  PROVE  IInv'
<1>1. /\ st' = st /\ framed' = framed /\ wire' = wire /\ notified' = notified
      /\ moving' = moving /\ up' = FALSE
      /\ \/ phase' = phase /\ open' = open /\ pressure' = pressure /\ clock' = clock
            /\ untold' = untold
         \/ /\ phase' = "READY" /\ open' = {} /\ pressure' = "nominal"
            /\ clock' = [f \in Faults |-> Off] /\ untold' = TRUE
  BY DEF Cut, mission, Mission!Reset
<1>2. Basics'
  BY <1>1, InvFacts, BasicsKept, FirstClock DEF IInv, Basics, TypeOK
<1>3. ~untold' => Informed'
  <2> SUFFICES ASSUME ~untold' PROVE Informed'
    OBVIOUS
  <2>1. Informed
    BY <1>1, InvFacts
  <2> QED BY <1>1, <2>1, SameScreen
       DEF Informed, FaultsFollow, LossFollows, LossIsNews, PressureFollows, AnomalyFollows,
           FaultsAlternate, TimersFollow
<1> QED BY <1>2, <1>3 DEF IInv

LEMMA TouchdownKeeps ==
  ASSUME IInv, Touchdown
  PROVE  IInv'
<1>1. /\ st' = st /\ framed' = framed /\ wire' = wire /\ moving' = moving /\ up' = up
      /\ untold' = untold /\ notified' = (notified /\ ~up)
      /\ phase = "EMERGENCY" /\ phase' = "READY" /\ open' = open
      /\ pressure' = pressure /\ clock' = clock
  BY DEF Touchdown, Mission!Touchdown
<1>2. Basics'
  BY <1>1, InvFacts, BasicsKept DEF IInv, Basics, TypeOK
<1>3. ~untold' => Informed'
  <2> SUFFICES ASSUME ~untold' PROVE Informed'
    OBVIOUS
  <2>1. Informed
    BY <1>1, InvFacts
  <2> QED BY <1>1, <2>1, SameScreen
       DEF Informed, FaultsFollow, LossFollows, LossIsNews, PressureFollows, AnomalyFollows,
           FaultsAlternate, TimersFollow
<1> QED BY <1>2, <1>3 DEF IInv

LEMMA TickKeeps ==
  ASSUME IInv, Tick
  PROVE  IInv'
<1>1. /\ st' = st /\ framed' = FALSE /\ wire' = wire /\ moving' = moving /\ up' = up
      /\ untold' = untold /\ notified' = notified
      /\ phase' = phase /\ open' = open /\ pressure' = pressure
      /\ \A f \in Faults : clock[f] < FaultFrames
      /\ clock' = [f \in Faults |-> IF clock[f] = Off THEN Off ELSE clock[f] + 1]
  BY DEF Tick, control
<1>2. clock \in [Faults -> Off..FaultFrames] /\ open \subseteq Faults
  BY InvFacts DEF TypeOK
<1>3. clock' \in [Faults -> Off..FaultFrames]
  <2>1. ASSUME NEW f \in Faults
        PROVE  (IF clock[f] = Off THEN Off ELSE clock[f] + 1) \in Off..FaultFrames
    BY <1>1, <1>2, DashboardAssumption DEF Off
  <2> QED BY <1>1, <2>1
<1>4. \A f \in Faults : clock'[f] = IF clock[f] = Off THEN Off ELSE clock[f] + 1
  BY <1>1
<1>5. \A f \in open' : clock'[f] = Off => phase' = "EXPLODED"
  <2>1. \A f \in open : clock[f] = Off => phase = "EXPLODED"
    BY DEF IInv, Basics
  <2> QED BY <1>1, <1>2, <1>4, <2>1, DashboardAssumption DEF Off
<1>6. Basics'
  BY <1>1, <1>3, <1>5, InvFacts, BasicsKept DEF IInv, Basics, TypeOK
<1>7. ~untold' => Informed'
  <2> SUFFICES ASSUME ~untold' PROVE Informed'
    OBVIOUS
  <2>1. Informed
    BY <1>1, InvFacts
  <2>2. ASSUME NEW f \in open \cap st.shown, ~Has(wire, DOMAIN wire, Fault[f]),
               phase # "EXPLODED"
        PROVE  st.since[f] <= clock'[f] + 0
    <3>1. f \in Faults /\ clock[f] \in Off..FaultFrames /\ clock[f] # Off
      BY <1>2, <2>2 DEF IInv, Basics
    <3>2. st.since[f] <= clock[f] + (IF framed THEN 1 ELSE 0)
      BY <2>1, <2>2 DEF Informed, TimersFollow
    <3>3. clock'[f] = clock[f] + 1 /\ st.since[f] \in Off..FaultFrames
      BY <1>4, <3>1, InvFacts, RocketParts
    <3> QED BY <3>1, <3>2, <3>3, DashboardAssumption DEF Off
  <2>3. TimersFollow'
    BY <1>1, <2>2, SameScreen
  <2> QED BY <1>1, <2>1, <2>3, SameScreen
       DEF Informed, FaultsFollow, LossFollows, LossIsNews, PressureFollows, AnomalyFollows,
           FaultsAlternate
<1> QED BY <1>6, <1>7 DEF IInv

-----------------------------------------------------------------------------
(* What the satellite does.                                                *)

LEMMA PushedOne ==
  ASSUME IInv, NEW a \in Ops, NEW silent \in BOOLEAN, Pushed(<<a>>, silent)
  PROVE  /\ wire' \in Seq(Lines) /\ untold' \in BOOLEAN
         /\ ~untold' => ~untold /\ ~silent /\ Said(wire, wire', a)
<1>1. Said(wire, wire \o Plain(<<a>>), a)
  BY InvFacts, WroteOne
<1>2. wire \o Plain(<<a>>) \in Seq(Lines)
  BY <1>1 DEF Said
<1> QED BY <1>1, <1>2, InvFacts DEF Pushed, Writes, TypeOK

LEMMA PushedTwo ==
  ASSUME IInv, NEW a \in Ops, NEW b \in Ops, NEW silent \in BOOLEAN,
         Pushed(<<a, b>>, silent)
  PROVE  /\ wire' \in Seq(Lines) /\ untold' \in BOOLEAN
         /\ ~untold' => /\ ~untold /\ ~silent
                        /\ \E v : Said(wire, v, a) /\ Said(v, wire', b)
<1>1. PICK v : Said(wire, v, a) /\ Said(v, wire \o Plain(<<a, b>>), b)
  BY InvFacts, WroteTwo
<1>2. wire \o Plain(<<a, b>>) \in Seq(Lines)
  BY <1>1 DEF Said
<1> QED BY <1>1, <1>2, InvFacts DEF Pushed, Writes, TypeOK

LEMMA PushedThree ==
  ASSUME IInv, NEW a \in Ops, NEW b \in Ops, NEW c \in Ops, NEW silent \in BOOLEAN,
         Pushed(<<a, b, c>>, silent)
  PROVE  /\ wire' \in Seq(Lines) /\ untold' \in BOOLEAN
         /\ ~untold' => /\ ~untold /\ ~silent
                        /\ \E u, v : Said(wire, u, a) /\ Said(u, v, b) /\ Said(v, wire', c)
<1>1. PICK u, v : Said(wire, u, a) /\ Said(u, v, b) /\ Said(v, wire \o Plain(<<a, b, c>>), c)
  BY InvFacts, WroteThree
<1>2. wire \o Plain(<<a, b, c>>) \in Seq(Lines)
  BY <1>1 DEF Said
<1> QED BY <1>1, <1>2, InvFacts DEF Pushed, Writes, TypeOK

LEMMA FaultWords ==
  ASSUME NEW f \in Faults
  PROVE  Fault[f] \in {"FAULT1", "FAULT2"}
BY WordFacts

LEMMA LaunchKeeps ==
  ASSUME IInv, Launch
  PROVE  IInv'
<1> DEFINE silent == open # {} \/ pressure = "fault"
<1>1. /\ st' = st /\ framed' = framed /\ up' = up /\ moving' = moving /\ notified' = FALSE
      /\ phase = "READY" /\ phase' = "FLYING" /\ open' = {}
      /\ pressure' = "nominal" /\ clock' = [f \in Faults |-> Off]
      /\ Pushed(<<"LAUNCH_OK">>, silent)
  BY DEF Launch, Mission!Launch
<1>2. "LAUNCH_OK" \in Ops /\ silent \in BOOLEAN
  BY OpsAre
<1> HIDE DEF silent
<1>3. /\ wire' \in Seq(Lines) /\ untold' \in BOOLEAN
      /\ ~untold' => ~untold /\ ~silent /\ Said(wire, wire', "LAUNCH_OK")
  BY <1>1, <1>2, PushedOne
<1>4. Basics'
  BY <1>1, <1>3, InvFacts, BasicsKept, FirstClock DEF IInv, Basics, TypeOK
<1>5. ~untold' => Informed'
  <2> SUFFICES ASSUME ~untold' PROVE Informed'
    OBVIOUS
  <2>1. Informed /\ open = {} /\ pressure # "fault"
    BY <1>3, InvFacts DEF silent
  <2>2. Mute(wire, wire')
    BY <1>3, MuteOps
  <2>3. FaultsFollow' /\ LossFollows' /\ LossIsNews' /\ PressureFollows' /\ AnomalyFollows'
        /\ FaultsAlternate' /\ TimersFollow'
    BY <1>1, <2>1, <2>2, SameScreen
       DEF Mute, Informed, FaultsFollow, LossIsNews, PressureFollows, AnomalyFollows,
           FaultsAlternate
  <2> QED BY <1>1, <2>3 DEF Informed
<1> QED BY <1>4, <1>5 DEF IInv

LEMMA LandKeeps ==
  ASSUME IInv, Land
  PROVE  IInv'
<1>1. /\ st' = st /\ framed' = framed /\ up' = up /\ moving' = moving
      /\ notified' = notified
      /\ phase = "FLYING" /\ phase' = "EMERGENCY" /\ open' = open
      /\ pressure' = pressure /\ clock' = clock
      /\ Pushed(<<"LAND", "LAND">>, FALSE)
  BY DEF Land, Mission!Land, control
<1>2. "LAND" \in Ops
  BY OpsAre
<1>3. /\ wire' \in Seq(Lines) /\ untold' \in BOOLEAN
      /\ ~untold' => ~untold /\ \E v : Said(wire, v, "LAND") /\ Said(v, wire', "LAND")
  BY <1>1, <1>2, PushedTwo
<1>4. Basics'
  BY <1>1, <1>3, InvFacts, BasicsKept DEF IInv, Basics, TypeOK
<1>5. ~untold' => Informed'
  <2> SUFFICES ASSUME ~untold' PROVE Informed'
    OBVIOUS
  <2>1. Informed
    BY <1>3, InvFacts
  <2>2. Mute(wire, wire')
    BY <1>3, MuteOps, MuteTwice
  <2>3. FaultsFollow' /\ LossFollows' /\ LossIsNews' /\ PressureFollows' /\ AnomalyFollows'
        /\ FaultsAlternate' /\ TimersFollow'
    BY <1>1, <2>1, <2>2, SameScreen, FaultWords, InvFacts
       DEF Mute, Informed, FaultsFollow, LossIsNews, PressureFollows, AnomalyFollows,
           FaultsAlternate, TimersFollow, TypeOK
  <2> QED BY <1>1, <2>1, <2>3 DEF Informed
<1> QED BY <1>4, <1>5 DEF IInv

LEMMA PressureKeeps ==
  ASSUME IInv, Pressure
  PROVE  IInv'
<1>1. /\ st' = st /\ framed' = framed /\ up' = up /\ moving' = moving
      /\ notified' = notified /\ phase' = phase /\ open' = open /\ clock' = clock
      /\ \/ /\ pressure = "nominal" /\ pressure' = "fault"
            /\ Pushed(<<"PROBLEM_ON", "PROBLEM_ON">>, FALSE)
         \/ /\ pressure = "fault" /\ pressure' = "corrected"
            /\ Pushed(<<"PROBLEM_OFF", "CLEAR_ALERTS", "PROBLEM_OFF">>, FALSE)
         \/ /\ pressure = "corrected" /\ pressure' = "nominal"
            /\ Pushed(<<"CLEAR_ALERTS">>, FALSE)
  BY DEF Pressure, control
<1> DEFINE Begins == \E v : Said(wire, v, "PROBLEM_ON") /\ Said(v, wire', "PROBLEM_ON")
           Ends   == \E u, v : /\ Said(wire, u, "PROBLEM_OFF") /\ Said(u, v, "CLEAR_ALERTS")
                               /\ Said(v, wire', "PROBLEM_OFF")
<1>2. /\ wire' \in Seq(Lines) /\ untold' \in BOOLEAN
      /\ pressure' \in {"nominal", "fault", "corrected"}
      /\ ~untold' => /\ ~untold
                     /\ \/ pressure' = "fault" /\ Begins
                        \/ pressure = "fault" /\ Ends
                        \/ pressure # "fault" /\ Said(wire, wire', "CLEAR_ALERTS")
  BY <1>1, OpsAre, PushedOne, PushedTwo, PushedThree
<1>3. Basics'
  BY <1>1, <1>2, InvFacts, BasicsKept DEF IInv, Basics, TypeOK
<1>4. ~untold' => Informed'
  <2> SUFFICES ASSUME ~untold' PROVE Informed'
    OBVIOUS
  <2>1. Informed
    BY <1>2, InvFacts
  <2>2. \A f \in Faults : /\ {"PROBLEM_ON", "PROBLEM_OFF", "CLEAR_ALERTS"} \cap Offs(f) = {}
                          /\ Fault[f] \notin {"PROBLEM_ON", "PROBLEM_OFF", "CLEAR_ALERTS"}
    BY WordFacts DEF Offs
  <2>3. /\ \A f \in Faults : /\ Faulty(wire', f) <=> Faulty(wire, f)
                             /\ Turns(wire, f) => Turns(wire', f)
                             /\ Has(wire', DOMAIN wire', Fault[f])
                                  <=> Has(wire, DOMAIN wire, Fault[f])
        /\ Doomed(wire') <=> Doomed(wire)
        /\ DoomOver(wire') <=> DoomOver(wire)
    <3>1. CASE Begins
      BY <2>2, <3>1 DEF Said
    <3>2. CASE Ends
      BY <2>2, <3>2 DEF Said
    <3>3. CASE Said(wire, wire', "CLEAR_ALERTS")
      BY <2>2, <3>3 DEF Said
    <3> QED BY <1>2, <3>1, <3>2, <3>3
  <2>4. /\ pressure' = "fault" \/ CycleOver(wire')
        /\ Explained(st) \/ pressure' = "fault" \/ Has(wire', DOMAIN wire', "PROBLEM_OFF")
    <3>1. CASE pressure' = "fault" /\ Begins
      BY <3>1
    <3>2. CASE pressure = "fault" /\ Ends
      BY <3>2 DEF Said
    <3>3. CASE pressure # "fault" /\ Said(wire, wire', "CLEAR_ALERTS")
      BY <2>1, <3>3 DEF Said, Informed, PressureFollows, AnomalyFollows
    <3> QED BY <1>2, <3>1, <3>2, <3>3
  <2> HIDE DEF Begins, Ends
  <2>5. FaultsFollow' /\ LossFollows' /\ LossIsNews' /\ PressureFollows' /\ AnomalyFollows'
        /\ FaultsAlternate' /\ TimersFollow'
    BY <1>1, <2>1, <2>3, <2>4, SameScreen, InvFacts
       DEF Informed, FaultsFollow, LossFollows, LossIsNews, FaultsAlternate, TimersFollow,
           TypeOK
  <2> QED BY <1>1, <2>1, <2>5 DEF Informed
<1> QED BY <1>3, <1>4 DEF IInv

LEMMA RepairKeeps ==
  ASSUME IInv, NEW f \in Faults, Repair(f)
  PROVE  IInv'
<1> DEFINE Alone == Said(wire, wire', FaultOff[f])
           Both  == \E v : Said(wire, v, "CLEAR_ALERTS") /\ Said(v, wire', FaultOff[f])
<1>1. /\ st' = st /\ framed' = framed /\ up' = up /\ moving' = moving
      /\ notified' = notified /\ phase' = phase /\ pressure' = pressure
      /\ f \in open /\ open' = open \ {f} /\ clock' = [clock EXCEPT ![f] = Off]
      /\ Pushed(<<FaultOff[f]>>, FALSE) \/ Pushed(<<"CLEAR_ALERTS", FaultOff[f]>>, FALSE)
  BY DEF Repair, control
<1>2. /\ wire' \in Seq(Lines) /\ untold' \in BOOLEAN
      /\ ~untold' => ~untold /\ (Alone \/ Both)
  BY <1>1, OpsAre, PushedOne, PushedTwo
<1>3. clock' \in [Faults -> Off..FaultFrames] /\ \A g \in Faults \ {f} : clock'[g] = clock[g]
  BY <1>1, InvFacts, FirstClock DEF TypeOK
<1>4. Basics'
  BY <1>1, <1>2, <1>3, InvFacts, BasicsKept DEF IInv, Basics, TypeOK
<1>5. ~untold' => Informed'
  <2> SUFFICES ASSUME ~untold' PROVE Informed'
    OBVIOUS
  <2>1. Informed
    BY <1>2, InvFacts
  <2>2. /\ \A g \in Faults : /\ "CLEAR_ALERTS" \notin Offs(g) /\ Fault[g] # "CLEAR_ALERTS"
                             /\ FaultOff[f] # Fault[g]
                             /\ FaultOff[f] \in Offs(g) <=> g = f
        /\ FaultOff[f] \notin {"EXPLODE", "RESET_SIM", "PROBLEM_ON", "PROBLEM_OFF"}
    BY WordFacts DEF Offs
  <2>3. /\ \A g \in Faults : /\ Faulty(wire', g) <=> Faulty(wire, g) /\ g # f
                             /\ Turns(wire, g) => Turns(wire', g)
                             /\ Has(wire', DOMAIN wire', Fault[g])
                                  <=> Has(wire, DOMAIN wire, Fault[g])
        /\ Has(wire', DOMAIN wire', "PROBLEM_OFF") <=> Has(wire, DOMAIN wire, "PROBLEM_OFF")
        /\ Doomed(wire') <=> Doomed(wire)
        /\ DoomOver(wire') <=> DoomOver(wire)
        /\ CycleOver(wire') <=> CycleOver(wire)
    <3>1. CASE Alone
      BY <2>2, <3>1 DEF Said
    <3>2. CASE Both
      BY <2>2, <3>2 DEF Said
    <3> QED BY <1>2, <3>1, <3>2
  <2> HIDE DEF Alone, Both
  <2>4. TimersFollow'
    BY <1>1, <1>3, <2>1, <2>3, SameScreen, InvFacts DEF Informed, TimersFollow, TypeOK
  <2>5. FaultsFollow' /\ LossFollows' /\ LossIsNews' /\ PressureFollows' /\ AnomalyFollows'
        /\ FaultsAlternate'
    BY <1>1, <2>1, <2>3, SameScreen
       DEF Informed, FaultsFollow, LossFollows, LossIsNews, PressureFollows, AnomalyFollows,
           FaultsAlternate
  <2> QED BY <1>1, <2>1, <2>4, <2>5 DEF Informed
<1> QED BY <1>4, <1>5 DEF IInv

LEMMA ObserveKeeps ==
  ASSUME IInv, Observe
  PROVE  IInv'
<1>1. /\ st' = st /\ framed' = framed /\ up' = up /\ moving' = moving
      /\ notified' = notified /\ pressure' = pressure
      /\ IF phase \in {"READY", "FLYING"} THEN phase' \in {"READY", "FLYING"}
                                          ELSE phase' = phase
  BY DEF Observe, control, Mission!Observe
<1>2. phase' \in {"READY", "FLYING", "EMERGENCY", "EXPLODED"}
      /\ (phase' = "EXPLODED" <=> phase = "EXPLODED")
  BY <1>1, InvFacts DEF TypeOK
<1>3. CASE open' = open
  <2>1. wire' = wire /\ clock' = clock /\ untold' = untold
    BY <1>3 DEF Observe
  <2>2. Basics'
    BY <1>1, <1>2, <1>3, <2>1, InvFacts, BasicsKept DEF IInv, Basics, TypeOK
  <2>3. ~untold' => Informed'
    <3> SUFFICES ASSUME ~untold' PROVE Informed'
      OBVIOUS
    <3>1. Informed
      BY <2>1, InvFacts
    <3>2. TimersFollow'
      BY <1>1, <1>2, <1>3, <2>1, <3>1, SameScreen DEF Informed, TimersFollow
    <3> QED BY <1>1, <1>2, <1>3, <2>1, <3>1, <3>2, SameScreen
         DEF Informed, FaultsFollow, LossFollows, LossIsNews, PressureFollows,
             AnomalyFollows, FaultsAlternate
  <2> QED BY <2>2, <2>3 DEF IInv
<1>4. CASE open' # open
  <2>1. PICK f \in Faults \ open : open' = open \cup {f}
    BY <1>4 DEF Observe, Mission!Observe
  <2>2. open' \ open = {f} /\ clock' = [clock EXCEPT ![f] = 0] /\ Pushed(<<Fault[f]>>, FALSE)
    BY <1>4, <2>1 DEF Observe
  <2>3. /\ wire' \in Seq(Lines) /\ untold' \in BOOLEAN
        /\ ~untold' => ~untold /\ Said(wire, wire', Fault[f])
    BY <2>2, OpsAre, PushedOne
  <2>4. /\ clock' \in [Faults -> Off..FaultFrames] /\ clock'[f] = 0
        /\ \A g \in Faults \ {f} : clock'[g] = clock[g]
    BY <2>2, InvFacts, FirstClock DEF TypeOK
  <2>5. open' \subseteq Faults /\ \A g \in open' : clock'[g] = Off => phase' = "EXPLODED"
    BY <1>2, <2>1, <2>4, InvFacts, FirstClock DEF IInv, Basics, TypeOK
  <2>6. Basics'
    BY <1>1, <1>2, <2>3, <2>4, <2>5, InvFacts, BasicsKept DEF IInv, Basics, TypeOK
  <2>7. ~untold' => Informed'
    <3> SUFFICES ASSUME ~untold' PROVE Informed'
      OBVIOUS
    <3>1. Informed /\ Said(wire, wire', Fault[f])
      BY <2>3, InvFacts
    <3>2. /\ \A g \in Faults : Fault[f] \notin Offs(g) /\ (Fault[f] = Fault[g] <=> g = f)
          /\ Fault[f] \notin {"EXPLODE", "RESET_SIM", "PROBLEM_ON", "PROBLEM_OFF"}
      BY WordFacts
    <3>3. ~Faulty(wire, f)
      BY <2>1, <3>1 DEF Informed, FaultsFollow
    <3>4. /\ \A g \in Faults : /\ Faulty(wire', g) <=> Faulty(wire, g) \/ g = f
                               /\ Turns(wire, g) => Turns(wire', g)
                               /\ Has(wire', DOMAIN wire', Fault[g])
                                    <=> Has(wire, DOMAIN wire, Fault[g]) \/ g = f
          /\ Has(wire', DOMAIN wire', "PROBLEM_OFF") <=> Has(wire, DOMAIN wire, "PROBLEM_OFF")
          /\ Doomed(wire') <=> Doomed(wire)
          /\ DoomOver(wire') <=> DoomOver(wire)
          /\ CycleOver(wire') <=> CycleOver(wire)
      BY <3>1, <3>2, <3>3 DEF Said
    <3>5. TimersFollow'
      BY <1>1, <1>2, <2>1, <2>4, <3>1, <3>4, SameScreen, InvFacts
         DEF Informed, TimersFollow, TypeOK
    <3>6. FaultsFollow' /\ LossFollows' /\ LossIsNews' /\ PressureFollows' /\ AnomalyFollows'
          /\ FaultsAlternate'
      BY <1>1, <1>2, <2>1, <3>1, <3>4, SameScreen
         DEF Informed, FaultsFollow, LossFollows, LossIsNews, PressureFollows,
             AnomalyFollows, FaultsAlternate
    <3> QED BY <1>1, <1>2, <3>1, <3>5, <3>6 DEF Informed
  <2> QED BY <2>6, <2>7 DEF IInv
<1> QED BY <1>3, <1>4

LEMMA ExplodesKeeps ==
  ASSUME IInv, Explodes, clock' \in [Faults -> Off..FaultFrames]
  PROVE  IInv'
<1>1. /\ st' = st /\ framed' = framed /\ up' = up /\ moving' = moving
      /\ notified' = (notified \/ up) /\ pressure' = pressure
      /\ phase' = "EXPLODED" /\ open' = open
      /\ \/ up /\ notified /\ wire' = wire /\ untold' = untold
         \/ up /\ ~notified /\ wire' = wire \o Plain(<<"EXPLODE">>) /\ untold' = untold
         \/ ~up /\ untold' = TRUE /\ wire' = wire
  BY DEF Explodes, Mission!Explode
<1>2. Said(wire, wire \o Plain(<<"EXPLODE">>), "EXPLODE")
  BY InvFacts, WroteOne, OpsAre
<1>3. wire' \in Seq(Lines)
  BY <1>1, <1>2, InvFacts DEF Said
<1>4. Basics'
  BY <1>1, <1>3, InvFacts, BasicsKept DEF IInv, Basics, TypeOK
<1>5. ~untold' => Informed'
  <2> SUFFICES ASSUME ~untold' PROVE Informed'
    OBVIOUS
  <2>1. Informed
    BY <1>1, InvFacts
  <2>2. /\ \A f \in Faults : /\ Faulty(wire', f) <=> Faulty(wire, f)
                             /\ Turns(wire, f) => Turns(wire', f)
        /\ Has(wire', DOMAIN wire', "PROBLEM_OFF") <=> Has(wire, DOMAIN wire, "PROBLEM_OFF")
        /\ Doomed(wire')
        /\ CycleOver(wire') <=> CycleOver(wire)
    <3>1. CASE notified /\ wire' = wire
      BY <2>1, <3>1 DEF Informed, LossFollows
    <3>2. CASE Said(wire, wire', "EXPLODE")
      <4>1. \A f \in Faults : "EXPLODE" \notin Offs(f) /\ "EXPLODE" # Fault[f]
        BY WordFacts DEF Offs
      <4> QED BY <3>2, <4>1 DEF Said
    <3> QED BY <1>1, <1>2, <3>1, <3>2
  <2>3. FaultsFollow' /\ LossFollows' /\ LossIsNews' /\ PressureFollows' /\ AnomalyFollows'
        /\ FaultsAlternate' /\ TimersFollow'
    BY <1>1, <2>1, <2>2, SameScreen
       DEF Informed, FaultsFollow, LossFollows, LossIsNews, PressureFollows, AnomalyFollows,
           FaultsAlternate
  <2> QED BY <1>1, <2>3 DEF Informed
<1> QED BY <1>4, <1>5 DEF IInv

LEMMA ExplodeKeeps ==
  ASSUME IInv, Explode
  PROVE  IInv'
<1>1. Explodes /\ clock' = clock
  BY DEF Explode
<1> QED BY <1>1, InvFacts, ExplodesKeeps DEF TypeOK

LEMMA ExpiresKeeps ==
  ASSUME IInv, NEW f \in Faults, Expires(f)
  PROVE  IInv'
<1>1. Explodes /\ clock' = [clock EXCEPT ![f] = Off]
  BY DEF Expires
<1>2. clock' \in [Faults -> Off..FaultFrames]
  BY <1>1, InvFacts, FirstClock DEF TypeOK
<1> QED BY <1>1, <1>2, ExplodesKeeps

(* A reset sets the screen right whatever it was told before.              *)
LEMMA ResetKeeps ==
  ASSUME IInv, Reset
  PROVE  IInv'
<1>1. /\ st' = st /\ framed' = framed /\ up' = up /\ moving' = moving
      /\ phase' = "READY" /\ open' = {} /\ pressure' = "nominal"
      /\ clock' = [f \in Faults |-> Off]
      /\ \/ /\ up /\ wire' = wire \o Plain(<<"PROBLEM_OFF", "RESET_SIM", "CLEAR_ALERTS">>)
            /\ notified' = FALSE /\ untold' = FALSE
         \/ ~up /\ untold' = TRUE /\ wire' = wire /\ notified' = notified
  BY DEF Reset, Mission!Reset, Writes
<1> DEFINE x == wire \o Plain(<<"PROBLEM_OFF", "RESET_SIM", "CLEAR_ALERTS">>)
<1>2. PICK u, v : /\ Said(wire, u, "PROBLEM_OFF") /\ Said(u, v, "RESET_SIM")
                  /\ Said(v, x, "CLEAR_ALERTS")
  BY InvFacts, WroteThree, OpsAre
<1> HIDE DEF x
<1>3. wire' \in Seq(Lines) /\ untold' \in BOOLEAN /\ notified' \in BOOLEAN
  BY <1>1, <1>2, InvFacts DEF Said, TypeOK, x
<1>4. Basics'
  BY <1>1, <1>3, InvFacts, BasicsKept, FirstClock DEF IInv, Basics, TypeOK
<1>5. ~untold' => Informed'
  <2> SUFFICES ASSUME ~untold' PROVE Informed'
    OBVIOUS
  <2>1. wire' = x /\ notified' = FALSE
    BY <1>1 DEF x
  <2>2. \A f \in Faults : /\ "CLEAR_ALERTS" \notin Offs(f) /\ "CLEAR_ALERTS" # Fault[f]
                          /\ "RESET_SIM" \in Offs(f) /\ "RESET_SIM" # Fault[f]
    BY WordFacts DEF Offs
  <2>3. (\A f \in Faults : ~Faulty(v, f) /\ Turns(v, f)) /\ DoomOver(v)
    BY <1>2, <2>2 DEF Said
  <2>4. CycleOver(v) /\ Has(v, DOMAIN v, "PROBLEM_OFF")
    <3>1. CycleOver(u) /\ Has(u, DOMAIN u, "PROBLEM_OFF")
      BY <1>2 DEF Said
    <3> QED BY <1>2, <3>1 DEF Said
  <2>5. /\ \A f \in Faults : ~Faulty(wire', f) /\ Turns(wire', f)
        /\ DoomOver(wire') /\ CycleOver(wire') /\ Has(wire', DOMAIN wire', "PROBLEM_OFF")
    BY <1>2, <2>1, <2>2, <2>3, <2>4 DEF Said
  <2>6. FaultsFollow' /\ LossFollows' /\ LossIsNews' /\ PressureFollows' /\ AnomalyFollows'
        /\ FaultsAlternate' /\ TimersFollow'
    BY <1>1, <2>5, SameScreen
  <2> QED BY <2>1, <2>6 DEF Informed
<1> QED BY <1>4, <1>5 DEF IInv

LEMMA TelemetryKeeps ==
  ASSUME IInv, Telemetry
  PROVE  IInv'
<1>1. PICK altitude \in Telemetered \cup {"ground"}, fuel \in Fuels, moves \in BOOLEAN :
        /\ moving' = moves
        /\ wire' = Append(wire, Set(altitude, fuel))
                   \o IF phase = "READY" /\ moving THEN Plain(<<"RESET_SIM">>) ELSE << >>
  BY DEF Telemetry
<1> DEFINE v == Append(wire, Set(altitude, fuel))
           rests == phase = "READY" /\ moving
           silent == rests /\ (open # {} \/ pressure = "fault")
<1>2. /\ st' = st /\ framed' = framed /\ up' = up /\ notified' = notified
      /\ phase' = phase /\ open' = open /\ pressure' = pressure /\ clock' = clock
      /\ untold' = (untold \/ silent)
  BY DEF Telemetry, mission
<1>3. Set(altitude, fuel) \in Lines /\ Set(altitude, fuel).op = "SET"
  <2>1. altitude \in Altitudes
    BY <1>1, DashboardAssumption DEF Altitudes
  <2>2. Set(altitude, fuel) \in DataLines
    BY <1>1, <2>1 DEF DataLines
  <2>3. Set(altitude, fuel).op = "SET"
    BY DEF Set
  <2> QED BY <2>2, <2>3 DEF Lines
<1>4. Said(wire, v, "SET")
  BY <1>3, InvFacts, SaidLine
<1>5. v \in Seq(Lines) /\ Mute(wire, v)
  BY <1>4, MuteOps DEF Mute
<1> HIDE DEF v
<1>6. CASE ~rests
  <2>1. wire' = v /\ ~silent
    <3>1. wire' = v \o << >>
      BY <1>1, <1>6 DEF v
    <3> QED BY <1>5, <1>6, <3>1, ConcatEmptySeq
  <2>2. Basics'
    BY <1>1, <1>2, <1>5, <2>1, InvFacts, BasicsKept DEF IInv, Basics, TypeOK
  <2>3. ~untold' => Informed'
    <3> SUFFICES ASSUME ~untold' PROVE Informed'
      OBVIOUS
    <3>1. Informed
      BY <1>2, InvFacts
    <3>2. FaultsFollow' /\ LossFollows' /\ LossIsNews' /\ PressureFollows' /\ AnomalyFollows'
          /\ FaultsAlternate' /\ TimersFollow'
      BY <1>2, <1>5, <2>1, <3>1, SameScreen, FaultWords, InvFacts
         DEF Mute, Informed, FaultsFollow, LossFollows, LossIsNews, PressureFollows,
             AnomalyFollows, FaultsAlternate, TimersFollow, TypeOK
    <3> QED BY <1>2, <3>1, <3>2 DEF Informed
  <2> QED BY <2>2, <2>3 DEF IInv
<1>7. CASE rests
  <2>1. wire' = v \o Plain(<<"RESET_SIM">>)
    BY <1>1, <1>7 DEF v
  <2>2. Said(v, wire', "RESET_SIM")
    BY <1>5, <2>1, InvFacts, WroteOne, OpsAre
  <2>3. untold' \in BOOLEAN /\ wire' \in Seq(Lines)
    BY <1>2, <2>2, InvFacts DEF Said, TypeOK
  <2>4. Basics'
    BY <1>1, <1>2, <2>3, InvFacts, BasicsKept DEF IInv, Basics, TypeOK
  <2>5. ~untold' => Informed'
    <3> SUFFICES ASSUME ~untold' PROVE Informed'
      OBVIOUS
    <3>1. Informed /\ open = {} /\ pressure # "fault" /\ phase = "READY"
      BY <1>2, <1>7, InvFacts
    <3>2. \A f \in Faults : "RESET_SIM" \in Offs(f) /\ "RESET_SIM" # Fault[f]
      BY WordFacts DEF Offs
    <3>3. /\ \A f \in Faults : ~Faulty(wire', f) /\ Turns(wire', f)
          /\ DoomOver(wire')
          /\ CycleOver(v) => CycleOver(wire')
          /\ Has(v, DOMAIN v, "PROBLEM_OFF") => Has(wire', DOMAIN wire', "PROBLEM_OFF")
      BY <2>2, <3>2 DEF Said
    <3>4. FaultsFollow' /\ LossFollows' /\ LossIsNews' /\ PressureFollows' /\ AnomalyFollows'
          /\ FaultsAlternate' /\ TimersFollow'
      BY <1>2, <1>5, <3>1, <3>3, SameScreen
         DEF Mute, Informed, PressureFollows, AnomalyFollows
    <3> QED BY <1>2, <3>1, <3>4 DEF Informed
  <2> QED BY <2>4, <2>5 DEF IInv
<1> QED BY <1>6, <1>7

-----------------------------------------------------------------------------
(* A frame.                                                                *)

LEMMA KeptFacts ==
  ASSUME NEW S, NEW lines \in Seq(S), NEW kept \in Kept(lines)
  PROVE  kept \in Seq(S)
<1>1. CASE Len(lines) <= PendingMax
  BY <1>1 DEF Kept
<1>2. CASE ~(Len(lines) <= PendingMax)
  <2> DEFINE n == Len(lines)
  <2>1. n \in Nat /\ PendingMax \in Nat \ {0}
    BY LenProperties, DashboardAssumption
  <2>2. \E k \in (n - PendingMax + 1)..(n + 1) : kept = SubSeq(lines, k, n)
    BY <1>2 DEF Kept
  <2>3. PICK k \in (n - PendingMax + 1)..(n + 1) : kept = SubSeq(lines, k, n)
    BY <2>2
  <2>4. k \in 1..(n + 1) /\ n \in (k - 1)..n
    BY <1>2, <2>1, <2>3
  <2> QED BY <2>3, <2>4, SubSeqProperties
<1> QED BY <1>1, <1>2

(* Words heard in the lines S1 and then in S2, none of which is behind.    *)
LEMMA StandsSplit ==
  ASSUME NEW held \in BOOLEAN, NEW w, NEW S \in SUBSET Nat,
         NEW S1 \in SUBSET S, NEW S2 \in SUBSET S, NEW on, NEW off, on \notin off,
         \A i \in S : w[i].op = on \/ w[i].op \in off => i \in S1 \/ i \in S2,
         \A i \in S1, k \in S2 : w[k].op = on \/ w[k].op \in off => i < k
  PROVE  Stands(Stands(held, w, S1, on, off), w, S2, on, off) <=> Stands(held, w, S, on, off)
<1> DEFINE first == Stands(held, w, S1, on, off)
<1>1. ASSUME Stands(first, w, S2, on, off) PROVE Stands(held, w, S, on, off)
  <2>1. CASE first /\ \A k \in S2 : w[k].op \notin off
    <3>1. CASE held /\ \A i \in S1 : w[i].op \notin off
      BY <2>1, <3>1 DEF Stands
    <3>2. CASE \E i \in S1 : w[i].op = on /\ \A j \in S1 : i < j => w[j].op \notin off
      BY <2>1, <3>2 DEF Stands
    <3> QED BY <2>1, <3>1, <3>2 DEF Stands
  <2>2. CASE \E k \in S2 : w[k].op = on /\ \A j \in S2 : k < j => w[j].op \notin off
    <3>1. PICK k \in S2 : w[k].op = on /\ \A j \in S2 : k < j => w[j].op \notin off
      BY <2>2
    <3>2. \A j \in S : k < j => w[j].op \notin off
      <4>1. \A i \in S1 : i < k
        BY <3>1
      <4> QED BY <3>1, <4>1
    <3> QED BY <3>1, <3>2 DEF Stands
  <2> QED BY <1>1, <2>1, <2>2 DEF Stands
<1>2. ASSUME Stands(held, w, S, on, off) PROVE Stands(first, w, S2, on, off)
  <2>1. CASE held /\ \A i \in S : w[i].op \notin off
    BY <2>1 DEF Stands
  <2>2. CASE \E k \in S : w[k].op = on /\ \A j \in S : k < j => w[j].op \notin off
    <3>1. PICK k \in S : w[k].op = on /\ \A j \in S : k < j => w[j].op \notin off
      BY <2>2
    <3>2. CASE k \in S2
      BY <3>1, <3>2 DEF Stands
    <3>3. CASE k \in S1
      <4>1. first
        BY <3>1, <3>3 DEF Stands
      <4>2. \A j \in S2 : w[j].op \notin off
        BY <3>1, <3>3
      <4> QED BY <4>1, <4>2 DEF Stands
    <3> QED BY <3>1, <3>2, <3>3
  <2> QED BY <1>2, <2>1, <2>2 DEF Stands
<1> QED BY <1>1, <1>2

(* A frame reads the commands C and the data D, makes d and then g of the  *)
(* picture and leaves the lines U.                                         *)
Turned(C, D, U, d, g) ==
  /\ C \subseteq DOMAIN wire /\ D \subseteq DOMAIN wire /\ U \subseteq DOMAIN wire
  /\ C \cap U = {} /\ D \cap U = {}
  /\ \A i \in DOMAIN wire : /\ IsCmd(wire[i]) => i \in C \/ i \in U
                            /\ IsData(wire[i]) => i \in D \/ i \in U
  /\ \A i \in C, k \in U : IsCmd(wire[k]) => i < k
  /\ \A i \in D, k \in U : IsData(wire[k]) => i < k
  /\ wire' = Picked(U) /\ st' \in update_dynamics(g)
  /\ Sound(d) /\ Sound(g)
  /\ g.shown = d.shown /\ g.since = d.since /\ g.exploded = d.exploded
  /\ g.landing = d.landing
  /\ ~untold' =>
       /\ ~untold
       /\ \A f \in Faults :
            /\ f \in d.shown <=> Stands(f \in st.shown, wire, C, Fault[f], Offs(f))
            /\ \/ d.since[f] \in {0, Off}
               \/ /\ d.since[f] = st.since[f]
                  /\ \A i \in C : wire[i].op # Fault[f] /\ wire[i].op \notin Offs(f)
       /\ d.exploded <=> Stands(st.exploded, wire, C, "EXPLODE", {"RESET_SIM"})
       /\ Explained(st) => Explained(d)
       /\ d.shown = {} =>
            (g.problem <=> Stands(d.problem, wire, D, "PROBLEM_ON", {"PROBLEM_OFF"}))

LEMMA PickedOf ==
  ASSUME wire \in Seq(Lines), NEW S \in SUBSET (DOMAIN wire), NEW L,
         \A k \in S : wire[k] \in L
  PROVE  Picked(S) \in Seq(L)
<1> DEFINE q == Picked(S)
<1>1. q \in Seq(Lines) /\ \A i \in DOMAIN q : \E k \in S : q[i] = wire[k]
  BY PickedWords
<1> HIDE DEF q
<1>2. \A i \in DOMAIN q : q[i] \in L
  BY <1>1
<1>3. Len(q) \in Nat /\ DOMAIN q = 1..Len(q) /\ q \in [1..Len(q) -> Lines]
  BY <1>1, LenProperties
<1>4. q \in [1..Len(q) -> L]
  BY <1>2, <1>3
<1>5. q \in Seq(L)
  BY <1>3, <1>4, SeqDef
<1> QED BY <1>5 DEF q

LEMMA FrameTurns ==
  ASSUME IInv, Frame
  PROVE  \E C, D, U, d, g : Turned(C, D, U, d, g)
<1>1. PICK a \in 0..Len(wire) : \E b \in a..Len(wire) :
        \E kept \in Kept(Picked({i \in Read(a, b) : IsCmd(wire[i])})),
           sets \in Kept(Picked({i \in Read(a, b) : IsData(wire[i])})) :
          /\ st' \in update_dynamics(FoldLeft(apply_data, FoldLeft(apply_cmd, st, kept), sets))
          /\ wire' = Unread(a, b)
          /\ untold' = (untold \/ kept # Picked({i \in Read(a, b) : IsCmd(wire[i])})
                               \/ sets # Picked({i \in Read(a, b) : IsData(wire[i])}))
  BY DEF Frame
<1>2. PICK b \in a..Len(wire) :
        \E kept \in Kept(Picked({i \in Read(a, b) : IsCmd(wire[i])})),
           sets \in Kept(Picked({i \in Read(a, b) : IsData(wire[i])})) :
          /\ st' \in update_dynamics(FoldLeft(apply_data, FoldLeft(apply_cmd, st, kept), sets))
          /\ wire' = Unread(a, b)
          /\ untold' = (untold \/ kept # Picked({i \in Read(a, b) : IsCmd(wire[i])})
                               \/ sets # Picked({i \in Read(a, b) : IsData(wire[i])}))
  BY <1>1
<1> DEFINE C == {i \in Read(a, b) : IsCmd(wire[i])}
           D == {i \in Read(a, b) : IsData(wire[i])}
           U == DOMAIN wire \ Read(a, b)
           cmds == Picked(C)
           data == Picked(D)
<1>3. PICK kept \in Kept(cmds), sets \in Kept(data) :
        /\ st' \in update_dynamics(FoldLeft(apply_data, FoldLeft(apply_cmd, st, kept), sets))
        /\ wire' = Unread(a, b)
        /\ untold' = (untold \/ kept # cmds \/ sets # data)
  BY <1>2
<1> DEFINE d == FoldLeft(apply_cmd, st, kept)
           g == FoldLeft(apply_data, d, sets)
<1>4. wire \in Seq(Lines) /\ st \in RocketStates /\ Sound(st)
  BY InvFacts DEF IInv, Basics
<1>5. \A i \in DOMAIN wire : wire[i] \in Lines /\ i \in Nat
  BY <1>4, LenProperties, ElementOfSeq
<1>6. a \in Nat /\ b \in Nat
  BY <1>1, <1>2, <1>4, LenProperties
<1>7. /\ C \subseteq DOMAIN wire /\ D \subseteq DOMAIN wire /\ U \subseteq DOMAIN wire
      /\ C \cap U = {} /\ D \cap U = {}
      /\ \A i \in DOMAIN wire : /\ IsCmd(wire[i]) => i \in C \/ i \in U
                                /\ IsData(wire[i]) => i \in D \/ i \in U
  BY DEF Read
<1>8. \A i \in C, k \in U : IsCmd(wire[k]) => i < k
  BY <1>5, <1>6 DEF Read
<1>9. \A i \in D, k \in U : IsData(wire[k]) => i < k
  BY <1>5, <1>6 DEF Read, IsData, IsCmd
<1>10. wire' = Picked(U)
  BY <1>3 DEF Unread
<1>11. /\ \A i \in C : wire[i] \in CmdLines
       /\ \A i \in D : wire[i] \in DataLines
  BY <1>5, <1>7, LineFacts
<1> HIDE DEF C, D, U
<1>12. cmds \in Seq(CmdLines) /\ data \in Seq(DataLines)
  BY <1>4, <1>7, <1>11, PickedOf
<1>13. kept \in Seq(CmdLines) /\ sets \in Seq(DataLines)
  BY <1>3, <1>12, KeptFacts
<1>14. Heard(st, d, kept, Len(kept))
  BY <1>4, <1>13, CmdsRead
<1>15. d \in RocketStates /\ Sound(d)
  BY <1>4, <1>14 DEF Heard
<1> HIDE DEF d
<1>16. Shown(d, g, sets, Len(sets))
  BY <1>13, <1>15, DataRead
<1>17. st' \in update_dynamics(g)
  BY <1>3 DEF d
<1> HIDE DEF g
<1>18. /\ g.shown = d.shown /\ g.since = d.since /\ g.exploded = d.exploded
       /\ g.landing = d.landing /\ g \in RocketStates
  BY <1>16 DEF Shown
<1>19. Sound(g)
  BY <1>15, <1>18 DEF Sound
<1>20. ASSUME ~untold'
       PROVE /\ ~untold
             /\ \A f \in Faults :
                  /\ f \in d.shown <=> Stands(f \in st.shown, wire, C, Fault[f], Offs(f))
                  /\ \/ d.since[f] \in {0, Off}
                     \/ /\ d.since[f] = st.since[f]
                        /\ \A i \in C : wire[i].op # Fault[f] /\ wire[i].op \notin Offs(f)
             /\ d.exploded <=> Stands(st.exploded, wire, C, "EXPLODE", {"RESET_SIM"})
             /\ Explained(st) => Explained(d)
             /\ d.shown = {} =>
                  (g.problem <=> Stands(d.problem, wire, D, "PROBLEM_ON", {"PROBLEM_OFF"}))
  <2>1. ~untold /\ kept = cmds /\ sets = data
    BY <1>3, <1>20
  <2> HIDE DEF cmds, data
  <2>2. 1..Len(kept) = DOMAIN cmds /\ 1..Len(sets) = DOMAIN data
    BY <1>12, <2>1, LenProperties
  <2>3. /\ \A op : Has(cmds, DOMAIN cmds, op) <=> Has(wire, C, op)
        /\ \A held \in BOOLEAN : \A on, off :
             Stands(held, cmds, DOMAIN cmds, on, off) <=> Stands(held, wire, C, on, off)
        /\ \A held \in BOOLEAN : \A on, off :
             Stands(held, data, DOMAIN data, on, off) <=> Stands(held, wire, D, on, off)
    BY <1>4, <1>7, PickedWords DEF cmds, data
  <2>4. ASSUME NEW f \in Faults
        PROVE  /\ f \in d.shown <=> Stands(f \in st.shown, wire, C, Fault[f], Offs(f))
               /\ \/ d.since[f] \in {0, Off}
                  \/ /\ d.since[f] = st.since[f]
                     /\ \A i \in C : wire[i].op # Fault[f] /\ wire[i].op \notin Offs(f)
    <3>1. f \in d.shown <=> Stands(f \in st.shown, cmds, DOMAIN cmds, Fault[f], Offs(f))
      BY <1>14, <2>1, <2>2 DEF Heard
    <3>2. (f \in st.shown) \in BOOLEAN
      OBVIOUS
    <3>3. \/ d.since[f] \in {0, Off}
          \/ /\ d.since[f] = st.since[f]
             /\ \A i \in DOMAIN cmds : cmds[i].op # Fault[f] /\ cmds[i].op \notin Offs(f)
      BY <1>14, <2>1, <2>2 DEF Heard
    <3>4. (\A i \in DOMAIN cmds : cmds[i].op # Fault[f] /\ cmds[i].op \notin Offs(f))
            => \A i \in C : wire[i].op # Fault[f] /\ wire[i].op \notin Offs(f)
      BY <2>3 DEF Has
    <3> QED BY <2>3, <3>1, <3>2, <3>3, <3>4
  <2>5. d.exploded <=> Stands(st.exploded, wire, C, "EXPLODE", {"RESET_SIM"})
    <3>1. st.exploded \in BOOLEAN
      BY <1>4, RocketParts
    <3>2. d.exploded <=> Stands(st.exploded, cmds, DOMAIN cmds, "EXPLODE", {"RESET_SIM"})
      BY <1>14, <2>1, <2>2 DEF Heard
    <3> QED BY <2>3, <3>1, <3>2
  <2>6. d.shown = {} =>
          (g.problem <=> Stands(d.problem, wire, D, "PROBLEM_ON", {"PROBLEM_OFF"}))
    <3>1. d.problem \in BOOLEAN
      BY <1>15, RocketParts
    <3>2. d.shown = {} =>
            (g.problem <=> Stands(d.problem, data, DOMAIN data, "PROBLEM_ON", {"PROBLEM_OFF"}))
      BY <1>16, <2>1, <2>2 DEF Shown
    <3> QED BY <2>3, <3>1, <3>2
  <2>7. Explained(st) => Explained(d)
    BY <1>14 DEF Heard
  <2> QED BY <2>1, <2>4, <2>5, <2>6, <2>7
<1>21. Turned(C, D, U, d, g)
  BY <1>7, <1>8, <1>9, <1>10, <1>15, <1>17, <1>18, <1>19, <1>20 DEF Turned
<1> QED BY <1>21

LEMMA WordKinds ==
  ASSUME wire \in Seq(Lines), NEW i \in DOMAIN wire
  PROVE  /\ i \in Nat
         /\ wire[i].op \in {"EXPLODE", "RESET_SIM"} => IsCmd(wire[i])
         /\ wire[i].op \in {"PROBLEM_ON", "PROBLEM_OFF"} => IsData(wire[i])
         /\ \A f \in Faults :
              wire[i].op = Fault[f] \/ wire[i].op \in Offs(f) => IsCmd(wire[i])
<1>1. i \in Nat
  BY LenProperties
<1>2. \A f \in Faults : Fault[f] \notin DataOps /\ Offs(f) \cap DataOps = {}
  BY WordFacts DEF Offs, DataOps
<1> QED BY <1>1, <1>2 DEF IsCmd, IsData, DataOps

(* After the frame, the lines unread are to the new picture what all lines *)
(* were to the old one.                                                    *)
LEMMA FrameFaults ==
  ASSUME IInv, ~untold', NEW C, NEW D, NEW U, NEW d, NEW g, Turned(C, D, U, d, g)
  PROVE  /\ st'.shown = d.shown /\ wire' \in Seq(Lines)
         /\ \A f \in Faults : Faulty(wire, f)' <=> Faulty(wire, f)
         /\ Doomed(wire) => Doomed(wire)'
<1>1. wire \in Seq(Lines) /\ st \in RocketStates
  BY InvFacts
<1>2. /\ C \in SUBSET (DOMAIN wire) /\ U \in SUBSET (DOMAIN wire)
      /\ DOMAIN wire \in SUBSET Nat /\ wire' = Picked(U)
      /\ \A i \in DOMAIN wire : IsCmd(wire[i]) => i \in C \/ i \in U
      /\ \A i \in C, k \in U : IsCmd(wire[k]) => i < k
  BY <1>1, LenProperties DEF Turned
<1>3. /\ wire' \in Seq(Lines)
      /\ \A held \in BOOLEAN : \A on, off :
           Stands(held, wire', DOMAIN wire', on, off) <=> Stands(held, wire, U, on, off)
  BY <1>1, <1>2, PickedWords
<1>4. st'.shown = d.shown /\ (d.exploded => st'.exploded) /\ st' \in RocketStates
      /\ d \in RocketStates
  BY DynamicsFacts DEF Turned, Sound
<1>5. ASSUME NEW f \in Faults PROVE Faulty(wire, f)' <=> Faulty(wire, f)
  <2> DEFINE held == f \in st.shown
             on == Fault[f]
             off == Offs(f)
  <2>1. held \in BOOLEAN /\ on \notin off
    BY WordFacts
  <2>2. \A i \in DOMAIN wire : wire[i].op = on \/ wire[i].op \in off => IsCmd(wire[i])
    BY <1>1, WordKinds
  <2>3. f \in d.shown <=> Stands(held, wire, C, on, off)
    BY DEF Turned
  <2>4. Faulty(wire, f)' <=> Stands(f \in d.shown, wire', DOMAIN wire', on, off)
    BY <1>4 DEF Faulty
  <2>5. Faulty(wire, f) <=> Stands(held, wire, DOMAIN wire, on, off)
    BY DEF Faulty
  <2> HIDE DEF held, on, off
  <2>6. Stands(Stands(held, wire, C, on, off), wire, U, on, off)
          <=> Stands(held, wire, DOMAIN wire, on, off)
    <3>1. \A i \in DOMAIN wire : wire[i].op = on \/ wire[i].op \in off => i \in C \/ i \in U
      BY <1>2, <2>2
    <3>2. \A i \in C, k \in U : wire[k].op = on \/ wire[k].op \in off => i < k
      BY <1>2, <2>2
    <3> QED BY <1>2, <2>1, <3>1, <3>2, StandsSplit
  <2>7. (f \in d.shown) \in BOOLEAN
    OBVIOUS
  <2>8. Stands(f \in d.shown, wire', DOMAIN wire', on, off)
          <=> Stands(f \in d.shown, wire, U, on, off)
    BY <1>3, <2>7
  <2>9. Stands(f \in d.shown, wire, U, on, off)
          <=> Stands(Stands(held, wire, C, on, off), wire, U, on, off)
    BY <2>3 DEF Stands
  <2> QED BY <2>4, <2>5, <2>6, <2>8, <2>9
<1>6. ASSUME Doomed(wire) PROVE Doomed(wire)'
  <2> DEFINE held == st.exploded
             on == "EXPLODE"
             off == {"RESET_SIM"}
  <2>1. held \in BOOLEAN /\ on \notin off
    BY <1>1, RocketParts
  <2>2. \A i \in DOMAIN wire : wire[i].op = on \/ wire[i].op \in off => IsCmd(wire[i])
    BY <1>1, WordKinds
  <2>3. d.exploded <=> Stands(held, wire, C, on, off)
    BY DEF Turned
  <2>4. Doomed(wire)' <=> Stands(st'.exploded, wire', DOMAIN wire', on, off)
    BY DEF Doomed
  <2>5. Stands(held, wire, DOMAIN wire, on, off)
    BY <1>6 DEF Doomed
  <2> HIDE DEF held, on, off
  <2>6. Stands(Stands(held, wire, C, on, off), wire, U, on, off)
    <3>1. \A i \in DOMAIN wire : wire[i].op = on \/ wire[i].op \in off => i \in C \/ i \in U
      BY <1>2, <2>2
    <3>2. \A i \in C, k \in U : wire[k].op = on \/ wire[k].op \in off => i < k
      BY <1>2, <2>2
    <3> QED BY <1>2, <2>1, <2>5, <3>1, <3>2, StandsSplit
  <2>7. st'.exploded \in BOOLEAN
    BY <1>4, RocketParts
  <2>8. Stands(st'.exploded, wire, U, on, off)
    BY <1>4, <2>3, <2>6 DEF Stands
  <2> QED BY <1>3, <2>4, <2>7, <2>8
<1> QED BY <1>3, <1>4, <1>5, <1>6

LEMMA FrameCovers ==
  ASSUME IInv, NEW C, NEW D, NEW U, NEW d, NEW g, Turned(C, D, U, d, g)
  PROVE  /\ DoomOver(wire) => DoomOver(wire')
         /\ CycleOver(wire) => CycleOver(wire')
         /\ \A op : Has(wire', DOMAIN wire', op) <=> Has(wire, U, op)
<1>1. wire \in Seq(Lines)
  BY InvFacts
<1>2. /\ U \in SUBSET (DOMAIN wire) /\ wire' = Picked(U)
      /\ \A i \in DOMAIN wire : /\ IsCmd(wire[i]) => i \in C \/ i \in U
                                /\ IsData(wire[i]) => i \in D \/ i \in U
      /\ \A i \in C, k \in U : IsCmd(wire[k]) => i < k
      /\ \A i \in D, k \in U : IsData(wire[k]) => i < k
      /\ C \subseteq DOMAIN wire /\ D \subseteq DOMAIN wire
  BY DEF Turned
<1>3. /\ \A op : Has(wire', DOMAIN wire', op) <=> Has(wire, U, op)
      /\ \A on, off : Covered(wire', DOMAIN wire', on, off) <=> Covered(wire, U, on, off)
  BY <1>1, <1>2, PickedWords
<1>4. ASSUME DoomOver(wire) PROVE Covered(wire, U, "EXPLODE", {"RESET_SIM"})
  <2> SUFFICES ASSUME NEW i \in U, wire[i].op = "EXPLODE"
               PROVE  \E k \in U : i < k /\ wire[k].op \in {"RESET_SIM"}
    BY DEF Covered
  <2>1. PICK k \in DOMAIN wire : i < k /\ wire[k].op \in {"RESET_SIM"}
    BY <1>2, <1>4 DEF DoomOver, Covered
  <2>2. IsCmd(wire[i]) /\ IsCmd(wire[k]) /\ i \in Nat /\ k \in Nat
    BY <1>1, <1>2, <2>1, WordKinds
  <2>3. k \notin C
    BY <1>2, <2>1, <2>2
  <2> QED BY <1>2, <2>1, <2>2, <2>3
<1>5. ASSUME CycleOver(wire) PROVE Covered(wire, U, "PROBLEM_ON", {"PROBLEM_OFF"})
  <2> SUFFICES ASSUME NEW i \in U, wire[i].op = "PROBLEM_ON"
               PROVE  \E k \in U : i < k /\ wire[k].op \in {"PROBLEM_OFF"}
    BY DEF Covered
  <2>1. PICK k \in DOMAIN wire : i < k /\ wire[k].op \in {"PROBLEM_OFF"}
    BY <1>2, <1>5 DEF CycleOver, Covered
  <2>2. IsData(wire[i]) /\ IsData(wire[k]) /\ i \in Nat /\ k \in Nat
    BY <1>1, <1>2, <2>1, WordKinds
  <2>3. k \notin D
    BY <1>2, <2>1, <2>2
  <2> QED BY <1>2, <2>1, <2>2, <2>3
<1> QED BY <1>3, <1>4, <1>5 DEF DoomOver, CycleOver

LEMMA FrameTurning ==
  ASSUME IInv, ~untold', NEW C, NEW D, NEW U, NEW d, NEW g, Turned(C, D, U, d, g),
         NEW f \in Faults, Turns(wire, f)
  PROVE  Turns(wire, f)'
<1> DEFINE held == f \in st.shown
           on == Fault[f]
           off == Offs(f)
           shown == f \in d.shown
<1>1. wire \in Seq(Lines) /\ st \in RocketStates
  BY InvFacts
<1>2. /\ C \subseteq DOMAIN wire /\ U \in SUBSET (DOMAIN wire) /\ wire' = Picked(U)
      /\ \A i \in DOMAIN wire : IsCmd(wire[i]) => i \in C \/ i \in U
      /\ \A i \in C, k \in U : IsCmd(wire[k]) => i < k
  BY DEF Turned
<1>3. st'.shown = d.shown
  BY FrameFaults
<1>4. \A i \in DOMAIN wire :
        /\ i \in Nat
        /\ wire[i].op = on \/ wire[i].op \in off \/ wire[i].op = "RESET_SIM" => IsCmd(wire[i])
  BY <1>1, WordKinds
<1>5. Turns(wire, f)' <=> Alternating(shown, wire', DOMAIN wire', on, off)
  BY <1>3 DEF Turns
<1>6. Alternating(held, wire, DOMAIN wire, on, off)
  BY DEF Turns
<1>7. shown <=> Stands(held, wire, C, on, off)
  BY DEF Turned
<1>8. shown \in BOOLEAN
  OBVIOUS
<1> HIDE DEF held, on, off, shown
<1>9. Alternating(shown, wire, U, on, off)
  <2> SUFFICES ASSUME NEW j \in U, wire[j].op = on,
                      ~\E k \in U : j < k /\ wire[k].op = "RESET_SIM"
               PROVE  /\ shown => \E k \in U : k < j /\ wire[k].op \in off
                      /\ \A i \in U : i < j /\ wire[i].op = on =>
                           \E k \in U : i < k /\ k < j /\ wire[k].op \in off
    BY DEF Alternating
  <2>1. j \in DOMAIN wire /\ j \in Nat /\ IsCmd(wire[j]) /\ \A i \in C : i < j /\ i \in Nat
    BY <1>2, <1>4
  <2>2. ~\E k \in DOMAIN wire : j < k /\ wire[k].op = "RESET_SIM"
    BY <1>2, <1>4, <2>1
  <2>3. /\ held => \E k \in DOMAIN wire : k < j /\ wire[k].op \in off
        /\ \A i \in DOMAIN wire : i < j /\ wire[i].op = on =>
             \E k \in DOMAIN wire : i < k /\ k < j /\ wire[k].op \in off
    BY <1>6, <2>1, <2>2 DEF Alternating
  <2>4. ASSUME shown PROVE \E k \in U : k < j /\ wire[k].op \in off
    <3>1. CASE held /\ \A i \in C : wire[i].op \notin off
      BY <1>2, <1>4, <2>3, <3>1
    <3>2. CASE \E i \in C : wire[i].op = on /\ \A k \in C : i < k => wire[k].op \notin off
      <4>1. PICK i \in C : wire[i].op = on /\ \A k \in C : i < k => wire[k].op \notin off
        BY <3>2
      <4>2. PICK k \in DOMAIN wire : i < k /\ k < j /\ wire[k].op \in off
        BY <1>2, <2>1, <2>3, <4>1
      <4>3. k \in U
        BY <1>2, <1>4, <4>1, <4>2
      <4> QED BY <4>2, <4>3
    <3> QED BY <1>7, <2>4, <3>1, <3>2 DEF Stands
  <2>5. ASSUME NEW i \in U, i < j, wire[i].op = on
        PROVE  \E k \in U : i < k /\ k < j /\ wire[k].op \in off
    <3>1. PICK k \in DOMAIN wire : i < k /\ k < j /\ wire[k].op \in off
      BY <1>2, <2>3, <2>5
    <3>2. IsCmd(wire[i]) /\ IsCmd(wire[k]) /\ i \in Nat /\ k \in Nat
      BY <1>2, <1>4, <2>5, <3>1
    <3>3. k \notin C
      BY <1>2, <3>1, <3>2
    <3> QED BY <1>2, <3>1, <3>2, <3>3
  <2> QED BY <2>4, <2>5
<1>10. Alternating(shown, wire', DOMAIN wire', on, off)
  BY <1>1, <1>2, <1>8, <1>9, PickedWords
<1> QED BY <1>5, <1>10

LEMMA FrameAnomaly ==
  ASSUME IInv, ~untold', NEW C, NEW D, NEW U, NEW d, NEW g, Turned(C, D, U, d, g),
         CycleOver(wire),
         Explained(st) \/ Has(wire, DOMAIN wire, "PROBLEM_OFF")
  PROVE  Explained(st') \/ Has(wire', DOMAIN wire', "PROBLEM_OFF")
<1> SUFFICES ASSUME ~Has(wire', DOMAIN wire', "PROBLEM_OFF") PROVE Explained(st')
  OBVIOUS
<1>1. wire \in Seq(Lines) /\ ~Has(wire, U, "PROBLEM_OFF")
  BY InvFacts, FrameCovers
<1>2. \A i \in DOMAIN wire : wire[i].op = "PROBLEM_OFF" => i \in D
  BY <1>1, WordKinds DEF Turned, Has
<1>3. ASSUME d.shown = {}, ~d.landing, ~d.exploded PROVE ~g.problem
  <2>1. g.problem <=> Stands(d.problem, wire, D, "PROBLEM_ON", {"PROBLEM_OFF"})
    BY <1>3 DEF Turned
  <2>2. d.problem => \E i \in D : wire[i].op = "PROBLEM_OFF"
    <3>1. CASE Explained(st)
      BY <1>3, <3>1 DEF Turned, Explained
    <3>2. CASE Has(wire, DOMAIN wire, "PROBLEM_OFF")
      BY <1>2, <3>2 DEF Has
    <3> QED BY <3>1, <3>2
  <2>3. \A i \in D : wire[i].op = "PROBLEM_ON" =>
          \E k \in D : i < k /\ wire[k].op = "PROBLEM_OFF"
    BY <1>2 DEF CycleOver, Covered, Turned
  <2> QED BY <2>1, <2>2, <2>3 DEF Stands
<1>4. Explained(g)
  BY <1>3 DEF Explained, Turned
<1> QED BY <1>4, DynamicsFacts DEF Turned

LEMMA FrameTimers ==
  ASSUME IInv, Informed, ~framed, ~untold', NEW C, NEW D, NEW U, NEW d, NEW g,
         Turned(C, D, U, d, g),
         NEW f \in open, f \in st'.shown, ~Has(wire', DOMAIN wire', Fault[f]), phase # "EXPLODED"
  PROVE  st'.since[f] <= clock[f] + 1
<1>1. /\ wire \in Seq(Lines) /\ st \in RocketStates /\ f \in Faults
      /\ clock[f] \in Off..FaultFrames /\ clock[f] # Off
  BY InvFacts DEF TypeOK, IInv, Basics
<1>2. /\ st'.shown = d.shown /\ d \in RocketStates
      /\ \/ st'.since[f] = d.since[f]
         \/ st'.since[f] = d.since[f] + 1
  BY <1>1, DynamicsFacts DEF Turned, Sound
<1>3. d.since[f] \in Off..FaultFrames
  BY <1>1, <1>2, RocketParts
<1>4. CASE d.since[f] \in {0, Off}
  BY <1>1, <1>2, <1>4, DashboardAssumption DEF Off
<1>5. CASE d.since[f] = st.since[f]
           /\ \A i \in C : wire[i].op # Fault[f] /\ wire[i].op \notin Offs(f)
  <2>1. ~Has(wire, U, Fault[f])
    BY FrameCovers
  <2>2. ~Has(wire, DOMAIN wire, Fault[f])
    BY <1>1, <1>5, <2>1, WordKinds DEF Has, Turned
  <2>3. f \in d.shown <=> Stands(f \in st.shown, wire, C, Fault[f], Offs(f))
    BY <1>1 DEF Turned
  <2>4. f \in st.shown
    BY <1>2, <1>5, <2>3 DEF Stands
  <2>5. st.since[f] <= clock[f] + 0
    BY <2>2, <2>4 DEF Informed, TimersFollow
  <2> QED BY <1>1, <1>2, <1>3, <1>5, <2>5, DashboardAssumption DEF Off
<1> QED BY <1>1, <1>4, <1>5 DEF Turned

LEMMA FrameKeeps ==
  ASSUME IInv, Frame
  PROVE  IInv'
<1>1. PICK C, D, U, d, g : Turned(C, D, U, d, g)
  BY FrameTurns
<1>2. /\ ~framed /\ framed' = TRUE /\ phase' = phase /\ open' = open /\ pressure' = pressure
      /\ clock' = clock /\ up' = up /\ notified' = notified /\ moving' = moving
  BY DEF Frame, mission, control
<1>3. untold' \in BOOLEAN
  BY DEF Frame
<1>4. wire' \in Seq(Lines) /\ wire \in Seq(Lines)
  BY <1>1, InvFacts, PickedWords DEF Turned
<1>5. Sound(st') /\ Lit(st') /\ st' \in RocketStates
  BY <1>1, DynamicsFacts DEF Turned, Sound
<1>6. Basics'
  BY <1>2, <1>3, <1>4, <1>5, InvFacts DEF IInv, Basics, TypeOK, Lines
<1>7. ~untold' => Informed'
  <2> SUFFICES ASSUME ~untold' PROVE Informed'
    OBVIOUS
  <2>1. Informed
    BY <1>1, InvFacts DEF Turned
  <2>2. FaultsFollow' /\ LossFollows'
    BY <1>1, <1>2, <2>1, FrameFaults DEF Informed, FaultsFollow, LossFollows
  <2>3. LossIsNews'
    <3>1. phase = "EXPLODED" \/ DoomOver(wire')
      BY <1>1, <2>1, FrameCovers DEF Informed, LossIsNews
    <3> QED BY <1>2, <3>1 DEF LossIsNews, DoomOver
  <2>4. PressureFollows'
    <3>1. pressure = "fault" \/ CycleOver(wire')
      BY <1>1, <2>1, FrameCovers DEF Informed, PressureFollows
    <3> QED BY <1>2, <3>1 DEF PressureFollows, CycleOver
  <2>5. AnomalyFollows'
    <3>1. \/ pressure = "fault"
          \/ CycleOver(wire) /\ (Explained(st) \/ Has(wire, DOMAIN wire, "PROBLEM_OFF"))
      BY <2>1 DEF Informed, PressureFollows, AnomalyFollows
    <3>2. pressure = "fault" \/ Explained(st') \/ Has(wire', DOMAIN wire', "PROBLEM_OFF")
      BY <1>1, <3>1, FrameAnomaly
    <3> QED BY <1>2, <3>2 DEF AnomalyFollows
  <2>6. FaultsAlternate'
    BY <1>1, <2>1, FrameTurning DEF Informed, FaultsAlternate
  <2>7. TimersFollow'
    <3>1. ASSUME NEW f \in open \cap st'.shown, ~Has(wire', DOMAIN wire', Fault[f]),
                 phase # "EXPLODED"
          PROVE  st'.since[f] <= clock[f] + 1
      BY <1>1, <1>2, <2>1, <3>1, FrameTimers
    <3> QED BY <1>2, <3>1 DEF TimersFollow
  <2>8. notified' => phase' = "EXPLODED"
    BY <1>2, <2>1 DEF Informed
  <2> QED BY <2>2, <2>3, <2>4, <2>5, <2>6, <2>7, <2>8 DEF Informed
<1> QED BY <1>6, <1>7 DEF IInv

LEMMA RestartKeeps ==
  ASSUME IInv, Restart
  PROVE  IInv'
<1>1. /\ st' = init_state /\ untold' = TRUE /\ framed' = framed
      /\ phase' = phase /\ open' = open /\ pressure' = pressure /\ clock' = clock
      /\ up' = up /\ notified' = notified /\ moving' = moving
  BY DEF Restart, mission, control
<1>2. PICK a, b : wire' = Picked(DOMAIN wire \ Read(a, b))
  BY DEF Restart, Unread
<1>3. wire' \in Seq(Lines)
  BY <1>2, InvFacts, PickedWords
<1>4. Sound(init_state) /\ Lit(init_state)
  BY ResetFacts, DashboardAssumption DEF Sound, Lit, Off
<1>5. Basics'
  BY <1>1, <1>3, <1>4, ResetFacts DEF IInv, Basics, TypeOK, Lines
<1> QED BY <1>1, <1>5 DEF IInv

-----------------------------------------------------------------------------
(* The theorems.                                                           *)

LEMMA Initially == Init => IInv
<1> SUFFICES ASSUME Init PROVE IInv
  OBVIOUS
<1>1. /\ st = init_state /\ framed = FALSE /\ wire = << >> /\ phase = "READY" /\ open = {}
      /\ pressure = "nominal" /\ clock = [f \in Faults |-> Off]
      /\ up = TRUE /\ notified = FALSE /\ moving = FALSE /\ untold = FALSE
  BY DEF Init, Mission!Init
<1>2. wire \in Seq(Lines) /\ DOMAIN wire = {}
  BY <1>1, EmptySeq
<1>3. Sound(st) /\ Lit(st) /\ st \in RocketStates
  BY <1>1, ResetFacts, DashboardAssumption DEF Sound, Lit, Off
<1>4. Basics
  BY <1>1, <1>2, <1>3, FirstClock DEF Basics, TypeOK, Lines
<1>5. /\ \A f \in Faults : ~Faulty(wire, f) /\ Turns(wire, f)
      /\ DoomOver(wire) /\ CycleOver(wire) /\ Explained(st)
  BY <1>1, <1>2, ResetFacts
     DEF Faulty, Turns, DoomOver, CycleOver, Explained, Stands, Covered, Alternating
<1>6. Informed
  BY <1>1, <1>5
     DEF Informed, FaultsFollow, LossFollows, LossIsNews, PressureFollows, AnomalyFollows,
         FaultsAlternate, TimersFollow
<1> QED BY <1>4, <1>6 DEF IInv

LEMMA Stuttering ==
  ASSUME IInv, UNCHANGED vars
  PROVE  IInv'
<1>1. /\ st' = st /\ framed' = framed /\ wire' = wire /\ phase' = phase /\ open' = open
      /\ pressure' = pressure /\ clock' = clock /\ up' = up /\ notified' = notified
      /\ moving' = moving /\ untold' = untold
  BY DEF vars, mission, control
<1>2. Basics'
  BY <1>1, InvFacts, BasicsKept DEF IInv, Basics, TypeOK
<1>3. ~untold' => Informed'
  <2> SUFFICES ASSUME ~untold' PROVE Informed'
    OBVIOUS
  <2>1. Informed
    BY <1>1, InvFacts
  <2> QED BY <1>1, <2>1, SameScreen
       DEF Informed, FaultsFollow, LossFollows, LossIsNews, PressureFollows, AnomalyFollows,
           FaultsAlternate, TimersFollow
<1> QED BY <1>2, <1>3 DEF IInv

LEMMA Steps ==
  ASSUME IInv, [Next]_vars
  PROVE  IInv'
<1>1. \/ Frame \/ Restart \/ LaunchKey \/ Launch \/ Land \/ Pressure
      \/ \E f \in Faults : Repair(f) \/ Expires(f)
      \/ Observe \/ Touchdown \/ Explode \/ Reset \/ Telemetry
      \/ Cut \/ Reconnect \/ Tick \/ UNCHANGED vars
  BY Zenon DEF Next, Environment
<1>2. CASE Frame \/ Restart \/ Tick \/ UNCHANGED vars
  BY <1>2, FrameKeeps, RestartKeeps, TickKeeps, Stuttering, Zenon
<1>3. CASE LaunchKey \/ Launch \/ Land \/ Pressure
  BY <1>3, LaunchKeyKeeps, LaunchKeeps, LandKeeps, PressureKeeps, Zenon
<1>4. CASE \E f \in Faults : Repair(f) \/ Expires(f)
  BY <1>4, RepairKeeps, ExpiresKeeps, Zenon
<1>5. CASE Observe \/ Touchdown \/ Explode \/ Reset \/ Telemetry
  BY <1>5, ObserveKeeps, TouchdownKeeps, ExplodeKeeps, ResetKeeps, TelemetryKeeps, Zenon
<1>6. CASE Cut \/ Reconnect
  BY <1>6, CutKeeps, ReconnectKeeps, Zenon
<1> QED BY <1>1, <1>2, <1>3, <1>4, <1>5, <1>6, Zenon

(* The inductive invariant holds in every state the dashboard, the         *)
(* satellite and the lines between them can reach.                         *)
THEOREM Invariance == Spec => []IInv
<1>1. Init => IInv
  BY Initially
<1>2. IInv /\ [Next]_vars => IInv'
  BY Steps
<1> QED BY <1>1, <1>2, PTL DEF Spec

(* Every variable keeps its type: no timer of the screen, and no fault     *)
(* clock of the satellite, runs past ten seconds.                          *)
THEOREM TypeCorrect == Spec => []TypeOK
<1>1. IInv => TypeOK
  BY DEF IInv, Basics
<1> QED BY <1>1, Invariance, PTL

LEMMA AgreeNow == IInv => FaultsAgree
<1> SUFFICES ASSUME IInv, ~untold, NEW f \in Faults
             PROVE  /\ f \in open \ st.shown => Coming(Fault[f])
                    /\ f \in st.shown \ open => Coming(FaultOff[f]) \/ Coming("RESET_SIM")
                    /\ f \in st.shown => st.alert \/ st.exploded
  BY DEF FaultsAgree
<1>1. f \in open <=> Stands(f \in st.shown, wire, DOMAIN wire, Fault[f], Offs(f))
  BY InvFacts DEF Informed, FaultsFollow, Faulty
<1>2. f \in open \ st.shown => Coming(Fault[f])
  BY <1>1 DEF Stands, Coming
<1>3. f \in st.shown \ open => Coming(FaultOff[f]) \/ Coming("RESET_SIM")
  BY <1>1 DEF Stands, Coming, Offs
<1>4. f \in st.shown => st.alert \/ st.exploded
  BY DEF IInv, Basics, Lit
<1> QED BY <1>2, <1>3, <1>4

(* However the lines of the two FIFOs are read, the faults on the screen   *)
(* are those of the satellite but for lines on their way, and lit.         *)
THEOREM ScreenAgrees == Spec => []FaultsAgree
BY AgreeNow, Invariance, PTL

(* The alarm lamp is lit for a fault on the screen, for the pressure       *)
(* fault, or until a PROBLEM OFF on its way is read.                       *)
THEOREM AlarmsHaveCauses == Spec => []NoPhantomAlarm
<1>1. IInv => NoPhantomAlarm
  <2> SUFFICES ASSUME IInv, ~untold, st.alert, ~st.landing, ~st.exploded,
                      st.shown = {}, pressure # "fault"
               PROVE  Coming("PROBLEM_OFF")
    BY DEF NoPhantomAlarm
  <2>1. Informed
    BY InvFacts
  <2>2. st.problem
    BY DEF IInv, Basics, Lit
  <2>3. Has(wire, DOMAIN wire, "PROBLEM_OFF")
    BY <2>1, <2>2 DEF Informed, AnomalyFollows, Explained
  <2> QED BY <2>3 DEF Has, Coming
<1> QED BY <1>1, Invariance, PTL

(* A rocket that the satellite lost is lost on the screen, or its loss is  *)
(* on the way there.                                                       *)
THEOREM LossesShow == Spec => []LossShown
<1>1. IInv => LossShown
  BY InvFacts DEF LossShown, Informed, LossFollows, Doomed, Stands, Coming
<1> QED BY <1>1, Invariance, PTL

(* A frame with telemetry loses a rocket on the screen only if the         *)
(* satellite lost it too, or its ten seconds are over but for a frame, or  *)
(* the repair is on the way.                                               *)
THEOREM LossesAreReal == Spec => NoLoneLoss
<1> DEFINE A == ~st.exploded /\ st'.exploded /\ telemetry_fresh(st') /\ ~untold' =>
                  \/ phase = "EXPLODED" \/ Coming("RESET_SIM")
                  \/ \E f \in st'.shown :
                       (f \in open /\ clock[f] >= FaultFrames - 1) \/ Coming(FaultOff[f])
<1>1. IInv /\ [Next]_vars => [A]_vars
  <2> SUFFICES ASSUME IInv, Next, ~st.exploded, st'.exploded, telemetry_fresh(st'), ~untold',
                      phase # "EXPLODED", ~Coming("RESET_SIM")
               PROVE  \E f \in st'.shown :
                        (f \in open /\ clock[f] >= FaultFrames - 1) \/ Coming(FaultOff[f])
    BY Zenon
  <2>1. Frame
    <3>1. st' # st
      OBVIOUS
    <3>2. ~Restart
      BY ResetFacts DEF Restart
    <3>3. ~Environment /\ ~Tick
      BY <3>1 DEF Environment, Tick, LaunchKey, Launch, Land, Pressure, Repair, Expires,
                  Explodes, Observe, Touchdown, Explode, Reset, Telemetry, Cut, Reconnect
    <3> QED BY <3>2, <3>3 DEF Next
  <2>2. PICK C, D, U, d, g : Turned(C, D, U, d, g)
    BY <2>1, FrameTurns
  <2>3. IInv' /\ Informed' /\ Informed /\ framed' = TRUE /\ open' = open /\ phase' = phase
        /\ clock' = clock
    <3>1. IInv'
      BY <2>1, FrameKeeps
    <3>2. Informed'
      BY <3>1 DEF IInv
    <3> QED BY <2>1, <2>2, <3>1, <3>2, InvFacts DEF Turned, Frame, mission
  <2>4. \A op : Has(wire', DOMAIN wire', op) => Coming(op)
    <3>1. \A op : Has(wire', DOMAIN wire', op) <=> Has(wire, U, op)
      BY <2>2, FrameCovers
    <3>2. U \subseteq DOMAIN wire
      BY <2>2 DEF Turned
    <3> QED BY <3>1, <3>2 DEF Has, Coming
  <2>5. ~g.exploded
    <3>1. DoomOver(wire)
      BY <2>3 DEF Informed, LossIsNews
    <3>2. \A i \in DOMAIN wire : wire[i].op # "EXPLODE"
      BY <3>1 DEF DoomOver, Covered, Coming
    <3>3. ~Stands(st.exploded, wire, C, "EXPLODE", {"RESET_SIM"})
      BY <2>2, <3>2 DEF Stands, Turned
    <3> QED BY <2>2, <3>3 DEF Turned
  <2>6. PICK f \in st'.shown : st'.since[f] >= FaultFrames
    BY <2>2, <2>5, DynamicsFacts DEF Turned
  <2>7. f \in Faults /\ clock \in [Faults -> Off..FaultFrames]
        /\ st'.since[f] \in Off..FaultFrames
    <3>1. st' \in RocketStates
      BY <2>3 DEF IInv, Basics, TypeOK
    <3> QED BY <2>6, <3>1, RocketParts, InvFacts DEF TypeOK
  <2>8. CASE f \notin open
    <3>1. ~Stands(f \in st'.shown, wire', DOMAIN wire', Fault[f], Offs(f))
      BY <2>3, <2>7, <2>8 DEF Informed, FaultsFollow, Faulty
    <3>2. PICK i \in DOMAIN wire' : wire'[i].op \in Offs(f)
      BY <2>6, <3>1 DEF Stands
    <3>3. Coming(wire'[i].op)
      BY <2>4, <3>2 DEF Has
    <3>4. Coming(FaultOff[f])
      BY <3>2, <3>3 DEF Offs
    <3> QED BY <2>6, <3>4
  <2>9. CASE f \in open /\ ~Has(wire', DOMAIN wire', Fault[f])
    <3>1. st'.since[f] <= clock[f] + 1
      BY <2>3, <2>6, <2>9 DEF Informed, TimersFollow
    <3>2. clock[f] >= FaultFrames - 1
      BY <2>6, <2>7, <3>1, DashboardAssumption DEF Off
    <3> QED BY <2>6, <2>9, <3>2
  <2>10. CASE Has(wire', DOMAIN wire', Fault[f])
    <3>1. Alternating(f \in st'.shown, wire', DOMAIN wire', Fault[f], Offs(f))
      BY <2>3, <2>7 DEF Informed, FaultsAlternate, Turns
    <3>2. \E k \in DOMAIN wire' : wire'[k].op \in {FaultOff[f], "RESET_SIM"}
      BY <2>6, <2>10, <3>1 DEF Has, Alternating, Offs
    <3>3. Coming(FaultOff[f])
      BY <2>4, <3>2 DEF Has
    <3> QED BY <2>6, <3>3
  <2> QED BY <2>8, <2>9, <2>10
<1>2. Spec => [][A]_vars
  BY Invariance, <1>1, PTL DEF Spec
<1> QED BY <1>2 DEF NoLoneLoss
=============================================================================
