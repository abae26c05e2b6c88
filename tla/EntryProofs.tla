------------------------------ MODULE EntryProofs -------------------------------
(***************************************************************************)
(* No password is completed but on one device, and the stars of the popup  *)
(* are the digits of the remote, whatever the lines still unread.          *)
(*                                                                         *)
(* Stars are compared only once all lines are read, so the invariant says  *)
(* what they will be: however the dashboard starts to read the lines that  *)
(* are left, from where it is, or at any of them without a popup or after  *)
(* a key of the keyboard, the stars match at the end.                      *)
(***************************************************************************)
EXTENDS Entry, RemoteProofs

Ops == {"LAUNCH", "LAUNCH_OK", "PASSCHAR", "PASSBACK", "PASSRESET", "RESET_SIM"}

Stars(digits) == [i \in DOMAIN digits |-> Star]

(* What apply_cmd sees of the dashboard, and what it makes of it.          *)
Pictures == [popup : BOOLEAN, passbuf : Seq(Digits \cup {Star}), alone : BOOLEAN,
             launched : BOOLEAN]

Picture == [popup |-> popup, passbuf |-> passbuf, alone |-> alone, launched |-> launched]

Opens(p, op)  == op = "LAUNCH" /\ ~p.launched
Starts(p, op) == op = "LAUNCH_OK" /\ ~p.launched
Clears(p, op) == Opens(p, op) \/ op \in {"PASSRESET", "RESET_SIM"}

Typed(p, op) ==
  CASE Clears(p, op) -> << >>
    [] ~Clears(p, op) /\ op = "PASSCHAR" /\ p.popup /\ Len(p.passbuf) < PassbufMax ->
         Append(p.passbuf, Star)
    [] ~Clears(p, op) /\ op = "PASSBACK" /\ p.popup /\ p.passbuf # << >> -> Front(p.passbuf)
    [] OTHER -> p.passbuf

After(p, op) ==
  [popup    |-> IF Opens(p, op) THEN TRUE
                ELSE IF Starts(p, op) \/ op = "RESET_SIM" THEN FALSE ELSE p.popup,
   passbuf  |-> Typed(p, op),
   alone    |-> IF Clears(p, op) THEN TRUE ELSE p.alone,
   launched |-> IF Starts(p, op) THEN TRUE
                ELSE IF op = "RESET_SIM" THEN FALSE ELSE p.launched]

-----------------------------------------------------------------------------
(* The inductive invariant.                                                *)

(* Nothing is compared without a popup or after a key of the keyboard.     *)
Loose(p) == ~p.popup \/ ~p.alone

Settled(p, m, digits) ==
  m = "PASSWORD" /\ p.popup /\ p.alone => p.passbuf = Stars(digits)

(* h has the pictures from the line j on.                                  *)
Run(h, j, lines) ==
  /\ h \in [j..Len(lines) -> Pictures]
  /\ \A i \in (j + 1)..Len(lines) : h[i] = After(h[i - 1], lines[i])

Follows(lines, p, m, digits) ==
  \A j \in 0..Len(lines) : \A h :
    Run(h, j, lines) /\ (Loose(h[j]) \/ (j = 0 /\ h[j] = p))
      => Settled(h[Len(lines)], m, digits)

StarsFollow == Follows(cmd, Picture, mode, password_buf)

(* The first n of the digits are the password's.                           *)
Starting(digits, n) ==
  n <= Len(Password) /\ \A i \in 1..n : digits[i] = Password[i]

Counted(digits, count) ==
  \A n \in 0..Len(digits) : Starting(digits, n) => n <= count

PressedInOrder == Counted(password_buf, pressed.remote) /\ Counted(passbuf, pressed.keyboard)

NoPopupInFlight == popup => ~launched

IInv ==
  TypeOK /\ NoWrongKey /\ NoPopupInFlight /\ PressedInOrder /\ StarsFollow

-----------------------------------------------------------------------------
(* Pictures.                                                               *)

LEMMA FrontFacts ==
  ASSUME NEW S, NEW s \in Seq(S), s # << >>
  PROVE  /\ Front(s) \in Seq(S) /\ Len(Front(s)) = Len(s) - 1 /\ Len(s) \in Nat \ {0}
         /\ \A i \in 1..(Len(s) - 1) : Front(s)[i] = s[i]
<1>1. Len(s) \in Nat \ {0}
  BY EmptySeq, LenProperties
<1>2. \A i \in 1..(Len(s) - 1) : s[i] \in S
  BY <1>1, ElementOfSeq
<1>3. Len(s) - 1 \in Int /\ 1 \in Int
  BY <1>1
<1>4. /\ Front(s) \in Seq(S)
      /\ Len(Front(s)) = IF 1 <= Len(s) - 1 THEN Len(s) - 1 - 1 + 1 ELSE 0
      /\ \A i \in 1..(Len(s) - 1 - 1 + 1) : Front(s)[i] = s[1 + i - 1]
  BY <1>2, <1>3, SubSeqProperties DEF Front
<1>5. Len(Front(s)) = Len(s) - 1
  <2>1. Len(Front(s)) = IF 1 <= Len(s) - 1 THEN Len(s) - 1 - 1 + 1 ELSE 0
    BY <1>4, Zenon
  <2> DEFINE n == Len(s)
  <2>2. n \in Nat \ {0} /\ Len(Front(s)) = IF 1 <= n - 1 THEN n - 1 - 1 + 1 ELSE 0
    BY <1>1, <2>1
  <2> HIDE DEF n
  <2>3. Len(Front(s)) = n - 1
    BY <2>2
  <2> QED BY <2>3 DEF n
<1>6. ASSUME NEW i \in 1..(Len(s) - 1) PROVE Front(s)[i] = s[i]
  <2>1. i \in 1..(Len(s) - 1 - 1 + 1) /\ 1 + i - 1 = i
    BY <1>1, <1>6
  <2> QED BY <1>4, <2>1
<1> QED BY <1>1, <1>4, <1>5, <1>6

LEMMA AfterType ==
  ASSUME NEW p \in Pictures, NEW op \in Ops
  PROVE  After(p, op) \in Pictures
<1>1. p.passbuf \in Seq(Digits \cup {Star}) /\ p.popup \in BOOLEAN /\ p.alone \in BOOLEAN
      /\ p.launched \in BOOLEAN
  BY DEF Pictures
<1>2. Typed(p, op) \in Seq(Digits \cup {Star})
  <2>1. Append(p.passbuf, Star) \in Seq(Digits \cup {Star})
    BY <1>1
  <2>2. p.passbuf # << >> => Front(p.passbuf) \in Seq(Digits \cup {Star})
    BY <1>1, FrontFacts
  <2>3. << >> \in Seq(Digits \cup {Star})
    OBVIOUS
  <2> QED BY <1>1, <2>1, <2>2, <2>3, Zenon DEF Typed
<1> QED BY <1>1, <1>2 DEF After, Pictures

LEMMA AfterFacts ==
  ASSUME NEW p \in Pictures, NEW op \in Ops
  PROVE  /\ op = "PASSRESET" => After(p, op).passbuf = << >>
         /\ op = "RESET_SIM" => ~After(p, op).popup
         /\ op = "LAUNCH_OK" => \/ ~After(p, op).popup
                                \/ After(p, op) = p
         /\ op = "LAUNCH" => \/ After(p, op).passbuf = << >>
                             \/ After(p, op) = p
         /\ op \in {"PASSCHAR", "PASSBACK"} => /\ After(p, op).popup = p.popup
                                               /\ After(p, op).alone = p.alone
         /\ op = "PASSCHAR" /\ p.popup /\ Len(p.passbuf) < PassbufMax =>
              After(p, op).passbuf = Append(p.passbuf, Star)
         /\ op = "PASSBACK" /\ p.popup /\ p.passbuf # << >> =>
              After(p, op).passbuf = Front(p.passbuf)
<1>0. p = [popup |-> p.popup, passbuf |-> p.passbuf, alone |-> p.alone,
           launched |-> p.launched]
  BY DEF Pictures
<1>1. op = "PASSRESET" => After(p, op).passbuf = << >>
  BY DEF After, Typed, Clears
<1>2. op = "RESET_SIM" => ~After(p, op).popup
  BY DEF After, Opens
<1>3. op = "LAUNCH_OK" => \/ ~After(p, op).popup
                          \/ After(p, op) = p
  BY <1>0 DEF After, Typed, Clears, Opens, Starts
<1>4. op = "LAUNCH" => \/ After(p, op).passbuf = << >>
                       \/ After(p, op) = p
  BY <1>0 DEF After, Typed, Clears, Opens, Starts
<1>5. op \in {"PASSCHAR", "PASSBACK"} => /\ After(p, op).popup = p.popup
                                         /\ After(p, op).alone = p.alone
  BY DEF After, Clears, Opens, Starts
<1>6. op = "PASSCHAR" /\ p.popup /\ Len(p.passbuf) < PassbufMax =>
        After(p, op).passbuf = Append(p.passbuf, Star)
  BY DEF After, Typed, Clears, Opens
<1>7. op = "PASSBACK" /\ p.popup /\ p.passbuf # << >> =>
        After(p, op).passbuf = Front(p.passbuf)
  BY DEF After, Typed, Clears, Opens
<1> QED BY <1>1, <1>2, <1>3, <1>4, <1>5, <1>6, <1>7

-----------------------------------------------------------------------------
(* Lines unread.                                                           *)

(* Once all lines are read, the stars match.                               *)
LEMMA AllRead ==
  ASSUME NEW p \in Pictures, NEW m, NEW b, Follows(<< >>, p, m, b)
  PROVE  Settled(p, m, b)
<1> DEFINE h == [i \in 0..0 |-> p]
<1>1. Len(<< >>) = 0 /\ 0 \in 0..0 /\ h[0] = p
  OBVIOUS
<1>2. Run(h, 0, << >>)
  BY DEF Run
<1> HIDE DEF h
<1> QED BY <1>1, <1>2 DEF Follows

(* One more line is written.                                               *)
LEMMA Written ==
  ASSUME NEW c \in Seq(Ops), NEW p, NEW m, NEW b, NEW op \in Ops, NEW m2, NEW b2,
         Follows(c, p, m, b),
         \A q \in Pictures : Settled(q, m, b) => Settled(After(q, op), m2, b2)
  PROVE  Follows(Append(c, op), p, m2, b2) /\ Append(c, op) \in Seq(Ops)
<1> DEFINE d == Append(c, op)
<1>1. /\ d \in Seq(Ops) /\ Len(d) = Len(c) + 1 /\ Len(c) \in Nat
      /\ \A i \in 1..Len(c) : d[i] = c[i]
      /\ d[Len(c) + 1] = op
  BY AppendProperties, LenProperties
<1> HIDE DEF d
<1>2. ASSUME NEW j \in 0..Len(d), NEW h, Run(h, j, d), Loose(h[j]) \/ (j = 0 /\ h[j] = p)
      PROVE  Settled(h[Len(d)], m2, b2)
  <2>1. h \in [j..Len(d) -> Pictures] /\ \A i \in (j + 1)..Len(d) : h[i] = After(h[i - 1], d[i])
    BY <1>2 DEF Run
  <2>2. CASE j = Len(d)
    <3>1. Loose(h[Len(d)])
      BY <1>1, <1>2, <2>2
    <3> QED BY <3>1 DEF Settled, Loose
  <2>3. CASE j # Len(d)
    <3>1. j \in 0..Len(c)
      BY <1>1, <1>2, <2>3
    <3> DEFINE g == [i \in j..Len(c) |-> h[i]]
    <3>2. g \in [j..Len(c) -> Pictures]
      BY <1>1, <2>1, <3>1
    <3>3. ASSUME NEW i \in (j + 1)..Len(c) PROVE g[i] = After(g[i - 1], c[i])
      <4>1. /\ i \in 1..Len(c) /\ i \in (j + 1)..Len(d)
            /\ i \in j..Len(c) /\ i - 1 \in j..Len(c)
        BY <1>1, <3>1, <3>3
      <4> QED BY <1>1, <2>1, <4>1
    <3>4. g[j] = h[j] /\ g[Len(c)] = h[Len(c)]
      BY <1>1, <3>1
    <3> HIDE DEF g
    <3>r. Run(g, j, c)
      BY <3>2, <3>3 DEF Run
    <3>5. Settled(h[Len(c)], m, b)
      BY <1>2, <3>1, <3>4, <3>r DEF Follows
    <3>6. h[Len(d)] = After(h[Len(c)], op) /\ h[Len(c)] \in Pictures
      <4>1. Len(d) \in (j + 1)..Len(d) /\ Len(d) - 1 = Len(c) /\ Len(c) \in j..Len(d)
        BY <1>1, <3>1
      <4> QED BY <1>1, <2>1, <4>1
    <3> QED BY <3>5, <3>6
  <2> QED BY <2>2, <2>3
<1>3. Follows(d, p, m2, b2)
  BY <1>2 DEF Follows
<1> QED BY <1>1, <1>3 DEF d

(* Lines are lost, with what was made of them.                             *)
LEMMA Dropped ==
  ASSUME NEW c \in Seq(Ops), NEW p, NEW m, NEW b, NEW n \in 1..(Len(c) + 1),
         Follows(c, p, m, b), NEW q, Loose(q)
  PROVE  Follows(SubSeq(c, n, Len(c)), q, m, b) /\ SubSeq(c, n, Len(c)) \in Seq(Ops)
<1> DEFINE d == SubSeq(c, n, Len(c))
<1>1. /\ d \in Seq(Ops) /\ Len(d) = Len(c) - n + 1 /\ Len(c) \in Nat
      /\ \A i \in 1..Len(d) : d[i] = c[i + n - 1]
  <2>1. Len(c) \in Nat /\ \A i \in n..Len(c) : c[i] \in Ops
    BY LenProperties, ElementOfSeq
  <2>2. /\ d \in Seq(Ops) /\ Len(d) = IF n <= Len(c) THEN Len(c) - n + 1 ELSE 0
        /\ \A i \in 1..(Len(c) - n + 1) : d[i] = c[n + i - 1]
    BY <2>1, SubSeqProperties
  <2> QED BY <2>1, <2>2
<1> HIDE DEF d
<1>2. ASSUME NEW j \in 0..Len(d), NEW h, Run(h, j, d), Loose(h[j]) \/ (j = 0 /\ h[j] = q)
      PROVE  Settled(h[Len(d)], m, b)
  <2> DEFINE k == n - 1
  <2>1. h \in [j..Len(d) -> Pictures] /\ \A i \in (j + 1)..Len(d) : h[i] = After(h[i - 1], d[i])
    BY <1>2 DEF Run
  <2>2. /\ k \in Nat /\ n = k + 1 /\ Len(d) = Len(c) - k
        /\ j + k \in 0..Len(c) /\ j \in Nat /\ j \in 0..Len(d)
    BY <1>1, <1>2
  <2> HIDE DEF k
  <2> DEFINE g == [i \in (j + k)..Len(c) |-> h[i - k]]
  <2>3. \A i \in (j + k)..Len(c) : i - k \in j..Len(d)
    BY <1>2, <2>2, <1>1
  <2>4. g \in [(j + k)..Len(c) -> Pictures]
    BY <2>1, <2>3
  <2>5. ASSUME NEW i \in (j + k + 1)..Len(c) PROVE g[i] = After(g[i - 1], c[i])
    <3>1. /\ i \in (j + k)..Len(c) /\ i - 1 \in (j + k)..Len(c)
          /\ i - k \in (j + 1)..Len(d) /\ i - k \in 1..Len(d)
          /\ (i - k) + n - 1 = i /\ (i - k) - 1 = (i - 1) - k
      BY <1>1, <1>2, <2>2, <2>5
    <3>2. h[i - k] = After(h[(i - k) - 1], d[i - k])
      BY <2>1, <3>1
    <3>3. d[i - k] = c[i]
      BY <1>1, <3>1
    <3> QED BY <3>1, <3>2, <3>3
  <2>6. g[j + k] = h[j] /\ g[Len(c)] = h[Len(d)]
    BY <1>1, <2>2
  <2>7. Run(g, j + k, c)
    BY <2>4, <2>5 DEF Run
  <2>8. Loose(h[j])
    BY <1>2
  <2> HIDE DEF g
  <2>9. Settled(g[Len(c)], m, b)
    BY <2>2, <2>6, <2>7, <2>8 DEF Follows
  <2> QED BY <2>6, <2>9
<1>3. Follows(d, q, m, b)
  BY <1>2 DEF Follows
<1> QED BY <1>1, <1>3 DEF d

(* The stars are no more compared.                                         *)
LEMMA Loosened ==
  ASSUME NEW c, NEW p, NEW m, NEW b, Follows(c, p, m, b), NEW q, Loose(q)
  PROVE  Follows(c, q, m, b)
BY DEF Follows

(* Nor when no password is entered.                                        *)
LEMMA NothingEntered ==
  ASSUME NEW c, NEW p, NEW m, NEW b, m # "PASSWORD"
  PROVE  Follows(c, p, m, b)
BY DEF Follows, Settled

(* The first line is read.                                                 *)
LEMMA LineRead ==
  ASSUME NEW c \in Seq(Ops), c # << >>, NEW p \in Pictures, NEW m, NEW b,
         Follows(c, p, m, b)
  PROVE  Follows(Tail(c), After(p, Head(c)), m, b) /\ Tail(c) \in Seq(Ops)
<1> DEFINE d == Tail(c)
<1>1. /\ d \in Seq(Ops) /\ Len(d) = Len(c) - 1 /\ Len(c) \in Nat \ {0}
      /\ Head(c) = c[1]
      /\ \A i \in 1..Len(d) : d[i] = c[i + 1]
  BY HeadTailProperties, EmptySeq, LenProperties
<1> HIDE DEF d
<1>2. ASSUME NEW j \in 0..Len(d), NEW h, Run(h, j, d),
             Loose(h[j]) \/ (j = 0 /\ h[j] = After(p, c[1]))
      PROVE  Settled(h[Len(d)], m, b)
  <2>1. h \in [j..Len(d) -> Pictures] /\ \A i \in (j + 1)..Len(d) : h[i] = After(h[i - 1], d[i])
    BY <1>2 DEF Run
  <2>2. CASE Loose(h[j])
    <3> DEFINE g == [i \in (j + 1)..Len(c) |-> h[i - 1]]
    <3>1. \A i \in (j + 1)..Len(c) : i - 1 \in j..Len(d)
      BY <1>1, <1>2
    <3>2. g \in [(j + 1)..Len(c) -> Pictures]
      BY <2>1, <3>1
    <3>3. ASSUME NEW i \in (j + 1 + 1)..Len(c) PROVE g[i] = After(g[i - 1], c[i])
      <4>1. /\ i \in (j + 1)..Len(c) /\ i - 1 \in (j + 1)..Len(c)
            /\ i - 1 \in (j + 1)..Len(d) /\ i - 1 \in 1..Len(d) /\ (i - 1) + 1 = i
        BY <1>1, <1>2, <3>3
      <4>2. h[i - 1] = After(h[(i - 1) - 1], d[i - 1]) /\ d[i - 1] = c[i]
        BY <1>1, <2>1, <4>1
      <4> QED BY <4>1, <4>2
    <3>4. /\ j + 1 \in 0..Len(c) /\ g[j + 1] = h[j] /\ g[Len(c)] = h[Len(d)]
      BY <1>1, <1>2
    <3>5. Run(g, j + 1, c)
      BY <3>2, <3>3 DEF Run
    <3> HIDE DEF g
    <3> QED BY <2>2, <3>4, <3>5 DEF Follows
  <2>3. CASE j = 0 /\ h[j] = After(p, c[1])
    <3> DEFINE g == [i \in 0..Len(c) |-> IF i = 0 THEN p ELSE h[i - 1]]
    <3>1. \A i \in 1..Len(c) : i - 1 \in j..Len(d)
      BY <1>1, <2>3
    <3>2. g \in [0..Len(c) -> Pictures]
      BY <2>1, <3>1
    <3>3. ASSUME NEW i \in (0 + 1)..Len(c) PROVE g[i] = After(g[i - 1], c[i])
      <4>1. CASE i = 1
        BY <1>1, <2>3, <4>1
      <4>2. CASE i # 1
        <5>1. /\ i \in 0..Len(c) /\ i - 1 \in 1..Len(c) /\ i - 1 # 0 /\ i # 0
              /\ i - 1 \in (j + 1)..Len(d) /\ i - 1 \in 1..Len(d) /\ (i - 1) + 1 = i
          BY <1>1, <2>3, <3>3, <4>2
        <5>2. h[i - 1] = After(h[(i - 1) - 1], d[i - 1]) /\ d[i - 1] = c[i]
          BY <1>1, <2>1, <5>1
        <5> QED BY <5>1, <5>2
      <4> QED BY <4>1, <4>2
    <3>4. g[0] = p /\ g[Len(c)] = h[Len(d)] /\ 0 \in 0..Len(c)
      BY <1>1
    <3>5. Run(g, 0, c)
      BY <3>2, <3>3 DEF Run
    <3> HIDE DEF g
    <3> QED BY <3>4, <3>5 DEF Follows
  <2> QED BY <1>2, <2>2, <2>3
<1>3. Follows(d, After(p, c[1]), m, b)
  BY <1>2 DEF Follows
<1> QED BY <1>1, <1>3 DEF d

-----------------------------------------------------------------------------
(* What each line makes of the stars.                                      *)

LEMMA Constants ==
  /\ Password \in Seq(Digits) /\ Len(Password) \in Nat \ {0} /\ PassbufMax \in Nat
  /\ Len(Password) <= PassbufMax /\ LinesMax \in Nat
  /\ Star \notin Digits /\ None \notin Keys /\ Digits \subseteq Keys
  /\ "OK" \notin Digits /\ "BACK" \notin Digits
BY EntryAssumption, RemoteAssumption DEF Digits

LEMMA StarsFacts ==
  ASSUME NEW b \in Seq(Digits)
  PROVE  /\ Stars(b) \in Seq(Digits \cup {Star}) /\ Len(Stars(b)) = Len(b) /\ Len(b) \in Nat
         /\ \A i \in 1..Len(b) : Stars(b)[i] = Star
<1>1. DOMAIN b = 1..Len(b) /\ Len(b) \in Nat
  BY LenProperties
<1>2. Stars(b) = [i \in 1..Len(b) |-> Star]
  BY <1>1 DEF Stars
<1> HIDE DEF Stars
<1> QED BY <1>1, <1>2

LEMMA StarsOfNone == Stars(<< >>) = << >>
BY DEF Stars

LEMMA StarAdded ==
  ASSUME NEW b \in Seq(Digits), NEW k \in Digits
  PROVE  /\ Append(Stars(b), Star) = Stars(Append(b, k))
         /\ Append(b, k) \in Seq(Digits) /\ Len(Append(b, k)) = Len(b) + 1
<1> DEFINE s == Append(Stars(b), Star)
           t == Stars(Append(b, k))
<1>1. Append(b, k) \in Seq(Digits) /\ Len(Append(b, k)) = Len(b) + 1 /\ Len(b) \in Nat
  BY AppendProperties, LenProperties
<1>2. /\ s \in Seq(Digits \cup {Star}) /\ Len(s) = Len(b) + 1
      /\ \A i \in 1..Len(b) : s[i] = Stars(b)[i]
      /\ s[Len(b) + 1] = Star
  BY StarsFacts, AppendProperties
<1>3. /\ t \in Seq(Digits \cup {Star}) /\ Len(t) = Len(b) + 1
      /\ \A i \in 1..(Len(b) + 1) : t[i] = Star
  BY <1>1, StarsFacts
<1> HIDE DEF s, t
<1>4. \A i \in 1..Len(s) : s[i] = t[i]
  <2> TAKE i \in 1..Len(s)
  <2>1. CASE i = Len(b) + 1
    BY <1>1, <1>2, <1>3, <2>1
  <2>2. CASE i # Len(b) + 1
    <3>1. i \in 1..Len(b) /\ i \in 1..(Len(b) + 1)
      BY <1>1, <1>2, <2>2
    <3>2. Stars(b)[i] = Star
      BY <3>1, StarsFacts
    <3> QED BY <1>2, <1>3, <3>1, <3>2
  <2> QED BY <2>1, <2>2
<1>5. s = t
  BY <1>2, <1>3, <1>4, SeqEqual
<1> QED BY <1>1, <1>5 DEF s, t

LEMMA StarRemoved ==
  ASSUME NEW b \in Seq(Digits), b # << >>
  PROVE  Front(Stars(b)) = Stars(Front(b)) /\ Stars(b) # << >>
<1> DEFINE s == Front(Stars(b))
           t == Stars(Front(b))
           n == Len(b) - 1
<1>1. /\ Front(b) \in Seq(Digits) /\ Len(Front(b)) = n /\ n \in Nat /\ Len(b) = n + 1
  BY FrontFacts
<1>2. Stars(b) \in Seq(Digits \cup {Star}) /\ Len(Stars(b)) = n + 1
      /\ \A i \in 1..(n + 1) : Stars(b)[i] = Star
  BY <1>1, StarsFacts
<1>3. Stars(b) # << >>
  BY <1>1, <1>2
<1>4. /\ s \in Seq(Digits \cup {Star}) /\ Len(s) = Len(Stars(b)) - 1
      /\ \A i \in 1..(Len(Stars(b)) - 1) : s[i] = Stars(b)[i]
  BY <1>2, <1>3, FrontFacts
<1>5. t \in Seq(Digits \cup {Star}) /\ Len(t) = n /\ \A i \in 1..n : t[i] = Star
  BY <1>1, StarsFacts
<1> HIDE DEF s, t, n
<1>6. Len(s) = Len(t) /\ \A i \in 1..Len(s) : s[i] = t[i]
  <2>1. Len(s) = n /\ \A i \in 1..n : s[i] = Stars(b)[i]
    BY <1>1, <1>2, <1>4
  <2>2. \A i \in 1..n : Stars(b)[i] = Star
    BY <1>1, <1>2
  <2> QED BY <1>5, <2>1, <2>2
<1>7. s = t
  BY <1>4, <1>5, <1>6, SeqEqual
<1> QED BY <1>3, <1>7 DEF s, t

(* PASSRESET, and LAUNCH after it, leave no star.                          *)
LEMMA SettledReset ==
  ASSUME NEW q \in Pictures, NEW m
  PROVE  Settled(After(q, "PASSRESET"), m, << >>)
BY AfterFacts, StarsOfNone DEF Settled, Ops

LEMMA SettledLaunch ==
  ASSUME NEW q \in Pictures, NEW m, Settled(q, m, << >>)
  PROVE  Settled(After(q, "LAUNCH"), m, << >>)
BY AfterFacts, StarsOfNone DEF Settled, Ops

(* LAUNCH_OK and RESET_SIM close the popup.                                *)
LEMMA SettledClosed ==
  ASSUME NEW q \in Pictures, NEW m, NEW b, NEW op \in {"LAUNCH_OK", "RESET_SIM"},
         Settled(q, m, b)
  PROVE  Settled(After(q, op), m, b)
<1>1. CASE op = "LAUNCH_OK"
  BY <1>1, AfterFacts DEF Settled, Ops
<1>2. CASE op = "RESET_SIM"
  BY <1>2, AfterFacts DEF Settled, Ops
<1> QED BY <1>1, <1>2

LEMMA SettledChar ==
  ASSUME NEW q \in Pictures, NEW m, NEW b \in Seq(Digits), NEW k \in Digits,
         Len(b) < PassbufMax, Settled(q, m, b)
  PROVE  Settled(After(q, "PASSCHAR"), m, Append(b, k))
<1> DEFINE r == After(q, "PASSCHAR")
<1>1. SUFFICES ASSUME m = "PASSWORD", r.popup, r.alone PROVE r.passbuf = Stars(Append(b, k))
  BY DEF Settled
<1>2. q.popup /\ q.alone
  BY <1>1, AfterFacts, Zenon DEF Ops
<1>3. q.passbuf = Stars(b)
  BY <1>1, <1>2 DEF Settled
<1>4. Len(q.passbuf) < PassbufMax
  BY <1>3, StarsFacts
<1>5. r.passbuf = Append(Stars(b), Star)
  BY <1>2, <1>3, <1>4, AfterFacts DEF Ops
<1> QED BY <1>5, StarAdded

LEMMA SettledBack ==
  ASSUME NEW q \in Pictures, NEW m, NEW b \in Seq(Digits), b # << >>, Settled(q, m, b)
  PROVE  Settled(After(q, "PASSBACK"), m, Front(b))
<1> DEFINE r == After(q, "PASSBACK")
<1>1. SUFFICES ASSUME m = "PASSWORD", r.popup, r.alone PROVE r.passbuf = Stars(Front(b))
  BY DEF Settled
<1>2. q.popup /\ q.alone
  BY <1>1, AfterFacts, Zenon DEF Ops
<1>3. q.passbuf = Stars(b)
  BY <1>1, <1>2 DEF Settled
<1>4. q.passbuf # << >>
  BY <1>3, StarRemoved
<1>5. r.passbuf = Front(Stars(b))
  BY <1>2, <1>3, <1>4, AfterFacts DEF Ops
<1> QED BY <1>5, StarRemoved

-----------------------------------------------------------------------------
(* Lines written.                                                          *)

LEMMA OneWritten ==
  ASSUME NEW c \in Seq(Ops), NEW a \in Ops
  PROVE  c \o <<a>> = Append(c, a) /\ Append(c, a) \in Seq(Ops)
BY AppendIsConcat, AppendProperties

LEMMA TwoWritten ==
  ASSUME NEW c \in Seq(Ops), NEW a \in Ops, NEW e \in Ops
  PROVE  /\ c \o <<a, e>> = Append(Append(c, a), e)
         /\ Append(Append(c, a), e) \in Seq(Ops)
<1>1. Append(c, a) \in Seq(Ops) /\ Append(Append(c, a), e) \in Seq(Ops)
  BY AppendProperties
<1>2. /\ Len(Append(c, a)) = Len(c) + 1 /\ Len(c) \in Nat
      /\ \A i \in 1..Len(c) : Append(c, a)[i] = c[i]
      /\ Append(c, a)[Len(c) + 1] = a
  BY AppendProperties, LenProperties
<1>3. /\ Len(Append(Append(c, a), e)) = Len(c) + 2
      /\ \A i \in 1..(Len(c) + 1) : Append(Append(c, a), e)[i] = Append(c, a)[i]
      /\ Append(Append(c, a), e)[Len(c) + 2] = e
  BY <1>1, <1>2, AppendProperties
<1>4. <<a, e>> \in Seq(Ops) /\ Len(<<a, e>>) = 2 /\ <<a, e>>[1] = a /\ <<a, e>>[2] = e
  OBVIOUS
<1>5. /\ c \o <<a, e>> \in Seq(Ops) /\ Len(c \o <<a, e>>) = Len(c) + 2
      /\ \A i \in 1..Len(c) : (c \o <<a, e>>)[i] = c[i]
      /\ (c \o <<a, e>>)[Len(c) + 1] = a /\ (c \o <<a, e>>)[Len(c) + 2] = e
  <2> DEFINE t == <<a, e>>
  <2>0. t \in Seq(Ops) /\ Len(t) = 2 /\ t[1] = a /\ t[2] = e
    BY <1>4
  <2> HIDE DEF t
  <2>1. /\ c \o t \in Seq(Ops) /\ Len(c \o t) = Len(c) + 2
        /\ \A i \in 1..(Len(c) + 2) : (c \o t)[i] = IF i <= Len(c) THEN c[i] ELSE t[i - Len(c)]
    <3>1. /\ c \o t \in Seq(Ops) /\ Len(c \o t) = Len(c) + Len(t)
          /\ \A i \in 1..(Len(c) + Len(t)) :
               (c \o t)[i] = IF i <= Len(c) THEN c[i] ELSE t[i - Len(c)]
      BY <2>0, ConcatProperties, Zenon
    <3> QED BY <2>0, <3>1
  <2>2. \A i \in 1..Len(c) : (c \o t)[i] = c[i]
    BY <1>2, <2>1
  <2>3. (c \o t)[Len(c) + 1] = a /\ (c \o t)[Len(c) + 2] = e
    BY <1>2, <2>0, <2>1
  <2> QED BY <2>1, <2>2, <2>3 DEF t
<1>6. \A i \in 1..(Len(c) + 2) : (c \o <<a, e>>)[i] = Append(Append(c, a), e)[i]
  <2> DEFINE u == c \o <<a, e>>
             w == Append(Append(c, a), e)
             v == Append(c, a)
  <2>1. /\ \A i \in 1..Len(c) : u[i] = c[i] /\ v[i] = c[i]
        /\ \A i \in 1..(Len(c) + 1) : w[i] = v[i]
        /\ u[Len(c) + 1] = a /\ v[Len(c) + 1] = a /\ u[Len(c) + 2] = e /\ w[Len(c) + 2] = e
    BY <1>2, <1>3, <1>5
  <2> HIDE DEF u, v, w
  <2>2. \A i \in 1..(Len(c) + 2) : u[i] = w[i]
    <3> TAKE i \in 1..(Len(c) + 2)
    <3>1. CASE i \in 1..Len(c)
      BY <1>2, <2>1, <3>1
    <3>2. CASE i = Len(c) + 1
      BY <1>2, <2>1, <3>2
    <3>3. CASE i = Len(c) + 2
      BY <2>1, <3>3
    <3> QED BY <1>2, <3>1, <3>2, <3>3
  <2> QED BY <2>2 DEF u, w
<1> QED BY <1>1, <1>3, <1>5, <1>6, SeqEqual

LEMMA Echoes ==
  ASSUME NEW a \in Ops, NEW e \in Ops
  PROVE  Append(<< >>, e) = <<e>> /\ Append(<<a>>, e) = <<a, e>>
<1>1. Append(<< >>, e) = <<e>>
  OBVIOUS
<1>2. Append(<<a>>, e) = <<a, e>>
  <2>1. <<a>> \in Seq(Ops) /\ Len(<<a>>) = 1 /\ <<a>>[1] = a
    OBVIOUS
  <2>2. <<a, e>> \in Seq(Ops) /\ Len(<<a, e>>) = 2 /\ <<a, e>>[1] = a /\ <<a, e>>[2] = e
    OBVIOUS
  <2> DEFINE s == <<a>>
             t == <<a, e>>
             u == Append(s, e)
  <2>3. /\ s \in Seq(Ops) /\ Len(s) = 1 /\ s[1] = a
        /\ t \in Seq(Ops) /\ Len(t) = 2 /\ t[1] = a /\ t[2] = e
    BY <2>1, <2>2
  <2> HIDE DEF s, t
  <2>4. /\ u \in Seq(Ops) /\ Len(u) = Len(s) + 1 /\ u[Len(s) + 1] = e
        /\ u[1] = s[1]
    <3>1. u \in Seq(Ops) /\ Len(u) = Len(s) + 1 /\ u[Len(s) + 1] = e
      BY <2>3, AppendProperties
    <3>2. 1 \in 1..Len(s)
      BY <2>3
    <3>3. u[1] = s[1]
      BY <2>3, <3>2, AppendProperties
    <3> QED BY <3>1, <3>3
  <2> HIDE DEF u
  <2>5. Len(u) = 2 /\ u[1] = a /\ u[2] = e
    BY <2>3, <2>4
  <2>6. \A i \in 1..Len(u) : u[i] = t[i]
    BY <2>3, <2>5
  <2>7. u = t
    BY <2>3, <2>4, <2>5, <2>6, SeqEqual
  <2> QED BY <2>7 DEF s, t, u
<1> QED BY <1>1, <1>2

(* The parts of the type invariant.                                        *)
LEMMA TypingParts ==
  ASSUME TypeOK
  PROVE  /\ mode \in {"NORMAL", "PASSWORD"} /\ launch_in_progress \in BOOLEAN
         /\ password_buf \in Seq(Digits) /\ Len(password_buf) < Len(Password)
         /\ Len(password_buf) < PassbufMax /\ Len(password_buf) \in Nat
         /\ request \in {"remote", "keyboard", None}
         /\ cmd \in Seq(Ops) /\ Picture \in Pictures
         /\ auth \in 0..LinesMax
         /\ popup \in BOOLEAN /\ launched \in BOOLEAN /\ alone \in BOOLEAN
         /\ passbuf \in Seq(Digits \cup {Star}) /\ Len(passbuf) <= PassbufMax
         /\ Len(passbuf) \in Nat
         /\ pressed \in [{"remote", "keyboard"} -> 0..Len(Password)]
<1>1. Len(password_buf) < PassbufMax /\ Len(password_buf) \in Nat /\ Len(passbuf) \in Nat
  BY Constants, LenProperties DEF TypeOK
<1>2. Picture \in Pictures
  BY DEF TypeOK, Picture, Pictures
<1>3. cmd \in Seq(Ops)
  BY DEF TypeOK, Ops
<1> QED BY <1>1, <1>2, <1>3 DEF TypeOK

-----------------------------------------------------------------------------
(* The actions of the controller that touch the password.                  *)

LEMMA LaunchKeyFollows ==
  ASSUME TypeOK, LaunchKey
  PROVE  Follows(cmd', Picture, "PASSWORD", << >>) /\ cmd' \in Seq(Ops)
<1>1. cmd \in Seq(Ops) /\ "PASSRESET" \in Ops /\ "LAUNCH" \in Ops
  BY TypingParts DEF Ops
<1>2. Follows(cmd, Picture, "NORMAL", << >>)
  BY NothingEntered
<1>3. Follows(Append(cmd, "PASSRESET"), Picture, "PASSWORD", << >>)
      /\ Append(cmd, "PASSRESET") \in Seq(Ops)
  <2>1. \A q \in Pictures : Settled(q, "NORMAL", << >>)
                             => Settled(After(q, "PASSRESET"), "PASSWORD", << >>)
    BY SettledReset
  <2> QED BY <1>1, <1>2, <2>1, Written
<1>4. Follows(Append(Append(cmd, "PASSRESET"), "LAUNCH"), Picture, "PASSWORD", << >>)
      /\ Append(Append(cmd, "PASSRESET"), "LAUNCH") \in Seq(Ops)
  <2>1. \A q \in Pictures : Settled(q, "PASSWORD", << >>)
                             => Settled(After(q, "LAUNCH"), "PASSWORD", << >>)
    BY SettledLaunch
  <2> HIDE DEF Ops
  <2> DEFINE c == Append(cmd, "PASSRESET")
  <2>2. c \in Seq(Ops) /\ Follows(c, Picture, "PASSWORD", << >>)
    BY <1>3
  <2> HIDE DEF c
  <2>3. /\ Follows(Append(c, "LAUNCH"), Picture, "PASSWORD", << >>)
        /\ Append(c, "LAUNCH") \in Seq(Ops)
    BY <1>1, <2>1, <2>2, Written
  <2> QED BY <2>3 DEF c
<1>5. cmd' = cmd \o <<"PASSRESET", "LAUNCH">>
  BY DEF LaunchKey, Writes
<1> QED BY <1>1, <1>4, <1>5, TwoWritten

LEMMA ConfirmFollows ==
  ASSUME TypeOK, NEW digits, NEW echo \in {<< >>, <<"PASSCHAR">>},
         password_confirm(digits, echo), NEW m
  PROVE  Follows(cmd', Picture, m, << >>) /\ cmd' \in Seq(Ops)
<1>1. cmd \in Seq(Ops) /\ "PASSRESET" \in Ops /\ "PASSCHAR" \in Ops
  BY TypingParts DEF Ops
<1>2. \A c \in Seq(Ops) : /\ Follows(Append(c, "PASSRESET"), Picture, m, << >>)
                          /\ Append(c, "PASSRESET") \in Seq(Ops)
  <2> TAKE c \in Seq(Ops)
  <2>1. Follows(c, Picture, "NORMAL", << >>)
    BY NothingEntered
  <2> QED BY <1>1, <2>1, Written, SettledReset
<1>3. cmd' = cmd \o Append(echo, "PASSRESET")
  BY DEF password_confirm, Writes
<1>4. CASE echo = << >>
  <2>1. cmd' = Append(cmd, "PASSRESET")
    BY <1>1, <1>3, <1>4, Echoes, OneWritten
  <2> QED BY <1>1, <1>2, <2>1
<1>5. CASE echo = <<"PASSCHAR">>
  <2>1. cmd' = Append(Append(cmd, "PASSCHAR"), "PASSRESET")
    BY <1>1, <1>3, <1>5, Echoes, TwoWritten
  <2>2. Append(cmd, "PASSCHAR") \in Seq(Ops)
    BY <1>1, OneWritten
  <2> QED BY <1>2, <2>1, <2>2
<1> QED BY <1>4, <1>5

LEMMA CharFollows ==
  ASSUME TypeOK, StarsFollow, NEW k \in Digits, password_add_char(k)
  PROVE  /\ Follows(cmd', Picture, mode', password_buf') /\ cmd' \in Seq(Ops)
         /\ password_buf' \in Seq(Digits) /\ Len(password_buf') < Len(Password)
<1>0. /\ cmd \in Seq(Ops) /\ "PASSCHAR" \in Ops /\ password_buf \in Seq(Digits)
      /\ Len(password_buf) < Len(Password) /\ Len(password_buf) < PassbufMax
      /\ Len(password_buf) \in Nat /\ Len(Password) \in Nat \ {0}
  BY TypingParts, Constants DEF Ops
<1> DEFINE digits == Append(password_buf, k)
<1>1. digits \in Seq(Digits) /\ Len(digits) = Len(password_buf) + 1
  BY <1>0, StarAdded
<1>2. CASE Len(digits) = Len(Password)
  <2>1. password_confirm(digits, <<"PASSCHAR">>)
    BY <1>2 DEF password_add_char
  <2>2. password_buf' = << >>
    BY <2>1 DEF password_confirm
  <2>3. Follows(cmd', Picture, mode', << >>) /\ cmd' \in Seq(Ops)
    BY <2>1, ConfirmFollows
  <2>4. << >> \in Seq(Digits) /\ Len(<< >>) = 0
    OBVIOUS
  <2> QED BY <1>0, <2>2, <2>3, <2>4
<1>3. CASE Len(digits) # Len(Password)
  <2>1. password_buf' = digits /\ cmd' = cmd \o <<"PASSCHAR">> /\ mode' = mode
    BY <1>3 DEF password_add_char, Writes
  <2>2. \A q \in Pictures : Settled(q, mode, password_buf)
                             => Settled(After(q, "PASSCHAR"), mode, digits)
    BY <1>0, SettledChar
  <2>3. Follows(cmd, Picture, mode, password_buf)
    BY DEF StarsFollow
  <2> HIDE DEF digits
  <2>4. /\ Follows(Append(cmd, "PASSCHAR"), Picture, mode, digits)
        /\ Append(cmd, "PASSCHAR") \in Seq(Ops)
    BY <1>0, <2>2, <2>3, Written
  <2>5. cmd' = Append(cmd, "PASSCHAR")
    BY <1>0, <2>1, OneWritten
  <2>6. Len(digits) < Len(Password)
    BY <1>0, <1>1, <1>3
  <2> QED BY <1>1, <2>1, <2>4, <2>5, <2>6
<1> QED BY <1>2, <1>3

LEMMA BackspaceFollows ==
  ASSUME TypeOK, StarsFollow, password_backspace
  PROVE  /\ Follows(cmd', Picture, mode', password_buf') /\ cmd' \in Seq(Ops)
         /\ password_buf' \in Seq(Digits) /\ Len(password_buf') <= Len(password_buf)
<1>0. /\ cmd \in Seq(Ops) /\ "PASSBACK" \in Ops /\ "PASSRESET" \in Ops
      /\ password_buf \in Seq(Digits)
  BY TypingParts DEF Ops
<1>1. CASE password_buf # << >>
  <2>1. /\ password_buf' = Front(password_buf) /\ cmd' = cmd \o <<"PASSBACK">>
        /\ mode' = mode
    BY <1>1 DEF password_backspace, Writes
  <2>2. \A q \in Pictures : Settled(q, mode, password_buf)
                             => Settled(After(q, "PASSBACK"), mode, Front(password_buf))
    BY <1>0, <1>1, SettledBack
  <2>3. Follows(cmd, Picture, mode, password_buf)
    BY DEF StarsFollow
  <2>4. /\ Follows(Append(cmd, "PASSBACK"), Picture, mode, Front(password_buf))
        /\ Append(cmd, "PASSBACK") \in Seq(Ops)
    BY <1>0, <2>2, <2>3, Written
  <2>5. cmd' = Append(cmd, "PASSBACK")
    BY <1>0, <2>1, OneWritten
  <2>6. /\ Front(password_buf) \in Seq(Digits)
        /\ Len(Front(password_buf)) = Len(password_buf) - 1
        /\ Len(password_buf) \in Nat \ {0}
    BY <1>0, <1>1, FrontFacts
  <2>7. Len(Front(password_buf)) <= Len(password_buf)
    BY <2>6
  <2> QED BY <2>1, <2>4, <2>5, <2>6, <2>7
<1>2. CASE password_buf = << >>
  <2>1. /\ password_buf' = password_buf /\ cmd' = cmd \o <<"PASSRESET">>
        /\ mode' = "NORMAL"
    BY <1>2 DEF password_backspace, Writes
  <2>2. cmd' \in Seq(Ops)
    BY <1>0, <2>1, OneWritten
  <2>3. Len(password_buf) <= Len(password_buf)
    BY <1>0, LenProperties
  <2> QED BY <1>0, <2>1, <2>2, <2>3, NothingEntered
<1> QED BY <1>1, <1>2

-----------------------------------------------------------------------------
(* The digits pressed.                                                     *)

LEMMA CountedNone ==
  ASSUME NEW count \in Nat
  PROVE  Counted(<< >>, count)
BY DEF Counted

LEMMA CountedMore ==
  ASSUME NEW s, NEW c \in Nat, NEW d \in Nat, Len(s) \in Nat, Counted(s, c), c <= d
  PROVE  Counted(s, d)
BY DEF Counted

LEMMA AdvancedFacts ==
  ASSUME NEW c \in 0..Len(Password), NEW k
  PROVE  Advanced(c, k) \in 0..Len(Password) /\ c <= Advanced(c, k)
BY Constants DEF Advanced

(* The digit read is the one that was pressed.                             *)
LEMMA CountedDigit ==
  ASSUME NEW S, NEW s \in Seq(S), NEW k \in S, NEW c \in 0..Len(Password), Counted(s, c)
  PROVE  Counted(Append(s, k), Advanced(c, k))
<1> DEFINE t == Append(s, k)
<1>1. /\ Len(t) = Len(s) + 1 /\ Len(s) \in Nat /\ t[Len(s) + 1] = k
      /\ \A i \in 1..Len(s) : t[i] = s[i]
  BY AppendProperties, LenProperties
<1>2. Len(Password) \in Nat
  BY Constants
<1> HIDE DEF t
<1>3. ASSUME NEW n \in 0..Len(t), Starting(t, n) PROVE n <= Advanced(c, k)
  <2>1. CASE n \in 0..Len(s)
    <3>1. Starting(s, n)
      BY <1>1, <1>3, <2>1 DEF Starting
    <3>2. n <= c
      BY <2>1, <3>1 DEF Counted
    <3> QED BY <1>1, <1>2, <2>1, <3>2, AdvancedFacts
  <2>2. CASE n = Len(s) + 1
    <3>1. Starting(s, Len(s)) /\ Password[Len(s) + 1] = k /\ Len(s) + 1 <= Len(Password)
      BY <1>1, <1>3, <2>2 DEF Starting
    <3>2. Len(s) <= c
      BY <1>1, <3>1 DEF Counted
    <3>3. CASE c = Len(s)
      BY <1>1, <1>2, <2>2, <3>1, <3>3 DEF Advanced
    <3>4. CASE c # Len(s)
      <4>1. Advanced(c, k) \in Nat /\ c <= Advanced(c, k)
        BY AdvancedFacts
      <4> QED BY <1>1, <2>2, <3>2, <3>4, <4>1
    <3> QED BY <3>3, <3>4
  <2> QED BY <1>1, <1>3, <2>1, <2>2
<1> QED BY <1>3 DEF Counted, t

(* A star is no digit.                                                     *)
LEMMA CountedStar ==
  ASSUME NEW s \in Seq(Digits \cup {Star}), NEW c \in Nat, Counted(s, c)
  PROVE  Counted(Append(s, Star), c)
<1> DEFINE t == Append(s, Star)
<1>1. /\ Len(t) = Len(s) + 1 /\ Len(s) \in Nat /\ t[Len(s) + 1] = Star
      /\ \A i \in 1..Len(s) : t[i] = s[i]
  BY AppendProperties, LenProperties
<1>2. Len(Password) \in Nat /\ \A i \in 1..Len(Password) : Password[i] # Star
  BY Constants, ElementOfSeq
<1> HIDE DEF t
<1>3. ASSUME NEW n \in 0..Len(t), Starting(t, n) PROVE n <= c
  <2>1. n \in 0..Len(s)
    <3>1. SUFFICES ASSUME n = Len(s) + 1 PROVE FALSE
      BY <1>1, <1>3
    <3>2. n \in 1..n /\ n \in 1..Len(Password)
      BY <1>1, <1>2, <1>3, <3>1 DEF Starting
    <3> QED BY <1>1, <1>2, <1>3, <3>1, <3>2 DEF Starting
  <2>2. Starting(s, n)
    BY <1>1, <1>3, <2>1 DEF Starting
  <2> QED BY <2>1, <2>2 DEF Counted
<1> QED BY <1>3 DEF Counted, t

LEMMA CountedFront ==
  ASSUME NEW S, NEW s \in Seq(S), s # << >>, NEW c \in Nat, Counted(s, c)
  PROVE  Counted(Front(s), c)
<1>1. /\ Len(Front(s)) = Len(s) - 1 /\ Len(s) \in Nat \ {0}
      /\ \A i \in 1..(Len(s) - 1) : Front(s)[i] = s[i]
  BY FrontFacts
<1> DEFINE t == Front(s)
<1> HIDE DEF t
<1>2. ASSUME NEW n \in 0..Len(t), Starting(t, n) PROVE n <= c
  <2>1. n \in 0..Len(s) /\ n \in 0..(Len(s) - 1)
    BY <1>1, <1>2 DEF t
  <2>2. \A i \in 1..n : t[i] = s[i]
    BY <1>1, <2>1 DEF t
  <2>3. Starting(s, n)
    BY <1>2, <2>2 DEF Starting
  <2> QED BY <2>1, <2>3 DEF Counted
<1> QED BY <1>2 DEF Counted, t

(* The whole password is pressed in order.                                 *)
LEMMA CountedAll ==
  ASSUME NEW c \in 0..Len(Password), Counted(Password, c)
  PROVE  c = Len(Password)
<1>1. Len(Password) \in Nat /\ Len(Password) \in 0..Len(Password)
  BY Constants
<1>2. Starting(Password, Len(Password))
  BY <1>1 DEF Starting
<1>3. Len(Password) <= c
  BY <1>1, <1>2 DEF Counted
<1> QED BY <1>1, <1>3

-----------------------------------------------------------------------------
(* The invariant is kept by each action.                                   *)

(* The picture and the entry stay.                                         *)
LEMMA Untouched ==
  ASSUME StarsFollow, UNCHANGED <<cmd, dashboard, alone, mode, password_buf>>
  PROVE  StarsFollow'
<1>1. Picture' = Picture
  BY DEF Picture, dashboard
<1>2. cmd' = cmd /\ mode' = mode /\ password_buf' = password_buf
  OBVIOUS
<1> QED BY <1>1, <1>2 DEF StarsFollow

LEMMA NextLaunchKey ==
  ASSUME IInv, LaunchKey
  PROVE  IInv'
<1>1. TypeOK /\ PressedInOrder /\ pressed \in [{"remote", "keyboard"} -> 0..Len(Password)]
  BY TypingParts DEF IInv
<1>2. /\ mode' = "PASSWORD" /\ password_buf' = << >>
      /\ pressed' = [pressed EXCEPT !.remote = 0]
      /\ UNCHANGED <<popup, passbuf, launched, alone, misread>>
      /\ UNCHANGED <<launch_in_progress, request, auth, up, ready, announced>>
  BY DEF LaunchKey, Runs, dashboard, satellite
<1>3. Follows(cmd', Picture, "PASSWORD", << >>) /\ cmd' \in Seq(Ops)
  BY <1>1, LaunchKeyFollows
<1>4. pressed' \in [{"remote", "keyboard"} -> 0..Len(Password)]
      /\ pressed'.remote = 0 /\ pressed'.keyboard = pressed.keyboard
  BY <1>1, <1>2, Constants
<1>5. TypeOK'
  <2>1. << >> \in Seq(Digits) /\ Len(<< >>) < Len(Password)
    BY Constants
  <2> QED BY <1>1, <1>2, <1>3, <1>4, <2>1 DEF TypeOK, Ops
<1>6. PressedInOrder'
  <2>1. Counted(<< >>, 0)
    BY CountedNone
  <2> QED BY <1>1, <1>2, <1>4, <2>1 DEF PressedInOrder
<1>7. StarsFollow'
  <2>1. Picture' = Picture
    BY <1>2 DEF Picture
  <2> QED BY <1>2, <1>3, <2>1 DEF StarsFollow
<1> QED BY <1>2, <1>5, <1>6, <1>7 DEF IInv, NoWrongKey, NoPopupInFlight

(* A key of the remote is read as itself or not at all.                    *)
LEMMA ReadRight ==
  ASSUME NEW k \in Keys, NEW read \in ir_poll[k]
  PROVE  read \in {k, None}
BY KeysAreNotConfused

LEMMA RemoteKeyRead ==
  ASSUME IInv, NEW k \in Keys, RemoteKey(k)
  PROVE  /\ Follows(cmd', Picture, mode', password_buf') /\ cmd' \in Seq(Ops)
         /\ password_buf' \in Seq(Digits) /\ Len(password_buf') < Len(Password)
         /\ Counted(password_buf', Advanced(pressed.remote, k))
         /\ misread' = misread
         /\ mode' \in {"NORMAL", "PASSWORD"} /\ launch_in_progress' \in BOOLEAN
         /\ request' \in {"remote", "keyboard", None}
         /\ request' = "remote" => Advanced(pressed.remote, k) = Len(Password)
<1> DEFINE c == Advanced(pressed.remote, k)
<1>1. /\ TypeOK /\ StarsFollow /\ cmd \in Seq(Ops) /\ password_buf \in Seq(Digits)
      /\ Len(password_buf) \in Nat /\ Len(password_buf) < Len(Password)
      /\ mode \in {"NORMAL", "PASSWORD"} /\ launch_in_progress \in BOOLEAN
      /\ request = None /\ up \in BOOLEAN
      /\ pressed.remote \in 0..Len(Password) /\ Counted(password_buf, pressed.remote)
  BY TypingParts DEF IInv, PressedInOrder, RemoteKey, Runs, TypeOK
<1>2. /\ c \in 0..Len(Password) /\ c \in Nat /\ pressed.remote \in Nat /\ pressed.remote <= c
      /\ Len(Password) \in Nat \ {0}
  BY <1>1, AdvancedFacts, Constants
<1>3. PICK read \in ir_poll[k] :
        /\ misread' = (misread \/ read \notin {k, None})
        /\ \/ read \in Digits /\ password_add_char(read)
           \/ read = "OK" /\ password_confirm(password_buf, << >>)
           \/ read = "BACK" /\ password_backspace
           \/ read = None /\ UNCHANGED <<controller, cmd>>
  BY DEF RemoteKey
<1>4. misread' = misread
  <2>1. read \in {k, None} /\ misread = FALSE
    BY ReadRight DEF IInv, NoWrongKey, TypeOK
  <2> QED BY <1>3, <2>1
<1>5. /\ << >> \in Seq(Digits) /\ Len(<< >>) < Len(Password) /\ Counted(<< >>, c)
      /\ None # "remote"
  BY <1>2, CountedNone DEF None
<1>6. ASSUME NEW digits \in Seq(Digits), NEW echo, password_confirm(digits, echo),
             Counted(digits, c)
      PROVE  /\ password_buf' = << >>
             /\ mode' \in {"NORMAL", "PASSWORD"} /\ launch_in_progress' \in BOOLEAN
             /\ request' \in {"remote", "keyboard", None}
             /\ request' = "remote" => c = Len(Password)
  <2>1. CASE digits = Password /\ ~launch_in_progress
    <3>1. c = Len(Password)
      BY <1>2, <1>6, <2>1, CountedAll
    <3>2. Asks("remote") /\ password_buf' = << >>
      BY <1>6, <2>1 DEF password_confirm
    <3> QED BY <1>1, <3>1, <3>2 DEF Asks
  <2>2. CASE ~(digits = Password /\ ~launch_in_progress)
    <3>1. UNCHANGED <<mode, launch_in_progress, request>> /\ password_buf' = << >>
      BY <1>6, <2>2 DEF password_confirm
    <3> QED BY <1>1, <1>5, <3>1
  <2> QED BY <2>1, <2>2
<1> HIDE DEF c
<1>7. CASE read \in Digits /\ password_add_char(read)
  <2>1. read = k
    BY <1>3, <1>7, ReadRight, Constants
  <2>2. /\ Follows(cmd', Picture, mode', password_buf') /\ cmd' \in Seq(Ops)
        /\ password_buf' \in Seq(Digits) /\ Len(password_buf') < Len(Password)
    BY <1>1, <1>7, CharFollows
  <2> DEFINE digits == Append(password_buf, k)
  <2>3. digits \in Seq(Digits) /\ Counted(digits, c)
    BY <1>1, <1>7, <2>1, CountedDigit, StarAdded DEF c
  <2>4. CASE Len(digits) = Len(Password)
    <3>1. password_confirm(digits, <<"PASSCHAR">>)
      BY <1>7, <2>1, <2>4 DEF password_add_char
    <3> HIDE DEF digits
    <3> QED BY <1>4, <1>5, <1>6, <2>2, <2>3, <3>1 DEF c
  <2>5. CASE Len(digits) # Len(Password)
    <3>1. password_buf' = digits /\ UNCHANGED <<mode, launch_in_progress, request>>
      BY <1>7, <2>1, <2>5 DEF password_add_char
    <3> HIDE DEF digits
    <3> QED BY <1>1, <1>4, <1>5, <2>2, <2>3, <3>1 DEF c
  <2> QED BY <2>4, <2>5
<1>8. CASE read = "OK" /\ password_confirm(password_buf, << >>)
  <2>1. Follows(cmd', Picture, mode', << >>) /\ cmd' \in Seq(Ops)
    BY <1>1, <1>8, ConfirmFollows
  <2>2. Counted(password_buf, c)
    BY <1>1, <1>2, CountedMore
  <2> QED BY <1>1, <1>4, <1>5, <1>6, <1>8, <2>1, <2>2 DEF c
<1>9. CASE read = "BACK" /\ password_backspace
  <2>1. /\ Follows(cmd', Picture, mode', password_buf') /\ cmd' \in Seq(Ops)
        /\ password_buf' \in Seq(Digits) /\ Len(password_buf') <= Len(password_buf)
    BY <1>1, <1>9, BackspaceFollows
  <2>2. UNCHANGED <<launch_in_progress, request>> /\ mode' \in {mode, "NORMAL"}
        /\ (\/ password_buf' = password_buf
            \/ password_buf # << >> /\ password_buf' = Front(password_buf))
    BY <1>9 DEF password_backspace
  <2>3. Counted(password_buf', pressed.remote)
    BY <1>1, <1>2, <2>2, CountedFront
  <2>4. Len(password_buf') \in Nat /\ Len(password_buf') < Len(Password)
    BY <1>1, <1>2, <2>1, LenProperties
  <2>5. Counted(password_buf', c)
    BY <1>2, <2>3, <2>4, CountedMore
  <2> QED BY <1>1, <1>4, <1>5, <2>1, <2>2, <2>4, <2>5 DEF c
<1>10. CASE read = None /\ UNCHANGED <<controller, cmd>>
  <2>1. UNCHANGED <<cmd, mode, password_buf, launch_in_progress, request>>
    BY <1>10 DEF controller
  <2>2. Counted(password_buf, c)
    BY <1>1, <1>2, CountedMore
  <2> QED BY <1>1, <1>4, <1>5, <2>1, <2>2 DEF c, StarsFollow
<1> QED BY <1>3, <1>7, <1>8, <1>9, <1>10

LEMMA NextRemoteKey ==
  ASSUME IInv, NEW k \in Keys, RemoteKey(k)
  PROVE  IInv'
<1> DEFINE c == Advanced(pressed.remote, k)
<1>1. /\ TypeOK /\ PressedInOrder
      /\ pressed \in [{"remote", "keyboard"} -> 0..Len(Password)]
      /\ pressed.remote \in 0..Len(Password)
  BY TypingParts DEF IInv
<1>2. /\ pressed' = [pressed EXCEPT !.remote = c]
      /\ UNCHANGED <<popup, passbuf, launched, alone, auth, up, ready, announced>>
  BY DEF RemoteKey, Runs, dashboard, satellite
<1>3. c \in 0..Len(Password)
  BY <1>1, AdvancedFacts
<1> HIDE DEF c
<1>4. pressed' \in [{"remote", "keyboard"} -> 0..Len(Password)]
      /\ pressed'.remote = c /\ pressed'.keyboard = pressed.keyboard
  BY <1>1, <1>2, <1>3
<1>5. TypeOK'
  BY <1>1, <1>2, <1>4, RemoteKeyRead DEF TypeOK, Ops
<1>6. PressedInOrder'
  BY <1>1, <1>2, <1>4, RemoteKeyRead DEF PressedInOrder, c
<1>7. StarsFollow'
  <2>1. Picture' = Picture
    BY <1>2 DEF Picture
  <2> QED BY <2>1, RemoteKeyRead DEF StarsFollow
<1>8. NoWrongKey'
  BY RemoteKeyRead DEF IInv, NoWrongKey
<1> QED BY <1>2, <1>5, <1>6, <1>7, <1>8 DEF IInv, NoPopupInFlight

(* The other actions of the controller ask for no more digits.             *)
LEMMA NextEntryEnds ==
  ASSUME IInv, EntryEnds
  PROVE  IInv'
<1>1. /\ mode' = "NORMAL"
      /\ UNCHANGED <<popup, passbuf, launched, alone, auth, up, ready, announced>>
      /\ UNCHANGED <<password_buf, launch_in_progress, request, cmd, pressed, misread>>
  BY DEF EntryEnds, Runs, dashboard, satellite
<1>2. TypeOK'
  BY <1>1 DEF IInv, TypeOK
<1>3. PressedInOrder'
  BY <1>1 DEF IInv, PressedInOrder
<1>4. StarsFollow'
  BY <1>1, NothingEntered DEF StarsFollow
<1> QED BY <1>1, <1>2, <1>3, <1>4 DEF IInv, NoWrongKey, NoPopupInFlight

LEMMA NextReadAuth ==
  ASSUME IInv, ReadAuth
  PROVE  IInv' /\ request' # "remote"
<1>1. /\ auth' = 0 /\ request = None
      /\ UNCHANGED <<popup, passbuf, launched, alone, up, ready, announced>>
      /\ UNCHANGED <<password_buf, cmd, pressed, misread>>
  BY DEF ReadAuth, Runs, dashboard, satellite
<1>2. \/ /\ mode' = "NORMAL" /\ launch_in_progress' = up
         /\ request' = IF up THEN "keyboard" ELSE None
      \/ UNCHANGED <<mode, launch_in_progress, request>>
  BY DEF ReadAuth, Asks
<1>3. TypeOK'
  BY <1>1, <1>2, Constants DEF IInv, TypeOK
<1>4. PressedInOrder'
  BY <1>1 DEF IInv, PressedInOrder
<1>5. StarsFollow'
  <2>1. CASE mode' = "NORMAL"
    BY <2>1, NothingEntered DEF StarsFollow
  <2>2. CASE mode' = mode
    BY <1>1, <2>2, Untouched DEF IInv, dashboard
  <2> QED BY <1>2, <2>1, <2>2
<1>6. request' # "remote"
  BY <1>1, <1>2 DEF None
<1> QED BY <1>1, <1>3, <1>4, <1>5, <1>6 DEF IInv, NoWrongKey, NoPopupInFlight

(* Lines read by the dashboard.                                            *)
LEMMA ReadLinePicture ==
  ASSUME TypeOK, ReadLine
  PROVE  Picture' = After(Picture, Head(cmd))
<1> DEFINE op == Head(cmd)
<1>1. /\ Picture.popup = popup /\ Picture.passbuf = passbuf /\ Picture.alone = alone
      /\ Picture.launched = launched
  BY DEF Picture
<1>2. \/ /\ op = "LAUNCH" /\ ~launched
         /\ popup' = TRUE /\ passbuf' = << >> /\ alone' = TRUE
         /\ launched' = launched
      \/ /\ op = "LAUNCH_OK" /\ ~launched
         /\ launched' = TRUE /\ popup' = FALSE /\ passbuf' = passbuf /\ alone' = alone
      \/ /\ op \in {"LAUNCH", "LAUNCH_OK"} /\ launched
         /\ popup' = popup /\ passbuf' = passbuf /\ launched' = launched /\ alone' = alone
      \/ /\ op = "PASSCHAR" /\ popup' = popup /\ launched' = launched /\ alone' = alone
         /\ passbuf' = IF popup /\ Len(passbuf) < PassbufMax THEN Append(passbuf, Star)
                       ELSE passbuf
      \/ /\ op = "PASSBACK" /\ popup' = popup /\ launched' = launched /\ alone' = alone
         /\ passbuf' = IF popup /\ passbuf # << >> THEN Front(passbuf) ELSE passbuf
      \/ /\ op = "PASSRESET" /\ passbuf' = << >> /\ alone' = TRUE
         /\ popup' = popup /\ launched' = launched
      \/ /\ op = "RESET_SIM" /\ popup' = FALSE /\ passbuf' = << >> /\ launched' = FALSE
         /\ alone' = TRUE
  BY Zenon DEF ReadLine, dashboard
<1> HIDE DEF op
<1> DEFINE q == After(Picture, op)
<1>3. /\ q.popup = (IF Opens(Picture, op) THEN TRUE
                   ELSE IF Starts(Picture, op) \/ op = "RESET_SIM" THEN FALSE ELSE popup)
      /\ q.alone = (IF Clears(Picture, op) THEN TRUE ELSE alone)
      /\ q.launched = (IF Starts(Picture, op) THEN TRUE
                      ELSE IF op = "RESET_SIM" THEN FALSE ELSE launched)
      /\ q.passbuf = Typed(Picture, op)
      /\ q = [popup |-> q.popup, passbuf |-> q.passbuf, alone |-> q.alone,
              launched |-> q.launched]
  BY <1>1 DEF After
<1> HIDE DEF q
<1>4. q.popup = popup'
  BY <1>1, <1>2, <1>3 DEF Opens, Starts, TypeOK
<1>5. q.alone = alone'
  BY <1>1, <1>2, <1>3 DEF Opens, Clears, TypeOK
<1>6. q.launched = launched'
  BY <1>1, <1>2, <1>3 DEF Starts, TypeOK
<1>7. q.passbuf = passbuf'
  <2>1. Typed(Picture, op) =
          CASE Clears(Picture, op) -> << >>
            [] ~Clears(Picture, op) /\ op = "PASSCHAR" /\ popup /\ Len(passbuf) < PassbufMax ->
                 Append(passbuf, Star)
            [] ~Clears(Picture, op) /\ op = "PASSBACK" /\ popup /\ passbuf # << >> ->
                 Front(passbuf)
            [] OTHER -> passbuf
    BY <1>1 DEF Typed
  <2>2. Clears(Picture, op) <=> (op = "LAUNCH" /\ ~launched) \/ op \in {"PASSRESET", "RESET_SIM"}
    BY <1>1 DEF Clears, Opens
  <2> QED BY <1>2, <1>3, <2>1, <2>2
<1> QED BY <1>3, <1>4, <1>5, <1>6, <1>7 DEF Picture, q, op

LEMMA NextReadLine ==
  ASSUME IInv, ReadLine
  PROVE  IInv'
<1>1. /\ TypeOK /\ cmd \in Seq(Ops) /\ Picture \in Pictures
      /\ passbuf \in Seq(Digits \cup {Star}) /\ Len(passbuf) \in Nat
      /\ pressed \in [{"remote", "keyboard"} -> 0..Len(Password)]
      /\ PassbufMax \in Nat
  BY TypingParts, Constants DEF IInv
<1>2. /\ cmd # << >> /\ cmd' = Tail(cmd)
      /\ UNCHANGED <<mode, password_buf, launch_in_progress, request>>
      /\ UNCHANGED <<up, ready, announced, auth, misread>>
  BY DEF ReadLine, controller, satellite
<1>3. Head(cmd) \in Ops
  BY <1>1, <1>2
<1>4. /\ Follows(Tail(cmd), Picture', mode, password_buf) /\ Tail(cmd) \in Seq(Ops)
      /\ Picture' \in Pictures
  <2>1. Picture' = After(Picture, Head(cmd))
    BY <1>1, ReadLinePicture
  <2>2. Follows(cmd, Picture, mode, password_buf)
    BY DEF IInv, StarsFollow
  <2> QED BY <1>1, <1>2, <1>3, <2>1, <2>2, LineRead, AfterType
<1>5. StarsFollow'
  BY <1>2, <1>4 DEF StarsFollow
<1>6. /\ popup' \in BOOLEAN /\ launched' \in BOOLEAN /\ alone' \in BOOLEAN
      /\ passbuf' \in Seq(Digits \cup {Star})
  BY <1>4 DEF Picture, Pictures
<1>7. \/ passbuf' = passbuf \/ passbuf' = << >>
      \/ Len(passbuf) < PassbufMax /\ passbuf' = Append(passbuf, Star)
      \/ passbuf # << >> /\ passbuf' = Front(passbuf)
  BY DEF ReadLine, dashboard
<1>8. Len(passbuf') <= PassbufMax
  <2>1. Len(passbuf) <= PassbufMax
    BY TypingParts DEF IInv
  <2>2. CASE passbuf' = << >>
    BY <1>1, <2>2
  <2>3. CASE Len(passbuf) < PassbufMax /\ passbuf' = Append(passbuf, Star)
    BY <1>1, <2>3
  <2>4. CASE passbuf # << >> /\ passbuf' = Front(passbuf)
    <3>1. Len(Front(passbuf)) = Len(passbuf) - 1
      BY <1>1, <2>4, FrontFacts
    <3> QED BY <1>1, <2>1, <2>4, <3>1
  <2> QED BY <1>7, <2>1, <2>2, <2>3, <2>4
<1>9. \/ pressed' = pressed
      \/ pressed' = [pressed EXCEPT !.keyboard = 0] /\ passbuf' = << >>
  BY DEF ReadLine
<1>10. TypeOK'
  <2>1. pressed' \in [{"remote", "keyboard"} -> 0..Len(Password)]
    BY <1>1, <1>9, Constants
  <2> QED BY <1>1, <1>2, <1>4, <1>6, <1>8, <2>1 DEF TypeOK, Ops
<1>11. PressedInOrder'
  <2>1. /\ Counted(password_buf, pressed.remote) /\ Counted(passbuf, pressed.keyboard)
        /\ pressed.remote \in Nat /\ pressed.keyboard \in Nat
    BY <1>1, Constants DEF IInv, PressedInOrder
  <2>2. CASE pressed' = pressed
    <3>1. Counted(passbuf', pressed.keyboard)
      BY <1>1, <1>7, <2>1, CountedNone, CountedStar, CountedFront
    <3> QED BY <1>2, <2>1, <2>2, <3>1 DEF PressedInOrder
  <2>3. CASE pressed' = [pressed EXCEPT !.keyboard = 0] /\ passbuf' = << >>
    <3>1. pressed'.remote = pressed.remote /\ pressed'.keyboard = 0
      BY <1>1, <2>3
    <3> QED BY <1>2, <2>1, <2>3, <3>1, CountedNone DEF PressedInOrder
  <2> QED BY <1>9, <2>2, <2>3
<1>12. NoPopupInFlight'
  BY DEF IInv, NoPopupInFlight, ReadLine, dashboard, TypeOK
<1> QED BY <1>2, <1>5, <1>10, <1>11, <1>12 DEF IInv, NoWrongKey

(* Keys of the keyboard: the stars are no more compared.                   *)
LEMMA NextKeyboardKey ==
  ASSUME IInv, NEW k \in Keys, KeyboardKey(k)
  PROVE  IInv' /\ (auth' > auth => pressed.keyboard = Len(Password))
<1> DEFINE c == Advanced(pressed.keyboard, k)
<1>1. /\ TypeOK /\ passbuf \in Seq(Digits \cup {Star}) /\ Len(passbuf) \in Nat
      /\ Len(passbuf) <= PassbufMax /\ PassbufMax \in Nat /\ LinesMax \in Nat
      /\ auth \in 0..LinesMax /\ popup \in BOOLEAN
      /\ pressed \in [{"remote", "keyboard"} -> 0..Len(Password)]
      /\ pressed.keyboard \in 0..Len(Password)
      /\ Counted(password_buf, pressed.remote) /\ Counted(passbuf, pressed.keyboard)
  BY TypingParts, Constants DEF IInv, PressedInOrder
<1>2. /\ popup /\ alone' = FALSE /\ cmd' = cmd /\ launched' = launched /\ misread' = misread
      /\ UNCHANGED <<mode, password_buf, launch_in_progress, request, up, ready, announced>>
  BY DEF KeyboardKey, controller, satellite
<1>3. c \in 0..Len(Password) /\ Len(Password) \in Nat
  BY <1>1, AdvancedFacts, Constants
<1>4. \/ /\ passbuf = Password /\ auth < LinesMax /\ auth' \in {auth, auth + 1}
         /\ popup' = FALSE /\ passbuf' = passbuf /\ pressed' = pressed
      \/ /\ passbuf' = << >> /\ popup' = popup /\ auth' = auth /\ pressed' = pressed
      \/ /\ passbuf # << >> /\ passbuf' = Front(passbuf)
         /\ popup' = popup /\ auth' = auth /\ pressed' = pressed
      \/ /\ k \in Digits /\ Len(passbuf) < PassbufMax /\ passbuf' = Append(passbuf, k)
         /\ pressed' = [pressed EXCEPT !.keyboard = c] /\ popup' = popup /\ auth' = auth
  BY Zenon DEF KeyboardKey
<1> HIDE DEF c
<1>5. /\ auth' \in 0..LinesMax /\ popup' \in BOOLEAN
      /\ auth' > auth => passbuf = Password
      /\ pressed' \in [{"remote", "keyboard"} -> 0..Len(Password)]
      /\ pressed'.remote = pressed.remote
  <2>1. auth' \in 0..LinesMax /\ (auth' > auth => passbuf = Password)
    BY <1>1, <1>4
  <2>2. popup' \in BOOLEAN
    BY <1>1, <1>4
  <2>3. pressed' = pressed \/ pressed' = [pressed EXCEPT !.keyboard = c]
    BY <1>4
  <2>4. /\ pressed' \in [{"remote", "keyboard"} -> 0..Len(Password)]
        /\ pressed'.remote = pressed.remote
    BY <1>1, <1>3, <2>3
  <2> QED BY <2>1, <2>2, <2>4
<1>6. /\ passbuf' \in Seq(Digits \cup {Star}) /\ Len(passbuf') <= PassbufMax
      /\ Counted(passbuf', pressed'.keyboard)
  <2>1. CASE passbuf' = passbuf /\ pressed' = pressed
    BY <1>1, <2>1
  <2>2. CASE passbuf' = << >> /\ pressed' = pressed
    BY <1>1, <2>2, CountedNone
  <2>3. CASE passbuf # << >> /\ passbuf' = Front(passbuf) /\ pressed' = pressed
    <3>1. /\ Front(passbuf) \in Seq(Digits \cup {Star})
          /\ Len(Front(passbuf)) = Len(passbuf) - 1
      BY <1>1, <2>3, FrontFacts
    <3>2. Counted(Front(passbuf), pressed.keyboard)
      BY <1>1, <2>3, CountedFront
    <3>3. Len(Front(passbuf)) <= PassbufMax
      BY <1>1, <3>1
    <3> QED BY <2>3, <3>1, <3>2, <3>3
  <2>4. CASE /\ k \in Digits /\ Len(passbuf) < PassbufMax /\ passbuf' = Append(passbuf, k)
             /\ pressed' = [pressed EXCEPT !.keyboard = c]
    <3>1. k \in Digits \cup {Star}
      BY <2>4
    <3>2. Counted(Append(passbuf, k), c)
      BY <1>1, <3>1, CountedDigit DEF c
    <3>3. pressed'.keyboard = c
      BY <1>1, <2>4
    <3>4. Append(passbuf, k) \in Seq(Digits \cup {Star})
          /\ Len(Append(passbuf, k)) = Len(passbuf) + 1
      BY <1>1, <3>1, AppendProperties
    <3>5. Len(Append(passbuf, k)) <= PassbufMax
      BY <1>1, <2>4, <3>4
    <3> QED BY <2>4, <3>2, <3>3, <3>4, <3>5
  <2> QED BY <1>4, <2>1, <2>2, <2>3, <2>4
<1>7. TypeOK'
  BY <1>1, <1>2, <1>5, <1>6 DEF TypeOK
<1>8. PressedInOrder'
  BY <1>1, <1>2, <1>5, <1>6 DEF PressedInOrder
<1>9. StarsFollow'
  <2>1. Loose(Picture')
    BY <1>2 DEF Picture, Loose
  <2>2. Follows(cmd, Picture', mode, password_buf)
    BY <2>1, Loosened DEF IInv, StarsFollow
  <2> QED BY <1>2, <2>2 DEF StarsFollow
<1>10. NoPopupInFlight'
  BY <1>2, <1>4 DEF IInv, NoPopupInFlight
<1>11. auth' > auth => pressed.keyboard = Len(Password)
  BY <1>1, <1>5, CountedAll
<1> QED BY <1>2, <1>7, <1>8, <1>9, <1>10, <1>11 DEF IInv, NoWrongKey

LEMMA NextFlightEnds ==
  ASSUME IInv, FlightEnds
  PROVE  IInv'
<1>1. /\ launched /\ launched' = FALSE
      /\ UNCHANGED <<mode, password_buf, launch_in_progress, request, up, ready, announced>>
      /\ UNCHANGED <<cmd, auth, popup, passbuf, pressed, alone, misread>>
  BY DEF FlightEnds, controller, satellite
<1>2. TypeOK'
  BY <1>1 DEF IInv, TypeOK
<1>3. PressedInOrder'
  BY <1>1 DEF IInv, PressedInOrder
<1>4. StarsFollow'
  <2>1. Loose(Picture')
    BY <1>1 DEF IInv, NoPopupInFlight, Picture, Loose
  <2>2. Follows(cmd, Picture', mode, password_buf)
    BY <2>1, Loosened DEF IInv, StarsFollow
  <2> QED BY <1>1, <2>2 DEF StarsFollow
<1> QED BY <1>1, <1>2, <1>3, <1>4 DEF IInv, NoWrongKey, NoPopupInFlight

LEMMA NextRestart ==
  ASSUME IInv, Restart
  PROVE  IInv'
<1>1. /\ popup' = FALSE /\ passbuf' = << >> /\ launched' = FALSE /\ alone' = TRUE
      /\ UNCHANGED <<mode, password_buf, launch_in_progress, request, up, ready, announced>>
      /\ UNCHANGED <<auth, pressed, misread>>
  BY DEF Restart, controller, satellite
<1>2. PICK n \in 1..(Len(cmd) + 1) : cmd' = SubSeq(cmd, n, Len(cmd))
  BY DEF Restart
<1>3. TypeOK /\ cmd \in Seq(Ops) /\ pressed.keyboard \in Nat /\ PassbufMax \in Nat
  BY TypingParts, Constants DEF IInv
<1>4. Follows(cmd', Picture', mode, password_buf) /\ cmd' \in Seq(Ops)
  <2>1. Loose(Picture')
    BY <1>1 DEF Picture, Loose
  <2>2. Follows(cmd, Picture, mode, password_buf)
    BY DEF IInv, StarsFollow
  <2> QED BY <1>2, <1>3, <2>1, <2>2, Dropped
<1>5. StarsFollow'
  BY <1>1, <1>4 DEF StarsFollow
<1>6. TypeOK'
  <2>1. /\ << >> \in Seq(Digits \cup {Star}) /\ Len(<< >>) <= PassbufMax
        /\ FALSE \in BOOLEAN /\ TRUE \in BOOLEAN
    BY <1>3
  <2> QED BY <1>1, <1>3, <1>4, <2>1 DEF TypeOK, Ops
<1>7. PressedInOrder'
  BY <1>1, <1>3, CountedNone DEF IInv, PressedInOrder
<1> QED BY <1>1, <1>5, <1>6, <1>7 DEF IInv, NoWrongKey, NoPopupInFlight

-----------------------------------------------------------------------------
(* The satellite and the connection.                                       *)

(* LAUNCH_OK or RESET_SIM is written, or nothing is.                       *)
LEMMA NextElsewhere ==
  ASSUME IInv, Elsewhere,
         \/ UNCHANGED cmd
         \/ \E op \in {"LAUNCH_OK", "RESET_SIM"} : Writes(<<op>>),
         launch_in_progress' \in BOOLEAN, request' \in {request, None},
         up' \in BOOLEAN, ready' \in BOOLEAN, announced' \in BOOLEAN
  PROVE  IInv'
<1>1. UNCHANGED <<mode, password_buf, auth, popup, passbuf, launched, pressed, alone, misread>>
  BY DEF Elsewhere, dashboard
<1>2. Follows(cmd', Picture, mode, password_buf) /\ cmd' \in Seq(Ops)
  <2>1. cmd \in Seq(Ops) /\ Follows(cmd, Picture, mode, password_buf)
    BY TypingParts DEF IInv, StarsFollow
  <2>2. ASSUME NEW op \in {"LAUNCH_OK", "RESET_SIM"}, Writes(<<op>>)
        PROVE  Follows(cmd', Picture, mode, password_buf) /\ cmd' \in Seq(Ops)
    <3>1. op \in Ops
      BY <2>2 DEF Ops
    <3>2. cmd' = Append(cmd, op)
      BY <2>1, <2>2, <3>1, OneWritten DEF Writes
    <3>3. \A q \in Pictures : Settled(q, mode, password_buf)
                               => Settled(After(q, op), mode, password_buf)
      BY <2>2, SettledClosed
    <3> QED BY <2>1, <3>1, <3>2, <3>3, Written
  <2> QED BY <2>1, <2>2
<1>3. Picture' = Picture
  BY <1>1 DEF Picture
<1>4. StarsFollow'
  BY <1>1, <1>2, <1>3 DEF StarsFollow
<1>5. TypeOK'
  BY <1>1, <1>2 DEF IInv, TypeOK, Ops
<1>6. PressedInOrder'
  BY <1>1 DEF IInv, PressedInOrder
<1> QED BY <1>1, <1>4, <1>5, <1>6 DEF IInv, NoWrongKey, NoPopupInFlight

LEMMA NextSatellite ==
  ASSUME IInv, Answers \/ Confirms \/ Cut \/ Reconnect \/ Resets \/ Rests
  PROVE  IInv' /\ auth' = auth /\ request' \in {request, None}
<1>1. launch_in_progress \in BOOLEAN /\ up \in BOOLEAN /\ ready \in BOOLEAN
      /\ announced \in BOOLEAN
  BY DEF IInv, TypeOK
<1>2. CASE Answers
  BY <1>1, <1>2, NextElsewhere DEF Answers, Elsewhere
<1>3. CASE Confirms
  BY <1>1, <1>3, NextElsewhere DEF Confirms, Elsewhere
<1>4. CASE Cut
  BY <1>1, <1>4, NextElsewhere DEF Cut, Elsewhere
<1>5. CASE Reconnect
  BY <1>1, <1>5, NextElsewhere DEF Reconnect, Elsewhere, controller
<1>6. CASE Resets
  BY <1>1, <1>6, NextElsewhere DEF Resets, Elsewhere
<1>7. CASE Rests
  BY <1>1, <1>7, NextElsewhere DEF Rests, Elsewhere, satellite
<1> QED BY <1>2, <1>3, <1>4, <1>5, <1>6, <1>7

-----------------------------------------------------------------------------
(* The theorems.                                                           *)

LEMMA Initially ==
  ASSUME Init
  PROVE  IInv
<1>1. TypeOK
  <2>1. /\ << >> \in Seq(Digits) /\ << >> \in Seq(Digits \cup {Star})
        /\ << >> \in Seq({"LAUNCH", "LAUNCH_OK", "PASSCHAR", "PASSBACK", "PASSRESET", "RESET_SIM"})
        /\ Len(<< >>) < Len(Password) /\ Len(<< >>) <= PassbufMax
        /\ 0 \in 0..LinesMax
    BY Constants
  <2>2. [remote |-> 0, keyboard |-> 0] \in [{"remote", "keyboard"} -> 0..Len(Password)]
    BY Constants
  <2> QED BY <2>1, <2>2 DEF Init, TypeOK
<1>2. NoWrongKey /\ NoPopupInFlight
  BY DEF Init, NoWrongKey, NoPopupInFlight
<1>3. PressedInOrder
  BY CountedNone DEF Init, PressedInOrder
<1>4. StarsFollow
  BY NothingEntered DEF Init, StarsFollow
<1> QED BY <1>1, <1>2, <1>3, <1>4 DEF IInv

LEMMA Stuttering ==
  ASSUME IInv, UNCHANGED vars
  PROVE  IInv'
<1>1. /\ UNCHANGED <<mode, password_buf, launch_in_progress, request, up, ready, announced>>
      /\ UNCHANGED <<cmd, auth, popup, passbuf, launched, pressed, alone, misread>>
  BY DEF vars, controller, satellite, dashboard
<1>2. StarsFollow'
  BY <1>1, Untouched DEF IInv, dashboard
<1> QED BY <1>1, <1>2 DEF IInv, TypeOK, NoWrongKey, NoPopupInFlight, PressedInOrder

LEMMA Stepping ==
  ASSUME IInv, [Next]_vars
  PROVE  IInv'
BY NextLaunchKey, NextRemoteKey, NextEntryEnds, NextReadAuth, NextReadLine, NextKeyboardKey,
   NextFlightEnds, NextRestart, NextSatellite, Stuttering DEF Next

(* The invariant holds, for every table of codes, password and size of the *)
(* popup the code may be built with.                                       *)
THEOREM Invariance == Spec => []IInv
BY Initially, Stepping, PTL DEF Spec

(* The types of the entry: the digits of the remote stay fewer than those  *)
(* of the password, and the popup's fit its buffer.                        *)
THEOREM TypeCorrect == Spec => []TypeOK
<1>1. IInv => TypeOK
  BY DEF IInv
<1> QED BY <1>1, Invariance, PTL

(* No key of the remote is read as another one by the decoder, whatever    *)
(* edges it misses or sees late and whatever an earlier frame left.        *)
THEOREM KeysRight == Spec => []NoWrongKey
<1>1. IInv => NoWrongKey
  BY DEF IInv
<1> QED BY <1>1, Invariance, PTL

(* The popup of the dashboard shows a star for each digit the controller   *)
(* holds, once its lines are read.                                         *)
THEOREM StarsAreDigits == Spec => []StarsMatch
<1>1. IInv => StarsMatch
  <2> SUFFICES ASSUME IInv, popup, alone, mode = "PASSWORD", cmd = << >>
               PROVE  passbuf = [i \in DOMAIN password_buf |-> Star]
    BY DEF StarsMatch
  <2>1. Follows(<< >>, Picture, mode, password_buf) /\ Picture \in Pictures
    BY TypingParts DEF IInv, StarsFollow
  <2>2. Settled(Picture, mode, password_buf)
    BY <2>1, AllRead
  <2> QED BY <2>2 DEF Settled, Picture, Stars
<1> QED BY <1>1, Invariance, PTL

(* A launch is asked for only by the device on which the whole password    *)
(* was pressed in order: on the remote since BT1, in the popup since it    *)
(* opened.                                                                 *)
THEOREM LaunchIsAuthorised == Spec => LaunchAuthorised
<1>1. ASSUME IInv, [Next]_vars
      PROVE  [/\ request' = "remote" /\ request # "remote" => pressed'.remote = Len(Password)
              /\ auth' > auth => pressed.keyboard = Len(Password)]_vars
  <2> DEFINE Wanted ==
        /\ request' = "remote" /\ request # "remote" => pressed'.remote = Len(Password)
        /\ auth' > auth => pressed.keyboard = Len(Password)
  <2>0. auth \in Nat /\ (auth' = auth => ~(auth' > auth)) /\ "remote" # None
    <3>1. auth \in 0..LinesMax /\ LinesMax \in Nat
      BY <1>1, Constants, TypingParts DEF IInv
    <3> QED BY <3>1 DEF None
  <2>1. ASSUME LaunchKey PROVE Wanted
    BY <2>0, <2>1 DEF LaunchKey
  <2>2. ASSUME NEW k \in Keys, RemoteKey(k) PROVE Wanted
    <3>1. pressed'.remote = Advanced(pressed.remote, k) /\ auth' = auth
      BY <1>1, <2>2, TypingParts DEF RemoteKey, IInv
    <3>2. request' = "remote" => Advanced(pressed.remote, k) = Len(Password)
      BY <1>1, <2>2, RemoteKeyRead
    <3> QED BY <2>0, <3>1, <3>2
  <2>3. ASSUME EntryEnds PROVE Wanted
    BY <2>0, <2>3 DEF EntryEnds
  <2>4. ASSUME ReadAuth PROVE Wanted
    <3>1. ~(auth' > auth)
      BY <2>0, <2>4 DEF ReadAuth
    <3> QED BY <1>1, <2>4, <3>1, NextReadAuth
  <2>5. ASSUME ReadLine PROVE Wanted
    BY <2>0, <2>5 DEF ReadLine, controller
  <2>6. ASSUME NEW k \in Keys, KeyboardKey(k) PROVE Wanted
    <3>1. request' = request
      BY <2>6 DEF KeyboardKey, controller
    <3> QED BY <1>1, <2>6, <3>1, NextKeyboardKey
  <2>7. ASSUME FlightEnds \/ Restart PROVE Wanted
    BY <2>0, <2>7 DEF FlightEnds, Restart, controller
  <2>8. ASSUME Answers \/ Confirms \/ Cut \/ Reconnect \/ Resets \/ Rests PROVE Wanted
    BY <1>1, <2>0, <2>8, NextSatellite
  <2> HIDE DEF Wanted
  <2>10. Wanted \/ UNCHANGED vars
    <3>1. CASE UNCHANGED vars
      BY <3>1
    <3>2. CASE Next
      <4>1. \/ LaunchKey \/ \E k \in Keys : RemoteKey(k)
            \/ EntryEnds \/ ReadAuth
            \/ ReadLine \/ \E k \in Keys : KeyboardKey(k)
            \/ FlightEnds \/ Restart
            \/ Answers \/ Confirms \/ Cut \/ Reconnect \/ Resets \/ Rests
        BY <3>2, Zenon DEF Next
      <4>2. CASE \E k \in Keys : RemoteKey(k)
        BY <2>2, <4>2
      <4>3. CASE \E k \in Keys : KeyboardKey(k)
        BY <2>6, <4>3
      <4> QED BY <2>1, <2>3, <2>4, <2>5, <2>7, <2>8, <4>1, <4>2, <4>3
    <3> QED BY <1>1, <3>1, <3>2
  <2> QED BY <2>10 DEF Wanted
<1>2. [][Next]_vars /\ []IInv => LaunchAuthorised
  BY <1>1, PTL DEF LaunchAuthorised
<1> QED BY <1>2, Invariance, PTL DEF Spec
=============================================================================
