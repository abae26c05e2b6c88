------------------------------ MODULE LinkProofs ------------------------------
(***************************************************************************)
(* What holds of the link for every size of the reads and of g_push_buf    *)
(* that LinkAssumption allows, and for any number of pushes, commands and  *)
(* sessions.                                                               *)
(***************************************************************************)
EXTENDS Link, SequenceTheorems, WellFoundedInduction, TLAPS

-----------------------------------------------------------------------------
(* What is said of a sequence of fragments b.                              *)

IsStart(f) == f.line.kind = "push" /\ ~f.end

(* b follows the pushes delivered, d: their numbers rise, up to m.         *)
Follows(b, d, m) ==
  /\ \A i, j \in DOMAIN d : i < j => d[i] < d[j]
  /\ \A i \in DOMAIN d : d[i] <= m
  /\ \A i, j \in 1..Len(b) :
       i < j /\ IsStart(b[i]) /\ IsStart(b[j]) => b[i].line.n < b[j].line.n
  /\ \A i \in 1..Len(b) : IsStart(b[i]) =>
       b[i].line.n <= m /\ \A j \in DOMAIN d : d[j] < b[i].line.n

(* Beyond e there are whole lines, but for the last, which may be cut.     *)
Paired(b, e) ==
  \A i \in (e + 1)..Len(b) :
    /\ b[i].end => i > e + 1 /\ b[i - 1] = Start(b[i].line)
    /\ ~b[i].end /\ i < Len(b) => b[i + 1] = End(b[i].line)

EndsWhole(b) == b # << >> => b[Len(b)].end

Whole(n, b, i) ==
  i + 1 <= Len(b) /\ b[i] = Start(PushLine(n)) /\ b[i + 1] = End(PushLine(n))

(* Beyond e, where the push f of AUTH_OK ends, b holds whole lines, and    *)
(* every push from f + 1 to m that was not delivered.                      *)
Keeps(b, d, f, m, e) ==
  /\ e \in 0..Len(b) /\ Paired(b, e) /\ EndsWhole(b)
  /\ e > 0 => b[e] = End(PushLine(f))
  /\ \A n \in (f + 1)..m :
       (\E j \in DOMAIN d : d[j] = n) \/ \E i \in (e + 1)..Len(b) : Whole(n, b, i)

(* b has whole lines only, and of replies at most one: that of command r,  *)
(* and none when r is 0.                                                   *)
OneReply(b, r) ==
  /\ Paired(b, 0)
  /\ \A i \in 1..Len(b) :
       /\ b[i].line.kind # "auth"
       /\ b[i].line.kind = "reply" => r > 0 /\ b[i].line = ReplyLine(r)
  /\ \A i, j \in 1..Len(b) :
       b[i].line.kind = "reply" /\ ~b[i].end /\ b[j].line.kind = "reply" /\ ~b[j].end
         => i = j

(* x has the elements of d, and may have more.                             *)
Includes(x, d) == \A j \in DOMAIN d : \E k \in DOMAIN x : x[k] = d[j]

-----------------------------------------------------------------------------
(* The inductive invariant.                                                *)

(* What the controller has still to read or to cut into lines.             *)
Stream == buf \o wire

(* What is still to come is later than what was delivered.                 *)
Ordered == Follows(Stream, delivered, pushes)

(* A read of g_push_buf leaves room for the next one.                      *)
Room ==
  /\ pc \in {"idle", "auth", "keys"} /\ Complete(buf) => Len(buf) < ReadMax
  /\ pc = "await" => \A i \in 1..Len(buf) : buf[i].end => Len(buf) - i < ReadMax

Closed ==
  /\ conn = "down" => pc = "idle" /\ wire = << >> /\ request = 0 /\ ~listening
  /\ request = -1 => pc = "auth" /\ conn = "up"

(* While auth_satellite waits, AUTH_OK is the first thing to come.         *)
Authenticating ==
  pc = "auth" =>
    /\ conn # "down" /\ request \in {-1, 0} /\ (request = -1 => ~listening)
    /\ conn = "up" /\ ~listening => wire = << >>
    /\ wire # << >> => wire[1] = AuthOk
    /\ Paired(wire, 1)
    /\ \A i \in 2..Len(wire) : wire[i].line.kind = "push"
    /\ conn = "up" /\ listening =>
         /\ Len(wire) >= 3 /\ Whole(first, wire, 2) /\ EndsWhole(wire)
         /\ \A n \in (first + 1)..pushes : \E i \in 4..Len(wire) : Whole(n, wire, i)

(* In a clean session the one reply there may be is that of the command.   *)
CleanSession ==
  clean /\ conn # "down" /\ pc # "auth" =>
    /\ OneReply(Stream, IF pc = "await" /\ request = 0 THEN commands ELSE 0)
    /\ request > 0 => pc = "await" /\ request = commands

LiveSession ==
  conn = "up" /\ pc # "auth" =>
    \E e \in 0..Len(Stream) : Keeps(Stream, delivered, first, pushes, e)

IInv ==
  /\ TypeOK /\ Ordered /\ Room /\ Closed /\ Authenticating
  /\ CleanSession /\ LiveSession /\ RepliesPaired

-----------------------------------------------------------------------------
(* Fragments, lines and sequences of fragments.                            *)

LEMMA FragmentFacts ==
  ASSUME NEW l
  PROVE  /\ Start(l).line = l /\ ~Start(l).end /\ End(l).line = l /\ End(l).end
         /\ l \in LineSet => Start(l) \in Fragments /\ End(l) \in Fragments
         /\ l \in LineSet => Text(l) \in Seq(Fragments)
         /\ Len(Text(l)) = 2 /\ Text(l)[1] = Start(l) /\ Text(l)[2] = End(l)
BY DEF Start, End, Text, Fragments

LEMMA LineFacts ==
  /\ \A l \in LineSet : l.kind = "push" => l.n \in 1..MaxPushes /\ l = PushLine(l.n)
  /\ \A l \in LineSet : l.kind = "reply" => l.n \in 1..MaxCommands /\ l = ReplyLine(l.n)
  /\ \A l \in LineSet : l.kind \in {"auth", "push", "reply"}
  /\ \A n \in 1..MaxPushes : PushLine(n) \in LineSet
  /\ \A n \in 1..MaxCommands : ReplyLine(n) \in LineSet
  /\ \A n : PushLine(n).kind = "push" /\ PushLine(n).n = n
  /\ \A n : ReplyLine(n).kind = "reply" /\ ReplyLine(n).n = n
  /\ AuthOk \in Fragments /\ AuthOk.end /\ AuthOk.line.kind = "auth"
<1> USE DEF LineSet, PushLine, ReplyLine
<1>1. \A l \in LineSet : l.kind = "push" => l.n \in 1..MaxPushes /\ l = PushLine(l.n)
  OBVIOUS
<1>2. \A l \in LineSet : l.kind = "reply" => l.n \in 1..MaxCommands /\ l = ReplyLine(l.n)
  OBVIOUS
<1>3. \A l \in LineSet : l.kind \in {"auth", "push", "reply"}
  OBVIOUS
<1>4. AuthOk \in Fragments /\ AuthOk.end /\ AuthOk.line.kind = "auth"
  BY DEF AuthOk, End, Fragments
<1> QED BY <1>1, <1>2, <1>3, <1>4

LEMMA SeqFacts ==
  ASSUME NEW b \in Seq(Fragments)
  PROVE  /\ Len(b) \in Nat /\ DOMAIN b = 1..Len(b)
         /\ \A i \in 1..Len(b) : b[i] \in Fragments /\ b[i].end \in BOOLEAN
                                  /\ b[i].line \in LineSet
<1>1. Len(b) \in Nat /\ DOMAIN b = 1..Len(b)
  BY LenProperties
<1>2. \A i \in 1..Len(b) : b[i] \in Fragments
  BY ElementOfSeq
<1>3. \A f \in Fragments : f.end \in BOOLEAN /\ f.line \in LineSet
  BY DEF Fragments
<1> QED BY <1>1, <1>2, <1>3

(* A set of numbers that is not empty has a least element.                 *)
LEMMA Least ==
  ASSUME NEW T \in SUBSET Nat, T # {}
  PROVE  \E x \in T : \A y \in T : x <= y
<1>1. PICK x \in T : \A y \in T : <<y, x>> \notin OpToRel(<, Nat)
  BY WFMin, NatLessThanWellFounded, Zenon
<1>2. \A y \in T : ~(y < x)
  BY <1>1 DEF OpToRel
<1> QED BY <1>2

(* The newline that ends the first line is where the source looks for it.  *)
LEMMA LineEndFacts ==
  ASSUME NEW b \in Seq(Fragments), Complete(b)
  PROVE  /\ LineEnd(b) \in 1..Len(b) /\ b[LineEnd(b)].end
         /\ \A i \in 1..(LineEnd(b) - 1) : ~b[i].end
<1> DEFINE T == {i \in 1..Len(b) : b[i].end}
<1>1. T \in SUBSET Nat /\ T # {}
  BY SeqFacts DEF Complete
<1>2. PICK x \in T : \A y \in T : x <= y
  BY <1>1, Least
<1>3. x \in DOMAIN b /\ b[x].end /\ \A j \in 1..(x - 1) : ~b[j].end
  BY <1>2, SeqFacts
<1> QED BY <1>3, SeqFacts DEF LineEnd

(* c is b without the r fragments that follow its first p.                 *)
Removed(c, b, p, r) ==
  /\ p \in Nat /\ r \in Nat /\ Len(c) = Len(b) - r /\ p <= Len(c)
  /\ \A i \in 1..Len(c) : c[i] = b[IF i <= p THEN i ELSE i + r]

LEMMA RemovedHead ==
  ASSUME NEW b \in Seq(Fragments), NEW r \in 0..Len(b)
  PROVE  /\ SubSeq(b, r + 1, Len(b)) \in Seq(Fragments)
         /\ Removed(SubSeq(b, r + 1, Len(b)), b, 0, r)
<1>1. \A i \in (r + 1)..Len(b) : b[i] \in Fragments
  BY SeqFacts
<1> QED BY <1>1, SubSeqProperties, SeqFacts DEF Removed

LEMMA RemovedTail ==
  ASSUME NEW b \in Seq(Fragments), NEW k \in 0..Len(b)
  PROVE  /\ SubSeq(b, 1, k) \in Seq(Fragments)
         /\ Removed(SubSeq(b, 1, k), b, k, Len(b) - k)
<1>1. \A i \in 1..k : b[i] \in Fragments
  BY SeqFacts
<1> QED BY <1>1, SubSeqProperties, SeqFacts DEF Removed

LEMMA RemovedLeft ==
  ASSUME NEW b \in Seq(Fragments), NEW w \in Seq(Fragments), NEW c \in Seq(Fragments),
         NEW p, NEW r, Removed(c, b, p, r), p + r <= Len(b)
  PROVE  Removed(c \o w, b \o w, p, r)
<1>1. /\ Len(b \o w) = Len(b) + Len(w) /\ Len(c \o w) = Len(c) + Len(w)
      /\ Len(b) \in Nat /\ Len(w) \in Nat /\ Len(c) = Len(b) - r
      /\ p \in Nat /\ r \in Nat /\ p <= Len(c)
  BY ConcatProperties, SeqFacts DEF Removed
<1>2. ASSUME NEW i \in 1..(Len(c) + Len(w))
      PROVE  (c \o w)[i] = (b \o w)[IF i <= p THEN i ELSE i + r]
  <2>1. (c \o w)[i] = IF i <= Len(c) THEN c[i] ELSE w[i - Len(c)]
    BY ConcatProperties, <1>1
  <2> DEFINE j == IF i <= p THEN i ELSE i + r
  <2>2. j \in 1..(Len(b) + Len(w)) /\ (j <= Len(b) <=> i <= Len(c))
    BY <1>1
  <2>3. (b \o w)[j] = IF j <= Len(b) THEN b[j] ELSE w[j - Len(b)]
    BY ConcatProperties, <1>1, <2>2
  <2>4. CASE i <= Len(c)
    BY <2>1, <2>2, <2>3, <2>4, <1>1 DEF Removed
  <2>5. CASE ~(i <= Len(c))
    BY <2>1, <2>2, <2>3, <2>5, <1>1
  <2> QED BY <2>4, <2>5
<1> QED BY <1>1, <1>2 DEF Removed

LEMMA RemovedRight ==
  ASSUME NEW b \in Seq(Fragments), NEW w \in Seq(Fragments), NEW v \in Seq(Fragments),
         NEW p, NEW r, Removed(v, w, p, r)
  PROVE  Removed(b \o v, b \o w, Len(b) + p, r)
<1>1. /\ Len(b \o w) = Len(b) + Len(w) /\ Len(b \o v) = Len(b) + Len(v)
      /\ Len(b) \in Nat /\ Len(w) \in Nat /\ Len(v) = Len(w) - r /\ Len(v) \in Nat
      /\ p \in Nat /\ r \in Nat /\ p <= Len(v)
  BY ConcatProperties, SeqFacts DEF Removed
<1>2. ASSUME NEW i \in 1..(Len(b) + Len(v))
      PROVE  (b \o v)[i] = (b \o w)[IF i <= Len(b) + p THEN i ELSE i + r]
  <2>1. (b \o v)[i] = IF i <= Len(b) THEN b[i] ELSE v[i - Len(b)]
    BY ConcatProperties, <1>1
  <2> DEFINE j == IF i <= Len(b) + p THEN i ELSE i + r
  <2>2. j \in 1..(Len(b) + Len(w)) /\ (j <= Len(b) <=> i <= Len(b))
    BY <1>1
  <2>3. (b \o w)[j] = IF j <= Len(b) THEN b[j] ELSE w[j - Len(b)]
    BY ConcatProperties, <1>1, <2>2
  <2>4. CASE i <= Len(b)
    BY <2>1, <2>2, <2>3, <2>4, <1>1
  <2>5. CASE ~(i <= Len(b))
    <3>1. v[i - Len(b)] = w[IF i - Len(b) <= p THEN i - Len(b) ELSE i - Len(b) + r]
      <4>1. i - Len(b) \in 1..Len(v)
        BY <2>5, <1>1
      <4> QED BY <4>1 DEF Removed
    <3> QED BY <2>1, <2>2, <2>3, <2>5, <3>1, <1>1
  <2> QED BY <2>4, <2>5
<1> QED BY <1>1, <1>2 DEF Removed

LEMMA Joined ==
  ASSUME NEW b \in Seq(Fragments), NEW w \in Seq(Fragments)
  PROVE  /\ b \o w \in Seq(Fragments) /\ Len(b \o w) = Len(b) + Len(w)
         /\ Len(b) \in Nat /\ Len(w) \in Nat
         /\ \A i \in 1..Len(b) : (b \o w)[i] = b[i]
         /\ \A i \in 1..Len(w) : (b \o w)[Len(b) + i] = w[i]
<1>1. Len(b) \in Nat /\ Len(w) \in Nat
  BY SeqFacts
<1>2. /\ b \o w \in Seq(Fragments) /\ Len(b \o w) = Len(b) + Len(w)
      /\ \A i \in 1..(Len(b) + Len(w)) :
           (b \o w)[i] = IF i <= Len(b) THEN b[i] ELSE w[i - Len(b)]
  BY ConcatProperties
<1>3. \A i \in 1..Len(b) : (b \o w)[i] = b[i]
  BY <1>1, <1>2
<1>4. \A i \in 1..Len(w) : (b \o w)[Len(b) + i] = w[i]
  <2> SUFFICES ASSUME NEW i \in 1..Len(w) PROVE (b \o w)[Len(b) + i] = w[i]
    OBVIOUS
  <2>1. Len(b) + i \in 1..(Len(b) + Len(w)) /\ ~(Len(b) + i <= Len(b))
        /\ (Len(b) + i) - Len(b) = i
    BY <1>1
  <2> QED BY <1>2, <2>1
<1> QED BY <1>1, <1>2, <1>3, <1>4

LEMMA Regroup ==
  ASSUME NEW b \in Seq(Fragments), NEW w \in Seq(Fragments), NEW t \in Seq(Fragments)
  PROVE  b \o (w \o t) = (b \o w) \o t
OBVIOUS

(* Moving the head of w to the end of b.                                   *)
LEMMA Moved ==
  ASSUME NEW b \in Seq(Fragments), NEW w \in Seq(Fragments), NEW k \in 0..Len(w)
  PROVE  (b \o SubSeq(w, 1, k)) \o SubSeq(w, k + 1, Len(w)) = b \o w
<1> DEFINE u == SubSeq(w, 1, k)
           v == SubSeq(w, k + 1, Len(w))
<1>1. u \in Seq(Fragments) /\ v \in Seq(Fragments)
  BY RemovedHead, RemovedTail
<1>2. /\ Len(u) = k /\ Len(v) = Len(w) - k /\ Len(w) \in Nat
      /\ \A i \in 1..k : u[i] = w[i]
      /\ \A i \in 1..(Len(w) - k) : v[i] = w[i + k]
  <2>1. Removed(u, w, k, Len(w) - k) /\ Removed(v, w, 0, k)
    BY RemovedHead, RemovedTail
  <2> HIDE DEF u, v
  <2>2. Len(w) \in Nat /\ k \in Nat /\ Len(u) = k /\ Len(v) = Len(w) - k
    BY <2>1, SeqFacts DEF Removed
  <2>3. \A i \in 1..k : u[i] = w[i]
    BY <2>1, <2>2 DEF Removed
  <2>4. \A i \in 1..(Len(w) - k) : v[i] = w[i + k]
    BY <2>1, <2>2 DEF Removed
  <2> QED BY <2>2, <2>3, <2>4
<1> HIDE DEF u, v
<1>3. u \o v = w
  <2>1. /\ u \o v \in Seq(Fragments) /\ Len(u \o v) = Len(w)
        /\ \A i \in 1..Len(w) : (u \o v)[i] = IF i <= k THEN u[i] ELSE v[i - k]
    BY <1>1, <1>2, ConcatProperties
  <2> DEFINE x == u \o v
  <2>2. \A i \in 1..Len(x) : x[i] = w[i]
    BY <2>1, <1>2
  <2>3. x \in Seq(Fragments) /\ Len(x) = Len(w)
    BY <2>1
  <2> HIDE DEF x
  <2>4. x = w
    BY <2>2, <2>3, SeqEqual, SMT
  <2> QED BY <2>4 DEF x
<1>4. (b \o u) \o v = b \o (u \o v)
  BY <1>1
<1> QED BY <1>3, <1>4 DEF u, v

-----------------------------------------------------------------------------
(* What becomes of the predicates when fragments are removed or added.     *)

LEMMA PairedRemoved ==
  ASSUME NEW b \in Seq(Fragments), NEW c \in Seq(Fragments), NEW p, NEW r, NEW e \in Nat,
         Removed(c, b, p, r), p + r <= e, Paired(b, e)
  PROVE  Paired(c, e - r)
<1>1. /\ Len(b) \in Nat /\ Len(c) = Len(b) - r /\ p \in Nat /\ r \in Nat /\ Len(c) \in Nat
      /\ \A i \in 1..Len(c) : c[i] = b[IF i <= p THEN i ELSE i + r]
  BY SeqFacts DEF Removed
<1> SUFFICES ASSUME NEW i \in (e - r + 1)..Len(c)
             PROVE  /\ c[i].end => i > e - r + 1 /\ c[i - 1] = Start(c[i].line)
                    /\ ~c[i].end /\ i < Len(c) => c[i + 1] = End(c[i].line)
  BY DEF Paired
<1>2. i + r \in (e + 1)..Len(b) /\ c[i] = b[i + r]
  BY <1>1
<1>3. /\ b[i + r].end => i + r > e + 1 /\ b[(i + r) - 1] = Start(b[i + r].line)
      /\ ~b[i + r].end /\ i + r < Len(b) => b[i + r + 1] = End(b[i + r].line)
  <2>1. \A j \in (e + 1)..Len(b) :
          /\ b[j].end => j > e + 1 /\ b[j - 1] = Start(b[j].line)
          /\ ~b[j].end /\ j < Len(b) => b[j + 1] = End(b[j].line)
    BY DEF Paired
  <2> QED BY <1>2, <2>1, Zenon
<1>4. i > e - r + 1 => c[i - 1] = b[(i + r) - 1]
  <2>1. i > e - r + 1 => i - 1 \in 1..Len(c) /\ ~(i - 1 <= p) /\ (i - 1) + r = (i + r) - 1
    BY <1>1
  <2> QED BY <2>1, <1>1
<1>5. i < Len(c) => c[i + 1] = b[i + r + 1]
  <2>1. i < Len(c) => i + 1 \in 1..Len(c) /\ ~(i + 1 <= p) /\ i + 1 + r = i + r + 1
    BY <1>1
  <2> QED BY <2>1, <1>1
<1> QED BY <1>1, <1>2, <1>3, <1>4, <1>5

LEMMA PairedPrefix ==
  ASSUME NEW b \in Seq(Fragments), NEW c \in Seq(Fragments), NEW k, NEW r, NEW e \in Nat,
         Removed(c, b, k, r), k = Len(c), Paired(b, e)
  PROVE  Paired(c, e)
<1>1. /\ Len(b) \in Nat /\ Len(c) = Len(b) - r /\ r \in Nat /\ Len(c) \in Nat
      /\ \A i \in 1..Len(c) : c[i] = b[i]
  BY SeqFacts DEF Removed
<1> SUFFICES ASSUME NEW i \in (e + 1)..Len(c)
             PROVE  /\ c[i].end => i > e + 1 /\ c[i - 1] = Start(c[i].line)
                    /\ ~c[i].end /\ i < Len(c) => c[i + 1] = End(c[i].line)
  BY DEF Paired
<1>2. /\ b[i].end => i > e + 1 /\ b[i - 1] = Start(b[i].line)
      /\ ~b[i].end /\ i < Len(b) => b[i + 1] = End(b[i].line)
  <2>1. i \in (e + 1)..Len(b)
    BY <1>1
  <2> QED BY <2>1 DEF Paired
<1>3. c[i] = b[i] /\ (i > e + 1 => c[i - 1] = b[i - 1]) /\ (i < Len(c) => c[i + 1] = b[i + 1])
  BY <1>1
<1>4. i < Len(c) => i < Len(b)
  BY <1>1
<1> QED BY <1>2, <1>3, <1>4

LEMMA TextAdded ==
  ASSUME NEW b \in Seq(Fragments), NEW l \in LineSet
  PROVE  /\ b \o Text(l) \in Seq(Fragments) /\ Len(b \o Text(l)) = Len(b) + 2
         /\ Len(b) \in Nat
         /\ \A i \in 1..Len(b) : (b \o Text(l))[i] = b[i]
         /\ (b \o Text(l))[Len(b) + 1] = Start(l) /\ (b \o Text(l))[Len(b) + 2] = End(l)
<1>1. /\ Text(l) \in Seq(Fragments) /\ Len(Text(l)) = 2
      /\ Text(l)[1] = Start(l) /\ Text(l)[2] = End(l)
  BY FragmentFacts
<1> DEFINE t == Text(l)
<1> HIDE DEF t
<1>2. t \in Seq(Fragments) /\ Len(t) = 2 /\ t[1] = Start(l) /\ t[2] = End(l)
  BY <1>1 DEF t
<1>3. /\ b \o t \in Seq(Fragments) /\ Len(b \o t) = Len(b) + 2 /\ Len(b) \in Nat
      /\ \A i \in 1..(Len(b) + 2) : (b \o t)[i] = IF i <= Len(b) THEN b[i] ELSE t[i - Len(b)]
  <2>1. Len(b) \in Nat
    BY SeqFacts
  <2>2. /\ b \o t \in Seq(Fragments) /\ Len(b \o t) = Len(b) + Len(t)
        /\ \A i \in 1..(Len(b) + Len(t)) :
             (b \o t)[i] = IF i <= Len(b) THEN b[i] ELSE t[i - Len(b)]
    BY <1>2, ConcatProperties
  <2> QED BY <1>2, <2>1, <2>2
<1>4. (b \o t)[Len(b) + 1] = t[1] /\ (b \o t)[Len(b) + 2] = t[2]
  <2>1. Len(b) + 1 \in 1..(Len(b) + 2) /\ Len(b) + 2 \in 1..(Len(b) + 2)
        /\ (Len(b) + 1) - Len(b) = 1 /\ (Len(b) + 2) - Len(b) = 2
    BY <1>3
  <2> QED BY <1>3, <2>1
<1>5. \A i \in 1..Len(b) : (b \o t)[i] = b[i]
  BY <1>3
<1> QED BY <1>2, <1>3, <1>4, <1>5 DEF t

LEMMA PairedAdded ==
  ASSUME NEW b \in Seq(Fragments), NEW l \in LineSet, NEW e \in 0..Len(b),
         Paired(b, e), e < Len(b) => b[Len(b)].end
  PROVE  /\ Paired(b \o Text(l), e) /\ EndsWhole(b \o Text(l))
<1> DEFINE c == b \o Text(l)
<1>1. /\ c \in Seq(Fragments) /\ Len(c) = Len(b) + 2 /\ Len(b) \in Nat
      /\ \A i \in 1..Len(b) : c[i] = b[i]
      /\ c[Len(b) + 1] = Start(l) /\ c[Len(b) + 2] = End(l)
  BY TextAdded
<1> HIDE DEF c
<1>2. EndsWhole(c)
  BY <1>1, FragmentFacts DEF EndsWhole
<1>3. ASSUME NEW i \in (e + 1)..Len(c)
      PROVE  /\ c[i].end => i > e + 1 /\ c[i - 1] = Start(c[i].line)
             /\ ~c[i].end /\ i < Len(c) => c[i + 1] = End(c[i].line)
  <2>1. CASE i = Len(b) + 2
    <3>1. c[i] = End(l) /\ c[i - 1] = Start(l) /\ i > e + 1 /\ ~(i < Len(c))
      BY <2>1, <1>1
    <3> QED BY <3>1, FragmentFacts
  <2>2. CASE i = Len(b) + 1
    <3>1. c[i] = Start(l) /\ c[i + 1] = End(l)
      BY <2>2, <1>1
    <3> QED BY <3>1, FragmentFacts
  <2>3. CASE i <= Len(b)
    <3>1. /\ b[i].end => i > e + 1 /\ b[i - 1] = Start(b[i].line)
          /\ ~b[i].end /\ i < Len(b) => b[i + 1] = End(b[i].line)
      BY <2>3, <1>1 DEF Paired
    <3>2. ~b[i].end => i < Len(b)
      BY <2>3, <1>1
    <3> QED BY <2>3, <3>1, <3>2, <1>1
  <2> QED BY <2>1, <2>2, <2>3, <1>1
<1>4. Paired(c, e)
  BY <1>3 DEF Paired
<1> QED BY <1>2, <1>4 DEF c

(* Of a sequence of whole lines, the first line can be taken off.          *)
LEMMA PairedTake ==
  ASSUME NEW b \in Seq(Fragments), NEW c \in Seq(Fragments), Len(b) >= 2,
         Removed(c, b, 0, 2), Paired(b, 0)
  PROVE  Paired(c, 0) /\ b[2].end /\ b[1] = Start(b[1].line) /\ b[2] = End(b[1].line)
<1>1. /\ Len(b) \in Nat /\ Len(c) = Len(b) - 2 /\ Len(c) \in Nat
      /\ \A i \in 1..Len(c) : c[i] = b[i + 2]
  BY SeqFacts DEF Removed
<1>2. ~b[1].end /\ b[2] = End(b[1].line) /\ b[2].end
  <2>1. ~b[1].end
    BY <1>1 DEF Paired
  <2>2. b[1 + 1] = End(b[1].line)
    BY <1>1, <2>1 DEF Paired
  <2> QED BY <2>1, <2>2, FragmentFacts
<1>3. b[1] = Start(b[1].line)
  <2>1. b[2 - 1] = Start(b[2].line)
    BY <1>1, <1>2 DEF Paired
  <2> QED BY <2>1, <1>2, FragmentFacts
<1>4. Paired(b, 2)
  <2> SUFFICES ASSUME NEW i \in (2 + 1)..Len(b)
               PROVE  /\ b[i].end => i > 2 + 1 /\ b[i - 1] = Start(b[i].line)
                      /\ ~b[i].end /\ i < Len(b) => b[i + 1] = End(b[i].line)
    BY DEF Paired
  <2>1. /\ b[i].end => b[i - 1] = Start(b[i].line)
        /\ ~b[i].end /\ i < Len(b) => b[i + 1] = End(b[i].line)
    BY <1>1 DEF Paired
  <2>2. b[i].end /\ i = 3 => b[2] = Start(b[i].line)
    BY <2>1
  <2>3. b[i].end => i # 3
    BY <2>2, <1>2, FragmentFacts
  <2> QED BY <2>1, <2>3, <1>1
<1>5. Paired(c, 2 - 2)
  BY <1>4, PairedRemoved
<1> QED BY <1>2, <1>3, <1>5

LEMMA FollowsRemoved ==
  ASSUME NEW b \in Seq(Fragments), NEW c \in Seq(Fragments), NEW p, NEW r, NEW d, NEW m,
         Removed(c, b, p, r), Follows(b, d, m)
  PROVE  Follows(c, d, m)
<1>1. /\ Len(b) \in Nat /\ Len(c) = Len(b) - r /\ Len(c) \in Nat /\ r \in Nat /\ p \in Nat
      /\ \A i \in 1..Len(c) : c[i] = b[IF i <= p THEN i ELSE i + r]
  BY SeqFacts DEF Removed
<1> DEFINE k(i) == IF i <= p THEN i ELSE i + r
<1>2. /\ \A i \in 1..Len(c) : k(i) \in 1..Len(b) /\ c[i] = b[k(i)]
      /\ \A i, j \in 1..Len(c) : i < j => k(i) < k(j)
  BY <1>1
<1> HIDE DEF k
<1>3. \A i, j \in 1..Len(c) :
        i < j /\ IsStart(c[i]) /\ IsStart(c[j]) => c[i].line.n < c[j].line.n
  BY <1>2 DEF Follows
<1>4. \A i \in 1..Len(c) : IsStart(c[i]) =>
        c[i].line.n <= m /\ \A j \in DOMAIN d : d[j] < c[i].line.n
  BY <1>2 DEF Follows
<1> QED BY <1>3, <1>4 DEF Follows

LEMMA OneMore ==
  ASSUME NEW d \in Seq(1..MaxPushes), NEW n \in 1..MaxPushes
  PROVE  /\ d \o <<n>> \in Seq(1..MaxPushes) /\ DOMAIN (d \o <<n>>) = 1..(Len(d) + 1)
         /\ Len(d) \in Nat /\ DOMAIN d = 1..Len(d)
         /\ \A j \in 1..Len(d) : (d \o <<n>>)[j] = d[j] /\ d[j] \in 1..MaxPushes
         /\ (d \o <<n>>)[Len(d) + 1] = n
<1> DEFINE S == 1..MaxPushes
<1>0. d \in Seq(S) /\ n \in S
  OBVIOUS
<1> HIDE DEF S
<1>1. <<n>> \in Seq(S) /\ Len(<<n>>) = 1 /\ <<n>>[1] = n
  BY <1>0
<1>2. Len(d) \in Nat /\ DOMAIN d = 1..Len(d) /\ \A j \in 1..Len(d) : d[j] \in S
  BY <1>0, LenProperties, ElementOfSeq
<1>3. /\ d \o <<n>> \in Seq(S) /\ Len(d \o <<n>>) = Len(d) + 1
      /\ \A j \in 1..(Len(d) + 1) :
           (d \o <<n>>)[j] = IF j <= Len(d) THEN d[j] ELSE <<n>>[j - Len(d)]
  BY <1>0, <1>1, ConcatProperties
<1>4. DOMAIN (d \o <<n>>) = 1..(Len(d) + 1)
  BY <1>3, LenProperties
<1> QED BY <1>1, <1>2, <1>3, <1>4 DEF S

(* The first line is a push, and is delivered.                             *)
LEMMA FollowsTake ==
  ASSUME NEW b \in Seq(Fragments), NEW c \in Seq(Fragments), NEW r \in Nat \ {0},
         NEW d \in Seq(1..MaxPushes), NEW m \in Nat,
         Removed(c, b, 0, r), Follows(b, d, m), Len(b) > 0, IsStart(b[1])
  PROVE  /\ d \o <<b[1].line.n>> \in Seq(1..MaxPushes)
         /\ Follows(c, d \o <<b[1].line.n>>, m)
<1> DEFINE n == b[1].line.n
           x == d \o <<n>>
<1>1. n \in 1..MaxPushes
  <2>1. b[1] \in Fragments /\ b[1].line \in LineSet
    BY SeqFacts
  <2> QED BY <2>1, LineFacts DEF IsStart
<1>2. /\ x \in Seq(1..MaxPushes) /\ Len(d) \in Nat
      /\ DOMAIN x = 1..(Len(d) + 1) /\ DOMAIN d = 1..Len(d)
      /\ \A j \in 1..Len(d) : x[j] = d[j] /\ d[j] \in 1..MaxPushes
      /\ x[Len(d) + 1] = n
  <2> HIDE DEF n, x
  <2>1. /\ d \o <<n>> \in Seq(1..MaxPushes) /\ DOMAIN (d \o <<n>>) = 1..(Len(d) + 1)
        /\ Len(d) \in Nat /\ DOMAIN d = 1..Len(d)
        /\ \A j \in 1..Len(d) : (d \o <<n>>)[j] = d[j] /\ d[j] \in 1..MaxPushes
        /\ (d \o <<n>>)[Len(d) + 1] = n
    BY <1>1, OneMore, Zenon
  <2> QED BY <2>1 DEF x
<1> HIDE DEF x
<1>3. n <= m /\ \A j \in DOMAIN d : d[j] < n
  BY SeqFacts DEF Follows
<1>4. /\ Len(b) \in Nat /\ Len(c) = Len(b) - r /\ Len(c) \in Nat
      /\ \A i \in 1..Len(c) : i + r \in 1..Len(b) /\ 1 < i + r /\ c[i] = b[i + r]
  BY SeqFacts DEF Removed
<1>5. \A i \in 1..Len(c) : IsStart(c[i]) => n < c[i].line.n
  <2>1. \A i \in 1..Len(b) : 1 < i /\ IsStart(b[i]) => n < b[i].line.n
    BY <1>4 DEF Follows
  <2> QED BY <2>1, <1>4
<1>6. Follows(c, d, m)
  BY FollowsRemoved
<1> HIDE DEF n
<1>7. Follows(c, x, m)
  <2>1. \A i, j \in DOMAIN x : i < j => x[i] < x[j]
    <3> SUFFICES ASSUME NEW i \in DOMAIN x, NEW j \in DOMAIN x, i < j PROVE x[i] < x[j]
      OBVIOUS
    <3>1. i \in 1..Len(d) /\ x[i] = d[i]
      BY <1>2
    <3>2. CASE j = Len(d) + 1
      BY <3>1, <3>2, <1>2, <1>3
    <3>3. CASE j \in 1..Len(d)
      BY <3>1, <3>3, <1>2 DEF Follows
    <3> QED BY <3>2, <3>3, <1>2
  <2>2. \A i \in DOMAIN x : x[i] <= m
    BY <1>2, <1>3, <1>6 DEF Follows
  <2>3. \A i \in 1..Len(c) : IsStart(c[i]) =>
          c[i].line.n <= m /\ \A j \in DOMAIN x : x[j] < c[i].line.n
    BY <1>2, <1>5, <1>6 DEF Follows
  <2>4. \A i, j \in 1..Len(c) :
          i < j /\ IsStart(c[i]) /\ IsStart(c[j]) => c[i].line.n < c[j].line.n
    BY <1>6 DEF Follows
  <2> QED BY <2>1, <2>2, <2>3, <2>4 DEF Follows
<1> QED BY <1>2, <1>7 DEF x, n

LEMMA FollowsQuiet ==
  ASSUME NEW b \in Seq(Fragments), NEW t \in Seq(Fragments), NEW d, NEW m,
         Follows(b, d, m), \A i \in 1..Len(t) : ~IsStart(t[i])
  PROVE  Follows(b \o t, d, m)
<1> DEFINE c == b \o t
<1>1. /\ Len(c) = Len(b) + Len(t) /\ Len(b) \in Nat /\ Len(t) \in Nat
      /\ \A i \in 1..Len(c) : c[i] = IF i <= Len(b) THEN b[i] ELSE t[i - Len(b)]
  BY ConcatProperties, SeqFacts
<1> HIDE DEF c
<1>2. \A i \in 1..Len(c) : IsStart(c[i]) => i \in 1..Len(b) /\ c[i] = b[i]
  <2> SUFFICES ASSUME NEW i \in 1..Len(c), i > Len(b) PROVE ~IsStart(c[i])
    BY <1>1
  <2>1. i - Len(b) \in 1..Len(t) /\ c[i] = t[i - Len(b)]
    BY <1>1
  <2> QED BY <2>1
<1>3. Follows(c, d, m)
  BY <1>2 DEF Follows
<1> QED BY <1>3 DEF c

LEMMA FollowsPush ==
  ASSUME NEW b \in Seq(Fragments), NEW d \in Seq(1..MaxPushes), NEW m \in Nat,
         m + 1 <= MaxPushes, Follows(b, d, m)
  PROVE  Follows(b \o Push(m + 1), d, m + 1)
<1> DEFINE l == PushLine(m + 1)
           c == b \o Text(l)
<1>1. l \in LineSet /\ l.kind = "push" /\ l.n = m + 1
  BY LineFacts, LinkAssumption
<1> HIDE DEF l
<1>2. /\ Len(c) = Len(b) + 2 /\ Len(b) \in Nat
      /\ \A i \in 1..Len(b) : c[i] = b[i]
      /\ c[Len(b) + 1] = Start(l) /\ c[Len(b) + 2] = End(l)
  BY <1>1, TextAdded
<1> HIDE DEF c
<1>3. \A i \in 1..Len(c) : IsStart(c[i]) =>
        \/ i \in 1..Len(b) /\ c[i] = b[i]
        \/ i = Len(b) + 1 /\ c[i].line.n = m + 1
  <2>1. ~IsStart(End(l)) /\ Start(l).line.n = m + 1
    BY FragmentFacts, <1>1 DEF IsStart
  <2> QED BY <2>1, <1>2
<1>4. \A i \in 1..Len(b) : b[i].line \in LineSet /\ (IsStart(b[i]) => b[i].line.n \in Nat)
  BY SeqFacts, LineFacts DEF IsStart
<1>5. DOMAIN d = 1..Len(d) /\ \A j \in DOMAIN d : d[j] \in Nat
  <2>1. DOMAIN d = 1..Len(d) /\ \A j \in 1..Len(d) : d[j] \in 1..MaxPushes
    BY LenProperties, ElementOfSeq
  <2> QED BY <2>1
<1>6. Follows(c, d, m + 1)
  <2>1. \A i \in DOMAIN d : d[i] <= m /\ d[i] <= m + 1
    BY <1>5 DEF Follows
  <2>2. \A i \in 1..Len(b) : IsStart(b[i]) => b[i].line.n <= m
    BY DEF Follows
  <2>3. \A i, j \in 1..Len(c) :
          i < j /\ IsStart(c[i]) /\ IsStart(c[j]) => c[i].line.n < c[j].line.n
    BY <1>2, <1>3, <1>4, <2>2 DEF Follows
  <2>4. \A i \in 1..Len(c) : IsStart(c[i]) =>
          c[i].line.n <= m + 1 /\ \A j \in DOMAIN d : d[j] < c[i].line.n
    BY <1>2, <1>3, <1>4, <1>5, <2>1, <2>2 DEF Follows
  <2> QED BY <2>1, <2>3, <2>4 DEF Follows
<1> QED BY <1>6 DEF c, l, Push

LEMMA EndsWholeRemoved ==
  ASSUME NEW b \in Seq(Fragments), NEW c \in Seq(Fragments), NEW p, NEW r,
         Removed(c, b, p, r), p < Len(c) \/ c = << >>, EndsWhole(b)
  PROVE  EndsWhole(c)
<1> SUFFICES ASSUME c # << >> PROVE c[Len(c)].end
  BY DEF EndsWhole
<1>1. /\ p \in Nat /\ r \in Nat /\ Len(c) = Len(b) - r /\ Len(b) \in Nat /\ Len(c) \in Nat
      /\ \A i \in 1..Len(c) : c[i] = b[IF i <= p THEN i ELSE i + r]
  BY SeqFacts DEF Removed
<1>2. p < Len(c)
  OBVIOUS
<1>3. Len(c) \in 1..Len(c) /\ ~(Len(c) <= p) /\ Len(c) + r = Len(b) /\ Len(b) > 0
  BY <1>1, <1>2
<1>4. c[Len(c)] = b[Len(b)]
  <2>1. c[Len(c)] = b[IF Len(c) <= p THEN Len(c) ELSE Len(c) + r]
    BY <1>1, <1>3, Zenon
  <2> QED BY <2>1, <1>3
<1>5. b # << >>
  BY <1>3, EmptySeq
<1> QED BY <1>4, <1>5 DEF EndsWhole

(* The first r fragments, all of them before e, are taken or dropped.      *)
LEMMA KeepsRemoved ==
  ASSUME NEW b \in Seq(Fragments), NEW c \in Seq(Fragments), NEW r,
         NEW d, NEW x, NEW f, NEW m, NEW e,
         Removed(c, b, 0, r), r <= e, Keeps(b, d, f, m, e),
         Includes(x, d)
  PROVE  Keeps(c, x, f, m, e - r)
<1>1. /\ Len(b) \in Nat /\ Len(c) = Len(b) - r /\ r \in Nat /\ Len(c) \in Nat
      /\ e \in 0..Len(b) /\ e - r \in 0..Len(c)
      /\ \A i \in 1..Len(c) : c[i] = b[i + r]
  <2>1. e \in 0..Len(b) /\ Len(b) \in Nat /\ Len(c) \in Nat
    BY SeqFacts DEF Keeps
  <2>2. /\ Len(c) = Len(b) - r /\ r \in Nat
        /\ \A i \in 1..Len(c) : c[i] = b[IF i <= 0 THEN i ELSE i + r]
    BY DEF Removed
  <2>3. \A i \in 1..Len(c) : c[i] = b[i + r]
    BY <2>1, <2>2
  <2> QED BY <2>1, <2>2, <2>3
<1>2. Paired(c, e - r)
  <2>1. Paired(b, e) /\ e \in Nat /\ 0 + r <= e
    BY <1>1 DEF Keeps
  <2> QED BY <2>1, PairedRemoved
<1>3. EndsWhole(c)
  <2>1. 0 < Len(c) \/ c = << >>
    BY <1>1, EmptySeq
  <2> QED BY <2>1, EndsWholeRemoved DEF Keeps
<1>4. e - r > 0 => c[e - r] = End(PushLine(f))
  <2>1. e - r > 0 => c[e - r] = b[e]
    BY <1>1
  <2> QED BY <2>1, <1>1 DEF Keeps
<1>5. ASSUME NEW n, NEW i \in (e + 1)..Len(b), Whole(n, b, i)
      PROVE  \E k \in (e - r + 1)..Len(c) : Whole(n, c, k)
  <2>1. i - r \in (e - r + 1)..Len(c)
    BY <1>1
  <2>2. Whole(n, c, i - r)
    <3>1. i - r \in 1..Len(c) /\ (i - r) + 1 \in 1..Len(c) /\ (i - r) + r = i
          /\ ((i - r) + 1) + r = i + 1
      BY <1>1, <1>5 DEF Whole
    <3>2. c[i - r] = b[i] /\ c[(i - r) + 1] = b[i + 1]
      BY <1>1, <3>1
    <3> QED BY <3>1, <3>2, <1>5 DEF Whole
  <2> QED BY <2>1, <2>2
<1>6. \A n \in (f + 1)..m :
        (\E j \in DOMAIN x : x[j] = n) \/ \E i \in (e - r + 1)..Len(c) : Whole(n, c, i)
  BY <1>5 DEF Keeps, Includes
<1> QED BY <1>1, <1>2, <1>3, <1>4, <1>6 DEF Keeps

(* The first line is taken, and delivered if it is a push.                 *)
LEMMA KeepsTake ==
  ASSUME NEW b \in Seq(Fragments), NEW c \in Seq(Fragments),
         NEW d, NEW x, NEW f, NEW m,
         Removed(c, b, 0, 2), Len(b) >= 2, Keeps(b, d, f, m, 0),
         Includes(x, d),
         b[1].line.kind = "push" => \E k \in DOMAIN x : x[k] = b[1].line.n
  PROVE  Keeps(c, x, f, m, 0)
<1>1. /\ Len(b) \in Nat /\ Len(c) = Len(b) - 2 /\ Len(c) \in Nat
      /\ \A i \in 1..Len(c) : c[i] = b[i + 2]
  BY SeqFacts DEF Removed
<1>2. Paired(c, 0) /\ b[2] = End(b[1].line)
  BY PairedTake DEF Keeps
<1>3. EndsWhole(c)
  <2>1. 0 < Len(c) \/ c = << >>
    BY <1>1, EmptySeq
  <2> QED BY <2>1, EndsWholeRemoved DEF Keeps
<1>4. ASSUME NEW n, NEW i \in (0 + 1)..Len(b), Whole(n, b, i)
      PROVE  (\E k \in DOMAIN x : x[k] = n) \/ \E k \in (0 + 1)..Len(c) : Whole(n, c, k)
  <2>1. CASE i = 1
    <3>1. b[1].line.kind = "push" /\ b[1].line.n = n
      BY <2>1, <1>4, FragmentFacts, LineFacts DEF Whole
    <3> QED BY <3>1
  <2>2. CASE i = 2
    <3>1. b[2].end /\ ~b[2].end
      BY <2>2, <1>2, <1>4, FragmentFacts DEF Whole
    <3> QED BY <3>1
  <2>3. CASE i > 2
    <3>1. i - 2 \in (0 + 1)..Len(c) /\ (i - 2) + 1 \in 1..Len(c) /\ (i - 2) + 2 = i
          /\ ((i - 2) + 1) + 2 = i + 1
      BY <1>1, <1>4, <2>3 DEF Whole
    <3>2. c[i - 2] = b[i] /\ c[(i - 2) + 1] = b[i + 1]
      BY <1>1, <3>1
    <3>3. Whole(n, c, i - 2)
      BY <3>1, <3>2, <1>4 DEF Whole
    <3> QED BY <3>1, <3>3
  <2> QED BY <2>1, <2>2, <2>3
<1>5. \A n \in (f + 1)..m :
        (\E j \in DOMAIN x : x[j] = n) \/ \E i \in (0 + 1)..Len(c) : Whole(n, c, i)
  BY <1>4 DEF Keeps, Includes
<1>6. 0 \in 0..Len(c)
  BY <1>1
<1> QED BY <1>2, <1>3, <1>5, <1>6 DEF Keeps

(* A reply is added, or a push, which is the next one.                     *)
LEMMA KeepsAdded ==
  ASSUME NEW b \in Seq(Fragments), NEW l \in LineSet, NEW d, NEW f \in Nat, NEW m \in Nat,
         NEW e, Keeps(b, d, f, m, e)
  PROVE  /\ Keeps(b \o Text(l), d, f, m, e)
         /\ l = PushLine(m + 1) => Keeps(b \o Text(l), d, f, m + 1, e)
<1> DEFINE c == b \o Text(l)
<1>1. /\ c \in Seq(Fragments) /\ Len(c) = Len(b) + 2 /\ Len(b) \in Nat
      /\ \A i \in 1..Len(b) : c[i] = b[i]
      /\ c[Len(b) + 1] = Start(l) /\ c[Len(b) + 2] = End(l)
  BY TextAdded
<1>2. e \in 0..Len(b) /\ (e < Len(b) => b[Len(b)].end)
  <2>1. e \in 0..Len(b) /\ EndsWhole(b)
    BY DEF Keeps
  <2>2. e < Len(b) => b # << >>
    BY <2>1, EmptySeq
  <2> QED BY <2>1, <2>2 DEF EndsWhole
<1>3. Paired(c, e) /\ EndsWhole(c)
  BY <1>2, PairedAdded DEF Keeps
<1> HIDE DEF c
<1>4. e \in 0..Len(c) /\ (e > 0 => c[e] = End(PushLine(f)))
  BY <1>1, <1>2 DEF Keeps
<1>5. ASSUME NEW n, NEW i \in (e + 1)..Len(b), Whole(n, b, i)
      PROVE  i \in (e + 1)..Len(c) /\ Whole(n, c, i)
  BY <1>1, <1>2, <1>5 DEF Whole
<1>6. \A n \in (f + 1)..m :
        (\E j \in DOMAIN d : d[j] = n) \/ \E i \in (e + 1)..Len(c) : Whole(n, c, i)
  BY <1>5 DEF Keeps
<1>7. ASSUME l = PushLine(m + 1), NEW n \in (f + 1)..(m + 1)
      PROVE  (\E j \in DOMAIN d : d[j] = n) \/ \E i \in (e + 1)..Len(c) : Whole(n, c, i)
  <2>1. CASE n = m + 1
    <3>1. Whole(n, c, Len(b) + 1) /\ Len(b) + 1 \in (e + 1)..Len(c)
      BY <2>1, <1>1, <1>2, <1>7 DEF Whole
    <3> QED BY <3>1
  <2>2. CASE n \in (f + 1)..m
    BY <2>2, <1>6
  <2> QED BY <2>1, <2>2
<1>8. Keeps(c, d, f, m, e)
  BY <1>3, <1>4, <1>6 DEF Keeps
<1>9. l = PushLine(m + 1) => Keeps(c, d, f, m + 1, e)
  BY <1>3, <1>4, <1>7 DEF Keeps
<1> QED BY <1>8, <1>9 DEF c

LEMMA OneReplyMore ==
  ASSUME NEW b, NEW r, OneReply(b, 0)
  PROVE  OneReply(b, r)
BY DEF OneReply

LEMMA OneReplyPrefix ==
  ASSUME NEW b \in Seq(Fragments), NEW c \in Seq(Fragments), NEW q, NEW r,
         Removed(c, b, Len(c), q), OneReply(b, r)
  PROVE  OneReply(c, r)
<1>1. /\ Len(b) \in Nat /\ Len(c) \in Nat /\ q \in Nat /\ Len(c) = Len(b) - q
      /\ \A i \in 1..Len(c) : i \in 1..Len(b) /\ c[i] = b[i]
  BY SeqFacts DEF Removed
<1>2. Paired(c, 0)
  BY PairedPrefix DEF OneReply
<1> QED BY <1>1, <1>2 DEF OneReply

(* The first line is a push, or else it is the reply, and the only one.    *)
LEMMA OneReplyTake ==
  ASSUME NEW b \in Seq(Fragments), NEW c \in Seq(Fragments), NEW r,
         Removed(c, b, 0, 2), Len(b) >= 2, OneReply(b, r)
  PROVE  /\ b[1] = Start(b[1].line) /\ b[2] = End(b[1].line) /\ ~b[1].end /\ b[2].end
         /\ b[1].line.kind = "push" => OneReply(c, r)
         /\ b[1].line.kind # "push" =>
              OneReply(c, 0) /\ r > 0 /\ b[1].line = ReplyLine(r)
<1>1. /\ Len(b) \in Nat /\ Len(c) \in Nat /\ Len(c) = Len(b) - 2
      /\ \A i \in 1..Len(c) : i + 2 \in 1..Len(b) /\ c[i] = b[i + 2]
  BY SeqFacts DEF Removed
<1>2. /\ Paired(c, 0) /\ b[1] = Start(b[1].line) /\ b[2] = End(b[1].line)
      /\ ~b[1].end /\ b[2].end
  BY PairedTake, FragmentFacts DEF OneReply
<1>3. \A i \in 1..Len(c) :
        /\ c[i].line.kind # "auth"
        /\ c[i].line.kind = "reply" => r > 0 /\ c[i].line = ReplyLine(r)
  BY <1>1 DEF OneReply
<1>4. \A i, j \in 1..Len(c) :
        c[i].line.kind = "reply" /\ ~c[i].end /\ c[j].line.kind = "reply" /\ ~c[j].end
          => i = j
  <2> SUFFICES ASSUME NEW i \in 1..Len(c), NEW j \in 1..Len(c),
                      c[i].line.kind = "reply", ~c[i].end, c[j].line.kind = "reply", ~c[j].end
               PROVE  i = j
    OBVIOUS
  <2>1. /\ i + 2 \in 1..Len(b) /\ b[i + 2].line.kind = "reply" /\ ~b[i + 2].end
        /\ j + 2 \in 1..Len(b) /\ b[j + 2].line.kind = "reply" /\ ~b[j + 2].end
    BY <1>1
  <2>2. i + 2 = j + 2
    BY <2>1, Zenon DEF OneReply
  <2> QED BY <2>2
<1>5. OneReply(c, r)
  BY <1>2, <1>3, <1>4 DEF OneReply
<1>6. ASSUME b[1].line.kind # "push"
      PROVE  OneReply(c, 0) /\ r > 0 /\ b[1].line = ReplyLine(r)
  <2>1. 1 \in 1..Len(b) /\ b[1].line \in LineSet
    BY <1>1, SeqFacts
  <2>2. b[1].line.kind = "reply"
    BY <2>1, <1>6, LineFacts DEF OneReply
  <2>3. ASSUME NEW i \in 1..Len(c), c[i].line.kind = "reply" PROVE FALSE
    <3>1. CASE ~c[i].end
      <4>1. i + 2 = 1
        BY <3>1, <2>1, <2>2, <2>3, <1>1, <1>2 DEF OneReply
      <4> QED BY <4>1
    <3>2. CASE c[i].end
      <4>1. i > 1 /\ c[i - 1] = Start(c[i].line)
        BY <3>2, <1>2 DEF Paired
      <4>2. i - 1 \in 1..Len(c) /\ (i - 1) + 2 \in 1..Len(b) /\ c[i - 1] = b[(i - 1) + 2]
        BY <4>1, <1>1
      <4>3. c[i - 1].line.kind = "reply" /\ ~c[i - 1].end
        BY <4>1, <2>3, FragmentFacts
      <4>4. (i - 1) + 2 = 1
        BY <4>2, <4>3, <2>1, <2>2, <1>2 DEF OneReply
      <4> QED BY <4>4
    <3> QED BY <3>1, <3>2
  <2>4. OneReply(c, 0)
    BY <2>3, <1>2, <1>3, <1>4 DEF OneReply
  <2>5. r > 0 /\ b[1].line = ReplyLine(r)
    BY <2>1, <2>2 DEF OneReply
  <2> QED BY <2>4, <2>5
<1> QED BY <1>2, <1>5, <1>6

(* A push is added, or a reply where there was none.                       *)
LEMMA OneReplyAdded ==
  ASSUME NEW b \in Seq(Fragments), NEW l \in LineSet, NEW r,
         OneReply(b, r), EndsWhole(b)
  PROVE  /\ EndsWhole(b \o Text(l))
         /\ l.kind = "push" => OneReply(b \o Text(l), r)
         /\ r = 0 => \A q \in 1..MaxCommands : l = ReplyLine(q) => OneReply(b \o Text(l), q)
<1> DEFINE c == b \o Text(l)
<1>1. /\ c \in Seq(Fragments) /\ Len(c) = Len(b) + 2 /\ Len(b) \in Nat
      /\ \A i \in 1..Len(b) : c[i] = b[i]
      /\ c[Len(b) + 1] = Start(l) /\ c[Len(b) + 2] = End(l)
  BY TextAdded
<1>2. 0 \in 0..Len(b) /\ (0 < Len(b) => b[Len(b)].end)
  <2>1. 0 < Len(b) => b # << >>
    BY EmptySeq
  <2> QED BY <2>1, <1>1 DEF EndsWhole
<1>3. Paired(c, 0) /\ EndsWhole(c)
  <2>1. Paired(b, 0)
    BY DEF OneReply
  <2> QED BY <1>2, <2>1, PairedAdded
<1> HIDE DEF c
<1>4. /\ c[Len(b) + 1].line = l /\ c[Len(b) + 2].line = l
      /\ ~c[Len(b) + 1].end /\ c[Len(b) + 2].end
  BY <1>1, FragmentFacts
<1>5. \A i \in 1..Len(c) : i \in 1..Len(b) \/ i = Len(b) + 1 \/ i = Len(b) + 2
  BY <1>1
<1>6. ASSUME l.kind = "push" PROVE OneReply(c, r)
  <2>1. \A i \in 1..Len(c) : c[i].line.kind # "push" => i \in 1..Len(b) /\ c[i] = b[i]
    BY <1>1, <1>4, <1>5, <1>6
  <2> QED BY <1>3, <2>1 DEF OneReply
<1>7. ASSUME r = 0, NEW q \in 1..MaxCommands, l = ReplyLine(q) PROVE OneReply(c, q)
  <2>1. l.kind = "reply" /\ q > 0
    BY <1>7, LineFacts
  <2>2. \A i \in 1..Len(b) : b[i].line.kind # "auth" /\ b[i].line.kind # "reply"
    BY <1>7 DEF OneReply
  <2>3. \A i \in 1..Len(c) :
          /\ c[i].line.kind # "auth"
          /\ c[i].line.kind = "reply" => q > 0 /\ c[i].line = ReplyLine(q)
    BY <1>1, <1>4, <1>5, <1>7, <2>1, <2>2
  <2>4. \A i \in 1..Len(c) : c[i].line.kind = "reply" /\ ~c[i].end => i = Len(b) + 1
    BY <1>1, <1>4, <1>5, <2>2
  <2> QED BY <1>3, <2>3, <2>4 DEF OneReply
<1> QED BY <1>3, <1>6, <1>7 DEF c

-----------------------------------------------------------------------------
(* The invariant, step by step.                                            *)

USE LinkAssumption

LEMMA InitIInv == Init => IInv
<1> SUFFICES ASSUME Init PROVE IInv
  OBVIOUS
<1> USE DEF Init
<1>1. Stream = << >>
  BY DEF Stream
<1>2. TypeOK
  <2>1. wire \in Seq(Fragments) /\ buf \in Seq(Fragments) /\ delivered \in Seq(1..MaxPushes)
    BY EmptySeq
  <2>2. Len(buf) < BufMax
    BY EmptySeq
  <2>3. answer \in [command : 0..MaxCommands, text : Seq(Fragments), clean : BOOLEAN]
    BY EmptySeq
  <2>4. /\ request \in -1..MaxCommands /\ session \in 0..MaxSessions /\ pushes \in 0..MaxPushes
        /\ commands \in 0..MaxCommands /\ first \in 0..MaxPushes
    OBVIOUS
  <2> QED BY <2>1, <2>2, <2>3, <2>4 DEF TypeOK
<1>3. Ordered
  BY <1>1 DEF Ordered, Follows
<1>4. Room /\ Closed /\ Authenticating /\ CleanSession /\ LiveSession /\ RepliesPaired
  BY DEF Room, Complete, Closed, Authenticating, CleanSession, LiveSession, RepliesPaired
<1> QED BY <1>2, <1>3, <1>4 DEF IInv

LEMMA StreamType ==
  ASSUME TypeOK
  PROVE  /\ wire \in Seq(Fragments) /\ buf \in Seq(Fragments) /\ Stream \in Seq(Fragments)
         /\ Len(Stream) = Len(buf) + Len(wire) /\ Len(buf) \in Nat /\ Len(wire) \in Nat
         /\ \A i \in 1..Len(buf) : Stream[i] = buf[i]
         /\ \A i \in 1..Len(wire) : Stream[Len(buf) + i] = wire[i]
<1>1. wire \in Seq(Fragments) /\ buf \in Seq(Fragments)
  BY DEF TypeOK
<1> QED BY <1>1, Joined DEF Stream

LEMMA CloseStep ==
  ASSUME IInv, Close, pc \in {"idle", "auth", "keys"} \/ ~Complete(buf)
  PROVE  IInv'
<1> USE DEF Close
<1>1. TypeOK'
  <2>1. TypeOK /\ UNCHANGED <<buf, pushes, session, commands, first, clean, delivered, answer>>
    BY DEF IInv, past
  <2>2. wire' \in Seq(Fragments) /\ request' \in -1..MaxCommands
    BY EmptySeq
  <2> QED BY <2>1, <2>2 DEF TypeOK
<1>2. Ordered'
  <2>1. << >> \in Seq(Fragments) /\ Removed(<< >>, wire, 0, Len(wire))
    BY StreamType DEF IInv, Removed
  <2>2. Removed(Stream', Stream, Len(buf) + 0, Len(wire))
    BY <2>1, StreamType, RemovedRight DEF IInv, Stream
  <2>3. Stream' \in Seq(Fragments) /\ Stream \in Seq(Fragments)
    BY <1>1, StreamType DEF IInv, TypeOK, Stream
  <2>4. Follows(Stream', delivered, pushes)
    BY <2>2, <2>3, FollowsRemoved DEF IInv, Ordered
  <2> QED BY <2>4 DEF Ordered, past
<1>3. Closed' /\ Authenticating' /\ CleanSession' /\ LiveSession'
  BY DEF Closed, Authenticating, CleanSession, LiveSession
<1>5. Room'
  BY DEF IInv, Room, Complete
<1>4. RepliesPaired'
  BY DEF IInv, RepliesPaired, past
<1> QED BY <1>1, <1>2, <1>3, <1>4, <1>5 DEF IInv

LEMMA ConnectStep ==
  ASSUME IInv, Connect
  PROVE  IInv'
<1> USE DEF Connect
<1>1. TypeOK'
  <2>1. TypeOK /\ UNCHANGED <<first, clean, delivered, answer>>
    BY DEF IInv, past
  <2>2. session' \in 0..MaxSessions /\ request' \in -1..MaxCommands
    BY <2>1 DEF TypeOK
  <2> QED BY <2>1, <2>2 DEF TypeOK
<1>2. Ordered'
  BY DEF IInv, Ordered, Stream, past
<1>3. wire' = << >> /\ ~listening'
  BY DEF IInv, Closed
<1>4. Authenticating'
  <2>1. Len(wire') = 0 /\ Paired(wire', 1)
    BY <1>3, EmptySeq DEF Paired
  <2> QED BY <1>3, <2>1 DEF Authenticating
<1>5. Room' /\ Closed' /\ CleanSession' /\ LiveSession' /\ RepliesPaired'
  BY DEF IInv, Room, Closed, CleanSession, LiveSession, RepliesPaired, past
<1> QED BY <1>1, <1>2, <1>4, <1>5 DEF IInv

(* Only pc and the request change.                                         *)
LEMMA SendStep ==
  ASSUME IInv, Send
  PROVE  IInv'
<1> USE DEF Send
<1>1. TypeOK'
  BY DEF IInv, TypeOK, past
<1>2. Stream' = Stream /\ UNCHANGED <<conn, clean, delivered, first, pushes, answer>>
  BY DEF Stream, past
<1>3. Ordered' /\ RepliesPaired' /\ Closed' /\ Authenticating'
  BY <1>2 DEF IInv, Ordered, RepliesPaired, Closed, Authenticating, TypeOK
<1>6. LiveSession'
  <2>1. LiveSession
    BY DEF IInv
  <2> QED BY <1>2, <2>1 DEF LiveSession
<1>4. Room'
  BY StreamType DEF IInv, Room, Complete
<1>5. CleanSession'
  BY <1>2 DEF IInv, CleanSession, TypeOK
<1> QED BY <1>1, <1>3, <1>4, <1>5, <1>6 DEF IInv

(* What auth_satellite throws away comes before the end of the telemetry   *)
(* that followed AUTH_OK; a clean session begins with nothing thrown away. *)
LEMMA AuthReadStep ==
  ASSUME IInv, NEW k \in 1..AuthMax, AuthRead(k)
  PROVE  IInv'
<1> USE DEF AuthRead
<1>a. /\ TypeOK /\ wire \in Seq(Fragments) /\ buf \in Seq(Fragments) /\ Len(buf) \in Nat
      /\ Len(wire) \in Nat /\ k \in 1..Len(wire) /\ k \in 1..2 /\ Stream \in Seq(Fragments)
      /\ UNCHANGED <<conn, buf, request, listening, pushes, session, commands, first,
                     delivered, answer>>
  BY StreamType DEF IInv
<1>b. wire' \in Seq(Fragments) /\ Removed(wire', wire, 0, k)
  BY <1>a, RemovedHead
<1>c. /\ Removed(Stream', Stream, Len(buf) + 0, k) /\ Stream' \in Seq(Fragments)
      /\ Len(Stream') = Len(buf) + (Len(wire) - k)
      /\ \A i \in 1..(Len(wire) - k) : Stream'[Len(buf) + i] = wire[i + k]
  <2>1. Removed(buf \o wire', buf \o wire, Len(buf) + 0, k)
    BY <1>a, <1>b, RemovedRight
  <2>2. /\ buf \o wire' \in Seq(Fragments) /\ Len(buf \o wire') = Len(buf) + Len(wire')
        /\ \A i \in 1..Len(wire') : (buf \o wire')[Len(buf) + i] = wire'[i]
    BY <1>a, <1>b, Joined
  <2>3. Len(wire') = Len(wire) - k /\ \A i \in 1..Len(wire') : wire'[i] = wire[i + k]
    BY <1>a, <1>b DEF Removed
  <2>4. Stream' = buf \o wire'
    BY <1>a DEF Stream
  <2> QED BY <2>1, <2>2, <2>3, <2>4 DEF Stream
<1>d. /\ conn # "down" /\ (request # -1 \/ conn # "up")
      /\ Paired(wire, 1) /\ \A i \in 2..Len(wire) : wire[i].line.kind = "push"
      /\ request = -1 => ~listening
      /\ request \in {-1, 0}
      /\ conn = "up" =>
           /\ listening /\ Len(wire) >= 3 /\ Whole(first, wire, 2) /\ EndsWhole(wire)
           /\ \A n \in (first + 1)..pushes : \E i \in 4..Len(wire) : Whole(n, wire, i)
  <2>1. wire # << >>
    BY <1>a, EmptySeq
  <2> QED BY <2>1 DEF IInv, Authenticating
<1>1. TypeOK'
  BY <1>a, <1>b DEF TypeOK
<1>2. Ordered'
  BY <1>a, <1>c, FollowsRemoved DEF IInv, Ordered
<1>3. Room' /\ Authenticating' /\ RepliesPaired'
  BY <1>a DEF IInv, Room, Complete, Authenticating, RepliesPaired
<1>4. Closed'
  BY <1>a, <1>d DEF IInv, Closed
<1>5. CleanSession'
  <2> SUFFICES ASSUME clean'
               PROVE  OneReply(Stream', 0) /\ ~(request' > 0)
    BY DEF CleanSession
  <2>1. buf = << >> /\ wire[k].end /\ Len(buf) = 0
    BY EmptySeq
  <2>2. k = 1
    <3>1. k = 2 => FALSE
      <4>1. k = 2 => k \in (1 + 1)..Len(wire)
        BY <1>a
      <4>2. k = 2 => k > 1 + 1
        BY <4>1, <1>d, <2>1 DEF Paired
      <4> QED BY <4>2
    <3> QED BY <3>1, <1>a
  <2>3. Stream' = wire' /\ Removed(wire', wire, 0, 1) /\ Len(wire') = Len(wire) - 1
        /\ \A i \in 1..Len(wire') : wire'[i] = wire[i + 1]
    BY <1>a, <1>b, <2>1, <2>2 DEF Stream, Removed
  <2>4. Paired(wire', 1 - 1)
    <3>1. 1 \in Nat /\ 0 + 1 <= 1
      OBVIOUS
    <3> QED BY <3>1, <1>a, <1>b, <1>d, <2>3, PairedRemoved
  <2>5. Paired(wire', 0)
    BY <2>4
  <2>6. \A i \in 1..Len(wire') : wire'[i].line.kind = "push"
    BY <1>a, <1>d, <2>3
  <2> QED BY <2>3, <2>5, <2>6, <1>a, <1>d DEF OneReply
<1>6. LiveSession'
  <2> SUFFICES ASSUME conn = "up"
               PROVE  \E e \in 0..Len(Stream') : Keeps(Stream', delivered, first, pushes, e)
    BY <1>a DEF LiveSession
  <2> DEFINE e == Len(buf) + (3 - k)
             q == Len(buf) + 3
  <2>1. e \in 0..Len(Stream') /\ e > 0 /\ e = q - k
    BY <1>a, <1>c, <1>d
  <2>2. Paired(Stream, q)
    <3>1. /\ Len(Stream) = Len(buf) + Len(wire)
          /\ \A i \in 1..Len(wire) : Stream[Len(buf) + i] = wire[i]
      BY StreamType, <1>a
    <3>2. wire[3].end /\ ~Start(wire[3].line).end /\ wire[3] = End(PushLine(first))
      BY <1>d, FragmentFacts DEF Whole
    <3> SUFFICES ASSUME NEW i \in (q + 1)..Len(Stream)
                 PROVE  /\ Stream[i].end => i > q + 1 /\ Stream[i - 1] = Start(Stream[i].line)
                        /\ ~Stream[i].end /\ i < Len(Stream) => Stream[i + 1] = End(Stream[i].line)
      BY DEF Paired
    <3>3. PICK j \in 4..Len(wire) : i = Len(buf) + j
      <4>1. i - Len(buf) \in 4..Len(wire) /\ i = Len(buf) + (i - Len(buf))
        BY <1>a, <3>1
      <4> QED BY <4>1
    <3>4. /\ wire[j].end => wire[j - 1] = Start(wire[j].line)
          /\ ~wire[j].end /\ j < Len(wire) => wire[j + 1] = End(wire[j].line)
      BY <1>a, <1>d DEF Paired
    <3>5. wire[j].end => j # 4
      <4>1. j = 4 /\ wire[j].end => wire[3] = Start(wire[j].line)
        BY <3>4
      <4> QED BY <4>1, <3>2, FragmentFacts
    <3>6. Stream[Len(buf) + j] = wire[j] /\ Stream[Len(buf) + (j - 1)] = wire[j - 1]
          /\ (j < Len(wire) => Stream[Len(buf) + (j + 1)] = wire[j + 1])
      <4>1. /\ j \in 1..Len(wire) /\ j - 1 \in 1..Len(wire)
            /\ (j < Len(wire) => j + 1 \in 1..Len(wire))
        BY <1>a
      <4> QED BY <4>1, <3>1
    <3>7. /\ i - 1 = Len(buf) + (j - 1) /\ i + 1 = Len(buf) + (j + 1)
          /\ (j # 4 => i > q + 1) /\ (i < Len(Stream) => j < Len(wire))
      BY <1>a, <3>1, <3>3
    <3> QED BY <3>3, <3>4, <3>5, <3>6, <3>7
  <2>3. Paired(Stream', e)
    <3>1. q \in Nat /\ (Len(buf) + 0) + k <= q
      BY <1>a
    <3> QED BY <3>1, <2>1, <2>2, <1>a, <1>c, PairedRemoved
  <2>4. EndsWhole(Stream')
    <3>1. Len(wire) - k \in 1..(Len(wire) - k) /\ (Len(wire) - k) + k = Len(wire)
      BY <1>a, <1>d
    <3>2. Stream'[Len(buf) + (Len(wire) - k)] = wire[Len(wire)]
      BY <3>1, <1>c
    <3>3. wire # << >> /\ wire[Len(wire)].end
      BY <1>a, <1>d, EmptySeq DEF EndsWhole
    <3> QED BY <3>2, <3>3, <1>c DEF EndsWhole
  <2>5. Stream'[e] = End(PushLine(first))
    <3>1. 3 - k \in 1..(Len(wire) - k) /\ (3 - k) + k = 3
      BY <1>a, <1>d
    <3>2. Stream'[Len(buf) + (3 - k)] = wire[3]
      BY <3>1, <1>c
    <3> QED BY <3>2, <1>d DEF Whole
  <2>6. ASSUME NEW n \in (first + 1)..pushes
        PROVE  \E i \in (e + 1)..Len(Stream') : Whole(n, Stream', i)
    <3>1. PICK i \in 4..Len(wire) : Whole(n, wire, i)
      BY <1>d, <2>6
    <3>2. /\ i - k \in 1..(Len(wire) - k) /\ (i + 1) - k \in 1..(Len(wire) - k)
          /\ (i - k) + k = i /\ ((i + 1) - k) + k = i + 1
          /\ Len(buf) + (i - k) \in (e + 1)..Len(Stream')
          /\ Len(buf) + ((i + 1) - k) = (Len(buf) + (i - k)) + 1
          /\ (Len(buf) + (i - k)) + 1 <= Len(Stream')
      BY <1>a, <1>c, <3>1 DEF Whole
    <3>3. Stream'[Len(buf) + (i - k)] = wire[i] /\ Stream'[Len(buf) + ((i + 1) - k)] = wire[i + 1]
      BY <1>c, <3>2
    <3>4. Whole(n, Stream', Len(buf) + (i - k))
      BY <3>1, <3>2, <3>3 DEF Whole
    <3> QED BY <3>2, <3>4
  <2>7. Keeps(Stream', delivered, first, pushes, e)
    BY <2>1, <2>3, <2>4, <2>5, <2>6 DEF Keeps
  <2> QED BY <2>1, <2>7
<1> QED BY <1>1, <1>2, <1>3, <1>4, <1>5, <1>6 DEF IInv

(* A line is taken no later than the first newline of a whole line, and in *)
(* a stream of whole lines it is two fragments long.                       *)
LEMMA FirstLineWhole ==
  ASSUME TypeOK, Paired(Stream, 0)
  PROVE  /\ Len(buf) >= 2 => Complete(buf)
         /\ Complete(buf) => LineEnd(buf) = 2 /\ Len(buf) >= 2
<1>1. ASSUME Len(buf) >= 1
      PROVE  ~buf[1].end /\ (Len(buf) >= 2 => buf[2].end)
  <2>1. Len(Stream) >= Len(buf) /\ Stream[1] = buf[1] /\ Len(Stream) \in Nat /\ Len(buf) \in Nat
    BY <1>1, StreamType
  <2>2. ~Stream[1].end
    BY <1>1, <2>1 DEF Paired
  <2>3. Len(Stream) >= 2 => Stream[1 + 1] = End(Stream[1].line)
    BY <2>1, <2>2 DEF Paired
  <2>4. Len(buf) >= 2 => Stream[2] = buf[2]
    BY StreamType
  <2> QED BY <2>1, <2>2, <2>3, <2>4, FragmentFacts
<1>2. Len(buf) \in Nat /\ DOMAIN buf = 1..Len(buf) /\ buf \in Seq(Fragments)
  BY StreamType, SeqFacts
<1>3. Len(buf) >= 2 => Complete(buf)
  BY <1>1, <1>2 DEF Complete
<1>4. ASSUME Complete(buf) PROVE LineEnd(buf) = 2 /\ Len(buf) >= 2
  <2>1. /\ LineEnd(buf) \in 1..Len(buf) /\ buf[LineEnd(buf)].end
        /\ \A i \in 1..(LineEnd(buf) - 1) : ~buf[i].end
    BY <1>2, <1>4, LineEndFacts
  <2>2. LineEnd(buf) # 1
    BY <1>1, <1>2, <2>1
  <2>3. ~(LineEnd(buf) > 2)
    BY <1>1, <1>2, <2>1
  <2> QED BY <1>2, <2>1, <2>2, <2>3
<1> QED BY <1>3, <1>4

(* poll_satellite_push in the main loop, send_cmd_recv with no line left.  *)
Reading(k) ==
  /\ (pc = "idle" /\ conn # "down") \/ (pc = "await" /\ ~Complete(buf))
  /\ k \in 1..ReadMax /\ k <= Len(wire)
  /\ buf' = Store(buf, SubSeq(wire, 1, k))
  /\ wire' = SubSeq(wire, k + 1, Len(wire))
  /\ UNCHANGED <<conn, request, listening, pushes, session, commands, past>>

(* A buffer that is emptied holds but fragments of an earlier session.     *)
LEMMA ReadStream ==
  ASSUME IInv, NEW k, Reading(k)
  PROVE  /\ buf' \in Seq(Fragments) /\ wire' \in Seq(Fragments) /\ Len(buf') < BufMax
         /\ \/ /\ Stream' = Stream /\ Len(buf') = Len(buf) + k
               /\ \A i \in 1..Len(buf) : buf'[i] = buf[i]
            \/ /\ ~Paired(Stream, 0) /\ ~Complete(buf) /\ Len(buf') = k
               /\ Removed(Stream', Stream, 0, Len(buf)) /\ Stream' \in Seq(Fragments)
<1>1. /\ TypeOK /\ wire \in Seq(Fragments) /\ buf \in Seq(Fragments)
      /\ Stream \in Seq(Fragments) /\ k \in 0..Len(wire) /\ k \in 1..ReadMax
      /\ Len(buf) \in Nat /\ Len(wire) \in Nat
  BY StreamType DEF IInv, Reading
<1> DEFINE u == SubSeq(wire, 1, k)
           v == SubSeq(wire, k + 1, Len(wire))
<1>2. u \in Seq(Fragments) /\ v \in Seq(Fragments) /\ Len(u) = k
  <2>1. u \in Seq(Fragments) /\ Removed(u, wire, k, Len(wire) - k)
    BY <1>1, RemovedTail
  <2>2. v \in Seq(Fragments)
    BY <1>1, RemovedHead
  <2> HIDE DEF u, v
  <2>3. Len(u) = Len(wire) - (Len(wire) - k)
    BY <2>1 DEF Removed
  <2> QED BY <2>1, <2>2, <2>3, <1>1
<1>3. (buf \o u) \o v = buf \o wire /\ u \o v = wire
  <2>1. (buf \o u) \o v = buf \o wire
    BY <1>1, Moved
  <2>2. (<< >> \o u) \o v = << >> \o wire /\ << >> \in Seq(Fragments)
    BY <1>1, Moved, EmptySeq
  <2>3. << >> \o u = u /\ << >> \o wire = wire
    BY <1>1, <1>2, ConcatEmptySeq
  <2> QED BY <2>1, <2>2, <2>3
<1>4. buf' = Store(buf, u) /\ wire' = v
  BY DEF Reading
<1> HIDE DEF u, v
<1>5. CASE Len(buf) + k >= BufMax
  <2>1. buf' = u /\ Stream' = wire
    BY <1>2, <1>3, <1>4, <1>5 DEF Store, Stream
  <2>2. k < BufMax
    BY <1>1
  <2>3. ~Complete(buf)
    BY <1>1, <1>5 DEF IInv, Room, Reading
  <2>4. ~Paired(Stream, 0)
    BY <2>3, <1>1, <1>5, FirstLineWhole
  <2>5. Removed(Stream', Stream, 0, Len(buf))
    <3>1. /\ Len(Stream) = Len(buf) + Len(wire)
          /\ \A i \in 1..Len(wire) : Stream[Len(buf) + i] = wire[i]
      BY <1>1, StreamType
    <3>2. \A i \in 1..Len(wire) : wire[i] = Stream[IF i <= 0 THEN i ELSE i + Len(buf)]
      BY <1>1, <3>1
    <3> QED BY <1>1, <2>1, <3>1, <3>2 DEF Removed
  <2> QED BY <1>1, <1>2, <1>4, <2>1, <2>2, <2>3, <2>4, <2>5
<1>6. CASE Len(buf) + k < BufMax
  <2>1. buf' = buf \o u /\ Stream' = Stream
    <3>1. buf' = buf \o u
      BY <1>1, <1>2, <1>4, <1>6 DEF Store
    <3>2. Stream' = (buf \o u) \o v
      BY <3>1, <1>4 DEF Stream
    <3> QED BY <3>1, <3>2, <1>3 DEF Stream
  <2>2. /\ buf \o u \in Seq(Fragments) /\ Len(buf \o u) = Len(buf) + k
        /\ \A i \in 1..Len(buf) : (buf \o u)[i] = buf[i]
    BY <1>1, <1>2, Joined
  <2> QED BY <1>2, <1>4, <1>6, <2>1, <2>2
<1> QED BY <1>1, <1>5, <1>6

LEMMA ReadStep ==
  ASSUME IInv, NEW k, Reading(k), pc' \in {"drain", "await"}, pc' = "await" <=> pc = "await"
  PROVE  IInv'
<1>1. /\ TypeOK /\ Stream \in Seq(Fragments) /\ Len(buf) \in Nat /\ k \in 1..ReadMax
      /\ buf \in Seq(Fragments)
      /\ UNCHANGED <<conn, request, listening, pushes, session, commands, first, clean,
                     delivered, answer>>
  BY StreamType DEF IInv, Reading, past
<1>2. /\ buf' \in Seq(Fragments) /\ wire' \in Seq(Fragments) /\ Len(buf') < BufMax
      /\ \/ /\ Stream' = Stream /\ Len(buf') = Len(buf) + k
            /\ \A i \in 1..Len(buf) : buf'[i] = buf[i]
         \/ /\ ~Paired(Stream, 0) /\ ~Complete(buf) /\ Len(buf') = k
            /\ Removed(Stream', Stream, 0, Len(buf)) /\ Stream' \in Seq(Fragments)
  BY ReadStream
<1>3. TypeOK'
  BY <1>1, <1>2 DEF TypeOK
<1>4. Ordered'
  <2>1. CASE Stream' = Stream
    BY <1>1, <2>1 DEF IInv, Ordered
  <2>2. CASE Removed(Stream', Stream, 0, Len(buf)) /\ Stream' \in Seq(Fragments)
    BY <1>1, <2>2, FollowsRemoved DEF IInv, Ordered
  <2> QED BY <1>2, <2>1, <2>2
<1>5. Room'
  <2> SUFFICES ASSUME pc = "await", NEW i \in 1..Len(buf'), buf'[i].end
               PROVE  Len(buf') - i < ReadMax
    BY DEF Room
  <2>1. ~Complete(buf) /\ DOMAIN buf = 1..Len(buf)
    BY <1>1, SeqFacts DEF Reading
  <2>2. CASE Len(buf') = k
    BY <2>2, <1>1
  <2>3. CASE Len(buf') = Len(buf) + k /\ \A j \in 1..Len(buf) : buf'[j] = buf[j]
    <3>1. ~(i \in 1..Len(buf))
      BY <2>1, <2>3 DEF Complete
    <3> QED BY <2>3, <3>1, <1>1
  <2> QED BY <1>2, <2>2, <2>3
<1>6. Closed' /\ Authenticating' /\ RepliesPaired'
  BY <1>1 DEF IInv, Closed, Authenticating, RepliesPaired, Reading
<1>7. CleanSession'
  <2> SUFFICES ASSUME clean, conn # "down"
               PROVE  /\ OneReply(Stream', IF pc' = "await" /\ request = 0 THEN commands ELSE 0)
                      /\ request > 0 => pc' = "await" /\ request = commands
    BY <1>1 DEF CleanSession
  <2>1. /\ OneReply(Stream, IF pc = "await" /\ request = 0 THEN commands ELSE 0)
        /\ request > 0 => pc = "await" /\ request = commands
    BY DEF IInv, CleanSession, Reading
  <2>2. Stream' = Stream
    BY <1>2, <2>1 DEF OneReply
  <2> QED BY <2>1, <2>2
<1>8. LiveSession'
  <2> SUFFICES ASSUME conn = "up"
               PROVE  \E e \in 0..Len(Stream') : Keeps(Stream', delivered, first, pushes, e)
    BY <1>1 DEF LiveSession
  <2>1. PICK e \in 0..Len(Stream) : Keeps(Stream, delivered, first, pushes, e)
    BY DEF IInv, LiveSession, Reading
  <2>2. CASE Stream' = Stream
    BY <2>1, <2>2
  <2>3. CASE ~Paired(Stream, 0) /\ ~Complete(buf)
             /\ Removed(Stream', Stream, 0, Len(buf)) /\ Stream' \in Seq(Fragments)
    <3>1. e > 0 /\ Stream[e].end
      BY <2>1, <2>3, FragmentFacts DEF Keeps
    <3>2. ~(e <= Len(buf))
      <4>1. e \in 1..Len(buf) => buf[e].end
        BY <3>1, <1>1, StreamType
      <4> QED BY <4>1, <2>1, <2>3, <3>1, <1>1, SeqFacts DEF Complete
    <3>3. Len(buf) <= e
      BY <3>2, <2>1, <1>1
    <3>4. Keeps(Stream', delivered, first, pushes, e - Len(buf))
      <4>1. Includes(delivered, delivered)
        BY DEF Includes
      <4> QED BY <4>1, <2>1, <2>3, <3>3, <1>1, KeepsRemoved
    <3> QED BY <3>4 DEF Keeps
  <2> QED BY <1>2, <2>2, <2>3
<1> QED BY <1>3, <1>4, <1>5, <1>6, <1>7, <1>8 DEF IInv

(* Drain, and send_cmd_recv with a line in the buffer.                     *)
Taking ==
  /\ pc \in {"drain", "await"} /\ Complete(buf)
  /\ buf' = Rest(buf)
  /\ UNCHANGED <<conn, remote, session, commands, first, clean>>

LEMMA TakeStream ==
  ASSUME IInv, Taking
  PROVE  /\ LineEnd(buf) \in 1..Len(buf) /\ buf[LineEnd(buf)].end
         /\ buf' \in Seq(Fragments) /\ Removed(buf', buf, 0, LineEnd(buf))
         /\ Stream' \in Seq(Fragments) /\ Removed(Stream', Stream, 0, LineEnd(buf))
         /\ FirstLine(buf) \in Seq(Fragments) /\ Len(FirstLine(buf)) = LineEnd(buf)
         /\ \A i \in 1..LineEnd(buf) : FirstLine(buf)[i] = Stream[i] /\ buf[i] = Stream[i]
<1> DEFINE q == LineEnd(buf)
<1>1. TypeOK /\ buf \in Seq(Fragments) /\ wire \in Seq(Fragments) /\ Complete(buf)
      /\ wire' = wire /\ Len(buf) \in Nat /\ Len(wire) \in Nat
  BY StreamType DEF IInv, Taking, remote
<1>2. q \in 1..Len(buf) /\ buf[q].end
  BY <1>1, LineEndFacts
<1> HIDE DEF q
<1>3. /\ SubSeq(buf, q + 1, Len(buf)) \in Seq(Fragments)
      /\ Removed(SubSeq(buf, q + 1, Len(buf)), buf, 0, q)
  BY <1>1, <1>2, RemovedHead
<1>4. buf' = SubSeq(buf, q + 1, Len(buf))
  BY DEF Taking, Rest, q
<1>5. Removed(buf' \o wire, buf \o wire, 0, q) /\ buf' \o wire \in Seq(Fragments)
  <2>1. 0 + q <= Len(buf) /\ buf' \in Seq(Fragments) /\ Removed(buf', buf, 0, q)
    BY <1>1, <1>2, <1>3, <1>4
  <2> QED BY <2>1, <1>1, RemovedLeft, Joined
<1>6. FirstLine(buf) \in Seq(Fragments) /\ Removed(FirstLine(buf), buf, q, Len(buf) - q)
  BY <1>1, <1>2, RemovedTail DEF FirstLine, q
<1>7. Len(FirstLine(buf)) = q /\ \A i \in 1..q : FirstLine(buf)[i] = buf[i]
  <2> DEFINE t == FirstLine(buf)
  <2> HIDE DEF t
  <2>1. Removed(t, buf, q, Len(buf) - q)
    BY <1>6 DEF t
  <2>2. Len(t) = q
    BY <2>1, <1>1, <1>2 DEF Removed
  <2>3. \A i \in 1..q : t[i] = buf[i]
    BY <2>1, <2>2, <1>2 DEF Removed
  <2> QED BY <2>2, <2>3 DEF t
<1>8. \A i \in 1..q : buf[i] = Stream[i]
  BY <1>1, <1>2, StreamType
<1> QED BY <1>1, <1>2, <1>3, <1>4, <1>5, <1>6, <1>7, <1>8 DEF q, Stream

(* What Handled adds: nothing, or the number of the push the line is.      *)
LEMMA HandledFacts ==
  ASSUME IInv, Taking
  PROVE  /\ \/ Handled(FirstLine(buf)) = << >>
            \/ IsStart(Stream[1]) /\ Handled(FirstLine(buf)) = <<Stream[1].line.n>>
         /\ LineEnd(buf) = 2 /\ Stream[1].line.kind = "push" /\ Stream[1] = Start(Stream[1].line)
               /\ Stream[2] = End(Stream[1].line)
              => IsPush(FirstLine(buf)) /\ Handled(FirstLine(buf)) = <<Stream[1].line.n>>
<1> DEFINE t == FirstLine(buf)
<1>1. /\ LineEnd(buf) \in Nat /\ LineEnd(buf) >= 1
      /\ t \in Seq(Fragments) /\ Len(t) = LineEnd(buf)
      /\ \A i \in 1..LineEnd(buf) : t[i] = Stream[i]
  BY TakeStream, StreamType DEF IInv
<1> HIDE DEF t
<1>2. t[1] = Stream[1]
  BY <1>1
<1>3. Handled(t) = << >> \/ (IsStart(Stream[1]) /\ Handled(t) = <<Stream[1].line.n>>)
  <2>1. Handled(t) = << >> \/ (IsPush(t) /\ Handled(t) = <<t[1].line.n>>)
    BY DEF Handled
  <2>2. IsPush(t) => IsStart(t[1])
    BY DEF IsPush, IsStart
  <2> QED BY <1>2, <2>1, <2>2
<1>4. ASSUME LineEnd(buf) = 2, Stream[1].line.kind = "push",
             Stream[1] = Start(Stream[1].line), Stream[2] = End(Stream[1].line)
      PROVE  IsPush(t) /\ Handled(t) = <<Stream[1].line.n>>
  <2>1. IsPush(t)
    BY <1>2, <1>4, FragmentFacts DEF IsPush
  <2>2. Len(t) = 2 /\ t[1] = Start(t[1].line) /\ t[2] = End(t[1].line)
    BY <1>1, <1>2, <1>4
  <2>3. t = Text(t[1].line)
    <3>1. t[1].line \in LineSet
      BY <1>1, <2>2, SeqFacts
    <3> DEFINE l == t[1].line
               x == Text(l)
    <3>2. x \in Seq(Fragments) /\ Len(x) = 2 /\ x[1] = Start(l) /\ x[2] = End(l)
      BY <3>1, FragmentFacts
    <3> HIDE DEF x, l
    <3>3. Len(t) = Len(x) /\ \A i \in 1..Len(t) : t[i] = x[i]
      BY <2>2, <3>2 DEF l
    <3>4. t = x
      BY <1>1, <3>2, <3>3, SeqEqual
    <3> QED BY <3>4 DEF x, l
  <2> QED BY <1>2, <2>1, <2>3 DEF Handled
<1> QED BY <1>3, <1>4 DEF t

LEMMA TakeStep ==
  ASSUME IInv, Taking, delivered' = delivered \o Handled(FirstLine(buf))
  PROVE  /\ delivered' \in Seq(1..MaxPushes) /\ Len(buf') < BufMax
         /\ Ordered' /\ (pc' # "auth" => LiveSession')
         /\ Includes(delivered', delivered)
<1> DEFINE q == LineEnd(buf)
<1>1. /\ TypeOK /\ Stream \in Seq(Fragments) /\ Len(Stream) \in Nat /\ Len(buf) \in Nat
      /\ Len(Stream) >= Len(buf) /\ buf \in Seq(Fragments)
      /\ delivered \in Seq(1..MaxPushes) /\ pushes \in Nat
      /\ UNCHANGED <<conn, wire, pushes, first>>
  BY StreamType DEF IInv, Taking, remote, TypeOK
<1>2. /\ q \in 1..Len(buf) /\ buf[q].end /\ buf' \in Seq(Fragments)
      /\ Removed(buf', buf, 0, q)
      /\ Stream' \in Seq(Fragments) /\ Removed(Stream', Stream, 0, q)
      /\ \A i \in 1..q : buf[i] = Stream[i]
  BY TakeStream
<1> HIDE DEF q
<1>3. /\ delivered' \in Seq(1..MaxPushes) /\ Ordered'
      /\ Includes(delivered', delivered)
  <2>1. CASE Handled(FirstLine(buf)) = << >>
    <3>1. delivered' = delivered
      BY <1>1, <2>1, ConcatEmptySeq
    <3>2. Follows(Stream', delivered, pushes)
      BY <1>1, <1>2, FollowsRemoved DEF IInv, Ordered
    <3> QED BY <1>1, <3>1, <3>2 DEF Ordered, Includes
  <2>2. CASE IsStart(Stream[1]) /\ Handled(FirstLine(buf)) = <<Stream[1].line.n>>
    <3> DEFINE n == Stream[1].line.n
    <3>1. delivered' = delivered \o <<n>>
      BY <2>2
    <3>2. Stream[1].line \in LineSet /\ n \in 1..MaxPushes
      BY <1>1, <1>2, <2>2, SeqFacts, LineFacts DEF IsStart
    <3>3. Follows(Stream', delivered \o <<n>>, pushes)
      <4>1. q \in Nat \ {0} /\ Len(Stream) > 0 /\ Follows(Stream, delivered, pushes)
        BY <1>1, <1>2 DEF IInv, Ordered
      <4> QED BY <4>1, <1>1, <1>2, <2>2, FollowsTake
    <3> HIDE DEF n
    <3>4. /\ delivered \o <<n>> \in Seq(1..MaxPushes)
          /\ DOMAIN (delivered \o <<n>>) = 1..(Len(delivered) + 1)
          /\ Len(delivered) \in Nat /\ DOMAIN delivered = 1..Len(delivered)
          /\ \A j \in 1..Len(delivered) : (delivered \o <<n>>)[j] = delivered[j]
      BY <1>1, <3>2, OneMore
    <3>5. \A j \in DOMAIN delivered :
            j \in DOMAIN (delivered \o <<n>>) /\ (delivered \o <<n>>)[j] = delivered[j]
      BY <3>4
    <3>6. Follows(Stream', delivered', pushes') /\ delivered' \in Seq(1..MaxPushes)
      BY <1>1, <3>1, <3>3, <3>4
    <3> QED BY <3>1, <3>5, <3>6, Zenon DEF Ordered, Includes
  <2> QED BY <2>1, <2>2, HandledFacts
<1>4. Len(buf') < BufMax
  BY <1>1, <1>2 DEF Removed, TypeOK
<1>5. ASSUME pc' # "auth" PROVE LiveSession'
  <2> SUFFICES ASSUME conn = "up"
               PROVE  \E e \in 0..Len(Stream') : Keeps(Stream', delivered', first, pushes, e)
    BY <1>1 DEF LiveSession
  <2>1. PICK e \in 0..Len(Stream) : Keeps(Stream, delivered, first, pushes, e)
    BY DEF IInv, LiveSession, Taking
  <2>2. CASE q <= e
    <3>1. Keeps(Stream', delivered', first, pushes, e - q)
      BY <2>1, <2>2, <1>1, <1>2, <1>3, KeepsRemoved
    <3> QED BY <3>1 DEF Keeps
  <2>3. CASE e < q
    <3>1. e = 0
      <4>1. e > 0 => Stream[e].end
        BY <2>1, FragmentFacts DEF Keeps
      <4>2. e > 0 => e \in 1..(q - 1) /\ buf[e] = Stream[e]
        BY <1>1, <1>2, <2>1, <2>3
      <4>3. \A i \in 1..(q - 1) : ~buf[i].end
        BY <1>1, LineEndFacts DEF Taking, q
      <4> QED BY <2>1, <4>1, <4>2, <4>3
    <3>2. Paired(Stream, 0) /\ Keeps(Stream, delivered, first, pushes, 0)
      BY <2>1, <3>1 DEF Keeps
    <3>3. q = 2 /\ Len(Stream) >= 2
      BY <1>1, <3>2, FirstLineWhole DEF Taking, q
    <3>4. Stream[1] = Start(Stream[1].line) /\ Stream[2] = End(Stream[1].line)
      BY <1>1, <1>2, <3>2, <3>3, PairedTake
    <3>5. Stream[1].line.kind = "push" => \E i \in DOMAIN delivered' : delivered'[i] = Stream[1].line.n
      <4> SUFFICES ASSUME Stream[1].line.kind = "push"
                   PROVE  \E i \in DOMAIN delivered' : delivered'[i] = Stream[1].line.n
        OBVIOUS
      <4> DEFINE n == Stream[1].line.n
      <4>1. delivered' = delivered \o <<n>>
        BY <3>3, <3>4, HandledFacts DEF q
      <4>2. n \in 1..MaxPushes
        BY <1>1, <3>3, SeqFacts, LineFacts
      <4> HIDE DEF n
      <4>3. /\ DOMAIN (delivered \o <<n>>) = 1..(Len(delivered) + 1) /\ Len(delivered) \in Nat
            /\ (delivered \o <<n>>)[Len(delivered) + 1] = n
        BY <1>1, <4>2, OneMore
      <4>4. Len(delivered) + 1 \in DOMAIN delivered' /\ delivered'[Len(delivered) + 1] = n
        BY <4>1, <4>3
      <4> QED BY <4>4 DEF n
    <3>6. Keeps(Stream', delivered', first, pushes, 0)
      BY <1>1, <1>2, <1>3, <3>2, <3>3, <3>5, KeepsTake
    <3> QED BY <3>6 DEF Keeps
  <2> QED BY <1>1, <1>2, <2>1, <2>2, <2>3
<1> QED BY <1>3, <1>4, <1>5

(* In a clean session the line taken is a push, or the one reply.          *)
LEMMA TakeClean ==
  ASSUME IInv, Taking, clean, conn # "down"
  PROVE  LET r == IF pc = "await" /\ request = 0 THEN commands ELSE 0
         IN  /\ IsPush(FirstLine(buf)) => OneReply(Stream', r)
             /\ ~IsPush(FirstLine(buf)) =>
                  /\ OneReply(Stream', 0) /\ r > 0 /\ Stream[1].line = ReplyLine(r)
                  /\ FirstLine(buf) = Text(ReplyLine(r))
<1> DEFINE r == IF pc = "await" /\ request = 0 THEN commands ELSE 0
           t == FirstLine(buf)
<1>1. /\ TypeOK /\ Stream \in Seq(Fragments) /\ Stream' \in Seq(Fragments)
      /\ Len(Stream) >= Len(buf) /\ Len(Stream) \in Nat /\ Len(buf) \in Nat
  BY StreamType, TakeStream DEF IInv
<1>2. OneReply(Stream, r)
  BY DEF IInv, CleanSession, Taking
<1> HIDE DEF r, t
<1>3. LineEnd(buf) = 2 /\ Len(buf) >= 2
  BY <1>1, <1>2, FirstLineWhole DEF OneReply, Taking
<1>4. /\ Removed(Stream', Stream, 0, 2) /\ Len(Stream) >= 2
      /\ t \in Seq(Fragments) /\ Len(t) = 2 /\ t[1] = Stream[1] /\ t[2] = Stream[2]
  BY <1>1, <1>3, TakeStream DEF t
<1>5. /\ Stream[1] = Start(Stream[1].line) /\ Stream[2] = End(Stream[1].line) /\ ~Stream[1].end
      /\ Stream[1].line.kind = "push" => OneReply(Stream', r)
      /\ Stream[1].line.kind # "push" =>
           OneReply(Stream', 0) /\ r > 0 /\ Stream[1].line = ReplyLine(r)
  BY <1>1, <1>2, <1>4, OneReplyTake
<1>6. IsPush(t) <=> Stream[1].line.kind = "push"
  BY <1>4, <1>5 DEF IsPush
<1>7. Stream[1].line = ReplyLine(r) => t = Text(ReplyLine(r))
  <2> SUFFICES ASSUME Stream[1].line = ReplyLine(r) PROVE t = Text(ReplyLine(r))
    OBVIOUS
  <2> DEFINE x == Text(ReplyLine(r))
  <2>1. ReplyLine(r) \in LineSet
    BY <1>1, <1>4, SeqFacts
  <2>2. x \in Seq(Fragments) /\ Len(x) = 2 /\ x[1] = Stream[1] /\ x[2] = Stream[2]
    BY <2>1, <1>5, FragmentFacts
  <2> HIDE DEF x
  <2>3. Len(t) = Len(x) /\ \A i \in 1..Len(t) : t[i] = x[i]
    BY <1>4, <2>2
  <2>4. t = x
    BY <1>4, <2>2, <2>3, SeqEqual
  <2> QED BY <2>4 DEF x
<1> QED BY <1>5, <1>6, <1>7 DEF r, t

LEMMA DrainStep ==
  ASSUME IInv, Drain
  PROVE  IInv'
<1>1. CASE ~Complete(buf)
  <2>1. /\ pc = "drain" /\ pc' = "keys"
        /\ UNCHANGED <<conn, buf, wire, request, listening, pushes, session, commands,
                       first, clean, delivered, answer>>
    BY <1>1 DEF Drain, remote
  <2>2. Stream' = Stream
    BY <2>1 DEF Stream
  <2>3. TypeOK' /\ Closed' /\ Authenticating' /\ RepliesPaired' /\ Ordered'
    BY <2>1, <2>2 DEF IInv, TypeOK, Closed, Authenticating, RepliesPaired, Ordered
  <2>4. Room'
    BY <1>1, <2>1 DEF Room, Complete
  <2>5. CleanSession'
    BY <2>1, <2>2 DEF IInv, CleanSession
  <2>6. LiveSession'
    <3>1. LiveSession
      BY DEF IInv
    <3> QED BY <3>1, <2>1, <2>2 DEF LiveSession
  <2> QED BY <2>3, <2>4, <2>5, <2>6 DEF IInv
<1>2. CASE Complete(buf)
  <2>1. /\ Taking /\ delivered' = delivered \o Handled(FirstLine(buf))
        /\ pc = "drain" /\ pc' = pc
        /\ UNCHANGED <<conn, wire, request, listening, pushes, session, commands,
                       first, clean, answer>>
    BY <1>2 DEF Drain, Taking, remote
  <2>2. /\ delivered' \in Seq(1..MaxPushes) /\ Len(buf') < BufMax /\ buf' \in Seq(Fragments)
        /\ Ordered' /\ LiveSession'
    BY <2>1, TakeStep, TakeStream
  <2>3. TypeOK' /\ Closed' /\ Authenticating' /\ RepliesPaired' /\ Room'
    BY <2>1, <2>2 DEF IInv, TypeOK, Closed, Authenticating, RepliesPaired, Room
  <2>4. CleanSession'
    <3> SUFFICES ASSUME clean, conn # "down"
                 PROVE  OneReply(Stream', 0) /\ ~(request > 0)
      BY <2>1 DEF CleanSession
    <3>1. OneReply(Stream', 0)
      BY <2>1, TakeClean
    <3> QED BY <2>1, <3>1 DEF IInv, CleanSession
  <2> QED BY <2>2, <2>3, <2>4 DEF IInv
<1> QED BY <1>1, <1>2

LEMMA AwaitPushStep ==
  ASSUME IInv, AwaitPush
  PROVE  IInv'
<1>1. /\ Taking /\ delivered' = delivered \o Handled(FirstLine(buf))
      /\ pc = "await" /\ pc' = pc /\ IsPush(FirstLine(buf))
      /\ UNCHANGED <<conn, wire, request, listening, pushes, session, commands,
                     first, clean, answer>>
  BY DEF AwaitPush, Taking, remote
<1>2. /\ delivered' \in Seq(1..MaxPushes) /\ Len(buf') < BufMax /\ buf' \in Seq(Fragments)
      /\ Ordered' /\ LiveSession'
  BY <1>1, TakeStep, TakeStream
<1>3. TypeOK' /\ Closed' /\ Authenticating' /\ RepliesPaired'
  BY <1>1, <1>2 DEF IInv, TypeOK, Closed, Authenticating, RepliesPaired
<1>4. Room'
  <2> SUFFICES ASSUME NEW i \in 1..Len(buf'), buf'[i].end PROVE Len(buf') - i < ReadMax
    BY <1>1 DEF Room
  <2> DEFINE q == LineEnd(buf)
  <2>1. /\ q \in Nat /\ Len(buf) \in Nat /\ Len(buf') \in Nat
        /\ Len(buf') = Len(buf) - q /\ buf'[i] = buf[i + q]
    <3>1. Removed(buf', buf, 0, q) /\ q \in 1..Len(buf)
      BY <1>1, TakeStream
    <3>2. Len(buf) \in Nat /\ Len(buf') \in Nat
      BY <1>2, StreamType, SeqFacts DEF IInv
    <3> HIDE DEF q
    <3> QED BY <3>1, <3>2 DEF Removed
  <2> HIDE DEF q
  <2>2. i + q \in 1..Len(buf) /\ buf[i + q].end
    BY <2>1
  <2>3. Len(buf) - (i + q) < ReadMax
    BY <1>1, <2>2 DEF IInv, Room
  <2> QED BY <2>1, <2>3
<1>5. CleanSession'
  <2> SUFFICES ASSUME clean, conn # "down"
               PROVE  /\ OneReply(Stream', IF request = 0 THEN commands ELSE 0)
                      /\ request > 0 => request = commands
    BY <1>1 DEF CleanSession
  <2>1. OneReply(Stream', IF request = 0 THEN commands ELSE 0)
    BY <1>1, TakeClean
  <2> QED BY <1>1, <2>1 DEF IInv, CleanSession
<1> QED BY <1>2, <1>3, <1>4, <1>5 DEF IInv

(* The one reply of a clean session is that of the command that waits.     *)
LEMMA AwaitReplyStep ==
  ASSUME IInv, AwaitReply
  PROVE  IInv'
<1>1. /\ Taking /\ delivered' = delivered
      /\ pc = "await" /\ pc' = "keys" /\ ~IsPush(FirstLine(buf))
      /\ answer' = [command |-> commands, text |-> FirstLine(buf), clean |-> clean]
      /\ UNCHANGED <<conn, wire, request, listening, pushes, session, commands,
                     first, clean>>
  BY DEF AwaitReply, Taking, remote
<1>2. delivered' = delivered \o Handled(FirstLine(buf))
  <2>1. Handled(FirstLine(buf)) = << >>
    BY <1>1 DEF Handled
  <2> QED BY <1>1, <2>1, ConcatEmptySeq DEF IInv, TypeOK
<1>3. /\ delivered' \in Seq(1..MaxPushes) /\ Len(buf') < BufMax /\ buf' \in Seq(Fragments)
      /\ Ordered' /\ LiveSession' /\ FirstLine(buf) \in Seq(Fragments)
  BY <1>1, <1>2, TakeStep, TakeStream
<1>4. TypeOK'
  <2>1. answer' \in [command : 0..MaxCommands, text : Seq(Fragments), clean : BOOLEAN]
    BY <1>1, <1>3 DEF IInv, TypeOK
  <2> QED BY <1>1, <1>3, <2>1 DEF IInv, TypeOK
<1>5. Closed' /\ Authenticating'
  BY <1>1 DEF IInv, Closed, Authenticating
<1>6. Room'
  <2> DEFINE q == LineEnd(buf)
  <2>1. /\ q \in 1..Len(buf) /\ buf[q].end /\ Len(buf') = Len(buf) - q
    BY <1>1, TakeStream DEF Removed
  <2> HIDE DEF q
  <2>2. Len(buf) - q < ReadMax
    BY <1>1, <2>1 DEF IInv, Room
  <2> QED BY <1>1, <2>1, <2>2 DEF Room
<1>7. CleanSession' /\ RepliesPaired'
  <2>1. ASSUME clean
        PROVE  /\ OneReply(Stream', 0) /\ ~(request > 0)
               /\ FirstLine(buf) = Text(ReplyLine(commands))
    <3>1. conn # "down"
      BY <1>1 DEF IInv, Closed
    <3> DEFINE r == IF pc = "await" /\ request = 0 THEN commands ELSE 0
    <3>2. OneReply(Stream', 0) /\ r > 0 /\ FirstLine(buf) = Text(ReplyLine(r))
      BY <1>1, <2>1, <3>1, TakeClean
    <3>3. request = 0 /\ r = commands
      BY <3>2
    <3> QED BY <3>2, <3>3
  <2>2. CleanSession'
    BY <1>1, <2>1 DEF CleanSession
  <2>3. RepliesPaired'
    BY <1>1, <2>1 DEF RepliesPaired
  <2> QED BY <2>2, <2>3
<1> QED BY <1>3, <1>4, <1>5, <1>6, <1>7 DEF IInv

-----------------------------------------------------------------------------
(* The satellite and the network.                                          *)

LEMMA SatelliteAuthStep ==
  ASSUME IInv, SatelliteAuth
  PROVE  IInv'
<1> USE DEF SatelliteAuth
<1> DEFINE l == PushLine(pushes + 1)
           w == wire \o <<AuthOk>>
<1>1. /\ TypeOK /\ pc = "auth" /\ ~listening /\ wire = << >> /\ buf \in Seq(Fragments)
      /\ pushes \in Nat /\ pushes + 1 \in 1..MaxPushes /\ Stream \in Seq(Fragments)
      /\ UNCHANGED <<pc, conn, buf, session, commands, clean, delivered, answer>>
  BY StreamType DEF IInv, TypeOK, Closed, Authenticating, local
<1>2. l \in LineSet
  BY <1>1, LineFacts
<1>3. w \in Seq(Fragments) /\ Len(w) = 1 /\ w[1] = AuthOk
  <2>1. <<AuthOk>> \in Seq(Fragments) /\ Len(<<AuthOk>>) = 1 /\ <<AuthOk>>[1] = AuthOk
    BY LineFacts
  <2>2. w = <<AuthOk>>
    BY <1>1, <2>1, ConcatEmptySeq
  <2> QED BY <2>1, <2>2
<1>4. wire' = w \o Text(l)
  BY DEF Push
<1> HIDE DEF w, l
<1>5. /\ wire' \in Seq(Fragments) /\ Len(wire') = 3 /\ wire'[1] = AuthOk
      /\ wire'[2] = Start(l) /\ wire'[3] = End(l)
  <2>1. /\ wire' \in Seq(Fragments) /\ Len(wire') = Len(w) + 2
        /\ \A i \in 1..Len(w) : wire'[i] = w[i]
        /\ wire'[Len(w) + 1] = Start(l) /\ wire'[Len(w) + 2] = End(l)
    <3>1. /\ w \o Text(l) \in Seq(Fragments) /\ Len(w \o Text(l)) = Len(w) + 2
          /\ \A i \in 1..Len(w) : (w \o Text(l))[i] = w[i]
          /\ (w \o Text(l))[Len(w) + 1] = Start(l) /\ (w \o Text(l))[Len(w) + 2] = End(l)
      BY <1>2, <1>3, TextAdded
    <3> QED BY <3>1, <1>4, Zenon
  <2>2. Len(w) + 1 = 2 /\ Len(w) + 2 = 3 /\ 1 \in 1..Len(w)
    BY <1>3
  <2> QED BY <1>3, <2>1, <2>2
<1>6. Paired(wire', 1) /\ EndsWhole(wire')
  <2>1. Paired(w, 1)
    BY <1>3 DEF Paired
  <2>2. 1 \in 0..Len(w) /\ ~(1 < Len(w))
    BY <1>3
  <2> QED BY <1>2, <1>3, <1>4, <2>1, <2>2, PairedAdded
<1>7. Ordered'
  <2>1. <<AuthOk>> \in Seq(Fragments) /\ \A i \in 1..Len(<<AuthOk>>) : ~IsStart(<<AuthOk>>[i])
    BY LineFacts DEF IsStart
  <2>2. Follows(Stream \o <<AuthOk>>, delivered, pushes) /\ Stream \o <<AuthOk>> \in Seq(Fragments)
    <3> DEFINE a == <<AuthOk>>
    <3> HIDE DEF a
    <3>1. a \in Seq(Fragments) /\ \A i \in 1..Len(a) : ~IsStart(a[i])
      BY <2>1 DEF a
    <3>2. Follows(Stream, delivered, pushes)
      BY DEF IInv, Ordered
    <3>3. Follows(Stream \o a, delivered, pushes) /\ Stream \o a \in Seq(Fragments)
      BY <1>1, <3>1, <3>2, FollowsQuiet, Joined
    <3> QED BY <3>3 DEF a
  <2>3. Follows((Stream \o <<AuthOk>>) \o Push(pushes + 1), delivered, pushes + 1)
    <3> DEFINE x == Stream \o <<AuthOk>>
    <3> HIDE DEF x
    <3>1. x \in Seq(Fragments) /\ Follows(x, delivered, pushes)
      BY <2>2 DEF x
    <3>2. delivered \in Seq(1..MaxPushes) /\ pushes + 1 <= MaxPushes
      BY <1>1 DEF TypeOK
    <3>3. Follows(x \o Push(pushes + 1), delivered, pushes + 1)
      BY <1>1, <3>1, <3>2, FollowsPush
    <3> QED BY <3>3 DEF x
  <2>4. Stream' = (Stream \o <<AuthOk>>) \o Push(pushes + 1)
    <3> DEFINE p == Push(pushes + 1)
               a == <<AuthOk>>
    <3>1. p \in Seq(Fragments) /\ a \in Seq(Fragments) /\ wire \in Seq(Fragments)
      BY <1>2, <2>1, StreamType, <1>1, FragmentFacts DEF Push, l
    <3>2. Stream' = buf \o ((wire \o a) \o p) /\ Stream = buf \o wire
      BY <1>1 DEF Stream
    <3> HIDE DEF p, a
    <3>3. buf \o ((wire \o a) \o p) = ((buf \o wire) \o a) \o p
      BY <1>1, <3>1
    <3> QED BY <3>2, <3>3 DEF p, a
  <2> QED BY <1>1, <2>3, <2>4 DEF Ordered
<1>8. TypeOK'
  BY <1>1, <1>5 DEF TypeOK
<1>9. Room' /\ Closed' /\ CleanSession' /\ LiveSession' /\ RepliesPaired'
  BY <1>1 DEF IInv, Room, Complete, Closed, CleanSession, LiveSession, RepliesPaired
<1>10. Authenticating'
  <2>1. \A i \in 2..Len(wire') : wire'[i].line.kind = "push"
    <3>1. \A i \in 2..Len(wire') : i = 2 \/ i = 3
      BY <1>5
    <3> QED BY <3>1, <1>5, FragmentFacts, LineFacts DEF l
  <2>2. Whole(first', wire', 2)
    BY <1>5 DEF Whole, l
  <2>3. \A n \in (first' + 1)..pushes' : FALSE
    BY <1>1
  <2> QED BY <1>1, <1>5, <1>6, <2>1, <2>2, <2>3 DEF Authenticating
<1> QED BY <1>7, <1>8, <1>9, <1>10 DEF IInv

(* A push and a reply, each added to the stream.                           *)
LEMMA Added ==
  ASSUME TypeOK, NEW l \in LineSet, wire' = wire \o Text(l), buf' = buf
  PROVE  wire' \in Seq(Fragments) /\ Stream' = Stream \o Text(l) /\ Stream' \in Seq(Fragments)
<1>1. /\ wire \in Seq(Fragments) /\ buf \in Seq(Fragments) /\ Stream \in Seq(Fragments)
      /\ Text(l) \in Seq(Fragments)
  BY StreamType, FragmentFacts
<1>2. buf \o (wire \o Text(l)) = (buf \o wire) \o Text(l)
  <2> DEFINE t == Text(l)
  <2>1. t \in Seq(Fragments)
    BY <1>1
  <2> HIDE DEF t
  <2>2. buf \o (wire \o t) = (buf \o wire) \o t
    BY <1>1, <2>1
  <2> QED BY <2>2 DEF t
<1> QED BY <1>1, <1>2, TextAdded DEF Stream

LEMMA SatellitePushStep ==
  ASSUME IInv, SatellitePush
  PROVE  IInv'
<1> USE DEF SatellitePush
<1> DEFINE l == PushLine(pushes + 1)
<1>1. /\ TypeOK /\ conn = "up" /\ listening /\ pushes \in Nat /\ pushes + 1 \in 1..MaxPushes
      /\ wire \in Seq(Fragments) /\ Stream \in Seq(Fragments) /\ pushes' = pushes + 1
      /\ delivered \in Seq(1..MaxPushes) /\ first \in Nat /\ Len(wire) \in Nat
      /\ UNCHANGED <<pc, conn, buf, request, listening, session, commands, first, clean,
                     delivered, answer>>
  BY StreamType DEF IInv, TypeOK, local, past
<1>2. l \in LineSet /\ l.kind = "push" /\ wire' = wire \o Text(l)
  BY <1>1, LineFacts DEF Push
<1> HIDE DEF l
<1>3. wire' \in Seq(Fragments) /\ Stream' = Stream \o Text(l) /\ Stream' \in Seq(Fragments)
  BY <1>1, <1>2, Added
<1>4. TypeOK'
  BY <1>1, <1>3 DEF TypeOK
<1>5. Ordered'
  <2>1. Follows(Stream \o Push(pushes + 1), delivered, pushes + 1)
    BY <1>1, FollowsPush DEF IInv, Ordered
  <2> QED BY <1>1, <1>3, <2>1 DEF Ordered, Push, l
<1>6. Room' /\ Closed' /\ RepliesPaired'
  BY <1>1 DEF IInv, Room, Complete, Closed, RepliesPaired
<1>7. pc # "auth" => EndsWhole(Stream)
  BY <1>1 DEF IInv, LiveSession, Keeps
<1>8. CleanSession'
  <2> SUFFICES ASSUME clean, pc # "auth"
               PROVE  /\ OneReply(Stream', IF pc = "await" /\ request = 0 THEN commands ELSE 0)
                      /\ request > 0 => pc = "await" /\ request = commands
    BY <1>1 DEF CleanSession
  <2>1. /\ OneReply(Stream, IF pc = "await" /\ request = 0 THEN commands ELSE 0)
        /\ request > 0 => pc = "await" /\ request = commands
    BY <1>1 DEF IInv, CleanSession
  <2> QED BY <1>1, <1>2, <1>3, <1>7, <2>1, OneReplyAdded
<1>9. LiveSession'
  <2> SUFFICES ASSUME pc # "auth"
               PROVE  \E e \in 0..Len(Stream') : Keeps(Stream', delivered, first, pushes + 1, e)
    BY <1>1 DEF LiveSession
  <2>1. PICK e \in 0..Len(Stream) : Keeps(Stream, delivered, first, pushes, e)
    BY <1>1 DEF IInv, LiveSession
  <2>2. Keeps(Stream \o Text(l), delivered, first, pushes + 1, e)
    BY <1>1, <1>2, <2>1, KeepsAdded DEF l
  <2> QED BY <1>3, <2>2 DEF Keeps
<1>10. Authenticating'
  <2> SUFFICES ASSUME pc = "auth" PROVE Authenticating'
    BY <1>1 DEF Authenticating
  <2>1. /\ request \in {-1, 0} /\ request # -1 /\ wire[1] = AuthOk /\ Paired(wire, 1)
        /\ \A i \in 2..Len(wire) : wire[i].line.kind = "push"
        /\ Len(wire) >= 3 /\ Whole(first, wire, 2) /\ EndsWhole(wire)
        /\ \A n \in (first + 1)..pushes : \E i \in 4..Len(wire) : Whole(n, wire, i)
    <3>1. wire # << >> <=> Len(wire) # 0
      BY <1>1, EmptySeq
    <3>2. Authenticating
      BY DEF IInv
    <3>3. /\ Len(wire) >= 3 /\ Whole(first, wire, 2) /\ EndsWhole(wire)
          /\ \A n \in (first + 1)..pushes : \E i \in 4..Len(wire) : Whole(n, wire, i)
      BY <3>2, <1>1 DEF Authenticating
    <3>4. /\ request \in {-1, 0} /\ request # -1 /\ (wire # << >> => wire[1] = AuthOk)
          /\ Paired(wire, 1) /\ \A i \in 2..Len(wire) : wire[i].line.kind = "push"
      BY <3>2, <1>1 DEF Authenticating
    <3> QED BY <3>1, <3>3, <3>4, <1>1
  <2>2. /\ Len(wire') = Len(wire) + 2
        /\ \A i \in 1..Len(wire) : wire'[i] = wire[i]
        /\ wire'[Len(wire) + 1] = Start(l) /\ wire'[Len(wire) + 2] = End(l)
    <3>1. /\ Len(wire \o Text(l)) = Len(wire) + 2
          /\ \A i \in 1..Len(wire) : (wire \o Text(l))[i] = wire[i]
          /\ (wire \o Text(l))[Len(wire) + 1] = Start(l) /\ (wire \o Text(l))[Len(wire) + 2] = End(l)
      BY <1>1, <1>2, TextAdded
    <3> QED BY <3>1, <1>2, Zenon
  <2>3. Paired(wire', 1) /\ EndsWhole(wire')
    <3>1. 1 \in 0..Len(wire) /\ (1 < Len(wire) => wire[Len(wire)].end)
      <4>1. wire # << >>
        BY <2>1, <1>1, EmptySeq
      <4> QED BY <4>1, <2>1, <1>1 DEF EndsWhole
    <3> QED BY <3>1, <2>1, <1>1, <1>2, PairedAdded
  <2>4. \A i \in 2..Len(wire') : wire'[i].line.kind = "push"
    <3>1. \A i \in 2..Len(wire') : i \in 2..Len(wire) \/ i = Len(wire) + 1 \/ i = Len(wire) + 2
      <4>1. Len(wire') = Len(wire) + 2 /\ Len(wire) \in Nat
        BY <2>2, <1>1
      <4> QED BY <4>1
    <3>2. wire'[Len(wire) + 1].line.kind = "push" /\ wire'[Len(wire) + 2].line.kind = "push"
      BY <2>2, <1>2, FragmentFacts
    <3> QED BY <3>1, <3>2, <2>1, <2>2, <1>1
  <2>5. wire'[1] = AuthOk /\ Whole(first, wire', 2)
    BY <2>1, <2>2, <1>1 DEF Whole
  <2>6. ASSUME NEW n \in (first + 1)..(pushes + 1)
        PROVE  \E i \in 4..Len(wire') : Whole(n, wire', i)
    <3>1. CASE n = pushes + 1
      <4>1. Len(wire) + 1 \in 4..Len(wire') /\ Whole(n, wire', Len(wire) + 1)
        BY <3>1, <2>1, <2>2, <1>1 DEF Whole, l
      <4> QED BY <4>1
    <3>2. CASE n \in (first + 1)..pushes
      <4>1. PICK i \in 4..Len(wire) : Whole(n, wire, i)
        BY <2>1, <3>2
      <4>2. i \in 4..Len(wire') /\ Whole(n, wire', i)
        BY <4>1, <2>2, <1>1 DEF Whole
      <4> QED BY <4>2
    <3> QED BY <3>1, <3>2, <1>1
  <2>7. Len(wire') >= 3
    BY <2>1, <2>2, <1>1
  <2> QED BY <1>1, <2>1, <2>3, <2>4, <2>5, <2>6, <2>7 DEF IInv, Authenticating
<1> QED BY <1>4, <1>5, <1>6, <1>8, <1>9, <1>10 DEF IInv

(* The reply to the one request there is, and the push that may follow it. *)
LEMMA SatelliteReplyStep ==
  ASSUME IInv, SatelliteReply
  PROVE  IInv'
<1> USE DEF SatelliteReply
<1> DEFINE l == ReplyLine(request)
           p == PushLine(pushes + 1)
           s == Stream \o Text(l)
<1>1. /\ TypeOK /\ conn = "up" /\ request > 0 /\ request' = 0 /\ request \in 1..MaxCommands
      /\ wire \in Seq(Fragments) /\ Stream \in Seq(Fragments) /\ pushes \in Nat
      /\ delivered \in Seq(1..MaxPushes) /\ first \in Nat /\ pushes' \in 0..MaxPushes
      /\ UNCHANGED <<pc, conn, buf, listening, session, commands, first, clean,
                     delivered, answer>>
  BY StreamType DEF IInv, TypeOK, local, past
<1>2. pc # "auth"
  BY <1>1 DEF IInv, Authenticating
<1>3. l \in LineSet /\ l.kind = "reply" /\ Text(l) \in Seq(Fragments)
  BY <1>1, LineFacts, FragmentFacts
<1>4. s \in Seq(Fragments)
  BY <1>1, <1>3, TextAdded
<1>5. Follows(s, delivered, pushes)
  <2> DEFINE t == Text(l)
  <2>1. t \in Seq(Fragments) /\ Len(t) = 2 /\ ~IsStart(t[1]) /\ ~IsStart(t[2])
    BY <1>3, FragmentFacts DEF IsStart
  <2> HIDE DEF t
  <2>2. \A i \in 1..Len(t) : ~IsStart(t[i])
    <3>1. \A i \in 1..Len(t) : i = 1 \/ i = 2
      BY <2>1
    <3> QED BY <2>1, <3>1
  <2>3. Follows(Stream \o t, delivered, pushes)
    BY <1>1, <2>1, <2>2, FollowsQuiet DEF IInv, Ordered
  <2> QED BY <2>3 DEF t
<1>6. PICK e \in 0..Len(Stream) : Keeps(Stream, delivered, first, pushes, e)
  BY <1>1, <1>2 DEF IInv, LiveSession
<1>7. Keeps(s, delivered, first, pushes, e) /\ EndsWhole(s)
  <2>1. Keeps(s, delivered, first, pushes, e)
    BY <1>1, <1>3, <1>6, KeepsAdded
  <2> QED BY <2>1 DEF Keeps
<1>8. clean => OneReply(s, request) /\ pc = "await" /\ request = commands
  <2> SUFFICES ASSUME clean PROVE OneReply(s, request) /\ pc = "await" /\ request = commands
    OBVIOUS
  <2>1. OneReply(Stream, 0) /\ pc = "await" /\ request = commands
    BY <1>1, <1>2 DEF IInv, CleanSession
  <2>2. EndsWhole(Stream)
    BY <1>6 DEF Keeps
  <2> QED BY <1>1, <1>3, <2>1, <2>2, OneReplyAdded
<1>9. /\ wire' \in Seq(Fragments) /\ Follows(Stream', delivered, pushes')
      /\ Keeps(Stream', delivered, first, pushes', e)
      /\ clean => OneReply(Stream', request)
  <2>1. CASE wire' = wire \o Text(l) /\ UNCHANGED pushes
    <3>1. wire' \in Seq(Fragments) /\ Stream' = s
      BY <1>1, <1>3, <2>1, Added
    <3> QED BY <2>1, <3>1, <1>5, <1>7, <1>8
  <2>2. CASE /\ pushes < MaxPushes /\ pushes' = pushes + 1
             /\ wire' = wire \o Text(l) \o Push(pushes + 1)
    <3>1. p \in LineSet /\ p.kind = "push" /\ pushes + 1 <= MaxPushes
      BY <1>1, <2>2, LineFacts
    <3>2. wire' \in Seq(Fragments) /\ Stream' = s \o Text(p)
      <4> DEFINE t == Text(l)
                 u == Text(p)
      <4>1. t \in Seq(Fragments) /\ u \in Seq(Fragments) /\ buf \in Seq(Fragments)
        BY <1>3, <3>1, FragmentFacts, StreamType, <1>1
      <4>2. wire' = (wire \o t) \o u /\ Stream' = buf \o ((wire \o t) \o u)
        BY <1>1, <2>2 DEF Push, Stream
      <4>3. s = (buf \o wire) \o t
        BY DEF Stream
      <4> HIDE DEF t, u, s
      <4>4. (wire \o t) \o u \in Seq(Fragments)
        BY <1>1, <4>1
      <4>5. buf \o ((wire \o t) \o u) = ((buf \o wire) \o t) \o u
        <5> DEFINE x == wire \o t
        <5>1. x \in Seq(Fragments)
          BY <1>1, <4>1, Joined
        <5>2. buf \o x = (buf \o wire) \o t
          <6>1. buf \in Seq(Fragments) /\ wire \in Seq(Fragments) /\ t \in Seq(Fragments)
            BY <1>1, <4>1
          <6> QED BY <6>1, Regroup, Zenon
        <5> HIDE DEF x
        <5>3. buf \o (x \o u) = (buf \o x) \o u
          BY <4>1, <5>1, Regroup
        <5> QED BY <5>2, <5>3 DEF x
      <4> QED BY <4>2, <4>3, <4>4, <4>5 DEF u
    <3> HIDE DEF s
    <3>3. Follows(s \o Push(pushes + 1), delivered, pushes + 1)
      BY <1>1, <1>4, <1>5, <3>1, FollowsPush
    <3>4. Keeps(s \o Text(p), delivered, first, pushes + 1, e)
      BY <1>1, <1>4, <1>7, <3>1, KeepsAdded
    <3>5. clean => OneReply(s \o Text(p), request)
      BY <1>4, <1>7, <1>8, <3>1, OneReplyAdded
    <3> QED BY <2>2, <3>2, <3>3, <3>4, <3>5 DEF Push
  <2> QED BY <2>1, <2>2
<1>10. TypeOK'
  BY <1>1, <1>9 DEF TypeOK
<1>11. Ordered'
  BY <1>1, <1>9 DEF Ordered
<1>12. Room' /\ Closed' /\ RepliesPaired' /\ Authenticating'
  BY <1>1, <1>2 DEF IInv, Room, Complete, Closed, RepliesPaired, Authenticating
<1>13. CleanSession'
  BY <1>1, <1>8, <1>9 DEF CleanSession
<1>14. LiveSession'
  BY <1>1, <1>9 DEF LiveSession, Keeps
<1> QED BY <1>10, <1>11, <1>12, <1>13, <1>14 DEF IInv

(* What still arrives is a prefix of what was on its way.                  *)
LEMMA CutStep ==
  ASSUME IInv, Cut
  PROVE  IInv'
<1> USE DEF Cut
<1>1. /\ TypeOK /\ conn' = "cut" /\ request' = 0 /\ listening' = FALSE
      /\ wire \in Seq(Fragments) /\ buf \in Seq(Fragments) /\ Stream \in Seq(Fragments)
      /\ Len(wire) \in Nat /\ Len(buf) \in Nat
      /\ UNCHANGED <<pc, buf, pushes, session, commands, first, clean, delivered, answer>>
  BY StreamType DEF IInv, past
<1>2. PICK k \in 0..Len(wire) : wire' = SubSeq(wire, 1, k)
  OBVIOUS
<1>3. /\ wire' \in Seq(Fragments) /\ Removed(wire', wire, k, Len(wire) - k)
      /\ Len(wire') = k /\ \A i \in 1..k : wire'[i] = wire[i]
  <2>1. wire' \in Seq(Fragments) /\ Removed(wire', wire, k, Len(wire) - k)
    BY <1>1, <1>2, RemovedTail
  <2>2. Len(wire') = k
    BY <1>1, <2>1 DEF Removed
  <2>3. \A i \in 1..k : wire'[i] = wire[i]
    BY <2>1, <2>2 DEF Removed
  <2> QED BY <2>1, <2>2, <2>3
<1>4. /\ Stream' \in Seq(Fragments) /\ Removed(Stream', Stream, Len(buf) + k, Len(wire) - k)
      /\ Len(Stream') = Len(buf) + k
  <2>1. Removed(buf \o wire', buf \o wire, Len(buf) + k, Len(wire) - k)
    BY <1>1, <1>3, RemovedRight
  <2>2. buf \o wire' \in Seq(Fragments) /\ Len(buf \o wire') = Len(buf) + Len(wire')
    BY <1>1, <1>3, Joined
  <2> QED BY <1>1, <1>3, <2>1, <2>2 DEF Stream
<1>5. TypeOK'
  <2>1. request' \in -1..MaxCommands
    BY <1>1
  <2> QED BY <1>1, <1>3, <2>1 DEF TypeOK
<1>6. Ordered'
  BY <1>1, <1>4, FollowsRemoved DEF IInv, Ordered
<1>7. Room' /\ Closed' /\ RepliesPaired' /\ LiveSession'
  BY <1>1 DEF IInv, Room, Complete, Closed, RepliesPaired, LiveSession
<1>8. Authenticating'
  <2> SUFFICES ASSUME pc = "auth" PROVE Authenticating'
    BY <1>1 DEF Authenticating
  <2>1. /\ wire # << >> => wire[1] = AuthOk
        /\ Paired(wire, 1) /\ \A i \in 2..Len(wire) : wire[i].line.kind = "push"
    BY DEF IInv, Authenticating
  <2>2. Paired(wire', 1)
    BY <1>1, <1>3, <2>1, PairedPrefix
  <2>3. wire' # << >> => wire'[1] = AuthOk
    <3>1. (wire' # << >> => Len(wire') > 0) /\ (Len(wire) > 0 => wire # << >>)
      BY <1>1, <1>3, EmptySeq
    <3> QED BY <3>1, <1>3, <2>1
  <2>4. \A i \in 2..Len(wire') : wire'[i].line.kind = "push"
    BY <1>1, <1>3, <2>1
  <2> QED BY <1>1, <2>2, <2>3, <2>4 DEF Authenticating
<1>9. CleanSession'
  <2> SUFFICES ASSUME clean, pc # "auth"
               PROVE  OneReply(Stream', IF pc = "await" THEN commands ELSE 0)
    BY <1>1 DEF CleanSession
  <2> DEFINE r == IF pc = "await" /\ request = 0 THEN commands ELSE 0
  <2>1. OneReply(Stream, r)
    BY <1>1 DEF IInv, CleanSession
  <2> HIDE DEF r
  <2>2. OneReply(Stream', r)
    <3>1. Removed(Stream', Stream, Len(Stream'), Len(wire) - k)
      BY <1>4
    <3> QED BY <1>1, <1>4, <2>1, <3>1, OneReplyPrefix
  <2> QED BY <2>2, OneReplyMore DEF r
<1> QED BY <1>5, <1>6, <1>7, <1>8, <1>9 DEF IInv

(* A poll that finds nothing, the end of a turn, and steps that change     *)
(* nothing at all.                                                         *)
LEMMA QuietStep ==
  ASSUME IInv, PollQuiet \/ TurnEnds \/ UNCHANGED vars
  PROVE  IInv'
<1>1. Stream' = Stream
  BY DEF PollQuiet, TurnEnds, vars, local, remote, Stream
<1>2. /\ UNCHANGED <<conn, buf, wire, request, listening, pushes, session, commands,
                     first, clean, delivered, answer>>
      /\ pc' = pc \/ (conn # "down" /\ pc = "idle" /\ pc' = "keys")
                  \/ (pc = "keys" /\ pc' = "idle")
  BY DEF PollQuiet, TurnEnds, vars, local, remote, past
<1>3. TypeOK' /\ Ordered' /\ Room' /\ Closed'
  BY <1>1, <1>2 DEF IInv, TypeOK, Ordered, Room, Complete, Closed
<1>4. Authenticating' /\ CleanSession' /\ RepliesPaired'
  BY <1>1, <1>2 DEF IInv, Authenticating, CleanSession, RepliesPaired
<1>5. LiveSession'
  <2>1. LiveSession
    BY DEF IInv
  <2> QED BY <2>1, <1>1, <1>2 DEF LiveSession
<1> QED BY <1>3, <1>4, <1>5 DEF IInv

LEMMA NextStep ==
  ASSUME IInv, [Next]_vars
  PROVE  IInv'
<1>1. CASE Connect
  BY <1>1, ConnectStep
<1>2. CASE AuthFails \/ PollLost \/ SendFails \/ AwaitFails
  <2>1. Close /\ (pc \in {"idle", "auth", "keys"} \/ ~Complete(buf))
    BY <1>2 DEF AuthFails, PollLost, SendFails, AwaitFails
  <2> QED BY <2>1, CloseStep
<1>3. ASSUME NEW k \in 1..AuthMax, AuthRead(k) PROVE IInv'
  BY <1>3, AuthReadStep
<1>4. ASSUME NEW k \in 1..ReadMax, PollRead(k) \/ AwaitRead(k) PROVE IInv'
  <2>1. /\ Reading(k) /\ pc' \in {"drain", "await"} /\ (pc' = "await" <=> pc = "await")
    BY <1>4 DEF PollRead, AwaitRead, Reading
  <2> QED BY <2>1, ReadStep
<1>5. CASE Drain
  BY <1>5, DrainStep
<1>6. CASE Send
  BY <1>6, SendStep
<1>7. CASE AwaitPush
  BY <1>7, AwaitPushStep
<1>8. CASE AwaitReply
  BY <1>8, AwaitReplyStep
<1>9. CASE SatelliteAuth
  BY <1>9, SatelliteAuthStep
<1>10. CASE SatelliteReply
  BY <1>10, SatelliteReplyStep
<1>11. CASE SatellitePush
  BY <1>11, SatellitePushStep
<1>12. CASE Cut
  BY <1>12, CutStep
<1>13. CASE PollQuiet \/ TurnEnds \/ UNCHANGED vars
  BY <1>13, QuietStep
<1> QED BY <1>1, <1>2, <1>3, <1>4, <1>5, <1>6, <1>7, <1>8, <1>9, <1>10, <1>11, <1>12,
           <1>13 DEF Next

-----------------------------------------------------------------------------
(* The theorems.                                                           *)

(* The invariant: what is buffered and on its way is, beyond the end of    *)
(* the telemetry that came with AUTH_OK, a sequence of whole lines.        *)
THEOREM Invariance == Spec => []IInv
<1>1. Init => IInv
  BY InitIInv
<1>2. IInv /\ [Next]_vars => IInv'
  BY NextStep
<1> QED BY <1>1, <1>2, PTL DEF Spec

(* Types; buffer_incoming_bytes never writes past the end of g_push_buf.   *)
THEOREM TypeCorrect == Spec => []TypeOK
<1>1. IInv => TypeOK
  BY DEF IInv
<1> QED BY <1>1, Invariance, PTL

(* Pushes are handled in the order they were sent, and none of them twice, *)
(* by poll_satellite_push and by send_cmd_recv together.                   *)
THEOREM PushesInOrder == Spec => []InOrder
<1>1. IInv => InOrder
  BY DEF IInv, Ordered, Follows, InOrder
<1> QED BY <1>1, Invariance, PTL

(* In a session that began at a line boundary send_cmd_recv returns the    *)
(* reply to its own command.                                               *)
THEOREM RepliesMatch == Spec => []RepliesPaired
<1>1. IInv => RepliesPaired
  BY DEF IInv
<1> QED BY <1>1, Invariance, PTL

(* A whole line beyond e is preceded by the end of another, or is first.   *)
LEMMA WholeIsIntact ==
  ASSUME NEW b \in Seq(Fragments), NEW d, NEW f, NEW m, NEW e, Keeps(b, d, f, m, e),
         NEW n, NEW i \in (e + 1)..Len(b), Whole(n, b, i)
  PROVE  Intact(n, b)
<1>1. /\ e \in 0..Len(b) /\ Paired(b, e) /\ (e > 0 => b[e] = End(PushLine(f)))
      /\ Len(b) \in Nat
  BY SeqFacts DEF Keeps
<1>2. /\ i \in 1..(Len(b) - 1) /\ b[i] = Start(PushLine(n)) /\ b[i + 1] = End(PushLine(n))
      /\ ~b[i].end
  BY <1>1, FragmentFacts DEF Whole
<1>3. i = 1 \/ b[i - 1].end
  <2>1. CASE i = e + 1
    <3>1. i = 1 \/ (e > 0 /\ i - 1 = e)
      BY <1>1, <2>1
    <3> QED BY <3>1, <1>1, FragmentFacts
  <2>2. CASE i > e + 1
    <3>1. i - 1 \in (e + 1)..Len(b) /\ i - 1 < Len(b) /\ (i - 1) + 1 = i
      BY <1>1, <1>2, <2>2
    <3>2. ~b[i - 1].end => b[i] = End(b[i - 1].line)
      BY <1>1, <3>1 DEF Paired
    <3> QED BY <3>2, <1>2, FragmentFacts
  <2> QED BY <2>1, <2>2, <1>1
<1> QED BY <1>2, <1>3 DEF Intact

(* While a session lasts no push is lost, but the telemetry that came with *)
(* AUTH_OK and that auth_satellite read: handled, or still there, intact.  *)
THEOREM NothingLost == Spec => []NothingLostInSession
<1>1. IInv => NothingLostInSession
  <2> SUFFICES ASSUME IInv, conn = "up", pc # "auth", NEW n \in (first + 1)..pushes
               PROVE  (\E i \in DOMAIN delivered : delivered[i] = n) \/ Intact(n, Stream)
    BY DEF NothingLostInSession, Stream
  <2>1. Stream \in Seq(Fragments)
    BY StreamType DEF IInv
  <2>2. PICK e \in 0..Len(Stream) : Keeps(Stream, delivered, first, pushes, e)
    BY DEF IInv, LiveSession
  <2>3. \/ \E i \in DOMAIN delivered : delivered[i] = n
        \/ \E i \in (e + 1)..Len(Stream) : Whole(n, Stream, i)
    BY <2>2 DEF Keeps
  <2> QED BY <2>1, <2>2, <2>3, WholeIsIntact
<1> QED BY <1>1, Invariance, PTL
=============================================================================
