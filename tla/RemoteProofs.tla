------------------------------ MODULE RemoteProofs ------------------------------
(***************************************************************************)
(* No frame of the remote is read as another key, whatever the codes.      *)
(*                                                                         *)
(* Heard folds Mark over the bits of a code.  The induction says what a    *)
(* decoder may hold after i of them: it is deaf, since it has missed all   *)
(* edges; or it has lost a bit, and will never complete a code; or it has  *)
(* i bits, each a one only where the code has one; or it has i + 1, since  *)
(* it took the late edge of the leader for a bit.  A decoder of the last   *)
(* kind that loses a bit has i again, and then the first bit that is not   *)
(* masked is a zero, as no code has there, unless the lost bit was masked. *)
(***************************************************************************)
EXTENDS Remote, Folding, SequenceTheorems

AllCodes == UNION {Codes[k] : k \in Keys}

LEMMA CodeFacts ==
  ASSUME NEW c \in AllCodes
  PROVE  /\ NBits \in Nat /\ Zeros \in Nat /\ 1 <= Zeros /\ Zeros < NBits
         /\ DOMAIN c = 1..NBits /\ \A i \in 1..NBits : c[i] \in {0, 1}
         /\ \A i \in 1..Zeros : c[i] = 0
         /\ c[Zeros + 1] = 1
<1>1. /\ DOMAIN c = 1..NBits /\ \A i \in 1..NBits : c[i] \in {0, 1}
      /\ \A i \in 1..Zeros : c[i] = 0
      /\ c[Zeros + 1] = 1
  BY RemoteAssumption DEF Suited, AllCodes, Keys
<1> QED BY <1>1, RemoteAssumption

-----------------------------------------------------------------------------
(* What a decoder may hold after i bits of the code c.                     *)

(* Ones only where the code has some, in the bits that are not masked.     *)
Aligned(bits, c) == \A p \in (Zeros + 1)..Len(bits) : bits[p] = 1 => c[p] = 1

(* A zero where every code has a one.                                      *)
Foreign(bits) == Zeros < Len(bits) /\ bits[Zeros + 1] = 0

(* The code comes after the bit that the leader was taken for.             *)
Delayed(bits, c) == \A p \in 2..Len(bits) : bits[p] = 1 => c[p - 1] = 1

(* A code that was completed is no other key's.                            *)
Harmless(final, c) ==
  \/ final = << >>
  \/ /\ Len(final) = NBits - Zeros
     /\ \/ \A p \in 1..Len(final) : final[p] = 1 => c[Zeros + p] = 1
        \/ final[1] = 0

Recent(gap) == gap \in -LateBit..0
Pending(gap) == gap \in Int /\ gap >= Space[1] - LateBit

Progress(bits, gap, i, c) ==
  \/ gap = Silence
  \/ Len(bits) < i
  \/ Len(bits) = i /\ Recent(gap) /\ (Aligned(bits, c) \/ Foreign(bits))
  \/ Len(bits) = i /\ Pending(gap) /\ Delayed(bits, c)
  \/ Len(bits) = i + 1 /\ Recent(gap) /\ Delayed(bits, c)

Decoders == [bits : Seq({0, 1}), final : Seq({0, 1}), gap : Int]

Expected(d, i, c) ==
  /\ d \in Decoders /\ Len(d.bits) < NBits
  /\ Harmless(d.final, c)
  /\ Progress(d.bits, d.gap, i, c)

-----------------------------------------------------------------------------
(* The fold.                                                               *)

Begun == Mark(Mark(Left, Silence, LateLeader), Leader, LateBit)

Listen(c, D, i) == Mark(D, Space[c[i] + 1], LateBit)

(* g is what the fold of module Folds computes, on the sets of the first m *)
(* indices.                                                                *)
Hears(g, c, m) ==
  g = [s \in SUBSET (1..m) |->
         IF s = {} THEN Begun ELSE Listen(c, g[s \ {Max(s)}], Max(s))]

-----------------------------------------------------------------------------
(* One mark.                                                               *)

Missed(d, e, time) ==
  /\ e.bits = d.bits /\ e.final = d.final
  /\ e.gap = IF d.gap + time > Silence THEN Silence ELSE d.gap + time
  /\ e = [bits |-> e.bits, final |-> e.final, gap |-> e.gap]

Seen(d, e, time, x) ==
  LET r == ir_on_falling_edge(d, d.gap + time + x) IN
  /\ e.bits = r.bits /\ e.final = r.final /\ e.gap = -x
  /\ e = [bits |-> r.bits, final |-> r.final, gap |-> -x]

(* An edge after the time delta starts anew, is no bit, or is a bit, which *)
(* may be the last.                                                        *)
Taking(d, delta, b, bits, final) ==
  /\ b = 1 <=> delta > 16
  /\ \/ /\ Len(d.bits) + 1 < NBits
        /\ bits = Append(d.bits, b) /\ final = d.final
     \/ /\ Len(d.bits) + 1 = NBits /\ bits = << >>
        /\ final = SubSeq(Append(d.bits, b), Zeros + 1, NBits)

Edge(d, delta, bits, final) ==
  \/ delta > 80 /\ bits = << >> /\ final = d.final
  \/ delta <= 8 /\ bits = d.bits /\ final = d.final
  \/ delta \in 9..80 /\ \E b \in {0, 1} : Taking(d, delta, b, bits, final)

LEMMA MarkCases ==
  ASSUME NEW D, NEW time \in Int, NEW late \in Int, D \subseteq Decoders,
         NEW e \in Mark(D, time, late)
  PROVE  \E d \in D : Missed(d, e, time) \/ \E x \in 0..late : Seen(d, e, time, x)
<1>1. CASE e \in {[d EXCEPT !.gap = IF @ + time > Silence THEN Silence ELSE @ + time] : d \in D}
  <2>1. PICK d \in D : e = [d EXCEPT !.gap = IF @ + time > Silence THEN Silence ELSE @ + time]
    BY <1>1
  <2>2. d \in Decoders
    OBVIOUS
  <2> QED BY <2>1, <2>2 DEF Decoders, Missed
<1>2. CASE e \in {[ir_on_falling_edge(d, d.gap + time + x) EXCEPT !.gap = -x] : d \in D, x \in 0..late}
  <2>1. PICK d \in D, x \in 0..late : e = [ir_on_falling_edge(d, d.gap + time + x) EXCEPT !.gap = -x]
    BY <1>2
  <2> DEFINE r == ir_on_falling_edge(d, d.gap + time + x)
  <2>2. d = [bits |-> d.bits, final |-> d.final, gap |-> d.gap]
    BY DEF Decoders
  <2>3. r = [bits |-> r.bits, final |-> r.final, gap |-> r.gap]
    BY <2>2 DEF ir_on_falling_edge, Taken
  <2>4. e = [r EXCEPT !.gap = -x]
    BY <2>1
  <2> HIDE DEF r
  <2>5. e.bits = r.bits /\ e.final = r.final /\ e.gap = -x
        /\ e = [bits |-> r.bits, final |-> r.final, gap |-> -x]
    BY <2>3, <2>4
  <2> QED BY <2>5 DEF r, Seen
<1> QED BY <1>1, <1>2 DEF Mark

LEMMA EdgeCases ==
  ASSUME NEW d \in Decoders, NEW delta \in Int, Len(d.bits) < NBits
  PROVE  LET r == ir_on_falling_edge(d, delta) IN Edge(d, delta, r.bits, r.final)
<1> DEFINE r == ir_on_falling_edge(d, delta)
<1>0. /\ d = [bits |-> d.bits, final |-> d.final, gap |-> d.gap]
      /\ d.bits \in Seq({0, 1}) /\ Len(d.bits) \in Nat /\ NBits \in Nat
  BY RemoteAssumption, LenProperties DEF Decoders
<1>1. CASE delta > 80
  BY <1>0, <1>1 DEF ir_on_falling_edge, Edge
<1>2. CASE delta <= 8
  <2>1. Shifted(d.bits, delta) = d.bits
    BY <1>2 DEF Shifted
  <2>2. r.bits = d.bits /\ r.final = d.final
    BY <1>0, <1>2, <2>1 DEF ir_on_falling_edge, Taken
  <2> QED BY <1>2, <2>2 DEF Edge
<1>3. CASE delta \in 9..80
  <2> DEFINE b == IF delta > 16 THEN 1 ELSE 0
  <2>1. Shifted(d.bits, delta) = Append(d.bits, b)
    <3>1. CASE delta > 16
      BY <3>1 DEF Shifted
    <3>2. CASE delta > 8 /\ delta <= 16
      <4>1. ~(delta > 16) /\ b = 0
        BY <3>2
      <4> QED BY <3>2, <4>1 DEF Shifted
    <3> QED BY <1>3, <3>1, <3>2
  <2>2. b \in {0, 1} /\ (b = 1 <=> delta > 16)
    OBVIOUS
  <2>3. r = Taken(d, Append(d.bits, b))
    <3>1. ~(delta > 80)
      BY <1>3
    <3> QED BY <2>1, <3>1 DEF ir_on_falling_edge
  <2> HIDE DEF b, r
  <2>4. Len(Append(d.bits, b)) = Len(d.bits) + 1
    BY <1>0, <2>2
  <2>5. CASE Len(d.bits) + 1 = NBits
    <3>1. r.bits = << >> /\ r.final = SubSeq(Append(d.bits, b), Zeros + 1, NBits)
      BY <1>0, <2>3, <2>4, <2>5 DEF Taken
    <3> QED BY <1>3, <2>2, <2>5, <3>1 DEF r, Edge, Taking
  <2>6. CASE Len(d.bits) + 1 < NBits
    <3>1. r.bits = Append(d.bits, b) /\ r.final = d.final
      BY <1>0, <2>3, <2>4, <2>6 DEF Taken
    <3> QED BY <1>3, <2>2, <2>6, <3>1 DEF r, Edge, Taking
  <2>7. Len(d.bits) + 1 = NBits \/ Len(d.bits) + 1 < NBits
    BY <1>0
  <2> QED BY <2>5, <2>6, <2>7
<1>4. delta > 80 \/ delta <= 8 \/ delta \in 9..80
  OBVIOUS
<1> QED BY <1>1, <1>2, <1>3, <1>4

(* One more bit.                                                           *)
LEMMA AppendFacts ==
  ASSUME NEW s \in Seq({0, 1}), NEW b \in {0, 1}
  PROVE  /\ Append(s, b) \in Seq({0, 1}) /\ Len(Append(s, b)) = Len(s) + 1
         /\ Len(s) \in Nat
         /\ \A p \in 1..Len(s) : Append(s, b)[p] = s[p] /\ s[p] \in {0, 1}
         /\ Append(s, b)[Len(s) + 1] = b
BY AppendProperties, LenProperties, ElementOfSeq

(* What is left of a code when its masked bits are gone.                   *)
LEMMA FinalFacts ==
  ASSUME NEW s \in Seq({0, 1}), Len(s) = NBits
  PROVE  LET final == SubSeq(s, Zeros + 1, NBits) IN
         /\ final \in Seq({0, 1}) /\ Len(final) = NBits - Zeros
         /\ \A p \in 1..(NBits - Zeros) : final[p] = s[Zeros + p]
<1>1. NBits \in Nat /\ Zeros \in Nat /\ Zeros < NBits
  BY RemoteAssumption
<1>2. \A p \in (Zeros + 1)..NBits : s[p] \in {0, 1}
  BY <1>1, ElementOfSeq
<1> QED BY <1>1, <1>2, SubSeqProperties

LEMMA HarmlessWhole ==
  ASSUME NEW c \in AllCodes, NEW s \in Seq({0, 1}), Len(s) = NBits,
         Aligned(s, c) \/ Foreign(s)
  PROVE  /\ SubSeq(s, Zeros + 1, NBits) \in Seq({0, 1})
         /\ Harmless(SubSeq(s, Zeros + 1, NBits), c)
<1> DEFINE final == SubSeq(s, Zeros + 1, NBits)
<1>1. /\ final \in Seq({0, 1}) /\ Len(final) = NBits - Zeros
      /\ \A p \in 1..(NBits - Zeros) : final[p] = s[Zeros + p]
  BY FinalFacts
<1>2. NBits \in Nat /\ Zeros \in Nat /\ 1 <= Zeros /\ Zeros < NBits
  BY CodeFacts
<1> HIDE DEF final
<1>3. CASE Aligned(s, c)
  <2>1. \A p \in 1..(NBits - Zeros) : Zeros + p \in (Zeros + 1)..Len(s)
    BY <1>2
  <2>2. \A p \in 1..Len(final) : final[p] = 1 => c[Zeros + p] = 1
    BY <1>1, <1>3, <2>1 DEF Aligned
  <2> QED BY <1>1, <2>2 DEF Harmless, final
<1>4. CASE Foreign(s)
  <2>1. final[1] = 0
    BY <1>1, <1>2, <1>4 DEF Foreign
  <2> QED BY <1>1, <2>1 DEF Harmless, final
<1> QED BY <1>3, <1>4

(* A code read late by one bit is no other code: its first bit that is not *)
(* masked is one of the zeros.                                             *)
LEMMA DelayedIsForeign ==
  ASSUME NEW c \in AllCodes, NEW s \in Seq({0, 1}), Len(s) > Zeros, Delayed(s, c)
  PROVE  Foreign(s)
<1>1. NBits \in Nat /\ Zeros \in Nat /\ 1 <= Zeros /\ c[Zeros] = 0
  BY CodeFacts
<1>2. Zeros + 1 \in 2..Len(s) /\ Zeros + 1 \in 1..Len(s) /\ (Zeros + 1) - 1 = Zeros
  BY <1>1, LenProperties
<1>3. s[Zeros + 1] \in {0, 1}
  BY <1>2, ElementOfSeq
<1>4. s[Zeros + 1] # 1
  BY <1>1, <1>2 DEF Delayed
<1> QED BY <1>3, <1>4 DEF Foreign

-----------------------------------------------------------------------------
(* One bit of the code.                                                    *)

(* A bit that is taken is a one only where the code has a one, unless it   *)
(* takes the time of a missed mark too.                                    *)
LEMMA BitTaken ==
  ASSUME NEW c \in AllCodes, NEW i \in 1..NBits, NEW x \in 0..LateBit,
         NEW gap \in Int, Recent(gap), NEW b \in {0, 1},
         b = 1 <=> gap + Space[c[i] + 1] + x > 16
  PROVE  b = 1 => c[i] = 1
<1>1. c[i] \in {0, 1}
  BY CodeFacts
<1>2. CASE c[i] = 0
  <2>1. Space[c[i] + 1] = 9
    BY <1>2 DEF Space
  <2> QED BY <2>1 DEF Recent, LateBit
<1> QED BY <1>1, <1>2

LEMMA SpaceFacts ==
  ASSUME NEW c \in AllCodes, NEW i \in 1..NBits
  PROVE  Space[c[i] + 1] \in {9, 18}
<1>1. c[i] \in {0, 1}
  BY CodeFacts
<1> QED BY <1>1 DEF Space

(* The edge is missed.                                                     *)
LEMMA MissedBit ==
  ASSUME NEW c \in AllCodes, NEW i \in Nat, NEW bits \in Seq({0, 1}), NEW gap \in Int,
         NEW time \in {9, 18}, Progress(bits, gap, i, c)
  PROVE  Progress(bits, IF gap + time > Silence THEN Silence ELSE gap + time, i + 1, c)
<1> DEFINE new == IF gap + time > Silence THEN Silence ELSE gap + time
<1>0. Len(bits) \in Nat
  BY LenProperties
<1>1. CASE gap = Silence
  BY <1>1 DEF Progress, Silence
<1>2. CASE Len(bits) <= i
  BY <1>0, <1>2 DEF Progress
<1>3. CASE Len(bits) = i + 1 /\ Recent(gap) /\ Delayed(bits, c)
  <2>1. Pending(new)
    BY <1>3 DEF Recent, Pending, LateBit, Space, Silence
  <2> HIDE DEF new
  <2>2. Progress(bits, new, i + 1, c)
    BY <1>3, <2>1 DEF Progress
  <2> QED BY <2>2 DEF new
<1>4. gap = Silence \/ Len(bits) <= i \/ (Len(bits) = i + 1 /\ Recent(gap) /\ Delayed(bits, c))
  BY <1>0 DEF Progress
<1> QED BY <1>1, <1>2, <1>3, <1>4

(* The edge is seen and is a bit, but not the last.                        *)
LEMMA SeenBit ==
  ASSUME NEW c \in AllCodes, NEW i \in 0..(NBits - 1), NEW bits \in Seq({0, 1}),
         NEW gap \in Int, NEW x \in 0..LateBit, NEW b \in {0, 1},
         b = 1 <=> gap + Space[c[i + 1] + 1] + x > 16,
         gap + Space[c[i + 1] + 1] + x <= 80,
         Progress(bits, gap, i, c)
  PROVE  \/ Len(Append(bits, b)) <= i
         \/ Len(Append(bits, b)) = i + 1
            /\ (Aligned(Append(bits, b), c) \/ Foreign(Append(bits, b)))
         \/ Len(Append(bits, b)) = i + 2 /\ Delayed(Append(bits, b), c)
<1> DEFINE new == Append(bits, b)
<1>0. /\ Len(bits) \in Nat /\ new \in Seq({0, 1}) /\ Len(new) = Len(bits) + 1
      /\ \A p \in 1..Len(bits) : new[p] = bits[p]
      /\ new[Len(bits) + 1] = b
  BY AppendFacts
<1>c. NBits \in Nat /\ Zeros \in Nat /\ 1 <= Zeros /\ Zeros < NBits /\ c[Zeros + 1] = 1
  BY CodeFacts
<1>s. Space[c[i + 1] + 1] \in {9, 18}
  BY <1>c, SpaceFacts
<1> HIDE DEF new
<1>1. gap # Silence
  BY <1>s DEF Silence
<1>2. CASE Len(bits) < i
  BY <1>0, <1>2 DEF new
<1>3. CASE Len(bits) = i /\ Recent(gap) /\ Aligned(bits, c)
  <2>1. b = 1 => c[i + 1] = 1
    BY <1>3, <1>c, BitTaken
  <2>2. ASSUME NEW p \in (Zeros + 1)..Len(new), new[p] = 1 PROVE c[p] = 1
    <3>1. CASE p = i + 1
      BY <1>0, <1>3, <2>1, <2>2, <3>1
    <3>2. CASE p # i + 1
      <4>1. p \in (Zeros + 1)..Len(bits) /\ p \in 1..Len(bits)
        BY <1>0, <1>3, <1>c, <3>2
      <4> QED BY <1>0, <1>3, <2>2, <4>1 DEF Aligned
    <3> QED BY <3>1, <3>2
  <2>3. Aligned(new, c)
    BY <2>2 DEF Aligned
  <2> QED BY <1>0, <1>3, <2>3 DEF new
<1>4. CASE Len(bits) = i /\ Foreign(bits)
  <2>1. Zeros + 1 \in 1..Len(bits)
    BY <1>c, <1>4, <1>0 DEF Foreign
  <2>2. Foreign(new)
    BY <1>0, <1>4, <1>c, <2>1 DEF Foreign
  <2> QED BY <1>0, <1>4, <2>2 DEF new
<1>5. CASE Len(bits) = i /\ Delayed(bits, c)
  <2>1. CASE i < Zeros
    <3>1. Aligned(new, c)
      BY <1>0, <1>5, <2>1, <1>c DEF Aligned
    <3> QED BY <1>0, <1>5, <3>1 DEF new
  <2>2. CASE i = Zeros
    <3>1. Aligned(new, c)
      BY <1>0, <1>5, <2>2, <1>c DEF Aligned
    <3> QED BY <1>0, <1>5, <3>1 DEF new
  <2>3. CASE i > Zeros
    <3>1. Foreign(bits)
      BY <1>5, <2>3, DelayedIsForeign
    <3> QED BY <1>4, <1>5, <3>1
  <2> QED BY <2>1, <2>2, <2>3, <1>c
<1>6. CASE Len(bits) = i + 1 /\ Recent(gap) /\ Delayed(bits, c)
  <2>1. b = 1 => c[i + 1] = 1
    BY <1>6, <1>c, BitTaken
  <2>2. ASSUME NEW p \in 2..Len(new), new[p] = 1 PROVE c[p - 1] = 1
    <3>1. CASE p = i + 2
      <4>1. p - 1 = i + 1
        BY <3>1
      <4> QED BY <1>0, <1>6, <2>1, <2>2, <3>1, <4>1
    <3>2. CASE p # i + 2
      <4>1. p \in 2..Len(bits) /\ p \in 1..Len(bits)
        BY <1>0, <1>6, <3>2
      <4> QED BY <1>0, <1>6, <2>2, <4>1 DEF Delayed
    <3> QED BY <3>1, <3>2
  <2>3. Delayed(new, c)
    BY <2>2 DEF Delayed
  <2> QED BY <1>0, <1>6, <2>3 DEF new
<1> QED BY <1>1, <1>2, <1>3, <1>4, <1>5, <1>6 DEF Progress

(* The edge comes too early for a bit.                                     *)
LEMMA TooEarly ==
  ASSUME NEW c \in AllCodes, NEW i \in 0..(NBits - 1), NEW bits \in Seq({0, 1}),
         NEW gap \in Int, NEW x \in 0..LateBit,
         gap + Space[c[i + 1] + 1] + x <= 8,
         Progress(bits, gap, i, c)
  PROVE  Len(bits) <= i \/ (Len(bits) = i + 1 /\ (Aligned(bits, c) \/ Foreign(bits)))
<1>0. /\ Len(bits) \in Nat /\ NBits \in Nat /\ Zeros \in Nat
      /\ Space[c[i + 1] + 1] \in {9, 18}
  BY LenProperties, CodeFacts, SpaceFacts
<1>1. CASE gap = Silence
  BY <1>0, <1>1 DEF Silence
<1>2. CASE Len(bits) = i + 1 /\ Delayed(bits, c)
  <2>1. CASE Len(bits) <= Zeros
    <3>1. Aligned(bits, c)
      BY <1>0, <2>1 DEF Aligned
    <3> QED BY <1>2, <3>1
  <2>2. CASE Len(bits) > Zeros
    BY <1>2, <2>2, DelayedIsForeign
  <2> QED BY <1>0, <2>1, <2>2
<1> QED BY <1>0, <1>1, <1>2 DEF Progress

(* Progress after an edge that is seen.                                    *)
LEMMA SeenProgress ==
  ASSUME NEW c, NEW i \in Nat, NEW bits \in Seq({0, 1}), NEW x \in 0..LateBit,
         \/ Len(bits) < i
         \/ Len(bits) = i /\ (Aligned(bits, c) \/ Foreign(bits))
         \/ Len(bits) = i + 1 /\ Delayed(bits, c)
  PROVE  Progress(bits, -x, i, c)
<1>1. Recent(-x)
  BY DEF Recent, LateBit
<1> QED BY <1>1 DEF Progress

(* One bit of the code leaves what is expected.                            *)
LEMMA BitHeard ==
  ASSUME NEW c \in AllCodes, NEW i \in 0..(NBits - 1), NEW D,
         \A d \in D : Expected(d, i, c),
         NEW e \in Listen(c, D, i + 1)
  PROVE  Expected(e, i + 1, c)
<1> DEFINE time == Space[c[i + 1] + 1]
<1>0. /\ NBits \in Nat /\ Zeros \in Nat /\ 1 <= Zeros /\ Zeros < NBits
      /\ time \in {9, 18} /\ D \subseteq Decoders
      /\ i \in Nat /\ i < NBits
  BY CodeFacts, SpaceFacts DEF Expected
<1> HIDE DEF time
<1>1. PICK d \in D : Missed(d, e, time) \/ \E x \in 0..LateBit : Seen(d, e, time, x)
  <2>1. e \in Mark(D, time, LateBit)
    BY DEF Listen, time
  <2>2. time \in Int /\ LateBit \in Int
    BY <1>0 DEF LateBit
  <2> QED BY <1>0, <2>1, <2>2, MarkCases
<1>2. /\ d \in Decoders /\ d.bits \in Seq({0, 1}) /\ d.final \in Seq({0, 1}) /\ d.gap \in Int
      /\ Len(d.bits) < NBits /\ Len(d.bits) \in Nat
      /\ Harmless(d.final, c) /\ Progress(d.bits, d.gap, i, c)
  BY LenProperties DEF Expected, Decoders
<1>3. CASE Missed(d, e, time)
  <2> USE <1>3 DEF Missed
  <2>1. e.gap \in Int
    BY <1>0, <1>2 DEF Silence
  <2>2. e \in Decoders
    BY <1>2, <2>1 DEF Decoders
  <2>3. Progress(d.bits, IF d.gap + time > Silence THEN Silence ELSE d.gap + time, i + 1, c)
    BY <1>0, <1>2, MissedBit
  <2> QED BY <1>2, <1>3, <2>2, <2>3 DEF Expected
<1>4. ASSUME NEW x \in 0..LateBit, Seen(d, e, time, x)
      PROVE  Expected(e, i + 1, c)
  <2> DEFINE delta == d.gap + time + x
  <2>1. delta \in Int /\ x \in Int /\ -x \in Int
    BY <1>0, <1>2 DEF LateBit
  <2>2. e = [bits |-> e.bits, final |-> e.final, gap |-> -x] /\ e.gap = -x
    BY <1>4 DEF Seen
  <2>3. /\ << >> \in Seq({0, 1}) /\ Len(<< >>) = 0
    OBVIOUS
  <2>4. SUFFICES /\ e.bits \in Seq({0, 1}) /\ e.final \in Seq({0, 1})
                 /\ Len(e.bits) < NBits /\ Harmless(e.final, c)
                 /\ \/ Len(e.bits) < i + 1
                    \/ Len(e.bits) = i + 1 /\ (Aligned(e.bits, c) \/ Foreign(e.bits))
                    \/ Len(e.bits) = i + 2 /\ Delayed(e.bits, c)
    <3>1. (i + 1) + 1 = i + 2 /\ i + 1 \in Nat
      BY <1>0
    <3>2. Progress(e.bits, -x, i + 1, c)
      BY <2>4, <3>1, SeenProgress
    <3>3. e \in Decoders
      BY <2>1, <2>2, <2>4 DEF Decoders
    <3> QED BY <2>2, <2>4, <3>2, <3>3 DEF Expected
  <2>5. Edge(d, delta, e.bits, e.final)
    <3>1. LET r == ir_on_falling_edge(d, delta) IN Edge(d, delta, r.bits, r.final)
      <4> HIDE DEF delta
      <4> QED BY <1>2, <2>1, EdgeCases
    <3> QED BY <1>4, <3>1 DEF Seen
  <2>7. CASE delta > 80 /\ e.bits = << >> /\ e.final = d.final
    BY <1>0, <1>2, <2>3, <2>7
  <2>8. CASE delta <= 8 /\ e.bits = d.bits /\ e.final = d.final
    <3>1. d.gap + Space[c[i + 1] + 1] + x <= 8
      BY <2>8 DEF time
    <3>2. Len(d.bits) <= i \/ (Len(d.bits) = i + 1 /\ (Aligned(d.bits, c) \/ Foreign(d.bits)))
      BY <1>2, <3>1, TooEarly
    <3> QED BY <1>0, <1>2, <2>8, <3>2
  <2>9. CASE delta \in 9..80 /\ \E b \in {0, 1} : Taking(d, delta, b, e.bits, e.final)
    <3>0. PICK b \in {0, 1} : Taking(d, delta, b, e.bits, e.final)
      BY <2>9
    <3> DEFINE new == Append(d.bits, b)
    <3>1. new \in Seq({0, 1}) /\ Len(new) = Len(d.bits) + 1
      BY <1>2, AppendFacts
    <3>2. /\ b = 1 <=> d.gap + Space[c[i + 1] + 1] + x > 16
          /\ d.gap + Space[c[i + 1] + 1] + x <= 80
      <4>1. b = 1 <=> delta > 16
        BY <3>0 DEF Taking
      <4>2. delta <= 80
        <5> HIDE DEF delta
        <5> QED BY <2>9
      <4> QED BY <4>1, <4>2 DEF time
    <3>3. \/ Len(new) <= i
          \/ Len(new) = i + 1 /\ (Aligned(new, c) \/ Foreign(new))
          \/ Len(new) = i + 2 /\ Delayed(new, c)
      BY <1>2, <3>2, SeenBit
    <3> HIDE DEF new
    <3>4. CASE Len(d.bits) + 1 < NBits /\ e.bits = new /\ e.final = d.final
      BY <1>0, <1>2, <3>1, <3>3, <3>4
    <3>5. CASE /\ Len(d.bits) + 1 = NBits /\ e.bits = << >>
               /\ e.final = SubSeq(new, Zeros + 1, NBits)
      <4>1. Aligned(new, c) \/ Foreign(new)
        <5>1. ~(Len(new) <= i)
          BY <1>0, <3>1, <3>5
        <5>2. CASE Delayed(new, c)
          BY <1>0, <3>1, <3>5, <5>2, DelayedIsForeign
        <5> QED BY <3>3, <5>1, <5>2
      <4>2. e.final \in Seq({0, 1}) /\ Harmless(e.final, c)
        BY <3>1, <3>5, <4>1, HarmlessWhole
      <4> QED BY <1>0, <2>3, <3>5, <4>2
    <3>6. \/ Len(d.bits) + 1 < NBits /\ e.bits = new /\ e.final = d.final
          \/ /\ Len(d.bits) + 1 = NBits /\ e.bits = << >>
             /\ e.final = SubSeq(new, Zeros + 1, NBits)
      BY <3>0 DEF new, Taking
    <3> QED BY <3>4, <3>5, <3>6
  <2> HIDE DEF delta
  <2> QED BY <2>5, <2>7, <2>8, <2>9 DEF Edge
<1> QED BY <1>1, <1>3, <1>4

-----------------------------------------------------------------------------
(* Before the code.                                                        *)

LEMMA LeftFacts ==
  ASSUME NEW d \in Left
  PROVE  /\ d \in Decoders /\ Len(d.bits) < NBits
         /\ d.final = << >> /\ d.gap = 0
<1>1. PICK n \in 0..(NBits - 1) : \E bits \in [1..n -> {0, 1}] : d = Decoder(bits)
  BY DEF Left
<1>b. PICK bits \in [1..n -> {0, 1}] : d = Decoder(bits)
  BY <1>1
<1>2. bits \in Seq({0, 1}) /\ Len(bits) = n
  BY RemoteAssumption
<1> QED BY <1>b, <1>2, RemoteAssumption DEF Decoder, Decoders

(* The start of the leader, missed or seen, however late.                  *)
LEMMA FirstMark ==
  ASSUME NEW d \in Mark(Left, Silence, LateLeader)
  PROVE  /\ d \in Decoders /\ Len(d.bits) < NBits /\ d.final = << >>
         /\ d.gap = Silence \/ (d.bits = << >> /\ d.gap \in -LateLeader..0)
<1>1. Left \subseteq Decoders /\ Silence \in Int /\ LateLeader \in Int
  BY LeftFacts DEF Silence, LateLeader
<1>2. PICK f \in Left : \/ Missed(f, d, Silence)
                        \/ \E x \in 0..LateLeader : Seen(f, d, Silence, x)
  BY <1>1, MarkCases
<1>3. f \in Decoders /\ Len(f.bits) < NBits /\ f.final = << >> /\ f.gap = 0 /\ NBits \in Nat
      /\ f.bits \in Seq({0, 1}) /\ 1 < NBits
  BY LeftFacts, RemoteAssumption DEF Decoders
<1>4. CASE Missed(f, d, Silence)
  BY <1>3, <1>4 DEF Missed, Silence, Decoders
<1>5. ASSUME NEW x \in 0..LateLeader, Seen(f, d, Silence, x)
      PROVE  d.bits = << >> /\ d.final = << >> /\ d.gap = -x
             /\ d = [bits |-> << >>, final |-> << >>, gap |-> -x]
  <2>1. f.gap + Silence + x > 80 /\ f.gap + Silence + x \in Int
    BY <1>3, <1>5 DEF Silence, LateLeader
  <2>2. LET r == ir_on_falling_edge(f, f.gap + Silence + x) IN r.bits = << >> /\ r.final = << >>
    BY <1>3, <2>1 DEF ir_on_falling_edge, Decoders
  <2> QED BY <1>5, <2>2 DEF Seen
<1>6. ASSUME NEW x \in 0..LateLeader,
             d.bits = << >> /\ d.final = << >> /\ d.gap = -x
             /\ d = [bits |-> << >>, final |-> << >>, gap |-> -x]
      PROVE  /\ d \in Decoders /\ Len(d.bits) < NBits /\ d.final = << >>
             /\ d.gap = Silence \/ (d.bits = << >> /\ d.gap \in -LateLeader..0)
  <2>1. -x \in -LateLeader..0 /\ -x \in Int
    BY DEF LateLeader
  <2>2. << >> \in Seq({0, 1}) /\ Len(<< >>) = 0
    OBVIOUS
  <2> QED BY <1>3, <1>6, <2>1, <2>2 DEF Decoders
<1> QED BY <1>2, <1>4, <1>5, <1>6

(* The mark of the first bit: nothing is heard of the code yet, but a late *)
(* leader may have been taken for a bit.                                   *)
LEMMA LeaderHeard ==
  ASSUME NEW c, NEW e \in Begun
  PROVE  Expected(e, 0, c)
<1> DEFINE D == Mark(Left, Silence, LateLeader)
<1>0. D \subseteq Decoders /\ NBits \in Nat /\ 1 < NBits
  BY FirstMark, RemoteAssumption
<1> HIDE DEF D
<1>1. PICK d \in D : Missed(d, e, Leader) \/ \E x \in 0..LateBit : Seen(d, e, Leader, x)
  <2>1. e \in Mark(D, Leader, LateBit)
    BY DEF Begun, D
  <2>2. Leader \in Int /\ LateBit \in Int
    BY DEF Leader, LateBit
  <2> QED BY <1>0, <2>1, <2>2, MarkCases
<1>2. /\ d \in Decoders /\ d.bits \in Seq({0, 1}) /\ d.gap \in Int
      /\ Len(d.bits) < NBits /\ Len(d.bits) \in Nat /\ d.final = << >>
  BY FirstMark, LenProperties DEF D, Decoders
<1>g. \/ d.gap = Silence
      \/ d.bits = << >> /\ d.gap \in -LateLeader..0
  BY FirstMark DEF D
<1>3. Harmless(<< >>, c) /\ << >> \in Seq({0, 1}) /\ Len(<< >>) = 0
      /\ Aligned(<< >>, c) /\ Delayed(<< >>, c)
  BY RemoteAssumption DEF Harmless, Aligned, Delayed
<1>4. CASE Missed(d, e, Leader)
  <2>0. /\ Space[1] = 9
        /\ e.gap = IF d.gap + Leader > Silence THEN Silence ELSE d.gap + Leader
        /\ e.bits = d.bits
        /\ e.final = d.final
    BY <1>4 DEF Space, Missed
  <2>1. e.gap \in Int /\ (e.gap = Silence \/ (Pending(e.gap) /\ d.bits = << >>))
    <3>1. CASE d.gap = Silence
      BY <2>0, <3>1 DEF Silence, Leader
    <3>2. CASE d.bits = << >> /\ d.gap \in -LateLeader..0
      <4>1. d.gap \in -LateLeader..0
        BY <3>2
      <4>2. d.gap + Leader \in 36..108
        BY <4>1 DEF Leader, LateLeader
      <4>3. e.gap \in 36..81
        BY <2>0, <4>2 DEF Silence
      <4>4. Pending(e.gap) /\ e.gap \in Int
        BY <2>0, <4>3 DEF Pending, LateBit
      <4> QED BY <3>2, <4>4
    <3> QED BY <1>g, <3>1, <3>2
  <2>2. Progress(e.bits, e.gap, 0, c)
    BY <1>3, <2>0, <2>1 DEF Progress
  <2>3. e \in Decoders
    <3>1. e = [bits |-> e.bits, final |-> e.final, gap |-> e.gap]
      BY <1>4 DEF Missed
    <3> QED BY <1>2, <2>0, <2>1, <3>1 DEF Decoders
  <2> QED BY <1>2, <1>3, <2>0, <2>2, <2>3 DEF Expected
<1>5. ASSUME NEW x \in 0..LateBit, Seen(d, e, Leader, x)
      PROVE  Expected(e, 0, c)
  <2> DEFINE delta == d.gap + Leader + x
  <2>1. /\ delta \in Int /\ delta > 16 /\ x \in Int /\ -x \in Int
        /\ delta > 80 \/ d.bits = << >>
    <3>0. x \in 0..4
      BY <1>5 DEF LateBit
    <3>1. CASE d.gap = Silence
      BY <3>0, <3>1 DEF Leader, Silence
    <3>2. CASE d.bits = << >> /\ d.gap \in -LateLeader..0
      <4>1. d.gap \in -LateLeader..0
        BY <3>2
      <4>2. delta \in 36..112 /\ x \in Int /\ -x \in Int
        BY <3>0, <4>1 DEF Leader, LateLeader
      <4> HIDE DEF delta
      <4> QED BY <3>2, <4>2
    <3> QED BY <1>g, <3>1, <3>2
  <2> HIDE DEF delta
  <2>2. Edge(d, delta, e.bits, e.final)
    <3>1. LET r == ir_on_falling_edge(d, delta) IN Edge(d, delta, r.bits, r.final)
      BY <1>2, <2>1, EdgeCases
    <3> QED BY <1>5, <3>1 DEF Seen, delta
  <2>3. \/ e.bits = << >> /\ e.final = << >>
        \/ e.bits = Append(<< >>, 1) /\ e.final = << >>
    <3>1. CASE delta > 80
      BY <1>2, <2>1, <2>2, <3>1 DEF Edge
    <3>2. CASE d.bits = << >> /\ ~(delta > 80)
      <4>1. PICK b \in {0, 1} : Taking(d, delta, b, e.bits, e.final)
        BY <2>1, <2>2, <3>2 DEF Edge
      <4> QED BY <1>0, <1>2, <1>3, <2>1, <3>2, <4>1 DEF Taking
    <3> QED BY <2>1, <3>1, <3>2
  <2>4. Append(<< >>, 1) \in Seq({0, 1}) /\ Len(Append(<< >>, 1)) = 1
    OBVIOUS
  <2>5. Delayed(Append(<< >>, 1), c)
    BY <2>4 DEF Delayed
  <2>6. e \in Decoders /\ Len(e.bits) < NBits
    <3>1. e = [bits |-> e.bits, final |-> e.final, gap |-> -x]
      BY <1>5 DEF Seen
    <3>2. << >> \in Seq({0, 1})
      OBVIOUS
    <3>3. e.bits \in Seq({0, 1}) /\ e.final \in Seq({0, 1}) /\ Len(e.bits) < NBits
      <4>0. e.final \in Seq({0, 1})
        BY <2>3, <3>2
      <4>1. CASE e.bits = << >>
        <5>1. e.bits \in Seq({0, 1})
          BY <3>2, <4>1
        <5>2. Len(e.bits) = 0
          BY <1>3, <4>1
        <5> QED BY <1>0, <4>0, <5>1, <5>2
      <4>2. CASE e.bits = Append(<< >>, 1)
        BY <1>0, <1>3, <2>3, <2>4, <3>2, <4>2
      <4> QED BY <2>3, <4>1, <4>2
    <3> QED BY <2>1, <3>1, <3>3 DEF Decoders
  <2>7. Progress(e.bits, -x, 0, c)
    <3>1. CASE e.bits = << >>
      BY <1>3, <1>5, <3>1, SeenProgress
    <3>2. CASE e.bits = Append(<< >>, 1)
      <4> DEFINE bits == Append(<< >>, 1)
      <4>1. bits \in Seq({0, 1}) /\ Len(bits) = 0 + 1 /\ Delayed(bits, c)
        BY <2>4, <2>5
      <4> HIDE DEF bits
      <4>2. Progress(bits, -x, 0, c)
        BY <1>5, <4>1, SeenProgress
      <4> QED BY <3>2, <4>2 DEF bits
    <3> QED BY <2>3, <3>1, <3>2
  <2> QED BY <1>3, <1>5, <2>3, <2>6, <2>7 DEF Expected, Seen
<1> QED BY <1>1, <1>4, <1>5

-----------------------------------------------------------------------------
(* The fold.                                                               *)

(* Such functions exist.                                                   *)
LEMMA HearingExists ==
  ASSUME NEW c, NEW n \in Nat
  PROVE  \E g : Hears(g, c, n)
<1> DEFINE T == {m \in Nat : ~\E g : Hears(g, c, m)}
<1>1. CASE T # {}
  <2>1. PICK m \in T : \A y \in T : m <= y
    BY <1>1, LeastOf
  <2>2. CASE m = 0
    <3> DEFINE g == [s \in SUBSET (1..0) |-> Begun]
    <3>1. \A s \in SUBSET (1..0) : s = {}
      OBVIOUS
    <3>2. Hears(g, c, 0)
      BY <3>1 DEF Hears
    <3> QED BY <2>2, <3>2
  <2>3. CASE m > 0
    <3>1. m \in Nat /\ m - 1 \in Nat /\ m - 1 \notin T
      BY <2>1, <2>3
    <3>2. PICK h : Hears(h, c, m - 1)
      BY <3>1
    <3> DEFINE g == [s \in SUBSET (1..m) |->
                       IF s = {} THEN Begun ELSE Listen(c, h[s \ {Max(s)}], Max(s))]
    <3>3. ASSUME NEW s \in SUBSET (1..m), s # {}
          PROVE  g[s \ {Max(s)}] = h[s \ {Max(s)}]
      <4> DEFINE t == s \ {Max(s)}
      <4>1. t \in SUBSET (1..(m - 1)) /\ t \in SUBSET (1..m)
        BY <3>1, <3>3, MaxOf
      <4> HIDE DEF t
      <4>2. h[t] = IF t = {} THEN Begun ELSE Listen(c, h[t \ {Max(t)}], Max(t))
        BY <3>2, <4>1, Zenon DEF Hears
      <4>3. g[t] = IF t = {} THEN Begun ELSE Listen(c, h[t \ {Max(t)}], Max(t))
        BY <4>1
      <4>4. g[t] = h[t]
        BY <4>2, <4>3
      <4> QED BY <4>4 DEF t
    <3>4. g = [s \in SUBSET (1..m) |->
                 IF s = {} THEN Begun ELSE Listen(c, g[s \ {Max(s)}], Max(s))]
      BY <3>3, Zenon
    <3>5. Hears(g, c, m)
      BY <3>4 DEF Hears
    <3> QED BY <2>1, <3>5
  <2> QED BY <2>1, <2>2, <2>3
<1> QED BY <1>1

(* What Heard computes.                                                    *)
LEMMA HeardIsFold ==
  ASSUME NEW c \in AllCodes
  PROVE  \E g : Hears(g, c, NBits) /\ Heard(c) = g[1..NBits]
<1> DEFINE g == CHOOSE g : g = [s \in SUBSET (1..NBits) |->
                  IF s = {} THEN Mark(Mark(Left, Silence, LateLeader), Leader, LateBit)
                  ELSE Mark(g[s \ {Max(s)}], Space[c[Max(s)] + 1], LateBit)]
<1>1. DOMAIN c = 1..NBits /\ NBits \in Nat
  BY CodeFacts
<1>2. Heard(c) = g[1..NBits]
  BY <1>1, Zenon DEF Heard, FoldLeft, MapThenFoldSet
<1>3. Hears(g, c, NBits)
  BY <1>1, HearingExists, Zenon DEF Hears, Begun, Listen
<1> HIDE DEF g
<1> QED BY <1>2, <1>3

(* All decoders are as expected after the whole code.                      *)
LEMMA CodeHeard ==
  ASSUME NEW c \in AllCodes, NEW d \in Heard(c)
  PROVE  Expected(d, NBits, c)
<1>0. NBits \in Nat
  BY CodeFacts
<1>1. PICK g : Hears(g, c, NBits) /\ Heard(c) = g[1..NBits]
  BY HeardIsFold
<1> DEFINE Right(m) == \A e \in g[1..m] : Expected(e, m, c)
<1> DEFINE T == {m \in 0..NBits : ~Right(m)}
<1>2. CASE T # {}
  <2>1. PICK m \in T : \A y \in T : m <= y
    <3>1. T \in SUBSET Nat
      BY <1>0
    <3> QED BY <1>2, <3>1, LeastOf
  <2>2. m \in 0..NBits /\ ~Right(m) /\ m \in Nat
    BY <1>0, <2>1
  <2>3. g[1..m] = IF 1..m = {} THEN Begun ELSE Listen(c, g[(1..m) \ {Max(1..m)}], Max(1..m))
    <3>1. 1..m \in SUBSET (1..NBits)
      BY <1>0, <2>2
    <3> QED BY <1>1, <3>1, Zenon DEF Hears
  <2>4. CASE m = 0
    <3>1. g[1..m] = Begun
      BY <2>3, <2>4
    <3> QED BY <2>2, <2>4, <3>1, LeaderHeard
  <2>5. CASE m > 0
    <3>1. m - 1 \in 0..(NBits - 1) /\ (m - 1) + 1 = m
      BY <1>0, <2>2, <2>5
    <3>2. Right(m - 1)
      <4>1. m - 1 \in 0..NBits /\ ~(m <= m - 1)
        BY <1>0, <3>1, <2>2
      <4> QED BY <2>1, <4>1
    <3>3. g[1..m] = Listen(c, g[1..(m - 1)], m)
      BY <2>2, <2>3, <2>5, MaxOfInterval
    <3>4. \A e \in Listen(c, g[1..(m - 1)], (m - 1) + 1) : Expected(e, (m - 1) + 1, c)
      <4> HIDE DEF Right
      <4>1. \A e \in g[1..(m - 1)] : Expected(e, m - 1, c)
        BY <3>2 DEF Right
      <4> QED BY <3>1, <4>1, BitHeard
    <3>5. Right(m)
      BY <3>1, <3>3, <3>4
    <3> QED BY <2>2, <3>5
  <2> QED BY <2>2, <2>4, <2>5
<1>3. CASE T = {}
  <2>1. Right(NBits)
    BY <1>0, <1>3
  <2> QED BY <1>1, <2>1
<1> QED BY <1>2, <1>3

-----------------------------------------------------------------------------
(* The key.                                                                *)

(* A code whose ones are all ones of c is c itself, so that no other key   *)
(* is read.                                                                *)
LEMMA OnlyItsKey ==
  ASSUME NEW k \in Keys, NEW c \in Codes[k],
         NEW l \in Keys, NEW other \in Codes[l],
         \A p \in 1..(NBits - Zeros) : other[Zeros + p] = 1 => c[Zeros + p] = 1
  PROVE  l = k
<1>1. c \in AllCodes /\ other \in AllCodes
  BY DEF AllCodes
<1>2. \A p \in 1..NBits : other[p] = 1 => c[p] = 1
  <2> TAKE p \in 1..NBits
  <2>1. CASE p <= Zeros
    <3>1. p \in 1..Zeros
      BY <1>1, <2>1, CodeFacts
    <3> QED BY <1>1, <3>1, CodeFacts
  <2>2. CASE p > Zeros
    <3>1. p - Zeros \in 1..(NBits - Zeros) /\ Zeros + (p - Zeros) = p
      BY <1>1, <2>2, CodeFacts
    <3> QED BY <3>1
  <2> QED BY <1>1, <2>1, <2>2, CodeFacts
<1>3. ~\E p \in 1..NBits : other[p] = 1 /\ c[p] = 0
  BY <1>2
<1>4. other = c
  BY <1>1, <1>3, RemoteAssumption DEF Suited, AllCodes, Keys
<1>5. l # k => Codes[l] \cap Codes[k] = {}
  BY RemoteAssumption DEF Suited, Keys
<1> QED BY <1>4, <1>5

LEMMA KeyRead ==
  ASSUME NEW k \in Keys, NEW c \in Codes[k], NEW final, Harmless(final, c)
  PROVE  ir_code_to_key(final) \in {k, None}
<1>0. c \in AllCodes /\ NBits \in Nat /\ Zeros \in Nat /\ 1 <= Zeros /\ Zeros < NBits
      /\ NBits - (Zeros + 1) + 1 = NBits - Zeros
  <2>1. c \in AllCodes
    BY DEF AllCodes
  <2> QED BY <2>1, CodeFacts
<1>1. CASE final = << >>
  BY <1>1 DEF ir_code_to_key
<1>2. CASE final # << >>
  <2> DEFINE fits(l) == \E o \in Codes[l] :
        SubSeq(final, 1, NBits - (Zeros + 1) + 1) = SubSeq(o, Zeros + 1, NBits)
  <2>1. ASSUME NEW l \in Keys, fits(l) PROVE l = k
    <3>1. PICK o \in Codes[l] : SubSeq(final, 1, NBits - Zeros) = SubSeq(o, Zeros + 1, NBits)
      BY <1>0, <2>1
    <3>2. o \in AllCodes
      BY DEF AllCodes
    <3>3. ASSUME NEW p \in 1..(NBits - Zeros)
          PROVE  final[p] = o[Zeros + p]
      <4>1. SubSeq(final, 1, NBits - Zeros)[p] = final[p]
        BY <1>0
      <4>2. SubSeq(o, Zeros + 1, NBits)[p] = o[Zeros + p]
        BY <1>0
      <4> QED BY <3>1, <4>1, <4>2
    <3>4. 1 \in 1..(NBits - Zeros) /\ o[Zeros + 1] = 1
      BY <1>0, <3>2, CodeFacts
    <3>5. final[1] = 1
      BY <3>3, <3>4
    <3>6. /\ Len(final) = NBits - Zeros
          /\ \A p \in 1..Len(final) : final[p] = 1 => c[Zeros + p] = 1
      BY <1>2, <3>5 DEF Harmless
    <3>7. \A p \in 1..(NBits - Zeros) : o[Zeros + p] = 1 => c[Zeros + p] = 1
      BY <3>3, <3>6
    <3> QED BY <3>7, OnlyItsKey
  <2>2. ir_code_to_key(final) = IF \E l \in Keys : fits(l) THEN CHOOSE l \in Keys : fits(l)
                                                          ELSE None
    BY <1>2, Zenon DEF ir_code_to_key, KeyOf
  <2> HIDE DEF fits
  <2>3. CASE \E l \in Keys : fits(l)
    <3>1. (CHOOSE l \in Keys : fits(l)) \in Keys /\ fits(CHOOSE l \in Keys : fits(l))
      BY <2>3, Zenon
    <3> QED BY <2>1, <2>2, <2>3, <3>1
  <2> QED BY <2>2, <2>3
<1> QED BY <1>1, <1>2

(* A frame of the remote is read as the key that was pressed or as none,   *)
(* for every table of codes that is as RemoteAssumption says: the decoder  *)
(* of ir_input.c never takes one key for another, whichever marks it sees  *)
(* late or not at all and whatever an earlier frame has left.              *)
THEOREM KeysAreNotConfused ==
  \A k \in Keys : ir_poll[k] \subseteq {k, None}
<1> TAKE k \in Keys
<1>1. ASSUME NEW c \in Codes[k], NEW d \in Heard(c)
      PROVE  ir_code_to_key(d.final) \in {k, None}
  <2>1. c \in AllCodes
    BY DEF AllCodes
  <2>2. Harmless(d.final, c)
    BY <2>1, <1>1, CodeHeard DEF Expected
  <2> QED BY <2>2, KeyRead
<1> QED BY <1>1 DEF ir_poll
=============================================================================
