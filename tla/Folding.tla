--------------------------------- MODULE Folding ---------------------------------
(***************************************************************************)
(* Induction over numbers and over the folds of the community modules,     *)
(* from the least counterexample: what the proofs about the infrared       *)
(* decoder, which folds the bits of a frame, and about the injector, which *)
(* folds the orders it reads, have in common.                              *)
(***************************************************************************)
EXTENDS Integers, FiniteSetsExt, WellFoundedInduction, TLAPS

(* A set of numbers that is not empty has a least element.                 *)
LEMMA LeastOf ==
  ASSUME NEW T \in SUBSET Nat, T # {}
  PROVE  \E x \in T : \A y \in T : x <= y
<1>1. PICK x \in T : \A y \in T : <<y, x>> \notin OpToRel(<, Nat)
  BY WFMin, NatLessThanWellFounded, Zenon
<1>2. \A y \in T : ~(y < x)
  BY <1>1 DEF OpToRel
<1> QED BY <1>2

LEMMA MaxOf ==
  ASSUME NEW m \in Nat, NEW s \in SUBSET (1..m), s # {}
  PROVE  Max(s) \in s /\ s \ {Max(s)} \in SUBSET (1..(m - 1)) /\ Max(s) \in 1..m
<1> DEFINE T == {m - n : n \in s}
<1>1. T \in SUBSET Nat /\ T # {}
  <2>1. PICK n \in s : TRUE
    OBVIOUS
  <2>2. m - n \in T
    BY <2>1
  <2>3. \A k \in s : m - k \in Nat
    OBVIOUS
  <2> QED BY <2>2, <2>3
<1>2. PICK x \in T : \A y \in T : x <= y
  BY <1>1, LeastOf
<1>3. PICK n \in s : x = m - n
  OBVIOUS
<1>4. \A y \in s : n >= y
  <2> TAKE y \in s
  <2>1. m - y \in T
    OBVIOUS
  <2>2. m - n <= m - y
    BY <1>2, <1>3, <2>1
  <2> QED BY <2>2
<1>5. Max(s) \in s /\ \A y \in s : Max(s) >= y
  BY <1>4, Zenon DEF Max
<1>6. ASSUME NEW y \in s \ {Max(s)} PROVE y \in 1..(m - 1)
  <2>1. y \in s /\ y # Max(s) /\ y \in 1..m /\ Max(s) \in 1..m /\ Max(s) >= y
    BY <1>5, <1>6
  <2> HIDE DEF Max
  <2> QED BY <2>1
<1> QED BY <1>5, <1>6

LEMMA MaxOfInterval ==
  ASSUME NEW m \in Nat, m > 0
  PROVE  Max(1..m) = m /\ (1..m) \ {Max(1..m)} = 1..(m - 1) /\ 1..m # {}
<1>1. m \in 1..m
  OBVIOUS
<1>2. Max(1..m) \in 1..m /\ \A y \in 1..m : Max(1..m) >= y
  <2>1. \E x \in 1..m : \A y \in 1..m : x >= y
    BY <1>1
  <2> QED BY <2>1, Zenon DEF Max
<1>3. Max(1..m) = m
  BY <1>1, <1>2
<1> QED BY <1>1, <1>3

-----------------------------------------------------------------------------
(* Induction up to n.                                                      *)
LEMMA Climbing ==
  ASSUME NEW n \in Nat, NEW c, NEW S,
         c[0] \in S[0],
         \A m \in 1..n : c[m - 1] \in S[m - 1] => c[m] \in S[m]
  PROVE  \A m \in 0..n : c[m] \in S[m]
<1> DEFINE T == {m \in 0..n : c[m] \notin S[m]}
<1>1. SUFFICES ASSUME T # {} PROVE FALSE
  OBVIOUS
<1>2. T \in SUBSET Nat
  OBVIOUS
<1>3. PICK m \in T : \A y \in T : m <= y
  BY <1>1, <1>2, LeastOf
<1>4. m \in 0..n /\ c[m] \notin S[m] /\ m # 0
  BY <1>3
<1>5. m \in 1..n /\ m - 1 \in 0..n /\ ~(m <= m - 1)
  BY <1>4
<1>6. c[m - 1] \in S[m - 1]
  BY <1>3, <1>5
<1> QED BY <1>4, <1>5, <1>6

(* The function a fold over 1..n goes through, from the last to the first. *)
Folds(iter, base, step, n) ==
  iter = [s \in SUBSET (1..n) |->
            IF s = {} THEN base ELSE step[<<iter[s \ {Max(s)}], Max(s)>>]]

LEMMA FoldExists ==
  ASSUME NEW D, NEW base \in D, NEW n \in Nat, NEW step \in [D \X (1..n) -> D]
  PROVE  \E iter : Folds(iter, base, step, n) /\ \A s \in SUBSET (1..n) : iter[s] \in D
<1> DEFINE Good(iter, m) ==
      Folds(iter, base, step, m) /\ \A s \in SUBSET (1..m) : iter[s] \in D
<1> DEFINE T == {m \in 0..n : ~\E iter : Good(iter, m)}
<1>1. SUFFICES ASSUME T # {} PROVE FALSE
  <2>1. n \in 0..n
    OBVIOUS
  <2> QED BY <2>1
<1>2. PICK m \in T : \A y \in T : m <= y
  <2>1. T \in SUBSET Nat
    OBVIOUS
  <2> QED BY <1>1, <2>1, LeastOf
<1>3. m \in 0..n /\ ~\E iter : Good(iter, m)
  BY <1>2
<1>4. CASE m = 0
  <2> DEFINE g == [s \in SUBSET (1..0) |-> base]
  <2>1. \A s \in SUBSET (1..0) : s = {}
    OBVIOUS
  <2>2. Good(g, 0)
    BY <2>1 DEF Folds
  <2> QED BY <1>3, <1>4, <2>2
<1>5. CASE m # 0
  <2>1. m \in Nat /\ m - 1 \in 0..n /\ ~(m <= m - 1) /\ m \in 1..n
    BY <1>3, <1>5
  <2>2. PICK h : Good(h, m - 1)
    BY <1>2, <2>1
  <2> DEFINE g == [s \in SUBSET (1..m) |->
                     IF s = {} THEN base ELSE step[<<h[s \ {Max(s)}], Max(s)>>]]
  <2>3. ASSUME NEW s \in SUBSET (1..m), s # {}
        PROVE  g[s \ {Max(s)}] = h[s \ {Max(s)}]
    <3> DEFINE t == s \ {Max(s)}
    <3>1. t \in SUBSET (1..(m - 1)) /\ t \in SUBSET (1..m)
      BY <2>1, <2>3, MaxOf
    <3> HIDE DEF t
    <3>2. h[t] = IF t = {} THEN base ELSE step[<<h[t \ {Max(t)}], Max(t)>>]
      BY <2>2, <3>1, Zenon DEF Folds
    <3>3. g[t] = IF t = {} THEN base ELSE step[<<h[t \ {Max(t)}], Max(t)>>]
      BY <3>1
    <3>4. g[t] = h[t]
      BY <3>2, <3>3
    <3> QED BY <3>4 DEF t
  <2>4. Folds(g, base, step, m)
    <3>1. g = [s \in SUBSET (1..m) |->
                 IF s = {} THEN base ELSE step[<<g[s \ {Max(s)}], Max(s)>>]]
      BY <2>3, Zenon
    <3> QED BY <3>1 DEF Folds
  <2>5. ASSUME NEW s \in SUBSET (1..m) PROVE g[s] \in D
    <3>1. CASE s = {}
      BY <3>1
    <3>2. CASE s # {}
      <4>1. s \ {Max(s)} \in SUBSET (1..(m - 1)) /\ Max(s) \in 1..m
        BY <2>1, <3>2, MaxOf
      <4>2. h[s \ {Max(s)}] \in D
        BY <2>2, <4>1
      <4>3. Max(s) \in 1..n
        BY <2>1, <4>1
      <4> HIDE DEF Max
      <4>4. step[<<h[s \ {Max(s)}], Max(s)>>] \in D
        BY <4>2, <4>3
      <4>5. g[s] = step[<<h[s \ {Max(s)}], Max(s)>>]
        BY <3>2
      <4> QED BY <4>4, <4>5
    <3> QED BY <3>1, <3>2
  <2> HIDE DEF g
  <2> QED BY <1>3, <2>4, <2>5
<1> QED BY <1>4, <1>5
=============================================================================
