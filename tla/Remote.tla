--------------------------------- MODULE Remote ---------------------------------
(***************************************************************************)
(* The infrared decoder of the controller (src/JoyPi/ir_input.c).          *)
(*                                                                         *)
(* A NEC frame is a leader and one mark per bit: the bit is the time       *)
(* between two marks.  The decoder samples the pin in a loop, so it may    *)
(* see the start of a mark late, as long as the mark lasts, or miss it:    *)
(* then two times are read as one, or one is read too long and the next    *)
(* too short.  Times are in units of 125 microseconds.  Repeat frames have *)
(* no bits and are left out; so is the first edge after ir_arm in the ten  *)
(* milliseconds that follow a wrap of micros().                            *)
(***************************************************************************)
EXTENDS Integers, SequencesExt

CONSTANTS
  Codes, \* the codes of each key, as sequences of bits
  NBits, \* bits of a code (32)
  Zeros  \* its first bits, which are masked and 0 (8)

Keys == DOMAIN Codes
None == "none"

(* Each code starts with zeros and a one, as its address byte and its      *)
(* complement do, and no code has all the ones of another, as a command    *)
(* byte and its complement ensure.                                         *)
Suited(codes, n, zeros) ==
  LET all == UNION {codes[k] : k \in DOMAIN codes} IN
  /\ \A c \in all : /\ DOMAIN c = 1..n /\ \A i \in 1..n : c[i] \in {0, 1}
                    /\ \A i \in 1..zeros : c[i] = 0
                    /\ c[zeros + 1] = 1
  /\ \A c, d \in all : c # d => \E i \in 1..n : c[i] = 1 /\ d[i] = 0
  /\ \A k, l \in DOMAIN codes : k # l => codes[k] \cap codes[l] = {}

(* Without a masked bit before that one, a leader seen late would count    *)
(* as the first bit of another code.                                       *)
ASSUME RemoteAssumption ==
  /\ NBits \in Nat /\ Zeros \in 1..(NBits - 1) /\ None \notin Keys
  /\ Suited(Codes, NBits, Zeros)

-----------------------------------------------------------------------------
(* The remote of the source: its codes without the zeros.                  *)

Bits(number) == [i \in 1..32 |-> IF i <= 8 THEN 0 ELSE (number \div 2^(32 - i)) % 2]

IR_KEY(key) ==
  CASE key = "0" -> {16738455} [] key = "1" -> {16724175} [] key = "2" -> {16718055}
    [] key = "3" -> {16743045} [] key = "4" -> {16716015} [] key = "5" -> {16726215}
    [] key = "6" -> {16734885} [] key = "7" -> {16728765} [] key = "8" -> {16730805}
    [] key = "9" -> {16732845} [] key = "OK" -> {16712445}
    [] key = "BACK" -> {16720605, 16769055}

Table ==
  [k \in {"0", "1", "2", "3", "4", "5", "6", "7", "8", "9", "OK", "BACK"} |->
     {Bits(number) : number \in IR_KEY(k)}]

-----------------------------------------------------------------------------
(* The remote's times: from the leader to the first bit, a one and a zero; *)
(* and how late the start of a mark can be seen.                           *)
Leader == 108
Space  == <<9, 18>>
LateLeader == 72
LateBit    == 4
Silence    == 81   \* longer than any time the decoder tells apart

(* A decoder: what it has since the last reset, the last code completed,   *)
(* and the time from the last edge seen to the mark that began last.       *)
Decoder(bits) == [bits |-> bits, final |-> << >>, gap |-> 0]

(* A time is a one, a zero, or too short for a bit.                        *)
Shifted(bits, delta) ==
  CASE delta > 16 -> Append(bits, 1)
    [] delta > 8 /\ delta <= 16 -> Append(bits, 0)
    [] OTHER -> bits

Taken(d, bits) ==
  IF Len(bits) = NBits
  THEN [d EXCEPT !.bits = << >>, !.final = SubSeq(bits, Zeros + 1, NBits)]
  ELSE [d EXCEPT !.bits = bits]

ir_on_falling_edge(d, delta) ==
  IF delta > 80 THEN [d EXCEPT !.bits = << >>] ELSE Taken(d, Shifted(d.bits, delta))

(* ir_decode_poll: the decoders D after a mark that begins when time has   *)
(* passed since the mark before, missed or seen at most late.              *)
Mark(D, time, late) ==
  {[d EXCEPT !.gap = IF @ + time > Silence THEN Silence ELSE @ + time] : d \in D}
  \cup {[ir_on_falling_edge(d, d.gap + time + x) EXCEPT !.gap = -x] : d \in D, x \in 0..late}

(* What an earlier frame may have left.                                    *)
Left == {Decoder(bits) : bits \in UNION {[1..n -> {0, 1}] : n \in 0..(NBits - 1)}}

(* The decoders after a frame with the bits of code.                       *)
Heard(code) ==
  FoldLeft(LAMBDA D, bit : Mark(D, Space[bit + 1], LateBit),
           Mark(Mark(Left, Silence, LateLeader), Leader, LateBit),
           code)

(* The key whose code has these bits from first to last.                   *)
KeyOf(final, first, last) ==
  LET fits(k) == \E c \in Codes[k] :
                   SubSeq(final, 1, last - first + 1) = SubSeq(c, first, last) IN
  IF \E k \in Keys : fits(k) THEN CHOOSE k \in Keys : fits(k) ELSE None

(* Wrong variant of ir_code_to_key: the end of the code is masked too.     *)
ir_code_to_key_masked(final) ==
  IF final = << >> THEN None ELSE KeyOf(final, Zeros + 1, NBits - Zeros)

ir_code_to_key(final) ==
  IF final = << >> THEN None ELSE KeyOf(final, Zeros + 1, NBits)

(* What ir_poll may return when a key of the remote is pressed.            *)
ir_poll ==
  [k \in Keys |-> {ir_code_to_key(d.final) : d \in UNION {Heard(c) : c \in Codes[k]}}]
=============================================================================
