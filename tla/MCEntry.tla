--------------------------------- MODULE MCEntry ---------------------------------
(* Entry with a small remote: a zero, a one and four bits, two of them one. *)
EXTENDS Entry

MCCodes ==
  [k \in {"1", "2", "OK", "BACK"} |->
     CASE k = "1"    -> {<<0, 1, 1, 1, 0, 0>>}
       [] k = "2"    -> {<<0, 1, 0, 1, 1, 0>>}
       [] k = "OK"   -> {<<0, 1, 1, 0, 0, 1>>}
       [] k = "BACK" -> {<<0, 1, 0, 0, 1, 1>>, <<0, 1, 1, 0, 1, 0>>}]

MCPassword == <<"1", "2">>

(* The codes of the real remote are as Remote assumes.                     *)
ASSUME TableAssumption == Suited(Table, 32, 8)
=============================================================================
