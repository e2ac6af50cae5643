------------------------------- MODULE MCInput -------------------------------
(* Small instances of Input: a letter with a case, which is an accelerator,  *)
(* and one that only the second layout has.                                  *)
EXTENDS Input

CONSTANTS ShiftL, Control, a, A, eacute, DeleteSym

HandSpellings ==
  [p \in Keys |-> CASE p = 1 -> {ShiftL} [] p = 2 -> {Control} [] p = 3 -> {a, A} [] OTHER -> {eacute}]

OneCase == (a :> A)

Latin == (1 :> <<ShiftL, ShiftL>> @@ 2 :> <<Control, Control>> @@ 3 :> <<a, A>> @@ 4 :> <<None, None>>)
French == [Latin EXCEPT ![3] = <<eacute, DeleteSym>>]
Desks == {Latin, French}

ASSUME DesksAreOrdinary == ShiftStays /\ SparesStay
=============================================================================
