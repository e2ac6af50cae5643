------------------------------- MODULE MCScreen -------------------------------
(* Small instances of Screen.                                                *)
EXTENDS Screen

CONSTANT White
TwoColours == {Black, White}
=============================================================================
