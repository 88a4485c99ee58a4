------------------------------ MODULE MCTerminal ------------------------------
(* The instance of Terminal that TLC checks.                                *)
EXTENDS Terminal

PrintedValues == {0, 5, -3, 37, -40}
=============================================================================
