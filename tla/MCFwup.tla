-------------------------------- MODULE MCFwup --------------------------------
(* Finite instances of Fwup. *)
EXTENDS Fwup

CONSTANTS t1, t2, a, b
OneTask == {t1}
TwoTasks == {t1, t2}
OneImage == {a}
TwoImages == {a, b}
NoImages == {}
OneSigned == {b}
NoCalls == {}
ExitOnly == {"exit"}
AllCalls == {"exit", "reset", "clear_error", "set_crc_error"}
=============================================================================
