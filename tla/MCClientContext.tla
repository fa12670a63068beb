--------------------------- MODULE MCClientContext ---------------------------
(* Instances of ClientContext for TLC. *)
EXTENDS ClientContext
OneOrTwo == {1, 2}
OneOrThree == {1, 3}
=============================================================================
