------------------------------- MODULE MCWlTask -------------------------------
(* Instances of WlTask for TLC. *)
EXTENDS WlTask
CONSTANTS t1, rx, sent, h1, h2
MCTasks == {t1}
TwoSlots == {rx, sent}
Sent == {sent}
TwoHandlers == {h1, h2}
OddEven == {2, 3}
=============================================================================
