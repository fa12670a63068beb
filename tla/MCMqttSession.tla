---------------------------- MODULE MCMqttSession ----------------------------
(* Finite instances of MqttSession. *)
EXTENDS MqttSession

CONSTANTS a, b
OneOut == {a}
TwoOut == {a, b}
TwoIn == {1, 2}
Second == {2}
=============================================================================
