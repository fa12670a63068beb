--------------------------- MODULE MCHardwareSerial ---------------------------
(* Instances of HardwareSerial for TLC. *)
EXTENDS HardwareSerial
CONSTANTS t1, t2
TwoTasks == {t1, t2}
OneOrThree == {1, 3}
SecondByte == {2}
ThirdByte == {3}
=============================================================================
