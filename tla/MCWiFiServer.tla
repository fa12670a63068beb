----------------------------- MODULE MCWiFiServer -----------------------------
(* Instances of WiFiServer for TLC. *)
EXTENDS WiFiServer, TLC
CONSTANTS c1, c2, c3, h1, h2, h3
ThreeConns == {c1, c2, c3}
Symmetry == Permutations(ThreeConns) \cup Permutations({h1, h2, h3})
ThreeHandles == {h1, h2, h3}
=============================================================================
