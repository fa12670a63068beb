----------------------------- MODULE MCFastWrite -----------------------------
(* Finite instances of FastWrite: sectors of three bytes.  LongWrite is the    *)
(* longest write, one byte more than two whole sectors.                        *)
EXTENDS FastWrite

SectorBytes == 3
LongWrite == 2 * SectorBytes + 1
=============================================================================
