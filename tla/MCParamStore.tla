---------------------------- MODULE MCParamStore ----------------------------
(* Finite instances of ParamStore.  Params is a symmetric set apart from the *)
(* factory default, which is one of its members.                            *)
EXTENDS ParamStore, TLC

CONSTANTS dflt, p1, p2, t1, t2

MCParams == {dflt, p1, p2}
MCTasks == {t1, t2}
OneTask == {t1}
TwoParams == {dflt, p1}

\* Tasks are interchangeable: a safety run may count their permutations as one.
TaskSymmetry == Permutations(MCTasks)

\* Everything but the history of reported saves, which no step reads.
WithoutHistory == <<flash, ram, magic, crc, mode, sem, fls, job>>
=============================================================================
