---------------------------- MODULE ParamRegister ----------------------------
(***************************************************************************)
(* What the parameter manager promises to the rest of the firmware: one    *)
(* stored parameter block that survives power loss and one working copy    *)
(* that does not.  The stored block is only ever replaced as a whole, by   *)
(* the working copy, and a power-up starts from the stored block.          *)
(***************************************************************************)
CONSTANTS Params,           \* parameter blocks
          FactoryDefault    \* the block of a device that was never configured

VARIABLES stored,   \* the block the next power-up will load
          working,  \* the block in memory (FactoryDefault while unpowered)
          live      \* TRUE while the device is powered and initialised

vars == <<stored, working, live>>

Init ==
  /\ stored = FactoryDefault
  /\ working = FactoryDefault
  /\ live = FALSE

\* Power-up: the working copy is the stored block.
Load ==
  /\ ~live
  /\ live' = TRUE
  /\ working' = stored
  /\ UNCHANGED stored

\* tls_param_set: some parameters of the working copy change.
Change ==
  /\ live
  /\ working' \in Params
  /\ UNCHANGED <<stored, live>>

\* The stored block is replaced by the working copy in one step.
Store ==
  /\ live
  /\ stored' = working
  /\ UNCHANGED <<working, live>>

\* Power loss: the working copy is gone, the stored block is not.
Lose ==
  /\ live
  /\ live' = FALSE
  /\ working' = FactoryDefault
  /\ UNCHANGED stored

Next == Load \/ Change \/ Store \/ Lose

Spec == Init /\ [][Next]_vars
=============================================================================
