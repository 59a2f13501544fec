------------------------ MODULE MCOutputController -------------------------
(***************************************************************************)
(* Instances of OutputController for TLC. Sinks, Chromecasts, module ids and *)
(* cast tasks are only compared, so permuting them is sound where no liveness *)
(* is checked.                                                             *)
(***************************************************************************)
EXTENDS OutputController, TLC

Symmetry == Permutations(Sinks) \cup Permutations(Casts)
              \cup Permutations(ModuleIds) \cup Permutations(SessionIds)
=============================================================================
