---------------------------- MODULE MCInterpNet ----------------------------
(* The interpreter, with its histories, on the programs of MCPetri. *)
EXTENDS InterpNet, MCPrograms

(* What the refinement is proved from holds of them. *)
ASSUME ComparedAssumption == (\A p \in Programs : Comparable(p)) /\ InitialValuesTyped
=============================================================================
