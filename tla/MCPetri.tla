------------------------------- MODULE MCPetri -------------------------------
(* The net on the programs of MCPrograms where no transparent function is
   called, no statement is unsupported and every `switch` reads an Int. *)
EXTENDS PetriProps, MCPrograms
=============================================================================
