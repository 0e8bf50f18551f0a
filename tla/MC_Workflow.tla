----------------------------- MODULE MC_Workflow -----------------------------
(* The workflow for TLC. *)
EXTENDS Workflow

=============================================================================
