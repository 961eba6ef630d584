----------------------------- MODULE MCStorage -----------------------------
(* The sets of options that the small instances of Storage give a run.     *)
EXTENDS Storage

MCAllOptions == SUBSET Files
=============================================================================
