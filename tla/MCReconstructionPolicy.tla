----------------------- MODULE MCReconstructionPolicy -----------------------
(* The policy engine has no parameters: every context and every requested   *)
(* profile is checked.                                                      *)
EXTENDS ReconstructionPolicy
=============================================================================
