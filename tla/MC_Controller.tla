---------------------------- MODULE MC_Controller ----------------------------
(* Small instances of TektonTasksController.                                *)
EXTENDS LifecycleRefinement, TLC

Symmetric == Permutations(CRs)
=============================================================================
