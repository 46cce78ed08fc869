---------------------------- MODULE MCMaintenance ----------------------------
(***************************************************************************)
(* Instances of Maintenance for TLC.                                       *)
(***************************************************************************)
EXTENDS Maintenance

CONSTANTS w1, w2, c1, c2, f1, f2

\* Each two operations that share state meet in one of these.
MCScenes ==
    { [parts |-> {"vacuum", "fix"}, writes |-> {"rewrite", "vectors"}],
      [parts |-> {"vacuum", "checkpoint"}, writes |-> {"rewrite", "vectors"}],
      [parts |-> {"fix", "loss"}, writes |-> {"append", "rewrite", "vectors"}],
      [parts |-> {"cleanup", "checkpoint", "v2"}, writes |-> {"append"}] }

Symmetry == Permutations(Cleaner) \cup Permutations(Writer)

=============================================================================
