----------------------------- MODULE MCRunTable -----------------------------
(***************************************************************************)
(* The run table on a run and its child.  The child has a hook and a       *)
(* deferred operation; two threads may be inside finish, cancel or         *)
(* cancel_tree at the same time.                                           *)
(***************************************************************************)
EXTENDS RunTable, TLC

CONSTANTS c1, c2

MCRuns == {"root", "kid"}
MCParentOf == [root |-> "none", kid |-> "root"]
MCOps == {"op"}
MCRunOf == [op |-> "kid"]
MCModeOf == [op |-> "DeferredCommit"]
MCCallOf == [w \in {} |-> 0]
MCHooks == {"h1"}
MCHookRun == [h1 |-> "kid"]
MCSymmetry == Permutations({c1, c2})
=============================================================================
