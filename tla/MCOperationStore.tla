-------------------------- MODULE MCOperationStore --------------------------
(***************************************************************************)
(* The operation store on a run with a blocking approval, which carries a  *)
(* deadline, and a deferred commit.  One task waits for each, a third one  *)
(* calls the method that does not fit the operation.  The second run owns  *)
(* nothing: calls in its name are refused.                                 *)
(***************************************************************************)
EXTENDS OperationStore

MCRuns == {"r1", "r2"}
MCOps == {"ask", "commit"}
MCWaiters == {"w1", "w2", "w3"}
MCRunOf == [ask |-> "r1", commit |-> "r1"]
MCModeOf == [ask |-> "BlockingApproval", commit |-> "DeferredCommit"]
MCTimed == {"ask"}
MCCallOf == [w1 |-> [run |-> "r1", op |-> "ask", mode |-> "BlockingApproval"],
             w2 |-> [run |-> "r1", op |-> "commit", mode |-> "DeferredCommit"],
             w3 |-> [run |-> "r1", op |-> "ask", mode |-> "DeferredCommit"]]
=============================================================================
