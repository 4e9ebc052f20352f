------------------------------ MODULE MCLaunch ------------------------------
(***************************************************************************)
(* Two runs, one of which the host has registered itself and may have an   *)
(* operation open on when it ends.  Their requests name one session or     *)
(* none, and one of the providers "x/y" and "x_y", whose cleaned names are *)
(* the same.                                                               *)
(***************************************************************************)
EXTENDS Launch

MCRuns == {"r1", "r2"}
MCSessions == {"s"}
MCProviders == {"x/y", "x_y"}
MCRequests == [session : {"s"}, provider : MCProviders]
              \union {[session |-> "no session", provider |-> "x/y"]}
MCStem == [p \in MCProviders |-> "x_y"]
MCAttached == {"r2"}
MCHeld == {"r2"}
MCFaults == {"session", "provider", "checkpoint"}
=============================================================================
