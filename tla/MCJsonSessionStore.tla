------------------------- MODULE MCJsonSessionStore -------------------------
(***************************************************************************)
(* Two clients of the file store, on two sessions so that a deleted or     *)
(* damaged record of one meets the calls on the other.                     *)
(***************************************************************************)
EXTENDS JsonSessionStore

MCSessions == {"kept", "gone"}
MCClients == {"a", "b"}
MCRemovable == {"gone"}
=============================================================================
