---------------------------- MODULE MCPythonRun -----------------------------
(***************************************************************************)
(* A channel of one place, a queue of two and up to six events, so that    *)
(* both fill up; the code has 128 places in each.                          *)
(***************************************************************************)
EXTENDS PythonRun
=============================================================================
