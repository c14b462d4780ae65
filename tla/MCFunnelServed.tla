--------------------------- MODULE MCFunnelServed ---------------------------
(***************************************************************************)
(* FunnelServed on the instance of FunnelEngine.                           *)
(***************************************************************************)
EXTENDS MCFunnelEngine, FunnelServed
=============================================================================
