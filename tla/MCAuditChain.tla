---------------------------- MODULE MCAuditChain ----------------------------
(***************************************************************************)
(* AuditChain with two recorders.                                          *)
(***************************************************************************)
EXTENDS AuditChain

CONSTANTS r1, r2, s1, s2, granted, calculated

MCRecorders == {r1, r2}
MCContents  == {granted, calculated}
OneSession  == {s1}
TwoSessions == {s1, s2}
=============================================================================
