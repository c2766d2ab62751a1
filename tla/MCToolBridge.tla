---------------------------- MODULE MCToolBridge ----------------------------
(* Instances of ToolBridge for TLC. *)
EXTENDS ToolBridge

CONSTANTS t1, t2, e1, e2

MCNames == {t1, t2}
MCExecs == {e1, e2}
=============================================================================
