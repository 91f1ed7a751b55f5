----------------------------- MODULE MCColdPath -----------------------------
(* ColdPath with two control processes.                                    *)
EXTENDS ColdPath
=============================================================================
