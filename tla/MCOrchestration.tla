--------------------------- MODULE MCOrchestration --------------------------
(* The task and the attention queue share no state, so no behaviour needs  *)
(* both: each is run with the other at rest.                               *)
EXTENDS Task, Attention

Init == TaskInit /\ AttentionInit
Next ==
  \/ raised = <<>> /\ TaskNext /\ UNCHANGED attentionVars
  \/ ops = 0 /\ AttentionNext /\ UNCHANGED taskVars

Spec == Init /\ [][Next]_<<taskVars, attentionVars>>
=============================================================================
