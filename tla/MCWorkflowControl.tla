------------------------- MODULE MCWorkflowControl -------------------------
(* Two modules: b delivers, and its check needs a accepted.                   *)
EXTENDS WorkflowControl

MCSinkDeps == [n \in Nodes |-> IF n = Sink THEN Nodes \ {Sink} ELSE {}]

=============================================================================
