-------------------------- MODULE MCToolsLifecycle --------------------------
(* Model-checking instance of ToolsLifecycle: the six caches of            *)
(* uvm_tools_init, and a worker start that succeeds or fails with -ENOMEM. *)
EXTENDS ToolsLifecycle

MCQInitResults == {0, -ENOMEM}
=============================================================================
