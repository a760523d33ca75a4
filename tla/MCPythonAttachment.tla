-------------------------- MODULE MCPythonAttachment --------------------------
(* Three attachments of one interpreter in turn: bounds are in the .cfg.     *)
EXTENDS PythonConnection
=============================================================================
