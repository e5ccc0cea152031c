---- MODULE MCSandbox ----
(* One invocation that makes up to three host calls, reads the latest block *)
(* or block 0, while the head moves once.                                   *)
EXTENDS Sandbox

MCPinned == {0}
====
