---------------------------- MODULE MCFlowMonitor ----------------------------
(* Values for checking FlowMonitor: see the .cfg files. *)
EXTENDS FlowMonitor
=============================================================================
