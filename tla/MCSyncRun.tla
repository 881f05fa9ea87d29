------------------------------ MODULE MCSyncRun ------------------------------
(***************************************************************************)
(* Two executions, each of any of the deployed connectors, so that two of  *)
(* the same one overlap or follow each other.  Two faults let a step fail  *)
(* while the other run is signalled, killed, or fails too.                 *)
(***************************************************************************)
EXTENDS SyncRun
CONSTANTS p1, p2

MCProcess   == {p1, p2}
MCConnector == {"okta", "sailpoint", "gcp"}
MCOneProcess == {p1}
MCOkta == {"okta"}
=============================================================================
