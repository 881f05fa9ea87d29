--------------------------- MODULE MCRemediation ---------------------------
(***************************************************************************)
(* One action, three requests (create, and two that decide or retry), one  *)
(* fault: enough for two approvals, or an approval and a rejection, to     *)
(* race, and for a crash or a failed statement between any two steps.      *)
(***************************************************************************)
EXTENDS Remediation
CONSTANTS a1, h1, h2, h3

MCActions     == {a1}
MCHandlers    == {h1, h2, h3}
MCActionTypes == {"disable_user", "other"}
MCKnownTypes  == {"disable_user"}
=============================================================================
