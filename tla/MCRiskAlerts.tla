---------------------------- MODULE MCRiskAlerts ----------------------------
(***************************************************************************)
(* One identity whose facts turn several rules on and off at once, and any *)
(* three requests of two assessments, two emissions and one list, with two *)
(* connections: two stores overlap, two emissions race, or the nested      *)
(* queries take the whole pool.  The window is longer than the hour.       *)
(***************************************************************************)
EXTENDS RiskAlerts
CONSTANTS i1, a1, a2, e1, e2, l1

MCIdentity == {i1}
MCAssess == {a1, a2}
MCEmit == {e1, e2}
MCList == {l1}

Plain == [admin |-> 0, main |-> {"active"}, elsewhere |-> TRUE, mfa |-> TRUE,
          deadends |-> {}]

MCFacts == {[Plain EXCEPT !.admin = 2, !.main = {"inactive"},
                          !.deadends = {"deadend_orphaned_group"}],
            [Plain EXCEPT !.admin = 1, !.main = {"disabled"}]}
=============================================================================
