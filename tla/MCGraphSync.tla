----------------------------- MODULE MCGraphSync -----------------------------
(***************************************************************************)
(* A user and a group with an admin role; and either a second admin role   *)
(* of another system, a permission and a resource, or a super_admin role   *)
(* of that system and a second user, without display name and employee id. *)
(* What is not there may come, and links: one insert in all.  IQL returns  *)
(* two rows.                                                               *)
(* Two syncs, or a sync and a reader, with one failure.                    *)
(* The syncs are alike: nothing but their names tells them apart.          *)
(***************************************************************************)
EXTENDS GraphSync, TLC
CONSTANTS u1, u2, g1, r1, r2, r3, p1, x1, s1, s2, d1, okta, aws

Symmetry == Permutations({s1, s2})

MCUser == {u1, u2}
MCGroup == {g1}
MCRole == {r1, r2, r3}
MCPermission == {p1}
MCResource == {x1}
MCSystemOf == [r \in MCRole |-> IF r = r1 THEN okta ELSE aws]
MCReadable == {u1, g1, r1, r2, r3, p1, x1}

Rows == {u1, g1, r1}
Links == {<<u1, r1>>, <<g1, r1>>}

MCTables == {[rows |-> Rows \cup {r2, p1, x1},
              links |-> Links \cup {<<u1, r2>>, <<u1, g1>>, <<r1, p1>>}],
             [rows |-> Rows \cup {u2, r3}, links |-> Links \cup {<<u1, r3>>, <<u2, g1>>}]}

\* Nothing is asked.
Ask == [system |-> None, role |-> None, group |-> None, mfa |-> None,
        active |-> None, email |-> None]

Text(contains, equals) == [contains |-> contains, equals |-> equals]

Email(contains, ilike) == [contains |-> contains, ilike |-> ilike]

MCIqlQuery == {[Ask EXCEPT !.system = {aws}, !.mfa = FALSE],
               [Ask EXCEPT !.role = Text({r1, r2}, {r1})],
               [Ask EXCEPT !.role = Text({r2}, {r2}), !.active = TRUE],
               [Ask EXCEPT !.group = Text({g1}, {})],
               [Ask EXCEPT !.group = Text({g1}, {g1}), !.system = {okta}],
               [Ask EXCEPT !.active = TRUE, !.email = Email({}, {u1})],
               [Ask EXCEPT !.system = {okta}, !.email = Email({u1}, {u1, u2})],
               [Ask EXCEPT !.mfa = TRUE, !.email = Email({u1}, {u1, u2})],
               Ask}
=============================================================================
