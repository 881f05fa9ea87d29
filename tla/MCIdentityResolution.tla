---------------------- MODULE MCIdentityResolution ----------------------
(* Two connectors: Okta with two users, SailPoint with one.                *)
EXTENDS IdentityResolution

CONSTANTS okta, sailpoint, o1, o2, s1, e1

MCListing  == [r \in Runs |-> IF r = okta THEN {o1, o2} ELSE {s1}]
\* "A" and "a" are one address in two spellings.
MCEmails   == {"a", "A", "b"}
MCLower    == [e \in MCEmails |-> IF e = "A" THEN "a" ELSE e]
P(email, employee) == [email |-> email, employee |-> employee]
\* o1 has no employee id, or no email; s1 shares o1's email or o2's employee id.
MCProfiles ==
  [a \in Accounts |-> CASE a = o1 -> {P("a", None), P(None, e1)}
                       []  a = o2 -> {P("b", e1)}
                       []  a = s1 -> {P("A", e1), P("b", None)}]
=============================================================================
