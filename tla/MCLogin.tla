------------------------------- MODULE MCLogin -------------------------------
(***************************************************************************)
(* Two handlers in progress, one network, two subjects, of which one may   *)
(* have a hash under the old parameters; both logins, right and wrong      *)
(* passwords, and two registrations that compete for a subject.            *)
(***************************************************************************)
EXTENDS Login, TLC

CONSTANTS r1, r2, net, ann, bob, right, wrong

Form(door, s, p) == [door |-> door, network |-> net, subject |-> s, password |-> p]

MCLogins == {Form("login", ann, right), Form("login", bob, right), Form("browser", ann, right)}

MCRegistrations == {[subject |-> ann, password |-> right], [subject |-> ann, password |-> wrong]}

MCKeys == {<<"login", net>>, <<"login", ann>>, <<"login", bob>>,
           <<"browser", net>>, <<"browser", ann>>}

\* ann is new or has an old hash; nobody has registered bob.
MCStored == {[s \in Subjects |-> None], (ann :> Hash(right, "legacy", None)) @@ (bob :> None)}

MCSymmetry == Permutations({r1, r2})
=============================================================================
