---------------------------- MODULE MCMembership ----------------------------
(* Instances of Membership for TLC.                                        *)
EXTENDS Membership, TLC

CONSTANTS e1, e2, p1, p2, m1

Named(email) == [email |-> email, password |-> Own, mustChange |-> FALSE,
                 signedIn |-> TRUE, invited |-> FALSE]

\* One user, who owns a project.
OneOwner  == [users |-> [u \in UserIds |-> IF u = 1 THEN Named(e1) ELSE NoUser],
              members |-> {[row |-> m1, user |-> 1, project |-> p1, role |-> "owner"]}]

MCTables == {OneOwner}

Symmetry == Permutations(Requests)
=============================================================================
