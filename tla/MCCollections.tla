--------------------------- MODULE MCCollections ---------------------------
(* Small instances of Collections for TLC: a user with two collections and *)
(* an administrator with one.                                              *)
EXTENDS Collections, TLC

CONSTANTS user, admin, c1, c2, c3, r1, n1, n2, q1, q2

MCOwner == [x \in Collection \cup Receipt |-> IF x = c3 THEN admin ELSE user]

\* The user's collections, the names and the requests are interchangeable.
Symmetry == Permutations({c1, c2}) \cup Permutations({n1, n2}) \cup Permutations({q1, q2})

\* No action reads actor, and the properties ask only for its next value.
View == <<drawn, live, receipts, active, name, links, req>>
=============================================================================
