------------------------------- MODULE MCDag -------------------------------
(***************************************************************************)
(* Four validators, so a quorum of 3 distinct authors.  Vertices of rounds *)
(* 1 to 3 can gather quorums, so that a collected round holds the          *)
(* supporters of an older commit.  There are also an author's second       *)
(* vertex for one round, a round-0 vertex, and a parentless and an         *)
(* orphaned vertex of round 2.                                             *)
(***************************************************************************)
EXTENDS Dag

V(id, author, round, parents) ==
  [id |-> id, author |-> author, round |-> round, parents |-> parents]

MCVertices ==
  {V("g1", 1, 1, {}), V("g2", 2, 1, {}),
   V("a1", 1, 2, {"g1"}), V("a1b", 1, 2, {"g1", "g2"}),
   V("a2", 2, 2, {"g1", "g2"}), V("a3", 3, 2, {"g1"}), V("a4", 4, 2, {"g2"}),
   V("b1", 1, 3, {"a2"}), V("b2", 2, 3, {"a2", "a3"}), V("b3", 3, 3, {"a2"}),
   V("c1", 1, 4, {"b2"}), V("c2", 2, 4, {"b1", "b2"}), V("c3", 3, 4, {"b2"}),
   V("zero", 4, 0, {}), V("bare", 4, 2, {}), V("orphan", 4, 2, {"unknown"})}

=============================================================================
