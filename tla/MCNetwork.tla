----------------------------- MODULE MCNetwork -----------------------------
(***************************************************************************)
(* Two peers, a connection of either direction to each, room for two of    *)
(* the four; queues of one message; payloads that are fine, invalid, and *)
(* too long only once they are encoded.                                    *)
(***************************************************************************)
EXTENDS Network

CONSTANTS p1, p2

Msg(id, kind, ttl, size, width) ==
  [id |-> id, kind |-> kind, ttl |-> ttl, size |-> size, width |-> width]

MCOutgoing ==
  {Msg(1, "TransactionFluff", 0, 2, 2), Msg(2, "BlockProposal", 0, 4, 2),
   Msg(3, "TransactionStem", 0, 1, 2)}

MCGossip ==
  {Junk, Msg(4, "TransactionStem", 0, 1, 2), Msg(5, "Vote", 0, 1, 4),
   Msg(6, "DagVertex", 0, 2, 2)}

MCBootstraps == {{p1}, {p1, BadAddr}}

=============================================================================
