-------------------------------- MODULE Dag --------------------------------
(***************************************************************************)
(* subhost_consensus::DAG: admission, quorum support, commitment and       *)
(* garbage collection of dissemination vertices.  A vertex is a record of  *)
(* its author, its round and the set of its parents' hashes; its hash is   *)
(* its field id, which Vertices gives injectively.  The order within a     *)
(* round's Vec is left out: every query over it is order-free.             *)
(***************************************************************************)
EXTENDS ConsensusConfig, FiniteSets, Functions

CONSTANTS
  Vertices,    \* vertices peers may hand to this node
  KeepRounds   \* arguments gc is called with

ASSUME DagAssumption ==
  /\ \A v \in Vertices :
       v = [id |-> v.id, author |-> v.author, round |-> v.round, parents |-> v.parents]
  /\ \A v \in Vertices : v.round \in Nat /\ IsFiniteSet(v.parents)
  /\ \A v, w \in Vertices : v.id = w.id => v = w
  /\ IsFiniteSet(Vertices)
  /\ KeepRounds \subseteq Nat

Ids == {v.id : v \in Vertices}

VARIABLES
  vertices,      \* DAG::vertices, all rounds together
  index,         \* DAG::index: hash -> round
  edges,         \* DAG::edges: hash -> parents
  committed,     \* DAG::committed
  everCommitted  \* history: hashes mark_committed has accepted

dagVars == <<vertices, index, edges, committed, everCommitted>>

DagInit ==
  /\ vertices = {}
  /\ index = <<>>
  /\ edges = <<>>
  /\ committed = {}
  /\ everCommitted = {}

-----------------------------------------------------------------------------

AdmissibleOneParent(v) ==
  /\ v.round # 0
  /\ v.id \notin DOMAIN index
  /\ v.round > 1 => \E p \in v.parents : p \in DOMAIN index

Admissible(v) ==
  /\ v.round # 0
  /\ v.id \notin DOMAIN index
  /\ v.round > 1 => v.parents # {} /\ v.parents \subseteq DOMAIN index

(* A vertex already indexed, or refused, changes nothing.                  *)
AddVertex(v) ==
  /\ Admissible(v)
  /\ vertices' = vertices \cup {v}
  /\ index' = [h \in DOMAIN index \cup {v.id} |-> IF h = v.id THEN v.round ELSE index[h]]
  /\ edges' = [h \in DOMAIN edges \cup {v.id} |-> IF h = v.id THEN v.parents ELSE edges[h]]
  /\ UNCHANGED <<committed, everCommitted>>

(* The distinct authors of the next round that name h as a parent.         *)
Supporters(h) ==
  {v.author : v \in {w \in vertices : w.round = index[h] + 1 /\ h \in w.parents}}

SupportFor(h) == IF h \in DOMAIN index THEN Cardinality(Supporters(h)) ELSE 0

HasQuorumSupport(h) == SupportFor(h) >= QuorumThreshold(ValidatorCount)

CanCommit(h) == h \in DOMAIN index /\ HasQuorumSupport(h)

MarkCommitted(h) ==
  /\ CanCommit(h)
  /\ committed' = committed \cup {h}
  /\ everCommitted' = everCommitted \cup {h}
  /\ UNCHANGED <<vertices, index, edges>>

(* latest.saturating_sub(keep_rounds).                                     *)
Cutoff(latest, keep) == IF latest >= keep THEN latest - keep ELSE 0

IsLatestRound(r) ==
  IF vertices = {} THEN r = 0
  ELSE /\ \E v \in vertices : v.round = r
       /\ \A v \in vertices : v.round <= r

SurvivorsCommitted(cutoff) == {v \in vertices : v.round >= cutoff \/ v.id \in committed}

(* The vertices that survive a collection up to cutoff.                    *)
Survivors(cutoff) == {v \in vertices : v.round >= cutoff \/ v.id \notin committed}

StillCommitted(ids) == committed \cap ids

(* gc rebuilds the indexes from the vertices that survived.                *)
Gc(keep) ==
  \E latest \in {v.round : v \in vertices} \cup {0} :
    LET live == Survivors(Cutoff(latest, keep))
        ids  == {v.id : v \in live}
    IN  /\ IsLatestRound(latest)
        /\ vertices' = live
        /\ index' = [h \in DOMAIN index \cap ids |-> index[h]]
        /\ edges' = [h \in DOMAIN edges \cap ids |-> edges[h]]
        /\ committed' = StillCommitted(ids)
        /\ UNCHANGED everCommitted

DagNext ==
  \/ \E v \in Vertices : AddVertex(v)
  \/ \E h \in Ids : MarkCommitted(h)
  \/ \E keep \in KeepRounds : Gc(keep)

DagSpec == DagInit /\ [][DagNext]_dagVars

-----------------------------------------------------------------------------

(* A vertex that is held as committed still has its quorum of next-round   *)
(* authors: collection never takes the support from under a commit that    *)
(* it keeps.                                                               *)
CommittedHasSupport == \A h \in committed : HasQuorumSupport(h)

(* No dangling history: a parent of a vertex beyond round 1 is held, or    *)
(* was committed before it was collected.                                  *)
ParentsHeldOrCommitted ==
  \A v \in vertices :
    v.round > 1 => v.parents # {} /\ v.parents \subseteq DOMAIN index \cup everCommitted

=============================================================================
