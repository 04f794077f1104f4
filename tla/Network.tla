------------------------------ MODULE Network ------------------------------
(***************************************************************************)
(* The peer-to-peer transport (crates/subhost-network): one                *)
(* NetworkManager, its connections, and the two bounded channels between   *)
(* the swarm and the application that holds the NetworkHandle.             *)
(*                                                                         *)
(* libp2p is external: connections to a peer open and close at any time,   *)
(* several of them at once, and gossipsub hands over a message at most     *)
(* once, late or never.  An arm of the select loop runs to its end before  *)
(* the next one is picked; picking a gossip event and handling it are two  *)
(* steps, so that what happens around a full channel is visible.           *)
(***************************************************************************)
EXTENDS Naturals, FiniteSets, Sequences, Functions

CONSTANTS
  Peers,            \* the remote peers
  BadAddr,          \* an address that does not parse
  Junk,             \* a gossip payload that does not decode
  Idle,             \* the manager is between two events
  Bootstraps,       \* the values NetworkConfig::bootstrap_peers may have
  MaxPeers,         \* NetworkConfig::max_peers
  Capacity,         \* CHANNEL_CAPACITY
  MaxTransmitBytes, \* MAX_TRANSMIT_BYTES
  Outgoing,         \* the messages the application has to send
  Gossip,           \* what peers and other software publish on the topic
  ConnIds           \* bound on the connections to one peer in one direction

ASSUME NetworkAssumption ==
  /\ Bootstraps \subseteq SUBSET (Peers \cup {BadAddr})
  /\ BadAddr \notin Peers
  /\ MaxPeers \in Nat
  /\ Capacity \in Nat \ {0}
  /\ Idle \notin Gossip

VARIABLES
  bootstrap,        \* NetworkConfig::bootstrap_peers
  status,           \* "new", "refused", "built", "running", "failed", "stopped"
  known,            \* the peers the swarm was given an address of
  conns,            \* the connections of the swarm
  connected_peers,  \* NetworkManager::connected_peers
  handle,           \* whether the application still holds its NetworkHandle
  outbound,         \* the channel from the application
  inbound,          \* the channel to the application
  event,            \* the gossip message an arm of the select loop handles
  seen,             \* the messages gossipsub handed over
  unsent,           \* the messages the application has not sent yet
  published,        \* history: messages gossipsub took
  dropped           \* history: messages refused or lost on the way out

peering == <<bootstrap, known, conns, connected_peers>>
queues == <<outbound, inbound, event, seen, unsent, published, dropped>>
networkVars == <<status, handle, peering, queues>>

-----------------------------------------------------------------------------
(* NetworkConfig and NetworkMessage.                                       *)

ParsedAddresses == MaxPeers > 0 /\ BadAddr \notin bootstrap

ValidateMessage(m) ==
  /\ m.kind = "TransactionStem" => m.ttl > 0
  /\ m.size \in 1..MaxTransmitBytes

(* serde_json writes a byte as its decimal digits and a separator: `width` *)
(* characters for one byte of this payload, between two and four.          *)
EncodedLen(m) == m.size * m.width

-----------------------------------------------------------------------------

Connection == [id : ConnIds, peer : Peers, incoming : BOOLEAN]

Neighbours == {c.peer : c \in conns}

(* ConnectionLimits: in total and in each direction.                       *)
WithinLimits(c) ==
  /\ Cardinality(conns) < MaxPeers
  /\ Cardinality({d \in conns : d.incoming = c.incoming}) < MaxPeers

NetworkInit ==
  /\ bootstrap \in Bootstraps
  /\ status = "new"
  /\ known = {}
  /\ conns = {}
  /\ connected_peers = {}
  /\ handle = FALSE
  /\ outbound = <<>>
  /\ inbound = <<>>
  /\ event = Idle
  /\ seen = {}
  /\ unsent = Outgoing
  /\ published = {}
  /\ dropped = {}

(* NetworkManager::new checks the configuration before anything else.      *)
New ==
  /\ status = "new"
  /\ status' = IF ParsedAddresses THEN "built" ELSE "refused"
  /\ handle' = ParsedAddresses
  /\ UNCHANGED <<peering, queues>>

(* run: listen, then dial the bootstrap peers.  A listener that cannot be  *)
(* opened ends run; a peer that cannot be dialled does not.                *)
Run ==
  /\ status = "built"
  /\ status' = "running"
  /\ known' = bootstrap
  /\ UNCHANGED <<handle, bootstrap, conns, connected_peers, queues>>

CannotListen ==
  /\ status = "built"
  /\ status' = "failed"
  /\ UNCHANGED <<handle, peering, queues>>

Picking == status = "running" /\ event = Idle

-----------------------------------------------------------------------------
(* handle_event: connections.                                              *)

(* A peer dials in, or answers a dial to an address that is known; beyond  *)
(* the limits the connection is denied and no event is raised.             *)
ConnectionEstablished(c) ==
  /\ Picking
  /\ c \notin conns
  /\ c.incoming \/ c.peer \in known
  /\ WithinLimits(c)
  /\ conns' = conns \cup {c}
  /\ connected_peers' = connected_peers \cup {c.peer}
  /\ UNCHANGED <<status, handle, bootstrap, known, queues>>

(* Mutant of ConnectionClosed: the peer stays in the set.                  *)
ConnectionClosedKept(c) ==
  /\ Picking
  /\ conns' = conns \ {c}
  /\ UNCHANGED <<status, handle, bootstrap, known, connected_peers, queues>>

(* Either end gives a connection up: idle for a minute, or an error.  The  *)
(* peer leaves the set with any of its connections, whether or not it has  *)
(* another.                                                                *)
ConnectionClosed(c) ==
  /\ Picking
  /\ conns' = conns \ {c}
  /\ connected_peers' = connected_peers \ {c.peer}
  /\ UNCHANGED <<status, handle, bootstrap, known, queues>>

MdnsDiscovered(p) ==
  /\ Picking
  /\ known' = known \cup {p}
  /\ UNCHANGED <<status, handle, bootstrap, conns, connected_peers, queues>>

-----------------------------------------------------------------------------
(* Messages out.                                                           *)

(* The application sends; a full channel makes it wait.                    *)
Send(m) ==
  /\ handle
  /\ m \in unsent
  /\ Len(outbound) < Capacity
  /\ outbound' = Append(outbound, m)
  /\ unsent' = unsent \ {m}
  /\ UNCHANGED <<status, handle, peering, inbound, event, seen, published, dropped>>

(* What gossipsub takes: it has a peer, and the encoding fits.             *)
Transmittable(m) == EncodedLen(m) <= MaxTransmitBytes /\ Neighbours # {}

(* publish: an invalid message is refused; one gossipsub does not take is  *)
(* lost, which is logged and not an error.                                 *)
Publish ==
  /\ Picking
  /\ outbound # <<>>
  /\ LET m == Head(outbound)
     IN  IF ValidateMessage(m) /\ Transmittable(m)
           THEN published' = published \cup {m} /\ UNCHANGED dropped
           ELSE dropped' = dropped \cup {m} /\ UNCHANGED published
  /\ outbound' = Tail(outbound)
  /\ UNCHANGED <<status, handle, peering, inbound, event, seen, unsent>>

-----------------------------------------------------------------------------
(* Messages in.                                                            *)

(* select! picks an event gossipsub raises for a message it has not seen.  *)
PickGossip(m) ==
  /\ Picking
  /\ Neighbours # {}
  /\ m \notin seen
  /\ event' = m
  /\ seen' = seen \cup {m}
  /\ UNCHANGED <<status, handle, peering, outbound, inbound, unsent, published,
                 dropped>>

Deliverable(m) == m # Junk /\ ValidateMessage(m)

(* Mutant of HandleGossip: send().await where the code has try_send().     *)
HandleGossipBlocking ==
  /\ event # Idle
  /\ event' = Idle
  /\ IF Deliverable(event) /\ handle
       THEN Len(inbound) < Capacity /\ inbound' = Append(inbound, event)
       ELSE UNCHANGED inbound
  /\ UNCHANGED <<status, handle, peering, outbound, seen, unsent, published, dropped>>

(* handle_gossip: decode, validate, try_send.  A full channel, or one      *)
(* whose receiver is gone, loses the message.                              *)
HandleGossip ==
  /\ event # Idle
  /\ event' = Idle
  /\ inbound' = IF Deliverable(event) /\ handle /\ Len(inbound) < Capacity
                  THEN Append(inbound, event) ELSE inbound
  /\ UNCHANGED <<status, handle, peering, outbound, seen, unsent, published, dropped>>

Receive ==
  /\ handle
  /\ inbound # <<>>
  /\ inbound' = Tail(inbound)
  /\ UNCHANGED <<status, handle, peering, outbound, event, seen, unsent, published,
                 dropped>>

-----------------------------------------------------------------------------
(* Shutdown.                                                               *)

DropHandle ==
  /\ handle
  /\ handle' = FALSE
  /\ inbound' = <<>>
  /\ UNCHANGED <<status, peering, outbound, event, seen, unsent, published, dropped>>

(* recv() returns None once the sender is gone and the channel is empty.   *)
SenderGone == ~handle /\ outbound = <<>>

(* The loop ends and the swarm goes with the manager.                      *)
StopManager ==
  /\ Picking
  /\ SenderGone
  /\ status' = "stopped"
  /\ conns' = {}
  /\ connected_peers' = {}
  /\ UNCHANGED <<handle, bootstrap, known, queues>>

NetworkNext ==
  \/ New \/ Run \/ CannotListen
  \/ \E c \in Connection : ConnectionEstablished(c)
  \/ \E c \in conns : ConnectionClosed(c)
  \/ \E p \in Peers : MdnsDiscovered(p)
  \/ \E m \in Outgoing : Send(m)
  \/ Publish
  \/ \E m \in Gossip : PickGossip(m)
  \/ HandleGossip \/ Receive \/ DropHandle \/ StopManager

NetworkSpec == NetworkInit /\ [][NetworkNext]_networkVars

(* The loop runs, and select! polls its arms in random order: an arm that  *)
(* is ready again and again is taken.  Nothing is assumed of the network   *)
(* or of the application: it may never read its inbound channel.           *)
FairSpec ==
  /\ NetworkSpec
  /\ WF_networkVars(HandleGossip)
  /\ SF_networkVars(Publish) /\ SF_networkVars(StopManager)

-----------------------------------------------------------------------------

(* connected_peers, and so connected_peer_count, never holds a peer without *)
(* a connection, however several connections to one peer open, close and    *)
(* are denied.  (It may miss a peer: closing one of two removes it.)        *)
PeersAreConnected == connected_peers \subseteq Neighbours

(* "A full application queue must shed load, not stall the swarm": every    *)
(* message given to a running manager leaves the outbound channel, and a    *)
(* manager whose handle is gone stops, although the application never has   *)
(* to read what it receives.                                                *)
SwarmKeepsPumping ==
  /\ \A m \in Outgoing :
       (status = "running" /\ m \in Range(outbound)) ~> (m \in published \cup dropped)
  /\ (status = "running" /\ ~handle) ~> (status = "stopped")

=============================================================================
