-------------------------------- MODULE Ibc --------------------------------
(***************************************************************************)
(* subhost_ibc::IbcModule on the two chains of a connection, and the       *)
(* relayers between them.  Each chain runs the whole module.  A relayer    *)
(* may deliver any packet that was ever sent, in any order, twice or       *)
(* never.                                                                  *)
(*                                                                         *)
(* A channel id "channel-k" is the position k + 1 in the sequence of the   *)
(* chain's channels.  A port is fixed per channel end and part of the      *)
(* binding, so it is folded into the channel id.  The payload is a valid   *)
(* transfer of the sending channel, which is what send_transfer            *)
(* serialises.  A refused call changes nothing and is no step, with the    *)
(* one exception of ReceiveOverflow.  A packet's field from is for the     *)
(* relayers, the code has no such field.                                   *)
(***************************************************************************)
EXTENDS Integers, Sequences, FiniteSets

CONSTANTS
  Chains,          \* IbcConfig::chain_id and ::counterparty_chain_id
  Senders,         \* chains whose users send transfers
  Openings,        \* <<chain, counterparty, ordering>> of the open_channel calls
  MaxChannels,     \* bound on the channels of each chain
  MaxSequence,     \* the largest sequence number (u64::MAX)
  MaxSends,        \* bound on the transfers a chain sends
  MaxHeight,       \* bound on the heights
  MaxTime,         \* bound on the clock
  TimeoutBlocks,   \* DEFAULT_TIMEOUT_BLOCKS
  TimeoutSeconds   \* DEFAULT_TIMEOUT_SECONDS

ASSUME IbcAssumption ==
  /\ IsFiniteSet(Chains) /\ Cardinality(Chains) = 2
  /\ MaxChannels \in [Chains -> Nat]
  /\ Senders \subseteq Chains
  /\ Openings \subseteq Chains \X Nat \X {"Unordered", "Ordered"}
  /\ {MaxSends, MaxHeight, MaxTime} \subseteq Nat
  /\ {MaxSequence, TimeoutBlocks, TimeoutSeconds} \subseteq Nat \ {0}

VARIABLES
  channels,   \* IbcModule::channels
  sent,       \* IbcModule::sent_packets
  nextSend,   \* IbcModule::next_sequence_send
  nextRecv,   \* IbcModule::next_sequence_recv
  received,   \* IbcModule::received_packets
  acked,      \* IbcModule::acknowledged_packets
  height,     \* IbcModule::current_height
  now,        \* unix_timestamp(), the same on every chain
  wire,       \* every packet ever sent, as the relayers saw it
  delivered,  \* history: the packets whose transfer receive_packet returned
  timedOut    \* history: the sequences timeout_packet dropped

ibcVars == <<channels, sent, nextSend, nextRecv, received, acked, height, now,
             wire, delivered, timedOut>>

Ids == UNION {1..MaxChannels[c] : c \in Chains}
Sequences == 1..MaxSequence
States == {"Init", "TryOpen", "Open", "Closed"}

IbcChannel == [state : States, ordering : {"Unordered", "Ordered"}, counterparty : Nat]

IbcPacket == [sequence : Sequences, source : Ids, destination : Nat,
              timeoutHeight : Nat, timeoutTimestamp : Nat, from : Chains]

IbcInit ==
  /\ channels = [c \in Chains |-> <<>>]
  /\ sent = [c \in Chains |-> {}]
  /\ nextSend = [c \in Chains |-> 1]
  /\ nextRecv = [c \in Chains |-> [ch \in Ids |-> 1]]
  /\ received = [c \in Chains |-> {}]
  /\ acked = [c \in Chains |-> {}]
  /\ height = [c \in Chains |-> 0]
  /\ now = 0
  /\ wire = {}
  /\ delivered = [c \in Chains |-> <<>>]
  /\ timedOut = [c \in Chains |-> {}]

-----------------------------------------------------------------------------
(* Heights, time and channels.                                             *)

SetCurrentHeight(c, h) ==
  /\ height' = [height EXCEPT ![c] = h]
  /\ UNCHANGED <<channels, sent, nextSend, nextRecv, received, acked, now,
                 wire, delivered, timedOut>>

Tick ==
  /\ now < MaxTime
  /\ now' = now + 1
  /\ UNCHANGED <<channels, sent, nextSend, nextRecv, received, acked, height,
                 wire, delivered, timedOut>>

OpenChannel(c, counterparty, ordering) ==
  /\ Len(channels[c]) < MaxChannels[c]
  /\ channels' = [channels EXCEPT ![c] = Append(@,
       [state |-> "Init", ordering |-> ordering, counterparty |-> counterparty])]
  /\ UNCHANGED <<sent, nextSend, nextRecv, received, acked, height, now,
                 wire, delivered, timedOut>>

Allowed(from, to) ==
  \/ from = "Init" /\ to \in {"TryOpen", "Open"}
  \/ from = "TryOpen" /\ to = "Open"
  \/ from # "Closed" /\ to = "Closed"

SetChannelState(c, ch, state) ==
  /\ Allowed(channels[c][ch].state, state)
  /\ channels' = [channels EXCEPT ![c][ch].state = state]
  /\ UNCHANGED <<sent, nextSend, nextRecv, received, acked, height, now,
                 wire, delivered, timedOut>>

-----------------------------------------------------------------------------
(* Sending, and what ends a sent packet.                                   *)

NewPacket(c, ch) ==
  [sequence |-> nextSend[c], source |-> ch,
   destination |-> channels[c][ch].counterparty,
   timeoutHeight |-> height[c] + TimeoutBlocks,
   timeoutTimestamp |-> now + TimeoutSeconds, from |-> c]

AfterSend(sequence) == sequence + 1

(* checked_add refuses the last sequence before the packet is stored.      *)
CanSend(c, ch) ==
  channels[c][ch].state = "Open" /\ nextSend[c] + 1 \in Sequences

SendTransfer(c, ch) ==
  /\ CanSend(c, ch)
  /\ Cardinality({p \in wire : p.from = c}) < MaxSends
  /\ nextSend' = [nextSend EXCEPT ![c] = AfterSend(@)]
  /\ sent' = [sent EXCEPT ![c] = @ \cup {NewPacket(c, ch)}]
  /\ wire' = wire \cup {NewPacket(c, ch)}
  /\ UNCHANGED <<channels, nextRecv, received, acked, height, now, delivered,
                 timedOut>>

AcknowledgePacket(c, p) ==
  /\ p \in sent[c]
  /\ p.sequence \notin acked[c]
  /\ acked' = [acked EXCEPT ![c] = @ \cup {p.sequence}]
  /\ UNCHANGED <<channels, sent, nextSend, nextRecv, received, height, now,
                 wire, delivered, timedOut>>

Expired(c, p) == p.timeoutHeight <= height[c] \/ p.timeoutTimestamp <= now

CanTimeoutAcked(c, p) == Expired(c, p)
CanTimeout(c, p) == p.sequence \notin acked[c] /\ Expired(c, p)

TimeoutPacket(c, p) ==
  /\ p \in sent[c]
  /\ CanTimeout(c, p)
  /\ sent' = [sent EXCEPT ![c] = @ \ {p}]
  /\ timedOut' = [timedOut EXCEPT ![c] = @ \cup {p.sequence}]
  /\ UNCHANGED <<channels, nextSend, nextRecv, received, acked, height, now,
                 wire, delivered>>

-----------------------------------------------------------------------------
(* Receiving.                                                              *)

Bound(c, p) ==
  /\ p.destination \in DOMAIN channels[c]
  /\ channels[c][p.destination].state \in {"Open", "TryOpen"}
  /\ channels[c][p.destination].counterparty = p.source

ReceiptKey(p) == <<p.source, p.sequence>>

NoReplayCheck(c, p) == TRUE
NotReplayed(c, p) == ReceiptKey(p) \notin received[c]

InOrderOrLater(c, p) ==
  channels[c][p.destination].ordering = "Ordered"
    => p.sequence >= nextRecv[c][p.destination]
InOrder(c, p) ==
  channels[c][p.destination].ordering = "Ordered"
    => p.sequence = nextRecv[c][p.destination]

CanReceive(c, p) ==
  Bound(c, p) /\ ~Expired(c, p) /\ NotReplayed(c, p) /\ InOrder(c, p)

(* The counter moves past every delivery, on unordered channels too.       *)
AfterRecv(next, sequence) == (IF next >= sequence THEN next ELSE sequence) + 1

ReceivePacket(c, p) ==
  /\ CanReceive(c, p)
  /\ LET next == AfterRecv(nextRecv[c][p.destination], p.sequence) IN
       /\ next \in Sequences
       /\ nextRecv' = [nextRecv EXCEPT ![c][p.destination] = next]
  /\ received' = [received EXCEPT ![c] = @ \cup {ReceiptKey(p)}]
  /\ delivered' = [delivered EXCEPT ![c] = Append(@, p)]
  /\ UNCHANGED <<channels, sent, nextSend, acked, height, now, wire, timedOut>>

(* The counter overflows after the receipt is stored: the call fails.      *)
ReceiveOverflow(c, p) ==
  /\ CanReceive(c, p)
  /\ AfterRecv(nextRecv[c][p.destination], p.sequence) \notin Sequences
  /\ received' = [received EXCEPT ![c] = @ \cup {ReceiptKey(p)}]
  /\ UNCHANGED <<channels, sent, nextSend, nextRecv, acked, height, now, wire,
                 delivered, timedOut>>

IbcNext ==
  \/ Tick
  \/ \E o \in Openings : OpenChannel(o[1], o[2], o[3])
  \/ \E c \in Chains :
       \/ \E h \in 0..MaxHeight : SetCurrentHeight(c, h)
       \/ \E ch \in DOMAIN channels[c], state \in States : SetChannelState(c, ch, state)
       \/ \E p \in sent[c] : AcknowledgePacket(c, p) \/ TimeoutPacket(c, p)
       \/ \E p \in wire : p.from # c /\ (ReceivePacket(c, p) \/ ReceiveOverflow(c, p))
  \/ \E c \in Senders : \E ch \in DOMAIN channels[c] : SendTransfer(c, ch)

IbcSpec == IbcInit /\ [][IbcNext]_ibcVars

-----------------------------------------------------------------------------

(* Counters stay within their width, a chain keeps to its own packets.     *)
TypeOK ==
  /\ channels \in [Chains -> Seq(IbcChannel)]
  /\ \A c \in Chains : Len(channels[c]) <= MaxChannels[c]
  /\ wire \subseteq IbcPacket
  /\ sent \in [Chains -> SUBSET wire]
  /\ nextSend \in [Chains -> Sequences]
  /\ nextRecv \in [Chains -> [Ids -> Sequences]]
  /\ received \in [Chains -> SUBSET (Ids \X Sequences)]
  /\ acked \in [Chains -> SUBSET Sequences]
  /\ height \in [Chains -> Nat]
  /\ now \in Nat
  /\ delivered \in [Chains -> Seq(wire)]
  /\ timedOut \in [Chains -> SUBSET Sequences]

(* A transfer is settled once: acknowledge_packet and timeout_packet never *)
(* both succeed for one sequence, in whichever order the relayers call     *)
(* them, so an escrow is not both released and freed.                      *)
SettledOnce ==
  \A c \in Chains :
    /\ acked[c] \cap timedOut[c] = {}
    /\ \A p \in sent[c] : p.sequence \notin timedOut[c]

(* However often and in whatever order the relayers deliver, a transfer is *)
(* returned by receive_packet at most once.                                *)
DeliveredOnce ==
  \A c \in Chains : \A i, j \in DOMAIN delivered[c] :
    i # j => delivered[c][i] # delivered[c][j]

(* The deliveries of a run on a channel end before the i-th.               *)
Earlier(run, ch, i) == {j \in DOMAIN run : j < i /\ run[j].destination = ch}

(* An ordered channel delivers the sequences 1, 2, 3, ... without gap or   *)
(* reordering, whatever the relayers do and however the channel moves      *)
(* through its states.                                                     *)
OrderedInOrder ==
  \A c \in Chains : \A i \in DOMAIN delivered[c] :
    LET p == delivered[c][i] IN
      channels[c][p.destination].ordering = "Ordered" =>
        p.sequence = Cardinality(Earlier(delivered[c], p.destination, i)) + 1

(* A packet is refused as a replay only when its own transfer was          *)
(* delivered or the channel's receive counter is at its limit: receipts    *)
(* are kept per source channel and sequence, sequences are counted over    *)
(* all channels.                                                           *)
ReceiptIsDelivery ==
  \A p \in wire : \A c \in Chains \ {p.from} :
    ReceiptKey(p) \in received[c] =>
      \/ \E i \in DOMAIN delivered[c] : delivered[c][i] = p
      \/ nextRecv[c][p.destination] = MaxSequence

=============================================================================
