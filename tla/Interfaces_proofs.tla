------------------------- MODULE Interfaces_proofs -------------------------
(***************************************************************************)
(* What the system does at its edges: settlement, delivery and receipts of *)
(* IBC packets, for any channels, heights, timeouts and sequence width,    *)
(* under relayers that repeat, reorder and drop; the peers of the network  *)
(* manager; and the files of the command line tool through crashes.        *)
(***************************************************************************)
EXTENDS Ibc, Network, Home, FiniteSetTheorems, WellFoundedInduction, TLAPS

(* A sequence names one packet of its sender for ever, and the sender's    *)
(* records are about sequences it has used.                                *)
SequenceInv ==
  /\ \A p \in wire : p.sequence < nextSend[p.from]
  /\ \A p, q \in wire : p.from = q.from /\ p.sequence = q.sequence => p = q
  /\ \A c \in Chains :
       /\ \A p \in sent[c] : p.from = c
       /\ \A n \in timedOut[c] : n < nextSend[c]

(* What was delivered has its receipt.                                     *)
DeliveryInv ==
  \A c \in Chains : \A i \in DOMAIN delivered[c] :
    /\ delivered[c][i].from # c
    /\ ReceiptKey(delivered[c][i]) \in received[c]

IsDelivered(c, p) == \E i \in DOMAIN delivered[c] : delivered[c][i] = p

(* Every receipt is of a packet that was delivered, or that arrived when   *)
(* the channel's counter was at its limit.                                 *)
ReceiptInv ==
  \A c \in Chains : \A k \in received[c] : \E p \in wire :
    /\ p.from # c
    /\ ReceiptKey(p) = k
    /\ \/ IsDelivered(c, p)
       \/ p.destination \in Ids /\ nextRecv[c][p.destination] = MaxSequence

IbcInv ==
  TypeOK /\ SequenceInv /\ SettledOnce /\ DeliveryInv /\ DeliveredOnce /\ ReceiptInv

-----------------------------------------------------------------------------

(* What Append does.                                                       *)
LEMMA AppendShape ==
  ASSUME NEW S, NEW s \in Seq(S), NEW x \in S
  PROVE  /\ Len(s) \in Nat
         /\ DOMAIN s = 1..Len(s)
         /\ Append(s, x) \in Seq(S)
         /\ DOMAIN Append(s, x) = 1..(Len(s) + 1)
         /\ Append(s, x)[Len(s) + 1] = x
         /\ \A i \in 1..Len(s) : Append(s, x)[i] = s[i]
OBVIOUS

LEMMA Constants ==
  /\ MaxChannels \in [Chains -> Nat]
  /\ MaxSequence \in Nat \ {0} /\ TimeoutBlocks \in Nat /\ TimeoutSeconds \in Nat
  /\ MaxHeight \in Nat
BY Zenon, IbcAssumption

LEMMA SequencesAreNat == Sequences \subseteq Nat
BY Constants DEF Sequences

(* A sequence below another is not the last; the counter after a packet    *)
(* leaves the range only from its last value, when the packet is below it. *)
LEMMA AfterRecvBound ==
  ASSUME NEW r \in Sequences, NEW s \in Sequences
  PROVE  /\ s < r => s < MaxSequence
         /\ AfterRecv(r, s) \in Sequences => r # MaxSequence
         /\ AfterRecv(r, s) \notin Sequences /\ s < MaxSequence => r = MaxSequence
BY Constants DEF AfterRecv, Sequences

(* Deliveries stay distinct, and keep their receipts, while nobody touches *)
(* them.                                                                   *)
LEMMA DeliveredFrame ==
  ASSUME DeliveredOnce, UNCHANGED delivered
  PROVE  DeliveredOnce'
BY Zenon DEF DeliveredOnce

LEMMA DeliveriesFrame ==
  ASSUME DeliveryInv, UNCHANGED <<delivered, received>>
  PROVE  DeliveryInv'
<1> SUFFICES ASSUME NEW d \in Chains, NEW i \in DOMAIN delivered'[d]
             PROVE  /\ delivered'[d][i].from # d
                    /\ ReceiptKey(delivered'[d][i]) \in received'[d]
  BY Zenon DEF DeliveryInv
<1>1. delivered'[d] = delivered[d] /\ received'[d] = received[d]
  BY Zenon
<1> QED BY Zenon, <1>1 DEF DeliveryInv

(* A step that leaves receipts, deliveries and counters alone keeps what   *)
(* receipts stand for, whatever it puts on the wire.                       *)
LEMMA ReceiptsFrame ==
  ASSUME ReceiptInv, UNCHANGED <<received, nextRecv, delivered>>, wire \subseteq wire'
  PROVE  ReceiptInv'
<1>1. /\ \A d, q : IsDelivered(d, q)' <=> IsDelivered(d, q)
      /\ \A q : ReceiptKey(q)' = ReceiptKey(q)
      /\ nextRecv' = nextRecv /\ received' = received
  BY Zenon DEF IsDelivered, ReceiptKey
<1> SUFFICES ASSUME NEW d \in Chains, NEW k \in received'[d]
             PROVE  \E q \in wire' :
                      /\ q.from # d
                      /\ ReceiptKey(q)' = k
                      /\ \/ IsDelivered(d, q)'
                         \/ q.destination \in Ids /\ nextRecv'[d][q.destination] = MaxSequence
  BY Zenon DEF ReceiptInv
<1>2. PICK q \in wire :
        /\ q.from # d
        /\ ReceiptKey(q) = k
        /\ \/ IsDelivered(d, q)
           \/ q.destination \in Ids /\ nextRecv[d][q.destination] = MaxSequence
  BY Zenon, <1>1 DEF ReceiptInv
<1> QED BY Zenon, <1>1, <1>2

(* The other chain of a connection is one.                                 *)
LEMMA OtherChain ==
  ASSUME NEW c \in Chains, NEW d \in Chains \ {c}, NEW e \in Chains \ {c}
  PROVE  d = e
<1>1. IsFiniteSet(Chains \ {c}) /\ Cardinality(Chains \ {c}) = 1
  BY IbcAssumption, FS_RemoveElement
<1>2. PICK x : Chains \ {c} = {x}
  BY Zenon, <1>1, FS_Singleton
<1> QED BY Zenon, <1>2

LEMMA PacketFields ==
  ASSUME NEW p \in IbcPacket
  PROVE  /\ p.sequence \in Sequences /\ p.source \in Ids /\ p.destination \in Nat
         /\ p.from \in Chains
BY Zenon DEF IbcPacket

(* A channel that is open has an id.                                       *)
LEMMA ChannelIds ==
  ASSUME TypeOK, NEW c \in Chains, NEW ch \in DOMAIN channels[c]
  PROVE  /\ ch \in Ids
         /\ channels[c][ch] \in IbcChannel
<1>1. channels[c] \in Seq(IbcChannel) /\ Len(channels[c]) <= MaxChannels[c]
  BY Zenon DEF TypeOK
<1>2. Len(channels[c]) \in Nat /\ DOMAIN channels[c] = 1..Len(channels[c])
  BY <1>1
<1>3. MaxChannels[c] \in Nat
  BY Zenon, Constants
<1>4. ch \in 1..MaxChannels[c]
  BY <1>1, <1>2, <1>3
<1> QED BY <1>1, <1>4 DEF Ids

LEMMA InitInv ==
  IbcInit => IbcInv
<1> SUFFICES ASSUME IbcInit PROVE IbcInv
  BY Zenon
<1>1. 1 \in Sequences
  BY Constants DEF Sequences
<1>2. TypeOK
  BY <1>1, Constants DEF IbcInit, TypeOK
<1>3. SequenceInv /\ SettledOnce
  BY Zenon DEF IbcInit, SequenceInv, SettledOnce
<1>4. DeliveryInv /\ DeliveredOnce /\ ReceiptInv
  BY DEF IbcInit, DeliveryInv, DeliveredOnce, ReceiptInv
<1> QED BY Zenon, <1>2, <1>3, <1>4 DEF IbcInv

(* Heights, the clock and channel states play no part in the records.      *)
LEMMA RecordsUntouched ==
  ASSUME IbcInv, UNCHANGED <<sent, nextSend, nextRecv, received, acked, wire, delivered, timedOut>>,
         channels' \in [Chains -> Seq(IbcChannel)],
         \A c \in Chains : Len(channels'[c]) <= MaxChannels[c],
         height' \in [Chains -> Nat], now' \in Nat
  PROVE  IbcInv'
<1>1. TypeOK'
  BY Zenon DEF IbcInv, TypeOK
<1>2. SequenceInv' /\ SettledOnce'
  BY Zenon DEF IbcInv, SequenceInv, SettledOnce
<1>3. DeliveryInv' /\ DeliveredOnce'
  BY Zenon, DeliveriesFrame, DeliveredFrame DEF IbcInv
<1>4. ReceiptInv'
  BY Zenon, ReceiptsFrame DEF IbcInv
<1> QED BY Zenon, <1>1, <1>2, <1>3, <1>4 DEF IbcInv

LEMMA OpenChannelInv ==
  ASSUME IbcInv, NEW o \in Openings, OpenChannel(o[1], o[2], o[3])
  PROVE  IbcInv'
<1> DEFINE c == o[1]
           new == [state |-> "Init", ordering |-> o[3], counterparty |-> o[2]]
<1>1. c \in Chains /\ new \in IbcChannel
  BY Zenon, IbcAssumption DEF IbcChannel, States
<1>2. /\ Len(channels[c]) < MaxChannels[c]
      /\ channels' = [channels EXCEPT ![c] = Append(@, new)]
      /\ UNCHANGED <<sent, nextSend, nextRecv, received, acked, height, now, wire,
                     delivered, timedOut>>
  BY Zenon DEF OpenChannel
<1>3. channels \in [Chains -> Seq(IbcChannel)] /\ MaxChannels[c] \in Nat
  BY Zenon, <1>1, Constants DEF IbcInv, TypeOK
<1> HIDE DEF new, c
<1>4. Append(channels[c], new) \in Seq(IbcChannel)
      /\ Len(Append(channels[c], new)) = Len(channels[c]) + 1 /\ Len(channels[c]) \in Nat
  BY <1>1, <1>3
<1>5. channels' \in [Chains -> Seq(IbcChannel)]
  BY Zenon, <1>1, <1>2, <1>3, <1>4
<1>6. \A d \in Chains : Len(channels'[d]) <= MaxChannels[d]
  BY <1>1, <1>2, <1>3, <1>4 DEF IbcInv, TypeOK
<1>7. height' \in [Chains -> Nat] /\ now' \in Nat
  BY Zenon, <1>2 DEF IbcInv, TypeOK
<1> QED BY Zenon, <1>2, <1>5, <1>6, <1>7, RecordsUntouched

LEMMA SetChannelStateInv ==
  ASSUME IbcInv, NEW c \in Chains, NEW ch \in DOMAIN channels[c], NEW state \in States,
         SetChannelState(c, ch, state)
  PROVE  IbcInv'
<1> DEFINE new == [channels[c] EXCEPT ![ch].state = state]
<1>1. channels[c] \in Seq(IbcChannel) /\ channels[c][ch] \in IbcChannel
  BY Zenon, ChannelIds DEF IbcInv, TypeOK
<1>2. /\ channels' = [channels EXCEPT ![c] = new]
      /\ UNCHANGED <<sent, nextSend, nextRecv, received, acked, height, now, wire,
                     delivered, timedOut>>
  BY Zenon DEF SetChannelState
<1>3. [channels[c][ch] EXCEPT !.state = state] \in IbcChannel
  BY Zenon, <1>1 DEF IbcChannel
<1>4. new \in Seq(IbcChannel) /\ Len(new) = Len(channels[c])
  BY <1>1, <1>3
<1> HIDE DEF new
<1>5. channels' \in [Chains -> Seq(IbcChannel)]
  BY Zenon, <1>2, <1>4 DEF IbcInv, TypeOK
<1>6. \A d \in Chains : Len(channels'[d]) <= MaxChannels[d]
  BY Zenon, <1>2, <1>4 DEF IbcInv, TypeOK
<1>7. height' \in [Chains -> Nat] /\ now' \in Nat
  BY Zenon, <1>2 DEF IbcInv, TypeOK
<1> QED BY Zenon, <1>2, <1>5, <1>6, <1>7, RecordsUntouched

LEMMA SendTransferInv ==
  ASSUME IbcInv, NEW c \in Chains, NEW ch \in DOMAIN channels[c], SendTransfer(c, ch)
  PROVE  IbcInv'
<1> DEFINE new == NewPacket(c, ch)
<1>1. /\ nextSend[c] + 1 \in Sequences
      /\ nextSend' = [nextSend EXCEPT ![c] = nextSend[c] + 1]
      /\ sent' = [sent EXCEPT ![c] = @ \cup {new}]
      /\ wire' = wire \cup {new}
      /\ UNCHANGED <<channels, nextRecv, received, acked, height, now, delivered, timedOut>>
  BY Zenon DEF SendTransfer, CanSend, AfterSend
<1>2. new \in IbcPacket /\ new.from = c /\ new.sequence = nextSend[c]
  <2>1. ch \in Ids /\ channels[c][ch].counterparty \in Nat
    BY Zenon, ChannelIds DEF IbcInv, IbcChannel
  <2>2. nextSend[c] \in Sequences /\ height[c] \in Nat /\ now \in Nat
    BY Zenon DEF IbcInv, TypeOK
  <2> QED BY <2>1, <2>2, Constants DEF NewPacket, IbcPacket
<1>3. wire \subseteq IbcPacket /\ nextSend \in [Chains -> Sequences] /\ Sequences \subseteq Nat
  BY DEF IbcInv, TypeOK, Sequences
<1>a. \A d \in Chains : /\ nextSend[d] \in Nat
                         /\ nextSend'[d] = IF d = c THEN nextSend[d] + 1 ELSE nextSend[d]
  BY Zenon, <1>1, <1>3
<1>4. \A p \in wire : p # new /\ (p.from = c => p.sequence # nextSend[c])
  <2>1. \A p \in wire : p.sequence < nextSend[p.from] /\ p.sequence \in Nat
    BY Zenon, <1>3, PacketFields DEF IbcInv, SequenceInv
  <2> QED BY <1>2, <1>3, <2>1
<1> HIDE DEF new
<1>5. TypeOK'
  <2>1. sent' \in [Chains -> SUBSET wire']
    BY Zenon, <1>1 DEF IbcInv, TypeOK
  <2>2. delivered' \in [Chains -> Seq(wire')]
    <3>1. \A d \in Chains : delivered[d] \in Seq(wire')
      BY <1>1 DEF IbcInv, TypeOK
    <3> QED BY Zenon, <1>1, <3>1 DEF IbcInv, TypeOK
  <2>3. wire' \subseteq IbcPacket /\ nextSend' \in [Chains -> Sequences]
    BY Zenon, <1>1, <1>2, <1>3
  <2> QED BY Zenon, <1>1, <2>1, <2>2, <2>3 DEF IbcInv, TypeOK
<1>6. SequenceInv'
  <2>1. \A p \in wire' : p.sequence < nextSend'[p.from]
    <3>1. \A p \in wire : p.sequence \in Nat /\ p.from \in Chains
                          /\ p.sequence < nextSend[p.from]
      BY Zenon, <1>3, PacketFields DEF IbcInv, SequenceInv
    <3> QED BY <1>1, <1>2, <1>a, <3>1
  <2>2. \A p, q \in wire' : p.from = q.from /\ p.sequence = q.sequence => p = q
    BY <1>1, <1>2, <1>4 DEF IbcInv, SequenceInv
  <2>3. \A d \in Chains : \A p \in sent'[d] : p.from = d
    BY Zenon, <1>1, <1>2 DEF IbcInv, SequenceInv, TypeOK
  <2>4. \A d \in Chains : \A n \in timedOut'[d] : n < nextSend'[d]
    <3>1. \A d \in Chains : \A n \in timedOut[d] : n \in Nat /\ n < nextSend[d]
      BY Zenon, <1>3 DEF IbcInv, TypeOK, SequenceInv
    <3> QED BY <1>1, <1>a, <3>1
  <2> QED BY Zenon, <2>1, <2>2, <2>3, <2>4 DEF SequenceInv
<1>7. SettledOnce'
  <2>1. nextSend[c] \notin timedOut[c]
    BY <1>a DEF IbcInv, SequenceInv
  <2> QED BY Zenon, <1>1, <1>2, <2>1 DEF IbcInv, TypeOK, SettledOnce
<1>8. DeliveryInv' /\ DeliveredOnce'
  BY Zenon, <1>1, DeliveriesFrame, DeliveredFrame DEF IbcInv
<1>9. ReceiptInv'
  BY Zenon, <1>1, ReceiptsFrame DEF IbcInv
<1> QED BY Zenon, <1>5, <1>6, <1>7, <1>8, <1>9 DEF IbcInv

LEMMA AcknowledgePacketInv ==
  ASSUME IbcInv, NEW c \in Chains, NEW p \in sent[c], AcknowledgePacket(c, p)
  PROVE  IbcInv'
<1>1. /\ acked' = [acked EXCEPT ![c] = @ \cup {p.sequence}]
      /\ UNCHANGED <<channels, sent, nextSend, nextRecv, received, height, now, wire,
                     delivered, timedOut>>
  BY Zenon DEF AcknowledgePacket
<1>2. p.sequence \in Sequences
  BY Zenon, PacketFields DEF IbcInv, TypeOK
<1>3. TypeOK'
  BY Zenon, <1>1, <1>2 DEF IbcInv, TypeOK
<1>4. SettledOnce'
  BY <1>1 DEF IbcInv, TypeOK, SettledOnce
<1>5. SequenceInv' /\ DeliveryInv' /\ DeliveredOnce'
  <2>1. SequenceInv'
    BY Zenon, <1>1 DEF IbcInv, SequenceInv
  <2> QED BY Zenon, <1>1, <2>1, DeliveriesFrame, DeliveredFrame DEF IbcInv
<1>6. ReceiptInv'
  BY Zenon, <1>1, ReceiptsFrame DEF IbcInv
<1> QED BY Zenon, <1>3, <1>4, <1>5, <1>6 DEF IbcInv

LEMMA TimeoutPacketInv ==
  ASSUME IbcInv, NEW c \in Chains, NEW p \in sent[c], TimeoutPacket(c, p)
  PROVE  IbcInv'
<1>1. /\ p.sequence \notin acked[c]
      /\ sent' = [sent EXCEPT ![c] = @ \ {p}]
      /\ timedOut' = [timedOut EXCEPT ![c] = @ \cup {p.sequence}]
      /\ UNCHANGED <<channels, nextSend, nextRecv, received, acked, height, now, wire,
                     delivered>>
  BY Zenon DEF TimeoutPacket, CanTimeout
<1>2. p.sequence \in Sequences /\ p \in wire /\ p.from = c
  BY Zenon, PacketFields DEF IbcInv, TypeOK, SequenceInv
<1>3. TypeOK'
  BY <1>1, <1>2 DEF IbcInv, TypeOK
<1>4. SettledOnce'
  <2>1. \A q \in sent[c] : q.sequence = p.sequence => q = p
    BY Zenon, <1>2 DEF IbcInv, TypeOK, SequenceInv
  <2> QED BY Zenon, <1>1, <2>1 DEF IbcInv, TypeOK, SettledOnce
<1>5. SequenceInv'
  BY <1>1, <1>2 DEF IbcInv, TypeOK, SequenceInv
<1>6. DeliveryInv' /\ DeliveredOnce'
  BY Zenon, <1>1, DeliveriesFrame, DeliveredFrame DEF IbcInv
<1>7. ReceiptInv'
  BY Zenon, <1>1, ReceiptsFrame DEF IbcInv
<1> QED BY Zenon, <1>3, <1>4, <1>5, <1>6, <1>7 DEF IbcInv

(* What CanReceive says of a packet at c.                                  *)
LEMMA CanReceiveFacts ==
  ASSUME IbcInv, NEW c \in Chains, NEW p \in wire, p.from # c, CanReceive(c, p)
  PROVE  /\ p.destination \in Ids
         /\ ReceiptKey(p) \in Ids \X Sequences
         /\ ReceiptKey(p) \notin received[c]
         /\ \A d \in Ids : nextRecv[c][d] \in Sequences
         /\ p.sequence \in Sequences
<1>1. p.destination \in DOMAIN channels[c] /\ ReceiptKey(p) \notin received[c]
  BY Zenon DEF CanReceive, Bound, NotReplayed
<1>2. p.destination \in Ids
  BY Zenon, <1>1, ChannelIds DEF IbcInv
<1>3. p.source \in Ids /\ p.sequence \in Sequences
  BY Zenon, PacketFields DEF IbcInv, TypeOK
<1> QED BY <1>1, <1>2, <1>3 DEF IbcInv, TypeOK, ReceiptKey

LEMMA ReceivePacketInv ==
  ASSUME IbcInv, NEW c \in Chains, NEW p \in wire, p.from # c, ReceivePacket(c, p)
  PROVE  IbcInv'
<1> DEFINE next == AfterRecv(nextRecv[c][p.destination], p.sequence)
<1>1. /\ CanReceive(c, p)
      /\ next \in Sequences
      /\ nextRecv' = [nextRecv EXCEPT ![c] = [@ EXCEPT ![p.destination] = next]]
      /\ received' = [received EXCEPT ![c] = @ \cup {ReceiptKey(p)}]
      /\ delivered' = [delivered EXCEPT ![c] = Append(@, p)]
      /\ UNCHANGED <<channels, sent, nextSend, acked, height, now, wire, timedOut>>
  BY Zenon DEF ReceivePacket
<1>2. /\ p.destination \in Ids
      /\ ReceiptKey(p) \in Ids \X Sequences
      /\ ReceiptKey(p) \notin received[c]
      /\ \A d \in Ids : nextRecv[c][d] \in Sequences
      /\ p.sequence \in Sequences
  BY Zenon, <1>1, CanReceiveFacts
<1>3. delivered \in [Chains -> Seq(wire)] /\ delivered[c] \in Seq(wire)
  BY Zenon DEF IbcInv, TypeOK
<1>4. /\ Len(delivered[c]) \in Nat
      /\ DOMAIN delivered[c] = 1..Len(delivered[c])
      /\ Append(delivered[c], p) \in Seq(wire)
      /\ DOMAIN Append(delivered[c], p) = 1..(Len(delivered[c]) + 1)
      /\ Append(delivered[c], p)[Len(delivered[c]) + 1] = p
      /\ \A i \in 1..Len(delivered[c]) : Append(delivered[c], p)[i] = delivered[c][i]
  <2>1. delivered[c] \in Seq(wire) /\ p \in wire
    BY Zenon, <1>3
  <2> QED BY ONLY <2>1
<1> DEFINE n == Len(delivered[c]) + 1
<1>5. /\ \A d \in Chains \ {c} : delivered'[d] = delivered[d] /\ received'[d] = received[d]
                                 /\ nextRecv'[d] = nextRecv[d]
      /\ DOMAIN delivered'[c] = 1..n
      /\ delivered'[c][n] = p
      /\ \A i \in 1..n : i # n => i \in DOMAIN delivered[c] /\ delivered'[c][i] = delivered[c][i]
      /\ \A i \in DOMAIN delivered[c] : i \in 1..n /\ i # n
      /\ received'[c] = received[c] \cup {ReceiptKey(p)}
      /\ n \in 1..n
  <2>1. /\ delivered' = [delivered EXCEPT ![c] = Append(delivered[c], p)]
        /\ \A d \in Chains \ {c} : received'[d] = received[d] /\ nextRecv'[d] = nextRecv[d]
        /\ received'[c] = received[c] \cup {ReceiptKey(p)}
    BY Zenon, <1>1 DEF IbcInv, TypeOK
  <2>2. /\ delivered'[c] = Append(delivered[c], p)
        /\ \A d \in Chains \ {c} : delivered'[d] = delivered[d]
    BY Zenon, <1>3, <2>1
  <2>3. /\ \A i \in 1..n : i # n => i \in 1..Len(delivered[c])
        /\ \A i \in 1..Len(delivered[c]) : i \in 1..n /\ i # n
        /\ n \in 1..n
    BY ONLY <1>4
  <2> QED BY Zenon, <1>4, <2>1, <2>2, <2>3
<1> HIDE DEF next, n
<1>6. TypeOK'
  <2>1. received' \in [Chains -> SUBSET (Ids \X Sequences)]
    BY Zenon, <1>1, <1>2 DEF IbcInv, TypeOK
  <2>2. nextRecv' \in [Chains -> [Ids -> Sequences]]
    <3>1. nextRecv \in [Chains -> [Ids -> Sequences]]
      BY Zenon DEF IbcInv, TypeOK
    <3>2. [nextRecv[c] EXCEPT ![p.destination] = next] \in [Ids -> Sequences]
      BY Zenon, <1>1, <3>1
    <3> QED BY Zenon, <1>1, <3>1, <3>2
  <2>3. delivered' \in [Chains -> Seq(wire')]
    BY Zenon, <1>1, <1>3, <1>4
  <2> QED BY Zenon, <1>1, <2>1, <2>2, <2>3 DEF IbcInv, TypeOK
<1>7. SequenceInv' /\ SettledOnce'
  BY Zenon, <1>1 DEF IbcInv, SequenceInv, SettledOnce
<1>8. DeliveryInv'
  <2> SUFFICES ASSUME NEW d \in Chains, NEW i \in DOMAIN delivered'[d]
               PROVE  /\ delivered'[d][i].from # d
                      /\ ReceiptKey(delivered'[d][i]) \in received'[d]
    BY Zenon DEF DeliveryInv
  <2>1. CASE d # c
    <3>1. delivered'[d] = delivered[d] /\ received'[d] = received[d]
      BY Zenon, <1>5, <2>1
    <3> QED BY Zenon, <3>1 DEF IbcInv, DeliveryInv
  <2>2. CASE d = c /\ i = n
    BY Zenon, <1>5, <2>2
  <2>3. CASE d = c /\ i # n
    <3>1. /\ i \in DOMAIN delivered[c] /\ delivered'[c][i] = delivered[c][i]
          /\ received'[c] = received[c] \cup {ReceiptKey(p)}
      BY Zenon, <1>5, <2>3
    <3> QED BY Zenon, <2>3, <3>1 DEF IbcInv, DeliveryInv
  <2> QED BY Zenon, <2>1, <2>2, <2>3
<1>9. DeliveredOnce'
  <2>1. \A i \in DOMAIN delivered[c] : delivered[c][i] # p
    BY Zenon, <1>2 DEF IbcInv, DeliveryInv
  <2> SUFFICES ASSUME NEW d \in Chains, NEW i \in DOMAIN delivered'[d],
                      NEW j \in DOMAIN delivered'[d], i # j
               PROVE  delivered'[d][i] # delivered'[d][j]
    BY Zenon DEF DeliveredOnce
  <2>a. \A k, l \in DOMAIN delivered[d] : k # l => delivered[d][k] # delivered[d][l]
    BY Zenon DEF IbcInv, DeliveredOnce
  <2>2. CASE d # c
    <3>1. delivered'[d] = delivered[d]
      BY Zenon, <1>5, <2>2
    <3> QED BY Zenon, <2>a, <3>1
  <2>3. CASE d = c /\ (i = n \/ j = n)
    BY Zenon, <1>5, <2>1, <2>3
  <2>4. CASE d = c /\ i # n /\ j # n
    <3>1. /\ i \in DOMAIN delivered[c] /\ delivered'[c][i] = delivered[c][i]
          /\ j \in DOMAIN delivered[c] /\ delivered'[c][j] = delivered[c][j]
      BY Zenon, <1>5, <2>4
    <3> QED BY Zenon, <2>a, <2>4, <3>1
  <2> QED BY Zenon, <2>2, <2>3, <2>4
<1>10. ReceiptInv'
  <2> SUFFICES ASSUME NEW d \in Chains, NEW k \in received'[d]
               PROVE  \E q \in wire' :
                        /\ q.from # d
                        /\ ReceiptKey(q)' = k
                        /\ \/ IsDelivered(d, q)'
                           \/ q.destination \in Ids /\ nextRecv'[d][q.destination] = MaxSequence
    BY Zenon DEF ReceiptInv
  <2>0. /\ wire' = wire
        /\ \A q : ReceiptKey(q)' = ReceiptKey(q)
    BY Zenon, <1>1 DEF ReceiptKey
  <2>1. CASE d = c /\ k = ReceiptKey(p)
    <3>1. IsDelivered(c, p)'
      BY Zenon, <1>5 DEF IsDelivered
    <3> QED BY Zenon, <2>0, <2>1, <3>1
  <2>2. CASE ~(d = c /\ k = ReceiptKey(p))
    <3>1. k \in received[d]
      BY Zenon, <1>5, <2>2
    <3>2. PICK q \in wire :
            /\ q.from # d
            /\ ReceiptKey(q) = k
            /\ \/ IsDelivered(d, q)
               \/ q.destination \in Ids /\ nextRecv[d][q.destination] = MaxSequence
      BY Zenon, <3>1 DEF IbcInv, ReceiptInv
    <3>3. IsDelivered(d, q) => IsDelivered(d, q)'
      <4>1. CASE d = c
        BY Zenon, <1>5, <4>1 DEF IsDelivered
      <4>2. CASE d # c
        BY Zenon, <1>5, <4>2 DEF IsDelivered
      <4> QED BY Zenon, <4>1, <4>2
    <3>4. q.destination \in Ids /\ nextRecv[d][q.destination] = MaxSequence
            => nextRecv'[d][q.destination] = MaxSequence
      <4>1. nextRecv[c][p.destination] # MaxSequence
        BY Zenon, <1>1, <1>2, AfterRecvBound DEF next
      <4>2. nextRecv \in [Chains -> [Ids -> Sequences]]
        BY Zenon DEF IbcInv, TypeOK
      <4>3. nextRecv'[c] = [nextRecv[c] EXCEPT ![p.destination] = next]
        BY Zenon, <1>1, <4>2
      <4>4. nextRecv[c] \in [Ids -> Sequences]
        BY Zenon, <4>2
      <4>5. \A j \in Ids : j # p.destination => nextRecv'[c][j] = nextRecv[c][j]
        BY Zenon, <4>3, <4>4
      <4>6. CASE d = c
        BY Zenon, <4>1, <4>5, <4>6
      <4>7. CASE d # c
        BY Zenon, <1>5, <4>7
      <4> QED BY Zenon, <4>6, <4>7
    <3> QED BY Zenon, <2>0, <3>2, <3>3, <3>4
  <2> QED BY Zenon, <2>1, <2>2
<1> QED BY Zenon, <1>6, <1>7, <1>8, <1>9, <1>10 DEF IbcInv

LEMMA ReceiveOverflowInv ==
  ASSUME IbcInv, NEW c \in Chains, NEW p \in wire, p.from # c, ReceiveOverflow(c, p)
  PROVE  IbcInv'
<1>1. /\ CanReceive(c, p)
      /\ AfterRecv(nextRecv[c][p.destination], p.sequence) \notin Sequences
      /\ received' = [received EXCEPT ![c] = @ \cup {ReceiptKey(p)}]
      /\ UNCHANGED <<channels, sent, nextSend, nextRecv, acked, height, now, wire,
                     delivered, timedOut>>
  BY Zenon DEF ReceiveOverflow
<1>2. /\ p.destination \in Ids
      /\ ReceiptKey(p) \in Ids \X Sequences
      /\ \A d \in Ids : nextRecv[c][d] \in Sequences
      /\ p.sequence \in Sequences
  BY Zenon, <1>1, CanReceiveFacts
<1>3. nextRecv[c][p.destination] = MaxSequence
  <2>1. p.from \in Chains /\ nextSend[p.from] \in Sequences /\ p.sequence < nextSend[p.from]
    BY Zenon, PacketFields DEF IbcInv, TypeOK, SequenceInv
  <2> QED BY Zenon, <1>1, <1>2, <2>1, AfterRecvBound
<1>4. TypeOK'
  BY Zenon, <1>1, <1>2 DEF IbcInv, TypeOK
<1>5. SequenceInv' /\ SettledOnce' /\ DeliveredOnce'
  <2>1. SequenceInv'
    BY Zenon, <1>1 DEF IbcInv, SequenceInv
  <2>2. SettledOnce'
    BY Zenon, <1>1 DEF IbcInv, SettledOnce
  <2>3. DeliveredOnce'
    BY Zenon, <1>1, DeliveredFrame DEF IbcInv
  <2> QED BY Zenon, <2>1, <2>2, <2>3
<1>6. DeliveryInv'
  BY Zenon, <1>1 DEF IbcInv, TypeOK, DeliveryInv, ReceiptKey
<1>7. ReceiptInv'
  <2>1. /\ wire' = wire /\ nextRecv' = nextRecv
        /\ \A d, q : IsDelivered(d, q)' <=> IsDelivered(d, q)
        /\ \A q : ReceiptKey(q)' = ReceiptKey(q)
    BY Zenon, <1>1 DEF IsDelivered, ReceiptKey
  <2> SUFFICES ASSUME NEW d \in Chains, NEW k \in received'[d]
               PROVE  \E q \in wire' :
                        /\ q.from # d
                        /\ ReceiptKey(q)' = k
                        /\ \/ IsDelivered(d, q)'
                           \/ q.destination \in Ids /\ nextRecv'[d][q.destination] = MaxSequence
    BY Zenon DEF ReceiptInv
  <2>2. k \in received[d] \/ (d = c /\ k = ReceiptKey(p))
    BY Zenon, <1>1 DEF IbcInv, TypeOK
  <2>3. CASE k \in received[d]
    <3>1. PICK q \in wire :
            /\ q.from # d
            /\ ReceiptKey(q) = k
            /\ \/ IsDelivered(d, q)
               \/ q.destination \in Ids /\ nextRecv[d][q.destination] = MaxSequence
      BY Zenon, <2>3 DEF IbcInv, ReceiptInv
    <3> QED BY Zenon, <2>1, <3>1
  <2>4. CASE d = c /\ k = ReceiptKey(p)
    BY Zenon, <1>2, <1>3, <2>1, <2>4
  <2> QED BY Zenon, <2>2, <2>3, <2>4
<1> QED BY Zenon, <1>4, <1>5, <1>6, <1>7 DEF IbcInv

LEMMA NextInv ==
  IbcInv /\ [IbcNext]_ibcVars => IbcInv'
<1> SUFFICES ASSUME IbcInv, [IbcNext]_ibcVars PROVE IbcInv'
  BY Zenon
<1> DEFINE Typed == /\ channels \in [Chains -> Seq(IbcChannel)]
                    /\ \A c \in Chains : Len(channels[c]) <= MaxChannels[c]
                    /\ height \in [Chains -> Nat] /\ now \in Nat
<1>0. Typed
  BY Zenon DEF IbcInv, TypeOK
<1>1. CASE Tick
  BY <1>0, <1>1, RecordsUntouched DEF Tick
<1>2. ASSUME NEW o \in Openings, OpenChannel(o[1], o[2], o[3]) PROVE IbcInv'
  BY Zenon, <1>2, OpenChannelInv
<1>3. ASSUME NEW c \in Chains, NEW h \in 0..MaxHeight, SetCurrentHeight(c, h) PROVE IbcInv'
  <2>1. h \in Nat
    BY Constants
  <2> QED BY Zenon, <1>0, <1>3, <2>1, RecordsUntouched DEF SetCurrentHeight
<1>4. ASSUME NEW c \in Chains, NEW ch \in DOMAIN channels[c], NEW state \in States,
             SetChannelState(c, ch, state)
      PROVE  IbcInv'
  BY Zenon, <1>4, SetChannelStateInv
<1>5. ASSUME NEW c \in Chains, NEW p \in sent[c], AcknowledgePacket(c, p) \/ TimeoutPacket(c, p)
      PROVE  IbcInv'
  BY Zenon, <1>5, AcknowledgePacketInv, TimeoutPacketInv
<1>6. ASSUME NEW c \in Chains, NEW p \in wire, p.from # c,
             ReceivePacket(c, p) \/ ReceiveOverflow(c, p)
      PROVE  IbcInv'
  BY Zenon, <1>6, ReceivePacketInv, ReceiveOverflowInv
<1>7. ASSUME NEW c \in Senders, NEW ch \in DOMAIN channels[c], SendTransfer(c, ch) PROVE IbcInv'
  BY Zenon, <1>7, SendTransferInv, IbcAssumption
<1>8. CASE UNCHANGED ibcVars
  BY Zenon, <1>0, <1>8, RecordsUntouched DEF ibcVars
<1> QED BY Zenon, <1>1, <1>2, <1>3, <1>4, <1>5, <1>6, <1>7, <1>8 DEF IbcNext

(* The inductive invariant: sequences name packets, what was delivered has *)
(* its receipt, and every receipt has its reason.                          *)
THEOREM InvHolds ==
  IbcSpec => []IbcInv
BY InitInv, NextInv, PTL DEF IbcSpec

(* acknowledge_packet and timeout_packet never both succeed for one        *)
(* sequence.                                                               *)
THEOREM TransfersSettleOnce ==
  IbcSpec => []SettledOnce
<1>1. IbcInv => SettledOnce
  BY Zenon DEF IbcInv
<1> QED BY <1>1, InvHolds, PTL

(* receive_packet returns a transfer at most once.                         *)
THEOREM TransfersAreDeliveredOnce ==
  IbcSpec => []DeliveredOnce
<1>1. IbcInv => DeliveredOnce
  BY Zenon DEF IbcInv
<1> QED BY <1>1, InvHolds, PTL

(* receive_packet refuses a packet as a replay only when that packet was   *)
(* delivered or its channel's counter is exhausted, although receipts do   *)
(* not name the destination and sequences are counted over all channels.   *)
THEOREM ReceiptsAreOfDeliveries ==
  IbcSpec => []ReceiptIsDelivery
<1>1. IbcInv => ReceiptIsDelivery
  <2> SUFFICES ASSUME IbcInv, NEW p \in wire, NEW c \in Chains \ {p.from},
                      ReceiptKey(p) \in received[c]
               PROVE  \/ \E i \in DOMAIN delivered[c] : delivered[c][i] = p
                      \/ nextRecv[c][p.destination] = MaxSequence
    BY Zenon DEF ReceiptIsDelivery
  <2>1. PICK q \in wire :
          /\ q.from # c
          /\ ReceiptKey(q) = ReceiptKey(p)
          /\ \/ IsDelivered(c, q)
             \/ q.destination \in Ids /\ nextRecv[c][q.destination] = MaxSequence
    BY Zenon DEF IbcInv, ReceiptInv
  <2>2. p.from \in Chains /\ q.from \in Chains
    BY Zenon, PacketFields DEF IbcInv, TypeOK
  <2>3. p.from = q.from
    BY Zenon, <2>1, <2>2, OtherChain
  <2>4. p.sequence = q.sequence
    BY Zenon, <2>1 DEF ReceiptKey
  <2>5. p = q
    BY Zenon, <2>3, <2>4 DEF IbcInv, SequenceInv
  <2> QED BY Zenon, <2>1, <2>5 DEF IsDelivered
<1> QED BY <1>1, InvHolds, PTL

(* Ordered channels.  The receive counter of one is one more than the      *)
(* number of its deliveries; a channel that is not open yet has none.      *)
On(run, ch) == {j \in DOMAIN run : run[j].destination = ch}

NotUnordered(c, ch) ==
  ch \in DOMAIN channels[c] => channels[c][ch].ordering = "Ordered"

OrderInv ==
  /\ \A c \in Chains : \A i \in DOMAIN delivered[c] :
       delivered[c][i].destination \in DOMAIN channels[c]
  /\ \A c \in Chains : \A ch \in Ids :
       NotUnordered(c, ch) => nextRecv[c][ch] = Cardinality(On(delivered[c], ch)) + 1
  /\ OrderedInOrder

LEMMA OrderInvInit == IbcInit => OrderInv
<1> SUFFICES ASSUME IbcInit PROVE OrderInv
  BY Zenon
<1>1. \A c \in Chains : DOMAIN delivered[c] = {} /\ \A ch \in Ids : nextRecv[c][ch] = 1
  BY DEF IbcInit
<1>2. \A c \in Chains, ch \in Ids : On(delivered[c], ch) = {}
  BY Zenon, <1>1 DEF On
<1>3. \A c \in Chains, ch \in Ids : nextRecv[c][ch] = Cardinality(On(delivered[c], ch)) + 1
  BY <1>1, <1>2, FS_EmptySet
<1> QED BY Zenon, <1>1, <1>3 DEF OrderInv, OrderedInOrder

(* An end that was opened keeps its ordering and its counterparty.         *)
ChannelsKept ==
  \A c \in Chains : \A ch \in DOMAIN channels[c] :
    /\ ch \in DOMAIN channels'[c]
    /\ channels'[c][ch].ordering = channels[c][ch].ordering
    /\ channels'[c][ch].counterparty = channels[c][ch].counterparty

(* Steps that deliver nothing: channels are only added and keep their      *)
(* ordering.                                                               *)
LEMMA OrderUntouched ==
  ASSUME OrderInv, UNCHANGED <<nextRecv, delivered>>, ChannelsKept
  PROVE  OrderInv'
<1>2. \A c \in Chains, ch \in Ids : NotUnordered(c, ch)' => NotUnordered(c, ch)
  BY Zenon DEF ChannelsKept, NotUnordered
<1>3. \A c \in Chains : \A i \in DOMAIN delivered[c] :
        /\ delivered[c][i].destination \in DOMAIN channels[c]
        /\ delivered[c][i].destination \in DOMAIN channels'[c]
  BY Zenon DEF ChannelsKept, OrderInv
<1>5. OrderedInOrder'
  BY Zenon, <1>3 DEF ChannelsKept, OrderInv, OrderedInOrder
<1>6. \A c \in Chains : \A ch \in Ids :
        NotUnordered(c, ch)' => nextRecv'[c][ch] = Cardinality(On(delivered'[c], ch)) + 1
  BY Zenon, <1>2 DEF OrderInv
<1> QED BY Zenon, <1>3, <1>5, <1>6 DEF OrderInv

LEMMA OpenChannelKeeps ==
  ASSUME IbcInv, NEW o \in Openings, OpenChannel(o[1], o[2], o[3])
  PROVE  ChannelsKept /\ UNCHANGED <<nextRecv, delivered, nextSend, wire>>
<1> DEFINE c == o[1]
           new == [state |-> "Init", ordering |-> o[3], counterparty |-> o[2]]
<1>1. c \in Chains /\ new \in IbcChannel
  BY Zenon, IbcAssumption DEF IbcChannel, States
<1>2. /\ channels' = [channels EXCEPT ![c] = Append(@, new)]
      /\ UNCHANGED <<nextRecv, delivered, nextSend, wire>>
  BY Zenon DEF OpenChannel
<1>3. channels \in [Chains -> Seq(IbcChannel)] /\ channels[c] \in Seq(IbcChannel)
  BY Zenon, <1>1 DEF IbcInv, TypeOK
<1> HIDE DEF new, c
<1>4. \A ch \in DOMAIN channels[c] :
        /\ ch \in DOMAIN Append(channels[c], new)
        /\ Append(channels[c], new)[ch] = channels[c][ch]
  <2>1. new \in IbcChannel /\ channels[c] \in Seq(IbcChannel)
    BY Zenon, <1>1, <1>3
  <2> QED BY ONLY <2>1
<1>5. channels'[c] = Append(channels[c], new) /\ \A d \in Chains \ {c} : channels'[d] = channels[d]
  BY Zenon, <1>1, <1>2, <1>3
<1>6. ChannelsKept
  BY Zenon, <1>4, <1>5 DEF ChannelsKept
<1> QED BY Zenon, <1>2, <1>6

LEMMA SetChannelStateKeeps ==
  ASSUME IbcInv, NEW c \in Chains, NEW ch \in DOMAIN channels[c], NEW state \in States,
         SetChannelState(c, ch, state)
  PROVE  ChannelsKept /\ UNCHANGED <<nextRecv, delivered, nextSend, wire>>
<1>1. channels \in [Chains -> Seq(IbcChannel)] /\ channels[c][ch] \in IbcChannel
  BY Zenon, ChannelIds DEF IbcInv, TypeOK
<1> DEFINE end == [channels[c][ch] EXCEPT !.state = state]
           new == [channels[c] EXCEPT ![ch] = end]
<1>2. /\ channels' = [channels EXCEPT ![c] = new]
      /\ UNCHANGED <<nextRecv, delivered, nextSend, wire>>
  BY Zenon DEF SetChannelState
<1>3. /\ end.ordering = channels[c][ch].ordering
      /\ end.counterparty = channels[c][ch].counterparty
  BY Zenon, <1>1 DEF IbcChannel
<1> HIDE DEF end
<1>4. DOMAIN new = DOMAIN channels[c] /\ \A i \in DOMAIN channels[c] :
        /\ new[i].ordering = channels[c][i].ordering
        /\ new[i].counterparty = channels[c][i].counterparty
  BY Zenon, <1>1, <1>3
<1> HIDE DEF new
<1>5. channels'[c] = new /\ \A d \in Chains \ {c} : channels'[d] = channels[d]
  BY Zenon, <1>1, <1>2
<1>6. ChannelsKept
  BY Zenon, <1>4, <1>5 DEF ChannelsKept
<1> QED BY Zenon, <1>2, <1>6

(* A delivery: on an ordered channel the sequence is the counter, which    *)
(* counts the deliveries before it.                                        *)
LEMMA ReceivePacketOrder ==
  ASSUME IbcInv, OrderInv, NEW c \in Chains, NEW p \in wire, p.from # c, ReceivePacket(c, p)
  PROVE  OrderInv'
<1> DEFINE dest == p.destination
           next == AfterRecv(nextRecv[c][dest], p.sequence)
           n == Len(delivered[c]) + 1
<1>1. /\ CanReceive(c, p)
      /\ nextRecv' = [nextRecv EXCEPT ![c] = [@ EXCEPT ![dest] = next]]
      /\ delivered' = [delivered EXCEPT ![c] = Append(@, p)]
      /\ UNCHANGED channels
  BY Zenon DEF ReceivePacket
<1>2. /\ dest \in Ids /\ p.sequence \in Nat /\ nextRecv[c][dest] \in Nat
      /\ dest \in DOMAIN channels[c]
      /\ channels[c][dest].ordering = "Ordered" => p.sequence = nextRecv[c][dest]
  BY Zenon, <1>1, CanReceiveFacts, SequencesAreNat DEF CanReceive, Bound, InOrder
<1>3. /\ nextRecv \in [Chains -> [Ids -> Sequences]]
      /\ delivered \in [Chains -> Seq(wire)] /\ delivered[c] \in Seq(wire)
  BY Zenon DEF IbcInv, TypeOK
<1>4. /\ Len(delivered[c]) \in Nat /\ DOMAIN delivered[c] = 1..Len(delivered[c])
      /\ DOMAIN Append(delivered[c], p) = DOMAIN delivered[c] \cup {n}
      /\ Append(delivered[c], p)[n] = p /\ n \in Nat
      /\ \A i \in DOMAIN delivered[c] :
           /\ i \in Nat /\ i < n /\ i # n
           /\ Append(delivered[c], p)[i] = delivered[c][i]
  <2>1. p \in wire /\ delivered[c] \in Seq(wire)
    BY Zenon, <1>3
  <2> QED BY ONLY <2>1
<1>5. /\ \A d \in Chains \ {c} : delivered'[d] = delivered[d] /\ nextRecv'[d] = nextRecv[d]
      /\ DOMAIN delivered'[c] = DOMAIN delivered[c] \cup {n}
      /\ delivered'[c][n] = p
      /\ \A i \in DOMAIN delivered[c] : i < n /\ i # n /\ delivered'[c][i] = delivered[c][i]
      /\ nextRecv'[c][dest] = next
      /\ \A ch \in Ids \ {dest} : nextRecv'[c][ch] = nextRecv[c][ch]
      /\ \A i \in DOMAIN delivered[c] : i \in Nat
      /\ n \in Nat
  <2> HIDE DEF next, n, dest
  <2> QED BY Zenon, <1>1, <1>2, <1>3, <1>4
<1>6. channels[c][dest].ordering = "Ordered" => next = nextRecv[c][dest] + 1
  BY Zenon, <1>2 DEF AfterRecv
<1> HIDE DEF next, n, dest
<1>7. \A d \in Chains : \A i \in DOMAIN delivered'[d] :
        delivered'[d][i].destination \in DOMAIN channels'[d]
  BY <1>1, <1>2, <1>5 DEF OrderInv, dest
<1>8. \A ch : On(delivered'[c], ch) = IF ch = dest THEN On(delivered[c], ch) \cup {n} ELSE On(delivered[c], ch)
  <2>1. /\ DOMAIN delivered'[c] = DOMAIN delivered[c] \cup {n}
        /\ delivered'[c][n].destination = dest
        /\ \A i \in DOMAIN delivered[c] : delivered'[c][i].destination = delivered[c][i].destination
    BY Zenon, <1>5 DEF dest
  <2> QED BY Zenon, <2>1 DEF On
<1>9. n \notin On(delivered[c], dest) /\ IsFiniteSet(On(delivered[c], dest)) /\ Cardinality(On(delivered[c], dest)) \in Nat
  <2>0. Len(delivered[c]) \in Nat
    BY Zenon, <1>4
  <2>a. 1 \in Int /\ Len(delivered[c]) \in Int
    BY ONLY <2>0
  <2>b. IsFiniteSet(1..Len(delivered[c]))
    BY Zenon, <2>a, FS_Interval
  <2>1. IsFiniteSet(DOMAIN delivered[c])
    BY Zenon, <1>4, <2>b
  <2> QED BY Zenon, <1>5, <2>1, FS_Subset, FS_CardinalityType DEF On
<1>10. \A d \in Chains : \A ch \in Ids :
         NotUnordered(d, ch)' => nextRecv'[d][ch] = Cardinality(On(delivered'[d], ch)) + 1
  <2> SUFFICES ASSUME NEW d \in Chains, NEW ch \in Ids, NotUnordered(d, ch)
               PROVE  nextRecv'[d][ch] = Cardinality(On(delivered'[d], ch)) + 1
    BY Zenon, <1>1 DEF NotUnordered
  <2>1. nextRecv[d][ch] = Cardinality(On(delivered[d], ch)) + 1
    BY Zenon DEF OrderInv
  <2>2. CASE d = c /\ ch = dest
    <3>1. channels[c][dest].ordering = "Ordered"
      BY Zenon, <1>2, <2>2 DEF NotUnordered
    <3>2. Cardinality(On(delivered'[c], dest)) = Cardinality(On(delivered[c], dest)) + 1
      <4>1. On(delivered'[c], dest) = On(delivered[c], dest) \cup {n}
        BY Zenon, <1>8
      <4> QED BY Zenon, <1>9, <4>1, FS_AddElement
    <3> QED BY Zenon, <1>2, <1>5, <1>6, <1>9, <2>1, <2>2, <3>1, <3>2
  <2>3. CASE d = c /\ ch # dest
    BY Zenon, <1>5, <1>8, <2>1, <2>3
  <2>4. CASE d # c
    <3>1. On(delivered'[d], ch) = On(delivered[d], ch)
      <4>1. delivered'[d] = delivered[d]
        BY Zenon, <1>5, <2>4
      <4> QED BY Zenon, <4>1
    <3> QED BY Zenon, <1>5, <2>1, <2>4, <3>1
  <2> QED BY Zenon, <2>2, <2>3, <2>4
<1>11. OrderedInOrder'
  <2> SUFFICES ASSUME NEW d \in Chains, NEW i \in DOMAIN delivered'[d],
                      channels[d][delivered'[d][i].destination].ordering = "Ordered"
               PROVE  delivered'[d][i].sequence
                        = Cardinality(Earlier(delivered'[d], delivered'[d][i].destination, i)) + 1
    BY Zenon, <1>1 DEF OrderedInOrder
  <2>1. CASE d = c /\ i = n
    <3>0. ~(n < n)
      BY ONLY <1>5
    <3>1. Earlier(delivered'[c], dest, n) = On(delivered[c], dest)
      BY Zenon, <1>5, <3>0 DEF Earlier, On
    <3>2. delivered'[d][i].destination = dest /\ delivered'[d][i] = p
      BY Zenon, <1>5, <2>1 DEF dest
    <3>3. NotUnordered(c, dest)
      BY Zenon, <2>1, <3>2 DEF NotUnordered
    <3>4. p.sequence = Cardinality(On(delivered[c], dest)) + 1
      BY Zenon, <1>2, <2>1, <3>2, <3>3 DEF OrderInv
    <3> QED BY Zenon, <2>1, <3>1, <3>2, <3>4
  <2>2. CASE ~(d = c /\ i = n)
    <3>1. i \in DOMAIN delivered[d] /\ delivered'[d][i] = delivered[d][i]
      BY Zenon, <1>5, <2>2
    <3>2. \A ch : Earlier(delivered'[d], ch, i) = Earlier(delivered[d], ch, i)
      <4>1. CASE d = c
        <5>1. ~(n < i)
          BY ONLY <1>5, <3>1, <4>1
        <5> QED BY Zenon, <1>5, <3>1, <4>1, <5>1 DEF Earlier
      <4>2. CASE d # c
        <5>1. delivered'[d] = delivered[d]
          BY Zenon, <1>5, <4>2
        <5> QED BY Zenon, <5>1
      <4> QED BY Zenon, <4>1, <4>2
    <3> QED BY ZenonT(30), <3>1, <3>2 DEF OrderInv, OrderedInOrder
  <2> QED BY Zenon, <2>1, <2>2
<1> QED BY Zenon, <1>7, <1>10, <1>11 DEF OrderInv

LEMMA OrderInvStep == IbcInv /\ OrderInv /\ [IbcNext]_ibcVars => OrderInv'
<1> SUFFICES ASSUME IbcInv, OrderInv, [IbcNext]_ibcVars PROVE OrderInv'
  BY Zenon
<1>1. ASSUME UNCHANGED <<nextRecv, delivered, channels>> PROVE OrderInv'
  BY Zenon, <1>1, OrderUntouched DEF ChannelsKept
<1>2. ASSUME NEW o \in Openings, OpenChannel(o[1], o[2], o[3]) PROVE OrderInv'
  BY Zenon, <1>2, OpenChannelKeeps, OrderUntouched
<1>3. ASSUME NEW c \in Chains, NEW ch \in DOMAIN channels[c], NEW state \in States,
             SetChannelState(c, ch, state)
      PROVE  OrderInv'
  BY Zenon, <1>3, SetChannelStateKeeps, OrderUntouched
<1>4. ASSUME NEW c \in Chains, NEW p \in wire, p.from # c, ReceivePacket(c, p)
      PROVE  OrderInv'
  BY Zenon, <1>4, ReceivePacketOrder
<1>5. ASSUME NEW c, NEW p, NEW h, NEW ch,
             \/ Tick \/ SetCurrentHeight(c, h) \/ AcknowledgePacket(c, p)
             \/ TimeoutPacket(c, p) \/ ReceiveOverflow(c, p) \/ SendTransfer(c, ch)
             \/ UNCHANGED ibcVars
      PROVE  OrderInv'
  <2>1. UNCHANGED <<nextRecv, delivered, channels>>
    BY Zenon, <1>5 DEF Tick, SetCurrentHeight, AcknowledgePacket, TimeoutPacket, ReceiveOverflow,
                SendTransfer, ibcVars
  <2> QED BY Zenon, <1>1, <2>1
<1> QED BY Zenon, <1>2, <1>3, <1>4, <1>5 DEF IbcNext

(* An ordered channel delivers the sequences 1, 2, 3, ... whatever the     *)
(* relayers do and however the channel moves through its states.           *)
THEOREM OrderedChannelsAreOrdered == IbcSpec => []OrderedInOrder
<1>1. OrderInv => OrderedInOrder
  BY Zenon DEF OrderInv
<1> QED BY <1>1, OrderInvInit, OrderInvStep, InvHolds, PTL DEF IbcSpec

(* Sequences are counted over all channels of a chain.  What a packet must *)
(* say to be taken by a channel end, ...                                   *)
Reaches(c, ch, p) ==
  /\ ch \in DOMAIN channels[c]
  /\ p.destination = ch /\ channels[c][ch].counterparty = p.source

(* ... and how far the counter of an ordered one can get: not past a       *)
(* packet that was sent to another.                                        *)
QueueInv ==
  \A c \in Chains, ch \in Ids : NotUnordered(c, ch) =>
    \A d \in Chains \ {c} :
      /\ nextRecv[c][ch] <= nextSend[d]
      /\ \A p \in wire : p.from = d /\ ~Reaches(c, ch, p) => nextRecv[c][ch] <= p.sequence

(* An ordered channel takes a packet only when every packet that the other *)
(* chain sent before it came from the same channel.                        *)
TakenFollowsItsOwn ==
  \A c \in Chains, q \in wire :
    /\ q.from # c /\ CanReceive(c, q)
    /\ channels[c][q.destination].ordering = "Ordered"
    => \A p \in wire : p.from # c /\ p.sequence < q.sequence =>
         p.source = q.source /\ p.destination = q.destination

(* A channel that nobody opened has its first sequence before it.          *)
LEMMA UnopenedIsFresh ==
  ASSUME OrderInv, NEW c \in Chains, NEW ch \in Ids, ch \notin DOMAIN channels[c]
  PROVE  nextRecv[c][ch] = 1
<1>1. On(delivered[c], ch) = {}
  BY Zenon DEF OrderInv, On
<1>2. nextRecv[c][ch] = Cardinality(On(delivered[c], ch)) + 1
  BY Zenon DEF OrderInv, NotUnordered
<1> QED BY <1>1, <1>2, FS_EmptySet

LEMMA QueueTypes ==
  ASSUME IbcInv
  PROVE  /\ \A p \in wire : p.sequence \in Nat /\ p.sequence >= 1 /\ p.from \in Chains
         /\ \A c \in Chains : nextSend[c] \in Nat /\ nextSend[c] >= 1
         /\ \A c \in Chains, ch \in Ids : nextRecv[c][ch] \in Nat
         /\ \A p \in wire : p.sequence < nextSend[p.from]
<1>1. /\ wire \subseteq IbcPacket /\ nextSend \in [Chains -> Sequences]
      /\ nextRecv \in [Chains -> [Ids -> Sequences]]
      /\ \A p \in wire : p.sequence < nextSend[p.from]
  BY Zenon DEF IbcInv, TypeOK, SequenceInv
<1>2. \A n \in Sequences : n \in Nat /\ n >= 1
  BY Constants DEF Sequences
<1>3. \A p \in wire : p.sequence \in Sequences /\ p.from \in Chains
  BY Zenon, <1>1, PacketFields
<1> QED BY Zenon, <1>1, <1>2, <1>3

LEMMA QueueInvInit == IbcInit => QueueInv
<1> SUFFICES ASSUME IbcInit PROVE QueueInv
  BY Zenon
<1> QED BY DEF IbcInit, QueueInv

(* Channels keep their ordering and their counterparty.                    *)
LEMMA QueueChannels ==
  ASSUME IbcInv, OrderInv, QueueInv, UNCHANGED <<nextRecv, nextSend, wire>>,
         ChannelsKept
  PROVE  QueueInv'
<1> SUFFICES ASSUME NEW c \in Chains, NEW ch \in Ids, NotUnordered(c, ch)',
                    NEW d \in Chains \ {c}
             PROVE  /\ nextRecv[c][ch] <= nextSend[d]
                    /\ \A p \in wire : p.from = d /\ ~Reaches(c, ch, p)' =>
                         nextRecv[c][ch] <= p.sequence
  BY Zenon DEF QueueInv
<1>1. NotUnordered(c, ch)
  BY Zenon DEF ChannelsKept, NotUnordered
<1>2. nextRecv[c][ch] <= nextSend[d]
  BY Zenon, <1>1 DEF QueueInv
<1>3. ASSUME NEW p \in wire, p.from = d, ~Reaches(c, ch, p)'
      PROVE  nextRecv[c][ch] <= p.sequence
  <2>1. CASE ch \in DOMAIN channels[c]
    <3>1. ~Reaches(c, ch, p)
      BY Zenon, <1>3, <2>1 DEF ChannelsKept, Reaches
    <3> QED BY Zenon, <1>1, <1>3, <3>1 DEF QueueInv
  <2>2. CASE ch \notin DOMAIN channels[c]
    <3>1. nextRecv[c][ch] = 1
      BY Zenon, <2>2, UnopenedIsFresh
    <3>2. p.sequence \in Nat /\ p.sequence >= 1
      BY Zenon, QueueTypes
    <3> QED BY Zenon, <3>1, <3>2
  <2> QED BY Zenon, <2>1, <2>2
<1> QED BY Zenon, <1>2, <1>3

(* A new packet has the sequence that every counter is still below.        *)
LEMMA QueueSend ==
  ASSUME IbcInv, QueueInv, NEW e \in Chains, NEW c0 \in DOMAIN channels[e], SendTransfer(e, c0)
  PROVE  QueueInv'
<1> DEFINE new == NewPacket(e, c0)
<1>1. /\ nextSend' = [nextSend EXCEPT ![e] = AfterSend(@)] /\ wire' = wire \cup {new}
      /\ UNCHANGED <<channels, nextRecv>>
  BY Zenon DEF SendTransfer
<1>2. new.sequence = nextSend[e] /\ new.from = e
  BY Zenon DEF NewPacket
<1>3. nextSend \in [Chains -> Sequences]
  BY Zenon DEF IbcInv, TypeOK
<1> HIDE DEF new
<1> SUFFICES ASSUME NEW c \in Chains, NEW ch \in Ids, NotUnordered(c, ch)',
                    NEW d \in Chains \ {c}
             PROVE  /\ nextRecv[c][ch] <= nextSend'[d]
                    /\ \A p \in wire' : p.from = d /\ ~Reaches(c, ch, p)' =>
                         nextRecv[c][ch] <= p.sequence
  BY Zenon, <1>1 DEF QueueInv
<1>a. NotUnordered(c, ch)
  BY Zenon, <1>1 DEF NotUnordered
<1>4. nextRecv[c][ch] <= nextSend[d] /\ nextRecv[c][ch] \in Nat /\ nextSend[d] \in Nat
  BY Zenon, <1>a, QueueTypes DEF QueueInv
<1>5. nextSend'[d] = nextSend[d] \/ nextSend'[d] = nextSend[d] + 1
  BY Zenon, <1>1, <1>3 DEF AfterSend
<1>6. nextRecv[c][ch] <= nextSend'[d]
  BY ONLY <1>4, <1>5
<1>7. ASSUME NEW p \in wire', p.from = d, ~Reaches(c, ch, p)'
      PROVE  nextRecv[c][ch] <= p.sequence
  <2>1. CASE p = new
    BY Zenon, <1>2, <1>4, <1>7, <2>1
  <2>2. CASE p \in wire
    <3>1. ~Reaches(c, ch, p)
      BY Zenon, <1>1, <1>7 DEF Reaches
    <3> QED BY Zenon, <1>a, <1>7, <2>2, <3>1 DEF QueueInv
  <2> QED BY Zenon, <1>1, <2>1, <2>2
<1> QED BY Zenon, <1>6, <1>7

(* A delivery on an ordered channel has the sequence of its counter, which *)
(* no other packet of the sending chain has.                               *)
LEMMA QueueReceive ==
  ASSUME IbcInv, QueueInv, NEW e \in Chains, NEW q \in wire, q.from # e, ReceivePacket(e, q)
  PROVE  QueueInv'
<1> DEFINE dest == q.destination
           next == AfterRecv(nextRecv[e][dest], q.sequence)
<1>1. /\ CanReceive(e, q)
      /\ nextRecv' = [nextRecv EXCEPT ![e] = [@ EXCEPT ![dest] = next]]
      /\ UNCHANGED <<channels, nextSend, wire>>
  BY Zenon DEF ReceivePacket
<1>2. /\ dest \in Ids /\ Reaches(e, dest, q)
      /\ channels[e][dest].ordering = "Ordered" => q.sequence = nextRecv[e][dest]
  BY Zenon, <1>1, CanReceiveFacts DEF CanReceive, Bound, InOrder, Reaches
<1>3. nextRecv \in [Chains -> [Ids -> Sequences]]
  BY Zenon DEF IbcInv, TypeOK
<1> HIDE DEF next
<1>4. /\ nextRecv'[e][dest] = next
      /\ \A c \in Chains, ch \in Ids : c # e \/ ch # dest => nextRecv'[c][ch] = nextRecv[c][ch]
  BY Zenon, <1>1, <1>2, <1>3
<1> HIDE DEF dest
<1> SUFFICES ASSUME NEW c \in Chains, NEW ch \in Ids, NotUnordered(c, ch)',
                    NEW d \in Chains \ {c}
             PROVE  /\ nextRecv'[c][ch] <= nextSend[d]
                    /\ \A p \in wire : p.from = d /\ ~Reaches(c, ch, p)' =>
                         nextRecv'[c][ch] <= p.sequence
  BY Zenon, <1>1 DEF QueueInv
<1>a. NotUnordered(c, ch) /\ \A p \in wire : ~Reaches(c, ch, p)' => ~Reaches(c, ch, p)
  BY Zenon, <1>1 DEF NotUnordered, Reaches
<1>5. CASE c # e \/ ch # dest
  <2>1. nextRecv'[c][ch] = nextRecv[c][ch]
    BY Zenon, <1>4, <1>5
  <2> QED BY Zenon, <1>a, <2>1 DEF QueueInv
<1>6. CASE c = e /\ ch = dest
  <2>1. q.sequence = nextRecv[e][dest] /\ q.sequence \in Nat
    BY Zenon, <1>2, <1>6, <1>a, QueueTypes DEF NotUnordered, Reaches
  <2>2. nextRecv'[c][ch] = q.sequence + 1
    BY Zenon, <1>4, <1>6, <2>1 DEF next, AfterRecv
  <2>3. q.from = d
    BY Zenon, <1>6, OtherChain, QueueTypes
  <2>4. q.sequence < nextSend[d] /\ nextSend[d] \in Nat
    BY Zenon, <2>3, QueueTypes
  <2>5. nextRecv'[c][ch] <= nextSend[d]
    BY ONLY <2>1, <2>2, <2>4
  <2>6. ASSUME NEW p \in wire, p.from = d, ~Reaches(c, ch, p)'
        PROVE  nextRecv'[c][ch] <= p.sequence
    <3>1. p # q
      BY Zenon, <1>2, <1>6, <1>a, <2>6
    <3>2. p.sequence # q.sequence
      BY Zenon, <2>3, <2>6, <3>1 DEF IbcInv, SequenceInv
    <3>3. nextRecv[e][dest] <= p.sequence /\ p.sequence \in Nat
      BY Zenon, <1>6, <1>a, <2>6, QueueTypes DEF QueueInv
    <3> QED BY ONLY <2>1, <2>2, <3>2, <3>3
  <2> QED BY Zenon, <2>5, <2>6
<1> QED BY Zenon, <1>5, <1>6

LEMMA QueueInvStep == IbcInv /\ OrderInv /\ QueueInv /\ [IbcNext]_ibcVars => QueueInv'
<1> SUFFICES ASSUME IbcInv, OrderInv, QueueInv, [IbcNext]_ibcVars PROVE QueueInv'
  BY Zenon
<1>1. ASSUME UNCHANGED <<nextRecv, nextSend, wire, channels>> PROVE QueueInv'
  BY Zenon, <1>1, QueueChannels DEF ChannelsKept
<1>2. ASSUME NEW o \in Openings, OpenChannel(o[1], o[2], o[3]) PROVE QueueInv'
  BY Zenon, <1>2, OpenChannelKeeps, QueueChannels
<1>3. ASSUME NEW c \in Chains, NEW ch \in DOMAIN channels[c], NEW state \in States,
             SetChannelState(c, ch, state)
      PROVE  QueueInv'
  BY Zenon, <1>3, SetChannelStateKeeps, QueueChannels
<1>4. ASSUME NEW c \in Chains, NEW p \in wire, p.from # c, ReceivePacket(c, p)
      PROVE  QueueInv'
  BY Zenon, <1>4, QueueReceive
<1>5. ASSUME NEW c \in Senders, NEW ch \in DOMAIN channels[c], SendTransfer(c, ch)
      PROVE  QueueInv'
  BY Zenon, <1>5, QueueSend, IbcAssumption
<1>6. ASSUME NEW c, NEW p, NEW h,
             \/ Tick \/ SetCurrentHeight(c, h) \/ AcknowledgePacket(c, p)
             \/ TimeoutPacket(c, p) \/ ReceiveOverflow(c, p) \/ UNCHANGED ibcVars
      PROVE  QueueInv'
  <2>1. UNCHANGED <<nextRecv, nextSend, wire, channels>>
    BY Zenon, <1>6 DEF Tick, SetCurrentHeight, AcknowledgePacket, TimeoutPacket,
                       ReceiveOverflow, ibcVars
  <2> QED BY Zenon, <1>1, <2>1
<1> QED BY Zenon, <1>2, <1>3, <1>4, <1>5, <1>6 DEF IbcNext

(* An ordered channel takes a packet only when everything the other chain  *)
(* sent before it came from the same channel: once a second channel has    *)
(* sent, no later packet of an ordered one is ever received.               *)
THEOREM OrderedSharesNoSequence == IbcSpec => []TakenFollowsItsOwn
<1>1. IbcInv /\ QueueInv => TakenFollowsItsOwn
  <2> SUFFICES ASSUME IbcInv, QueueInv, NEW c \in Chains, NEW q \in wire,
                      q.from # c, CanReceive(c, q),
                      channels[c][q.destination].ordering = "Ordered",
                      NEW p \in wire, p.from # c, p.sequence < q.sequence
               PROVE  p.source = q.source /\ p.destination = q.destination
    BY Zenon DEF TakenFollowsItsOwn
  <2> DEFINE ch == q.destination
  <2>1. /\ ch \in Ids /\ NotUnordered(c, ch) /\ q.sequence = nextRecv[c][ch]
        /\ channels[c][ch].counterparty = q.source
    BY Zenon, CanReceiveFacts DEF CanReceive, Bound, InOrder, NotUnordered
  <2>2. p.from \in Chains \ {c} /\ p.sequence \in Nat /\ q.sequence \in Nat
    BY Zenon, QueueTypes
  <2>3. ~(q.sequence <= p.sequence)
    BY ONLY <2>2, p.sequence < q.sequence
  <2>4. Reaches(c, ch, p)
    BY Zenon, <2>1, <2>2, <2>3 DEF QueueInv
  <2> QED BY Zenon, <2>1, <2>4 DEF Reaches
<1> QED BY <1>1, OrderInvInit, OrderInvStep, QueueInvInit, QueueInvStep, InvHolds, PTL DEF IbcSpec

-----------------------------------------------------------------------------
(* The network manager.                                                    *)

(* Closing one connection removes its peer only, and the others keep       *)
(* theirs.                                                                 *)
LEMMA PeersStep == PeersAreConnected /\ [NetworkNext]_networkVars => PeersAreConnected'
<1> SUFFICES ASSUME PeersAreConnected, [NetworkNext]_networkVars PROVE PeersAreConnected'
  BY Zenon
<1> USE DEF PeersAreConnected, Neighbours
<1>1. ASSUME NEW c \in Connection, ConnectionEstablished(c) PROVE PeersAreConnected'
  BY Zenon, <1>1 DEF ConnectionEstablished
<1>2. ASSUME NEW c \in conns, ConnectionClosed(c) PROVE PeersAreConnected'
  BY Zenon, <1>2 DEF ConnectionClosed
<1>3. CASE StopManager
  BY Zenon, <1>3 DEF StopManager
<1>4. ASSUME UNCHANGED <<conns, connected_peers>> PROVE PeersAreConnected'
  BY Zenon, <1>4
<1>5. CASE New \/ Run \/ CannotListen
  BY Zenon, <1>4, <1>5 DEF New, Run, CannotListen, peering
<1>6. ASSUME NEW m, NEW p, MdnsDiscovered(p) \/ Send(m) \/ Publish \/ PickGossip(m)
      PROVE  PeersAreConnected'
  BY Zenon, <1>4, <1>6 DEF MdnsDiscovered, Send, Publish, PickGossip, peering
<1>7. CASE HandleGossip \/ Receive \/ DropHandle \/ UNCHANGED networkVars
  BY Zenon, <1>4, <1>7 DEF HandleGossip, Receive, DropHandle, networkVars, peering
<1> QED BY Zenon, <1>1, <1>2, <1>3, <1>5, <1>6, <1>7 DEF NetworkNext

(* NetworkManager::connected_peers never holds a peer without a            *)
(* connection, for any peers, limits and channel capacity.                 *)
THEOREM CountedPeersAreConnected == NetworkSpec => []PeersAreConnected
<1>1. NetworkInit => PeersAreConnected
  BY Zenon DEF NetworkInit, PeersAreConnected
<1> QED BY <1>1, PeersStep, PTL DEF NetworkSpec

-----------------------------------------------------------------------------
(* The files of the command line tool.                                     *)

Stages == {"idle", "write", "sync", "persist", "syncdir", "load", "truncate", "fill"}
Saving == {"write", "sync", "persist", "syncdir"}

WalletJobs == [path : Paths, wallet : WalletRecords]
KeyJobs == [path : Paths, asked : Keys, password : Passwords, found : WalletRecords]
GenesisJobs == [doc : Documents, force : BOOLEAN, existed : BOOLEAN]
Jobs == WalletJobs \cup KeyJobs \cup GenesisJobs \cup {NoJob}

Contents == WalletRecords \cup {Torn, Unrelated}
TempFiles == [wallet : Contents, synced : BOOLEAN] \cup {NoFile}
(* A file in the wallet directory was fsynced before it got there.         *)
DirFiles == [wallet : Contents, synced : {TRUE}] \cup {NoFile}
Synced(w) == [wallet |-> w, synced |-> TRUE]
GenesisFiles == [doc : Documents \cup {Torn}, synced : BOOLEAN]
Truncated == [doc |-> Torn, synced |-> FALSE]

ProcInv == pc \in [Procs -> Stages] /\ job \in [Procs -> Jobs]

(* A command's temporary file is its wallet; once renamed, that wallet is  *)
(* in the directory unless somebody else has replaced or edited it.        *)
SaverOK(p) ==
  /\ pc[p] \in Saving => job[p] \in WalletJobs
  /\ pc[p] = "sync" => temp[p] = [wallet |-> job[p].wallet, synced |-> FALSE]
  /\ pc[p] = "persist" => temp[p] = Synced(job[p].wallet)
  /\ pc[p] = "syncdir" /\ job[p].path \notin overwritten \cup edited
       => wallets[job[p].path] = Synced(job[p].wallet)

LoaderOK(p) ==
  pc[p] = "load" => job[p] \in KeyJobs /\ job[p].found.address = job[p].asked

Kept(c) ==
  c.path \notin overwritten \cup edited =>
    wallets[c.path] = Synced(c.wallet) /\ kept[c.path] = Synced(c.wallet)

WalletInv ==
  /\ temp \in [Procs -> TempFiles]
  /\ wallets \in [Paths -> DirFiles] /\ kept \in [Paths -> DirFiles]
  /\ created \subseteq WalletJobs
  /\ \A p \in Procs : SaverOK(p) /\ LoaderOK(p)
  /\ \A c \in created : Kept(c)
  /\ UnlockedIsOwners

(* init has checked for a genesis file or may overwrite it.  Between the   *)
(* truncation and the write nothing can be seeded, and nobody else writes  *)
(* unless a file is overwritten.                                           *)
WriterOK(p) ==
  /\ pc[p] \in {"truncate", "fill"} =>
       job[p] \in GenesisJobs /\ (job[p].force \/ ~job[p].existed)
  /\ pc[p] = "fill" /\ ~forced =>
       /\ ledger = NoFile /\ genesis = Truncated
       /\ \A q \in Procs : pc[q] = "fill" => q = p

GenesisInv ==
  /\ genesis \in GenesisFiles \cup {NoFile}
  /\ forced \in BOOLEAN
  /\ ledger # NoFile => genesis # NoFile
  /\ \A p \in Procs : WriterOK(p)
  /\ OrphanedOnlyByOverwrite

HomeInv == ProcInv /\ WalletInv /\ GenesisInv

(* A command none of whose files a step touches stays as it was.           *)
LEMMA SaverFrame ==
  ASSUME NEW q \in Procs, SaverOK(q), pc'[q] = pc[q], job'[q] = job[q], temp'[q] = temp[q],
         UNCHANGED <<wallets, overwritten, edited>>
  PROVE  SaverOK(q)'
<1>1. wallets' = wallets /\ overwritten' = overwritten /\ edited' = edited
  BY Zenon
<1>2. pc'[q] \in Saving => job'[q] \in WalletJobs
  BY Zenon DEF SaverOK
<1>3. /\ pc'[q] = "sync" => temp'[q] = [wallet |-> job'[q].wallet, synced |-> FALSE]
      /\ pc'[q] = "persist" => temp'[q] = Synced(job'[q].wallet)
  BY Zenon DEF SaverOK
<1>4. pc'[q] = "syncdir" /\ job'[q].path \notin overwritten' \cup edited'
        => wallets'[job'[q].path] = Synced(job'[q].wallet)
  BY Zenon, <1>1 DEF SaverOK
<1> QED BY Zenon, <1>2, <1>3, <1>4 DEF SaverOK

(* What the frames of the actions keep.                                    *)
LEMMA WalletFrame ==
  ASSUME WalletInv,
         UNCHANGED <<wallets, kept, created, unlocked, overwritten, edited>>,
         temp' \in [Procs -> TempFiles],
         \A q \in Procs : pc'[q] \in Saving \cup {"load"} =>
           pc'[q] = pc[q] /\ job'[q] = job[q] /\ temp'[q] = temp[q]
  PROVE  WalletInv'
<1>1. \A q \in Procs : SaverOK(q)'
  BY ZenonT(30) DEF WalletInv, SaverOK, Saving
<1>2. \A q \in Procs : LoaderOK(q)'
  BY Zenon DEF WalletInv, LoaderOK
<1>3. \A c \in created : Kept(c)'
  BY Zenon DEF WalletInv, Kept
<1> QED BY Zenon, <1>1, <1>2, <1>3 DEF WalletInv, UnlockedIsOwners

LEMMA GenesisFrame ==
  ASSUME GenesisInv, UNCHANGED <<genesis, ledger, forced>>,
         \A q \in Procs : pc'[q] \in {"truncate", "fill"} => pc'[q] = pc[q] /\ job'[q] = job[q]
  PROVE  GenesisInv'
<1>1. \A q \in Procs : WriterOK(q)'
  BY Zenon DEF GenesisInv, WriterOK
<1> QED BY Zenon, <1>1 DEF GenesisInv, OrphanedOnlyByOverwrite, Loads

(* A command moves on alone.                                               *)
LEMMA Moves ==
  ASSUME ProcInv, NEW p \in Procs, NEW stage \in Stages, NEW locals \in Jobs,
         pc' = [pc EXCEPT ![p] = stage], job' = [job EXCEPT ![p] = locals]
  PROVE  /\ ProcInv' /\ pc'[p] = stage /\ job'[p] = locals
         /\ \A q \in Procs \ {p} : pc'[q] = pc[q] /\ job'[q] = job[q]
BY Zenon DEF ProcInv

LEMMA Advances ==
  ASSUME ProcInv, NEW p \in Procs, NEW from, NEW to \in Stages, Advance(p, from, to)
  PROVE  /\ ProcInv' /\ pc[p] = from /\ pc'[p] = to /\ job' = job
         /\ \A q \in Procs \ {p} : pc'[q] = pc[q]
BY Zenon DEF ProcInv, Advance

LEMMA Finishes ==
  ASSUME ProcInv, NEW p \in Procs, NEW from, Finish(p, from)
  PROVE  /\ ProcInv' /\ pc[p] = from /\ pc'[p] = "idle"
         /\ \A q \in Procs \ {p} : pc'[q] = pc[q] /\ job'[q] = job[q]
<1>1. "idle" \in Stages /\ NoJob \in Jobs
  BY Zenon DEF Stages, Jobs
<1> QED BY Zenon, <1>1, Moves DEF Finish

LEMMA Begins ==
  ASSUME ProcInv, NEW p \in Procs, NEW stage \in Stages, NEW locals \in Jobs,
         Begin(p, stage, locals)
  PROVE  /\ ProcInv' /\ pc'[p] = stage /\ job'[p] = locals
         /\ \A q \in Procs \ {p} : pc'[q] = pc[q] /\ job'[q] = job[q]
BY Zenon, Moves DEF Begin

(* A file of the directory that reads is the wallet it holds.              *)
LEMMA DirShape ==
  ASSUME NEW f \in DirFiles
  PROVE  /\ Readable(f) => f.wallet \in WalletRecords /\ f = Synced(f.wallet)
         /\ f # NoFile => f.synced = TRUE
         /\ \A w \in WalletRecords : f = Synced(w) => Readable(f) /\ f.wallet = w
<1>1. \A w \in WalletRecords : w \in Contents /\ w \notin {Torn, Unrelated}
  BY Zenon, FilesAssumption DEF Contents
<1>2. f = NoFile \/ (/\ f = [wallet |-> f.wallet, synced |-> TRUE] /\ f.wallet \in Contents
                      /\ f.synced = TRUE)
  BY Zenon DEF DirFiles
<1>3. \A w \in WalletRecords : Synced(w) # NoFile
  <2>1. \A w \in WalletRecords :
          Synced(w) \in [wallet : WalletRecords \cup {Torn, Unrelated}, synced : BOOLEAN]
    BY Zenon DEF Synced
  <2> QED BY Zenon, <2>1, FilesAssumption
<1>4. \A w : Synced(w).wallet = w
  BY Zenon DEF Synced
<1> QED BY Zenon, <1>1, <1>2, <1>3, <1>4 DEF Readable, Contents, Synced

LEMMA CreateWalletStep ==
  ASSUME HomeInv, NEW p \in Procs, NEW key \in Keys, NEW pw \in Passwords, NEW path \in Paths,
         CreateWallet(p, key, pw, path)
  PROVE  HomeInv'
<1> DEFINE new == [path |-> path, wallet |-> FromSecret(key, pw)]
<1>1. new \in WalletJobs
  BY Zenon DEF WalletJobs, WalletRecords, FromSecret, DeriveAddress, Encrypt
<1>2. "write" \in Stages /\ new \in Jobs
  BY Zenon, <1>1 DEF Stages, Jobs
<1>3. Begin(p, "write", new) /\ UNCHANGED <<genesisVars, walletVars>>
  BY Zenon DEF CreateWallet
<1> HIDE DEF new
<1>4. /\ ProcInv' /\ pc'[p] = "write" /\ job'[p] = new
      /\ \A q \in Procs \ {p} : pc'[q] = pc[q] /\ job'[q] = job[q]
  BY Zenon, <1>2, <1>3, Begins DEF HomeInv
<1>5. UNCHANGED <<genesis, ledger, forced, temp, wallets, kept, created, unlocked, overwritten,
                  edited>>
  BY Zenon, <1>3 DEF genesisVars, walletVars
<1>6. GenesisInv'
  BY Zenon, <1>4, <1>5, GenesisFrame DEF HomeInv
<1>7. \A q \in Procs : SaverOK(q)'
  <2>1. SaverOK(p)'
    BY Zenon, <1>1, <1>4 DEF SaverOK, Saving
  <2>2. \A q \in Procs \ {p} : SaverOK(q)'
    BY Zenon, <1>4, <1>5, SaverFrame DEF HomeInv, WalletInv
  <2> QED BY Zenon, <2>1, <2>2
<1>8. \A q \in Procs : LoaderOK(q)'
  BY Zenon, <1>4 DEF HomeInv, WalletInv, LoaderOK
<1>9. \A c \in created : Kept(c)'
  BY Zenon, <1>5 DEF HomeInv, WalletInv, Kept
<1>10. WalletInv'
  BY Zenon, <1>5, <1>7, <1>8, <1>9 DEF HomeInv, WalletInv, UnlockedIsOwners
<1> QED BY Zenon, <1>4, <1>6, <1>10 DEF HomeInv

LEMMA WriteWalletStep ==
  ASSUME HomeInv, NEW p \in Procs, WriteWallet(p)
  PROVE  HomeInv'
<1> DEFINE file == [wallet |-> job[p].wallet, synced |-> FALSE]
<1>0. "sync" \in Stages
  BY Zenon DEF Stages
<1>1. /\ Advance(p, "write", "sync")
      /\ temp' = [temp EXCEPT ![p] = file]
      /\ UNCHANGED <<genesis, ledger, forced, wallets, kept, created, unlocked, overwritten, edited>>
  BY Zenon DEF WriteWallet, genesisVars
<1>2. /\ ProcInv' /\ pc[p] = "write" /\ pc'[p] = "sync" /\ job' = job
      /\ \A q \in Procs \ {p} : pc'[q] = pc[q]
  BY Zenon, <1>0, <1>1, Advances DEF HomeInv
<1>3. job[p] \in WalletJobs
  BY Zenon, <1>2 DEF HomeInv, WalletInv, SaverOK, Saving
<1>4. file \in TempFiles
  BY Zenon, <1>3 DEF TempFiles, WalletJobs, Contents
<1> HIDE DEF file
<1>5. /\ temp' \in [Procs -> TempFiles] /\ temp'[p] = file
      /\ \A q \in Procs \ {p} : temp'[q] = temp[q]
  BY Zenon, <1>1, <1>4 DEF HomeInv, WalletInv
<1>6. GenesisInv'
  BY Zenon, <1>1, <1>2, GenesisFrame DEF HomeInv
<1>7. \A q \in Procs : SaverOK(q)'
  <2>1. SaverOK(p)'
    BY Zenon, <1>2, <1>3, <1>5 DEF SaverOK, Saving, file
  <2>2. \A q \in Procs \ {p} : SaverOK(q)'
    BY Zenon, <1>1, <1>2, <1>5, SaverFrame DEF HomeInv, WalletInv
  <2> QED BY Zenon, <2>1, <2>2
<1>8. \A q \in Procs : LoaderOK(q)'
  BY Zenon, <1>2 DEF HomeInv, WalletInv, LoaderOK
<1>9. \A c \in created : Kept(c)'
  BY Zenon, <1>1 DEF HomeInv, WalletInv, Kept
<1>10. WalletInv'
  BY Zenon, <1>1, <1>5, <1>7, <1>8, <1>9 DEF HomeInv, WalletInv, UnlockedIsOwners
<1> QED BY Zenon, <1>2, <1>6, <1>10 DEF HomeInv

LEMMA SyncWalletStep ==
  ASSUME HomeInv, NEW p \in Procs, SyncWallet(p)
  PROVE  HomeInv'
<1> DEFINE file == Synced(job[p].wallet)
<1>0. "persist" \in Stages
  BY Zenon DEF Stages
<1>1. /\ Advance(p, "sync", "persist")
      /\ temp' = [temp EXCEPT ![p] = [wallet |-> temp[p].wallet, synced |-> TRUE]]
      /\ UNCHANGED <<genesis, ledger, forced, wallets, kept, created, unlocked, overwritten, edited>>
  BY Zenon DEF SyncWallet, genesisVars
<1>2. /\ ProcInv' /\ pc[p] = "sync" /\ pc'[p] = "persist" /\ job' = job
      /\ \A q \in Procs \ {p} : pc'[q] = pc[q]
  BY Zenon, <1>0, <1>1, Advances DEF HomeInv
<1>3. job[p] \in WalletJobs /\ temp[p] = [wallet |-> job[p].wallet, synced |-> FALSE]
  BY Zenon, <1>2 DEF HomeInv, WalletInv, SaverOK, Saving
<1>4. file \in TempFiles /\ temp' = [temp EXCEPT ![p] = file]
  BY <1>1, <1>3 DEF TempFiles, WalletJobs, Contents, Synced
<1> HIDE DEF file
<1>5. /\ temp' \in [Procs -> TempFiles] /\ temp'[p] = file
      /\ \A q \in Procs \ {p} : temp'[q] = temp[q]
  BY Zenon, <1>4 DEF HomeInv, WalletInv
<1>6. GenesisInv'
  BY Zenon, <1>1, <1>2, GenesisFrame DEF HomeInv
<1>7. \A q \in Procs : SaverOK(q)'
  <2>1. SaverOK(p)'
    BY Zenon, <1>2, <1>3, <1>5 DEF SaverOK, Saving, file
  <2>2. \A q \in Procs \ {p} : SaverOK(q)'
    BY Zenon, <1>1, <1>2, <1>5, SaverFrame DEF HomeInv, WalletInv
  <2> QED BY Zenon, <2>1, <2>2
<1>8. \A q \in Procs : LoaderOK(q)'
  BY Zenon, <1>2 DEF HomeInv, WalletInv, LoaderOK
<1>9. \A c \in created : Kept(c)'
  BY Zenon, <1>1 DEF HomeInv, WalletInv, Kept
<1>10. WalletInv'
  BY Zenon, <1>1, <1>5, <1>7, <1>8, <1>9 DEF HomeInv, WalletInv, UnlockedIsOwners
<1> QED BY Zenon, <1>2, <1>6, <1>10 DEF HomeInv

(* The rename: a wallet that is already there is in the file's place, so   *)
(* the path is overwritten; otherwise no command counts on it.             *)
LEMMA PersistWalletStep ==
  ASSUME HomeInv, NEW p \in Procs, PersistWallet(p)
  PROVE  HomeInv'
<1> DEFINE path == job[p].path
           file == Synced(job[p].wallet)
<1>0. "syncdir" \in Stages
  BY Zenon DEF Stages
<1>1. /\ Advance(p, "persist", "syncdir")
      /\ wallets' = [wallets EXCEPT ![path] = temp[p]]
      /\ overwritten' = IF FreePath(path) THEN overwritten ELSE overwritten \cup {path}
      /\ temp' = [temp EXCEPT ![p] = NoFile]
      /\ UNCHANGED <<genesis, ledger, forced, kept, created, unlocked, edited>>
  BY Zenon DEF PersistWallet, genesisVars
<1>2. /\ ProcInv' /\ pc[p] = "persist" /\ pc'[p] = "syncdir" /\ job' = job
      /\ \A q \in Procs \ {p} : pc'[q] = pc[q]
  BY Zenon, <1>0, <1>1, Advances DEF HomeInv
<1>3. job[p] \in WalletJobs /\ temp[p] = file
  BY Zenon, <1>2 DEF HomeInv, WalletInv, SaverOK, Saving
<1>4. path \in Paths /\ job[p].wallet \in WalletRecords /\ file \in DirFiles
  BY Zenon, <1>3 DEF DirFiles, WalletJobs, Contents, Synced
<1>5. wallets \in [Paths -> DirFiles] /\ temp \in [Procs -> TempFiles] /\ NoFile \in TempFiles
  BY Zenon DEF HomeInv, WalletInv, TempFiles
<1> HIDE DEF file, path
<1>6. /\ wallets' \in [Paths -> DirFiles] /\ wallets'[path] = file
      /\ \A x \in Paths \ {path} : wallets'[x] = wallets[x]
  BY Zenon, <1>1, <1>3, <1>4, <1>5
<1>7. /\ temp' \in [Procs -> TempFiles]
      /\ \A q \in Procs \ {p} : temp'[q] = temp[q]
  BY Zenon, <1>1, <1>5
<1>8. overwritten \subseteq overwritten' /\ (wallets[path] # NoFile => path \in overwritten')
  BY Zenon, <1>1 DEF FreePath
<1>9. \A c \in WalletJobs : c.path \in Paths /\ Synced(c.wallet) # NoFile
  BY Zenon, DirShape DEF WalletJobs, DirFiles, Contents, Synced, Readable
<1>10. GenesisInv'
  BY Zenon, <1>1, <1>2, GenesisFrame DEF HomeInv
<1>11. ASSUME NEW c \in WalletJobs, c.path \notin overwritten' \cup edited,
              wallets[c.path] = Synced(c.wallet)
       PROVE  wallets'[c.path] = Synced(c.wallet)
  BY Zenon, <1>6, <1>8, <1>9, <1>11
<1>12. \A q \in Procs : SaverOK(q)'
  <2>1. SaverOK(p)'
    BY Zenon, <1>2, <1>3, <1>6 DEF SaverOK, Saving, file, path
  <2>2. ASSUME NEW q \in Procs \ {p} PROVE SaverOK(q)'
    <3>1. SaverOK(q)
      BY Zenon DEF HomeInv, WalletInv
    <3>2. ASSUME pc'[q] = "syncdir", job[q].path \notin overwritten' \cup edited
          PROVE  wallets'[job[q].path] = Synced(job[q].wallet)
      <4>1. pc[q] = "syncdir" /\ job[q] \in WalletJobs
        BY Zenon, <1>2, <3>1, <3>2 DEF SaverOK, Saving
      <4>2. wallets[job[q].path] = Synced(job[q].wallet)
        BY Zenon, <1>8, <3>1, <3>2, <4>1 DEF SaverOK
      <4> QED BY Zenon, <1>11, <3>2, <4>1, <4>2
    <3> QED BY Zenon, <1>1, <1>2, <1>7, <3>1, <3>2 DEF SaverOK
  <2> QED BY Zenon, <2>1, <2>2
<1>13. \A q \in Procs : LoaderOK(q)'
  BY Zenon, <1>2 DEF HomeInv, WalletInv, LoaderOK
<1>14. \A c \in created : Kept(c)'
  BY Zenon, <1>1, <1>8, <1>11 DEF HomeInv, WalletInv, Kept
<1>15. WalletInv'
  BY Zenon, <1>1, <1>6, <1>7, <1>12, <1>13, <1>14 DEF HomeInv, WalletInv, UnlockedIsOwners
<1> QED BY Zenon, <1>2, <1>10, <1>15 DEF HomeInv

LEMMA SyncWalletDirStep ==
  ASSUME HomeInv, NEW p \in Procs, SyncWalletDir(p)
  PROVE  HomeInv'
<1>1. /\ Finish(p, "syncdir") /\ kept' = wallets /\ created' = created \cup {job[p]}
      /\ UNCHANGED <<genesis, ledger, forced, temp, wallets, unlocked, overwritten, edited>>
  BY Zenon DEF SyncWalletDir, genesisVars
<1>2. /\ ProcInv' /\ pc[p] = "syncdir" /\ pc'[p] = "idle"
      /\ \A q \in Procs \ {p} : pc'[q] = pc[q] /\ job'[q] = job[q]
  BY Zenon, <1>1, Finishes DEF HomeInv
<1>3. job[p] \in WalletJobs
  BY Zenon, <1>2 DEF HomeInv, WalletInv, SaverOK, Saving
<1>4. GenesisInv'
  BY Zenon, <1>1, <1>2, GenesisFrame DEF HomeInv
<1>5. \A q \in Procs : SaverOK(q)'
  BY ZenonT(30), <1>1, <1>2 DEF HomeInv, WalletInv, SaverOK, Saving
<1>6. \A q \in Procs : LoaderOK(q)'
  BY Zenon, <1>2 DEF HomeInv, WalletInv, LoaderOK
<1>7. \A c \in created' : Kept(c)'
  BY Zenon, <1>1, <1>2 DEF HomeInv, WalletInv, SaverOK, Kept
<1>8. WalletInv'
  BY Zenon, <1>1, <1>3, <1>5, <1>6, <1>7 DEF HomeInv, WalletInv, UnlockedIsOwners
<1> QED BY Zenon, <1>2, <1>4, <1>8 DEF HomeInv

LEMMA EditAddressStep ==
  ASSUME HomeInv, NEW path \in Paths, NEW a \in Keys, EditAddress(path, a)
  PROVE  HomeInv'
<1> DEFINE file == [wallets[path] EXCEPT !.wallet.address = a]
<1>1. /\ Readable(wallets[path])
      /\ wallets' = [wallets EXCEPT ![path] = file]
      /\ kept' = [kept EXCEPT ![path] = wallets'[path]]
      /\ edited' = edited \cup {path}
      /\ UNCHANGED <<pc, job, genesis, ledger, forced, temp, created, unlocked, overwritten>>
  BY Zenon DEF EditAddress, genesisVars
<1>2. wallets \in [Paths -> DirFiles] /\ kept \in [Paths -> DirFiles]
  BY Zenon DEF HomeInv, WalletInv
<1>3. file \in DirFiles
  <2>1. wallets[path].wallet \in WalletRecords /\ wallets[path] = Synced(wallets[path].wallet)
    BY Zenon, <1>1, <1>2, DirShape
  <2>2. \A w \in WalletRecords : Synced(w) \in [wallet : WalletRecords, synced : {TRUE}]
    BY Zenon DEF Synced
  <2>3. [wallets[path].wallet EXCEPT !.address = a] \in WalletRecords
    BY Zenon, <2>1 DEF WalletRecords
  <2>4. file \in [wallet : WalletRecords, synced : {TRUE}]
    <3>1. wallets[path] \in [wallet : WalletRecords, synced : {TRUE}]
      BY <2>1, <2>2, Zenon
    <3> QED BY Zenon, <2>3, <3>1
  <2> QED BY Zenon, <2>4 DEF DirFiles, Contents
<1> HIDE DEF file
<1>4. /\ wallets' \in [Paths -> DirFiles] /\ kept' \in [Paths -> DirFiles]
      /\ \A x \in Paths \ {path} : wallets'[x] = wallets[x] /\ kept'[x] = kept[x]
  BY Zenon, <1>1, <1>2, <1>3
<1>5. \A c \in WalletJobs : c.path \in Paths
  BY Zenon DEF WalletJobs
<1>6. GenesisInv'
  BY Zenon, <1>1, GenesisFrame DEF HomeInv
<1>7. \A q \in Procs : SaverOK(q)'
  BY Zenon, <1>1, <1>4, <1>5 DEF HomeInv, WalletInv, SaverOK, Saving
<1>8. \A q \in Procs : LoaderOK(q)'
  BY Zenon, <1>1 DEF HomeInv, WalletInv, LoaderOK
<1>9. \A c \in created : Kept(c)'
  BY Zenon, <1>1, <1>4, <1>5 DEF HomeInv, WalletInv, Kept
<1>10. WalletInv'
  BY Zenon, <1>1, <1>4, <1>7, <1>8, <1>9 DEF HomeInv, WalletInv, UnlockedIsOwners
<1> QED BY Zenon, <1>1, <1>6, <1>10 DEF HomeInv, ProcInv

(* find_wallet returns a wallet of the address it was asked for.           *)
LEMMA Smallest ==
  ASSUME NEW S, S \subseteq Nat, S # {}
  PROVE  \E n \in S : \A m \in S : n <= m
<1>1. PICK n \in S : \A m \in S : ~ (<<m, n>> \in OpToRel(<, Nat))
  BY Zenon, NatLessThanWellFounded, WFMin
<1>2. ASSUME NEW m \in S, m < n PROVE FALSE
  <2>1. <<m, n>> \in Nat \X Nat /\ <<m, n>>[1] < <<m, n>>[2]
    BY Zenon, <1>2
  <2>2. <<m, n>> \in OpToRel(<, Nat)
    BY Zenon, <2>1 DEF OpToRel
  <2> QED BY Zenon, <1>1, <2>2
<1>3. \A m \in S : n \in Nat /\ m \in Nat /\ ~ (m < n)
  BY Zenon, <1>2
<1> QED BY <1>3

LEMMA FindsMatching ==
  ASSUME NEW a, Matching(a) # {}
  PROVE  FindWallet(a) \in Matching(a)
<1>1. Matching(a) \subseteq Nat
  BY Zenon, HomeAssumption DEF Matching, ListWallets
<1>2. \E p \in Matching(a) : \A q \in Matching(a) : p <= q
  BY Zenon, <1>1, Smallest
<1> QED BY Zenon, <1>2 DEF FindWallet

LEMMA FindKeyStep ==
  ASSUME HomeInv, NEW p \in Procs, NEW a \in Keys, NEW pw \in Passwords, FindKey(p, a, pw)
  PROVE  HomeInv'
<1> DEFINE path == FindWallet(a)
           new == [path |-> path, asked |-> a, password |-> pw, found |-> wallets[path].wallet]
<1>1. Matching(a) # {} /\ Begin(p, "load", new) /\ UNCHANGED <<genesisVars, walletVars>>
  BY Zenon DEF FindKey
<1>2. path \in Paths /\ Readable(wallets[path]) /\ wallets[path].wallet.address = a
  BY Zenon, <1>1, FindsMatching DEF Matching, ListWallets
<1>3. wallets[path].wallet \in WalletRecords
  <2>1. wallets[path] \in DirFiles
    BY Zenon, <1>2 DEF HomeInv, WalletInv
  <2> QED BY Zenon, <1>2, <2>1, DirShape
<1> HIDE DEF path
<1>4. new \in KeyJobs /\ new.found.address = new.asked
  BY Zenon, <1>2, <1>3 DEF KeyJobs
<1>5. "load" \in Stages /\ new \in Jobs
  BY Zenon, <1>4 DEF Stages, Jobs
<1> HIDE DEF new
<1>6. /\ ProcInv' /\ pc'[p] = "load" /\ job'[p] = new
      /\ \A q \in Procs \ {p} : pc'[q] = pc[q] /\ job'[q] = job[q]
  BY Zenon, <1>1, <1>5, Begins DEF HomeInv
<1>7. UNCHANGED <<genesis, ledger, forced, temp, wallets, kept, created, unlocked, overwritten,
                  edited>>
  BY Zenon, <1>1 DEF genesisVars, walletVars
<1>8. GenesisInv'
  BY Zenon, <1>6, <1>7, GenesisFrame DEF HomeInv
<1>9. \A q \in Procs : SaverOK(q)'
  BY ZenonT(30), <1>6, <1>7 DEF HomeInv, WalletInv, SaverOK, Saving
<1>10. \A q \in Procs : LoaderOK(q)'
  BY Zenon, <1>4, <1>6 DEF HomeInv, WalletInv, LoaderOK
<1>11. \A c \in created : Kept(c)'
  BY Zenon, <1>7 DEF HomeInv, WalletInv, Kept
<1>12. WalletInv'
  BY Zenon, <1>7, <1>9, <1>10, <1>11 DEF HomeInv, WalletInv, UnlockedIsOwners
<1> QED BY Zenon, <1>6, <1>8, <1>12 DEF HomeInv

(* Wallet::load: the wallet that opens has the key of its address.         *)
LEMMA LoadKeyStep ==
  ASSUME HomeInv, NEW p \in Procs, LoadKey(p)
  PROVE  HomeInv'
<1> DEFINE file == wallets[job[p].path]
           u == [asked |-> job[p].asked, found |-> job[p].found, opened |-> file.wallet]
<1>1. /\ Finish(p, "load")
      /\ unlocked' = IF Opens(file, job[p].password) THEN unlocked \cup {u} ELSE unlocked
      /\ UNCHANGED <<genesis, ledger, forced, temp, wallets, kept, created, overwritten, edited>>
  BY Zenon DEF LoadKey, genesisVars
<1>2. /\ ProcInv' /\ pc[p] = "load" /\ pc'[p] = "idle"
      /\ \A q \in Procs \ {p} : pc'[q] = pc[q] /\ job'[q] = job[q]
  BY Zenon, <1>1, Finishes DEF HomeInv
<1>3. job[p].found.address = job[p].asked
  BY Zenon, <1>2 DEF HomeInv, WalletInv, LoaderOK
<1>4. Opens(file, job[p].password) => file.wallet.address = file.wallet.encrypted.secret
  BY Zenon DEF Opens, DeriveAddress
<1>5. Opens(file, job[p].password) =>
        DeriveAddress(u.opened.encrypted.secret) = u.asked \/ u.opened # u.found
  BY Zenon, <1>3, <1>4 DEF DeriveAddress
<1> HIDE DEF file, u
<1>6. UnlockedIsOwners'
  BY Zenon, <1>1, <1>5 DEF HomeInv, WalletInv, UnlockedIsOwners
<1>7. GenesisInv'
  BY Zenon, <1>1, <1>2, GenesisFrame DEF HomeInv
<1>8. \A q \in Procs : SaverOK(q)'
  BY ZenonT(30), <1>1, <1>2 DEF HomeInv, WalletInv, SaverOK, Saving
<1>9. \A q \in Procs : LoaderOK(q)'
  BY Zenon, <1>2 DEF HomeInv, WalletInv, LoaderOK
<1>10. \A c \in created : Kept(c)'
  BY Zenon, <1>1 DEF HomeInv, WalletInv, Kept
<1>11. WalletInv'
  BY Zenon, <1>1, <1>6, <1>8, <1>9, <1>10 DEF HomeInv, WalletInv
<1> QED BY Zenon, <1>2, <1>7, <1>11 DEF HomeInv

(* Every genesis file there is, torn or whole, is a file.                  *)
LEMMA GenesisShape ==
  /\ \A f \in GenesisFiles : f # NoFile
  /\ Truncated \in GenesisFiles /\ Truncated.doc = Torn
  /\ \A d \in Documents : [doc |-> d, synced |-> FALSE] \in GenesisFiles
<1>1. \A f \in GenesisFiles : f # NoFile
  BY FilesAssumption, Zenon DEF GenesisFiles
<1>2. Truncated \in GenesisFiles /\ Truncated.doc = Torn
  BY Zenon DEF GenesisFiles, Truncated
<1>3. \A d \in Documents : [doc |-> d, synced |-> FALSE] \in GenesisFiles
  BY Zenon DEF GenesisFiles
<1> QED BY Zenon, <1>1, <1>2, <1>3

LEMMA InitGenesisStep ==
  ASSUME HomeInv, NEW p \in Procs, NEW args \in InitArgs, NEW force \in BOOLEAN,
         InitGenesis(p, args, force)
  PROVE  HomeInv'
<1> DEFINE new == [doc |-> Document(args), force |-> force, existed |-> genesis # NoFile]
<1>1. /\ MayInit(force) /\ Parses(args) /\ Begin(p, "truncate", new)
      /\ UNCHANGED <<genesisVars, walletVars>>
  BY Zenon DEF InitGenesis
<1>2. Document(args) \in Documents
  BY Zenon, <1>1 DEF Documents
<1>3. (genesis # NoFile) \in BOOLEAN
  BY Zenon
<1>4. new \in GenesisJobs
  BY Zenon, <1>2, <1>3 DEF GenesisJobs
<1>5. new.force \/ ~new.existed
  BY <1>1, Zenon DEF MayInit
<1>6. "truncate" \in Stages /\ new \in Jobs
  BY Zenon, <1>4 DEF Stages, Jobs
<1> HIDE DEF new
<1>7. /\ ProcInv' /\ pc'[p] = "truncate" /\ job'[p] = new
      /\ \A q \in Procs \ {p} : pc'[q] = pc[q] /\ job'[q] = job[q]
  BY Zenon, <1>1, <1>6, Begins DEF HomeInv
<1>8. UNCHANGED <<genesis, ledger, forced, temp, wallets, kept, created, unlocked, overwritten,
                  edited>>
  BY Zenon, <1>1 DEF genesisVars, walletVars
<1>9. WalletInv'
  <2>1. temp' \in [Procs -> TempFiles]
    BY Zenon, <1>8 DEF HomeInv, WalletInv
  <2> QED BY Zenon, <1>7, <1>8, <2>1, WalletFrame DEF HomeInv, Saving
<1>10. \A q \in Procs : WriterOK(q)'
  BY Zenon, <1>4, <1>5, <1>7, <1>8 DEF HomeInv, GenesisInv, WriterOK
<1>11. GenesisInv'
  BY Zenon, <1>8, <1>10 DEF HomeInv, GenesisInv, OrphanedOnlyByOverwrite, Loads
<1> QED BY Zenon, <1>7, <1>9, <1>11 DEF HomeInv

LEMMA TruncateGenesisStep ==
  ASSUME HomeInv, NEW p \in Procs, TruncateGenesis(p)
  PROVE  HomeInv'
<1>0. "fill" \in Stages
  BY Zenon DEF Stages
<1>1. /\ Advance(p, "truncate", "fill")
      /\ genesis' = Truncated
      /\ forced' = (forced \/ (genesis # NoFile /\ (job[p].force \/ ~job[p].existed)))
      /\ UNCHANGED <<ledger, temp, wallets, kept, created, unlocked, overwritten, edited>>
  BY Zenon DEF TruncateGenesis, walletVars, Truncated
<1>2. /\ ProcInv' /\ pc[p] = "truncate" /\ pc'[p] = "fill" /\ job' = job
      /\ \A q \in Procs \ {p} : pc'[q] = pc[q]
  BY Zenon, <1>0, <1>1, Advances DEF HomeInv
<1>3. WalletInv'
  <2>1. temp' \in [Procs -> TempFiles]
    BY Zenon, <1>1 DEF HomeInv, WalletInv
  <2> QED BY Zenon, <1>1, <1>2, <2>1, WalletFrame DEF HomeInv, Saving
<1>4. job[p] \in GenesisJobs /\ (job[p].force \/ ~job[p].existed)
  BY Zenon, <1>2 DEF HomeInv, GenesisInv, WriterOK
<1>5. forced' \in BOOLEAN /\ (forced => forced') /\ (genesis # NoFile => forced')
  BY <1>1, <1>4, Zenon DEF HomeInv, GenesisInv
<1>6. ASSUME ~forced' PROVE ledger = NoFile /\ (\A q \in Procs : pc[q] # "fill")
  BY Zenon, <1>5, <1>6, GenesisShape DEF HomeInv, GenesisInv, WriterOK
<1>7. \A q \in Procs : WriterOK(q)'
  BY Zenon, <1>1, <1>2, <1>4, <1>6 DEF HomeInv, GenesisInv, WriterOK
<1>8. OrphanedOnlyByOverwrite'
  BY Zenon, <1>1, GenesisShape DEF OrphanedOnlyByOverwrite, Loads
<1>9. GenesisInv'
  BY Zenon, <1>1, <1>5, <1>7, <1>8, GenesisShape DEF GenesisInv
<1> QED BY Zenon, <1>2, <1>3, <1>9 DEF HomeInv

LEMMA FillGenesisStep ==
  ASSUME HomeInv, NEW p \in Procs, FillGenesis(p)
  PROVE  HomeInv'
<1>1. /\ Finish(p, "fill") /\ genesis' = [doc |-> job[p].doc, synced |-> FALSE]
      /\ UNCHANGED <<ledger, forced, temp, wallets, kept, created, unlocked, overwritten, edited>>
  BY Zenon DEF FillGenesis, walletVars
<1>2. /\ ProcInv' /\ pc[p] = "fill" /\ pc'[p] = "idle"
      /\ \A q \in Procs \ {p} : pc'[q] = pc[q] /\ job'[q] = job[q]
  BY Zenon, <1>1, Finishes DEF HomeInv
<1>3. WalletInv'
  <2>1. temp' \in [Procs -> TempFiles]
    BY Zenon, <1>1 DEF HomeInv, WalletInv
  <2> QED BY Zenon, <1>1, <1>2, <2>1, WalletFrame DEF HomeInv, Saving
<1>4. job[p].doc \in Documents
  BY Zenon, <1>2 DEF HomeInv, GenesisInv, WriterOK, GenesisJobs
<1>5. genesis' \in GenesisFiles
  BY Zenon, <1>1, <1>4, GenesisShape
<1>6. ~forced => ledger = NoFile /\ \A q \in Procs : pc[q] = "fill" => q = p
  BY Zenon, <1>2 DEF HomeInv, GenesisInv, WriterOK
<1>7. \A q \in Procs : WriterOK(q)'
  BY Zenon, <1>1, <1>2, <1>6 DEF HomeInv, GenesisInv, WriterOK
<1>8. OrphanedOnlyByOverwrite'
  BY Zenon, <1>1, <1>6 DEF OrphanedOnlyByOverwrite
<1>9. GenesisInv'
  BY Zenon, <1>1, <1>5, <1>7, <1>8, GenesisShape DEF HomeInv, GenesisInv
<1> QED BY Zenon, <1>2, <1>3, <1>9 DEF HomeInv

(* A ledger is seeded from a whole genesis file, and with its chain.       *)
LEMMA StartStep ==
  ASSUME HomeInv, NEW validator \in BOOLEAN, Start(validator)
  PROVE  HomeInv'
<1>1. /\ UNCHANGED <<pc, job, genesis, forced, temp, wallets, kept, created, unlocked,
                     overwritten, edited>>
      /\ genesis # NoFile => Loads(genesis)
      /\ \/ ledger' = ledger
         \/ /\ genesis # NoFile
            /\ ledger' = [chain_id |-> BootChainId, seed |-> genesis.doc.allocations]
  BY Zenon DEF Start, Bootable, walletVars
<1>2. WalletInv'
  <2>1. temp' \in [Procs -> TempFiles]
    BY Zenon, <1>1 DEF HomeInv, WalletInv
  <2> QED BY Zenon, <1>1, <2>1, WalletFrame DEF HomeInv
<1>3. CASE ledger' = ledger
  BY Zenon, <1>1, <1>2, <1>3, GenesisFrame DEF HomeInv, ProcInv
<1>4. CASE /\ genesis # NoFile
           /\ ledger' = [chain_id |-> BootChainId, seed |-> genesis.doc.allocations]
  <2>1. ledger'.chain_id = genesis.doc.chain_id
    BY Zenon, <1>4 DEF BootChainId
  <2>2. genesis # Truncated
    BY Zenon, <1>1, <1>4, GenesisShape DEF Loads
  <2>3. \A q \in Procs : WriterOK(q)'
    BY Zenon, <1>1, <2>2 DEF HomeInv, GenesisInv, WriterOK
  <2>4. OrphanedOnlyByOverwrite'
    BY Zenon, <1>1, <2>1 DEF OrphanedOnlyByOverwrite
  <2>5. GenesisInv'
    BY Zenon, <1>1, <1>4, <2>3, <2>4 DEF HomeInv, GenesisInv
  <2> QED BY Zenon, <1>1, <1>2, <2>5 DEF HomeInv, ProcInv
<1> QED BY Zenon, <1>1, <1>3, <1>4

LEMMA StopStep ==
  ASSUME HomeInv, Stop
  PROVE  HomeInv'
<1>1. UNCHANGED <<pc, job, genesis, ledger, forced, temp, wallets, kept, created, unlocked,
                  overwritten, edited>>
  BY Zenon DEF Stop, walletVars
<1>2. WalletInv'
  <2>1. temp' \in [Procs -> TempFiles]
    BY Zenon, <1>1 DEF HomeInv, WalletInv
  <2> QED BY Zenon, <1>1, <2>1, WalletFrame DEF HomeInv
<1> QED BY Zenon, <1>1, <1>2, GenesisFrame DEF HomeInv, ProcInv

LEMMA InterruptStep ==
  ASSUME HomeInv, NEW p \in Procs, Interrupt(p)
  PROVE  HomeInv'
<1>1. /\ pc' = [pc EXCEPT ![p] = "idle"] /\ job' = [job EXCEPT ![p] = NoJob]
      /\ temp' = [temp EXCEPT ![p] = NoFile]
      /\ UNCHANGED <<genesis, ledger, forced, wallets, kept, created, unlocked, overwritten, edited>>
  BY Zenon DEF Interrupt, genesisVars
<1>2. "idle" \in Stages /\ NoJob \in Jobs /\ NoFile \in TempFiles
  BY Zenon DEF Stages, Jobs, TempFiles
<1>3. /\ ProcInv' /\ pc'[p] = "idle"
      /\ \A q \in Procs \ {p} : pc'[q] = pc[q] /\ job'[q] = job[q]
  BY Zenon, <1>1, <1>2, Moves DEF HomeInv
<1>4. temp' \in [Procs -> TempFiles] /\ \A q \in Procs \ {p} : temp'[q] = temp[q]
  BY Zenon, <1>1, <1>2 DEF HomeInv, WalletInv
<1>5. WalletInv'
  BY Zenon, <1>1, <1>3, <1>4, WalletFrame DEF HomeInv, Saving
<1> QED BY Zenon, <1>1, <1>3, <1>5, GenesisFrame DEF HomeInv

(* A wallet that was reported is the same in both views of the directory,  *)
(* so that it survives; a genesis file survives, whole or torn, once there *)
(* is a ledger.                                                            *)
LEMMA PowerLossStep ==
  ASSUME HomeInv, PowerLoss
  PROVE  HomeInv'
<1>1. /\ pc' = [p \in Procs |-> "idle"] /\ job' = [p \in Procs |-> NoJob]
      /\ temp' = [p \in Procs |-> NoFile]
      /\ wallets' \in [Paths -> UNION {Survivors(wallets[p], kept[p]) : p \in Paths}]
      /\ \A p \in Paths : wallets'[p] \in Survivors(wallets[p], kept[p])
      /\ kept' = wallets' /\ genesis' \in GenesisSurvivors
      /\ UNCHANGED <<ledger, forced, created, unlocked, overwritten, edited>>
  BY Zenon DEF PowerLoss
<1>2. "idle" \in Stages /\ NoJob \in Jobs /\ NoFile \in TempFiles
  BY Zenon DEF Stages, Jobs, TempFiles
<1>3. ProcInv' /\ temp' \in [Procs -> TempFiles] /\ \A q \in Procs : pc'[q] = "idle"
  BY Zenon, <1>1, <1>2 DEF ProcInv
<1>4. wallets \in [Paths -> DirFiles] /\ kept \in [Paths -> DirFiles]
  BY Zenon DEF HomeInv, WalletInv
<1>5. \A p \in Paths : wallets'[p] \in {wallets[p], kept[p]}
  <2>1. \A p \in Paths : wallets[p] # NoFile => wallets[p].synced
    BY Zenon, <1>4, DirShape
  <2> QED BY <1>1, <2>1, Zenon DEF Survivors
<1>6. wallets' \in [Paths -> DirFiles]
  <2>1. \A p \in Paths : wallets'[p] \in DirFiles
    BY Zenon, <1>4, <1>5
  <2>2. DOMAIN wallets' = Paths /\ wallets' = [p \in Paths |-> wallets'[p]]
    BY Zenon, <1>1
  <2> QED BY Zenon, <2>1, <2>2
<1>7. WalletInv'
  <2>1. \A q \in Procs : SaverOK(q)' /\ LoaderOK(q)'
    BY Zenon, <1>3 DEF SaverOK, LoaderOK, Saving
  <2>2. \A c \in created : c.path \in Paths
    BY Zenon DEF HomeInv, WalletInv, WalletJobs
  <2>3. \A c \in created : Kept(c)'
    BY Zenon, <1>1, <1>5, <2>2 DEF HomeInv, WalletInv, Kept
  <2> QED BY Zenon, <1>1, <1>3, <1>6, <2>1, <2>3 DEF HomeInv, WalletInv, UnlockedIsOwners
<1>8. /\ genesis' \in GenesisFiles \cup {NoFile} /\ (ledger # NoFile => genesis' # NoFile)
      /\ genesis' # NoFile => genesis # NoFile /\ genesis'.doc \in {genesis.doc, Torn}
  <2>1. CASE genesis = NoFile
    BY Zenon, <1>1, <2>1 DEF GenesisSurvivors, HomeInv, GenesisInv
  <2>2. CASE genesis \in GenesisFiles
    <3> DEFINE whole == [genesis EXCEPT !.synced = TRUE]
               torn == [doc |-> Torn, synced |-> TRUE]
    <3>1. whole \in GenesisFiles /\ whole.doc = genesis.doc
      BY Zenon, <2>2 DEF GenesisFiles
    <3>2. torn \in GenesisFiles /\ torn.doc = Torn
      BY Zenon DEF GenesisFiles
    <3>3. \/ genesis' \in {genesis, whole, torn}
          \/ genesis' = NoFile /\ ledger = NoFile
      BY Zenon, <1>1 DEF GenesisSurvivors
    <3> HIDE DEF whole, torn
    <3> QED BY Zenon, <2>2, <3>1, <3>2, <3>3, GenesisShape
  <2> QED BY Zenon, <2>1, <2>2 DEF HomeInv, GenesisInv
<1>9. GenesisInv'
  <2>1. \A q \in Procs : WriterOK(q)'
    BY Zenon, <1>3 DEF WriterOK
  <2>2. OrphanedOnlyByOverwrite'
    BY Zenon, <1>1, <1>8 DEF HomeInv, GenesisInv, OrphanedOnlyByOverwrite, Loads
  <2> QED BY Zenon, <1>1, <1>8, <2>1, <2>2 DEF HomeInv, GenesisInv
<1> QED BY Zenon, <1>3, <1>7, <1>9 DEF HomeInv

LEMMA HomeInitInv ==
  ASSUME HomeInit
  PROVE  HomeInv
<1>1. "idle" \in Stages /\ NoJob \in Jobs /\ NoFile \in TempFiles
  BY Zenon DEF Stages, Jobs, TempFiles
<1>2. ProcInv /\ temp \in [Procs -> TempFiles] /\ \A q \in Procs : pc[q] = "idle"
  BY Zenon, <1>1 DEF ProcInv, HomeInit
<1>3. NoFile \in DirFiles /\ [wallet |-> Unrelated, synced |-> TRUE] \in DirFiles
  BY Zenon DEF DirFiles, Contents
<1>4. wallets \in [Paths -> DirFiles] /\ kept \in [Paths -> DirFiles]
  BY Zenon, <1>3 DEF HomeInit
<1>5. WalletInv
  BY Zenon, <1>2, <1>4 DEF WalletInv, SaverOK, LoaderOK, Saving, UnlockedIsOwners, HomeInit
<1>6. GenesisInv
  BY Zenon, <1>2 DEF GenesisInv, WriterOK, OrphanedOnlyByOverwrite, HomeInit
<1> QED BY Zenon, <1>2, <1>5, <1>6 DEF HomeInv

LEMMA HomeStep ==
  ASSUME HomeInv, [HomeNext]_homeVars
  PROVE  HomeInv'
<1>1. CASE HomeNext
  BY <1>1, CreateWalletStep, WriteWalletStep, SyncWalletStep, PersistWalletStep,
     SyncWalletDirStep, EditAddressStep, FindKeyStep, LoadKeyStep, InitGenesisStep,
     TruncateGenesisStep, FillGenesisStep, StartStep, StopStep, InterruptStep, PowerLossStep,
     Zenon DEF HomeNext
<1>2. CASE UNCHANGED homeVars
  <2>1. UNCHANGED <<pc, job, genesis, ledger, forced, temp, wallets, kept, created, unlocked,
                    overwritten, edited>>
    BY Zenon, <1>2 DEF homeVars, genesisVars, walletVars
  <2>2. WalletInv'
    <3>1. temp' \in [Procs -> TempFiles]
      BY Zenon, <2>1 DEF HomeInv, WalletInv
    <3> QED BY Zenon, <2>1, <3>1, WalletFrame DEF HomeInv
  <2> QED BY Zenon, <2>1, <2>2, GenesisFrame DEF HomeInv, ProcInv
<1> QED BY Zenon, <1>1, <1>2

(* HomeInv holds of every behaviour of the command line tool, for any      *)
(* commands at once, files, keys and init arguments, and any bounds.       *)
THEOREM HomeInvHolds == HomeSpec => []HomeInv
BY HomeInitInv, HomeStep, PTL DEF HomeSpec

(* CreatedIsKept: a wallet that `wallet new` or `wallet import` reported   *)
(* stays in its file, whole, through failed commands and power losses,     *)
(* unless that very file was overwritten or edited.                        *)
THEOREM ReportedWalletsAreKept == HomeSpec => []CreatedIsKept
<1>1. ASSUME HomeInv PROVE CreatedIsKept
  <2>1. wallets \in [Paths -> DirFiles] /\ kept \in [Paths -> DirFiles]
    BY Zenon, <1>1 DEF HomeInv, WalletInv
  <2>2. \A c \in created : c.path \in Paths /\ c.wallet \in WalletRecords /\ Kept(c)
    BY Zenon, <1>1 DEF HomeInv, WalletInv, WalletJobs
  <2>3. \A f \in DirFiles, w \in WalletRecords : f = Synced(w) => Readable(f) /\ f.wallet = w
    BY Zenon, DirShape
  <2> QED BY Zenon, <2>1, <2>2, <2>3 DEF CreatedIsKept, Kept
<1> QED BY <1>1, HomeInvHolds, PTL

(* UnlockedIsOwners: Wallet::load gives a command the key of the address   *)
(* it asked for, unless the file changed since the command found it.       *)
THEOREM UnlockGivesTheOwnersKey == HomeSpec => []UnlockedIsOwners
<1>1. HomeInv => UnlockedIsOwners
  BY Zenon DEF HomeInv, WalletInv
<1> QED BY <1>1, HomeInvHolds, PTL

(* OrphanedOnlyByOverwrite: a genesis file that loads is of the ledger's   *)
(* chain unless --force or a racing init overwrote one.                    *)
THEOREM OnlyOverwritesOrphan == HomeSpec => []OrphanedOnlyByOverwrite
<1>1. HomeInv => OrphanedOnlyByOverwrite
  BY Zenon DEF HomeInv, GenesisInv
<1> QED BY <1>1, HomeInvHolds, PTL

=============================================================================
