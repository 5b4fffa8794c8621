----------------------------- MODULE PacketStream -----------------------------
(***************************************************************************)
(* How a session cuts the byte stream of its connection into packets:      *)
(* handRead, the loop of defaultMessageCallback, hasPacket, and the input  *)
(* buffer, which a retrying session keeps from connection to connection.   *)
(*                                                                         *)
(* The peer writes whole packets; the network delivers the bytes in order  *)
(* and cuts them as it likes.                                              *)
(***************************************************************************)
EXTENDS DataBuffer, FiniteSets, SequencesExt

CONSTANTS
    HeaderSize,      \* kPacketHeaderSize (12 in the code)
    InitialSize,     \* kInitialSize, the size of a new buffer (1024)
    ReadSize,        \* the room startAsyncRead asks for (1024)
    BodySizes,       \* the sizes of the bodies of packets
    MaxPackets,      \* bound: packets sent, over all connections
    MaxConnections   \* bound: connections

ASSUME PacketAssumption ==
    /\ HeaderSize \in Nat \ {0} /\ InitialSize \in Nat /\ ReadSize \in Nat \ {0}
    /\ BodySizes \subseteq Nat /\ IsFiniteSet(BodySizes) /\ BodySizes # {}
    /\ MaxPackets \in Nat /\ MaxConnections \in Nat

VARIABLES
    connected,    \* is there a connection, with a read under way on it?
    connection,   \* its number
    input,        \* inputBuffer_
    wire,         \* the bytes sent and not yet read
    sent,         \* the packets the peer has sent, over all connections
    handled,      \* what handlerMsg was called with
    torn          \* did a connection end inside a packet that had begun to arrive?

vars == <<connected, connection, input, wire, sent, handled, torn>>

\* Packets are numbered in the order they are sent; a byte is that number and
\* its place in the packet, header first.
Packet == [connection : Nat, size : BodySizes]
Bytes(num, size) == [i \in 1..(HeaderSize + size) |-> <<num, i>>]

\* What handlerMsg gets when the bytes are not those of one packet.
garbage == 0

TypeOK ==
    /\ connected \in BOOLEAN /\ torn \in BOOLEAN
    /\ connection \in 0..MaxConnections
    /\ 0 <= input.reader /\ input.reader <= input.writer
    /\ input.writer <= Len(input.memory)
    /\ \A i \in DOMAIN sent : sent[i] \in Packet
    /\ \A i \in DOMAIN handled : handled[i] \in DOMAIN sent \cup {garbage}

Init ==
    /\ connected = FALSE
    /\ connection = 0
    /\ input = newBuffer(InitialSize)
    /\ wire = <<>>
    /\ sent = <<>>
    /\ handled = <<>>
    /\ torn = FALSE
-----------------------------------------------------------------------------
\* The size in the header at the beginning of some bytes; any size, g, when
\* they are not a header.
SizeField(bytes, g) ==
    LET num == bytes[1][1]
    IN IF \A i \in 1..HeaderSize : bytes[i] = <<num, i>> THEN sent[num].size ELSE g

\* Mutation of hasPacket: a packet must be followed by another byte.
HasPacketAndMore(bytes, g) ==
    Len(bytes) > HeaderSize /\ Len(bytes) > SizeField(bytes, g) + HeaderSize

hasPacket(bytes, g) ==
    Len(bytes) >= HeaderSize /\ Len(bytes) >= SizeField(bytes, g) + HeaderSize

\* The first packet of some bytes, as handlerMsg gets it.
FirstPacket(bytes, g) ==
    LET num == bytes[1][1]
        size == SizeField(bytes, g)
    IN IF SubSeq(bytes, 1, HeaderSize + size) = Bytes(num, size) THEN num ELSE garbage

\* What is left to be read after the first o bytes.
Rest(b, o) == SubSeq(b.memory, b.reader + o + 1, b.writer)

\* A round of the loop of defaultMessageCallback: from o bytes retrieved on.
After(b, g, o) ==
    IF hasPacket(Rest(b, o), g) THEN o + HeaderSize + SizeField(Rest(b, o), g) ELSE o

\* cut[i] is how much the first i rounds have retrieved.
Cuts(b, g) ==
    LET cut[i \in 0..(readableBytes(b) \div HeaderSize)] ==
            IF i = 0 THEN 0 ELSE After(b, g, cut[i - 1])
    IN cut

\* The loop: handle and retrieve while there is a packet.
defaultMessageCallback(b, done, g) ==
    LET most   == readableBytes(b) \div HeaderSize
        cut    == Cuts(b, g)
        rounds == Cardinality({i \in 1..most : cut[i] # cut[i - 1]})
    IN [data |-> retrieve(b, cut[most]),
        done |-> done \o [i \in 1..rounds |-> FirstPacket(Rest(b, cut[i - 1]), g)]]

\* The peer sends a packet (addMore of its header, send of its body).
Send(size) ==
    /\ connected
    /\ Len(sent) < MaxPackets
    /\ sent' = Append(sent, [connection |-> connection, size |-> size])
    /\ wire' = wire \o Bytes(Len(sent'), size)
    /\ UNCHANGED <<connected, connection, input, handled, torn>>

\* handRead: n bytes have arrived, the packets among them are handled and the
\* next read is started.
handRead(n, g) ==
    LET filled == hasWritten(Store(input, SubSeq(wire, 1, n)), n)
        after  == defaultMessageCallback(filled, handled, g)
    IN /\ connected
       /\ n <= Len(wire) /\ n <= writableBytes(input)
       /\ wire' = SubSeq(wire, n + 1, Len(wire))
       /\ handled' = after.done
       /\ input' = ensureWritableBytes(after.data, ReadSize)
       /\ UNCHANGED <<connected, connection, sent, torn>>

\* connectEstablished: startAsyncRead on a buffer as the last connection left it.
connectEstablished ==
    /\ ~connected
    /\ connection < MaxConnections
    /\ connected' = TRUE
    /\ connection' = connection + 1
    /\ input' = ensureWritableBytes(input, ReadSize)
    /\ UNCHANGED <<wire, sent, handled, torn>>

\* handClose: the bytes on the wire are lost, those in the buffer are kept.
handClose ==
    /\ connected
    /\ connected' = FALSE
    /\ wire' = <<>>
    /\ torn' = (torn \/ Readable(input) # <<>>)
    /\ UNCHANGED <<connection, input, sent, handled>>

Read == \E n \in 1..Len(wire), g \in BodySizes : handRead(n, g)

Next ==
    \/ \E size \in BodySizes : Send(size)
    \/ Read
    \/ connectEstablished
    \/ handClose

Spec == Init /\ [][Next]_vars

\* A read ends when there are bytes; a retrying session connects again.
FairSpec == Spec /\ WF_vars(Read) /\ WF_vars(connectEstablished)
-----------------------------------------------------------------------------
(***************************************************************************)
(* However the network cuts the stream, wherever the buffer wraps and      *)
(* grows, and however often the connection is replaced between packets:    *)
(* handlerMsg gets whole packets, in the order they were sent and each     *)
(* once, and of the packets of a connection none is left out.              *)
(***************************************************************************)
PacketsStayWhole ==
    ~torn => /\ \A i \in DOMAIN handled : handled[i] # garbage
             /\ \A i, j \in DOMAIN handled : i < j => handled[i] < handled[j]
             /\ \A num \in ToSet(handled), earlier \in DOMAIN sent :
                   earlier < num /\ sent[earlier].connection = sent[num].connection
                     => earlier \in ToSet(handled)

(***************************************************************************)
(* However long the stream, the buffer never outgrows its first size or    *)
(* its largest packet and two reads: the room before the reader is used    *)
(* again (makeSpace).                                                      *)
(***************************************************************************)
BufferStaysBounded ==
    LET largest == CHOOSE m \in BodySizes : \A s \in BodySizes : s <= m
        limit   == HeaderSize + largest + 2 * ReadSize
    IN ~torn => Len(input.memory) <= IF limit < InitialSize THEN InitialSize ELSE limit

(***************************************************************************)
(* Each packet is handled in the end, without another one having to follow *)
(* it, unless its connection ends or an earlier one ended inside a packet. *)
(***************************************************************************)
PacketsGetHandled ==
    \A i \in 1..MaxPackets :
        Len(sent) >= i ~> \/ i \in ToSet(handled)
                          \/ i \notin {k \in DOMAIN sent : sent[k].connection = connection}
                          \/ ~connected
                          \/ torn
=============================================================================
