---------------------------- MODULE PacketStream ----------------------------
(***************************************************************************)
(* How combat_server_client cuts packets out of the byte stream of its     *)
(* socket: try_recive, parse_next_packet and move_packet_data_to_start     *)
(* (combat_server.h), called in a loop by app::on_any_client_socket until  *)
(* recv has nothing left (app.cpp).                                        *)
(*                                                                         *)
(* A packet is a record [command, data]; a byte is a number.  The length   *)
(* in the header is two bytes, low byte first, the command is one.         *)
(***************************************************************************)
EXTENDS Integers, Sequences, SequencesExt

CONSTANTS
    Packets,     \* packets the peer may send
    MaxPackets,  \* bound on how many it sends
    RecvLength,  \* recive_length, the room made for one recv (1024)
    Base         \* values of a byte (256)

ASSUME RecvLengthAssumption == RecvLength \in Nat \ {0}
ASSUME BaseAssumption == Base \in Nat \ {0, 1}

Byte == 0..Base - 1

ASSUME PacketsAssumption == \A p \in Packets : p \in [command : Byte, data : Seq(Byte)]

VARIABLES
    wire,       \* bytes sent by the peer and not yet received
    buffer,     \* _recive_buffer
    reading,    \* the loop over try_recive of on_any_client_socket is running
    produced,   \* history: the packets the peer sent
    delivered,  \* history: the calls of on_packet
    starved     \* history: has a recv failed yet

streamVars == <<wire, buffer, reading, produced, delivered, starved>>

HeaderSize == 3

\* A packet as the sender writes it; the length field is an unsigned short, and a
\* longer length is cut without a check.
Encode(p) ==
    <<Len(p.data) % Base, (Len(p.data) \div Base) % Base, p.command>> \o p.data

DataLengthLow(b) == b[1]  \* slip: reads one byte of the length

DataLength(b) == b[1] + Base * b[2]

\* The two early returns of parse_next_packet.
HasPacket(b) == Len(b) >= HeaderSize /\ Len(b) >= HeaderSize + DataLength(b)

FirstPacket(b) ==
    [command |-> b[3], data |-> SubSeq(b, HeaderSize + 1, HeaderSize + DataLength(b))]

Rest(b) == SubSeq(b, HeaderSize + DataLength(b) + 1, Len(b))

\* parse_next_packet: the next packet goes to on_packet, if there is one.
ParseNext(state) ==
    IF HasPacket(state.left)
    THEN [found |-> Append(state.found, FirstPacket(state.left)), left |-> Rest(state.left)]
    ELSE state

\* Slip: one packet for each recv.
ParseOne(found, b) == ParseNext([found |-> found, left |-> b])

\* The loop over parse_next_packet, behind the packets that were found before.  Every
\* packet takes some bytes, so there are no more turns than bytes.
Parse(found, b) ==
    FoldLeft(LAMBDA state, turn : ParseNext(state), [found |-> found, left |-> b], b)

Bytes(packets) == FoldLeft(LAMBDA all, p : all \o Encode(p), << >>, packets)
-----------------------------------------------------------------------------
StreamInit ==
    /\ wire = << >>
    /\ buffer = << >>
    /\ reading = FALSE
    /\ produced = << >>
    /\ delivered = << >>
    /\ starved = FALSE

\* The peer.
PeerSend(p) ==
    /\ Len(produced) < MaxPackets
    /\ wire' = wire \o Encode(p)
    /\ produced' = Append(produced, p)
    /\ UNCHANGED <<buffer, reading, delivered, starved>>

\* FD_READ is posted when there is something to read.
OnRead ==
    /\ ~ reading
    /\ wire # << >>
    /\ reading' = TRUE
    /\ UNCHANGED <<wire, buffer, produced, delivered, starved>>

\* try_recive, recv returns n bytes.
TryRecive(n) ==
    /\ reading
    /\ n <= Len(wire)
    /\ LET p == Parse(delivered, buffer \o SubSeq(wire, 1, n))
       IN  /\ delivered' = p.found
           /\ buffer' = p.left
    /\ wire' = SubSeq(wire, n + 1, Len(wire))
    /\ UNCHANGED <<reading, produced, starved>>

\* try_recive, recv returns no data: the room that was made stays in the buffer,
\* filled with zeros by resize, and the loop of the caller ends.
TryReciveFails ==
    /\ reading
    /\ wire = << >>
    /\ buffer' = buffer \o [k \in 1..RecvLength |-> 0]
    /\ reading' = FALSE
    /\ starved' = TRUE
    /\ UNCHANGED <<wire, produced, delivered>>

StreamNext ==
    \/ \E p \in Packets : PeerSend(p)
    \/ OnRead
    \/ \E n \in 1..RecvLength : TryRecive(n)
    \/ TryReciveFails

StreamSpec == StreamInit /\ [][StreamNext]_streamVars
-----------------------------------------------------------------------------
\* Until a recv fails the receiver loses and invents no byte, however the stream
\* is cut into recvs: the packets it delivered, what it keeps and what is still
\* under way are the bytes the peer sent, also behind a packet that is longer than
\* its header can say.
StreamIntact ==
    ~ starved => Bytes(delivered) \o buffer \o wire = Bytes(produced)

\* Until a recv fails the packets are delivered as they were sent, in order, and
\* none that has arrived completely waits for the next recv.  A packet whose length
\* does not fit into its header garbles itself and what follows, nothing before it.
Fits(p) == Len(p.data) < Base * Base
PacketsInOrder ==
    ~ starved =>
        /\ ~ HasPacket(buffer)
        /\ \A k \in DOMAIN delivered :
              \/ k \in DOMAIN produced /\ delivered[k] = produced[k]
              \/ \E j \in DOMAIN produced : j <= k /\ ~ Fits(produced[j])

\* "truncate length to the actual size of all valid data" (try_recive): what the
\* buffer keeps between two calls was received.
BufferHoldsReceived ==
    Len(Bytes(delivered)) + Len(buffer) + Len(wire) <= Len(Bytes(produced))
=============================================================================
