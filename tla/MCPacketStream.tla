--------------------------- MODULE MCPacketStream ---------------------------
(***************************************************************************)
(* An instance of PacketStream for TLC.  A byte has four values where a    *)
(* real one has 256, so that already a payload of five bytes needs both    *)
(* bytes of the length field, and one of 17 does not fit into it.          *)
(***************************************************************************)
EXTENDS PacketStream

MCPackets == {[command |-> 0, data |-> << >>],
              [command |-> 3, data |-> <<1, 3>>],
              [command |-> 2, data |-> <<2, 0, 1, 3, 2>>],
              [command |-> 1, data |-> [k \in 1..17 |-> k % 3]]}
=============================================================================
