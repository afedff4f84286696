----------------------------- MODULE WireFormat -----------------------------
(***************************************************************************)
(* The datagrams the two programs exchange: the packets of packet/packet.h *)
(* as Serialize writes them and as the parsers of packet/packet_parser.cc  *)
(* read them.                                                              *)
(*                                                                         *)
(* A datagram is a sequence: the two digits of its type, then its numbers, *)
(* each written in a field of fixed width.  A number too wide for its      *)
(* field is written as zero.  A datagram is what arrives, unaltered.       *)
(***************************************************************************)
EXTENDS Naturals, Sequences

CONSTANTS
    NumberLimit,    \* 10^PACKET_NUMBER_LEN, the width of counts, sizes and rates
    TimeLimit       \* 10^TIME_SRTING_LEN, the width of times in microseconds

ASSUME WireAssumption == NumberLimit \in Nat \ {0} /\ TimeLimit \in Nat \ {0}

\* Mutant: the field keeps the low digits of a number that is too wide.
Field_LowDigits(number, limit) == number % limit

\* number_to_fix_len_string, and stoul on the field.
Field(number, limit) == IF number < limit THEN number ELSE 0

\* The packets.
DataPacket == [sequence_number : Nat, send_time : Nat, size : Nat]
RRPacket == [start_time : Nat, end_time : Nat,
             packets_lost_delta : Nat, packets_received_delta : Nat]
REMBPacket == [bandwidth : Nat]

\* A packet as its constructor leaves it.
NewRR == [start_time |-> 0, end_time |-> 0,
          packets_lost_delta |-> 0, packets_received_delta |-> 0]
NewREMB == [bandwidth |-> 0]

\* packet_type_to_string, and string_to_packet_type.
TypeString == [DATA |-> "00", RR |-> "01", REMB |-> "10"]
PACKET_TYPE == DOMAIN TypeString
TypeOfString(string) == CHOOSE type \in PACKET_TYPE : TypeString[type] = string

\* PacketParser::GetType.
GetType(datagram) == TypeOfString(datagram[1])

\* GCCRRPacketMaker::MakePacket, whose template is a new packet.
MakeRR(start_time, end_time, lost, received) ==
    [ NewRR EXCEPT !.start_time = start_time, !.end_time = end_time,
                   !.packets_lost_delta = lost, !.packets_received_delta = received ]

\* Serialize of the three packets; padding is left out.
SerializeData(p) ==
    << TypeString["DATA"], Field(p.sequence_number, NumberLimit),
       Field(p.send_time, TimeLimit), Field(p.size, NumberLimit) >>

SerializeRR(p) ==
    << TypeString["RR"], Field(p.start_time, TimeLimit), Field(p.end_time, TimeLimit),
       Field(p.packets_lost_delta, NumberLimit),
       Field(p.packets_received_delta, NumberLimit) >>

SerializeREMB(p) == << TypeString["REMB"], Field(p.bandwidth, NumberLimit) >>

\* UnSerialize of the three parsers into a packet p, which keeps what it holds
\* when the datagram is of another type.
UnSerializeData(d, p) ==
    IF GetType(d) = "DATA"
    THEN [sequence_number |-> d[2], send_time |-> d[3], size |-> d[4]]
    ELSE p

UnSerializeRR(d, p) ==
    IF GetType(d) = "RR"
    THEN [ start_time |-> d[2], end_time |-> d[3],
           packets_lost_delta |-> d[4], packets_received_delta |-> d[5] ]
    ELSE p

UnSerializeREMB(d, p) == IF GetType(d) = "REMB" THEN [bandwidth |-> d[2]] ELSE p

=============================================================================
