------------------------------- MODULE MCWire -------------------------------
(***************************************************************************)
(* Wire for TLC: a SYN, a FIN, a reset and data, some of it ending in a    *)
(* zero or of an odd length; a zero and the largest byte in the numbers.   *)
(***************************************************************************)
EXTENDS Wire

Segment(ackno, flag, payload) ==
    [src_port |-> <<0, 80>>, dst_port |-> <<255, 1>>, seqno |-> <<255, 0, 3, 255>>,
     ackno |-> ackno, reset |-> flag = "RST", SYN |-> flag = "SYN", FIN |-> flag = "FIN",
     window_size |-> <<4, 0>>, cksum |-> 0, payload |-> payload]

Ack == <<1, 2, 0, 4>>
SomeSegments ==
    {Segment(None, "SYN", <<>>), Segment(Ack, "SYN", <<>>), Segment(Ack, "none", <<0>>),
     Segment(Ack, "none", <<7, 255, 9>>), Segment(Ack, "FIN", <<7, 0>>), Segment(None, "RST", <<>>)}

MSSOption == {<<>>, <<2, 4, 5, 180>>}
IPZeroOption == {<<>>, <<0, 0, 0, 0>>, <<1, 1, 1, 1>>}
Eth1 == <<2, 0, 0, 0, 0, 1>>
Eth2 == <<2, 0, 0, 0, 0, 2>>
IP1 == <<10, 0, 0, 1>>
IP2 == <<192, 168, 255, 50>>
=============================================================================
