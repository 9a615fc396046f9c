---------------------------- MODULE TCPOverIPOps ----------------------------
(***************************************************************************)
(* TCPOverIPv4Adapter of src/util/tcp_over_ip.cc: which datagrams are for  *)
(* the connection, how a listening adapter finds its peer, and the         *)
(* addresses of what it sends. An endpoint is [ip, port]; a datagram has   *)
(* the endpoints of its IP and TCP headers, the flags SYN and RST, and tcp *)
(* says whether it is TCP at all, with the right checksum.                 *)
(***************************************************************************)

\* Fault: only the ports are compared.
RelatedPorts(c, d) ==
    /\ d.tcp
    /\ d.dst.port = c.source.port
    /\ c.listening => d.SYN /\ ~d.RST

Related(c, d) ==
    /\ ~c.listening => d.dst.ip = c.source.ip /\ d.src.ip = c.destination.ip
    /\ d.tcp
    /\ d.dst.port = c.source.port
    /\ c.listening => d.SYN /\ ~d.RST

\* A listening adapter takes the sender for its peer, and the address that was
\* contacted for its own.
Unwrapped(c, d) ==
    IF c.listening /\ Related(c, d)
    THEN [source |-> [ip |-> d.dst.ip, port |-> c.source.port],
          destination |-> d.src, listening |-> FALSE]
    ELSE c

\* Is the segment in the datagram returned?
Accepts(c, d) == Related(c, d) /\ d.src.port = Unwrapped(c, d).destination.port

\* Segment n on its way out.
Wrapped(c, n) == [src |-> c.source, dst |-> c.destination, n |-> n]
=============================================================================
