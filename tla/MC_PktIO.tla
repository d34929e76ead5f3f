------------------------------- MODULE MC_PktIO -------------------------------
EXTENDS PktIO

(* MAC addresses: the board's, the broadcast address, another board that  *)
(* shares the first four bytes, an unrelated host.                        *)
Board == <<0, 10, 53, 0, 1, 2>>
Neighbour == <<0, 10, 53, 0, 1, 3>>
Host == <<72, 137, 0, 16, 32, 48>>
Other == <<2, 0, 0, 0, 0, 1>>

Frame(d, t, b, l) == [dst |-> d, src |-> Host, type |-> t, body |-> b, len |-> l]

IPv4 == <<8, 0>>
ARP == <<8, 6>>
IPv6 == <<134, 221>>

(* A 60-byte IPv4 frame, a 42-byte ARP broadcast, a 58-byte IPv6 frame to  *)
(* the neighbour, a 1514-byte frame and a 1600-byte frame (as pcap reports *)
(* a frame merged by the NIC), and a frame the filter drops.               *)
MCFrames ==
  {Frame(Board, IPv4, "b1", 60), Frame(Bcast, ARP, "b2", 42),
   Frame(Neighbour, IPv6, "b3", 58), Frame(Board, IPv4, "b4", 1514),
   Frame(Board, IPv4, "b5", 1600), Frame(Other, IPv4, "b6", 60)}

(* An IPv6 frame of full length to the board, and a frame the filter drops. *)
MCFramesIPv6 == {Frame(Board, IPv6, "b1", 1514), Frame(Other, IPv4, "b6", 60)}

(* A 60-byte IPv4 frame, and a frame the filter drops.                      *)
MCFramesIPv4 == {Frame(Board, IPv4, "b1", 60), Frame(Other, IPv4, "b6", 60)}

=============================================================================
