------------------------------ MODULE MCWindow ------------------------------
(* Instances of Window for TLC: four kinds of packet, small thresholds.      *)
EXTENDS Window

Packet(bytes, syn, fin, icmp, port) ==
    [bytes |-> bytes, syn |-> syn, fin |-> fin, icmp |-> icmp, port |-> port]

Mixed == {Packet(1, 1, 0, 0, 1), Packet(5, 0, 0, 0, 65), Packet(1, 0, 1, 0, 66),
          Packet(1, 0, 0, 1, 0)}
=============================================================================
