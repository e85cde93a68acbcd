------------------------------ MODULE MCPorts ------------------------------
(* Two ports and two addresses; a descriptor listens on a port by TCP at    *)
(* one address or the other, or by UDP, is a client on one port with its   *)
(* peer on the other, or has no port yet.                                  *)
EXTENDS Ports

MCSockets ==
    {[proto |-> "TCP", addr |-> "any",  port |-> 1, peer |-> 0],
     [proto |-> "TCP", addr |-> "loop", port |-> 1, peer |-> 0],
     [proto |-> "TCP", addr |-> "any",  port |-> 2, peer |-> 1],
     [proto |-> "UDP", addr |-> "any",  port |-> 1, peer |-> 0],
     [proto |-> "UDP", addr |-> "any",  port |-> 2, peer |-> 1],
     [proto |-> "UDP", addr |-> "any",  port |-> 0, peer |-> 0]}
=============================================================================
