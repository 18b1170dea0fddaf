------------------------------ MODULE MCServer ------------------------------
(* Small instances of Server for TLC.                                      *)
EXTENDS Server, TLC

CONSTANTS p1, p2, group4, addr4, eth4, eth6, wlan6

\* p1 can be reached; a send to p2 fails, or is cut short, or succeeds.
Outcomes == (p1 :> {"sent"}) @@ (p2 :> {"sent", "short", "error"})

Local4 == [v4 |-> TRUE, ip |-> addr4]
Local6 == [v4 |-> FALSE, ip |-> None]
Addresses == {Local4, Local6}

(* A plain transport; one that joins the default groups, on an interface   *)
(* that was set for IPv6; one with groups of its own, of which the first   *)
(* names no interface and cannot be joined on an IPv6 socket; one with     *)
(* interfaces for the transport and for one of two groups.                 *)
Builds ==
  {Udp!New,
   Udp!SetDefaultInterface6(Udp!EnableMulticast(Udp!New), eth6),
   Udp!AddMulticastJoin(
     Udp!AddMulticastJoin(Udp!EnableMulticast(Udp!New), Udp!Join4(group4, None)),
     Udp!Join6(AllCoapSite6, eth6)),
   Udp!AddMulticastJoin(
     Udp!AddMulticastJoin(
       Udp!SetDefaultInterface6(
         Udp!SetDefaultInterface4(Udp!EnableMulticast(Udp!New), eth4), eth6),
       Udp!Join4(group4, None)),
     Udp!Join6(AllCoapSite6, wlan6))}
=============================================================================
