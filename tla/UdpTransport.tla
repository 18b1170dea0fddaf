---------------------------- MODULE UdpTransport -----------------------------
(***************************************************************************)
(* The transport of coap-server-tokio until it is a binding: the builder   *)
(* of udp.rs, its bind() and the groups that MulticastJoiner joins.  What  *)
(* the operating system does to a socket is nondeterministic.              *)
(***************************************************************************)
EXTENDS Sequences

CONSTANTS AllCoap4, AllCoapLink6, AllCoapSite6,  \* 224.0.1.187, ff02::fd, ff05::fd
          AnyInterface,                          \* interface 0
          None

VARIABLES
  stage,      \* where bind() is
  transport,  \* what was built
  local,      \* the address of the socket
  joins,      \* what is left to join
  groups      \* memberships of the socket

bindVars == <<stage, transport, local, joins, groups>>

New == [multicast |-> FALSE, joins |-> <<>>, default4 |-> None, default6 |-> None]
EnableMulticast(t)      == [t EXCEPT !.multicast = TRUE]
SetDefaultInterface4(t, i) == [t EXCEPT !.default4 = i]
SetDefaultInterface6(t, i) == [t EXCEPT !.default6 = i]
AddMulticastJoin(t, j)  == [t EXCEPT !.joins = Append(@, j)]

Join4(g, i) == [v4 |-> TRUE, group |-> g, interface |-> i]
Join6(g, i) == [v4 |-> FALSE, group |-> g, interface |-> i]

DetermineDefaultJoins(address) ==
  IF address.v4 THEN <<Join4(AllCoap4, None)>>
  ELSE <<Join6(AllCoapLink6, None), Join6(AllCoapSite6, None)>>

(* What was asked for: the groups that were added replace the default ones. *)
Wanted(t, address) ==
  IF ~t.multicast THEN <<>>
  ELSE IF t.joins = <<>> THEN DetermineDefaultJoins(address)
  ELSE t.joins

\* Option::or
Or(i, default) == IF i # None THEN i ELSE default

AddressOf(address) == IF address.v4 THEN address.ip ELSE None

\* Mutant: the interface of the transport comes before that of the group.
InterfaceOfTransport(t, address, j) ==
  IF j.v4 THEN Or(t.default4, Or(j.interface, AddressOf(address)))
          ELSE Or(t.default6, Or(j.interface, AnyInterface))

(* The first interface that is given; for IPv6 there always is one.        *)
Interface(t, address, j) ==
  IF j.v4 THEN Or(Or(j.interface, t.default4), AddressOf(address))
          ELSE Or(Or(j.interface, t.default6), AnyInterface)

Membership(t, address, j) == [group |-> j.group, interface |-> Interface(t, address, j)]

BindInit(Transports) ==
  /\ stage = "unbound"
  /\ transport \in Transports
  /\ local = None /\ joins = <<>> /\ groups = {}

BindSocket(address) ==
  /\ stage = "unbound"
  /\ stage' = "joining"
  /\ local' = address
  /\ joins' = Wanted(transport, address)
  /\ UNCHANGED <<transport, groups>>

Join ==
  /\ stage = "joining" /\ joins # <<>>
  /\ Interface(transport, local, Head(joins)) # None
  /\ groups' = groups \cup {Membership(transport, local, Head(joins))}
  /\ joins' = Tail(joins)
  /\ UNCHANGED <<stage, transport, local>>

\* bind() is left, with an error or a panic, and the socket is dropped.
Drop(there) ==
  /\ stage' = there
  /\ groups' = {} /\ joins' = <<>>
  /\ UNCHANGED <<transport, local>>

\* Mutant: a group that cannot be joined is left out.
BindFailsLate ==
  /\ stage \in {"unbound", "joining"}
  /\ \/ joins = <<>> /\ Drop("failed")
     \/ /\ joins # <<>>
        /\ joins' = Tail(joins)
        /\ UNCHANGED <<stage, transport, local, groups>>

(* A call of the system fails: binding, joining or asking for the address. *)
BindFails ==
  /\ stage \in {"unbound", "joining"}
  /\ Drop("failed")

(* unwrap() of the interface for an IPv4 group on an IPv6 socket.          *)
JoinPanics ==
  /\ stage = "joining" /\ joins # <<>>
  /\ Interface(transport, local, Head(joins)) = None
  /\ Drop("panicked")

Bound ==
  /\ stage = "joining" /\ joins = <<>>
  /\ stage' = "bound"
  /\ UNCHANGED <<transport, local, joins, groups>>
=============================================================================
