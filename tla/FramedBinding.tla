--------------------------- MODULE FramedBinding ----------------------------
(***************************************************************************)
(* transport.rs: a binding is a stream of packets with their senders and a *)
(* sink of packets with their destinations.  Here is the state that the    *)
(* two UDP bindings share, with the socket below them.                     *)
(*                                                                         *)
(* A datagram that arrives is its number, its sender and what it holds.  A *)
(* packet that is sent is response num to request req, and may be too long *)
(* to encode.                                                              *)
(***************************************************************************)
EXTENDS Naturals, Sequences

CONSTANTS Peers,
          SendOutcomes,   \* what send_to may return for a peer
          None

ASSUME FramedBindingAssumption ==
  /\ SendOutcomes \in [Peers -> SUBSET {"sent", "short", "error"}]
  /\ None \notin Peers

VARIABLES
  inbox,      \* datagrams that the socket holds
  wr,         \* the write buffer: the packets encoded into it
  dest,       \* out_addr, destination
  flushed,
  wire        \* datagrams that the socket sent

sink == <<wr, dest, flushed, wire>>

Kinds == {"packet", "malformed", "empty"}

BindingInit ==
  /\ inbox = <<>>
  /\ wr = <<>> /\ dest = None /\ flushed = TRUE
  /\ wire = <<>>

\* The items of the stream: a packet with its sender, an error with the
\* peer it came from, or an error of the socket itself.
Yielded(d) == [ok |-> d.kind = "packet", id |-> d.id, peer |-> d.from]
Broken == [ok |-> FALSE, id |-> None, peer |-> None]

(* send_to: the buffer goes out as one datagram.                           *)
SendTo ==
  /\ "sent" \in SendOutcomes[dest]
  /\ wire' = Append(wire, [frames |-> wr, to |-> dest])
=============================================================================
