----------------------------- MODULE EmbassyUdp -----------------------------
(***************************************************************************)
(* The binding of coap-server-embassy: UdpFramed of transport/udp.rs.  An  *)
(* empty datagram is malformed.                                            *)
(***************************************************************************)
EXTENDS FramedBinding

PollNext(y) ==
  /\ inbox # <<>>
  /\ y = Yielded(Head(inbox))
  /\ inbox' = Tail(inbox)
  /\ UNCHANGED sink

(* recv_from fails: the error names no peer.                               *)
ReadError(y) ==
  /\ y = Broken
  /\ UNCHANGED <<inbox, sink>>

\* Mutant: the destination is taken out of the Option for a send.
FlushTakes(res) ==
  /\ ~flushed
  /\ \/ /\ res = "panic"
        /\ dest = None
        /\ UNCHANGED <<wr, flushed, wire>>
     \/ /\ res = "ok"
        /\ dest # None /\ SendTo
        /\ wr' = <<>> /\ flushed' = TRUE
     \/ /\ res = "err"
        /\ dest # None /\ "error" \in SendOutcomes[dest]
        /\ UNCHANGED <<wr, flushed, wire>>
  /\ dest' = None
  /\ UNCHANGED inbox

(* poll_flush.  If send_to fails, buffer and destination stay; without a   *)
(* destination unwrap() panics.                                            *)
Flush(res) ==
  /\ ~flushed
  /\ \/ /\ res = "panic"
        /\ dest = None
        /\ UNCHANGED <<wr, flushed, wire>>
     \/ /\ res = "ok"
        /\ dest # None /\ SendTo
        /\ wr' = <<>> /\ flushed' = TRUE
     \/ /\ res = "err"
        /\ dest # None /\ "error" \in SendOutcomes[dest]
        /\ UNCHANGED <<wr, flushed, wire>>
  /\ UNCHANGED <<dest, inbox>>

Ready(res) ==
  \/ flushed /\ res = "ok" /\ UNCHANGED <<inbox, sink>>
  \/ Flush(res)

\* Mutant: a destination that is set is kept.
StartSendKeeps(packet, peer, res) ==
  /\ flushed' = FALSE
  /\ \/ /\ packet.fits /\ res = "ok"
        /\ wr' = <<packet>>
        /\ dest' = IF dest = None THEN peer ELSE dest
     \/ /\ ~packet.fits /\ res = "err"
        /\ wr' = <<>>
        /\ dest' = None
  /\ UNCHANGED <<wire, inbox>>

(* start_send clears the buffer and marks it as not flushed before it      *)
(* encodes; a packet that cannot be encoded leaves no destination.         *)
StartSend(packet, peer, res) ==
  /\ flushed' = FALSE
  /\ \/ /\ packet.fits /\ res = "ok"
        /\ wr' = <<packet>>
        /\ dest' = peer
     \/ /\ ~packet.fits /\ res = "err"
        /\ wr' = <<>>
        /\ dest' = None
  /\ UNCHANGED <<wire, inbox>>
=============================================================================
