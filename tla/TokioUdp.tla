------------------------------ MODULE TokioUdp ------------------------------
(***************************************************************************)
(* The binding of coap-server-tokio: UdpFramed of udp_framed_fork.rs with  *)
(* the Codec of udp.rs.  A call of poll_next leaves the read buffer empty. *)
(***************************************************************************)
EXTENDS FramedBinding

IsFirst(n) ==
  /\ n \in DOMAIN inbox /\ inbox[n].kind # "empty"
  /\ \A i \in 1 .. n - 1 : inbox[i].kind = "empty"

\* Mutant: decode leaves a malformed datagram in the buffer.
PollNextKeeps(y) ==
  \E n \in DOMAIN inbox :
    /\ IsFirst(n)
    /\ y = Yielded(inbox[n])
    /\ inbox' = SubSeq(inbox, IF y.ok THEN n + 1 ELSE n, Len(inbox))
    /\ UNCHANGED sink

(* poll_next: an empty datagram decodes to nothing and the loop comes      *)
(* around; decode clears the buffer also when the datagram is malformed.   *)
PollNext(y) ==
  \E n \in DOMAIN inbox :
    /\ IsFirst(n)
    /\ y = Yielded(inbox[n])
    /\ inbox' = SubSeq(inbox, n + 1, Len(inbox))
    /\ UNCHANGED sink

(* poll_next finds nothing but empty datagrams, and is pending.            *)
PollPending ==
  /\ inbox # <<>>
  /\ \A i \in DOMAIN inbox : inbox[i].kind = "empty"
  /\ inbox' = <<>>
  /\ UNCHANGED sink

(* recv_from fails: the error names no peer.                               *)
ReadError(y) ==
  /\ y = Broken
  /\ UNCHANGED <<inbox, sink>>

\* Mutant: the datagram is sent, flushed is not set.
FlushAgain(res) ==
  /\ ~flushed
  /\ \/ res = "ok" /\ SendTo
     \/ res = "err" /\ "error" \in SendOutcomes[dest] /\ UNCHANGED wire
  /\ UNCHANGED <<wr, flushed, dest, inbox>>

(* poll_flush.  If send_to fails, the ? returns before the buffer is       *)
(* cleared: the next poll_ready tries the same datagram again.             *)
Flush(res) ==
  /\ ~flushed
  /\ \/ /\ res = "ok"
        /\ SendTo
        /\ wr' = <<>> /\ flushed' = TRUE
     \/ /\ res = "err"
        /\ "short" \in SendOutcomes[dest]
        /\ wr' = <<>> /\ flushed' = TRUE
        /\ UNCHANGED wire
     \/ /\ res = "err"
        /\ "error" \in SendOutcomes[dest]
        /\ UNCHANGED <<wr, flushed, wire>>
  /\ UNCHANGED <<dest, inbox>>

\* Mutant: poll_ready does not flush what is left of the last send.
ReadyAtOnce(res) == res = "ok" /\ UNCHANGED <<inbox, sink>>

Ready(res) ==
  \/ flushed /\ res = "ok" /\ UNCHANGED <<inbox, sink>>
  \/ Flush(res)

(* start_send: encode appends to the buffer, or fails and leaves it.       *)
StartSend(packet, peer, res) ==
  /\ \/ /\ packet.fits /\ res = "ok"
        /\ wr' = Append(wr, packet)
        /\ dest' = peer
        /\ flushed' = FALSE
     \/ /\ ~packet.fits /\ res = "err"
        /\ UNCHANGED <<wr, dest, flushed>>
  /\ UNCHANGED <<wire, inbox>>
=============================================================================
