------------------------------- MODULE Server -------------------------------
(***************************************************************************)
(* server.rs: one loop reads requests from the binding, spawns a task for  *)
(* each, and sends the responses that the tasks hand to it over a bounded  *)
(* channel.  While a send is in progress the loop does nothing else.       *)
(*                                                                         *)
(* The handler is any PacketHandler: a stream of responses per packet.     *)
(* The binding is the one of TokioUdp or that of EmbassyUdp, throughout;   *)
(* the application binds it first and calls serve some time later.         *)
(***************************************************************************)
EXTENDS FramedBinding, FiniteSets

CONSTANTS MaxDatagrams,   \* bound on the datagrams that arrive
          MaxResponses,   \* bound on the responses to one packet
          RelayCap,       \* capacity of the channel (32 in the code)
          Transports,     \* UDP transports that applications build (bound)
          Locals,         \* addresses that they are bound to (bound)
          AllCoap4, AllCoapLink6, AllCoapSite6, AnyInterface

Ids == 1 .. MaxDatagrams

\* A response on its way to a peer, and a datagram that arrived.
Items == [req : Ids, num : 1 .. MaxResponses, fits : BOOLEAN, to : Peers]
Datagrams == [id : Ids, from : Peers, kind : Kinds]

ASSUME ServerAssumption ==
  /\ MaxDatagrams \in Nat /\ MaxResponses \in Nat /\ RelayCap \in Nat \ {0}
  /\ None \notin Items
  /\ \A t \in Transports : t.joins \in Seq({t.joins[i] : i \in DOMAIN t.joins})
  /\ \A a \in Locals : a.v4 \in BOOLEAN

VARIABLES
  binding,   \* which transport the server was bound with
  serve,     \* where bind() and the loop are
  transport, local, joins, groups,  \* of bind(), see UdpTransport
  outgoing,  \* the item whose send is in progress
  relay,     \* the channel packet_relay
  sender,    \* history: who sent the datagrams that arrived
  task,      \* the task spawned for a packet
  peer,      \* the peer given to the task
  made,      \* how many responses it handed over
  accepted,  \* history: the items that went into the channel
  lost       \* history: items whose send returned an error

setup == <<transport, local, joins, groups>>
vars == <<inbox, sink, setup, binding, serve, outgoing, relay, sender, task, peer,
          made, accepted, lost>>

Udp     == INSTANCE UdpTransport WITH stage <- serve
Tokio   == INSTANCE TokioUdp
Embassy == INSTANCE EmbassyUdp

Init ==
  /\ BindingInit
  /\ binding \in {"tokio", "embassy"}
  /\ Udp!BindInit(IF binding = "tokio" THEN Transports ELSE {None})
  /\ outgoing = None
  /\ relay = <<>>
  /\ sender = <<>>
  /\ task = [t \in Ids |-> "none"]
  /\ peer = [t \in Ids |-> None]
  /\ made = [t \in Ids |-> 0]
  /\ accepted = <<>>
  /\ lost = {}

-----------------------------------------------------------------------------

(* CoapServer::bind: the transport's bind(), by one call of the system or  *)
(* several, and serve(), which the application calls on what it returns.   *)
BindTokio ==
  /\ binding = "tokio"
  /\ \/ \E a \in Locals : Udp!BindSocket(a)
     \/ Udp!Join \/ Udp!JoinPanics \/ Udp!BindFails \/ Udp!Bound

BindEmbassy ==
  /\ binding = "embassy" /\ serve = "unbound"
  /\ serve' \in {"bound", "failed"}
  /\ UNCHANGED setup

\* The transport was moved into bind(); the socket's groups are not used
\* again, and forgotten to bound the state space.
Serve ==
  /\ serve = "bound"
  /\ serve' = "select"
  /\ transport' = None /\ local' = None /\ groups' = {}
  /\ UNCHANGED joins

Start ==
  /\ BindTokio \/ BindEmbassy \/ Serve
  /\ UNCHANGED <<inbox, sink, binding, outgoing, relay, sender, task, peer, made,
                 accepted, lost>>

Closed == serve \in {"failed", "stopped", "panicked"}

(* The network: peers send datagrams to a socket, served or not.           *)
Arrive(p, k) ==
  /\ serve # "unbound" /\ ~Closed
  /\ Len(sender) < MaxDatagrams
  /\ sender' = Append(sender, p)
  /\ inbox' = Append(inbox, [id |-> Len(sender) + 1, from |-> p, kind |-> k])
  /\ UNCHANGED <<sink, setup, binding, serve, outgoing, relay, task, peer, made,
                 accepted, lost>>

(* The read side of the binding.                                           *)
PollNext(y) ==
  \/ binding = "tokio" /\ Tokio!PollNext(y)
  \/ binding = "embassy" /\ Embassy!PollNext(y)

ReadError(y) ==
  \/ binding = "tokio" /\ Tokio!ReadError(y)
  \/ binding = "embassy" /\ Embassy!ReadError(y)

PollPending ==
  /\ serve = "select" /\ binding = "tokio"
  /\ Tokio!PollPending
  /\ UNCHANGED <<setup, binding, serve, outgoing, relay, sender, task, peer, made,
                 accepted, lost>>

(* handle_rx_event: a task for a packet; an error of one peer is logged;   *)
(* any other error ends serve.                                             *)
HandleRxEvent(y) ==
  /\ serve = "select"
  /\ \/ /\ y.ok
        /\ task' = [task EXCEPT ![y.id] = "running"]
        /\ peer' = [peer EXCEPT ![y.id] = y.peer]
        /\ UNCHANGED serve
     \/ /\ ~y.ok
        /\ serve' = IF y.peer = None THEN "stopped" ELSE "select"
        /\ UNCHANGED <<task, peer>>
  /\ UNCHANGED <<setup, binding, outgoing, relay, sender, made, accepted, lost>>

Events == [ok : BOOLEAN, id : Ids \cup {None}, peer : Peers \cup {None}]

Receive == \E y \in Events : PollNext(y) /\ HandleRxEvent(y)
Break   == \E y \in Events : ReadError(y) /\ HandleRxEvent(y)

-----------------------------------------------------------------------------
(* gen_and_send_responses, the task of a packet.                           *)

Response(t, f) == [req |-> t, num |-> made[t] + 1, fits |-> f, to |-> peer[t]]

\* Mutants: a channel without a bound, and try_send in place of send.
RespondUnbounded(t, f) ==
  /\ task[t] = "running" /\ made[t] < MaxResponses
  /\ ~Closed
  /\ relay' = Append(relay, Response(t, f))
  /\ accepted' = Append(accepted, Response(t, f))
  /\ made' = [made EXCEPT ![t] = @ + 1]
  /\ UNCHANGED <<inbox, sink, setup, binding, serve, outgoing, sender, task,
                 peer, lost>>

RespondOrDrop(t, f) ==
  /\ task[t] = "running" /\ made[t] < MaxResponses
  /\ ~Closed
  /\ relay' = IF Len(relay) < RelayCap THEN Append(relay, Response(t, f)) ELSE relay
  /\ accepted' = Append(accepted, Response(t, f))
  /\ made' = [made EXCEPT ![t] = @ + 1]
  /\ UNCHANGED <<inbox, sink, setup, binding, serve, outgoing, sender, task,
                 peer, lost>>

(* The stream yields a response and there is room for it.                  *)
Respond(t, f) ==
  /\ task[t] = "running" /\ made[t] < MaxResponses
  /\ ~Closed /\ Len(relay) < RelayCap
  /\ relay' = Append(relay, Response(t, f))
  /\ accepted' = Append(accepted, Response(t, f))
  /\ made' = [made EXCEPT ![t] = @ + 1]
  /\ UNCHANGED <<inbox, sink, setup, binding, serve, outgoing, sender, task,
                 peer, lost>>

(* The stream ends; or it yields a response after the loop has ended, and  *)
(* expect("packet_rx closed?") panics.                                     *)
EndTask(t) ==
  /\ task[t] = "running"
  /\ \/ task' = [task EXCEPT ![t] = "done"]
     \/ /\ Closed /\ made[t] < MaxResponses
        /\ task' = [task EXCEPT ![t] = "panicked"]
  /\ UNCHANGED <<inbox, sink, setup, binding, serve, outgoing, relay, sender, peer,
                 made, accepted, lost>>

-----------------------------------------------------------------------------
(* handle_packet_relay: SinkExt::send is poll_ready, start_send and        *)
(* poll_flush, each awaited; an error of any of them ends it.              *)

Ready(res) ==
  \/ binding = "tokio" /\ Tokio!Ready(res)
  \/ binding = "embassy" /\ Embassy!Ready(res)

StartSend(res) ==
  \/ binding = "tokio" /\ Tokio!StartSend(outgoing, outgoing.to, res)
  \/ binding = "embassy" /\ Embassy!StartSend(outgoing, outgoing.to, res)

Flush(res) ==
  \/ binding = "tokio" /\ Tokio!Flush(res)
  \/ binding = "embassy" /\ Embassy!Flush(res)

TakeRelay ==
  /\ serve = "select" /\ relay # <<>>
  /\ outgoing' = Head(relay)
  /\ relay' = Tail(relay)
  /\ serve' = "ready"
  /\ UNCHANGED <<inbox, sink, setup, binding, sender, task, peer, made, accepted,
                 lost>>

\* Mutant: a send that failed is tried again.
AfterRetrying(res, there) ==
  /\ serve' = IF res = "ok" THEN there ELSE "ready"
  /\ outgoing' = IF res = "ok" /\ there = "select" THEN None ELSE outgoing
  /\ UNCHANGED <<lost, setup, binding, relay, sender, task, peer, made, accepted>>

(* The send goes on, or is over.                                           *)
After(res, there) ==
  /\ \/ /\ res = "ok"
        /\ serve' = there
        /\ outgoing' = IF there = "select" THEN None ELSE outgoing
        /\ UNCHANGED lost
     \/ /\ res = "err"
        /\ serve' = "select"
        /\ outgoing' = None
        /\ lost' = lost \cup {outgoing}
     \/ /\ res = "panic"
        /\ serve' = "panicked"
        /\ UNCHANGED <<outgoing, lost>>
  /\ UNCHANGED <<setup, binding, relay, sender, task, peer, made, accepted>>

SendStep ==
  \E res \in {"ok", "err", "panic"} :
    \/ serve = "ready" /\ Ready(res) /\ After(res, "start")
    \/ serve = "start" /\ StartSend(res) /\ After(res, "flush")
    \/ serve = "flush" /\ Flush(res) /\ After(res, "select")

-----------------------------------------------------------------------------

Next ==
  \/ Start
  \/ \E p \in Peers, k \in Kinds : Arrive(p, k)
  \/ PollPending \/ Receive \/ Break
  \/ \E t \in Ids, f \in BOOLEAN : Respond(t, f)
  \/ \E t \in Ids : EndTask(t)
  \/ TakeRelay \/ SendStep

Spec == Init /\ [][Next]_vars

(* The loop is polled while it can run and the socket becomes writable     *)
(* again.  select! polls its two branches in random order, so that neither *)
(* is passed over forever.  bind() returns, and the application calls      *)
(* serve() after it, as all the examples do.                               *)
Fairness ==
  /\ WF_vars(Start)
  /\ WF_vars(SendStep)
  /\ SF_vars(TakeRelay)
  /\ SF_vars(Receive)

FairSpec == Spec /\ Fairness

-----------------------------------------------------------------------------

(* Types, and the capacity of the channel.                                 *)
TypeOK ==
  /\ inbox \in Seq(Datagrams) /\ sender \in Seq(Peers)
  /\ wr \in Seq(Items) /\ dest \in Peers \cup {None} /\ flushed \in BOOLEAN
  /\ wire \in Seq([frames : Seq(Items), to : Peers])
  /\ binding \in {"tokio", "embassy"}
  /\ serve \in {"unbound", "joining", "bound", "failed"}
               \cup {"select", "ready", "start", "flush", "stopped", "panicked"}
  /\ outgoing \in Items \cup {None}
  /\ relay \in Seq(Items) /\ Len(relay) <= RelayCap
  /\ task \in [Ids -> {"none", "running", "done", "panicked"}]
  /\ peer \in [Ids -> Peers \cup {None}]
  /\ made \in [Ids -> 0 .. MaxResponses]
  /\ accepted \in Seq(Items) /\ lost \in SUBSET Items

(* The membership is the one that the application configured for a group:  *)
(* on the interface named for the group, else on the one set for its       *)
(* family, else on the address of the socket or, for IPv6, on any.         *)
ConfiguredFor(m, j) ==
  LET default == IF j.v4 THEN transport.default4 ELSE transport.default6 IN
  /\ m.group = j.group
  /\ j.interface # None => m.interface = j.interface
  /\ j.interface = None /\ default # None => m.interface = default
  /\ j.interface = None /\ default = None =>
       IF j.v4 THEN local.v4 /\ m.interface = local.ip ELSE m.interface = AnyInterface

\* The groups that were added, or the ones that RFC 7252 assigns to CoAP.
ConfiguredGroups ==
  IF transport.joins # <<>> THEN {transport.joins[i] : i \in DOMAIN transport.joins}
  ELSE {[v4 |-> local.v4, group |-> g, interface |-> None] :
          g \in IF local.v4 THEN {AllCoap4} ELSE {AllCoapLink6, AllCoapSite6}}

(* A server that is bound is a member of every group that was configured,  *)
(* as it was configured, and of no other one: a join that fails, also      *)
(* after others, leaves no server, and so does a group for which there is  *)
(* no interface.                                                           *)
BoundAsConfigured ==
  serve = "bound" /\ binding = "tokio" =>
    /\ transport.multicast =>
         /\ \A j \in ConfiguredGroups : \E m \in groups : ConfiguredFor(m, j)
         /\ \A m \in groups : \E j \in ConfiguredGroups : ConfiguredFor(m, j)
    /\ ~transport.multicast => groups = {}

(* Each datagram on the wire is one response, and goes to the peer that    *)
(* sent the request: no address or buffer of another item is used, also    *)
(* after a send that failed half-way.                                      *)
RepliesGoToTheirRequester ==
  \A i \in 1 .. Len(wire) :
    /\ Len(wire[i].frames) = 1
    /\ wire[i].to = sender[wire[i].frames[1].req]

Sent == [i \in 1 .. Len(wire) |-> wire[i].frames[1]]

\* How many of the responses are neither in the channel nor being sent.
Settled == Len(accepted) - Len(relay) - (IF outgoing = None THEN 0 ELSE 1)

\* What is on its way, the oldest first.
Pipeline ==
  Sent \o wr \o (IF serve # "flush" /\ outgoing # None THEN <<outgoing>> ELSE <<>>) \o relay

(* The responses to one request go out in the order in which its handler   *)
(* made them, each at most once, whatever is retried or fails in between.  *)
RepliesAreInOrder ==
  \A i, j \in 1 .. Len(Pipeline) :
    i < j /\ Pipeline[i].req = Pipeline[j].req => Pipeline[i].num < Pipeline[j].num

(* A response that a task handed over is sent, or its send returned an     *)
(* error, or it is on its way.  So it is when the loop has ended, too:     *)
(* that costs what the channel held then, and the item at hand.            *)
NothingVanishes ==
  \A t \in Ids, n \in 1 .. MaxResponses :
    n <= made[t] =>
      \/ \E i \in 1 .. Len(Pipeline) : Pipeline[i].req = t /\ Pipeline[i].num = n
      \/ \E x \in lost : x.req = t /\ x.num = n

(* The loop panics in one case only: with the embassy binding, at the send *)
(* that follows a response that could not be encoded and was reported.  A  *)
(* send that failed for another reason, whatever it left in the buffer,    *)
(* does not end the server.                                                *)
OnlyUnencodableResponsesPanic ==
  serve = "panicked" /\ outgoing # None =>
    /\ binding = "embassy"
    /\ Settled \in DOMAIN accepted
    /\ accepted[Settled] \in lost /\ ~accepted[Settled].fits

(* A packet that waits in the socket gets its task, behind malformed or    *)
(* empty datagrams and between the sends, unless the server ends.          *)
RequestsAreServed ==
  \A t \in Ids :
    (\E i \in 1 .. Len(inbox) : inbox[i].id = t /\ inbox[i].kind = "packet")
      ~> (task[t] # "none" \/ Closed)

(* A response that a task handed over leaves: its send returns, whatever   *)
(* is ahead of it, unless the server ends.                                 *)
ResponsesLeave ==
  \A t \in Ids, n \in 1 .. MaxResponses :
    (made[t] >= n) ~>
      \/ \E i \in 1 .. Len(Sent) : Sent[i].req = t /\ Sent[i].num = n
      \/ \E x \in lost : x.req = t /\ x.num = n
      \/ Closed

-----------------------------------------------------------------------------

Relay == INSTANCE ResponseRelay
           WITH requester <- sender, log <- accepted, settled <- Settled,
                reported <- lost, out <- wire

(* Loop, channel, tasks and either binding implement what handlers and     *)
(* peers rely on: responses are settled in the order of the handlers, sent *)
(* whole to the peer that asked, or reported.                              *)
RelaySpec == Relay!Spec

-----------------------------------------------------------------------------

(* "Most of these errors are non-fatal and the server can happily continue *)
(* serving other customers": a response that can be encoded, for a peer    *)
(* that can be reached, is not lost to the failure of another send.        *)
ReachablePeersAreServed ==
  \A x \in lost : SendOutcomes[x.to] = {"sent"} => ~x.fits
=============================================================================
