---------------------------- MODULE ServerProofs ----------------------------
(***************************************************************************)
(* Proofs about Server, for any number of peers, datagrams, responses and  *)
(* places in the channel, and for both bindings: what its variables hold,  *)
(* and that a response goes to the peer that asked for it.                 *)
(***************************************************************************)
EXTENDS Server, SequenceTheorems, TLAPS

(* The item is for the peer whose request it answers.                      *)
ForRequester(x) == x.req \in DOMAIN sender /\ x.to = sender[x.req]

(* Datagrams and tasks know who sent the request.                          *)
Asked ==
  /\ \A i \in DOMAIN inbox :
       inbox[i].id \in DOMAIN sender /\ inbox[i].from = sender[inbox[i].id]
  /\ \A t \in Ids : task[t] # "none" => t \in DOMAIN sender /\ peer[t] = sender[t]

(* What is on its way is addressed to its requester.                       *)
Addressed ==
  /\ \A i \in DOMAIN relay : ForRequester(relay[i])
  /\ serve \in {"ready", "start", "flush"} => outgoing \in Items /\ ForRequester(outgoing)

(* The write buffer is empty when it is flushed, and so when an item is    *)
(* put into it; else it holds one item and its destination, or, with       *)
(* embassy, nothing and no destination.                                    *)
BufferMatches ==
  /\ flushed => wr = <<>>
  /\ ~flushed =>
       \/ /\ dest \in Peers
          /\ Len(wr) = 1 /\ ForRequester(wr[1]) /\ wr[1].to = dest
       \/ binding = "embassy" /\ dest = None /\ wr = <<>>

Buffered == BufferMatches /\ (serve = "start" => flushed)

(* What was sent is one item, addressed to its requester.                  *)
Delivered ==
  \A i \in DOMAIN wire :
    Len(wire[i].frames) = 1 /\ ForRequester(wire[i].frames[1])
    /\ wire[i].to = wire[i].frames[1].to

ServerInv == TypeOK /\ Asked /\ Addressed /\ Buffered /\ Delivered

-----------------------------------------------------------------------------
(* Sequences of items and datagrams.                                       *)

(* An element that is appended comes last, and the others stay.            *)
LEMMA Appending ==
  ASSUME NEW S, NEW s \in Seq(S), NEW x \in S
  PROVE  /\ Append(s, x) \in Seq(S)
         /\ Len(Append(s, x)) = Len(s) + 1
         /\ \A i \in DOMAIN s : i \in DOMAIN Append(s, x) /\ Append(s, x)[i] = s[i]
         /\ \A i \in DOMAIN Append(s, x) :
              \/ i \in DOMAIN s /\ Append(s, x)[i] = s[i]
              \/ Append(s, x)[i] = x
<1>1. Append(s, x) \in Seq(S) /\ Len(Append(s, x)) = Len(s) + 1 /\ Len(s) \in Nat
  BY AppendProperties
<1>2. /\ \A i \in 1 .. Len(s) : Append(s, x)[i] = s[i]
      /\ Append(s, x)[Len(s) + 1] = x
  BY AppendProperties
<1>3. DOMAIN s = 1 .. Len(s) /\ DOMAIN Append(s, x) = 1 .. Len(s) + 1
  BY <1>1
<1> QED
  BY <1>1, <1>2, <1>3

(* What is left of a queue was in it.                                      *)
LEMMA Dropping ==
  ASSUME NEW S, NEW s \in Seq(S), NEW n \in DOMAIN s
  PROVE  /\ SubSeq(s, n + 1, Len(s)) \in Seq(S)
         /\ \A i \in DOMAIN SubSeq(s, n + 1, Len(s)) :
              \E j \in DOMAIN s : SubSeq(s, n + 1, Len(s))[i] = s[j]
<1> DEFINE t == SubSeq(s, n + 1, Len(s))
<1>1. Len(s) \in Nat /\ n \in 1 .. Len(s)
  OBVIOUS
<1>2. \A i \in n + 1 .. Len(s) : s[i] \in S
  BY <1>1
<1>3. t \in Seq(S) /\ Len(t) = Len(s) - n /\ \A i \in 1 .. Len(s) - n : t[i] = s[i + n]
  BY <1>1, <1>2, SubSeqProperties
<1>4. DOMAIN t = 1 .. Len(s) - n
  BY <1>1, <1>3
<1>5. \A i \in DOMAIN t : i + n \in DOMAIN s /\ t[i] = s[i + n]
  BY <1>1, <1>3, <1>4
<1> QED
  BY <1>3, <1>5

(* The same for the tail.                                                  *)
LEMMA Taking ==
  ASSUME NEW S, NEW s \in Seq(S), s # <<>>
  PROVE  /\ Head(s) \in S /\ 1 \in DOMAIN s /\ Head(s) = s[1]
         /\ Tail(s) \in Seq(S) /\ Len(Tail(s)) < Len(s)
         /\ \A i \in DOMAIN Tail(s) : i + 1 \in DOMAIN s /\ Tail(s)[i] = s[i + 1]
OBVIOUS

-----------------------------------------------------------------------------
(* Who is unaffected by a step.                                            *)

LEMMA Unaffected ==
  ASSUME ServerInv
  PROVE  /\ UNCHANGED <<inbox, sender, task, peer>> => Asked'
         /\ UNCHANGED <<relay, sender, serve, outgoing>> => Addressed'
         /\ UNCHANGED <<wr, dest, flushed, binding, sender, serve>> => Buffered'
         /\ UNCHANGED <<wire, sender>> => Delivered'
BY DEF ServerInv, Asked, Addressed, Buffered, BufferMatches, Delivered, ForRequester

(* The server is bound, served or given up.                                *)
LEMMA StartKeeps ==
  ASSUME ServerInv, Start
  PROVE  ServerInv'
<1>1. UNCHANGED <<inbox, sink, binding, outgoing, relay, sender, task, peer, made,
                  accepted, lost>>
  BY DEF Start
<1>2. serve' \in {"joining", "bound", "failed", "panicked", "select"}
  BY DEF Start, BindTokio, BindEmbassy, Serve, Udp!BindSocket, Udp!Join,
         Udp!JoinPanics, Udp!BindFails, Udp!Bound, Udp!Drop
<1>3. TypeOK'
  BY <1>1, <1>2 DEF ServerInv, TypeOK, sink
<1>4. Asked' /\ Delivered'
  BY <1>1, Unaffected DEF sink
<1>5. Addressed' /\ Buffered'
  BY <1>1, <1>2 DEF ServerInv, Addressed, Buffered, BufferMatches, ForRequester, sink
<1> QED
  BY <1>3, <1>4, <1>5 DEF ServerInv

(* A datagram arrives: nobody who asked before is forgotten.               *)
LEMMA ArriveKeeps ==
  ASSUME ServerInv, NEW p \in Peers, NEW k \in Kinds, Arrive(p, k)
  PROVE  ServerInv'
<1> DEFINE d == [id |-> Len(sender) + 1, from |-> p, kind |-> k]
<1>1. /\ sender' = Append(sender, p) /\ inbox' = Append(inbox, d)
      /\ Len(sender) < MaxDatagrams
      /\ UNCHANGED <<sink, setup, binding, serve, outgoing, relay, task, peer, made,
                     accepted, lost>>
  BY DEF Arrive
<1>2. sender \in Seq(Peers) /\ inbox \in Seq(Datagrams)
  BY DEF ServerInv, TypeOK
<1>3. Len(sender) + 1 \in Ids
  BY <1>1, <1>2, ServerAssumption DEF Ids
<1>4. d \in Datagrams
  BY <1>3 DEF Datagrams
<1>5. /\ sender' \in Seq(Peers) /\ inbox' \in Seq(Datagrams)
      /\ \A q \in DOMAIN sender : q \in DOMAIN sender' /\ sender'[q] = sender[q]
      /\ \A i \in DOMAIN inbox' :
           (i \in DOMAIN inbox /\ inbox'[i] = inbox[i]) \/ inbox'[i] = d
  BY <1>1, <1>2, <1>4, Appending
<1>6. Len(sender) + 1 \in DOMAIN sender' /\ sender'[Len(sender) + 1] = p
  BY <1>1, <1>2, AppendProperties
<1>7. TypeOK'
  BY <1>1, <1>5 DEF ServerInv, TypeOK, sink
<1>8. Asked'
  BY <1>1, <1>5, <1>6 DEF ServerInv, Asked
<1>9. Addressed' /\ Buffered' /\ Delivered'
  BY <1>1, <1>5 DEF ServerInv, Addressed, Buffered, BufferMatches, Delivered,
              ForRequester, sink
<1> QED
  BY <1>7, <1>8, <1>9 DEF ServerInv

-----------------------------------------------------------------------------
(* The read side.                                                          *)

(* What a call of poll_next leaves in the socket was there before, and     *)
(* what it yields is one of the datagrams.                                 *)
LEMMA ReadSide ==
  ASSUME ServerInv, NEW y \in Events, PollNext(y)
  PROVE  /\ UNCHANGED sink
         /\ inbox' \in Seq(Datagrams)
         /\ \A i \in DOMAIN inbox' : \E j \in DOMAIN inbox : inbox'[i] = inbox[j]
         /\ \E j \in DOMAIN inbox : y = Yielded(inbox[j])
<1>1. inbox \in Seq(Datagrams)
  BY DEF ServerInv, TypeOK
<1>2. CASE binding = "tokio" /\ Tokio!PollNext(y)
  <2>1. PICK n \in DOMAIN inbox :
          /\ y = Yielded(inbox[n])
          /\ inbox' = SubSeq(inbox, n + 1, Len(inbox))
          /\ UNCHANGED sink
    BY <1>2 DEF Tokio!PollNext, Tokio!Yielded, Yielded, Tokio!sink, sink
  <2> QED
    BY <1>1, <2>1, Dropping
<1>3. CASE binding = "embassy" /\ Embassy!PollNext(y)
  <2>1. /\ inbox # <<>> /\ y = Yielded(Head(inbox)) /\ inbox' = Tail(inbox)
        /\ UNCHANGED sink
    BY <1>3 DEF Embassy!PollNext, Embassy!Yielded, Yielded, Embassy!sink, sink
  <2>2. /\ 1 \in DOMAIN inbox /\ Head(inbox) = inbox[1]
        /\ Tail(inbox) \in Seq(Datagrams)
        /\ \A i \in DOMAIN Tail(inbox) :
             i + 1 \in DOMAIN inbox /\ Tail(inbox)[i] = inbox[i + 1]
    BY <1>1, <2>1, Taking
  <2> QED
    BY <2>1, <2>2
<1> QED
  BY <1>2, <1>3 DEF PollNext

(* A packet gets a task that knows its peer; an error may end the loop.    *)
LEMMA ReceiveKeeps ==
  ASSUME ServerInv, Receive
  PROVE  ServerInv'
<1>1. PICK y \in Events : PollNext(y) /\ HandleRxEvent(y)
  BY DEF Receive
<1>2. /\ UNCHANGED sink
      /\ inbox' \in Seq(Datagrams)
      /\ \A i \in DOMAIN inbox' : \E j \in DOMAIN inbox : inbox'[i] = inbox[j]
  BY <1>1, ReadSide
<1>3. PICK j \in DOMAIN inbox : y = Yielded(inbox[j])
  BY <1>1, ReadSide
<1>4. /\ serve' \in {"select", "stopped"}
      /\ UNCHANGED <<setup, binding, outgoing, relay, sender, made, accepted, lost>>
      /\ \/ y.ok /\ task' = [task EXCEPT ![y.id] = "running"]
               /\ peer' = [peer EXCEPT ![y.id] = y.peer]
         \/ UNCHANGED <<task, peer>>
  BY <1>1 DEF HandleRxEvent
<1>5. inbox[j] \in Datagrams
  BY DEF ServerInv, TypeOK
<1>6. /\ y.id \in Ids /\ y.peer \in Peers
      /\ y.id \in DOMAIN sender /\ y.peer = sender[y.id]
  BY <1>3, <1>5 DEF Yielded, Datagrams, ServerInv, Asked
<1>7. task' \in [Ids -> {"none", "running", "done", "panicked"}]
      /\ peer' \in [Ids -> Peers \cup {None}]
  BY <1>4, <1>6 DEF ServerInv, TypeOK
<1>8. TypeOK'
  BY <1>2, <1>4, <1>7 DEF ServerInv, TypeOK, sink
<1>9. Asked'
  <2>1. \A i \in DOMAIN inbox' :
          inbox'[i].id \in DOMAIN sender' /\ inbox'[i].from = sender'[inbox'[i].id]
    BY <1>2, <1>4 DEF ServerInv, Asked
  <2>2. \A t \in Ids : task'[t] # "none" => t \in DOMAIN sender' /\ peer'[t] = sender'[t]
    BY <1>4, <1>6 DEF ServerInv, Asked, TypeOK
  <2> QED
    BY <2>1, <2>2 DEF Asked
<1>10. Addressed' /\ Buffered' /\ Delivered'
  BY <1>2, <1>4 DEF ServerInv, Addressed, Buffered, BufferMatches, Delivered,
              ForRequester, sink
<1> QED
  BY <1>8, <1>9, <1>10 DEF ServerInv

(* The stream breaks: only the loop's state may change.                    *)
LEMMA BreakKeeps ==
  ASSUME ServerInv, Break
  PROVE  ServerInv'
<1>1. PICK y \in Events : ReadError(y) /\ HandleRxEvent(y)
  BY DEF Break
<1>2. y = Broken /\ UNCHANGED <<inbox, sink>>
  BY <1>1 DEF ReadError, Tokio!ReadError, Embassy!ReadError, Tokio!Broken,
              Embassy!Broken, Broken, Tokio!sink, Embassy!sink, sink
<1>3. /\ serve' \in {"select", "stopped"}
      /\ UNCHANGED <<setup, binding, outgoing, relay, sender, made, accepted, lost,
                     task, peer>>
  BY <1>1, <1>2 DEF HandleRxEvent, Broken
<1>4. TypeOK'
  BY <1>2, <1>3 DEF ServerInv, TypeOK, sink
<1>5. Asked' /\ Delivered'
  BY <1>2, <1>3, Unaffected DEF sink
<1>6. Addressed' /\ Buffered'
  BY <1>2, <1>3 DEF ServerInv, Addressed, Buffered, BufferMatches, ForRequester, sink
<1> QED
  BY <1>4, <1>5, <1>6 DEF ServerInv

(* Empty datagrams are dropped.                                            *)
LEMMA PollPendingKeeps ==
  ASSUME ServerInv, PollPending
  PROVE  ServerInv'
<1>1. /\ inbox' = <<>>
      /\ UNCHANGED <<sink, setup, binding, serve, outgoing, relay, sender, task, peer,
                     made, accepted, lost>>
  BY DEF PollPending, Tokio!PollPending, Tokio!sink, sink
<1>2. TypeOK'
  BY <1>1 DEF ServerInv, TypeOK, sink
<1>3. Asked'
  BY <1>1 DEF ServerInv, Asked
<1>4. Addressed' /\ Buffered' /\ Delivered'
  BY <1>1, Unaffected DEF sink
<1> QED
  BY <1>2, <1>3, <1>4 DEF ServerInv

-----------------------------------------------------------------------------
(* The tasks.                                                              *)

(* A response is addressed to the peer of its task.                        *)
LEMMA RespondKeeps ==
  ASSUME ServerInv, NEW t \in Ids, NEW f \in BOOLEAN, Respond(t, f)
  PROVE  ServerInv'
<1> DEFINE x == Response(t, f)
<1>1. /\ relay' = Append(relay, x) /\ accepted' = Append(accepted, x)
      /\ made' = [made EXCEPT ![t] = @ + 1]
      /\ task[t] = "running" /\ made[t] < MaxResponses /\ Len(relay) < RelayCap
      /\ UNCHANGED <<inbox, sink, setup, binding, serve, outgoing, sender, task, peer,
                     lost>>
  BY DEF Respond
<1>2. t \in DOMAIN sender /\ peer[t] = sender[t] /\ peer[t] \in Peers
  BY <1>1 DEF ServerInv, Asked, TypeOK
<1>3. made[t] \in 0 .. MaxResponses /\ made[t] + 1 \in 1 .. MaxResponses
  BY <1>1, ServerAssumption DEF ServerInv, TypeOK
<1>4. x \in Items /\ x.req = t /\ x.to = sender[t]
  BY <1>2, <1>3 DEF Response, Items
<1>5. relay \in Seq(Items) /\ accepted \in Seq(Items)
  BY DEF ServerInv, TypeOK
<1>6. /\ relay' \in Seq(Items) /\ accepted' \in Seq(Items)
      /\ Len(relay') = Len(relay) + 1
      /\ \A i \in DOMAIN relay' :
           (i \in DOMAIN relay /\ relay'[i] = relay[i]) \/ relay'[i] = x
  BY <1>1, <1>4, <1>5, Appending
<1>7. Len(relay') <= RelayCap
  BY <1>1, <1>5, <1>6, ServerAssumption
<1>8. made' \in [Ids -> 0 .. MaxResponses]
  BY <1>1, <1>3 DEF ServerInv, TypeOK
<1>9. TypeOK'
  BY <1>1, <1>6, <1>7, <1>8 DEF ServerInv, TypeOK, sink
<1>10. Asked' /\ Buffered' /\ Delivered'
  BY <1>1, Unaffected DEF sink
<1>11. Addressed'
  BY <1>1, <1>2, <1>4, <1>6 DEF ServerInv, Addressed, ForRequester
<1> QED
  BY <1>9, <1>10, <1>11 DEF ServerInv

(* A task that ends leaves what it handed over.                            *)
LEMMA EndTaskKeeps ==
  ASSUME ServerInv, NEW t \in Ids, EndTask(t)
  PROVE  ServerInv'
<1>1. /\ task' \in [Ids -> {"none", "running", "done", "panicked"}]
      /\ \A u \in Ids : task'[u] # "none" => task[u] # "none"
      /\ UNCHANGED <<inbox, sink, setup, binding, serve, outgoing, relay, sender, peer,
                     made, accepted, lost>>
  BY DEF EndTask, ServerInv, TypeOK
<1>2. TypeOK'
  BY <1>1 DEF ServerInv, TypeOK, sink
<1>3. Asked'
  BY <1>1 DEF ServerInv, Asked
<1>4. Addressed' /\ Buffered' /\ Delivered'
  BY <1>1, Unaffected DEF sink
<1> QED
  BY <1>2, <1>3, <1>4 DEF ServerInv

-----------------------------------------------------------------------------
(* The send.                                                               *)

SinkTypes ==
  /\ wr \in Seq(Items) /\ dest \in Peers \cup {None} /\ flushed \in BOOLEAN
  /\ wire \in Seq([frames : Seq(Items), to : Peers])

(* The buffer goes out as one datagram, which is what it should be.        *)
LEMMA SendToKeeps ==
  ASSUME ServerInv, ~flushed, dest # None, UNCHANGED sender,
         wire' = Append(wire, [frames |-> wr, to |-> dest])
  PROVE  wire' \in Seq([frames : Seq(Items), to : Peers]) /\ Delivered'
<1> DEFINE d == [frames |-> wr, to |-> dest]
<1>1. dest \in Peers /\ Len(wr) = 1 /\ ForRequester(wr[1]) /\ wr[1].to = dest
  BY DEF ServerInv, Buffered, BufferMatches
<1>2. wire \in Seq([frames : Seq(Items), to : Peers]) /\ wr \in Seq(Items)
  BY DEF ServerInv, TypeOK
<1>3. d \in [frames : Seq(Items), to : Peers]
  BY <1>1, <1>2
<1>4. /\ wire' \in Seq([frames : Seq(Items), to : Peers])
      /\ \A i \in DOMAIN wire' :
           (i \in DOMAIN wire /\ wire'[i] = wire[i]) \/ wire'[i] = d
  BY <1>2, <1>3, Appending
<1>5. /\ Len(d.frames) = 1 /\ d.to = d.frames[1].to
      /\ d.frames[1].req \in DOMAIN sender /\ d.frames[1].to = sender[d.frames[1].req]
  BY <1>1 DEF ForRequester
<1>6. ASSUME NEW i \in DOMAIN wire'
      PROVE  /\ Len(wire'[i].frames) = 1 /\ wire'[i].to = wire'[i].frames[1].to
             /\ wire'[i].frames[1].req \in DOMAIN sender
             /\ wire'[i].frames[1].to = sender[wire'[i].frames[1].req]
  <2> HIDE DEF d
  <2>1. CASE wire'[i] = d
    BY <1>5, <2>1
  <2>2. CASE i \in DOMAIN wire /\ wire'[i] = wire[i]
    BY <2>2 DEF ServerInv, Delivered, ForRequester
  <2> QED
    BY <1>4, <2>1, <2>2
<1>7. Delivered'
  BY <1>6 DEF Delivered, ForRequester
<1> QED
  BY <1>4, <1>7

(* poll_flush empties the buffer or leaves all as it was.                  *)
LEMMA FlushKeeps ==
  ASSUME ServerInv, NEW res, Flush(res), UNCHANGED <<binding, sender>>
  PROVE  /\ SinkTypes' /\ BufferMatches' /\ Delivered' /\ UNCHANGED inbox
         /\ res = "ok" => flushed'
<1>1. SinkTypes /\ BufferMatches /\ Delivered
  BY DEF ServerInv, TypeOK, SinkTypes, Buffered
<1>2. ~flushed /\ dest' = dest /\ UNCHANGED inbox
  BY DEF Flush, Tokio!Flush, Embassy!Flush
<1>3. \/ /\ wr' = <<>> /\ flushed' = TRUE
         /\ \/ UNCHANGED wire
            \/ dest # None /\ wire' = Append(wire, [frames |-> wr, to |-> dest])
      \/ res # "ok" /\ UNCHANGED <<wr, flushed, wire>>
  <2>1. CASE binding = "tokio" /\ Tokio!Flush(res)
    <3>1. dest # None
      BY <1>1, <1>2, <2>1, FramedBindingAssumption DEF BufferMatches
    <3> QED
      BY <2>1, <3>1 DEF Tokio!Flush, Tokio!SendTo
  <2>2. CASE binding = "embassy" /\ Embassy!Flush(res)
    BY <2>2 DEF Embassy!Flush, Embassy!SendTo
  <2> QED
    BY <2>1, <2>2 DEF Flush
<1>4. CASE UNCHANGED <<wr, flushed, wire>> /\ res # "ok"
  BY <1>1, <1>2, <1>4 DEF SinkTypes, BufferMatches, Delivered, ForRequester
<1>5. CASE /\ wr' = <<>> /\ flushed' = TRUE
           /\ \/ UNCHANGED wire
              \/ dest # None /\ wire' = Append(wire, [frames |-> wr, to |-> dest])
  <2>1. wire' \in Seq([frames : Seq(Items), to : Peers]) /\ Delivered'
    <3>1. CASE UNCHANGED wire
      BY <1>1, <3>1 DEF SinkTypes, Delivered, ForRequester
    <3>2. CASE dest # None /\ wire' = Append(wire, [frames |-> wr, to |-> dest])
      BY <1>2, <3>2, SendToKeeps
    <3> QED
      BY <1>5, <3>1, <3>2
  <2>2. SinkTypes' /\ BufferMatches'
    BY <1>1, <1>2, <1>5, <2>1 DEF SinkTypes, BufferMatches
  <2> QED
    BY <1>2, <1>5, <2>1, <2>2
<1> QED
  BY <1>3, <1>4, <1>5

(* poll_ready flushes what is left, and returns Ok with an empty buffer.   *)
LEMMA ReadyKeeps ==
  ASSUME ServerInv, NEW res, Ready(res), UNCHANGED <<binding, sender>>
  PROVE  /\ SinkTypes' /\ BufferMatches' /\ Delivered' /\ UNCHANGED inbox
         /\ res = "ok" => flushed'
<1>1. CASE Flush(res)
  BY <1>1, FlushKeeps
<1>2. CASE flushed /\ UNCHANGED <<inbox, sink>>
  BY <1>2 DEF ServerInv, TypeOK, SinkTypes, Buffered, BufferMatches, Delivered,
              ForRequester, sink
<1> QED
  BY <1>1, <1>2 DEF Ready, Flush, Tokio!Ready, Embassy!Ready, Tokio!sink, Embassy!sink, sink

(* start_send puts the item into the empty buffer.                         *)
LEMMA StartSendKeeps ==
  ASSUME ServerInv, serve = "start", NEW res, StartSend(res),
         UNCHANGED <<binding, sender>>
  PROVE  SinkTypes' /\ BufferMatches' /\ Delivered' /\ UNCHANGED inbox
<1>1. /\ SinkTypes /\ BufferMatches /\ Delivered /\ wr = <<>>
      /\ outgoing \in Items /\ ForRequester(outgoing)
  BY DEF ServerInv, TypeOK, SinkTypes, Buffered, BufferMatches, Addressed
<1>2. outgoing.to \in Peers /\ <<outgoing>> \in Seq(Items) /\ Append(wr, outgoing) = <<outgoing>>
  BY <1>1 DEF Items
<1>3. UNCHANGED <<wire, inbox>>
  BY DEF StartSend, Tokio!StartSend, Embassy!StartSend
<1>4. \/ wr' = <<outgoing>> /\ dest' = outgoing.to /\ flushed' = FALSE
      \/ UNCHANGED <<wr, dest, flushed>>
      \/ binding = "embassy" /\ wr' = <<>> /\ dest' = None /\ flushed' = FALSE
  BY <1>2 DEF StartSend, Tokio!StartSend, Embassy!StartSend
<1>5. SinkTypes'
  BY <1>1, <1>2, <1>3, <1>4 DEF SinkTypes
<1>6. BufferMatches'
  BY <1>1, <1>2, <1>4 DEF BufferMatches, ForRequester
<1>7. Delivered'
  BY <1>1, <1>3 DEF Delivered, ForRequester
<1> QED
  BY <1>3, <1>5, <1>6, <1>7

(* The loop takes the oldest item from the channel.                        *)
LEMMA TakeRelayKeeps ==
  ASSUME ServerInv, TakeRelay
  PROVE  ServerInv'
<1>1. /\ relay # <<>> /\ outgoing' = Head(relay) /\ relay' = Tail(relay)
      /\ serve' = "ready"
      /\ UNCHANGED <<inbox, sink, setup, binding, sender, task, peer, made, accepted,
                     lost>>
  BY DEF TakeRelay
<1>2. relay \in Seq(Items) /\ Len(relay) <= RelayCap /\ RelayCap \in Nat
  BY ServerAssumption DEF ServerInv, TypeOK
<1>3. /\ Head(relay) \in Items /\ 1 \in DOMAIN relay /\ Head(relay) = relay[1]
      /\ Tail(relay) \in Seq(Items) /\ Len(Tail(relay)) < Len(relay)
      /\ \A i \in DOMAIN Tail(relay) :
           i + 1 \in DOMAIN relay /\ Tail(relay)[i] = relay[i + 1]
  BY <1>1, <1>2, Taking
<1>4. Len(relay') <= RelayCap
  BY <1>1, <1>2, <1>3
<1>5. TypeOK'
  BY <1>1, <1>3, <1>4 DEF ServerInv, TypeOK, sink
<1>6. Asked' /\ Delivered'
  BY <1>1, Unaffected DEF sink
<1>7. Addressed'
  BY <1>1, <1>3 DEF ServerInv, Addressed, ForRequester
<1>8. Buffered'
  BY <1>1 DEF ServerInv, Buffered, BufferMatches, ForRequester, sink
<1> QED
  BY <1>5, <1>6, <1>7, <1>8 DEF ServerInv

(* One stage of the send, and what follows from its result.                *)
LEMMA SendStepKeeps ==
  ASSUME ServerInv, SendStep
  PROVE  ServerInv'
<1>1. PICK res \in {"ok", "err", "panic"} :
        \/ serve = "ready" /\ Ready(res) /\ After(res, "start")
        \/ serve = "start" /\ StartSend(res) /\ After(res, "flush")
        \/ serve = "flush" /\ Flush(res) /\ After(res, "select")
  BY DEF SendStep
<1>2. UNCHANGED <<setup, binding, relay, sender, task, peer, made, accepted>>
  BY <1>1 DEF After
<1>3. outgoing \in Items /\ ForRequester(outgoing)
  BY <1>1 DEF ServerInv, Addressed
<1>4. /\ serve' \in {"select", "start", "flush", "panicked"}
      /\ lost' \in SUBSET Items
      /\ serve' \in {"start", "flush"} => outgoing' = outgoing
      /\ outgoing' \in {outgoing, None}
      /\ serve' = "start" => serve = "ready" /\ res = "ok"
  BY <1>1, <1>3 DEF After, ServerInv, TypeOK
<1>5. /\ SinkTypes' /\ BufferMatches' /\ Delivered' /\ UNCHANGED inbox
      /\ serve = "ready" /\ res = "ok" => flushed'
  BY <1>1, <1>2, ReadyKeeps, StartSendKeeps, FlushKeeps
<1>6. TypeOK'
  BY <1>2, <1>3, <1>4, <1>5 DEF ServerInv, TypeOK, SinkTypes
<1>7. Asked'
  BY <1>2, <1>5, Unaffected
<1>8. Addressed'
  BY <1>2, <1>3, <1>4 DEF ServerInv, Addressed, ForRequester
<1>9. Buffered'
  BY <1>4, <1>5 DEF Buffered
<1> QED
  BY <1>5, <1>6, <1>7, <1>8, <1>9 DEF ServerInv

-----------------------------------------------------------------------------

(* The state that a server is created in.                                  *)
LEMMA InitHolds == Init => ServerInv
<1> SUFFICES ASSUME Init PROVE ServerInv
  OBVIOUS
<1>1. /\ inbox = <<>> /\ wr = <<>> /\ dest = None /\ flushed = TRUE /\ wire = <<>>
      /\ binding \in {"tokio", "embassy"} /\ serve = "unbound"
      /\ outgoing = None /\ relay = <<>> /\ sender = <<>> /\ accepted = <<>>
      /\ task = [t \in Ids |-> "none"] /\ peer = [t \in Ids |-> None]
      /\ made = [t \in Ids |-> 0] /\ lost = {}
  BY DEF Init, BindingInit, Udp!BindInit
<1>2. Len(relay) <= RelayCap /\ 0 \in 0 .. MaxResponses
  BY <1>1, ServerAssumption
<1>3. TypeOK
  BY <1>1, <1>2 DEF TypeOK
<1>4. Asked /\ Addressed /\ Buffered /\ Delivered
  BY <1>1 DEF Asked, Addressed, Buffered, BufferMatches, Delivered
<1> QED
  BY <1>3, <1>4 DEF ServerInv

(* The steps of the server, its tasks and its peers keep the invariant.    *)
LEMMA NextKeeps == ServerInv /\ [Next]_vars => ServerInv'
<1> SUFFICES ASSUME ServerInv, [Next]_vars PROVE ServerInv'
  OBVIOUS
<1>1. CASE Start
  BY <1>1, StartKeeps
<1>2. CASE \E p \in Peers, k \in Kinds : Arrive(p, k)
  BY <1>2, ArriveKeeps
<1>3. CASE PollPending
  BY <1>3, PollPendingKeeps
<1>4. CASE Receive
  BY <1>4, ReceiveKeeps
<1>5. CASE Break
  BY <1>5, BreakKeeps
<1>6. CASE \E t \in Ids, f \in BOOLEAN : Respond(t, f)
  BY <1>6, RespondKeeps
<1>7. CASE \E t \in Ids : EndTask(t)
  BY <1>7, EndTaskKeeps
<1>8. CASE TakeRelay
  BY <1>8, TakeRelayKeeps
<1>9. CASE SendStep
  BY <1>9, SendStepKeeps
<1>10. CASE UNCHANGED vars
  <2>1. Asked' /\ Addressed' /\ Buffered' /\ Delivered'
    BY <1>10, Unaffected DEF vars, sink
  <2>2. TypeOK'
    BY <1>10 DEF vars, sink, ServerInv, TypeOK
  <2> QED
    BY <2>1, <2>2 DEF ServerInv
<1> QED
  BY <1>1, <1>2, <1>3, <1>4, <1>5, <1>6, <1>7, <1>8, <1>9, <1>10 DEF Next

(* ServerInv holds throughout.                                             *)
THEOREM Invariance == Spec => []ServerInv
<1> QED
  BY InitHolds, NextKeeps, PTL DEF Spec

(* The variables of the server keep their types, the channel its capacity. *)
THEOREM TypeCorrect == Spec => []TypeOK
<1>1. ServerInv => TypeOK
  BY DEF ServerInv
<1> QED
  BY Invariance, <1>1, PTL

(* Each datagram on the wire is one response and goes to the peer that     *)
(* sent the request, with either binding, whatever sends fail before it.   *)
THEOREM RequestersGetTheirReplies == Spec => []RepliesGoToTheirRequester
<1>1. ServerInv => RepliesGoToTheirRequester
  <2> SUFFICES ASSUME ServerInv PROVE RepliesGoToTheirRequester
    OBVIOUS
  <2>1. DOMAIN wire = 1 .. Len(wire)
    BY DEF ServerInv, TypeOK
  <2> QED
    BY <2>1 DEF ServerInv, Delivered, ForRequester, RepliesGoToTheirRequester
<1> QED
  BY Invariance, <1>1, PTL

-----------------------------------------------------------------------------
(* What bind() has joined when it returns.                                 *)

(* The groups are the wanted ones but for those that are left to join, and *)
(* there was an interface for each.                                        *)
Joined ==
  LET wanted == Udp!Wanted(transport, local)
      done   == Len(wanted) - Len(joins)
  IN  /\ DOMAIN wanted = 1 .. Len(wanted) /\ Len(wanted) \in Nat
      /\ Len(joins) \in 0 .. Len(wanted)
      /\ joins = [i \in 1 .. Len(joins) |-> wanted[done + i]]
      /\ groups = {Udp!Membership(transport, local, wanted[i]) : i \in 1 .. done}
      /\ \A i \in 1 .. done : Udp!Interface(transport, local, wanted[i]) # None

Binding ==
  binding = "tokio" =>
    /\ serve = "unbound" => transport \in Transports /\ groups = {}
    /\ serve \in {"joining", "bound"} => local \in Locals /\ Joined
    /\ serve = "bound" => joins = <<>>

(* The groups to join are a sequence.                                      *)
LEMMA WantedType ==
  ASSUME NEW t \in Transports, NEW a
  PROVE  \E S : Udp!Wanted(t, a) \in Seq(S)
<1>1. CASE Udp!Wanted(t, a) = <<>>
  <2>1. <<>> \in Seq({})
    OBVIOUS
  <2> QED
    BY <1>1, <2>1
<1>2. CASE Udp!Wanted(t, a) = t.joins
  BY <1>2, ServerAssumption
<1>3. CASE Udp!Wanted(t, a) = Udp!DetermineDefaultJoins(a)
  <2>1. \A x, y : <<x>> \in Seq({x}) /\ <<x, y>> \in Seq({x, y})
    OBVIOUS
  <2>2. \/ \E x : Udp!DetermineDefaultJoins(a) = <<x>>
        \/ \E x, y : Udp!DetermineDefaultJoins(a) = <<x, y>>
    BY DEF Udp!DetermineDefaultJoins
  <2>3. CASE \E x : Udp!DetermineDefaultJoins(a) = <<x>>
    BY <1>3, <2>1, <2>3
  <2>4. CASE \E x, y : Udp!DetermineDefaultJoins(a) = <<x, y>>
    <3>1. PICK x, y : Udp!DetermineDefaultJoins(a) = <<x, y>>
      BY <2>4
    <3>2. Udp!Wanted(t, a) \in Seq({x, y})
      BY <1>3, <2>1, <3>1
    <3> QED
      BY <3>2
  <2> QED
    BY <2>2, <2>3, <2>4
<1> QED
  BY <1>1, <1>2, <1>3 DEF Udp!Wanted

LEMMA BindSocketJoins ==
  ASSUME Binding, binding = "tokio", NEW a \in Locals, Udp!BindSocket(a)
  PROVE  Joined'
<1> DEFINE wanted == Udp!Wanted(transport, a)
<1>1. /\ transport \in Transports /\ groups = {} /\ serve' = "joining"
      /\ joins' = wanted /\ local' = a /\ transport' = transport /\ groups' = groups
  BY DEF Udp!BindSocket, Binding
<1>2. PICK S : wanted \in Seq(S)
  BY <1>1, WantedType
<1>3. Udp!Wanted(transport, local)' = wanted
  BY <1>1
<1> HIDE DEF wanted
<1>4. /\ DOMAIN wanted = 1 .. Len(wanted) /\ Len(wanted) \in Nat
      /\ wanted = [i \in 1 .. Len(wanted) |-> wanted[i]]
  BY <1>2
<1>5. Len(wanted) - Len(joins') = 0 /\ 1 .. 0 = {}
  BY <1>1, <1>4
<1> QED
  BY <1>1, <1>3, <1>4, <1>5 DEF Joined

LEMMA JoinJoins ==
  ASSUME Joined, Udp!Join
  PROVE  Joined'
<1> DEFINE wanted == Udp!Wanted(transport, local)
           n == Len(joins)
           done == Len(wanted) - n
           M(j) == Udp!Membership(transport, local, j)
           I(j) == Udp!Interface(transport, local, j)
<1>1. /\ joins # <<>> /\ joins' = Tail(joins) /\ groups' = groups \cup {M(Head(joins))}
      /\ transport' = transport /\ local' = local /\ I(Head(joins)) # None
  BY DEF Udp!Join
<1>2. /\ DOMAIN wanted = 1 .. Len(wanted) /\ Len(wanted) \in Nat /\ n \in 0 .. Len(wanted)
      /\ joins = [i \in 1 .. n |-> wanted[done + i]]
      /\ groups = {M(wanted[i]) : i \in 1 .. done}
      /\ \A i \in 1 .. done : I(wanted[i]) # None
  BY DEF Joined
<1>3. /\ Udp!Wanted(transport, local)' = wanted
      /\ \A j : Udp!Membership(transport, local, j)' = M(j)
      /\ \A j : Udp!Interface(transport, local, j)' = I(j)
  BY <1>1
<1> HIDE DEF wanted, M, I, n
<1>4. n > 0 /\ Head(joins) = wanted[done + 1]
  BY <1>1, <1>2
<1>5. Len(joins') = n - 1 /\ joins' = [i \in 1 .. n - 1 |-> wanted[done + 1 + i]]
  <2>1. joins' = Tail([i \in 1 .. n |-> wanted[done + i]]) /\ n \in Nat \ {0}
    BY <1>1, <1>2, <1>4
  <2> HIDE DEF done
  <2>2. /\ Len(joins') = n - 1
        /\ joins' = [i \in 1 .. n - 1 |-> [l \in 1 .. n |-> wanted[done + l]][i + 1]]
    BY <2>1
  <2>3. ASSUME NEW i \in 1 .. n - 1
        PROVE  [l \in 1 .. n |-> wanted[done + l]][i + 1] = wanted[done + (i + 1)]
    BY <2>1
  <2>4. \A i \in 1 .. n - 1 : done + (i + 1) = done + 1 + i
    BY <1>2, <2>1 DEF done
  <2> QED
    BY <2>2, <2>3, <2>4
<1>6. groups' = {M(wanted[i]) : i \in 1 .. done + 1}
  <2>1. \A i : i \in 1 .. done + 1 <=> i \in 1 .. done \/ i = done + 1
    BY <1>2
  <2>2. groups' = groups \cup {M(wanted[done + 1])}
    BY <1>1, <1>4
  <2> HIDE DEF done
  <2> QED
    BY <1>2, <2>1, <2>2
<1>7. Len(wanted) - Len(joins') = done + 1 /\ Len(joins') \in 0 .. Len(wanted)
  BY <1>2, <1>4, <1>5
<1>8. \A i \in 1 .. done + 1 : I(wanted[i]) # None
  <2>1. \A i \in 1 .. done + 1 : i \in 1 .. done \/ i = done + 1
    BY <1>2
  <2> HIDE DEF done
  <2> QED
    BY <1>1, <1>2, <1>4, <2>1
<1> QED
  BY <1>2, <1>3, <1>5, <1>6, <1>7, <1>8 DEF Joined

LEMMA NextBinding == Binding /\ [Next]_vars => Binding'
<1> SUFFICES ASSUME Binding, [Next]_vars PROVE Binding'
  OBVIOUS
<1>1. UNCHANGED <<binding, serve, setup>> => Binding'
  BY DEF Binding, Joined, setup
<1>2. ASSUME binding' = binding, serve' \notin {"unbound", "joining", "bound"}
      PROVE  Binding'
  BY <1>2 DEF Binding
<1>3. CASE Start
  <2>1. binding' = binding
    BY <1>3 DEF Start
  <2>2. ASSUME binding = "tokio", NEW a \in Locals, Udp!BindSocket(a) PROVE Binding'
    BY <2>1, <2>2, BindSocketJoins DEF Binding, Udp!BindSocket
  <2>3. ASSUME binding = "tokio", Udp!Join PROVE Binding'
    BY <2>1, <2>3, JoinJoins DEF Binding, Udp!Join
  <2>4. ASSUME Udp!JoinPanics \/ Udp!BindFails PROVE Binding'
    BY <1>2, <2>1, <2>4 DEF Udp!JoinPanics, Udp!BindFails, Udp!Drop
  <2>5. ASSUME binding = "tokio", Udp!Bound PROVE Binding'
    BY <2>1, <2>5 DEF Binding, Udp!Bound, Joined
  <2>6. CASE BindEmbassy
    BY <2>1, <2>6 DEF BindEmbassy, Binding
  <2>7. CASE Serve
    BY <1>2, <2>1, <2>7 DEF Serve
  <2> QED
    BY <1>3, <2>2, <2>3, <2>4, <2>5, <2>6, <2>7 DEF Start, BindTokio
<1>4. CASE \E p \in Peers, k \in Kinds : Arrive(p, k)
  BY <1>1, <1>4 DEF Arrive
<1>5. CASE PollPending
  BY <1>1, <1>5 DEF PollPending
<1>6. CASE Receive \/ Break
  BY <1>2, <1>6 DEF Receive, Break, HandleRxEvent
<1>7. CASE \E t \in Ids, f \in BOOLEAN : Respond(t, f)
  BY <1>1, <1>7 DEF Respond
<1>8. CASE \E t \in Ids : EndTask(t)
  BY <1>1, <1>8 DEF EndTask
<1>9. CASE TakeRelay
  BY <1>2, <1>9 DEF TakeRelay
<1>10. CASE SendStep
  BY <1>2, <1>10 DEF SendStep, After
<1>11. CASE UNCHANGED vars
  BY <1>1, <1>11 DEF vars
<1> QED
  BY <1>3, <1>4, <1>5, <1>6, <1>7, <1>8, <1>9, <1>10, <1>11 DEF Next

(* The choice of the interface is the one that was configured, if there is *)
(* an interface.                                                           *)
LEMMA MembershipIsConfigured ==
  ASSUME NEW j, Udp!Interface(transport, local, j) # None
  PROVE  ConfiguredFor(Udp!Membership(transport, local, j), j)
<1> DEFINE m == Udp!Membership(transport, local, j)
<1>1. m.group = j.group /\ m.interface = Udp!Interface(transport, local, j)
  BY DEF Udp!Membership
<1>2. CASE j.v4
  BY <1>1, <1>2 DEF ConfiguredFor, Udp!Interface, Udp!Or, Udp!AddressOf
<1>3. CASE ~j.v4
  BY <1>1, <1>3 DEF ConfiguredFor, Udp!Interface, Udp!Or
<1> QED
  BY <1>2, <1>3

(* A transport with multicast joins the groups that were configured.       *)
LEMMA WantedIsConfigured ==
  ASSUME transport.multicast, local \in Locals
  PROVE  LET wanted == Udp!Wanted(transport, local)
         IN  ConfiguredGroups = {wanted[i] : i \in DOMAIN wanted}
<1>1. CASE transport.joins # <<>>
  BY <1>1 DEF ConfiguredGroups, Udp!Wanted
<1>2. CASE transport.joins = <<>>
  <2> DEFINE J(g) == [v4 |-> local.v4, group |-> g, interface |-> None]
  <2>1. \A x, y : /\ {<<x>>[i] : i \in DOMAIN <<x>>} = {x}
                  /\ {<<x, y>>[i] : i \in DOMAIN <<x, y>>} = {x, y}
    OBVIOUS
  <2>2. CASE local.v4
    <3>1. Udp!Wanted(transport, local) = <<J(AllCoap4)>>
      BY <1>2, <2>2, ServerAssumption DEF Udp!Wanted, Udp!DetermineDefaultJoins, Udp!Join4
    <3>2. ConfiguredGroups = {J(AllCoap4)}
      BY <1>2, <2>2 DEF ConfiguredGroups
    <3> QED
      BY <2>1, <3>1, <3>2
  <2>3. CASE ~local.v4
    <3>1. Udp!Wanted(transport, local) = <<J(AllCoapLink6), J(AllCoapSite6)>>
      BY <1>2, <2>3, ServerAssumption DEF Udp!Wanted, Udp!DetermineDefaultJoins, Udp!Join6
    <3>2. ConfiguredGroups = {J(AllCoapLink6), J(AllCoapSite6)}
      BY <1>2, <2>3 DEF ConfiguredGroups
    <3> QED
      BY <2>1, <3>1, <3>2
  <2> QED
    BY <2>2, <2>3
<1> QED
  BY <1>1, <1>2

(* When bind() returns a server, it is in the groups that the application  *)
(* configured, each on the interface that was configured for it, and in no *)
(* other ones, however many there are.                                     *)
THEOREM ServersAreBoundAsConfigured == Spec => []BoundAsConfigured
<1>1. Init => Binding
  BY DEF Init, Udp!BindInit, Binding
<1>2. Binding => BoundAsConfigured
  <2> SUFFICES ASSUME Joined, joins = <<>>, local \in Locals PROVE
        /\ transport.multicast =>
             /\ \A j \in ConfiguredGroups : \E m \in groups : ConfiguredFor(m, j)
             /\ \A m \in groups : \E j \in ConfiguredGroups : ConfiguredFor(m, j)
        /\ ~transport.multicast => groups = {}
    BY DEF Binding, BoundAsConfigured
  <2> DEFINE wanted == Udp!Wanted(transport, local)
             M(j) == Udp!Membership(transport, local, j)
  <2>1. /\ groups = {M(wanted[i]) : i \in DOMAIN wanted}
        /\ \A i \in DOMAIN wanted : Udp!Interface(transport, local, wanted[i]) # None
    <3>1. Len(joins) = 0
      OBVIOUS
    <3> QED
      BY <3>1 DEF Joined
  <2>2. \A i \in DOMAIN wanted : ConfiguredFor(M(wanted[i]), wanted[i])
    BY <2>1, MembershipIsConfigured
  <2>3. transport.multicast => ConfiguredGroups = {wanted[i] : i \in DOMAIN wanted}
    BY WantedIsConfigured
  <2>4. ~transport.multicast => DOMAIN wanted = {}
    BY DEF Udp!Wanted
  <2> HIDE DEF wanted, M
  <2> QED
    BY <2>1, <2>2, <2>3, <2>4
<1> QED
  BY <1>1, <1>2, NextBinding, PTL DEF Spec
=============================================================================
