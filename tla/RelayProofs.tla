---------------------------- MODULE RelayProofs -----------------------------
(***************************************************************************)
(* Server implements ResponseRelay, for any number of peers, datagrams,    *)
(* responses and places in the channel, and with both bindings.            *)
(***************************************************************************)
EXTENDS ServerProofs, FiniteSetTheorems

Wired(x) == [frames |-> <<x>>, to |-> x.to]
Out(x) == \E d \in DOMAIN wire : wire[d] = Wired(x)
AnswersTo(t) == {i \in DOMAIN accepted : accepted[i].req = t}

(* The responses to a request are numbered, so that no two are the same.   *)
Numbered ==
  /\ \A t \in Ids : Cardinality(AnswersTo(t)) = made[t]
  /\ \A i \in DOMAIN accepted : accepted[i].num <= made[accepted[i].req]
  /\ \A i, j \in DOMAIN accepted : accepted[i] = accepted[j] => i = j

(* The channel holds the last responses, the send in progress the one      *)
(* before them.                                                            *)
Queued ==
  /\ Settled \in Nat
  /\ \A i \in DOMAIN relay : relay[i] = accepted[Len(accepted) - Len(relay) + i]
  /\ outgoing # None =>
       /\ outgoing = accepted[Settled + 1]
       /\ serve \in {"ready", "start", "flush", "panicked"}

(* What is in the write buffer is the item that is being sent, or one that *)
(* was reported, and nothing that follows it was sent.                     *)
Left ==
  /\ wr # <<>> =>
       \E i \in DOMAIN accepted :
         /\ wr = <<accepted[i]>> /\ accepted[i].fits
         /\ \A j \in DOMAIN accepted : j >= i => ~Out(accepted[j])
         /\ serve = "flush" => i = Settled + 1
         /\ serve # "flush" => i <= Settled /\ accepted[i] \in lost
  /\ serve = "flush" => wr # <<>>

(* Nothing is sent before its turn.                                        *)
OnlySettled ==
  \A d \in DOMAIN wire : \E j \in 1 .. Settled : wire[d] = Wired(accepted[j])

RelayParts == Numbered /\ Queued /\ Left /\ OnlySettled
RelayInv == ServerInv /\ RelayParts

-----------------------------------------------------------------------------

(* Types, as the steps below use them.                                     *)
LEMMA Sizes ==
  ASSUME RelayInv
  PROVE  /\ accepted \in Seq(Items) /\ relay \in Seq(Items)
         /\ DOMAIN accepted = 1 .. Len(accepted) /\ Len(accepted) \in Nat
         /\ DOMAIN relay = 1 .. Len(relay) /\ Len(relay) \in Nat
         /\ Settled \in Nat
         /\ outgoing = None => Settled = Len(accepted) - Len(relay)
         /\ outgoing # None => Settled + 1 = Len(accepted) - Len(relay)
<1>1. accepted \in Seq(Items) /\ relay \in Seq(Items)
  BY DEF RelayInv, ServerInv, TypeOK
<1>2. Settled \in Nat
  BY DEF RelayInv, RelayParts, Queued
<1> QED
  BY <1>1, <1>2 DEF Settled

(* A datagram says which item it is.                                       *)
LEMMA WiredDiffer == ASSUME NEW x, NEW y, Wired(x) = Wired(y) PROVE x = y
<1>1. Wired(x).frames = <<x>> /\ Wired(y).frames = <<y>>
  BY DEF Wired
<1>2. <<x>>[1] = <<y>>[1]
  BY <1>1
<1> QED
  BY <1>2

(* What has not had its turn was not sent.                                 *)
LEMMA NotYetOut ==
  ASSUME RelayInv, NEW j \in DOMAIN accepted, j > Settled
  PROVE  ~Out(accepted[j])
<1> SUFFICES ASSUME NEW d \in DOMAIN wire, wire[d] = Wired(accepted[j]) PROVE FALSE
  BY DEF Out
<1>1. PICK k \in 1 .. Settled : wire[d] = Wired(accepted[k])
  BY DEF RelayInv, RelayParts, OnlySettled
<1>2. accepted[j] = accepted[k]
  BY <1>1, WiredDiffer
<1>3. k \in DOMAIN accepted /\ k # j
  BY <1>1, Sizes
<1> QED
  BY <1>2, <1>3 DEF RelayInv, RelayParts, Numbered

(* A step that leaves the responses alone.                                 *)
LEMMA QuietKeeps ==
  ASSUME RelayInv, UNCHANGED <<accepted, relay, outgoing, wr, wire, lost, made>>,
         \/ UNCHANGED serve
         \/ serve \in {"unbound", "joining", "bound", "select"} /\ serve' # "flush"
  PROVE  RelayParts' /\ UNCHANGED Settled
<1>1. UNCHANGED Settled
  BY DEF Settled
<1>2. Numbered'
  BY DEF RelayInv, RelayParts, Numbered, AnswersTo
<1>3. Queued'
  BY <1>1 DEF RelayInv, RelayParts, Queued
<1>4. Left'
  BY <1>1 DEF RelayInv, RelayParts, Left, Out
<1>5. OnlySettled'
  BY <1>1 DEF RelayInv, RelayParts, OnlySettled
<1> QED
  BY <1>1, <1>2, <1>3, <1>4, <1>5 DEF RelayParts

Silent == UNCHANGED Relay!vars

(* Binding, reading and the ends of tasks are no steps of the relay.       *)
LEMMA StartRelays ==
  ASSUME RelayInv, Start
  PROVE  RelayParts' /\ Silent
<1>1. /\ UNCHANGED <<accepted, relay, outgoing, wr, wire, lost, made, sender>>
      /\ serve \in {"unbound", "joining", "bound"} /\ serve' # "flush"
  BY DEF Start, sink, BindTokio, BindEmbassy, Serve, Udp!BindSocket, Udp!Join,
         Udp!JoinPanics, Udp!BindFails, Udp!Bound, Udp!Drop
<1> QED
  BY <1>1, QuietKeeps DEF Silent, Relay!vars

LEMMA EventRelays ==
  ASSUME RelayInv, NEW y, HandleRxEvent(y), UNCHANGED sink
  PROVE  RelayParts' /\ Silent
<1>1. /\ UNCHANGED <<accepted, relay, outgoing, wr, wire, lost, made, sender>>
      /\ serve = "select" /\ serve' # "flush"
  BY DEF HandleRxEvent, sink
<1> QED
  BY <1>1, QuietKeeps DEF Silent, Relay!vars

LEMMA ReadRelays ==
  ASSUME RelayInv, Receive \/ Break \/ PollPending
  PROVE  RelayParts' /\ Silent
<1>1. CASE Receive
  <2>1. PICK y \in Events : PollNext(y) /\ HandleRxEvent(y)
    BY <1>1 DEF Receive
  <2>2. UNCHANGED sink
    BY <2>1, ReadSide DEF RelayInv
  <2> QED
    BY <2>1, <2>2, EventRelays
<1>2. CASE Break
  <2>1. PICK y \in Events : ReadError(y) /\ HandleRxEvent(y)
    BY <1>2 DEF Break
  <2>2. UNCHANGED sink
    BY <2>1 DEF ReadError, Tokio!ReadError, Embassy!ReadError, Tokio!sink, Embassy!sink, sink
  <2> QED
    BY <2>1, <2>2, EventRelays
<1>3. CASE PollPending
  <2>1. UNCHANGED <<accepted, relay, outgoing, wr, wire, lost, made, sender, serve>>
    BY <1>3 DEF PollPending, Tokio!PollPending, Tokio!sink
  <2> QED
    BY <2>1, QuietKeeps DEF Silent, Relay!vars
<1> QED
  BY <1>1, <1>2, <1>3

LEMMA EndTaskRelays ==
  ASSUME RelayInv, NEW t \in Ids, EndTask(t)
  PROVE  RelayParts' /\ Silent
<1>1. UNCHANGED <<accepted, relay, outgoing, wr, wire, lost, made, sender, serve>>
  BY DEF EndTask, sink
<1> QED
  BY <1>1, QuietKeeps DEF Silent, Relay!vars

(* A datagram may become a request.                                        *)
LEMMA ArriveRelays ==
  ASSUME RelayInv, NEW p \in Peers, NEW k \in Kinds, Arrive(p, k)
  PROVE  RelayParts' /\ Relay!Ask(p)
<1>1. /\ UNCHANGED <<accepted, relay, outgoing, wr, wire, lost, made, serve>>
      /\ sender' = Append(sender, p)
  BY DEF Arrive, sink
<1> QED
  BY <1>1, QuietKeeps DEF Relay!Ask

-----------------------------------------------------------------------------
(* A task hands a response over: it is a new one, and the last.            *)
LEMMA RespondRelays ==
  ASSUME RelayInv, NEW t \in Ids, NEW f \in BOOLEAN, Respond(t, f)
  PROVE  RelayParts' /\ Relay!Answer(t, f)
<1> DEFINE x == Response(t, f)
           n == Len(accepted) + 1
<1>1. /\ relay' = Append(relay, x) /\ accepted' = Append(accepted, x)
      /\ made' = [made EXCEPT ![t] = @ + 1]
      /\ task[t] = "running" /\ made[t] < MaxResponses
      /\ UNCHANGED <<wr, wire, serve, outgoing, sender, lost>>
  BY DEF Respond, sink
<1>2. t \in DOMAIN sender /\ peer[t] = sender[t] /\ peer[t] \in Peers
  BY <1>1 DEF RelayInv, ServerInv, Asked, TypeOK
<1>3. made \in [Ids -> Nat] /\ made[t] + 1 \in 1 .. MaxResponses
  BY <1>1, ServerAssumption DEF RelayInv, ServerInv, TypeOK
<1>4. x = [req |-> t, num |-> made[t] + 1, fits |-> f, to |-> sender[t]]
  BY <1>2 DEF Response
<1>5. x \in Items
  BY <1>2, <1>3, <1>4 DEF Items
<1> HIDE DEF x
<1>6. accepted' \in Seq(Items) /\ DOMAIN accepted' = 1 .. n /\ accepted'[n] = x
  BY <1>1, <1>5, Sizes, AppendProperties
<1>7. \A i \in DOMAIN accepted : accepted'[i] = accepted[i]
  BY <1>1, <1>5, Sizes, AppendProperties
<1>8. relay' \in Seq(Items) /\ Len(relay') = Len(relay) + 1 /\ relay'[Len(relay) + 1] = x
      /\ DOMAIN relay' = 1 .. Len(relay) + 1
      /\ \A i \in DOMAIN relay : relay'[i] = relay[i]
  BY <1>1, <1>5, Sizes, AppendProperties
<1>9. Len(accepted') = n
  BY <1>1, <1>5, Sizes, AppendProperties
<1>10. UNCHANGED Settled
  <2>1. PICK busy \in {0, 1} : busy = (IF outgoing = None THEN 0 ELSE 1)
    OBVIOUS
  <2>2. Settled' = n - (Len(relay) + 1) - busy
    BY <1>1, <1>8, <1>9, <2>1 DEF Settled
  <2>3. Settled = Len(accepted) - Len(relay) - busy
    BY <2>1 DEF Settled
  <2> QED
    BY <2>2, <2>3, Sizes
<1>11. \A i \in DOMAIN accepted : accepted[i] # x
  <2> SUFFICES ASSUME NEW i \in DOMAIN accepted, accepted[i] = x PROVE FALSE
    OBVIOUS
  <2>1. accepted[i].num <= made[accepted[i].req]
    BY DEF RelayInv, RelayParts, Numbered
  <2>2. made[t] + 1 <= made[t]
    BY <1>4, <2>1
  <2> QED
    BY <1>3, <2>2
<1>12. Numbered'
  <2>1. \A u \in Ids : Cardinality(AnswersTo(u)') = made'[u]
    <3> SUFFICES ASSUME NEW u \in Ids PROVE Cardinality(AnswersTo(u)') = made'[u]
      OBVIOUS
    <3>1. Cardinality(AnswersTo(u)) = made[u]
      BY DEF RelayInv, RelayParts, Numbered
    <3>2. CASE u # t
      <4>1. AnswersTo(u)' = AnswersTo(u)
        BY <1>4, <1>6, <1>7, <3>2, Sizes DEF AnswersTo
      <4> QED
        BY <1>1, <1>3, <3>1, <3>2, <4>1
    <3>3. CASE u = t
      <4>1. AnswersTo(u)' = AnswersTo(u) \cup {n} /\ n \notin AnswersTo(u)
        BY <1>4, <1>6, <1>7, <3>3, Sizes DEF AnswersTo
      <4>2. AnswersTo(u) \in SUBSET (1 .. Len(accepted)) /\ IsFiniteSet(1 .. Len(accepted))
        BY Sizes, FS_Interval DEF AnswersTo
      <4>3. IsFiniteSet(AnswersTo(u))
        BY <4>2, FS_Subset
      <4>4. Cardinality(AnswersTo(u) \cup {n}) = Cardinality(AnswersTo(u)) + 1
        BY <4>1, <4>3, FS_AddElement
      <4> QED
        BY <1>1, <1>3, <3>1, <3>3, <4>1, <4>4
    <3> QED
      BY <3>2, <3>3
  <2>2. \A i \in DOMAIN accepted' : accepted'[i].num <= made'[accepted'[i].req]
    <3> SUFFICES ASSUME NEW i \in DOMAIN accepted'
                 PROVE  accepted'[i].num <= made'[accepted'[i].req]
      OBVIOUS
    <3>1. CASE i = n
      BY <1>1, <1>3, <1>4, <1>6, <3>1
    <3>2. CASE i # n
      <4>1. i \in DOMAIN accepted /\ accepted'[i] = accepted[i] /\ accepted[i] \in Items
        BY <1>6, <1>7, <3>2, Sizes
      <4>2. accepted[i].num <= made[accepted[i].req] /\ accepted[i].req \in Ids
            /\ accepted[i].num \in Nat
        BY <4>1 DEF RelayInv, RelayParts, Numbered, Items
      <4> QED
        BY <1>1, <1>3, <4>1, <4>2
    <3> QED
      BY <3>1, <3>2
  <2>3. \A i, j \in DOMAIN accepted' : accepted'[i] = accepted'[j] => i = j
    <3>1. \A i \in DOMAIN accepted' :
            i = n \/ (i \in DOMAIN accepted /\ accepted'[i] = accepted[i])
      BY <1>6, <1>7, Sizes
    <3> QED
      BY <1>6, <1>11, <3>1 DEF RelayInv, RelayParts, Numbered
  <2> QED
    BY <2>1, <2>2, <2>3 DEF Numbered
<1>13. Queued'
  <2>1. \A i \in DOMAIN relay' : relay'[i] = accepted'[Len(accepted') - Len(relay') + i]
    <3> SUFFICES ASSUME NEW i \in DOMAIN relay'
                 PROVE  relay'[i] = accepted'[Len(accepted) - Len(relay) + i]
      BY <1>8, <1>9, Sizes
    <3>1. CASE i = Len(relay) + 1
      BY <1>6, <1>8, <3>1, Sizes
    <3>2. CASE i \in DOMAIN relay
      <4>1. relay[i] = accepted[Len(accepted) - Len(relay) + i]
        BY <3>2 DEF RelayInv, RelayParts, Queued
      <4>2. Len(accepted) - Len(relay) + i \in DOMAIN accepted
        BY <3>2, Sizes
      <4> QED
        BY <1>7, <1>8, <3>2, <4>1, <4>2
    <3> QED
      BY <1>8, <3>1, <3>2, Sizes
  <2>2. outgoing # None => Settled + 1 \in DOMAIN accepted
    BY Sizes
  <2> QED
    BY <1>1, <1>7, <1>10, <2>1, <2>2 DEF RelayInv, RelayParts, Queued
<1>14. ~Out(x) /\ \A y : Out(y)' <=> Out(y)
  <2>1. \A y : Out(y)' <=> Out(y)
    BY <1>1 DEF Out
  <2>2. ASSUME NEW d \in DOMAIN wire, wire[d] = Wired(x) PROVE FALSE
    <3>1. PICK k \in 1 .. Settled : wire[d] = Wired(accepted[k])
      BY DEF RelayInv, RelayParts, OnlySettled
    <3>2. Wired(accepted[k]) = Wired(x)
      BY <2>2, <3>1
    <3>3. k \in DOMAIN accepted
      BY <3>1, Sizes
    <3>4. accepted[k] = x
      BY <3>2, WiredDiffer
    <3> QED
      BY <1>11, <3>3, <3>4
  <2> QED
    BY <2>1, <2>2 DEF Out
<1>15. Left'
  <2>1. CASE wr = <<>>
    BY <1>1, <2>1 DEF RelayInv, RelayParts, Left
  <2>2. CASE wr # <<>>
    <3>1. PICK i \in DOMAIN accepted :
            /\ wr = <<accepted[i]>> /\ accepted[i].fits
            /\ \A j \in DOMAIN accepted : j >= i => ~Out(accepted[j])
            /\ serve = "flush" => i = Settled + 1
            /\ serve # "flush" => i <= Settled /\ accepted[i] \in lost
      BY <2>2 DEF RelayInv, RelayParts, Left
    <3>2. i \in DOMAIN accepted' /\ accepted'[i] = accepted[i]
      BY <1>6, <1>7, Sizes
    <3>3. \A j \in DOMAIN accepted' : j >= i => ~Out(accepted'[j])
      <4>1. \A j \in DOMAIN accepted' :
              accepted'[j] = x \/ (j \in DOMAIN accepted /\ accepted'[j] = accepted[j])
        BY <1>6, <1>7, Sizes
      <4> QED
        BY <1>14, <3>1, <4>1
    <3>4. \A j \in DOMAIN accepted' : j >= i => ~Out(accepted[j])'
      BY <1>1, <3>3 DEF Out
    <3> QED
      BY <1>1, <1>10, <2>2, <3>1, <3>2, <3>4 DEF Left
  <2> QED
    BY <2>1, <2>2
<1>16. OnlySettled'
  <2>1. \A j \in 1 .. Settled : accepted'[j] = accepted[j]
    BY <1>7, Sizes
  <2>2. ASSUME NEW d \in DOMAIN wire
        PROVE  \E j \in 1 .. Settled : wire[d] = Wired(accepted[j])'
    <3>1. PICK j \in 1 .. Settled : wire[d] = Wired(accepted[j])
      BY DEF RelayInv, RelayParts, OnlySettled
    <3>2. Wired(accepted[j])' = Wired(accepted[j])
      BY <2>1 DEF Wired
    <3> QED
      BY <3>1, <3>2
  <2>3. wire' = wire /\ Settled' = Settled
    BY <1>1, <1>10
  <2> QED
    BY <2>2, <2>3, Zenon DEF OnlySettled
<1>17. Relay!Answer(t, f)
  <2>1. Cardinality(AnswersTo(t)) = made[t] /\ AnswersTo(t) = Relay!Answers(t)
    BY DEF RelayInv, RelayParts, Numbered, AnswersTo, Relay!Answers
  <2>2. \A S : Relay!Cardinality(S) = Cardinality(S)
    BY DEF Relay!Cardinality, Cardinality
  <2> QED
    BY <1>1, <1>2, <1>4, <1>10, <2>1, <2>2 DEF Relay!Answer
<1> QED
  BY <1>12, <1>13, <1>15, <1>16, <1>17 DEF RelayParts

-----------------------------------------------------------------------------
(* The loop takes an item: it is not settled by that.                      *)
LEMMA TakeRelayRelays ==
  ASSUME RelayInv, TakeRelay
  PROVE  RelayParts' /\ Silent
<1>1. /\ relay # <<>> /\ outgoing' = Head(relay) /\ relay' = Tail(relay)
      /\ serve = "select" /\ serve' = "ready"
      /\ UNCHANGED <<wr, wire, sender, made, accepted, lost>>
  BY DEF TakeRelay, sink
<1>2. /\ Head(relay) \in Items /\ 1 \in DOMAIN relay /\ Head(relay) = relay[1]
      /\ relay' \in Seq(Items) /\ Len(relay') = Len(relay) - 1
      /\ DOMAIN relay' = 1 .. Len(relay) - 1
      /\ \A i \in DOMAIN relay' : i + 1 \in DOMAIN relay /\ relay'[i] = relay[i + 1]
  BY <1>1, Sizes
<1>3. outgoing = None /\ outgoing' # None
  BY <1>1, <1>2, ServerAssumption DEF RelayInv, RelayParts, Queued
<1>4. Settled = Len(accepted) - Len(relay)
  BY <1>3 DEF Settled
<1>5. Settled' = Len(accepted) - (Len(relay) - 1) - 1
  BY <1>1, <1>2, <1>3 DEF Settled
<1>6. UNCHANGED Settled
  BY <1>4, <1>5, Sizes
<1>7. \A i \in DOMAIN relay : relay[i] = accepted[Len(accepted) - Len(relay) + i]
  BY DEF RelayInv, RelayParts, Queued
<1>8. outgoing' = accepted[Settled + 1]
  BY <1>1, <1>2, <1>4, <1>7
<1>9. \A i \in DOMAIN relay' : relay'[i] = accepted[Len(accepted) - Len(relay') + i]
  <2> SUFFICES ASSUME NEW i \in DOMAIN relay'
               PROVE  relay'[i] = accepted[Len(accepted) - Len(relay') + i]
    OBVIOUS
  <2>1. relay'[i] = accepted[Len(accepted) - Len(relay) + (i + 1)]
    BY <1>2, <1>7
  <2>2. Len(accepted) - Len(relay) + (i + 1) = Len(accepted) - Len(relay') + i
    BY <1>2, Sizes
  <2> QED
    BY <2>1, <2>2
<1>10. Queued'
  BY <1>1, <1>6, <1>8, <1>9 DEF RelayInv, RelayParts, Queued
<1>11. Numbered'
  BY <1>1 DEF RelayInv, RelayParts, Numbered, AnswersTo
<1>12. Left' /\ OnlySettled'
  BY <1>1, <1>6 DEF RelayInv, RelayParts, Left, OnlySettled, Out
<1> QED
  BY <1>1, <1>6, <1>10, <1>11, <1>12 DEF RelayParts, Silent, Relay!vars

-----------------------------------------------------------------------------
(* The send.                                                               *)

(* What a flush may do to the buffer and the wire.                         *)
Flushed(res) ==
  \/ /\ res = "ok" /\ wr # <<>> /\ wr' = <<>>
     /\ wire' = Append(wire, Wired(wr[1]))
  \/ res = "err" /\ (wr' = <<>> \/ UNCHANGED wr) /\ UNCHANGED wire
  \/ res = "panic" /\ wr = <<>> /\ UNCHANGED <<wr, wire>>

LEMMA FlushIsOneOf ==
  ASSUME RelayInv, NEW res, Flush(res)
  PROVE  Flushed(res)
<1>1. BufferMatches /\ wr \in Seq(Items)
  BY DEF RelayInv, ServerInv, Buffered, TypeOK
<1>2. ~flushed
  BY DEF Flush, Tokio!Flush, Embassy!Flush
<1>3. CASE dest = None
  <2>1. binding = "embassy" /\ wr = <<>>
    BY <1>1, <1>2, <1>3, FramedBindingAssumption DEF BufferMatches
  <2> QED
    BY <1>3, <2>1 DEF Flush, Embassy!Flush, Flushed
<1>4. CASE dest # None
  <2>1. Len(wr) = 1 /\ wr[1].to = dest
    BY <1>1, <1>2, <1>4 DEF BufferMatches
  <2>2. wr = <<wr[1]>> /\ wr # <<>>
    BY <1>1, <2>1
  <2>3. [frames |-> wr, to |-> dest] = Wired(wr[1])
    BY <2>1, <2>2 DEF Wired
  <2> QED
    BY <1>4, <2>2, <2>3 DEF Flush, Tokio!Flush, Embassy!Flush, Tokio!SendTo,
                            Embassy!SendTo, Flushed
<1> QED
  BY <1>3, <1>4

(* A send returned an error: its item is reported.                         *)
LEMMA ErrorRelays ==
  ASSUME RelayInv, serve \in {"ready", "start", "flush"}, serve' = "select",
         outgoing' = None, lost' = lost \cup {outgoing},
         UNCHANGED <<accepted, relay, sender, wire, made>>,
         wr' = <<>> \/ UNCHANGED wr
  PROVE  RelayParts' /\ Relay!Report
<1>1. outgoing # None /\ outgoing = accepted[Settled + 1]
  BY ServerAssumption DEF RelayInv, RelayParts, Queued, ServerInv, Addressed
<1>2. Settled + 1 = Len(accepted) - Len(relay)
  BY <1>1, Sizes
<1>3. Settled' = Len(accepted) - Len(relay)
  <2>1. Settled' = Len(accepted) - Len(relay) - 0
    BY DEF Settled
  <2> QED
    BY <2>1, Sizes
<1>4. Settled' = Settled + 1 /\ Settled < Len(accepted)
  BY <1>2, <1>3, Sizes
<1>5. Relay!Report
  BY <1>1, <1>4 DEF Relay!Report, Relay!Settle
<1>6. Numbered'
  BY DEF RelayInv, RelayParts, Numbered, AnswersTo
<1>7. Queued'
  BY <1>4, Sizes DEF RelayInv, RelayParts, Queued
<1>8. Left'
  <2>1. CASE wr' = <<>>
    BY <2>1 DEF Left
  <2>2. CASE UNCHANGED wr /\ wr # <<>>
    <3>1. PICK i \in DOMAIN accepted :
            /\ wr = <<accepted[i]>> /\ accepted[i].fits
            /\ \A j \in DOMAIN accepted : j >= i => ~Out(accepted[j])
            /\ serve = "flush" => i = Settled + 1
            /\ serve # "flush" => i <= Settled /\ accepted[i] \in lost
      BY <2>2 DEF RelayInv, RelayParts, Left
    <3>2. i <= Settled' /\ accepted[i] \in lost'
      BY <1>1, <1>4, <3>1, Sizes
    <3>3. \A j \in DOMAIN accepted : j >= i => ~Out(accepted[j])'
      BY <3>1 DEF Out
    <3> QED
      BY <2>2, <3>1, <3>2, <3>3 DEF Left
  <2> QED
    BY <2>1, <2>2
<1>9. OnlySettled'
  <2>1. \A j \in 1 .. Settled : j \in 1 .. Settled'
    BY <1>4, Sizes
  <2> QED
    BY <2>1 DEF RelayInv, RelayParts, OnlySettled
<1> QED
  BY <1>5, <1>6, <1>7, <1>8, <1>9 DEF RelayParts

(* An item goes out, as the one whose turn it is or late.                  *)
LEMMA WireGrows ==
  ASSUME RelayInv, NEW i \in DOMAIN accepted,
         wire' = Append(wire, Wired(accepted[i])), UNCHANGED accepted,
         Settled' \in Nat, Settled' >= Settled, i <= Settled'
  PROVE  OnlySettled'
<1>1. wire \in Seq([frames : Seq(Items), to : Peers])
  BY DEF RelayInv, ServerInv, TypeOK
<1>2. accepted[i] \in Items
  BY Sizes
<1>3. Wired(accepted[i]) \in [frames : Seq(Items), to : Peers]
  BY <1>2 DEF Wired, Items
<1>4. \A d \in DOMAIN wire' :
        (d \in DOMAIN wire /\ wire'[d] = wire[d]) \/ wire'[d] = Wired(accepted[i])
  BY <1>1, <1>3, Appending
<1>5. ASSUME NEW d \in DOMAIN wire'
      PROVE  \E j \in 1 .. Settled' : wire'[d] = Wired(accepted[j])
  <2>1. CASE wire'[d] = Wired(accepted[i])
    <3>1. i \in 1 .. Settled'
      BY Sizes
    <3> QED
      BY <2>1, <3>1
  <2>2. CASE d \in DOMAIN wire /\ wire'[d] = wire[d]
    <3>1. PICK j \in 1 .. Settled : wire[d] = Wired(accepted[j])
      BY <2>2 DEF RelayInv, RelayParts, OnlySettled
    <3>2. j \in 1 .. Settled'
      BY Sizes
    <3> QED
      BY <2>2, <3>1, <3>2
  <2> QED
    BY <1>4, <2>1, <2>2
<1>6. \A j : Wired(accepted[j])' = Wired(accepted[j])
  BY DEF Wired
<1> QED
  BY <1>5, <1>6 DEF OnlySettled

(* poll_ready: what an earlier send left goes out late, and otherwise      *)
(* nothing happens that is seen.                                           *)
LEMMA ReadyRelays ==
  ASSUME RelayInv, serve = "ready", NEW res \in {"ok", "err", "panic"}, Ready(res),
         After(res, "start")
  PROVE  RelayParts' /\ [Relay!Next]_(Relay!vars)
<1>1. UNCHANGED <<accepted, relay, sender, made>>
  BY DEF After
<1>2. CASE res = "err"
  <2>1. serve' = "select" /\ outgoing' = None /\ lost' = lost \cup {outgoing}
    BY <1>2 DEF After
  <2>2. (wr' = <<>> \/ UNCHANGED wr) /\ UNCHANGED wire
    <3>1. Flush(res)
      BY <1>2 DEF Ready, Flush, Tokio!Ready, Embassy!Ready
    <3> QED
      BY <1>2, <3>1, FlushIsOneOf DEF Flushed
  <2> QED
    BY <1>1, <2>1, <2>2, ErrorRelays DEF Relay!Next
<1>3. CASE res # "err" /\ UNCHANGED <<wr, wire>>
  <2>1. /\ serve' \in {"start", "panicked"}
        /\ UNCHANGED <<outgoing, lost>>
    BY <1>3 DEF After
  <2>2. UNCHANGED Settled
    BY <1>1, <2>1 DEF Settled
  <2>3. Numbered' /\ Queued' /\ Left' /\ OnlySettled'
    BY <1>1, <1>3, <2>1, <2>2
       DEF RelayInv, RelayParts, Numbered, AnswersTo, Queued, Left, OnlySettled, Out
  <2> QED
    BY <1>1, <1>3, <2>1, <2>2, <2>3 DEF RelayParts, Relay!vars
<1>4. CASE res = "ok" /\ wr # <<>> /\ wr' = <<>> /\ wire' = Append(wire, Wired(wr[1]))
  <2>1. PICK i \in DOMAIN accepted :
          /\ wr = <<accepted[i]>> /\ accepted[i].fits
          /\ \A j \in DOMAIN accepted : j >= i => ~Out(accepted[j])
          /\ i <= Settled /\ accepted[i] \in lost
    BY <1>4 DEF RelayInv, RelayParts, Left
  <2>2. wire' = Append(wire, Wired(accepted[i]))
    BY <1>4, <2>1
  <2>3. /\ serve' = "start" /\ UNCHANGED <<outgoing, lost>>
    BY <1>4 DEF After
  <2>4. UNCHANGED Settled
    BY <1>1, <2>3 DEF Settled
  <2>5. Relay!SendLate(i)
    <3>1. i \in 1 .. Settled
      BY <2>1, Sizes
    <3>2. \A j \in i .. Settled : ~Relay!IsOut(j)
      <4>1. \A j \in i .. Settled : j \in DOMAIN accepted /\ j >= i
        <5>1. i \in 1 .. Len(accepted) /\ Settled <= Len(accepted)
          BY <2>1, Sizes
        <5> QED
          BY <5>1, Sizes
      <4>2. \A j : Relay!IsOut(j) <=> Out(accepted[j])
        BY DEF Relay!IsOut, Relay!Datagram, Out, Wired
      <4> QED
        BY <2>1, <4>1, <4>2
    <3> QED
      BY <1>1, <2>1, <2>2, <2>3, <2>4, <3>1, <3>2 DEF Relay!SendLate, Relay!Datagram, Wired
  <2>6. Numbered' /\ Queued'
    BY <1>1, <2>3, <2>4 DEF RelayInv, RelayParts, Numbered, AnswersTo, Queued
  <2>7. Left'
    BY <1>4, <2>3 DEF Left
  <2>8. OnlySettled'
    BY <1>1, <2>1, <2>2, <2>4, Sizes, WireGrows
  <2> QED
    BY <2>5, <2>6, <2>7, <2>8 DEF RelayParts, Relay!Next
<1> QED
  <2>1. CASE UNCHANGED sink
    BY <1>2, <1>3, <2>1 DEF sink
  <2>2. CASE Flush(res)
    BY <1>2, <1>3, <1>4, <2>2, FlushIsOneOf DEF Flushed
  <2> QED
    BY <2>1, <2>2 DEF Ready, Flush, Tokio!Ready, Embassy!Ready, Tokio!sink, Embassy!sink, sink

(* start_send: the item fills the empty buffer, or cannot be encoded.      *)
LEMMA StartSendRelays ==
  ASSUME RelayInv, serve = "start", NEW res \in {"ok", "err", "panic"}, StartSend(res),
         After(res, "flush")
  PROVE  RelayParts' /\ [Relay!Next]_(Relay!vars)
<1>1. UNCHANGED <<accepted, relay, sender, made, wire>>
  BY DEF After, StartSend, Tokio!StartSend, Embassy!StartSend
<1>2. wr = <<>>
  BY DEF RelayInv, ServerInv, Buffered, BufferMatches
<1>3. \/ res = "ok" /\ outgoing.fits /\ wr' = <<outgoing>>
      \/ res = "err" /\ wr' = <<>>
  <2>1. Append(wr, outgoing) = <<outgoing>>
    BY <1>2
  <2> QED
    BY <1>2, <2>1 DEF StartSend, Tokio!StartSend, Embassy!StartSend
<1>4. CASE res = "err"
  <2>1. serve' = "select" /\ outgoing' = None /\ lost' = lost \cup {outgoing}
    BY <1>4 DEF After
  <2> QED
    BY <1>1, <1>3, <1>4, <2>1, ErrorRelays DEF Relay!Next
<1>5. CASE res = "ok"
  <2>1. serve' = "flush" /\ UNCHANGED <<outgoing, lost>>
    BY <1>5 DEF After
  <2>2. UNCHANGED Settled
    BY <1>1, <2>1 DEF Settled
  <2>3. outgoing # None /\ outgoing = accepted[Settled + 1]
    BY ServerAssumption DEF RelayInv, RelayParts, Queued, ServerInv, Addressed
  <2>4. Settled + 1 \in DOMAIN accepted
    BY <2>3, Sizes
  <2>5. \A j \in DOMAIN accepted : j >= Settled + 1 => ~Out(accepted[j])'
    <3>1. \A j \in DOMAIN accepted : j >= Settled + 1 => ~Out(accepted[j])
      BY NotYetOut, Sizes
    <3> QED
      BY <1>1, <3>1 DEF Out
  <2>6. Left'
    <3>1. wr' = <<accepted[Settled + 1]>> /\ accepted[Settled + 1].fits
      BY <1>3, <1>5, <2>3
    <3>2. wr' # <<>>
      BY <3>1
    <3> QED
      BY <1>1, <2>1, <2>2, <2>4, <2>5, <3>1, <3>2 DEF Left
  <2>7. Numbered' /\ Queued' /\ OnlySettled'
    BY <1>1, <2>1, <2>2
       DEF RelayInv, RelayParts, Numbered, AnswersTo, Queued, OnlySettled
  <2> QED
    BY <1>1, <2>1, <2>2, <2>6, <2>7 DEF RelayParts, Relay!vars
<1> QED
  BY <1>3, <1>4, <1>5

(* poll_flush: the item is sent, or its error is returned.                 *)
LEMMA FlushRelays ==
  ASSUME RelayInv, serve = "flush", NEW res \in {"ok", "err", "panic"}, Flush(res),
         After(res, "select")
  PROVE  RelayParts' /\ [Relay!Next]_(Relay!vars)
<1>1. UNCHANGED <<accepted, relay, sender, made>>
  BY DEF After
<1>2. wr # <<>> /\ Flushed(res)
  BY FlushIsOneOf DEF RelayInv, RelayParts, Left
<1>3. CASE res = "err"
  <2>1. serve' = "select" /\ outgoing' = None /\ lost' = lost \cup {outgoing}
    BY <1>3 DEF After
  <2>2. (wr' = <<>> \/ UNCHANGED wr) /\ UNCHANGED wire
    BY <1>2, <1>3 DEF Flushed
  <2> QED
    BY <1>1, <2>1, <2>2, ErrorRelays DEF Relay!Next
<1>4. CASE res = "ok"
  <2>1. PICK i \in DOMAIN accepted :
          wr = <<accepted[i]>> /\ accepted[i].fits /\ i = Settled + 1
    BY <1>2 DEF RelayInv, RelayParts, Left
  <2>2. wr' = <<>> /\ wire' = Append(wire, Wired(accepted[i]))
    BY <1>2, <1>4, <2>1 DEF Flushed
  <2>3. serve' = "select" /\ outgoing' = None /\ UNCHANGED lost
    BY <1>4 DEF After
  <2>4. outgoing # None
    BY ServerAssumption DEF RelayInv, ServerInv, Addressed
  <2>5. Settled' = Len(accepted) - Len(relay)
    <3>1. Settled' = Len(accepted) - Len(relay) - 0
      BY <1>1, <2>3 DEF Settled
    <3> QED
      BY <3>1, Sizes
  <2>6. Settled' = Settled + 1 /\ Settled < Len(accepted)
    BY <2>4, <2>5, Sizes
  <2>7. Relay!Send
    BY <1>1, <2>1, <2>2, <2>3, <2>6 DEF Relay!Send, Relay!Settle, Relay!Datagram, Wired
  <2>8. Numbered'
    BY <1>1 DEF RelayInv, RelayParts, Numbered, AnswersTo
  <2>9. Queued'
    BY <1>1, <2>3, <2>6, Sizes DEF RelayInv, RelayParts, Queued
  <2>10. Left'
    BY <2>2, <2>3 DEF Left
  <2>11. OnlySettled'
    BY <1>1, <2>1, <2>2, <2>6, Sizes, WireGrows
  <2> QED
    BY <2>7, <2>8, <2>9, <2>10, <2>11 DEF RelayParts, Relay!Next
<1> QED
  BY <1>2, <1>3, <1>4 DEF Flushed

-----------------------------------------------------------------------------

LEMMA RelayInit == Init => RelayInv /\ Relay!Init
<1> SUFFICES ASSUME Init PROVE RelayInv /\ Relay!Init
  OBVIOUS
<1>1. /\ wr = <<>> /\ wire = <<>> /\ serve = "unbound" /\ outgoing = None
      /\ relay = <<>> /\ sender = <<>> /\ accepted = <<>> /\ lost = {}
      /\ made = [t \in Ids |-> 0]
  BY DEF Init, BindingInit, Udp!BindInit
<1>2. Settled = 0
  BY <1>1 DEF Settled
<1>3. Numbered
  <2>1. \A t : AnswersTo(t) = {}
    BY <1>1 DEF AnswersTo
  <2>2. \A t \in Ids : Cardinality(AnswersTo(t)) = made[t]
    BY <1>1, <2>1, FS_EmptySet
  <2>3. DOMAIN accepted = {}
    BY <1>1
  <2> QED
    BY <2>2, <2>3 DEF Numbered
<1>4. Queued /\ Left /\ OnlySettled
  BY <1>1, <1>2 DEF Queued, Left, OnlySettled
<1>5. Relay!Init
  BY <1>1, <1>2 DEF Relay!Init
<1> QED
  BY <1>3, <1>4, <1>5, InitHolds DEF RelayInv, RelayParts

(* Each step of the server is a step of the relay, or none.                *)
LEMMA RelayNext == RelayInv /\ [Next]_vars => RelayParts' /\ [Relay!Next]_(Relay!vars)
<1> SUFFICES ASSUME RelayInv, [Next]_vars
             PROVE  RelayParts' /\ [Relay!Next]_(Relay!vars)
  OBVIOUS
<1>1. CASE Start
  BY <1>1, StartRelays DEF Silent
<1>2. CASE \E p \in Peers, k \in Kinds : Arrive(p, k)
  <2>1. PICK p \in Peers, k \in Kinds : Arrive(p, k)
    BY <1>2
  <2> QED
    BY <2>1, ArriveRelays DEF Relay!Next
<1>3. CASE PollPending \/ Receive \/ Break
  BY <1>3, ReadRelays DEF Silent
<1>4. CASE \E t \in Ids, f \in BOOLEAN : Respond(t, f)
  <2>1. PICK t \in Ids, f \in BOOLEAN : Respond(t, f)
    BY <1>4
  <2>2. RelayParts' /\ Relay!Answer(t, f)
    BY <2>1, RespondRelays
  <2>3. t \in DOMAIN sender
    BY <2>2 DEF Relay!Answer
  <2> QED
    BY <2>2, <2>3 DEF Relay!Next
<1>5. CASE \E t \in Ids : EndTask(t)
  BY <1>5, EndTaskRelays DEF Silent
<1>6. CASE TakeRelay
  BY <1>6, TakeRelayRelays DEF Silent
<1>7. CASE SendStep
  <2>1. PICK res \in {"ok", "err", "panic"} :
          \/ serve = "ready" /\ Ready(res) /\ After(res, "start")
          \/ serve = "start" /\ StartSend(res) /\ After(res, "flush")
          \/ serve = "flush" /\ Flush(res) /\ After(res, "select")
    BY <1>7 DEF SendStep
  <2> QED
    BY <2>1, ReadyRelays, StartSendRelays, FlushRelays
<1>8. CASE UNCHANGED vars
  <2>1. UNCHANGED <<accepted, relay, outgoing, wr, wire, lost, made, serve, sender>>
    BY <1>8 DEF vars, sink
  <2> QED
    BY <2>1, QuietKeeps DEF Relay!vars
<1> QED
  BY <1>1, <1>2, <1>3, <1>4, <1>5, <1>6, <1>7, <1>8 DEF Next

(* The numbers, the channel, the buffer and the wire agree throughout.     *)
THEOREM RelayInvariance == Spec => []RelayInv
<1>1. RelayInv /\ [Next]_vars => RelayInv'
  BY RelayNext, NextKeeps DEF RelayInv
<1> QED
  BY RelayInit, <1>1, PTL DEF Spec

(* Loop, channel, tasks and either binding implement ResponseRelay: the    *)
(* responses are settled in the order of the handlers, each sent whole to  *)
(* the peer that asked or reported, and a reported one that is left in the *)
(* buffer goes out before any that follows it or not at all.               *)
THEOREM ImplementsRelay == Spec => RelaySpec
<1> QED
  BY RelayInit, RelayNext, RelayInvariance, PTL DEF Spec, RelaySpec, Relay!Spec

-----------------------------------------------------------------------------
(* The order of the responses, and where each of them is.                  *)

(* The responses to a request have the numbers from 1 on, in this order.   *)
NumbersAscend ==
  /\ \A i, j \in DOMAIN accepted :
       i < j /\ accepted[i].req = accepted[j].req => accepted[i].num < accepted[j].num
  /\ \A t \in Ids : \A n \in 1 .. made[t] :
       \E i \in DOMAIN accepted : accepted[i].req = t /\ accepted[i].num = n

(* They are sent in the order in which they were accepted.                 *)
WireAscends ==
  \A c, d \in DOMAIN wire : c < d =>
    \A i, j \in DOMAIN accepted :
      wire[c] = Wired(accepted[i]) /\ wire[d] = Wired(accepted[j]) => i < j

(* One that had its turn was sent or reported.                             *)
SettledIsKnown ==
  \A i \in 1 .. Settled : Out(accepted[i]) \/ accepted[i] \in lost

OrderParts == NumbersAscend /\ WireAscends /\ SettledIsKnown

LEMMA RespondNumbers ==
  ASSUME RelayInv, NumbersAscend, NEW t \in Ids, NEW f \in BOOLEAN, Respond(t, f)
  PROVE  NumbersAscend'
<1> DEFINE x == Response(t, f)
           n == Len(accepted) + 1
<1>1. /\ accepted' = Append(accepted, x) /\ made' = [made EXCEPT ![t] = @ + 1]
      /\ x.req = t /\ x.num = made[t] + 1
  BY DEF Respond, Response
<1>2. accepted' \in Seq(Items)
  BY NextKeeps DEF RelayInv, Next, ServerInv, TypeOK
<1>3. made \in [Ids -> Nat] /\ made' \in [Ids -> Nat]
  BY <1>1, ServerAssumption DEF RelayInv, ServerInv, TypeOK
<1> HIDE DEF x
<1>4. /\ DOMAIN accepted = 1 .. n - 1 /\ DOMAIN accepted' = 1 .. n /\ n \in Nat \ {0}
      /\ accepted'[n] = x /\ \A i \in DOMAIN accepted : accepted'[i] = accepted[i]
  BY <1>1, <1>2, Sizes
<1>5. ASSUME NEW i \in DOMAIN accepted
      PROVE  /\ accepted[i].req = t => accepted[i].num <= made[t]
             /\ accepted[i].num \in Nat
  <2>1. accepted[i] \in Items
    BY Sizes
  <2>2. accepted[i].num <= made[accepted[i].req]
    BY DEF RelayInv, RelayParts, Numbered
  <2>3. accepted[i].num \in Nat
    BY <2>1, ServerAssumption DEF Items
  <2> QED
    BY <2>2, <2>3
<1>6. ASSUME NEW i \in DOMAIN accepted', NEW j \in DOMAIN accepted', i < j,
             accepted'[i].req = accepted'[j].req
      PROVE  accepted'[i].num < accepted'[j].num
  <2>1. i \in DOMAIN accepted /\ accepted'[i] = accepted[i]
    BY <1>4, <1>6
  <2>2. CASE j = n
    BY <1>1, <1>3, <1>4, <1>5, <1>6, <2>1, <2>2
  <2>3. CASE j # n
    <3>1. j \in DOMAIN accepted /\ accepted'[j] = accepted[j]
      BY <1>4, <2>3
    <3> QED
      BY <1>6, <2>1, <3>1 DEF NumbersAscend
  <2> QED
    BY <2>2, <2>3
<1>7. ASSUME NEW u \in Ids, NEW m \in 1 .. made'[u]
      PROVE  \E i \in DOMAIN accepted' : accepted'[i].req = u /\ accepted'[i].num = m
  <2>1. CASE u = t /\ m = made[t] + 1
    BY <1>1, <1>4, <2>1
  <2>2. CASE ~(u = t /\ m = made[t] + 1)
    <3>1. m \in 1 .. made[u]
      BY <1>1, <1>3, <2>2
    <3>2. PICK i \in DOMAIN accepted : accepted[i].req = u /\ accepted[i].num = m
      BY <3>1 DEF NumbersAscend
    <3> QED
      BY <1>4, <3>2
  <2> QED
    BY <2>1, <2>2
<1> QED
  BY <1>6, <1>7 DEF NumbersAscend

(* Only Respond numbers.                                                   *)
LEMMA NextNumbers == RelayInv /\ NumbersAscend /\ [Next]_vars => NumbersAscend'
<1> SUFFICES ASSUME RelayInv, NumbersAscend, [Next]_vars PROVE NumbersAscend'
  OBVIOUS
<1>1. UNCHANGED <<accepted, made>> => NumbersAscend'
  BY DEF NumbersAscend
<1>2. CASE \E t \in Ids, f \in BOOLEAN : Respond(t, f)
  BY <1>2, RespondNumbers
<1>3. CASE ~ \E t \in Ids, f \in BOOLEAN : Respond(t, f)
  <2>1. UNCHANGED <<accepted, made>>
    BY <1>3 DEF Next, vars, Start, Arrive, PollPending, Receive, Break, HandleRxEvent,
                EndTask, TakeRelay, SendStep, After
  <2> QED
    BY <1>1, <2>1
<1> QED
  BY <1>2, <1>3

(* A datagram has one place among the responses.                           *)
LEMMA PlaceIsUnique ==
  ASSUME RelayInv, NEW i \in DOMAIN accepted, NEW j \in DOMAIN accepted,
         Wired(accepted[i]) = Wired(accepted[j])
  PROVE  i = j
BY WiredDiffer DEF RelayInv, RelayParts, Numbered

(* What goes out comes after all that is out.                              *)
LEMMA SendAscends ==
  ASSUME RelayInv, WireAscends, NEW k \in DOMAIN accepted,
         wire' = Append(wire, Wired(accepted[k])), UNCHANGED accepted,
         \A j \in DOMAIN accepted : j >= k => ~Out(accepted[j])
  PROVE  WireAscends'
<1>1. wire \in Seq([frames : Seq(Items), to : Peers])
  BY DEF RelayInv, ServerInv, TypeOK
<1> DEFINE n == Len(wire) + 1
<1>2. /\ DOMAIN wire = 1 .. n - 1 /\ DOMAIN wire' = 1 .. n /\ n \in Nat \ {0}
      /\ wire'[n] = Wired(accepted[k]) /\ \A d \in DOMAIN wire : wire'[d] = wire[d]
  BY <1>1
<1> SUFFICES ASSUME NEW c \in DOMAIN wire', NEW d \in DOMAIN wire', c < d,
                    NEW i \in DOMAIN accepted, NEW j \in DOMAIN accepted,
                    wire'[c] = Wired(accepted[i]), wire'[d] = Wired(accepted[j])
             PROVE  i < j
  BY DEF WireAscends, Wired
<1>3. c \in DOMAIN wire /\ wire[c] = Wired(accepted[i])
  BY <1>2
<1>4. CASE d = n
  <2>1. j = k
    BY <1>2, <1>4, PlaceIsUnique
  <2>2. Out(accepted[i])
    BY <1>3 DEF Out
  <2>3. i \in Nat /\ k \in Nat
    BY Sizes
  <2> QED
    BY <2>1, <2>2, <2>3
<1>5. CASE d # n
  BY <1>2, <1>3, <1>5 DEF WireAscends
<1> QED
  BY <1>4, <1>5

(* The steps of the relay keep the order and lose nothing.                 *)
LEMMA NextOrder ==
  RelayInv /\ RelayInv' /\ OrderParts /\ [Relay!Next]_(Relay!vars)
    => WireAscends' /\ SettledIsKnown'
<1> SUFFICES ASSUME RelayInv, RelayInv', WireAscends, SettledIsKnown,
                    [Relay!Next]_(Relay!vars)
             PROVE  WireAscends' /\ SettledIsKnown'
  BY DEF OrderParts
<1>1. Settled \in Nat /\ DOMAIN accepted = 1 .. Len(accepted) /\ Len(accepted) \in Nat
  BY Sizes
<1>2. \A i \in 1 .. Settled : i \in DOMAIN accepted
  BY Sizes DEF RelayInv, RelayParts, Queued
<1>3. UNCHANGED <<accepted, wire>> => WireAscends'
  BY DEF WireAscends
<1>4. \A x : Relay!Datagram(x) = Wired(x)
  BY DEF Relay!Datagram, Wired
<1>5. ASSUME NEW p, Relay!Ask(p) PROVE WireAscends' /\ SettledIsKnown'
  BY <1>3, <1>5 DEF Relay!Ask, SettledIsKnown, Out
<1>6. ASSUME NEW q, NEW f, Relay!Answer(q, f) PROVE WireAscends' /\ SettledIsKnown'
  <2>1. UNCHANGED <<Settled, lost, wire>>
    BY <1>6 DEF Relay!Answer
  <2>2. \A i \in DOMAIN accepted : accepted'[i] = accepted[i]
    <3>1. accepted \in Seq(Items) /\ \E x : accepted' = Append(accepted, x)
      BY <1>6, Sizes DEF Relay!Answer
    <3> QED
      BY <3>1
  <2>3. SettledIsKnown'
    BY <1>2, <2>1, <2>2 DEF SettledIsKnown, Out
  <2>4. WireAscends'
    <3> SUFFICES ASSUME NEW c \in DOMAIN wire, NEW d \in DOMAIN wire, c < d,
                        NEW i \in DOMAIN accepted', NEW j \in DOMAIN accepted',
                        wire[c] = Wired(accepted'[i]), wire[d] = Wired(accepted'[j])
                 PROVE  i < j
      BY <2>1 DEF WireAscends, Wired
    <3>1. PICK k \in 1 .. Settled : wire[c] = Wired(accepted[k])
      BY DEF RelayInv, RelayParts, OnlySettled
    <3>2. PICK l \in 1 .. Settled : wire[d] = Wired(accepted[l])
      BY DEF RelayInv, RelayParts, OnlySettled
    <3>3. k < l
      BY <1>2, <3>1, <3>2 DEF WireAscends
    <3>4. \A m \in 1 .. Settled : m \in DOMAIN accepted' /\ accepted'[m] = accepted[m]
      <4>1. DOMAIN accepted' = 1 .. Len(accepted) + 1
        <5>1. accepted \in Seq(Items) /\ \E x : accepted' = Append(accepted, x)
          BY <1>6, Sizes DEF Relay!Answer
        <5> QED
          BY <5>1
      <4> QED
        BY <1>1, <1>2, <2>2, <4>1
    <3>5. accepted'[i] = accepted'[k] /\ accepted'[j] = accepted'[l]
      BY <3>1, <3>2, <3>4, WiredDiffer
    <3>6. i = k /\ j = l
      BY <3>4, <3>5 DEF RelayInv, RelayParts, Numbered
    <3> QED
      BY <3>3, <3>6
  <2> QED
    BY <2>3, <2>4
<1>7. ASSUME Relay!Send PROVE WireAscends' /\ SettledIsKnown'
  <2> PICK k \in Nat : k = Settled + 1
    BY <1>1
  <2>1. /\ k \in DOMAIN accepted /\ Settled' = k /\ UNCHANGED <<accepted, lost>>
        /\ wire' = Append(wire, Wired(accepted[k]))
    BY <1>1, <1>4, <1>7 DEF Relay!Send, Relay!Settle
  <2>2. \A j \in DOMAIN accepted : j >= k => ~Out(accepted[j])
    BY <1>1, NotYetOut
  <2>3. WireAscends'
    BY <2>1, <2>2, SendAscends
  <2>4. /\ Len(wire) + 1 \in DOMAIN wire' /\ wire'[Len(wire) + 1] = Wired(accepted[k])
        /\ \A d \in DOMAIN wire : d \in DOMAIN wire' /\ wire'[d] = wire[d]
    <3>1. wire \in Seq([frames : Seq(Items), to : Peers])
      BY DEF RelayInv, ServerInv, TypeOK
    <3> QED
      BY <2>1, <3>1
  <2>5. \A x : Out(x) => Out(x)'
    BY <2>4 DEF Out, Wired
  <2>6. Out(accepted[k])'
    BY <2>1, <2>4 DEF Out, Wired
  <2>7. ASSUME NEW i \in 1 .. k PROVE Out(accepted[i])' \/ accepted[i] \in lost
    <3>1. CASE i = k
      BY <2>6, <3>1
    <3>2. CASE i # k
      <4>1. i \in 1 .. Settled
        BY <1>1, <3>2
      <4>2. Out(accepted[i]) \/ accepted[i] \in lost
        BY <4>1 DEF SettledIsKnown
      <4>3. Out(accepted[i]) => Out(accepted[i])'
        BY <2>1, <2>4 DEF Out, Wired
      <4> QED
        BY <4>2, <4>3
    <3> QED
      BY <3>1, <3>2
  <2>8. SettledIsKnown'
    BY <2>1, <2>7 DEF SettledIsKnown, Out, Wired
  <2> QED
    BY <2>3, <2>8
<1>8. ASSUME Relay!Report PROVE WireAscends' /\ SettledIsKnown'
  <2> DEFINE k == Settled + 1
  <2>1. /\ Settled' = k /\ UNCHANGED <<accepted, wire>> /\ lost' = lost \cup {accepted[k]}
    BY <1>8 DEF Relay!Report, Relay!Settle
  <2>2. \A i \in 1 .. k : i \in 1 .. Settled \/ i = k
    BY <1>1
  <2>3. \A i \in 1 .. k : Out(accepted[i]) \/ accepted[i] \in lost'
    BY <2>1, <2>2 DEF SettledIsKnown
  <2>4. SettledIsKnown'
    BY <2>1, <2>3 DEF SettledIsKnown, Out
  <2> QED
    BY <1>3, <2>1, <2>4
<1>9. ASSUME NEW k \in DOMAIN accepted, Relay!SendLate(k) PROVE WireAscends' /\ SettledIsKnown'
  <2>1. /\ k \in 1 .. Settled /\ UNCHANGED <<accepted, lost, Settled>>
        /\ wire' = Append(wire, Wired(accepted[k]))
        /\ \A j \in k .. Settled : ~Out(accepted[j])
    BY <1>4, <1>9 DEF Relay!SendLate, Relay!IsOut, Out
  <2>2. \A j \in DOMAIN accepted : j >= k => ~Out(accepted[j])
    <3>1. \A j \in DOMAIN accepted : j >= k => j \in k .. Settled \/ j > Settled
      BY <1>1, <2>1
    <3> QED
      BY <2>1, <3>1, NotYetOut
  <2>3. WireAscends'
    BY <2>1, <2>2, SendAscends
  <2>4. \A x : Out(x) => Out(x)'
    <3>1. wire \in Seq([frames : Seq(Items), to : Peers])
      BY DEF RelayInv, ServerInv, TypeOK
    <3>2. \A d \in DOMAIN wire : d \in DOMAIN wire' /\ wire'[d] = wire[d]
      BY <2>1, <3>1
    <3> QED
      BY <3>2 DEF Out, Wired
  <2>5. SettledIsKnown'
    BY <2>1, <2>4 DEF SettledIsKnown
  <2> QED
    BY <2>3, <2>5
<1>10. CASE UNCHANGED Relay!vars
  BY <1>3, <1>10 DEF Relay!vars, SettledIsKnown, Out
<1> QED
  BY <1>5, <1>6, <1>7, <1>8, <1>9, <1>10 DEF Relay!Next

(* The numbers, the wire and what had its turn agree in every reachable    *)
(* state of the server, with the invariant of the refinement.              *)
THEOREM OrderInvariance == Spec => [](RelayInv /\ OrderParts)
<1>1. Init => OrderParts
  <2> SUFFICES ASSUME Init PROVE OrderParts
    OBVIOUS
  <2>1. accepted = <<>> /\ wire = <<>> /\ relay = <<>> /\ outgoing = None
        /\ made = [t \in Ids |-> 0]
    BY DEF Init, BindingInit
  <2>2. Settled = 0
    BY <2>1 DEF Settled
  <2> QED
    BY <2>1, <2>2 DEF OrderParts, NumbersAscend, WireAscends, SettledIsKnown
<1>2. RelayInv /\ OrderParts /\ [Next]_vars => RelayInv' /\ OrderParts'
  <2> SUFFICES ASSUME RelayInv, OrderParts, [Next]_vars PROVE RelayInv' /\ OrderParts'
    OBVIOUS
  <2>1. RelayInv' /\ [Relay!Next]_(Relay!vars)
    BY RelayNext, NextKeeps DEF RelayInv
  <2> QED
    BY <2>1, NextNumbers, NextOrder DEF OrderParts
<1> QED
  BY RelayInit, <1>1, <1>2, PTL DEF Spec

-----------------------------------------------------------------------------
(* The pipeline is a part of the responses, in their order.                *)

Within(s, lo, hi) ==
  \E f \in [1 .. Len(s) -> lo + 1 .. hi] :
    /\ \A i, j \in 1 .. Len(s) : i < j => f[i] < f[j]
    /\ \A i \in 1 .. Len(s) : s[i] = accepted[f[i]]

Occurs(x, s) == \E k \in 1 .. Len(s) : s[k] = x

(* The item that waits for the buffer, if there is one.                    *)
Waiting == IF serve # "flush" /\ outgoing # None THEN <<outgoing>> ELSE <<>>

LEMMA Joining ==
  ASSUME NEW s \in Seq(Items), NEW u \in Seq(Items)
  PROVE  /\ s \o u \in Seq(Items) /\ Len(s \o u) = Len(s) + Len(u)
         /\ \A i \in 1 .. Len(s) : (s \o u)[i] = s[i]
         /\ \A i \in 1 .. Len(u) : (s \o u)[Len(s) + i] = u[i]
         /\ \A i \in 1 .. Len(s) + Len(u) : i > Len(s) => (s \o u)[i] = u[i - Len(s)]
OBVIOUS

LEMMA OccursInEither ==
  ASSUME NEW s \in Seq(Items), NEW u \in Seq(Items), NEW x
  PROVE  Occurs(x, s) \/ Occurs(x, u) => Occurs(x, s \o u)
<1>1. Len(s) \in Nat /\ Len(u) \in Nat
  OBVIOUS
<1>2. ASSUME NEW k \in 1 .. Len(s), s[k] = x PROVE Occurs(x, s \o u)
  BY <1>1, <1>2, Joining DEF Occurs
<1>3. ASSUME NEW k \in 1 .. Len(u), u[k] = x PROVE Occurs(x, s \o u)
  <2>1. Len(s) + k \in 1 .. Len(s \o u) /\ (s \o u)[Len(s) + k] = x
    BY <1>1, <1>3, Joining
  <2> QED
    BY <2>1 DEF Occurs
<1> QED
  BY <1>2, <1>3 DEF Occurs

(* Parts that follow one another make a part.                              *)
LEMMA WithinBoth ==
  ASSUME NEW s \in Seq(Items), NEW u \in Seq(Items),
         NEW lo \in Nat, NEW mid \in Nat, NEW hi \in Nat, lo <= mid, mid <= hi,
         Within(s, lo, mid), Within(u, mid, hi)
  PROVE  Within(s \o u, lo, hi)
<1> DEFINE m == Len(s)
           n == Len(s) + Len(u)
<1>1. m \in Nat /\ Len(u) \in Nat /\ Len(s \o u) = n
  BY Joining
<1>2. PICK f \in [1 .. m -> lo + 1 .. mid] :
        /\ \A i, j \in 1 .. m : i < j => f[i] < f[j]
        /\ \A i \in 1 .. m : s[i] = accepted[f[i]]
  BY DEF Within
<1>3. PICK g \in [1 .. Len(u) -> mid + 1 .. hi] :
        /\ \A i, j \in 1 .. Len(u) : i < j => g[i] < g[j]
        /\ \A i \in 1 .. Len(u) : u[i] = accepted[g[i]]
  BY DEF Within
<1> DEFINE h == [i \in 1 .. n |-> IF i <= m THEN f[i] ELSE g[i - m]]
<1>4. ASSUME NEW i \in 1 .. n, i <= m
      PROVE  i \in 1 .. m /\ h[i] = f[i] /\ f[i] \in lo + 1 .. mid
  <2>1. i \in 1 .. m
    BY <1>1, <1>4
  <2>2. h[i] = f[i]
    BY <1>4
  <2> QED
    BY <1>2, <2>1, <2>2
<1>5. ASSUME NEW i \in 1 .. n, i > m
      PROVE  i - m \in 1 .. Len(u) /\ h[i] = g[i - m] /\ g[i - m] \in mid + 1 .. hi
  <2>1. i - m \in 1 .. Len(u) /\ ~ (i <= m)
    BY <1>1, <1>5
  <2>2. h[i] = g[i - m]
    BY <2>1
  <2> QED
    BY <1>3, <2>1, <2>2
<1>6. \A i \in 1 .. n : i <= m \/ i > m
  BY <1>1
<1>7. h \in [1 .. n -> lo + 1 .. hi]
  <2>1. \A i \in 1 .. n : h[i] \in lo + 1 .. hi
    <3> HIDE DEF h
    <3> QED
      BY <1>4, <1>5, <1>6
  <2> QED
    BY <2>1
<1> HIDE DEF h
<1>8. ASSUME NEW i \in 1 .. n, NEW j \in 1 .. n, i < j PROVE h[i] < h[j]
  <2>1. CASE j <= m
    <3>1. i <= m
      BY <1>1, <1>8, <2>1
    <3>2. i \in 1 .. m /\ h[i] = f[i]
      BY <1>4, <3>1
    <3>3. j \in 1 .. m /\ h[j] = f[j]
      BY <1>4, <2>1
    <3> QED
      BY <1>2, <1>8, <3>2, <3>3
  <2>2. CASE i > m
    <3>1. j > m
      BY <1>1, <1>8, <2>2
    <3>2. i - m \in 1 .. Len(u) /\ h[i] = g[i - m]
      BY <1>5, <2>2
    <3>3. j - m \in 1 .. Len(u) /\ h[j] = g[j - m]
      BY <1>5, <3>1
    <3>4. i - m < j - m
      BY <1>1, <1>8
    <3>5. g[i - m] < g[j - m]
      BY <1>3, <3>2, <3>3, <3>4
    <3> QED
      BY <3>2, <3>3, <3>5
  <2>3. CASE i <= m /\ j > m
    <3>1. h[i] \in lo + 1 .. mid
      BY <1>4, <2>3
    <3>2. h[j] \in mid + 1 .. hi
      BY <1>5, <2>3
    <3> QED
      BY <3>1, <3>2
  <2> QED
    BY <1>6, <2>1, <2>2, <2>3
<1>9. ASSUME NEW i \in 1 .. n PROVE (s \o u)[i] = accepted[h[i]]
  <2>1. CASE i <= m
    <3>1. i \in 1 .. m /\ h[i] = f[i]
      BY <1>4, <2>1
    <3>2. (s \o u)[i] = s[i]
      BY <3>1, Joining
    <3> QED
      BY <1>2, <3>1, <3>2
  <2>2. CASE i > m
    <3>1. i - m \in 1 .. Len(u) /\ h[i] = g[i - m]
      BY <1>5, <2>2
    <3>2. (s \o u)[i] = u[i - m]
      BY <2>2, Joining
    <3> QED
      BY <1>3, <3>1, <3>2
  <2> QED
    BY <1>6, <2>1, <2>2
<1> HIDE DEF n
<1> QED
  BY <1>1, <1>7, <1>8, <1>9 DEF Within

LEMMA WithinNone ==
  ASSUME NEW lo \in Nat, NEW hi \in Nat
  PROVE  Within(<<>>, lo, hi)
<1> DEFINE f == [i \in 1 .. 0 |-> i]
<1>1. 1 .. Len(<<>>) = {} /\ 1 .. 0 = {}
  OBVIOUS
<1>2. f \in [1 .. Len(<<>>) -> lo + 1 .. hi]
  BY <1>1
<1> QED
  BY <1>1, <1>2 DEF Within

LEMMA WithinOne ==
  ASSUME NEW lo \in Nat, NEW hi \in Nat, NEW i \in lo + 1 .. hi
  PROVE  Within(<<accepted[i]>>, lo, hi)
<1> DEFINE f == [k \in 1 .. 1 |-> i]
<1>1. Len(<<accepted[i]>>) = 1 /\ <<accepted[i]>>[1] = accepted[i]
  OBVIOUS
<1>2. f \in [1 .. 1 -> lo + 1 .. hi] /\ \A k \in 1 .. 1 : k = 1 /\ f[k] = i
  OBVIOUS
<1> HIDE DEF f
<1> QED
  BY <1>1, <1>2 DEF Within

(* What was sent, up to the last that can have been.                       *)
LEMMA SentIsWithin ==
  ASSUME RelayInv, WireAscends, NEW a \in Nat, a <= Len(accepted),
         \A j \in DOMAIN accepted : j > a => ~Out(accepted[j])
  PROVE  Sent \in Seq(Items) /\ Within(Sent, 0, a)
<1>1. /\ wire \in Seq([frames : Seq(Items), to : Peers])
      /\ DOMAIN wire = 1 .. Len(wire) /\ Len(wire) \in Nat
  BY DEF RelayInv, ServerInv, TypeOK
<1> DEFINE At(d, j) == j \in 1 .. a /\ wire[d] = Wired(accepted[j])
<1>2. \A d \in 1 .. Len(wire) : \E j : At(d, j)
  <2> SUFFICES ASSUME NEW d \in 1 .. Len(wire) PROVE \E j : At(d, j)
    OBVIOUS
  <2>1. PICK j \in 1 .. Settled : wire[d] = Wired(accepted[j])
    BY <1>1 DEF RelayInv, RelayParts, OnlySettled
  <2>2. j \in DOMAIN accepted /\ j \in Nat
    BY <2>1, Sizes
  <2>3. Out(accepted[j])
    BY <1>1, <2>1 DEF Out
  <2>4. j \in 1 .. a
    BY <2>1, <2>2, <2>3
  <2> QED
    BY <2>1, <2>4
<1> DEFINE f == [d \in 1 .. Len(wire) |-> CHOOSE j : At(d, j)]
<1>3. \A d \in 1 .. Len(wire) : At(d, f[d])
  <2> HIDE DEF At
  <2> QED
    BY <1>2, Zenon
<1>4. f \in [1 .. Len(wire) -> 0 + 1 .. a]
  <2>1. \A d \in 1 .. Len(wire) : f[d] \in 0 + 1 .. a
    <3> HIDE DEF f
    <3> QED
      BY <1>3
  <2> QED
    BY <2>1
<1> HIDE DEF f
<1>5. \A d \in 1 .. Len(wire) : f[d] \in DOMAIN accepted /\ accepted[f[d]] \in Items
  <2> SUFFICES ASSUME NEW d \in 1 .. Len(wire)
               PROVE  f[d] \in DOMAIN accepted /\ accepted[f[d]] \in Items
    OBVIOUS
  <2>1. f[d] \in 1 .. a
    BY <1>3
  <2>2. f[d] \in DOMAIN accepted
    BY <2>1, Sizes
  <2> QED
    BY <2>2, Sizes
<1>6. ASSUME NEW d \in 1 .. Len(wire) PROVE Sent[d] = accepted[f[d]] /\ Sent[d] \in Items
  <2>1. wire[d] = Wired(accepted[f[d]])
    BY <1>3
  <2>2. wire[d].frames = <<accepted[f[d]]>>
    BY <2>1 DEF Wired
  <2>3. wire[d].frames[1] = accepted[f[d]]
    BY <2>2
  <2> QED
    BY <1>5, <2>3 DEF Sent
<1>7. Sent \in [1 .. Len(wire) -> Items]
  BY <1>6 DEF Sent
<1>8. Sent \in Seq(Items) /\ Len(Sent) = Len(wire)
  <2>1. PICK n \in Nat : n = Len(wire)
    BY <1>1
  <2>2. Sent \in [1 .. n -> Items]
    BY <1>7, <2>1
  <2>3. Sent \in Seq(Items)
    BY <2>2, SeqDef
  <2>4. DOMAIN Sent = 1 .. n
    BY <2>2
  <2> QED
    BY <2>1, <2>3, <2>4, LenProperties
<1>9. ASSUME NEW c \in 1 .. Len(wire), NEW d \in 1 .. Len(wire), c < d
      PROVE  f[c] < f[d]
  <2>1. wire[c] = Wired(accepted[f[c]]) /\ wire[d] = Wired(accepted[f[d]])
    BY <1>3
  <2>2. c \in DOMAIN wire /\ d \in DOMAIN wire
    BY <1>1
  <2>3. f[c] \in DOMAIN accepted /\ f[d] \in DOMAIN accepted
    BY <1>5
  <2> QED
    BY <1>9, <2>1, <2>2, <2>3 DEF WireAscends
<1> QED
  BY <1>4, <1>6, <1>8, <1>9 DEF Within

(* What is left in the buffer comes after what was sent.                   *)
LEMMA BufferIsWithin ==
  ASSUME RelayInv, WireAscends, NEW b \in Nat,
         b = IF serve = "flush" THEN Settled + 1 ELSE Settled
  PROVE  Sent \o wr \in Seq(Items) /\ Within(Sent \o wr, 0, b)
<1>1. wr \in Seq(Items)
  BY DEF RelayInv, ServerInv, TypeOK
<1>2. CASE wr = <<>>
  <2>1. serve # "flush" /\ b = Settled
    BY <1>2 DEF RelayInv, RelayParts, Left
  <2>2. Settled <= Len(accepted) /\ Settled \in Nat
    BY Sizes
  <2>3. Sent \in Seq(Items) /\ Within(Sent, 0, b)
    BY <2>1, <2>2, NotYetOut, SentIsWithin
  <2>4. Within(wr, b, b)
    BY <1>2, WithinNone
  <2> QED
    BY <1>1, <2>3, <2>4, WithinBoth, Joining
<1>3. CASE wr # <<>>
  <2>1. PICK i \in DOMAIN accepted :
          /\ wr = <<accepted[i]>>
          /\ \A j \in DOMAIN accepted : j >= i => ~Out(accepted[j])
          /\ serve = "flush" => i = Settled + 1
          /\ serve # "flush" => i <= Settled
    BY <1>3 DEF RelayInv, RelayParts, Left
  <2>2. PICK a \in Nat : i = a + 1
    BY Sizes
  <2>3. a + 1 <= b /\ a <= Len(accepted) /\ i \in a + 1 .. b
    BY <2>1, <2>2, Sizes
  <2>4. Sent \in Seq(Items) /\ Within(Sent, 0, a)
    <3>1. \A j \in DOMAIN accepted : j > a => ~Out(accepted[j])
      BY <2>1, <2>2, Sizes
    <3> QED
      BY <2>3, <3>1, SentIsWithin
  <2>5. Within(wr, a, b)
    BY <2>1, <2>3, WithinOne
  <2> QED
    BY <1>1, <2>3, <2>4, <2>5, WithinBoth, Joining
<1> QED
  BY <1>2, <1>3

LEMMA RelayIsWithin ==
  ASSUME RelayInv, NEW c \in Nat, c = Len(accepted) - Len(relay)
  PROVE  Within(relay, c, Len(accepted))
<1> DEFINE f == [i \in 1 .. Len(relay) |-> c + i]
<1>1. Len(relay) \in Nat /\ Len(accepted) \in Nat /\ DOMAIN relay = 1 .. Len(relay)
  BY Sizes
<1>2. f \in [1 .. Len(relay) -> c + 1 .. Len(accepted)]
  BY <1>1
<1>3. \A i \in 1 .. Len(relay) : f[i] = c + i
  OBVIOUS
<1>4. \A i \in 1 .. Len(relay) : relay[i] = accepted[c + i]
  BY <1>1 DEF RelayInv, RelayParts, Queued
<1> HIDE DEF f
<1>5. \A i, j \in 1 .. Len(relay) : i < j => f[i] < f[j]
  BY <1>1, <1>3
<1>6. \A i \in 1 .. Len(relay) : relay[i] = accepted[f[i]]
  BY <1>3, <1>4
<1> QED
  BY <1>2, <1>5, <1>6 DEF Within

LEMMA PipelineIsWithin ==
  ASSUME RelayInv, WireAscends
  PROVE  Pipeline \in Seq(Items) /\ Within(Pipeline, 0, Len(accepted))
<1>1. PICK b \in Nat : b = IF serve = "flush" THEN Settled + 1 ELSE Settled
  BY Sizes
<1>2. PICK c \in Nat : c = Len(accepted) - Len(relay)
  <2>1. CASE outgoing = None
    BY <2>1, Sizes
  <2>2. CASE outgoing # None
    <3>1. Settled + 1 \in Nat /\ Settled + 1 = Len(accepted) - Len(relay)
      BY <2>2, Sizes
    <3> QED
      BY <3>1
  <2> QED
    BY <2>1, <2>2
<1>3. /\ serve = "flush" => outgoing # None
      /\ outgoing # None => outgoing \in Items
  BY ServerAssumption DEF RelayInv, ServerInv, Addressed, TypeOK
<1>4. b <= c /\ c <= Len(accepted) /\ Len(accepted) \in Nat
  BY <1>1, <1>2, <1>3, Sizes
<1>5. Waiting \in Seq(Items) /\ Within(Waiting, b, c)
  <2>1. CASE serve # "flush" /\ outgoing # None
    <3>1. outgoing = accepted[c] /\ c \in b + 1 .. c
      BY <1>1, <1>2, <1>3, <2>1, Sizes DEF RelayInv, RelayParts, Queued
    <3>2. Waiting = <<accepted[c]>> /\ accepted[c] \in Items
      BY <1>3, <2>1, <3>1 DEF Waiting
    <3> QED
      BY <3>1, <3>2, WithinOne
  <2>2. CASE ~(serve # "flush" /\ outgoing # None)
    <3>1. b <= c /\ Waiting = <<>> /\ <<>> \in Seq(Items)
      BY <1>4, <2>2 DEF Waiting
    <3> QED
      BY <3>1, WithinNone
  <2> QED
    BY <2>1, <2>2
<1>6. Sent \o wr \in Seq(Items) /\ Within(Sent \o wr, 0, b)
  BY <1>1, BufferIsWithin
<1>7. (Sent \o wr) \o Waiting \in Seq(Items) /\ Within((Sent \o wr) \o Waiting, 0, c)
  <2>1. (Sent \o wr) \o Waiting \in Seq(Items)
    BY <1>5, <1>6, Joining
  <2>2. Within((Sent \o wr) \o Waiting, 0, c)
    BY <1>1, <1>2, <1>4, <1>5, <1>6, WithinBoth, 0 \in Nat, 0 <= b
  <2> QED
    BY <2>1, <2>2
<1>8. relay \in Seq(Items) /\ Within(relay, c, Len(accepted))
  BY <1>2, RelayIsWithin, Sizes
<1>9. Pipeline = ((Sent \o wr) \o Waiting) \o relay
  BY DEF Pipeline, Waiting
<1>10. Pipeline \in Seq(Items)
  BY <1>7, <1>8, <1>9, Joining
<1>11. Within(Pipeline, 0, Len(accepted))
  BY <1>2, <1>4, <1>7, <1>8, <1>9, WithinBoth, 0 \in Nat, 0 <= c
<1> QED
  BY <1>10, <1>11

(* The responses to one request go out in the order in which its handler   *)
(* made them and each at most once, with either binding: also when sends   *)
(* fail, and one that was reported is still in the buffer.                 *)
THEOREM ResponsesKeepTheirOrder == Spec => []RepliesAreInOrder
<1>1. RelayInv /\ OrderParts => RepliesAreInOrder
  <2> SUFFICES ASSUME RelayInv, NumbersAscend, WireAscends,
                      NEW i \in 1 .. Len(Pipeline), NEW j \in 1 .. Len(Pipeline),
                      i < j, Pipeline[i].req = Pipeline[j].req
               PROVE  Pipeline[i].num < Pipeline[j].num
    BY DEF OrderParts, RepliesAreInOrder
  <2>1. PICK f \in [1 .. Len(Pipeline) -> 0 + 1 .. Len(accepted)] :
          /\ \A k, l \in 1 .. Len(Pipeline) : k < l => f[k] < f[l]
          /\ \A k \in 1 .. Len(Pipeline) : Pipeline[k] = accepted[f[k]]
    BY PipelineIsWithin DEF Within
  <2>2. f[i] \in DOMAIN accepted /\ f[j] \in DOMAIN accepted /\ f[i] < f[j]
    BY <2>1, Sizes
  <2>3. Pipeline[i] = accepted[f[i]] /\ Pipeline[j] = accepted[f[j]]
    BY <2>1
  <2> QED
    BY <2>2, <2>3 DEF NumbersAscend
<1> QED
  BY <1>1, OrderInvariance, PTL

(* Each response that a task handed over is in the channel, in the send in *)
(* progress, on the wire, or its send returned an error, also when the     *)
(* loop has ended.                                                         *)
THEOREM ResponsesAreAccountedFor == Spec => []NothingVanishes
<1>1. RelayInv /\ OrderParts => NothingVanishes
  <2> SUFFICES ASSUME RelayInv, OrderParts, NEW t \in Ids,
                      NEW n \in 1 .. MaxResponses, n <= made[t]
               PROVE  \/ \E k \in 1 .. Len(Pipeline) : Pipeline[k].req = t /\ Pipeline[k].num = n
                      \/ \E x \in lost : x.req = t /\ x.num = n
    BY DEF NothingVanishes
  <2>1. made[t] \in Nat /\ n \in 1 .. made[t]
    BY ServerAssumption DEF RelayInv, ServerInv, TypeOK
  <2>2. PICK i \in DOMAIN accepted : accepted[i].req = t /\ accepted[i].num = n
    BY <2>1 DEF OrderParts, NumbersAscend
  <2>3. Sent \in Seq(Items) /\ wr \in Seq(Items) /\ relay \in Seq(Items)
    <3>1. Len(accepted) \in Nat /\ \A j \in DOMAIN accepted : ~(j > Len(accepted))
      BY Sizes
    <3>2. Sent \in Seq(Items)
      BY <3>1, SentIsWithin DEF OrderParts
    <3> QED
      BY <3>2 DEF RelayInv, ServerInv, TypeOK
  <2>4. outgoing # None => outgoing \in Items
    BY DEF RelayInv, ServerInv, TypeOK
  <2>5. Waiting \in Seq(Items)
    BY <2>4 DEF Waiting
  <2>6. Occurs(accepted[i], Sent) \/ Occurs(accepted[i], wr)
        \/ Occurs(accepted[i], Waiting) \/ Occurs(accepted[i], relay)
        => Occurs(accepted[i], Pipeline)
    <3>1. Sent \o wr \in Seq(Items) /\ (Sent \o wr) \o Waiting \in Seq(Items)
      BY <2>3, <2>5, Joining
    <3>2. Pipeline = ((Sent \o wr) \o Waiting) \o relay
      BY DEF Pipeline, Waiting
    <3> QED
      BY <2>3, <2>5, <3>1, <3>2, OccursInEither
  <2>7. Occurs(accepted[i], Pipeline) \/ accepted[i] \in lost
    <3>1. CASE i <= Settled
      <4>1. i \in 1 .. Settled
        BY <3>1, Sizes
      <4>2. Out(accepted[i]) \/ accepted[i] \in lost
        BY <4>1 DEF OrderParts, SettledIsKnown
      <4>3. ASSUME NEW d \in DOMAIN wire, wire[d] = Wired(accepted[i])
            PROVE  Occurs(accepted[i], Sent)
        <5>1. d \in 1 .. Len(wire) /\ Len(wire) \in Nat
          BY DEF RelayInv, ServerInv, TypeOK
        <5>2. wire[d].frames[1] = accepted[i]
          BY <4>3 DEF Wired
        <5> QED
          BY <5>1, <5>2 DEF Sent, Occurs
      <4> QED
        BY <2>6, <4>2, <4>3 DEF Out
    <3>2. CASE i = Settled + 1 /\ outgoing # None
      <4>1. outgoing = accepted[i]
        BY <3>2 DEF RelayInv, RelayParts, Queued
      <4>2. CASE serve = "flush"
        <5>1. PICK k \in DOMAIN accepted : wr = <<accepted[k]>> /\ k = Settled + 1
          BY <4>2 DEF RelayInv, RelayParts, Left
        <5>2. Len(wr) = 1 /\ wr[1] = accepted[i]
          BY <3>2, <5>1
        <5> QED
          BY <2>6, <5>2 DEF Occurs
      <4>3. CASE serve # "flush"
        <5>1. Len(Waiting) = 1 /\ Waiting[1] = accepted[i]
          BY <3>2, <4>1, <4>3 DEF Waiting
        <5> QED
          BY <2>6, <5>1 DEF Occurs
      <4> QED
        BY <4>2, <4>3
    <3>3. CASE i > Len(accepted) - Len(relay)
      <4>1. PICK k \in 1 .. Len(relay) : i = Len(accepted) - Len(relay) + k
        <5>1. i - (Len(accepted) - Len(relay)) \in 1 .. Len(relay)
          BY <3>3, Sizes
        <5>2. i = Len(accepted) - Len(relay) + (i - (Len(accepted) - Len(relay)))
          BY Sizes
        <5> QED
          BY <5>1, <5>2
      <4>2. relay[k] = accepted[i]
        BY <4>1, Sizes DEF RelayInv, RelayParts, Queued
      <4> QED
        BY <2>6, <4>2 DEF Occurs
    <3> QED
      BY <3>1, <3>2, <3>3, Sizes
  <2> QED
    BY <2>2, <2>7 DEF Occurs
<1> QED
  BY <1>1, OrderInvariance, PTL

-----------------------------------------------------------------------------
(* When the loop panics.                                                   *)

(* The last response that had its turn could not be encoded.               *)
Unencodable ==
  Settled \in DOMAIN accepted /\ accepted[Settled] \in lost /\ ~accepted[Settled].fits

(* Embassy's buffer waits for a flush without a destination after such a   *)
(* response only.                                                          *)
NoDestination == binding = "embassy" /\ ~flushed /\ dest = None => Unencodable

LEMMA UnencodableStays ==
  ASSUME Unencodable, UNCHANGED <<Settled, lost>>,
         \A i \in DOMAIN accepted : i \in DOMAIN accepted' /\ accepted'[i] = accepted[i]
  PROVE  Unencodable'
BY DEF Unencodable

(* Outside of a send neither the buffer nor what had its turn changes, and *)
(* nothing that is at hand is lost by a panic.                             *)
LEMMA OthersKeepDestination ==
  ASSUME RelayInv, NoDestination, OnlyUnencodableResponsesPanic, [Next]_vars, ~SendStep
  PROVE  NoDestination' /\ OnlyUnencodableResponsesPanic'
<1>1. UNCHANGED <<binding, lost, dest, flushed>>
  <2>1. CASE Receive
    BY <2>1, ReadSide DEF Receive, HandleRxEvent, RelayInv, sink
  <2>2. CASE Next /\ ~Receive
    BY <2>2 DEF Next, Start, Arrive, PollPending, Break, HandleRxEvent, Respond,
                EndTask, TakeRelay, Tokio!PollPending, Tokio!sink, ReadError,
                Tokio!ReadError, Embassy!ReadError, Embassy!sink, sink
  <2> QED
    BY <2>1, <2>2 DEF vars, sink
<1>2. /\ UNCHANGED Settled
      /\ \A i \in DOMAIN accepted : i \in DOMAIN accepted' /\ accepted'[i] = accepted[i]
  <2>1. CASE \E t \in Ids, f \in BOOLEAN : Respond(t, f)
    <3>1. PICK t \in Ids, f \in BOOLEAN : Respond(t, f)
      BY <2>1
    <3>2. UNCHANGED Settled
      BY <3>1, RespondRelays DEF Relay!Answer
    <3>3. accepted \in Seq(Items) /\ \E x : accepted' = Append(accepted, x)
      BY <3>1, Sizes DEF Respond
    <3> QED
      BY <3>2, <3>3
  <2>2. CASE ~ \E t \in Ids, f \in BOOLEAN : Respond(t, f)
    <3>1. UNCHANGED accepted
      BY <2>2 DEF Next, vars, Start, Arrive, PollPending, Receive, Break, HandleRxEvent,
                  EndTask, TakeRelay
    <3>2. CASE \E p \in Peers, k \in Kinds : Arrive(p, k)
      BY <3>1, <3>2, ArriveRelays DEF Relay!Ask
    <3>3. CASE TakeRelay
      BY <3>1, <3>3, TakeRelayRelays DEF Silent, Relay!vars
    <3>4. CASE UNCHANGED <<relay, outgoing>>
      BY <3>1, <3>4 DEF Settled
    <3>5. ASSUME Start \/ PollPending \/ Receive \/ Break \/ UNCHANGED vars
                 \/ \E t \in Ids : EndTask(t)
          PROVE  UNCHANGED <<relay, outgoing>>
      BY <3>5 DEF Start, PollPending, Receive, Break, HandleRxEvent, EndTask, vars
    <3> QED
      BY <2>2, <3>2, <3>3, <3>4, <3>5 DEF Next
  <2> QED
    BY <2>1, <2>2
<1>3. NoDestination'
  BY <1>1, <1>2, UnencodableStays DEF NoDestination
<1>4. serve' = "panicked" /\ outgoing' # None => serve = "panicked" /\ outgoing # None
  <2>1. CASE Start
    <3>1. serve \in {"unbound", "joining", "bound"} /\ UNCHANGED outgoing
      BY <2>1 DEF Start, BindTokio, BindEmbassy, Serve, Udp!BindSocket, Udp!Join,
                  Udp!JoinPanics, Udp!BindFails, Udp!Bound, Udp!Drop
    <3> QED
      BY <3>1 DEF RelayInv, RelayParts, Queued
  <2>2. CASE ~Start
    BY <2>2 DEF Next, vars, Arrive, PollPending, Receive, Break, HandleRxEvent,
                Respond, EndTask, TakeRelay
  <2> QED
    BY <2>1, <2>2
<1>5. OnlyUnencodableResponsesPanic'
  <2>1. serve = "panicked" /\ outgoing # None => binding = "embassy" /\ Unencodable
    BY DEF OnlyUnencodableResponsesPanic, Unencodable
  <2>2. serve' = "panicked" /\ outgoing' # None => binding' = "embassy" /\ Unencodable'
    BY <1>1, <1>2, <1>4, <2>1, UnencodableStays
  <2> QED
    BY <2>2 DEF OnlyUnencodableResponsesPanic, Unencodable
<1> QED
  BY <1>3, <1>5

(* poll_ready panics if there is no destination, and then there is still   *)
(* none.                                                                   *)
LEMMA ReadyDestination ==
  ASSUME RelayInv, NoDestination, serve = "ready", NEW res \in {"ok", "err", "panic"},
         Ready(res), After(res, "start")
  PROVE  NoDestination' /\ OnlyUnencodableResponsesPanic'
<1>1. UNCHANGED <<binding, sender, relay, accepted>>
  BY DEF After
<1>2. CASE res = "ok"
  <2>1. flushed' /\ serve' = "start"
    BY <1>1, <1>2, ReadyKeeps DEF After, RelayInv
  <2> QED
    BY <2>1 DEF NoDestination, OnlyUnencodableResponsesPanic
<1>3. CASE res = "err"
  <2>1. serve' = "select" /\ (binding = "embassy" => dest # None /\ UNCHANGED dest)
    BY <1>3 DEF After, Ready, Embassy!Ready, Embassy!Flush
  <2> QED
    BY <1>1, <2>1 DEF NoDestination, OnlyUnencodableResponsesPanic
<1>4. CASE res = "panic"
  <2>1. UNCHANGED <<outgoing, lost>>
    BY <1>4 DEF After
  <2>2. UNCHANGED Settled
    BY <1>1, <2>1 DEF Settled
  <2>3. binding = "embassy" /\ ~flushed /\ dest = None
    BY <1>4 DEF Ready, Tokio!Ready, Tokio!Flush, Embassy!Ready, Embassy!Flush
  <2>4. Unencodable'
    BY <1>1, <2>1, <2>2, <2>3, UnencodableStays DEF NoDestination
  <2> QED
    BY <1>1, <2>3, <2>4 DEF NoDestination, OnlyUnencodableResponsesPanic, Unencodable
<1> QED
  BY <1>2, <1>3, <1>4

(* start_send leaves no destination if the item cannot be encoded.         *)
LEMMA StartSendDestination ==
  ASSUME RelayInv, serve = "start", NEW res \in {"ok", "err", "panic"}, StartSend(res),
         After(res, "flush")
  PROVE  NoDestination' /\ OnlyUnencodableResponsesPanic'
<1>1. UNCHANGED <<binding, relay, accepted>> /\ serve' # "panicked"
  BY DEF After, StartSend, Tokio!StartSend, Embassy!StartSend
<1>2. outgoing \in Items /\ outgoing # None
  BY ServerAssumption DEF RelayInv, ServerInv, Addressed
<1>3. OnlyUnencodableResponsesPanic'
  BY <1>1 DEF OnlyUnencodableResponsesPanic
<1>4. CASE binding = "tokio"
  BY <1>1, <1>3, <1>4 DEF NoDestination
<1>5. CASE binding = "embassy" /\ res = "ok"
  <2>1. dest' = outgoing.to /\ outgoing.to \in Peers
    BY <1>2, <1>5 DEF StartSend, Embassy!StartSend, Items
  <2> QED
    BY <1>3, <2>1, FramedBindingAssumption DEF NoDestination
<1>6. CASE binding = "embassy" /\ res # "ok"
  <2>1. ~outgoing.fits /\ res = "err"
    BY <1>6 DEF StartSend, Embassy!StartSend
  <2>2. outgoing' = None /\ lost' = lost \cup {outgoing}
    BY <2>1 DEF After
  <2>3. outgoing = accepted[Settled + 1] /\ Settled + 1 = Len(accepted) - Len(relay)
    BY <1>2, Sizes DEF RelayInv, RelayParts, Queued
  <2>4. Settled' = Len(accepted) - Len(relay)
    <3>1. Settled' = Len(accepted) - Len(relay) - 0
      BY <1>1, <2>2 DEF Settled
    <3> QED
      BY <3>1, Sizes
  <2>5. Settled' \in DOMAIN accepted /\ accepted[Settled'] = outgoing
    BY <2>3, <2>4, Sizes
  <2>6. Unencodable'
    BY <1>1, <2>1, <2>2, <2>5 DEF Unencodable
  <2> QED
    BY <1>3, <2>6 DEF NoDestination
<1>7. binding \in {"tokio", "embassy"}
  BY DEF RelayInv, ServerInv, TypeOK
<1> QED
  BY <1>3, <1>4, <1>5, <1>6, <1>7

(* poll_flush has a destination: start_send returned Ok.                   *)
LEMMA FlushDestination ==
  ASSUME RelayInv, serve = "flush", NEW res \in {"ok", "err", "panic"}, Flush(res),
         After(res, "select")
  PROVE  NoDestination' /\ OnlyUnencodableResponsesPanic'
<1>1. ~flushed /\ UNCHANGED dest
  BY DEF Flush, Tokio!Flush, Embassy!Flush
<1>2. wr # <<>>
  BY DEF RelayInv, RelayParts, Left
<1>3. dest # None
  BY <1>1, <1>2, FramedBindingAssumption DEF RelayInv, ServerInv, Buffered, BufferMatches
<1>4. res # "panic"
  BY <1>3 DEF Flush, Tokio!Flush, Embassy!Flush
<1>5. serve' # "panicked" /\ dest' # None
  BY <1>1, <1>3, <1>4 DEF After
<1>6. NoDestination'
  BY <1>5 DEF NoDestination
<1>7. OnlyUnencodableResponsesPanic'
  BY <1>5 DEF OnlyUnencodableResponsesPanic
<1> QED
  BY <1>6, <1>7

(* The loop panics with a response at hand after one that could not be     *)
(* encoded only, and with embassy's binding: no failed send to a peer,     *)
(* and nothing that one leaves in the buffer, ends the server.             *)
THEOREM PanicsFollowEncodingErrors == Spec => []OnlyUnencodableResponsesPanic
<1> DEFINE Inv == NoDestination /\ OnlyUnencodableResponsesPanic
<1>1. Init => Inv
  BY DEF Init, BindingInit, NoDestination, OnlyUnencodableResponsesPanic
<1>2. RelayInv /\ Inv /\ [Next]_vars => Inv'
  <2> SUFFICES ASSUME RelayInv, NoDestination, OnlyUnencodableResponsesPanic, [Next]_vars
               PROVE  NoDestination' /\ OnlyUnencodableResponsesPanic'
    OBVIOUS
  <2>1. CASE ~SendStep
    BY <2>1, OthersKeepDestination
  <2>2. CASE SendStep
    <3>1. PICK res \in {"ok", "err", "panic"} :
            \/ serve = "ready" /\ Ready(res) /\ After(res, "start")
            \/ serve = "start" /\ StartSend(res) /\ After(res, "flush")
            \/ serve = "flush" /\ Flush(res) /\ After(res, "select")
      BY <2>2 DEF SendStep
    <3> QED
      BY <3>1, ReadyDestination, StartSendDestination, FlushDestination
  <2> QED
    BY <2>1, <2>2
<1>3. Inv => OnlyUnencodableResponsesPanic
  OBVIOUS
<1> HIDE DEF Inv
<1> QED
  BY <1>1, <1>2, <1>3, RelayInvariance, PTL DEF Spec
=============================================================================
