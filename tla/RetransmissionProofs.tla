------------------------ MODULE RetransmissionProofs ------------------------
(***************************************************************************)
(* Theorems about Retransmission for every set of sends and peers, every   *)
(* number of message IDs and every retry limit.                            *)
(***************************************************************************)
EXTENDS Retransmission, FiniteSetTheorems, TLAPS

(* A message ID stays within its width when it is incremented, wrap-around *)
(* included (next_message_id.wrapping_add(1)).                             *)
LEMMA NextMidType == \A m \in Mids : NextMid(m) \in Mids
BY RetransmissionAssumption DEF Mids, NextMid

(* There is a peer to send to, hence a key, so Unused is one.              *)
LEMMA UnusedType == Unused \in Keys
<1>1. PICK p \in Peers : TRUE
  BY RetransmissionAssumption
<1>2. <<0, p>> \in Keys
  BY <1>1, RetransmissionAssumption DEF Keys, Mids
<1> QED
  BY <1>2 DEF Unused

(* The initial state satisfies the inductive invariant.                    *)
LEMMA InitIInv == Init => IInv
<1> SUFFICES ASSUME Init PROVE IInv
  OBVIOUS
<1>1. Unused[1] \in Mids /\ Unused[2] \in Peers
  BY UnusedType DEF Keys
<1>2. TypeOK
  BY <1>1, RetransmissionAssumption DEF Init, TypeOK, Events, Results, Limit
<1>3. EntriesNameTheirSend
  BY DEF Init, EntriesNameTheirSend
<1>4. StagesAreConsistent
  BY DEF Init, StagesAreConsistent
<1>5. PendingSendIsReachable /\ OutcomeIsJustified /\ AnswerMatchesSend
  BY DEF Init, PendingSendIsReachable, OutcomeIsJustified, AnswerMatchesSend, Live
<1> QED
  BY <1>2, <1>3, <1>4, <1>5 DEF IInv

(* send_reliably: the new entry is owned by the send, and the one it       *)
(* displaces has heard that its key was taken.                             *)
LEMMA SendIInv ==
  ASSUME IInv, NEW s \in Sends, NEW p \in Peers, Send(s, p)
  PROVE  IInv'
<1> DEFINE k == <<nextMid, p>>
<1> USE DEF IInv, Send, Displace
<1>1. k \in Keys /\ NextMid(nextMid) \in Mids
  BY NextMidType DEF TypeOK, Keys
<1>2. TypeOK'
  BY <1>1, RetransmissionAssumption DEF TypeOK, Events
<1>3. ASSUME NEW o \in Sends, o # s
      PROVE  stage'[o] = stage[o] /\ Key(o)' = Key(o) /\ Live(o)' = Live(o)
  BY <1>3 DEF TypeOK, Key, Live
<1>4. Key(s)' = k /\ stage'[s] = "created" /\ ~Live(s)
  BY DEF TypeOK, Key, Live
<1>5. event'[s] = event[s] /\ event[s] = "None"
  BY <1>4 DEF StagesAreConsistent, TypeOK
<1>6. s # unacked[k]
  BY <1>1, RetransmissionAssumption DEF EntriesNameTheirSend
<1>7. EntriesNameTheirSend'
  <2> SUFFICES ASSUME NEW q \in Keys, NEW o \in Sends, unacked'[q] = o
               PROVE  /\ stage'[o] # "idle"
                      /\ Key(o)' = q
                      /\ event'[o] = "None"
    BY <1>2 DEF EntriesNameTheirSend, TypeOK, Key
  <2>1. CASE q = k
    <3>1. o = s
      BY <2>1, <1>1 DEF TypeOK
    <3> QED
      BY <3>1, <2>1, <1>4, <1>5
  <2>2. CASE q # k
    <3>1. unacked[q] = o
      BY <2>2, <1>1 DEF TypeOK
    <3>2. stage[o] # "idle" /\ Key(o) = q /\ event[o] = "None"
      BY <3>1, RetransmissionAssumption DEF EntriesNameTheirSend
    <3>3. o # unacked[k] /\ o # s
      BY <3>2, <2>2, <1>1, RetransmissionAssumption DEF EntriesNameTheirSend
    <3>4. event'[o] = event[o]
      BY <3>3
    <3> QED
      BY <3>2, <3>3, <3>4, <1>3
  <2> QED
    BY <2>1, <2>2
<1>8. StagesAreConsistent'
  BY <1>3, <1>5 DEF StagesAreConsistent, TypeOK, Live
<1>9. PendingSendIsReachable'
  <2> SUFFICES ASSUME NEW o \in Sends, Live(o)', event'[o] = "None"
               PROVE  unacked'[Key(o)'] = o
    BY DEF PendingSendIsReachable
  <2>1. CASE o = s
    BY <2>1, <1>1, <1>4 DEF TypeOK
  <2>2. CASE o # s
    <3>1. Live(o) /\ Key(o)' = Key(o) /\ Key(o) \in Keys
      BY <2>2, <1>3 DEF Key, Keys, TypeOK
    <3>2. o # unacked[k] /\ event[o] = "None"
      BY <3>1 DEF TypeOK
    <3>3. unacked[Key(o)] = o
      BY <3>1, <3>2 DEF PendingSendIsReachable
    <3> QED
      BY <3>1, <3>2, <3>3, <1>1 DEF TypeOK
  <2> QED
    BY <2>1, <2>2
<1>10. OutcomeIsJustified'
  BY <1>3, <1>4, <1>5 DEF StagesAreConsistent, OutcomeIsJustified, TypeOK, Live
<1>11. AnswerMatchesSend'
  <2> SUFFICES ASSUME NEW o \in Sends, answered'[o] # None
               PROVE  mid'[answered'[o]] = mid'[o] /\ peer'[answered'[o]] = peer'[o]
    BY DEF AnswerMatchesSend
  <2>1. answered[o] \in Sends /\ answered[o] # s /\ o # s
    BY <1>4 DEF TypeOK, StagesAreConsistent
  <2> QED
    BY <2>1 DEF AnswerMatchesSend, TypeOK
<1> QED
  BY <1>2, <1>7, <1>8, <1>9, <1>10, <1>11

(* Every copy, timeout and wake-up: the loop of into_future only changes   *)
(* the send's own stage, attempt and result.                               *)
LEMMA FutureIInv ==
  ASSUME IInv, NEW s \in Sends, Start(s) \/ Timeout(s) \/ Wake(s)
  PROVE  IInv'
<1> USE DEF IInv
<1>1. /\ Live(s)
      /\ stage'[s] \in {"waiting", "done"}
      /\ stage' = [stage EXCEPT ![s] = stage'[s]]
      /\ attempt' = [attempt EXCEPT ![s] = attempt'[s]]
      /\ attempt'[s] \in {attempt[s], attempt[s] + 1}
      /\ result' = [result EXCEPT ![s] = result'[s]]
      /\ UNCHANGED <<nextMid, unacked, mid, peer, event, closed, panicked, answered>>
  BY DEF Start, Timeout, Wake, Transmit, Finish, TypeOK, Live
<1>2. \/ /\ stage'[s] = "waiting"
         /\ event[s] = "None" /\ result'[s] = result[s]
         /\ attempt'[s] = attempt[s] + 1 /\ attempt[s] < Limit
      \/ /\ stage'[s] = "done"
         /\ \/ s \in closed /\ result'[s] = "TransmissionError" /\ attempt'[s] = attempt[s]
            \/ /\ event[s] # "None" /\ result'[s] = ResultOf(event[s])
               /\ attempt'[s] \in 0 .. Limit
            \/ /\ result'[s] = "NoReply" /\ attempt'[s] = Limit
  BY RetransmissionAssumption
     DEF Start, Timeout, Wake, Transmit, Finish, TypeOK, StagesAreConsistent, Limit
<1>3. event[s] # "None" => \/ event[s] = "Ack" /\ ResultOf(event[s]) = "Ok"
                           \/ event[s] = "Reset" /\ ResultOf(event[s]) = "Reset"
                           \/ event[s] = "Reused" /\ ResultOf(event[s]) = "InternalError"
  BY DEF TypeOK, Events, Replies, ResultOf
<1>4. attempt'[s] \in 0 .. Limit /\ result'[s] \in Results \cup {"none"}
  BY <1>2, <1>3, RetransmissionAssumption DEF TypeOK, Results, Failures, Limit
<1>5. TypeOK'
  BY <1>1, <1>4 DEF TypeOK
<1>6. \A o \in Sends : o # s => /\ stage'[o] = stage[o] /\ result'[o] = result[o]
                                /\ attempt'[o] = attempt[o]
  BY <1>1 DEF TypeOK
<1>7. \A o \in Sends : Key(o)' = Key(o) /\ (Live(o)' => Live(o))
  BY <1>1, <1>6 DEF Key, Live
<1>8. EntriesNameTheirSend'
  <2> SUFFICES ASSUME NEW k \in Keys, unacked[k] # None
               PROVE  /\ stage'[unacked[k]] # "idle"
                      /\ Key(unacked[k])' = k
                      /\ event[unacked[k]] = "None"
    BY <1>1 DEF EntriesNameTheirSend
  <2>1. unacked[k] \in Sends
    BY DEF TypeOK
  <2> QED
    BY <2>1, <1>1, <1>6, <1>7 DEF EntriesNameTheirSend
<1>9. StagesAreConsistent'
  <2>1. stage'[s] = "done" <=> result'[s] # "none"
    BY <1>1, <1>2, <1>3 DEF StagesAreConsistent, Live
  <2>2. stage'[s] = "waiting" => attempt'[s] > 0
    BY <1>2, RetransmissionAssumption DEF TypeOK, Limit
  <2>3. \A o \in Sends : answered[o] # None => stage'[answered[o]] # "idle"
    BY <1>1, <1>6 DEF StagesAreConsistent, TypeOK
  <2> QED
    BY <1>1, <1>6, <2>1, <2>2, <2>3 DEF StagesAreConsistent
<1>10. PendingSendIsReachable'
  BY <1>1, <1>7 DEF PendingSendIsReachable
<1>11. OutcomeIsJustified'
  <2>1. ASSUME NEW o \in Sends, o # s
        PROVE  /\ result'[o] = "Ok" => event'[o] = "Ack"
               /\ result'[o] = "Reset" => event'[o] = "Reset"
               /\ result'[o] = "InternalError" => event'[o] = "Reused"
               /\ result'[o] = "NoReply" => attempt'[o] = Limit
               /\ result'[o] = "TransmissionError" => o \in closed'
    BY <2>1, <1>1, <1>6 DEF OutcomeIsJustified
  <2>2. /\ result'[s] = "Ok" => event'[s] = "Ack"
        /\ result'[s] = "Reset" => event'[s] = "Reset"
        /\ result'[s] = "InternalError" => event'[s] = "Reused"
        /\ result'[s] = "NoReply" => attempt'[s] = Limit
        /\ result'[s] = "TransmissionError" => s \in closed'
    BY <1>1, <1>2, <1>3 DEF StagesAreConsistent, Live
  <2> QED
    BY <2>1, <2>2 DEF OutcomeIsJustified
<1>12. AnswerMatchesSend'
  BY <1>1 DEF AnswerMatchesSend
<1> QED
  BY <1>5, <1>8, <1>9, <1>10, <1>11, <1>12

(* maybe_handle_reply: the entry that is removed belongs to a send with    *)
(* the very key of the reply, which either hears of it or is gone.         *)
LEMMA HandleReplyIInv ==
  ASSUME IInv, NEW s \in Sends, NEW t \in Replies, HandleReply(s, t)
  PROVE  IInv'
<1> DEFINE owner == unacked[Key(s)]
<1> USE DEF IInv, HandleReply
<1>1. /\ Key(s) \in Keys /\ owner \in Sends
      /\ stage[s] # "idle" /\ stage[owner] # "idle" /\ Key(owner) = Key(s)
  BY RetransmissionAssumption
     DEF Key, Keys, TypeOK, EntriesNameTheirSend, StagesAreConsistent
<1>2. /\ \A o \in Sends : Key(o)' = Key(o) /\ Live(o)' = Live(o)
      /\ \A o \in Sends : o # owner => event'[o] = event[o] /\ answered'[o] = answered[o]
      /\ ~Live(owner) => event' = event /\ answered' = answered
      /\ Live(owner) => /\ event' = [event EXCEPT ![owner] = t]
                        /\ answered' = [answered EXCEPT ![owner] = s]
  BY DEF Key, Live, TypeOK
<1>3. TypeOK'
  BY <1>1, <1>2 DEF TypeOK, Events
<1>4. EntriesNameTheirSend'
  <2> SUFFICES ASSUME NEW q \in Keys, NEW o \in Sends, unacked'[q] = o
               PROVE  /\ stage[o] # "idle"
                      /\ Key(o) = q
                      /\ event'[o] = "None"
    BY <1>2, <1>3 DEF EntriesNameTheirSend, TypeOK, Key
  <2>1. unacked[q] = o /\ q # Key(s)
    BY <1>1, RetransmissionAssumption DEF TypeOK
  <2>2. stage[o] # "idle" /\ Key(o) = q /\ event[o] = "None"
    BY <2>1, RetransmissionAssumption DEF EntriesNameTheirSend
  <2> QED
    BY <2>1, <2>2, <1>1, <1>2
<1>5. StagesAreConsistent'
  BY <1>1, <1>2 DEF StagesAreConsistent, Live, TypeOK
<1>6. PendingSendIsReachable'
  <2> SUFFICES ASSUME NEW o \in Sends, Live(o), event'[o] = "None"
               PROVE  unacked'[Key(o)] = o
    BY <1>2 DEF PendingSendIsReachable
  <2>1. o # owner /\ event[o] = "None" /\ Key(o) \in Keys
    BY <1>1, <1>2 DEF TypeOK, Replies, Key, Keys
  <2>2. unacked[Key(o)] = o /\ Key(o) # Key(s)
    BY <2>1 DEF PendingSendIsReachable
  <2> QED
    BY <2>1, <2>2, <1>1 DEF TypeOK
<1>7. OutcomeIsJustified'
  <2>1. Live(owner) => result[owner] = "none"
    BY <1>1 DEF StagesAreConsistent, Live
  <2> QED
    BY <2>1, <1>1, <1>2 DEF OutcomeIsJustified
<1>8. AnswerMatchesSend'
  <2>1. mid[owner] = mid[s] /\ peer[owner] = peer[s]
    BY <1>1 DEF Key
  <2> QED
    BY <2>1, <1>1, <1>2 DEF AnswerMatchesSend, TypeOK
<1> QED
  BY <1>3, <1>4, <1>5, <1>6, <1>7, <1>8

(* The invariant is inductive: one step per action.                        *)
LEMMA NextIInv == IInv /\ [Next]_vars => IInv'
<1> SUFFICES ASSUME IInv, [Next]_vars PROVE IInv'
  OBVIOUS
<1>1. ASSUME NEW s \in Sends, NEW p \in Peers, Send(s, p) PROVE IInv'
  BY <1>1, SendIInv
<1>2. ASSUME NEW s \in Sends, Start(s) PROVE IInv'
  BY <1>2, FutureIInv
<1>3. ASSUME NEW s \in Sends, Timeout(s) PROVE IInv'
  BY <1>3, FutureIInv
<1>4. ASSUME NEW s \in Sends, Wake(s) PROVE IInv'
  BY <1>4, FutureIInv
<1>5. ASSUME NEW s \in Sends, NEW t \in Replies, HandleReply(s, t) PROVE IInv'
  BY <1>5, HandleReplyIInv
<1>6. ASSUME NEW S \in Streams, CloseStream(S) PROVE IInv'
  <2>1. TypeOK' /\ OutcomeIsJustified' /\ AnswerMatchesSend'
    BY <1>6, RetransmissionAssumption
       DEF CloseStream, IInv, TypeOK, OutcomeIsJustified, AnswerMatchesSend
  <2>2. EntriesNameTheirSend' /\ PendingSendIsReachable'
    BY <1>6 DEF CloseStream, IInv, EntriesNameTheirSend, PendingSendIsReachable,
       Live, Key
  <2>3. StagesAreConsistent'
    BY <1>6 DEF CloseStream, IInv, StagesAreConsistent
  <2> QED
    BY <2>1, <2>2, <2>3 DEF IInv
<1>7. CASE UNCHANGED vars
  <2>1. TypeOK' /\ OutcomeIsJustified' /\ AnswerMatchesSend'
    BY <1>7 DEF vars, IInv, TypeOK, OutcomeIsJustified, AnswerMatchesSend
  <2>2. EntriesNameTheirSend' /\ PendingSendIsReachable'
    BY <1>7 DEF vars, IInv, EntriesNameTheirSend, PendingSendIsReachable, Live, Key
  <2>3. StagesAreConsistent'
    BY <1>7 DEF vars, IInv, StagesAreConsistent
  <2> QED
    BY <2>1, <2>2, <2>3 DEF IInv
<1> QED
  BY <1>1, <1>2, <1>3, <1>4, <1>5, <1>6, <1>7 DEF Next

(* The inductive invariant holds in every reachable state.                 *)
THEOREM Invariance == Spec => []IInv
BY InitIInv, NextIInv, PTL DEF Spec

(* The manager's state and the futures of its sends keep their types.      *)
THEOREM TypeCorrect == Spec => []TypeOK
<1>1. IInv => TypeOK
  BY DEF IInv
<1> QED
  BY <1>1, Invariance, PTL

(* No reply can miss a send that waits: insert and remove of the table     *)
(* keep an entry for every future that has not heard anything.             *)
THEOREM WaitingSendsAreReachable ==
  Spec => []PendingSendIsReachable
<1>1. IInv => PendingSendIsReachable
  BY DEF IInv
<1> QED
  BY <1>1, Invariance, PTL

(* into_future returns only what its events and attempts justify.          *)
THEOREM OutcomesAreJustified ==
  Spec => []OutcomeIsJustified
<1>1. IInv => OutcomeIsJustified
  BY DEF IInv
<1> QED
  BY <1>1, Invariance, PTL

(* A reply is credited only to a send with its message ID and peer.        *)
THEOREM AnswersMatchSends ==
  Spec => []AnswerMatchesSend
<1>1. IInv => AnswerMatchesSend
  BY DEF IInv
<1> QED
  BY <1>1, Invariance, PTL

-----------------------------------------------------------------------------
(* Whose reply it is.                                                      *)

(* The reply that a future hears was elicited by a copy of some send.      *)
RepliesAreCredited ==
  \A s \in Sends : event[s] \in Replies => answered[s] # None

LEMMA NextCredited ==
  IInv /\ RepliesAreCredited /\ [Next]_vars => RepliesAreCredited'
<1> SUFFICES ASSUME IInv, RepliesAreCredited, [Next]_vars PROVE RepliesAreCredited'
  OBVIOUS
<1>1. ASSUME NEW s \in Sends, NEW p \in Peers, Send(s, p) PROVE RepliesAreCredited'
  BY <1>1 DEF Send, Displace, RepliesAreCredited, Replies
<1>2. ASSUME NEW s \in Sends, NEW t \in Replies, HandleReply(s, t)
      PROVE  RepliesAreCredited'
  BY <1>2, RetransmissionAssumption
     DEF HandleReply, RepliesAreCredited, Replies, IInv, TypeOK
<1>3. UNCHANGED <<event, answered>> => RepliesAreCredited'
  BY DEF RepliesAreCredited
<1> QED
  BY <1>1, <1>2, <1>3 DEF Next, vars, Start, Timeout, Wake, CloseStream

(* An event of the watch channel of a send stands for a reply.             *)
THEOREM EventsComeFromReplies == Spec => []RepliesAreCredited
<1>1. Init => RepliesAreCredited
  BY DEF Init, RepliesAreCredited, Replies
<1> QED
  BY <1>1, NextCredited, Invariance, PTL DEF Spec

(* How many message IDs ago a send took its own: 1 for the last one.       *)
Age(s) == IF mid[s] < nextMid THEN nextMid - mid[s] ELSE nextMid - mid[s] + MidSpace

(* As long as the IDs have not wrapped around, the sends have ages up to   *)
(* their number, and no two have the same one.                             *)
AgesDiffer ==
  /\ IsFiniteSet(Submitted)
  /\ Cardinality(Submitted) <= MidSpace =>
       /\ \A s \in Submitted : Age(s) <= Cardinality(Submitted)
       /\ \A s, o \in Submitted : mid[s] = mid[o] => s = o

LEMMA SendAges ==
  ASSUME IInv, AgesDiffer, NEW s \in Sends, NEW p \in Peers, Send(s, p)
  PROVE  AgesDiffer'
<1> DEFINE n == Cardinality(Submitted)
<1>1. /\ s \in Sends \ Submitted
      /\ nextMid \in Mids /\ mid \in [Sends -> Mids] /\ MidSpace \in Nat \ {0}
      /\ nextMid' = NextMid(nextMid) /\ mid' = [mid EXCEPT ![s] = nextMid]
  BY RetransmissionAssumption DEF Send, Submitted, IInv, TypeOK
<1>2. Submitted' = Submitted \cup {s}
  BY DEF Send, Submitted, IInv, TypeOK
<1>3. IsFiniteSet(Submitted') /\ n \in Nat /\ Cardinality(Submitted') = n + 1
  BY <1>1, <1>2, FS_AddElement, FS_CardinalityType DEF AgesDiffer
<1>4. SUFFICES ASSUME n + 1 <= MidSpace
               PROVE  /\ \A o \in Submitted' : Age(o)' <= n + 1
                      /\ \A o, q \in Submitted' : mid'[o] = mid'[q] => o = q
  BY <1>3 DEF AgesDiffer
<1> HIDE DEF n
<1>5. /\ \A o \in Submitted : Age(o) <= n /\ o \in Sends
      /\ \A o, q \in Submitted : mid[o] = mid[q] => o = q
  <2>1. n <= MidSpace
    BY <1>1, <1>3, <1>4
  <2> QED
    BY <2>1 DEF n, AgesDiffer, Submitted
<1>6. mid'[s] = nextMid /\ Age(s)' = 1
  BY <1>1 DEF Age, NextMid, Mids
<1>7. ASSUME NEW o \in Submitted
      PROVE  mid'[o] = mid[o] /\ mid[o] # nextMid /\ Age(o)' = Age(o) + 1
  <2>1. mid'[o] = mid[o] /\ mid[o] \in Mids
    BY <1>1, <1>5
  <2>2. Age(o) <= n
    BY <1>5
  <2>3. mid[o] # nextMid
    BY <1>1, <1>3, <1>4, <2>1, <2>2 DEF Age, Mids
  <2>4. Age(o)' = IF mid[o] < nextMid' THEN nextMid' - mid[o] ELSE nextMid' - mid[o] + MidSpace
    BY <2>1 DEF Age
  <2> QED
    BY <1>1, <1>3, <1>4, <2>1, <2>2, <2>3, <2>4 DEF Age, Mids, NextMid
<1>8. \A o \in Submitted : Age(o)' <= n + 1
  <2>1. \A o \in Submitted : Age(o) \in Nat
    BY <1>1, <1>5 DEF Age, Mids
  <2> QED
    BY <1>3, <1>5, <1>7, <2>1
<1>9. Age(s)' <= n + 1
  BY <1>3, <1>6
<1>10. \A o, q \in Submitted' : mid'[o] = mid'[q] => o = q
  BY <1>2, <1>5, <1>6, <1>7
<1> QED
  BY <1>2, <1>8, <1>9, <1>10

LEMMA NextAges == IInv /\ AgesDiffer /\ [Next]_vars => AgesDiffer'
<1> SUFFICES ASSUME IInv, AgesDiffer, [Next]_vars PROVE AgesDiffer'
  OBVIOUS
<1>1. ASSUME NEW s \in Sends, NEW p \in Peers, Send(s, p) PROVE AgesDiffer'
  BY <1>1, SendAges
<1>2. ASSUME Submitted' = Submitted, UNCHANGED <<nextMid, mid>> PROVE AgesDiffer'
  BY <1>2 DEF AgesDiffer, Age
<1>3. ASSUME NEW s \in Sends, Start(s) \/ Timeout(s) \/ Wake(s) PROVE AgesDiffer'
  <2>1. Submitted' = Submitted
    BY <1>3 DEF Start, Timeout, Wake, Transmit, Finish, Submitted, IInv, TypeOK
  <2>2. UNCHANGED <<nextMid, mid>>
    BY <1>3 DEF Start, Timeout, Wake
  <2> QED
    BY <1>2, <2>1, <2>2
<1>4. ASSUME UNCHANGED <<nextMid, mid, stage>> PROVE AgesDiffer'
  BY <1>2, <1>4 DEF Submitted
<1> QED
  BY <1>1, <1>3, <1>4 DEF Next, vars, HandleReply, CloseStream

(* Until the message IDs wrap around, whoever is told Ok or Reset is told  *)
(* what the peer said to a copy of the very message that was sent.         *)
THEOREM AnswersBelongToSends == Spec => []AnswerBelongsToSend
<1>1. Init => AgesDiffer
  <2> SUFFICES ASSUME Init PROVE AgesDiffer
    OBVIOUS
  <2>1. Submitted = {}
    BY DEF Init, Submitted
  <2> QED
    BY <2>1, FS_EmptySet, RetransmissionAssumption DEF AgesDiffer
<1>2. IInv /\ AgesDiffer => AnswerBelongsToSend
  <2> SUFFICES ASSUME IInv, AgesDiffer, Cardinality(Submitted) <= MidSpace,
                      NEW s \in Sends, answered[s] # None
               PROVE  answered[s] = s
    BY DEF AnswerBelongsToSend
  <2>1. s \in Submitted /\ answered[s] \in Submitted
    BY DEF IInv, TypeOK, StagesAreConsistent, Submitted
  <2>2. mid[answered[s]] = mid[s]
    BY DEF IInv, AnswerMatchesSend
  <2> QED
    BY <2>1, <2>2 DEF AgesDiffer
<1> QED
  BY <1>1, <1>2, NextAges, Invariance, PTL DEF Spec

-----------------------------------------------------------------------------

(* A send whose late reply panicked a task is over, without an answer: it  *)
(* does not change any more.                                               *)
LEMMA PanickedAreOver ==
  ASSUME IInv, OnlyAbandonedSendsPanic
  PROVE  \A s \in panicked : s \in Sends /\ stage[s] = "done" /\ ~Live(s)
BY DEF IInv, TypeOK, StagesAreConsistent, OnlyAbandonedSendsPanic, Live

LEMMA SendPanics ==
  ASSUME IInv, OnlyAbandonedSendsPanic, NEW s \in Sends, NEW p \in Peers, Send(s, p)
  PROVE  OnlyAbandonedSendsPanic'
<1> USE DEF IInv, Send, OnlyAbandonedSendsPanic
<1>1. s \notin panicked
  BY PanickedAreOver DEF Send
<1>2. \A o \in panicked : event'[o] = event[o] /\ result'[o] = result[o]
  BY PanickedAreOver DEF Displace, TypeOK
<1>3. \A k \in Keys : unacked'[k] \in {unacked[k], s}
  BY DEF TypeOK
<1> QED
  BY <1>1, <1>2, <1>3

LEMMA FuturePanics ==
  ASSUME IInv, OnlyAbandonedSendsPanic, NEW s \in Sends, Start(s) \/ Timeout(s) \/ Wake(s)
  PROVE  OnlyAbandonedSendsPanic'
<1>1. /\ Live(s) /\ UNCHANGED <<unacked, event, panicked>>
      /\ \A o \in Sends : o # s => result'[o] = result[o]
  BY DEF Start, Timeout, Wake, Transmit, Finish, IInv, TypeOK, Live
<1>2. \A o \in panicked : o \in Sends /\ o # s
  BY <1>1, PanickedAreOver
<1> QED
  BY <1>1, <1>2 DEF OnlyAbandonedSendsPanic

(* The handle of a send that is over has heard nothing, so that neither a  *)
(* reply nor a reused key was the reason why it returned.                  *)
LEMMA HandleReplyPanics ==
  ASSUME IInv, OnlyAbandonedSendsPanic, NEW s \in Sends, NEW t \in Replies, HandleReply(s, t)
  PROVE  OnlyAbandonedSendsPanic'
<1> DEFINE owner == unacked[Key(s)]
<1> USE DEF IInv, OnlyAbandonedSendsPanic
<1>1. /\ Key(s) \in Keys /\ owner \in Sends /\ owner \notin panicked
      /\ stage[owner] # "idle" /\ event[owner] = "None"
      /\ unacked' = [unacked EXCEPT ![Key(s)] = None] /\ UNCHANGED result
  BY RetransmissionAssumption DEF HandleReply, Key, Keys, TypeOK, EntriesNameTheirSend
<1>2. \A k \in Keys : unacked'[k] \in {unacked[k], None} /\ unacked'[k] # owner
  BY <1>1, RetransmissionAssumption DEF TypeOK, EntriesNameTheirSend
<1>3. None \notin panicked
  BY RetransmissionAssumption DEF TypeOK
<1>4. CASE Live(owner)
  <2>1. UNCHANGED panicked /\ \A o \in panicked : event'[o] = event[o]
    BY <1>1, <1>4 DEF HandleReply, TypeOK
  <2> QED
    BY <1>1, <1>2, <1>3, <2>1
<1>5. CASE ~Live(owner)
  <2>1. panicked' = panicked \cup {owner} /\ UNCHANGED event
    BY <1>5 DEF HandleReply
  <2>2. stage[owner] = "done" /\ result[owner] # "none"
    BY <1>1, <1>5 DEF Live, TypeOK, StagesAreConsistent
  <2>3. result[owner] \in {"NoReply", "TransmissionError"}
    BY <1>1, <2>2 DEF TypeOK, Results, Failures, OutcomeIsJustified
  <2> QED
    BY <1>1, <1>2, <1>3, <2>1, <2>3
<1> QED
  BY <1>4, <1>5

(* For every number of sends, peers and message IDs: a reply panics its    *)
(* task only if the send whose handle it finds gave up unheard, and no     *)
(* second reply finds that handle.                                         *)
THEOREM PanicsComeFromAbandonedSends == Spec => []OnlyAbandonedSendsPanic
<1>1. Init => OnlyAbandonedSendsPanic
  BY DEF Init, OnlyAbandonedSendsPanic
<1>2. IInv /\ OnlyAbandonedSendsPanic /\ [Next]_vars => OnlyAbandonedSendsPanic'
  <2> SUFFICES ASSUME IInv, OnlyAbandonedSendsPanic, [Next]_vars
               PROVE  OnlyAbandonedSendsPanic'
    OBVIOUS
  <2>1. ASSUME NEW s \in Sends, NEW p \in Peers, Send(s, p)
        PROVE  OnlyAbandonedSendsPanic'
    BY <2>1, SendPanics
  <2>2. ASSUME NEW s \in Sends, Start(s) \/ Timeout(s) \/ Wake(s)
        PROVE  OnlyAbandonedSendsPanic'
    BY <2>2, FuturePanics
  <2>3. ASSUME NEW s \in Sends, NEW t \in Replies, HandleReply(s, t)
        PROVE  OnlyAbandonedSendsPanic'
    BY <2>3, HandleReplyPanics
  <2>4. ASSUME UNCHANGED <<unacked, event, result, panicked>>
        PROVE  OnlyAbandonedSendsPanic'
    BY <2>4 DEF OnlyAbandonedSendsPanic
  <2> QED
    BY <2>1, <2>2, <2>3, <2>4 DEF Next, vars, CloseStream
<1> QED
  BY <1>1, <1>2, Invariance, PTL DEF Spec

-----------------------------------------------------------------------------

(* The initial state maps to an initial state of the promise.              *)
LEMMA PromiseInit == Init => Promise!Init
BY DEF Init, Promise!Init, Live, Outcomes

(* How the outcome of the promise changes when one stage and one result do.*)
LEMMA OutcomesUpdate ==
  ASSUME TypeOK, TypeOK', NEW s \in Sends, NEW v,
         \A o \in Sends : o # s => stage'[o] = stage[o] /\ result'[o] = result[o],
         (IF Live(s)' THEN "pending" ELSE result'[s]) = v
  PROVE  Outcomes' = [Outcomes EXCEPT ![s] = v]
BY DEF Outcomes, Live, TypeOK

(* send_reliably is a submission that displaces at most one pending send.  *)
LEMMA SendKeepsPromise ==
  ASSUME IInv, IInv', NEW s \in Sends, NEW p \in Peers, Send(s, p)
  PROVE  Promise!Next
<1> DEFINE k == <<nextMid, p>>
           displaced == {o \in Sends : o = unacked[k] /\ Live(o)}
<1> USE DEF IInv, Send, Displace
<1>1. k \in Keys
  BY DEF TypeOK, Keys
<1>2. \A o \in displaced : Outcomes[o] = "pending" /\ event[o] = "None"
  BY <1>1, RetransmissionAssumption DEF EntriesNameTheirSend, Outcomes
<1>3. event' = [o \in Sends |-> IF o \in displaced THEN "Reused" ELSE event[o]]
  OBVIOUS
<1>4. Outcomes[s] = "none"
  BY DEF Outcomes, Live, TypeOK, StagesAreConsistent
<1>5. Outcomes' = [Outcomes EXCEPT ![s] = "pending"]
  <2>1. Live(s)' /\ \A o \in Sends : o # s => stage'[o] = stage[o] /\ result'[o] = result[o]
    BY DEF TypeOK, Live
  <2> QED
    BY <2>1, OutcomesUpdate
<1>6. Promise!Submit(s, displaced)
  BY <1>2, <1>3, <1>4, <1>5 DEF Promise!Submit
<1> QED
  BY <1>6 DEF Promise!Next

(* The loop of into_future copies or concludes.                            *)
LEMMA FutureKeepsPromise ==
  ASSUME IInv, IInv', NEW s \in Sends, Start(s) \/ Timeout(s) \/ Wake(s)
  PROVE  Promise!Next
<1> USE DEF IInv
<1>1. /\ Live(s) /\ UNCHANGED event
      /\ \A o \in Sends : o # s => stage'[o] = stage[o] /\ result'[o] = result[o]
      /\ \A o \in Sends : o # s => attempt'[o] = attempt[o]
  BY DEF Start, Timeout, Wake, Transmit, Finish, TypeOK, Live
<1>2. Outcomes[s] = "pending"
  BY <1>1 DEF Outcomes
<1>3. CASE stage'[s] = "waiting"
  <2>1. /\ event[s] = "None" /\ attempt[s] < Limit
        /\ attempt' = [attempt EXCEPT ![s] = @ + 1]
        /\ Live(s)'
    BY <1>3, RetransmissionAssumption
       DEF Start, Timeout, Wake, Transmit, Finish, TypeOK, Live, Limit,
           StagesAreConsistent
  <2>2. Outcomes' = [Outcomes EXCEPT ![s] = "pending"]
    BY <2>1, <1>1, OutcomesUpdate
  <2>3. Outcomes' = Outcomes
    BY <2>2, <1>2 DEF Outcomes
  <2>4. Promise!Copy(s)
    BY <2>1, <2>3, <1>1, <1>2 DEF Promise!Copy
  <2> QED
    BY <2>4 DEF Promise!Next
<1>4. CASE stage'[s] # "waiting"
  <2>1. \/ /\ attempt' = attempt
           /\ \/ result'[s] = "TransmissionError"
              \/ result'[s] = "NoReply" /\ attempt[s] = Limit
              \/ event[s] # "None" /\ result'[s] = ResultOf(event[s])
        \/ /\ attempt' = [attempt EXCEPT ![s] = @ + 1] /\ attempt[s] < Limit
           /\ event[s] # "None" /\ result'[s] = ResultOf(event[s])
    BY <1>4, RetransmissionAssumption
       DEF Start, Timeout, Wake, Transmit, Finish, TypeOK, Limit, StagesAreConsistent
  <2>2. event[s] # "None" => \/ event[s] = "Ack" /\ ResultOf(event[s]) = "Ok"
                             \/ event[s] = "Reset" /\ ResultOf(event[s]) = "Reset"
                             \/ /\ event[s] = "Reused"
                                /\ ResultOf(event[s]) = "InternalError"
    BY DEF TypeOK, Events, Replies, ResultOf
  <2>3. stage'[s] = "done"
    BY <1>4 DEF Start, Timeout, Wake, Transmit, Finish, TypeOK
  <2>4. Outcomes' = [Outcomes EXCEPT ![s] = result'[s]]
    BY <2>3, <1>1, OutcomesUpdate DEF Live
  <2>5. PICK r \in Promise!Results : r = result'[s]
    BY <2>1, <2>2 DEF Promise!Results
  <2>6. CASE attempt' = attempt
    <3>1. attempt' = [attempt EXCEPT ![s] = @ + 0]
      BY <2>6 DEF TypeOK
    <3>2. Promise!Conclude(s, r, 0)
      BY <3>1, <2>1, <2>2, <2>4, <2>5, <2>6, <1>1, <1>2, RetransmissionAssumption
         DEF Promise!Conclude, Promise!Justifies, TypeOK, Limit
    <3> QED
      BY <3>2, <2>5 DEF Promise!Next
  <2>7. CASE attempt' # attempt
    <3>1. Promise!Conclude(s, r, 1)
      BY <2>1, <2>2, <2>4, <2>5, <2>7, <1>1, <1>2 DEF Promise!Conclude, Promise!Justifies
    <3> QED
      BY <3>1, <2>5 DEF Promise!Next
  <2> QED
    BY <2>6, <2>7
<1> QED
  BY <1>3, <1>4

(* A reply is heard by a pending send, or changes nothing that a caller    *)
(* sees.                                                                   *)
LEMMA ReplyKeepsPromise ==
  ASSUME IInv, NEW s \in Sends, NEW t \in Replies, HandleReply(s, t)
  PROVE  Promise!Next \/ UNCHANGED Promise!vars
<1> DEFINE owner == unacked[Key(s)]
<1> USE DEF IInv, HandleReply
<1>1. Outcomes' = Outcomes /\ attempt' = attempt
  BY DEF Outcomes, Live
<1>2. owner \in Sends /\ (Live(owner) => event[owner] = "None")
  BY RetransmissionAssumption DEF Key, Keys, TypeOK, EntriesNameTheirSend
<1>3. CASE Live(owner)
  <2>1. Promise!Hear(owner, t)
    BY <1>1, <1>2, <1>3 DEF Promise!Hear, Outcomes
  <2> QED
    BY <2>1, <1>2 DEF Promise!Next, Replies
<1>4. CASE ~Live(owner)
  BY <1>1, <1>4 DEF Promise!vars
<1> QED
  BY <1>3, <1>4

(* Every behaviour of the manager and of the futures of its sends is one   *)
(* that the callers of send_reliably may rely on.                          *)
THEOREM KeepsPromise == Spec => PromiseSpec
<1>1. IInv /\ IInv' /\ [Next]_vars => [Promise!Next]_(Promise!vars)
  <2> SUFFICES ASSUME IInv, IInv', [Next]_vars
               PROVE  Promise!Next \/ UNCHANGED Promise!vars
    OBVIOUS
  <2>1. ASSUME NEW s \in Sends, NEW p \in Peers, Send(s, p) PROVE Promise!Next
    BY <2>1, SendKeepsPromise
  <2>2. ASSUME NEW s \in Sends, Start(s) \/ Timeout(s) \/ Wake(s) PROVE Promise!Next
    BY <2>2, FutureKeepsPromise
  <2>3. ASSUME NEW s \in Sends, NEW t \in Replies, HandleReply(s, t)
        PROVE  Promise!Next \/ UNCHANGED Promise!vars
    BY <2>3, ReplyKeepsPromise
  <2>4. ASSUME NEW S \in Streams, CloseStream(S)
        PROVE  UNCHANGED Promise!vars
    BY <2>4 DEF CloseStream, Promise!vars, Outcomes, Live
  <2>5. CASE UNCHANGED vars
    BY <2>5 DEF vars, Promise!vars, Outcomes, Live
  <2> QED
    BY <2>1, <2>2, <2>3, <2>4, <2>5 DEF Next
<1> QED
  BY <1>1, PromiseInit, Invariance, PTL DEF Spec, PromiseSpec, Promise!Spec
=============================================================================
