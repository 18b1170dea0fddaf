--------------------------- MODULE Retransmission ---------------------------
(***************************************************************************)
(* app/retransmission_manager.rs: Confirmable messages sent with timeouts, *)
(* retries and a table that routes the peer's Acknowledgement or Reset to  *)
(* the send that waits for it.                                             *)
(*                                                                         *)
(* The manager sits behind one mutex, so send_reliably and                 *)
(* maybe_handle_reply are atomic.  The future of a send runs in the task   *)
(* of its caller; between two of its await points it is one step.          *)
(***************************************************************************)
EXTENDS Naturals, FiniteSets

CONSTANTS Sends,          \* calls of send_reliably, one per notification
          Streams,        \* sets of sends that share a packet_tx
          Peers,          \* remote endpoints
          MidSpace,       \* number of message IDs (2^16 in the code)
          MaxRetransmit,  \* TransmissionParameters::max_retransmit
          None            \* "no value", outside of Sends and Peers

ASSUME RetransmissionAssumption ==
  /\ Streams \subseteq SUBSET Sends
  /\ MidSpace \in Nat \ {0}
  /\ MaxRetransmit \in Nat
  /\ None \notin Sends
  /\ Peers # {}

VARIABLES
  nextMid,   \* next_message_id
  unacked,   \* unacknowledged_messages: the send whose ReplyHandle a key holds
  mid,       \* the message ID given to a send
  peer,      \* the endpoint of a send
  stage,     \* where the future of a send is
  attempt,   \* copies of the packet handed to packet_tx so far
  event,     \* value of the watch channel of a send (ReplyEvent)
  result,    \* what into_future returned
  closed,    \* sends whose packet_tx lost its receiver
  panicked,  \* sends whose late reply hit unwrap() in maybe_handle_reply
  answered   \* history: the send whose copy elicited the reply of a send

vars == <<nextMid, unacked, mid, peer, stage, attempt, event, result, closed,
          panicked, answered>>

Mids     == 0 .. MidSpace - 1
Keys     == Mids \X Peers
Replies  == {"Ack", "Reset"}
Events   == Replies \cup {"None", "Reused"}
Failures == {"Reset", "NoReply", "InternalError", "TransmissionError"}
Results  == Failures \cup {"Ok"}
Limit    == MaxRetransmit + 1
Unused   == CHOOSE k \in Keys : TRUE

\* Mutant: a key without the endpoint.
KeyOfIdOnly(s) == <<mid[s], Unused[2]>>

Key(s) == <<mid[s], peer[s]>>
Submitted == {s \in Sends : stage[s] # "idle"}
Live(s) == stage[s] \in {"created", "waiting"}

\* Mutants: an ID past the end of its type, and one ID for every message.
NextMidOverflows(m) == m + 1
NextMidStuck(m) == m

\* u16::wrapping_add(1)
NextMid(m) == IF m = MidSpace - 1 THEN 0 ELSE m + 1

\* Mutant: a Reset taken for an Acknowledgement.
ResultOfAnyReply(e) == IF e = "Reused" THEN "InternalError" ELSE "Ok"

\* The arms of the match on ReplyEvent.
ResultOf(e) == CASE e = "Ack"    -> "Ok"
                 [] e = "Reset"  -> "Reset"
                 [] e = "Reused" -> "InternalError"

Init ==
  /\ nextMid \in Mids
  /\ unacked = [k \in Keys |-> None]
  /\ mid = [s \in Sends |-> Unused[1]]
  /\ peer = [s \in Sends |-> Unused[2]]
  /\ stage = [s \in Sends |-> "idle"]
  /\ attempt = [s \in Sends |-> 0]
  /\ event = [s \in Sends |-> "None"]
  /\ result = [s \in Sends |-> "none"]
  /\ closed = {}
  /\ panicked = {}
  /\ answered = [s \in Sends |-> None]

-----------------------------------------------------------------------------

\* Mutant: the displaced handle is dropped silently.
DisplaceSilently(k) == UNCHANGED event

(* The ReplyHandle that the insert of send s displaces hears of it, unless *)
(* its future is gone: that watch::Sender::send fails and is ignored.      *)
Displace(k) ==
  event' = [o \in Sends |-> IF o = unacked[k] /\ Live(o) THEN "Reused" ELSE event[o]]

(* send_reliably: a message ID, a fresh watch channel, an entry.           *)
Send(s, p) ==
  /\ stage[s] = "idle"
  /\ stage' = [stage EXCEPT ![s] = "created"]
  /\ mid' = [mid EXCEPT ![s] = nextMid]
  /\ peer' = [peer EXCEPT ![s] = p]
  /\ nextMid' = NextMid(nextMid)
  /\ Displace(<<nextMid, p>>)
  /\ unacked' = [unacked EXCEPT ![<<nextMid, p>>] = s]
  /\ UNCHANGED <<attempt, result, closed, panicked, answered>>

Finish(s, r) ==
  /\ stage' = [stage EXCEPT ![s] = "done"]
  /\ result' = [result EXCEPT ![s] = r]

(* One turn of the attempt loop up to its first select!.  A reply that is  *)
(* already in the channel is unseen by the fresh clone of reply_rx, while  *)
(* the new sleep has not elapsed: the future returns in this very poll.    *)
Transmit(s) ==
  \/ /\ s \in closed
     /\ Finish(s, "TransmissionError")
     /\ UNCHANGED attempt
  \/ /\ s \notin closed
     /\ attempt' = [attempt EXCEPT ![s] = @ + 1]
     /\ \/ /\ event[s] = "None"
           /\ stage' = [stage EXCEPT ![s] = "waiting"]
           /\ UNCHANGED result
        \/ /\ event[s] # "None"
           /\ Finish(s, ResultOf(event[s]))

Start(s) ==
  /\ stage[s] = "created"
  /\ Transmit(s)
  /\ UNCHANGED <<nextMid, unacked, mid, peer, event, closed, panicked, answered>>

\* Mutants: one attempt too many, and a last attempt that waits for good.
TimeoutOffByOne(s) ==
  /\ stage[s] = "waiting"
  /\ \/ attempt[s] <= Limit /\ Transmit(s)
     \/ attempt[s] > Limit /\ Finish(s, "NoReply") /\ UNCHANGED attempt
  /\ UNCHANGED <<nextMid, unacked, mid, peer, event, closed, panicked, answered>>

TimeoutWithoutEnd(s) ==
  /\ stage[s] = "waiting"
  /\ attempt[s] < Limit /\ Transmit(s)
  /\ UNCHANGED <<nextMid, unacked, mid, peer, event, closed, panicked, answered>>

(* The sleep wins the select!, also when a reply is ready: the branches    *)
(* are polled in random order.                                             *)
Timeout(s) ==
  /\ stage[s] = "waiting"
  /\ \/ /\ attempt[s] < Limit
        /\ Transmit(s)
     \/ /\ attempt[s] = Limit
        /\ Finish(s, "NoReply")
        /\ UNCHANGED attempt
  /\ UNCHANGED <<nextMid, unacked, mid, peer, event, closed, panicked, answered>>

(* reply_rx.changed() wins the select!.                                    *)
Wake(s) ==
  /\ stage[s] = "waiting"
  /\ event[s] # "None"
  /\ Finish(s, ResultOf(event[s]))
  /\ UNCHANGED <<nextMid, unacked, mid, peer, attempt, event, closed, panicked,
                 answered>>

\* Mutant: get in place of remove.
HandleReplyKeepsEntry(s, t) ==
  /\ attempt[s] > 0
  /\ unacked[Key(s)] # None
  /\ LET owner == unacked[Key(s)]
     IN  \/ /\ Live(owner)
            /\ event' = [event EXCEPT ![owner] = t]
            /\ answered' = [answered EXCEPT ![owner] = s]
            /\ UNCHANGED panicked
         \/ /\ ~Live(owner)
            /\ panicked' = panicked \cup {owner}
            /\ UNCHANGED <<event, answered>>
  /\ UNCHANGED <<nextMid, unacked, mid, peer, stage, attempt, result, closed>>

(* maybe_handle_reply on a reply of type t to a copy of send s: at any     *)
(* time after the copy went out, any number of times, or never.            *)
HandleReply(s, t) ==
  /\ attempt[s] > 0
  /\ unacked[Key(s)] # None       \* else Err(packet): logged and ignored
  /\ unacked' = [unacked EXCEPT ![Key(s)] = None]
  /\ LET owner == unacked[Key(s)]
     IN  \/ /\ Live(owner)
            /\ event' = [event EXCEPT ![owner] = t]
            /\ answered' = [answered EXCEPT ![owner] = s]
            /\ UNCHANGED panicked
         \/ /\ ~Live(owner)       \* send() fails: the task panics
            /\ panicked' = panicked \cup {owner}
            /\ UNCHANGED <<event, answered>>
  /\ UNCHANGED <<nextMid, mid, peer, stage, attempt, result, closed>>

(* The server stops, and the task that relays the responses of a request   *)
(* drops the stream S that receives from packet_tx: the sends of that      *)
(* request, those that follow included, can no longer transmit.            *)
CloseStream(S) ==
  /\ closed' = closed \cup S
  /\ UNCHANGED <<nextMid, unacked, mid, peer, stage, attempt, event, result,
                 panicked, answered>>

Next ==
  \/ \E s \in Sends, p \in Peers : Send(s, p)
  \/ \E s \in Sends : Start(s)
  \/ \E s \in Sends : Timeout(s)
  \/ \E s \in Sends : Wake(s)
  \/ \E s \in Sends, t \in Replies : HandleReply(s, t)
  \/ \E S \in Streams : CloseStream(S)

Spec == Init /\ [][Next]_vars

-----------------------------------------------------------------------------

(* Types of the manager's state and of the futures of its sends.           *)
TypeOK ==
  /\ nextMid \in Mids
  /\ unacked \in [Keys -> Sends \cup {None}]
  /\ mid \in [Sends -> Mids]
  /\ peer \in [Sends -> Peers]
  /\ stage \in [Sends -> {"idle", "created", "waiting", "done"}]
  /\ attempt \in [Sends -> 0 .. Limit]
  /\ event \in [Sends -> Events]
  /\ result \in [Sends -> Results \cup {"none"}]
  /\ closed \in SUBSET Sends
  /\ panicked \in SUBSET Sends
  /\ answered \in [Sends -> Sends \cup {None}]

(* A send that still waits owns the entry of its key: insert and remove    *)
(* never leave a waiting future that no reply can reach.  This is what the *)
(* "Re-used message key" event of send_reliably is for.                    *)
PendingSendIsReachable ==
  \A s \in Sends : Live(s) /\ event[s] = "None" => unacked[Key(s)] = s

(* into_future returns what happened: Ok for an Acknowledgement, Reset for *)
(* a Reset, an internal error only for a reused key, and NoReply only when *)
(* every attempt was spent.                                                *)
OutcomeIsJustified ==
  \A s \in Sends :
    /\ result[s] = "Ok" => event[s] = "Ack"
    /\ result[s] = "Reset" => event[s] = "Reset"
    /\ result[s] = "InternalError" => event[s] = "Reused"
    /\ result[s] = "NoReply" => attempt[s] = Limit
    /\ result[s] = "TransmissionError" => s \in closed

(* A reply is credited to a send only if it came from the peer the send    *)
(* was addressed to and carries its message ID (MessageKey).               *)
AnswerMatchesSend ==
  \A s \in Sends : answered[s] # None =>
    /\ mid[answered[s]] = mid[s]
    /\ peer[answered[s]] = peer[s]

(* As long as the message IDs have not wrapped around, a send is answered  *)
(* by a reply to one of its own copies, however late or duplicated the     *)
(* replies are.                                                            *)
AnswerBelongsToSend ==
  Cardinality(Submitted) <= MidSpace =>
    \A s \in Sends : answered[s] \in {None, s}

(* The strengthening that makes the above inductive: an entry names a      *)
(* submitted send under that send's own key, and one whose future has not  *)
(* heard anything, also when it is over; a future is at the stage its      *)
(* fields say.                                                             *)
EntriesNameTheirSend ==
  \A k \in Keys : unacked[k] # None =>
    /\ stage[unacked[k]] # "idle"
    /\ Key(unacked[k]) = k
    /\ event[unacked[k]] = "None"

StagesAreConsistent ==
  \A s \in Sends :
    /\ stage[s] = "idle" => event[s] = "None" /\ answered[s] = None
    /\ stage[s] \in {"idle", "created"} => attempt[s] = 0
    /\ stage[s] = "waiting" => attempt[s] > 0
    /\ stage[s] = "done" <=> result[s] # "none"
    /\ answered[s] # None => stage[answered[s]] # "idle"

IInv ==
  /\ TypeOK
  /\ EntriesNameTheirSend
  /\ StagesAreConsistent
  /\ PendingSendIsReachable
  /\ OutcomeIsJustified
  /\ AnswerMatchesSend

(* The unwrap in maybe_handle_reply fails for one kind of handle only:     *)
(* that of a send that ran out of attempts or lost its stream, and had     *)
(* heard nothing. A send that was answered, or that lost its key to        *)
(* another one, leaves nothing behind that a repeated or late reply could  *)
(* run into, however they interleave. And a send costs at most one packet  *)
(* its task, as the entry is removed first.                                *)
OnlyAbandonedSendsPanic ==
  /\ \A s \in panicked :
       event[s] = "None" /\ result[s] \in {"NoReply", "TransmissionError"}
  /\ \A k \in Keys : unacked[k] \notin panicked

-----------------------------------------------------------------------------

(* maybe_handle_reply unwraps the result of sending to the waiting future: *)
(* it asserts that the future of an entry is still there.                  *)
LateReplyIsHarmless == panicked = {}

-----------------------------------------------------------------------------

(* A caller sees that its send is pending or what it returned.             *)
Outcomes == [s \in Sends |-> IF Live(s) THEN "pending" ELSE result[s]]

Promise == INSTANCE ReliableSend
             WITH copies <- attempt, heard <- event, outcome <- Outcomes

(* The manager implements what the callers of send_reliably rely on.       *)
PromiseSpec == Promise!Spec
=============================================================================
