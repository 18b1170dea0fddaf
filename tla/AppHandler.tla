----------------------------- MODULE AppHandler -----------------------------
(***************************************************************************)
(* app_handler.rs and resource_handler.rs: what the task of one packet     *)
(* does, from the dispatch over the packet's class to the end of the       *)
(* observation it may have started, over the table of AppBuilder and with  *)
(* the notifications of Retransmission.                                    *)
(*                                                                         *)
(* The application's handlers and coap-lite's block handler are external:  *)
(* either answers or fails.  Who registers, is told to stop or sees which  *)
(* change is the subject of Observe; here a loop that is parked may be     *)
(* woken or ended at any time.                                             *)
(***************************************************************************)
EXTENDS AppBuilder, FiniteSets

CONSTANTS Exchanges,      \* packets handled, and the task of each
          MaxNotify,      \* bound on the notifications of an exchange
          Apps,           \* what applications build, by a name (bound)
          Packets,        \* [class, type, path, method, observe, query] (bound)
          Peers, MidSpace, MaxRetransmit, None

Elements(s) == {s[i] : i \in DOMAIN s}
IsSequence(s) == s \in Seq(Elements(s))

ASSUME AppAssumption ==
  /\ MaxNotify \in [Exchanges -> Nat]
  /\ IsSequence(CorePath)
  /\ \A a \in DOMAIN Apps :
       /\ Apps[a].listing \in BOOLEAN /\ IsSequence(Apps[a].resources)
       /\ \A i \in DOMAIN Apps[a].resources :
            /\ IsSequence(Apps[a].resources[i].path)
            /\ IsSequence(Apps[a].resources[i].link.attributes)
  /\ \A pk \in Packets : IsSequence(pk.path) /\ IsSequence(pk.query)
  /\ MidSpace \in Nat \ {0} /\ MaxRetransmit \in Nat /\ Peers # {}
  /\ None \notin Exchanges \X Nat

VARIABLES
  app, table,  \* the name of the app and its handlers_by_path
  packet,      \* the packet of an exchange
  from,        \* its peer
  task,        \* where handle_packet is
  out,         \* what it sent, other than notifications
  gone         \* exchanges whose stream was dropped

\* RetransmissionManager
VARIABLES nextMid, unacked, mid, peer, stage, attempt, event, result, panicked,
          answered

manager == <<nextMid, unacked, mid, peer, stage, attempt, event, result, panicked,
             answered>>
vars == <<app, table, packet, from, task, out, gone, manager>>

\* IntoHandler for AppBuilder.
Built == [a \in DOMAIN Apps |-> FromBuilder(Apps[a])]
App == Built[app]

Notifications == UNION {{e} \X (1 .. MaxNotify[e]) : e \in Exchanges}

R == INSTANCE Retransmission
       WITH Sends <- Notifications,
            Streams <- {{e} \X (1 .. MaxNotify[e]) : e \in Exchanges},
            closed <- {s \in Notifications : s[1] \in gone}

Init ==
  /\ app \in DOMAIN Apps
  /\ table \in Tables(App)
  /\ packet = [e \in Exchanges |-> None]
  /\ from = [e \in Exchanges |-> None]
  /\ task = [e \in Exchanges |-> "none"]
  /\ out = [e \in Exchanges |-> <<>>]
  /\ gone = {}
  /\ R!Init

-----------------------------------------------------------------------------

Become(e, t) == task' = [task EXCEPT ![e] = t]
Matched(e) == Lookup(table, packet[e].path)
Resource(e) == table[UpTo(packet[e].path, Matched(e))]
Unmatched(e) == SubSeq(packet[e].path, Matched(e) + 1, Len(packet[e].path))

(* CoapResponse::new: an Acknowledgement of a Confirmable packet, a        *)
(* Non-Confirmable message of a Non-Confirmable one, and always the        *)
(* message ID of the packet; there is no response to other types.          *)
HasResponse(e) == packet[e].type \in {"Con", "Non"}
ResponseType(e) == IF packet[e].type = "Con" THEN "Ack" ELSE "Non"

ErrorCodes == {"HandlerError"}
Failure(e, code) == [type |-> ResponseType(e), code |-> code]

(* The response of a handler; the core handler's has links in it.          *)
Response(e) ==
  [type |-> ResponseType(e), code |-> "Content", by |-> Resource(e),
   rest |-> Unmatched(e),
   links |-> IF Resource(e) = App.core THEN Listing(App, packet[e].query) ELSE {}]

\* Mutant: a failure is logged and nobody is told.
EndWithSilently(e, m) == Become(e, "done") /\ UNCHANGED out

(* tx.send(m).unwrap() as the last thing that the task does.               *)
EndWith(e, m) ==
  \/ /\ e \notin gone
     /\ out' = [out EXCEPT ![e] = Append(@, m)]
     /\ Become(e, "done")
  \/ /\ e \in gone
     /\ Become(e, "panicked")
     /\ UNCHANGED out

(* handle_get: an error that has a code, and a response to go into, ends   *)
(* the task with it; any other one is passed over.                         *)
EndWithError(e, code) ==
  \/ /\ HasResponse(e) /\ code # None
     /\ EndWith(e, Failure(e, code))
  \/ /\ ~HasResponse(e) \/ code = None
     /\ Become(e, "ignored")
     /\ UNCHANGED out

(* PacketHandler::handle spawns a task for a packet.                       *)
Handle(e, pk, p) ==
  /\ task[e] = "none"
  /\ Become(e, "spawned")
  /\ packet' = [packet EXCEPT ![e] = pk]
  /\ from' = [from EXCEPT ![e] = p]
  /\ UNCHANGED <<app, table, out, gone, manager>>

(* get_path_as_vec().                                                      *)
IsText(path) == \A i \in DOMAIN path : path[i] # NotText

(* handle_packet: a ping is answered, a request goes to the handler of its *)
(* resource and method, what else arrives is ignored.                      *)
HandlePacket(e) ==
  /\ task[e] = "spawned"
  /\ \/ /\ packet[e].class = "Empty" /\ packet[e].type = "Con"
        /\ EndWith(e, [type |-> "Reset", code |-> "Empty"])
     \/ /\ \/ packet[e].class = "Empty" /\ packet[e].type = "Non"
           \/ packet[e].class \in {"Response", "Reserved"}
        /\ Become(e, "ignored")
        /\ UNCHANGED out
     \/ /\ packet[e].class = "Request" /\ ~IsText(packet[e].path)
        /\ EndWithError(e, "BadRequest")
     \/ /\ packet[e].class = "Request" /\ IsText(packet[e].path)
        /\ \/ Matched(e) = NoMatch /\ EndWithError(e, "NotFound")
           \/ /\ Matched(e) # NoMatch
              /\ ~Handles(App, Resource(e), packet[e].method)
              /\ EndWithError(e, "MethodNotAllowed")
           \/ /\ Matched(e) # NoMatch
              /\ Handles(App, Resource(e), packet[e].method)
              /\ Become(e, "handling")
              /\ UNCHANGED out
  /\ UNCHANGED <<app, table, packet, from, gone, manager>>

(* handle_packet, an Acknowledgement or Reset: a peer replies to a copy of *)
(* notification s.  What it meets in the manager does not touch out.       *)
HandleReply(s, t) ==
  /\ UNCHANGED <<app, table, packet, from, task, out, gone>>
  /\ R!HandleReply(s, t)

Registers(e) ==
  /\ App.resources[Resource(e)].observable
  /\ packet[e].observe = "register"

(* An Observe option that is neither 0 nor 1 is looked at by the           *)
(* registration only.                                                      *)
Misregisters(e) ==
  /\ App.resources[Resource(e)].observable
  /\ packet[e].observe = "invalid"

(* do_handle, its first part: the block handler or the method's handler    *)
(* has answered, and a request to observe an observable resource parks.    *)
(* new_response(), which handlers start from, panics without a response to *)
(* the type of the packet.                                                 *)
Respond(e) ==
  /\ task[e] = "handling"
  /\ \/ /\ ~HasResponse(e)
        /\ Become(e, "panicked")
        /\ UNCHANGED out
     \/ /\ HasResponse(e) /\ Misregisters(e)
        /\ EndWithError(e, "BadRequest")
     \/ /\ HasResponse(e) /\ ~Misregisters(e) /\ ~Registers(e)
        /\ EndWith(e, Response(e))
     \/ /\ HasResponse(e) /\ Registers(e) /\ e \notin gone
        /\ out' = [out EXCEPT ![e] = Append(@, Response(e))]
        /\ Become(e, "parked")
     \/ /\ HasResponse(e) /\ Registers(e) /\ e \in gone
        /\ Become(e, "panicked")
        /\ UNCHANGED out
  /\ UNCHANGED <<app, table, packet, from, gone, manager>>

\* Mutant: the loop goes on after a notification that could not be made.
FailAndStay(e, code) ==
  /\ task[e] \in {"handling", "parked"}
  /\ e \notin gone
  /\ out' = [out EXCEPT ![e] = Append(@, Failure(e, code))]
  /\ Become(e, IF task[e] = "handling" THEN "done" ELSE "parked")
  /\ UNCHANGED <<app, table, packet, from, gone, manager>>

(* Any of them failed, also when it made a notification: handle_get sends  *)
(* the error under the message ID of the request, unless it has no code.   *)
Fail(e, code) ==
  /\ task[e] \in {"handling", "parked"}
  /\ EndWithError(e, code)
  /\ UNCHANGED <<app, table, packet, from, gone, manager>>

-----------------------------------------------------------------------------
(* The loop of an observation.                                             *)

Sent(e) == Cardinality({n \in 1 .. MaxNotify[e] : stage[<<e, n>>] # "idle"})

(* notify_rx.changed(): the handler makes a response, and the manager is   *)
(* asked to send it.                                                       *)
Notify(e) ==
  /\ task[e] = "parked"
  /\ Sent(e) < MaxNotify[e]
  /\ Become(e, "sending")
  /\ UNCHANGED <<app, table, packet, from, out, gone>>
  /\ R!Send(<<e, Sent(e) + 1>>, from[e])

\* Mutant: the result is not looked at.
SendReturnsWhatever(e) ==
  /\ task[e] = "sending"
  /\ stage[<<e, Sent(e)>>] = "done"
  /\ Become(e, "parked")
  /\ UNCHANGED <<app, table, packet, from, out, gone, manager>>

(* send_handle.into_future().await                                         *)
SendReturns(e) ==
  /\ task[e] = "sending"
  /\ stage[<<e, Sent(e)>>] = "done"
  /\ \/ result[<<e, Sent(e)>>] = "Ok" /\ Become(e, "parked")
     \/ result[<<e, Sent(e)>>] # "Ok" /\ Become(e, "done")
  /\ UNCHANGED <<app, table, packet, from, out, gone, manager>>

(* termination_rx                                                          *)
Terminate(e) ==
  /\ task[e] = "parked"
  /\ Become(e, "done")
  /\ UNCHANGED <<app, table, packet, from, out, gone, manager>>

(* The future of a send, which the task of the exchange polls.             *)
SendStep(s) ==
  /\ UNCHANGED <<app, table, packet, from, task, out, gone>>
  /\ R!Start(s) \/ R!Timeout(s) \/ R!Wake(s)

(* The server has stopped: the stream of the exchange is dropped.          *)
DropStream(e) ==
  /\ task[e] # "none" /\ e \notin gone
  /\ gone' = gone \cup {e}
  /\ UNCHANGED <<app, table, packet, from, task, out, manager>>

Next ==
  \/ \E e \in Exchanges, pk \in Packets, p \in Peers : Handle(e, pk, p)
  \/ \E e \in Exchanges :
       \/ HandlePacket(e)
       \/ Respond(e)
       \/ \E code \in ErrorCodes \cup {None} : Fail(e, code)
       \/ Notify(e) \/ SendReturns(e) \/ Terminate(e)
       \/ DropStream(e)
  \/ \E s \in Notifications : SendStep(s)
  \/ \E s \in Notifications, t \in R!Replies : HandleReply(s, t)

Spec == Init /\ [][Next]_vars

(* The runtime polls the tasks, a timer fires, and the application's       *)
(* handlers and the block handler return.  At any time a task can take     *)
(* steps of one of these kinds only.                                       *)
TaskStep(e) ==
  \/ HandlePacket(e)
  \/ task[e] = "handling" /\ (Respond(e) \/ \E c \in ErrorCodes \cup {None} : Fail(e, c))
  \/ SendReturns(e)

Fairness ==
  /\ \A e \in Exchanges : WF_vars(TaskStep(e))
  /\ \A s \in Notifications : WF_vars(SendStep(s))

FairSpec == Spec /\ Fairness

-----------------------------------------------------------------------------

Tasks == {"none", "spawned", "handling", "parked", "sending", "done", "ignored",
          "panicked"}

(* Types of the table, the tasks and the manager that they share.          *)
TypeOK ==
  /\ app \in DOMAIN Apps
  /\ table \in Tables(App)
  /\ packet \in [Exchanges -> Packets \cup {None}]
  /\ from \in [Exchanges -> Peers \cup {None}]
  /\ task \in [Exchanges -> Tasks]
  /\ \A e \in Exchanges : Len(out[e]) <= 2
  /\ gone \in SUBSET Exchanges
  /\ R!TypeOK

(* A request is answered once under its message ID, by the resource whose  *)
(* path is the longest one on the way of the request's path, with the rest *)
(* of that path, and with 4.04 only if no resource is on the way.          *)
Keys == {KeyOf(App, i) : i \in DOMAIN App.resources}

RoutedToMostSpecific ==
  \A e \in Exchanges : out[e] # <<>> /\ packet[e].class = "Request" =>
    LET answer == out[e][1]
        onWay  == {UpTo(packet[e].path, d) : d \in 0 .. Len(packet[e].path)} \cap Keys
    IN  /\ answer.code = "NotFound" <=> IsText(packet[e].path) /\ onWay = {}
        /\ answer.code = "Content" =>
             /\ KeyOf(App, answer.by) \in onWay
             /\ \A k \in onWay : Len(k) <= Len(KeyOf(App, answer.by))
             /\ KeyOf(App, answer.by) \o answer.rest = packet[e].path

(* Each link of an answer to /.well-known/core can be followed: a resource *)
(* is found under its whole path, and it is the one that was listed, if no *)
(* two resources have the same path but for slashes.                       *)
Names(written, n) == {i \in 1 .. n : written[i] # Empty}

Segments(written) ==
  [n \in 1 .. Cardinality(Names(written, Len(written))) |->
     LET i == CHOOSE j \in Names(written, Len(written)) : Cardinality(Names(written, j)) = n
     IN  written[i]]

DiscoveryIsServed ==
  \A e \in Exchanges : out[e] # <<>> /\ out[e][1].code = "Content" =>
    \A i \in out[e][1].links :
      LET path == Segments(App.resources[i].path)
      IN  /\ Lookup(table, path) = Len(path)
          /\ PathsAreDistinct(App) => table[path] = i

(* A listing has exactly the links that show each attribute asked for with *)
(* the value that was asked for last, where an option without a value, or  *)
(* one that is not text, asks for nothing.  A link that has an attribute   *)
(* twice may be missing.                                                   *)
Asked(options) ==
  {<<options[n][1], options[n][2]>> :
     n \in {m \in DOMAIN options :
             /\ IsQuery(options[m])
             /\ \A l \in m + 1 .. Len(options) :
                  IsQuery(options[l]) => options[l][1] # options[m][1]}}

Shown(i) ==
  LET attributes == App.resources[i].discoverable.link.attributes IN
  {<<attributes[n][1], attributes[n][2].text>> : n \in DOMAIN attributes}

DiscoveryMatchesQuery ==
  \A e \in Exchanges :
    out[e] # <<>> /\ out[e][1].code = "Content" /\ out[e][1].by = App.core =>
      \A i \in App.links :
        /\ i \in out[e][1].links => Asked(packet[e].query) \subseteq Shown(i)
        /\ (/\ Asked(packet[e].query) \subseteq Shown(i)
            /\ \A v, w \in Shown(i) : v[1] = w[1] => v = w)
             => i \in out[e][1].links

(* A message under the ID of a request is its answer; a second one is the  *)
(* error of a notification, after which the observation is over.           *)
AnsweredOnce ==
  \A e \in Exchanges : Len(out[e]) > 1 =>
    /\ Len(out[e]) = 2
    /\ Registers(e) /\ out[e][1].code = "Content"
    /\ out[e][2].code \in ErrorCodes
    /\ task[e] = "done"

(* A notification goes out only after the answer to its request, and after *)
(* the one before it was acknowledged: none follows a Reset or a failure.  *)
NotificationsInTurn ==
  \A e \in Exchanges : \A n \in 1 .. MaxNotify[e] : stage[<<e, n>>] # "idle" =>
    /\ out[e] # <<>>
    /\ \A m \in 1 .. n - 1 : result[<<e, m>>] = "Ok"

(* The Ok that lets an observation go on stands for an Acknowledgement by  *)
(* the client of that observation, to a copy of a message that was sent to *)
(* it: the manager that all exchanges share does not mix them up.          *)
AcknowledgedByItsClient ==
  \A s \in Notifications : result[s] = "Ok" =>
    /\ answered[s] # None
    /\ from[answered[s][1]] = from[s[1]]

(* A task that waits for its send goes on: every notification that was     *)
(* handed to the manager returns, whatever the peers do or omit and        *)
(* however the exchanges share message IDs, and its result is taken.       *)
ObservationsGoOn ==
  \A e \in Exchanges : (task[e] = "sending") ~> (task[e] # "sending")

(* A request of a type that has responses is answered, unless its          *)
(* handler's error has no code or its stream was dropped.                  *)
RequestsAreAnswered ==
  \A e \in Exchanges :
    (task[e] = "spawned" /\ packet[e].class = "Request" /\ HasResponse(e))
      ~> (out[e] # <<>> \/ task[e] = "ignored" \/ e \in gone)
=============================================================================
