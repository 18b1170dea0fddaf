----------------------------- MODULE ObservedApp -----------------------------
(***************************************************************************)
(* do_handle of resource_handler.rs with everything it talks to: the task  *)
(* of a packet in AppHandler is the task of a request in Observe.  A step  *)
(* of do_handle is the step of both, a step of anyone else is a step of    *)
(* one and leaves the other alone.                                         *)
(*                                                                         *)
(* The server runs: no stream of responses is dropped.  The app has one    *)
(* observable resource at most, the one that Observe is about.             *)
(***************************************************************************)
EXTENDS AppHandler

CONSTANTS Tokens,      \* tokens of requests; a RegistrationKey is a peer with one
          Paths, Prefix, Slash, Notifiers, MaxVersion, NumSpace, StartNums,
          HandlerNumber

IsObservation(pk) == pk.observe \in {"register", "deregister"}

ASSUME ObservedAssumption ==
  /\ \A a \in DOMAIN Apps : \A i, j \in DOMAIN Apps[a].resources :
       Apps[a].resources[i].observable /\ Apps[a].resources[j].observable => i = j
  /\ \A pk \in Packets : IsObservation(pk) => pk.path \in Paths
  /\ Tokens # {}
  /\ MaxVersion \in Nat /\ NumSpace \in Nat \ {0}
  /\ StartNums \subseteq 0 .. NumSpace - 1 /\ StartNums # {}
  /\ None \notin Exchanges \cup Notifiers \cup (Peers \X Tokens) \cup (0 .. NumSpace - 1)
  /\ Paths # {}
  /\ HandlerNumber \in [Paths \X (0 .. MaxVersion) -> 0 .. NumSpace - 1 \cup {None}]

\* Observe
VARIABLES version, lock, byPath, regs, phase, place, number, chan, pub, holder,
          reading, pc, client, path, flag, body, act, seen, base, term, num, last,
          npc, todo, at, newNum

VARIABLE carried  \* history: version of the resource in a notification

O == INSTANCE Observe WITH Requests <- Exchanges, Clients <- Peers \X Tokens

observation == <<version, lock, byPath, regs, phase, place, number, chan, pub, holder,
                 reading, pc, client, path, flag, body, act, seen, base, term, num,
                 last, npc, todo, at, newNum>>
all == <<vars, observation, carried>>

ObservedInit == Init /\ O!Init /\ carried = [s \in Notifications |-> 0]

-----------------------------------------------------------------------------
(* do_handle                                                               *)

Concerned(e) ==
  /\ HasResponse(e) /\ IsObservation(packet[e])
  /\ App.resources[Resource(e)].observable

FlagOf(e) == IF packet[e].observe = "register" THEN "Register" ELSE "Deregister"

(* The handler has answered a request that the registry is to hear of,     *)
(* which the response waits for.                                           *)
Report(e) ==
  /\ task[e] = "handling" /\ Concerned(e)
  /\ \E t \in Tokens : O!Respond(e, <<from[e], t>>, packet[e].path, FlagOf(e))
  /\ UNCHANGED <<vars, carried>>

(* Steps of the loop, and of the registration, that nobody else sees.      *)
Proceed(e) ==
  /\ O!Lock(e) \/ O!Subscribe(e) \/ O!Wake(e) \/ O!Borrow(e)
  /\ UNCHANGED <<vars, carried>>

(* The registry has what it asked for: the response goes out.              *)
Finish(e) ==
  /\ \/ O!Register(e) \/ O!Deregister(e)
     \/ task[e] = "handling" /\ ~Concerned(e) /\ UNCHANGED observation
  /\ Respond(e)
  /\ UNCHANGED carried

FailFirst(e) ==
  /\ task[e] = "handling" /\ pc[e] = "idle"
  /\ \E code \in ErrorCodes \cup {None} : Fail(e, code)
  /\ UNCHANGED <<observation, carried>>

(* ResourceChanged: the response of the handler goes to the manager, or    *)
(* its error to the client.                                                *)
Inform(e) ==
  /\ O!Notify(e)
  /\ \/ /\ pc'[e] = "sending"
        /\ Notify(e)
        /\ carried' = [carried EXCEPT ![<<e, Sent(e) + 1>>] = body'[e]]
     \/ /\ pc'[e] = "done"
        /\ \E code \in ErrorCodes \cup {None} : Fail(e, code)
        /\ UNCHANGED carried

Resume(e) ==
  /\ O!SendReturns(e) /\ SendReturns(e)
  /\ pc'[e] = task'[e]
  /\ UNCHANGED carried

Stop(e) == O!Terminated(e) /\ Terminate(e) /\ UNCHANGED carried

(* The task before do_handle, the futures of its sends and the replies.    *)
AppStep ==
  /\ \/ \E e \in Exchanges, pk \in Packets, p \in Peers : Handle(e, pk, p)
     \/ \E e \in Exchanges : HandlePacket(e)
     \/ \E s \in Notifications : SendStep(s)
     \/ \E s \in Notifications, t \in R!Replies : HandleReply(s, t)
  /\ UNCHANGED <<observation, carried>>

(* on_active of each path and what changes the resource.                   *)
ResourceStep ==
  /\ \/ \E a \in Exchanges : O!ActiveStep(a)
     \/ \E n \in Notifiers : O!Change(n) \/ O!NotifyStep(n)
  /\ UNCHANGED <<vars, carried>>

DoHandle(e) ==
  \/ Report(e) \/ Proceed(e) \/ Finish(e) \/ FailFirst(e)
  \/ Inform(e) \/ Resume(e) \/ Stop(e)

ObservedNext == (\E e \in Exchanges : DoHandle(e)) \/ AppStep \/ ResourceStep

ObservedSpec == ObservedInit /\ [][ObservedNext]_all

(* The runtime runs some task that can run, timers fire, and handlers      *)
(* return.  As requests and changes are bounded, every task runs in time.  *)
(* select! polls its branches in random order, so the termination branch   *)
(* is taken if it is ready again and again.                                *)
SystemStep ==
  \/ \E e \in Exchanges : DoHandle(e)
  \/ /\ (\E e \in Exchanges : HandlePacket(e)) \/ (\E s \in Notifications : SendStep(s))
     /\ UNCHANGED <<observation, carried>>
  \/ /\ (\E a \in Exchanges : O!ActiveStep(a)) \/ (\E n \in Notifiers : O!NotifyStep(n))
     /\ UNCHANGED <<vars, carried>>

ObservedFairness ==
  /\ WF_all(SystemStep)
  /\ \A e \in Exchanges : SF_all(Stop(e))

ObservedFairSpec == ObservedSpec /\ ObservedFairness

-----------------------------------------------------------------------------

(* An observer that rests, and has seen all that was published since it    *)
(* subscribed, has the state of the last publication or a later one: it is *)
(* in a notification of its loop (resource_handler.rs:97-142) that was     *)
(* acknowledged, by the very client that the registration is for, although *)
(* its Acknowledgement came through the manager that all tasks share.      *)
LastPublicationWasAcknowledged ==
  \A e \in Exchanges :
    pc[e] = "parked" /\ seen[e] = chan[act[e]].ver /\ seen[e] # base[e] =>
      \E s \in {e} \X (1 .. MaxNotify[e]) :
        /\ carried[s] >= pub[act[e]]
        /\ result[s] = "Ok" /\ answered[s] # None
        /\ from[answered[s][1]] = client[e][1]

(* notify_change (observers.rs:143-164) reaches each client that observes: *)
(* again and again it has acknowledged the state of the last publication   *)
(* since it subscribed, or a later one, unless its observation is over.    *)
ObserversCatchUp ==
  \A e \in Exchanges : []<>(
    O!Listening(e) /\ ~term[e] /\ chan[act[e]].ver # base[e] =>
      \E s \in {e} \X (1 .. MaxNotify[e]) :
        carried[s] >= pub[act[e]] /\ result[s] = "Ok")

(* A loop that was told to stop (observe_handler.rs:163-169) does, in      *)
(* spite of a channel that stays ready because its senders are gone, and   *)
(* of a send that it has to wait for first.                                *)
TerminatedLoopStops == \A e \in Exchanges : []<>(term[e] => pc[e] = "done")

(* An activation without observers ends: on_active returns and the path is *)
(* released (observe_handler.rs:171-190), or an observer subscribes in     *)
(* time.  Registrations of loops that failed do not keep it.               *)
IdlePathIsReleased ==
  \A a \in Exchanges : []<>(
    O!OnActive(a) \/ phase[a] = "returned" => O!Receivers(a) # {})
=============================================================================
