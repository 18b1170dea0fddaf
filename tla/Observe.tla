------------------------------ MODULE Observe -------------------------------
(***************************************************************************)
(* RFC 7641 observation of one observable resource: the registry of        *)
(* app/observe_handler.rs, the channels of app/observers.rs, the task that *)
(* app/resource_handler.rs runs for a request and the on_active task of    *)
(* each path that is observed.                                             *)
(*                                                                         *)
(* Tasks run on several threads, so a step of the model is what a task     *)
(* does between two points where another task can see or change what it    *)
(* uses: an await, or the release of a lock.  The resource is a version    *)
(* number; a response carries the version its handler read.  on_active is  *)
(* the documented one: attach, stay_active, detach.                        *)
(***************************************************************************)
EXTENDS Naturals, Sequences, FiniteSets

CONSTANTS Requests,    \* handler tasks of requests with an Observe option
          Clients,     \* RegistrationKeys: a peer with a token
          Paths,       \* request paths below the resource, as segments
          Prefix,      \* the path of the resource, as its string was written
          Slash,       \* the separator in that string
          Notifiers,   \* tasks that change the resource and notify
          MaxVersion,  \* bound on the number of changes
          NumSpace,    \* number of sequence numbers (2^24 in the code)
          StartNums,   \* numbers a fresh sequence may start from (bound)
          HandlerNumber, \* the Observe value that the handler sets for a path
                       \* and a version, or None
          None

ASSUME ObserveAssumption ==
  /\ MaxVersion \in Nat
  /\ NumSpace \in Nat \ {0}
  /\ StartNums \subseteq 0 .. NumSpace - 1 /\ StartNums # {}
  /\ None \notin Requests \cup Notifiers \cup Clients \cup (0 .. NumSpace - 1)
  /\ Clients # {} /\ Paths # {}
  /\ HandlerNumber \in [Paths \X (0 .. MaxVersion) -> 0 .. NumSpace - 1 \cup {None}]

VARIABLES
  version,  \* the resource: how often it changed
  \* ObserveHandler, behind the lock of registrations_by_path.  The task of
  \* on_active, its Observers and its channel are named by the request that
  \* created them.
  lock,     \* the request that holds registrations_by_path
  byPath,   \* registrations_by_path: the activation of a path
  regs,     \* its registrations: the request whose loop serves a client
  \* activations
  phase,    \* where handle_on_active_lifecycle is
  place,    \* its path_key
  number,   \* Observers::change_num
  chan,     \* the watch channel: its number and its version
  pub,      \* history: version of the resource at the last publication
  \* ObserversHolder
  holder,   \* attached Observers by relative path key
  reading,  \* notifiers that hold its read lock
  \* request tasks
  pc, client, path, flag,
  body,     \* version in the response or notification at hand
  act,      \* the activation whose channel notify_rx belongs to
  seen,     \* channel version that notify_rx has seen
  base,     \* history: channel version at subscription
  term,     \* termination_tx was used
  num,      \* number for the notification at hand
  last,     \* the Observe value sent last
  \* notifiers
  npc, todo, at, newNum

requestVars  == <<pc, client, path, flag, body, act, seen, base, term, num, last>>
registryVars == <<lock, byPath, regs>>
activeVars   == <<phase, place, number, chan, pub>>
holderVars   == <<holder, reading>>
notifierVars == <<npc, todo, at, newNum>>
vars == <<version, requestVars, registryVars, activeVars, holderVars, notifierVars>>

PM  == INSTANCE PathMatcher WITH Empty <- Slash
U24 == INSTANCE U24 WITH Space <- NumSpace, Wide <- 256 * NumSpace, Byte <- 256

Nums == 0 .. NumSpace - 1

\* Mutants: no wrap-around, and a sequence that counts down.
NextNumOverflows(n) == n + 1
NextNumDown(n) == IF n = 0 THEN NumSpace - 1 ELSE n - 1

NextNum(n) == U24!WrappingAdd(n, 1)

(* get_path() joins the segments of a request with slashes.                *)
Joined(p) ==
  [i \in 1 .. 2 * Len(p) - 1 |-> IF i % 2 = 1 THEN p[(i + 1) \div 2] ELSE Slash]

(* s.replace(&prefix, ""): every occurrence, from left to right.           *)
WithoutPrefix(s) ==
  LET Found(i) == Prefix # <<>> /\ SubSeq(s, i, i + Len(Prefix) - 1) = Prefix
      from[i \in 1 .. Len(s) + 1] ==
        IF i = Len(s) + 1 THEN <<>>
        ELSE IF i + Len(Prefix) - 1 <= Len(s) /\ Found(i) THEN from[i + Len(Prefix)]
        ELSE <<s[i]>> \o from[i + 1]
  IN  from[1]

(* Observers::relative_path_key of the Observers that a path gets.  As the *)
(* joined path has no slash in front, a resource written with one keeps    *)
(* its own segments in the key of its own path.                            *)
RelKey  == [p \in Paths |-> PM!KeyFromPath(WithoutPrefix(Joined(p)))]
RelKeys == {RelKey[p] : p \in Paths}

(* The Observe value of a message: the handler's own, else number n.       *)
Value(p, v, n) == IF HandlerNumber[<<p, v>>] = None THEN n ELSE HandlerNumber[<<p, v>>]

Subscribed == {"subscribed", "parked", "woken", "numbered", "sending"}
Listening(r) == pc[r] \in Subscribed \ {"subscribed"}
Receivers(a) == {r \in Requests : act[r] = a /\ pc[r] \in Subscribed}
OnActive(a)  == phase[a] \in {"spawned", "attached", "closed"}

Init ==
  /\ version = 0
  /\ lock = None
  /\ byPath = [p \in Paths |-> None]
  /\ regs = [p \in Paths |-> [c \in Clients |-> None]]
  /\ phase = [a \in Requests |-> "free"]
  /\ place = [a \in Requests |-> None]
  /\ number = [a \in Requests |-> 0]
  /\ chan = [a \in Requests |-> [num |-> 0, ver |-> 0]]
  /\ pub = [a \in Requests |-> 0]
  /\ holder = [k \in RelKeys |-> None]
  /\ reading = {}
  /\ pc = [r \in Requests |-> "idle"]
  /\ client = [r \in Requests |-> None]
  /\ path = [r \in Requests |-> None]
  /\ flag = [r \in Requests |-> None]
  /\ body = [r \in Requests |-> 0]
  /\ act = [r \in Requests |-> None]
  /\ seen = [r \in Requests |-> 0]
  /\ base = [r \in Requests |-> 0]
  /\ term = [r \in Requests |-> FALSE]
  /\ num = [r \in Requests |-> 0]
  /\ last = [r \in Requests |-> None]
  /\ npc = [n \in Notifiers |-> "idle"]
  /\ todo = [n \in Notifiers |-> {}]
  /\ at = [n \in Notifiers |-> None]
  /\ newNum = [n \in Notifiers |-> 0]

Goto(r, there) == pc' = [pc EXCEPT ![r] = there]

-----------------------------------------------------------------------------
(* The task of a request: do_handle.                                       *)

(* The handler runs and prepares a response, before any registration.      *)
Respond(r, c, p, f) ==
  /\ pc[r] = "idle"
  /\ Goto(r, "answered")
  /\ client' = [client EXCEPT ![r] = c]
  /\ path' = [path EXCEPT ![r] = p]
  /\ flag' = [flag EXCEPT ![r] = f]
  /\ body' = [body EXCEPT ![r] = version]
  /\ UNCHANGED <<version, act, seen, base, term, num, last, registryVars,
                 activeVars, holderVars, notifierVars>>

(* Register: lock the registry; the first observer of a path creates its   *)
(* Observers, whose channel has no receiver yet, and spawns on_active.     *)
Lock(r) ==
  /\ pc[r] = "answered" /\ flag[r] = "Register"
  /\ lock = None
  /\ lock' = r
  /\ Goto(r, "locked")
  /\ \/ /\ byPath[path[r]] # None
        /\ UNCHANGED <<byPath, activeVars>>
     \/ /\ byPath[path[r]] = None
        /\ byPath' = [byPath EXCEPT ![path[r]] = r]
        /\ phase' = [phase EXCEPT ![r] = "spawned"]
        /\ place' = [place EXCEPT ![r] = path[r]]
        /\ \E n \in StartNums :
             /\ number' = [number EXCEPT ![r] = n]
             /\ chan' = [chan EXCEPT ![r] = [num |-> n, ver |-> 0]]
        /\ UNCHANGED pub
  /\ UNCHANGED <<version, client, path, flag, body, act, seen, base, term, num,
                 last, regs, holderVars, notifierVars>>

(* notify_change_tx.subscribe(): what was published before counts as seen. *)
Subscribe(r) ==
  /\ pc[r] = "locked"
  /\ Goto(r, "subscribed")
  /\ act' = [act EXCEPT ![r] = byPath[path[r]]]
  /\ seen' = [seen EXCEPT ![r] = chan[byPath[path[r]]].ver]
  /\ base' = [base EXCEPT ![r] = chan[byPath[path[r]]].ver]
  /\ UNCHANGED <<version, client, path, flag, body, term, num, last,
                 registryVars, activeVars, holderVars, notifierVars>>

(* maybe_shutdown_single_observer; a loop that is gone hears nothing.      *)
Terminate(tasks) ==
  term' = [r \in Requests |-> term[r] \/ (r \in tasks /\ Listening(r))]

\* Mutant: the registration that is replaced is not ended.
RegisterOver(r) ==
  /\ pc[r] = "subscribed"
  /\ Goto(r, "parked")
  /\ last' = [last EXCEPT ![r] = Value(path[r], body[r], chan[act[r]].num)]
  /\ regs' = [regs EXCEPT ![path[r]][client[r]] = r]
  /\ lock' = None
  /\ UNCHANGED <<version, client, path, flag, body, act, seen, base, term, num,
                 byPath, activeVars, holderVars, notifierVars>>

(* Number the response, enter the registration, end the one it replaces,   *)
(* release the registry and send the response.                             *)
Register(r) ==
  /\ pc[r] = "subscribed"
  /\ Goto(r, "parked")
  /\ last' = [last EXCEPT ![r] = Value(path[r], body[r], chan[act[r]].num)]
  /\ regs' = [regs EXCEPT ![path[r]][client[r]] = r]
  /\ Terminate({regs[path[r]][client[r]]})
  /\ lock' = None
  /\ UNCHANGED <<version, client, path, flag, body, act, seen, base, num, byPath,
                 activeVars, holderVars, notifierVars>>

\* Mutant: the last registration of a path takes the path with it.
DeregisterPath(r) ==
  /\ pc[r] = "answered" /\ flag[r] = "Deregister"
  /\ lock = None
  /\ Goto(r, "done")
  /\ regs' = [regs EXCEPT ![path[r]][client[r]] = None]
  /\ Terminate({regs[path[r]][client[r]]})
  /\ byPath' = IF \A c \in Clients : regs'[path[r]][c] = None
               THEN [byPath EXCEPT ![path[r]] = None] ELSE byPath
  /\ UNCHANGED <<version, client, path, flag, body, act, seen, base, num, last,
                 lock, activeVars, holderVars, notifierVars>>

Deregister(r) ==
  /\ pc[r] = "answered" /\ flag[r] = "Deregister"
  /\ lock = None
  /\ Goto(r, "done")
  /\ regs' = [regs EXCEPT ![path[r]][client[r]] = None]
  /\ Terminate({regs[path[r]][client[r]]})
  /\ UNCHANGED <<version, client, path, flag, body, act, seen, base, num, last,
                 lock, byPath, activeVars, holderVars, notifierVars>>

\* Mutant: a biased select! that prefers notify_rx.changed().
TerminatedLast(r) ==
  /\ pc[r] = "parked" /\ term[r]
  /\ seen[r] = chan[act[r]].ver /\ phase[act[r]] # "ended"
  /\ Goto(r, "done")
  /\ UNCHANGED <<version, client, path, flag, body, act, seen, base, term, num,
                 last, registryVars, activeVars, holderVars, notifierVars>>

(* select!: the termination branch.                                        *)
Terminated(r) ==
  /\ pc[r] = "parked" /\ term[r]
  /\ Goto(r, "done")
  /\ UNCHANGED <<version, client, path, flag, body, act, seen, base, term, num,
                 last, registryVars, activeVars, holderVars, notifierVars>>

(* select!: notify_rx.changed(), which also returns, with an error that is *)
(* ignored, once every sender of the channel is gone.                      *)
Wake(r) ==
  /\ pc[r] = "parked"
  /\ seen[r] # chan[act[r]].ver \/ phase[act[r]] = "ended"
  /\ Goto(r, "woken")
  /\ seen' = [seen EXCEPT ![r] = chan[act[r]].ver]
  /\ UNCHANGED <<version, client, path, flag, body, act, base, term, num, last,
                 registryVars, activeVars, holderVars, notifierVars>>

(* notify_rx.borrow(): by now the channel may hold a later number.         *)
Borrow(r) ==
  /\ pc[r] = "woken"
  /\ \/ /\ chan[act[r]].ver = 0            \* InitialSequence
        /\ Goto(r, "parked")
        /\ UNCHANGED num
     \/ /\ chan[act[r]].ver > 0            \* ResourceChanged
        /\ Goto(r, "numbered")
        /\ num' = [num EXCEPT ![r] = chan[act[r]].num]
  /\ UNCHANGED <<version, client, path, flag, body, act, seen, base, term, last,
                 registryVars, activeVars, holderVars, notifierVars>>

\* Mutant: the first response is sent again, the handler does not run.
NotifyStale(r) ==
  /\ pc[r] = "numbered"
  /\ Goto(r, "sending")
  /\ last' = [last EXCEPT ![r] = Value(path[r], body[r], num[r])]
  /\ UNCHANGED <<version, client, path, flag, body, act, seen, base, term, num,
                 registryVars, activeVars, holderVars, notifierVars>>

(* The handler runs again and its response goes out Confirmable; or it     *)
(* fails, and the task ends with an error response.                        *)
Notify(r) ==
  /\ pc[r] = "numbered"
  /\ \/ /\ Goto(r, "sending")
        /\ body' = [body EXCEPT ![r] = version]
        /\ last' = [last EXCEPT ![r] = Value(path[r], version, num[r])]
     \/ /\ Goto(r, "done")
        /\ UNCHANGED <<body, last>>
  /\ UNCHANGED <<version, client, path, flag, act, seen, base, term, num,
                 registryVars, activeVars, holderVars, notifierVars>>

\* Mutant: what was published during the send is marked as seen.
SendReturnsUpToDate(r) ==
  /\ pc[r] = "sending"
  /\ Goto(r, "parked") \/ Goto(r, "done")
  /\ seen' = [seen EXCEPT ![r] = chan[act[r]].ver]
  /\ UNCHANGED <<version, client, path, flag, body, act, base, term, num, last,
                 registryVars, activeVars, holderVars, notifierVars>>

(* The reliable send returns: Ok, or an error on which the loop ends.      *)
SendReturns(r) ==
  /\ pc[r] = "sending"
  /\ Goto(r, "parked") \/ Goto(r, "done")
  /\ UNCHANGED <<version, client, path, flag, body, act, seen, base, term, num,
                 last, registryVars, activeVars, holderVars, notifierVars>>

-----------------------------------------------------------------------------
(* The task of an activation: handle_on_active_lifecycle.                  *)

SetPhase(a, there) == phase' = [phase EXCEPT ![a] = there]

(* ObserversHolder::attach, with the holder's write lock.                  *)
Attach(a) ==
  /\ phase[a] = "spawned"
  /\ reading = {}
  /\ SetPhase(a, "attached")
  /\ holder' = [holder EXCEPT ![RelKey[place[a]]] = a]
  /\ UNCHANGED <<version, requestVars, registryVars, place, number, chan, pub,
                 reading, notifierVars>>

\* Mutants: the path is released as soon as its observers are gone, and
\* stay_active waits for the registrations instead of the receivers.
StayActiveReleases(a) ==
  /\ phase[a] = "attached"
  /\ Receivers(a) = {} /\ lock = None
  /\ SetPhase(a, "closed")
  /\ byPath' = [byPath EXCEPT ![place[a]] = None]
  /\ UNCHANGED <<version, requestVars, lock, regs, place, number, chan, pub,
                 holderVars, notifierVars>>

StayActiveRegistered(a) ==
  /\ phase[a] = "attached"
  /\ \A c \in Clients : regs[place[a]][c] = None
  /\ SetPhase(a, "closed")
  /\ UNCHANGED <<version, requestVars, registryVars, place, number, chan, pub,
                 holderVars, notifierVars>>

(* Attached::stay_active returns when the channel has no receiver.         *)
StayActive(a) ==
  /\ phase[a] = "attached"
  /\ Receivers(a) = {}
  /\ SetPhase(a, "closed")
  /\ UNCHANGED <<version, requestVars, registryVars, place, number, chan, pub,
                 holderVars, notifierVars>>

(* Attached::detach, and with it the end of on_active.  The unwrap() of    *)
(* the removed entry ends the task if there is none.                       *)
Detach(a) ==
  /\ phase[a] = "closed"
  /\ reading = {}
  /\ \/ /\ holder[RelKey[place[a]]] # None
        /\ SetPhase(a, "returned")
     \/ /\ holder[RelKey[place[a]]] = None
        /\ SetPhase(a, "panicked")
  /\ holder' = [holder EXCEPT ![RelKey[place[a]]] = None]
  /\ UNCHANGED <<version, requestVars, registryVars, place, number, chan, pub,
                 reading, notifierVars>>

\* Mutant: the loops of the registrations are not ended.
RemoveQuietly(a) ==
  /\ phase[a] = "returned"
  /\ lock = None
  /\ SetPhase(a, "ended")
  /\ byPath' = [byPath EXCEPT ![place[a]] = None]
  /\ regs' = [regs EXCEPT ![place[a]] = [c \in Clients |-> None]]
  /\ UNCHANGED <<version, requestVars, lock, place, number, chan, pub,
                 holderVars, notifierVars>>

(* Lock the registry, remove the path, end what is registered there.       *)
Remove(a) ==
  /\ phase[a] = "returned"
  /\ lock = None
  /\ SetPhase(a, "ended")
  /\ byPath' = [byPath EXCEPT ![place[a]] = None]
  /\ regs' = [regs EXCEPT ![place[a]] = [c \in Clients |-> None]]
  /\ Terminate({regs[place[a]][c] : c \in Clients})
  /\ UNCHANGED <<version, pc, client, path, flag, body, act, seen, base, num,
                 last, lock, place, number, chan, pub, holderVars, notifierVars>>

-----------------------------------------------------------------------------
(* A task that changes the resource, then calls notify_change.             *)

NGoto(n, there) == npc' = [npc EXCEPT ![n] = there]

Change(n) ==
  /\ npc[n] = "idle" /\ version < MaxVersion
  /\ NGoto(n, "changed")
  /\ version' = version + 1
  /\ UNCHANGED <<requestVars, registryVars, activeVars, holderVars, todo, at,
                 newNum>>

(* ObserversHolder: the read lock is held for the loop over what is        *)
(* attached, with notify_change_for_path over the matches of a path.       *)
Attached == [k \in {q \in RelKeys : holder[q] # None} |-> holder[k]]

BeginNotify(n, keys) ==
  /\ npc[n] = "changed"
  /\ NGoto(n, "notifying")
  /\ todo' = [todo EXCEPT ![n] = {holder[k] : k \in keys}]
  /\ reading' = reading \cup {n}
  /\ UNCHANGED <<version, requestVars, registryVars, activeVars, holder, at,
                 newNum>>

NotifyChange(n) == BeginNotify(n, DOMAIN Attached)

NotifyChangeForPath(n, rel) == BeginNotify(n, PM!Matches(Attached, rel))

(* Observers::notify_change: the number is taken under its mutex ...       *)
Bump(n, a) ==
  /\ npc[n] = "notifying" /\ a \in todo[n]
  /\ NGoto(n, "bumped")
  /\ at' = [at EXCEPT ![n] = a]
  /\ todo' = [todo EXCEPT ![n] = @ \ {a}]
  /\ number' = [number EXCEPT ![a] = NextNum(number[a])]
  /\ newNum' = [newNum EXCEPT ![n] = NextNum(number[a])]
  /\ UNCHANGED <<version, requestVars, registryVars, phase, place, chan, pub,
                 holderVars>>

(* ... and published after the mutex is released.  A channel without       *)
(* receivers keeps its value.                                              *)
Publish(n) ==
  /\ npc[n] = "bumped"
  /\ NGoto(n, "notifying")
  /\ \/ /\ Receivers(at[n]) # {}
        /\ chan' = [chan EXCEPT ![at[n]] = [num |-> newNum[n], ver |-> @.ver + 1]]
        /\ pub' = [pub EXCEPT ![at[n]] = version]
     \/ /\ Receivers(at[n]) = {}
        /\ UNCHANGED <<chan, pub>>
  /\ UNCHANGED <<version, requestVars, registryVars, phase, place, number,
                 holderVars, todo, at, newNum>>

EndNotify(n) ==
  /\ npc[n] = "notifying" /\ todo[n] = {}
  /\ NGoto(n, "idle")
  /\ reading' = reading \ {n}
  /\ UNCHANGED <<version, requestVars, registryVars, activeVars, holder, todo,
                 at, newNum>>

-----------------------------------------------------------------------------

RequestStep(r) ==
  \/ Lock(r) \/ Subscribe(r) \/ Register(r) \/ Deregister(r)
  \/ Terminated(r) \/ Wake(r) \/ Borrow(r) \/ Notify(r) \/ SendReturns(r)

ActiveStep(a) == Attach(a) \/ StayActive(a) \/ Detach(a) \/ Remove(a)

NotifyStep(n) ==
  \/ NotifyChange(n) \/ \E k \in RelKeys : NotifyChangeForPath(n, k)
  \/ (\E a \in Requests : Bump(n, a)) \/ Publish(n) \/ EndNotify(n)

Next ==
  \/ \E r \in Requests, c \in Clients, p \in Paths, f \in {"Register", "Deregister"} :
       Respond(r, c, p, f)
  \/ \E r \in Requests : RequestStep(r)
  \/ \E a \in Requests : ActiveStep(a)
  \/ \E n \in Notifiers : Change(n)
  \/ \E n \in Notifiers : NotifyStep(n)

Spec == Init /\ [][Next]_vars

-----------------------------------------------------------------------------

Pcs == {"idle", "answered", "locked", "done", "numbered"} \cup Subscribed
Phases == {"free", "spawned", "attached", "closed", "returned", "ended", "panicked"}
Maybe(S) == S \cup {None}

RegistryTypes ==
  /\ lock \in Maybe(Requests)
  /\ byPath \in [Paths -> Maybe(Requests)]
  /\ regs \in [Paths -> [Clients -> Maybe(Requests)]]

ActivationTypes ==
  /\ phase \in [Requests -> Phases]
  /\ place \in [Requests -> Maybe(Paths)]
  /\ number \in [Requests -> Nums]
  /\ chan \in [Requests -> [num : Nums, ver : Nat]]
  /\ pub \in [Requests -> 0 .. MaxVersion]

HolderTypes ==
  /\ holder \in [RelKeys -> Maybe(Requests)]
  /\ reading \in SUBSET Notifiers

RequestTypes ==
  /\ pc \in [Requests -> Pcs]
  /\ client \in [Requests -> Maybe(Clients)]
  /\ path \in [Requests -> Maybe(Paths)]
  /\ flag \in [Requests -> Maybe({"Register", "Deregister"})]
  /\ body \in [Requests -> 0 .. MaxVersion]
  /\ act \in [Requests -> Maybe(Requests)]
  /\ seen \in [Requests -> Nat]
  /\ base \in [Requests -> Nat]
  /\ term \in [Requests -> BOOLEAN]
  /\ num \in [Requests -> Nums]
  /\ last \in [Requests -> Maybe(Nums)]

NotifierTypes ==
  /\ npc \in [Notifiers -> {"idle", "changed", "notifying", "bumped"}]
  /\ todo \in [Notifiers -> SUBSET Requests]
  /\ at \in [Notifiers -> Maybe(Requests)]
  /\ newNum \in [Notifiers -> Nums]

(* Types of the registry, the channels and the tasks.                      *)
TypeOK ==
  /\ version \in 0 .. MaxVersion
  /\ RegistryTypes
  /\ ActivationTypes
  /\ HolderTypes
  /\ RequestTypes
  /\ NotifierTypes

(* on_active never runs twice at a time for a path: ObservableResource     *)
(* guarantees it to the application.                                       *)
OnActiveIsNotConcurrent ==
  \A a, b \in Requests :
    OnActive(a) /\ OnActive(b) /\ place[a] = place[b] => a = b

(* When on_active returns its path is still registered, and registered for *)
(* it: the branch of handle_on_active_lifecycle that warns of a record     *)
(* removed without consent is dead, and Remove never removes another's.    *)
LifecycleFindsItsPath ==
  \A a \in Requests :
    OnActive(a) \/ phase[a] = "returned" => byPath[place[a]] = a

(* A loop that was not told to stop is the one its registration names, in  *)
(* the activation its channel belongs to: a Deregister and the end of      *)
(* on_active reach every loop that still listens.                          *)
ListenersAreRegistered ==
  \A r \in Requests : Listening(r) /\ ~term[r] =>
    /\ byPath[path[r]] = act[r]
    /\ regs[path[r]][client[r]] = r

(* The strengthening that makes the three inductive: who holds the lock,   *)
(* what a request in the registry's critical section may count on, and     *)
(* that a path and the activation registered for it name each other.       *)
Lives(a) == OnActive(a) \/ phase[a] \in {"returned", "panicked"}

CriticalSection ==
  \A r \in Requests :
    /\ pc[r] \in {"locked", "subscribed"} => lock = r /\ byPath[path[r]] # None
    /\ pc[r] = "subscribed" => act[r] = byPath[path[r]]

RequestsAreFilled ==
  \A r \in Requests :
    /\ pc[r] # "idle" => path[r] \in Paths /\ client[r] \in Clients
    /\ Listening(r) => act[r] # None

PathsNameActivations ==
  /\ \A p \in Paths : byPath[p] # None => Lives(byPath[p]) /\ place[byPath[p]] = p
  /\ \A a \in Requests : Lives(a) => place[a] \in Paths /\ byPath[place[a]] = a
  /\ \A a \in Requests : pc[a] \in {"idle", "answered"} => phase[a] = "free"

RegistryInv ==
  /\ TypeOK
  /\ CriticalSection
  /\ RequestsAreFilled
  /\ PathsNameActivations
  /\ ListenersAreRegistered

(* An observer that rests, having seen all that was published since it     *)
(* subscribed, was last sent the state of the last publication or a later  *)
(* one: no notification is lost between changed() and borrow(), during the *)
(* handler, or while a send waits for its acknowledgement.                 *)
NotifiedObserverIsCurrent ==
  \A r \in Requests :
    pc[r] = "parked" /\ seen[r] = chan[act[r]].ver /\ seen[r] # base[r]
      => body[r] >= pub[act[r]]

(* As long as its paths have relative keys of their own, detach() finds   *)
(* the entry that attach() made, which it unwraps: no other activation of  *)
(* the path attaches or detaches in between.                               *)
DetachFindsItsEntry ==
  (\A p, q \in Paths : RelKey[p] = RelKey[q] => p = q)
    => \A a \in Requests : phase[a] # "panicked"

(* The Observe values of one observation do not run backwards.             *)
SequenceNeverRunsBackwards ==
  [][\A r \in Requests :
       last[r] # None => ~U24!Backwards(last[r], last'[r])]_vars

-----------------------------------------------------------------------------

(* Where an observation is, as far as its client can tell.                 *)
Mode(r) ==
  IF pc[r] = "done" THEN "over"
  ELSE IF ~Listening(r) THEN "none"
  ELSE IF term[r] THEN "ending" ELSE "on"

Modes == [r \in Requests |-> Mode(r)]

Abstract == INSTANCE Observations WITH mode <- Modes, told <- body, Nobody <- None

(* The registry, the loops and on_active implement what the clients of an  *)
(* observable resource rely on: one observation per client and path, ended *)
(* for good by a later request, by Deregister or by the resource.          *)
ObservationsSpec == Abstract!Spec

-----------------------------------------------------------------------------
(* "Inform the server that a change [...] has potentially occurred.  The   *)
(* server responds by re-executing synthetic Get or Fetch requests [...],  *)
(* then delivering the results to the peer": an observer that rests and    *)
(* was not told to stop holds the state of the last publication, also if   *)
(* this came between its first response and its registration.              *)
RestingObserverIsCurrent ==
  \A r \in Requests :
    pc[r] = "parked" /\ ~term[r] /\ seen[r] = chan[act[r]].ver
      => body[r] >= pub[act[r]]

(* "stay_active which ensures the method will not complete until all       *)
(* observers are gone": no observer is ended by the end of on_active.      *)
StayActiveKeepsObservers ==
  \A a \in Requests : phase[a] \in {"closed", "returned"} =>
    {r \in Receivers(a) : Listening(r) /\ ~term[r]} = {}

(* "if relative_path is resources/abc then it will match against observe   *)
(* requests for resources/abc/some_property, resources/abc, or even        *)
(* resources": notify_change_for_path leaves out no such observers.        *)
Relevant(k, rel) ==
  \/ Len(k) <= Len(rel) /\ k = PM!UpTo(rel, Len(k))
  \/ Len(rel) <= Len(k) /\ rel = PM!UpTo(k, Len(rel))

RelevantPathsAreNotified ==
  [][\A n \in Notifiers, k, rel \in RelKeys :
       NotifyChangeForPath(n, rel) /\ Relevant(k, rel) /\ holder[k] # None
         => holder[k] \in todo'[n]]_vars
=============================================================================
