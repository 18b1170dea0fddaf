------------------------- MODULE NotificationProofs -------------------------
(***************************************************************************)
(* Proofs about the channels of Observe, the holder of what is attached    *)
(* and the numbers of the notifications: an observer that rests was told   *)
(* what was published, detach() finds the entry of its attach(), and with  *)
(* one notifier at a time no sequence of Observe values runs backwards.    *)
(***************************************************************************)
EXTENDS ObserveProofs, SequenceTheorems, WellFoundedInduction

(* A receiver has seen what was published before it subscribed, and        *)
(* nothing that was not published.                                         *)
Counts ==
  \A r \in Requests : pc[r] \in Subscribed =>
    /\ phase[act[r]] # "free"
    /\ base[r] <= seen[r] /\ seen[r] <= chan[act[r]].ver
    /\ pc[r] = "subscribed" => seen[r] = base[r]

(* What was published was the state at that time.                          *)
Published == \A a \in Requests : pub[a] <= version

(* A loop that sends or rests, and has seen all, sends or sent the state   *)
(* of the last publication or a later one.                                 *)
UpToDate ==
  \A r \in Requests :
    pc[r] \in {"parked", "sending"} /\ seen[r] = chan[act[r]].ver /\ seen[r] # base[r]
      => body[r] >= pub[act[r]]

ChannelParts == Counts /\ Published /\ UpToDate
ChannelInv == RegistryInv /\ ChannelParts

-----------------------------------------------------------------------------

(* Types, as the steps below use them.                                     *)
LEMMA NumbersOf ==
  ASSUME TypeOK, NEW r \in Requests
  PROVE  /\ version \in Nat /\ body[r] \in Nat /\ pub[r] \in Nat
         /\ seen[r] \in Nat /\ base[r] \in Nat /\ chan[r].ver \in Nat
BY DEF TypeOK, RequestTypes, ActivationTypes

(* A step that leaves channels and receivers alone.                        *)
LEMMA ChannelsUntouched ==
  ASSUME ChannelInv, UNCHANGED <<chan, pub, requestVars>>,
         \A a \in Requests : phase[a] # "free" => phase'[a] # "free",
         version' \in Nat, version' >= version
  PROVE  ChannelParts'
<1>1. UNCHANGED <<pc, act, seen, base, body>>
  BY DEF requestVars
<1>2. Counts'
  <2>1. \A r \in Requests : pc[r] \in Subscribed => act[r] \in Requests
    BY RequestFacts DEF ChannelInv
  <2> QED
    BY <1>1, <2>1 DEF ChannelInv, ChannelParts, Counts
<1>3. Published'
  BY NumbersOf DEF ChannelInv, ChannelParts, Published, RegistryInv
<1>4. UpToDate'
  BY <1>1 DEF ChannelInv, ChannelParts, UpToDate
<1> QED
  BY <1>2, <1>3, <1>4 DEF ChannelParts

(* A step of one request that leaves channels, phases and all others       *)
(* alone.                                                                  *)
LEMMA OneMoves ==
  ASSUME ChannelInv, NEW r \in Requests, UNCHANGED <<chan, pub, phase, version>>,
         \A q \in Requests : q # r =>
           /\ pc'[q] = pc[q] /\ act'[q] = act[q] /\ seen'[q] = seen[q]
           /\ base'[q] = base[q] /\ body'[q] = body[q],
         pc'[r] \in Subscribed =>
           /\ phase[act'[r]] # "free"
           /\ base'[r] <= seen'[r] /\ seen'[r] <= chan[act'[r]].ver
           /\ pc'[r] = "subscribed" => seen'[r] = base'[r],
         pc'[r] \in {"parked", "sending"} /\ seen'[r] = chan[act'[r]].ver
             /\ seen'[r] # base'[r] => body'[r] >= pub[act'[r]]
  PROVE  ChannelParts'
<1>1. Counts'
  <2> SUFFICES ASSUME NEW q \in Requests, pc'[q] \in Subscribed
               PROVE  /\ phase[act'[q]] # "free"
                      /\ base'[q] <= seen'[q] /\ seen'[q] <= chan[act'[q]].ver
                      /\ pc'[q] = "subscribed" => seen'[q] = base'[q]
    BY DEF Counts
  <2>1. CASE q = r
    BY <2>1
  <2>2. CASE q # r
    BY <2>2 DEF ChannelInv, ChannelParts, Counts
  <2> QED
    BY <2>1, <2>2
<1>2. Published'
  BY DEF ChannelInv, ChannelParts, Published
<1>3. UpToDate'
  <2> SUFFICES ASSUME NEW q \in Requests, pc'[q] \in {"parked", "sending"},
                      seen'[q] = chan[act'[q]].ver, seen'[q] # base'[q]
               PROVE  body'[q] >= pub[act'[q]]
    BY DEF UpToDate
  <2>1. CASE q = r
    BY <2>1
  <2>2. CASE q # r
    BY <2>2 DEF ChannelInv, ChannelParts, UpToDate
  <2> QED
    BY <2>1, <2>2
<1> QED
  BY <1>1, <1>2, <1>3 DEF ChannelParts

-----------------------------------------------------------------------------
(* The steps of a request.                                                 *)

LEMMA BeforeTheLoop ==
  ASSUME ChannelInv, NEW r \in Requests,
         \/ \E c \in Clients, p \in Paths, f \in {"Register", "Deregister"} :
              Respond(r, c, p, f)
         \/ Deregister(r)
  PROVE  ChannelParts'
<1>1. /\ pc[r] \in {"idle", "answered"}
      /\ UNCHANGED <<act, seen, base, chan, pub, phase, version>>
      /\ \E there \in {"answered", "done"} : pc' = [pc EXCEPT ![r] = there]
      /\ UNCHANGED body \/ body' = [body EXCEPT ![r] = version]
  BY DEF Respond, Deregister, Goto, activeVars
<1>2. /\ pc'[r] \in {"answered", "done"}
      /\ \A q \in Requests : q # r => pc'[q] = pc[q] /\ body'[q] = body[q]
  BY <1>1 DEF ChannelInv, RegistryInv, TypeOK, RequestTypes
<1>3. pc'[r] \notin Subscribed /\ pc'[r] \notin {"parked", "sending"}
  BY <1>2 DEF Subscribed
<1> QED
  BY <1>1, <1>2, <1>3, OneMoves

(* The channel that is created has no receivers, and never had.            *)
LEMMA LockKeepsChannels ==
  ASSUME ChannelInv, NEW r \in Requests, Lock(r)
  PROVE  ChannelParts'
<1>1. /\ pc[r] = "answered" /\ pc' = [pc EXCEPT ![r] = "locked"]
      /\ UNCHANGED <<act, seen, base, body, pub, version>>
  BY DEF Lock, Goto, activeVars
<1>2. pc'[r] = "locked" /\ \A q \in Requests : q # r => pc'[q] = pc[q]
  BY <1>1 DEF ChannelInv, RegistryInv, TypeOK, RequestTypes
<1>3. phase[r] = "free"
  BY <1>1 DEF ChannelInv, RegistryInv, PathsNameActivations
<1>4. \A a \in Requests : a # r => phase'[a] = phase[a] /\ chan'[a] = chan[a]
  <2>1. UNCHANGED <<phase, chan>> \/
        (phase' = [phase EXCEPT ![r] = "spawned"]
         /\ \E n \in StartNums : chan' = [chan EXCEPT ![r] = [num |-> n, ver |-> 0]])
    BY DEF Lock, activeVars
  <2> QED
    BY <2>1 DEF ChannelInv, RegistryInv, TypeOK, ActivationTypes
<1>5. ASSUME NEW q \in Requests, pc'[q] \in Subscribed
      PROVE  /\ q # r /\ pc'[q] = pc[q]
             /\ act[q] \in Requests /\ act[q] # r
             /\ phase'[act[q]] = phase[act[q]] /\ chan'[act[q]] = chan[act[q]]
  <2>1. q # r /\ pc'[q] = pc[q]
    BY <1>2, <1>5 DEF Subscribed
  <2>2. act[q] \in Requests /\ phase[act[q]] # "free"
    BY <1>5, <2>1, RequestFacts DEF ChannelInv, ChannelParts, Counts
  <2> QED
    BY <1>3, <1>4, <2>1, <2>2
<1>6. Counts'
  BY <1>1, <1>5 DEF ChannelInv, ChannelParts, Counts
<1>7. Published'
  BY <1>1 DEF ChannelInv, ChannelParts, Published
<1>8. UpToDate'
  <2>1. \A q \in Requests : pc'[q] \in {"parked", "sending"} => pc'[q] \in Subscribed
    BY DEF Subscribed
  <2> QED
    BY <1>1, <1>5, <2>1 DEF ChannelInv, ChannelParts, UpToDate
<1> QED
  BY <1>6, <1>7, <1>8 DEF ChannelParts

LEMMA SubscribeKeepsChannels ==
  ASSUME ChannelInv, NEW r \in Requests, Subscribe(r)
  PROVE  ChannelParts'
<1> DEFINE a == byPath[path[r]]
<1>1. /\ pc[r] = "locked" /\ pc' = [pc EXCEPT ![r] = "subscribed"]
      /\ act' = [act EXCEPT ![r] = a]
      /\ seen' = [seen EXCEPT ![r] = chan[a].ver]
      /\ base' = [base EXCEPT ![r] = chan[a].ver]
      /\ UNCHANGED <<body, chan, pub, phase, version>>
  BY DEF Subscribe, Goto, activeVars
<1>2. a \in Requests /\ path[r] \in Paths
  BY <1>1, RequestFacts DEF ChannelInv
<1>3. phase[a] # "free"
  BY <1>2, ObserveAssumption DEF ChannelInv, RegistryInv, PathsNameActivations, Lives, OnActive
<1> HIDE DEF a
<1>4. /\ pc'[r] = "subscribed" /\ act'[r] = a
      /\ seen'[r] = chan[a].ver /\ base'[r] = chan[a].ver
      /\ \A q \in Requests : q # r =>
           pc'[q] = pc[q] /\ act'[q] = act[q] /\ seen'[q] = seen[q] /\ base'[q] = base[q]
  BY <1>1 DEF ChannelInv, RegistryInv, TypeOK, RequestTypes
<1>5. chan[a].ver \in Nat
  BY <1>2, NumbersOf DEF ChannelInv, RegistryInv
<1> QED
  BY <1>1, <1>3, <1>4, <1>5, OneMoves

(* In the loop: what is woken up for is told, at the earliest as it is     *)
(* when the handler runs.                                                  *)
LEMMA LoopKeepsChannels ==
  ASSUME ChannelInv, NEW r \in Requests,
         \/ Register(r) \/ Terminated(r) \/ Wake(r) \/ Borrow(r) \/ Notify(r)
         \/ SendReturns(r)
  PROVE  ChannelParts'
<1>1. /\ pc[r] \in Subscribed
      /\ UNCHANGED <<act, base, chan, pub, phase, version>>
  BY DEF Register, Terminated, Wake, Borrow, Notify, SendReturns, Subscribed, activeVars
<1>2. /\ act[r] \in Requests /\ phase[act[r]] # "free"
      /\ base[r] <= seen[r] /\ seen[r] <= chan[act[r]].ver
      /\ pc[r] = "subscribed" => seen[r] = base[r]
      /\ pub[act[r]] <= version
  BY <1>1, RequestFacts DEF ChannelInv, ChannelParts, Counts, Published
<1>3. /\ version \in Nat /\ body[r] \in Nat /\ pub[act[r]] \in Nat
      /\ seen[r] \in Nat /\ base[r] \in Nat /\ chan[act[r]].ver \in Nat
  BY <1>2, NumbersOf DEF ChannelInv, RegistryInv
<1>4. PICK there \in {"parked", "woken", "numbered", "sending", "done"} :
        pc' = [pc EXCEPT ![r] = there]
  BY DEF Register, Terminated, Wake, Borrow, Notify, SendReturns, Goto
<1>5. pc'[r] = there /\ \A q \in Requests : q # r => pc'[q] = pc[q]
  BY <1>4 DEF ChannelInv, RegistryInv, TypeOK, RequestTypes
<1>6. CASE Register(r) \/ Terminated(r) \/ Borrow(r) \/ SendReturns(r)
  <2>1. UNCHANGED <<seen, body>>
    BY <1>6 DEF Register, Terminated, Borrow, SendReturns
  <2>2. there \in {"parked", "sending"} /\ seen[r] = chan[act[r]].ver
          /\ seen[r] # base[r] => body[r] >= pub[act[r]]
    <3>1. CASE Register(r)
      BY <1>2, <3>1 DEF Register
    <3>2. CASE Terminated(r)
      <4>1. pc'[r] = "done"
        BY <1>5, <3>2 DEF Terminated, Goto, ChannelInv, RegistryInv, TypeOK, RequestTypes
      <4> QED
        BY <1>5, <4>1
    <3>3. CASE Borrow(r)
      <4>1. chan[act[r]].ver = 0 \/ pc'[r] = "numbered"
        BY <3>3 DEF Borrow, Goto, ChannelInv, RegistryInv, TypeOK, RequestTypes
      <4> QED
        BY <1>2, <1>3, <1>5, <4>1
    <3>4. CASE SendReturns(r)
      BY <3>4 DEF SendReturns, ChannelInv, ChannelParts, UpToDate
    <3> QED
      BY <1>6, <3>1, <3>2, <3>3, <3>4
  <2>3. there # "subscribed"
    OBVIOUS
  <2> QED
    BY <1>1, <1>2, <1>5, <2>1, <2>2, <2>3, OneMoves
<1>7. CASE Wake(r)
  <2>1. UNCHANGED body /\ seen' = [seen EXCEPT ![r] = chan[act[r]].ver]
    BY <1>7 DEF Wake
  <2>2. /\ seen'[r] = chan[act[r]].ver
        /\ \A q \in Requests : q # r => seen'[q] = seen[q]
    BY <2>1 DEF ChannelInv, RegistryInv, TypeOK, RequestTypes
  <2>3. pc'[r] = "woken"
    BY <1>7 DEF Wake, Goto, ChannelInv, RegistryInv, TypeOK, RequestTypes
  <2>4. base[r] <= seen'[r] /\ seen'[r] <= chan[act[r]].ver
    BY <1>2, <1>3, <2>2
  <2> QED
    BY <1>1, <1>2, <1>5, <2>1, <2>2, <2>3, <2>4, OneMoves
<1>8. CASE Notify(r)
  <2>1. UNCHANGED seen
    BY <1>8 DEF Notify
  <2>2. \/ pc'[r] = "sending" /\ body' = [body EXCEPT ![r] = version]
        \/ pc'[r] = "done" /\ UNCHANGED body
    BY <1>8 DEF Notify, Goto, ChannelInv, RegistryInv, TypeOK, RequestTypes
  <2>3. \A q \in Requests : q # r => body'[q] = body[q]
    BY <2>2 DEF ChannelInv, RegistryInv, TypeOK, RequestTypes
  <2>4. pc'[r] = "sending" => body'[r] = version
    BY <2>2 DEF ChannelInv, RegistryInv, TypeOK, RequestTypes
  <2>5. pc'[r] \in {"parked", "sending"} => body'[r] >= pub[act[r]]
    BY <1>2, <1>3, <2>2, <2>4
  <2>6. pc'[r] # "subscribed"
    BY <2>2
  <2> QED
    BY <1>1, <1>2, <1>5, <2>1, <2>3, <2>5, <2>6, OneMoves
<1> QED
  BY <1>6, <1>7, <1>8

-----------------------------------------------------------------------------
(* A publication: nobody has seen it yet.                                  *)
LEMMA PublishKeepsChannels ==
  ASSUME ChannelInv, NEW n \in Notifiers, Publish(n)
  PROVE  ChannelParts'
<1> DEFINE a == at[n]
<1>1. UNCHANGED <<pc, act, seen, base, body, phase, version>>
  BY DEF Publish, requestVars
<1>2. CASE a \notin Requests \/ UNCHANGED <<chan, pub>>
  <2>1. UNCHANGED <<chan, pub>>
    BY <1>2 DEF Publish, ChannelInv, RegistryInv, TypeOK, ActivationTypes
  <2> QED
    BY <1>1, <2>1
       DEF ChannelInv, ChannelParts, Counts, Published, UpToDate
<1>3. CASE a \in Requests /\ ~UNCHANGED <<chan, pub>>
  <2>1. /\ chan' = [chan EXCEPT ![a] = [num |-> newNum[n], ver |-> chan[a].ver + 1]]
        /\ pub' = [pub EXCEPT ![a] = version]
    BY <1>3 DEF Publish
  <2> HIDE DEF a
  <2>2. /\ chan'[a].ver = chan[a].ver + 1 /\ pub'[a] = version
        /\ \A b \in Requests : b # a => chan'[b] = chan[b] /\ pub'[b] = pub[b]
    BY <1>3, <2>1 DEF ChannelInv, RegistryInv, TypeOK, ActivationTypes
  <2>3. ASSUME NEW r \in Requests, pc[r] \in Subscribed
        PROVE  /\ base[r] <= seen[r] /\ seen[r] <= chan'[act[r]].ver
               /\ act[r] = a => seen[r] # chan'[act[r]].ver
    <3>1. act[r] \in Requests /\ base[r] <= seen[r] /\ seen[r] <= chan[act[r]].ver
      BY <2>3, RequestFacts DEF ChannelInv, ChannelParts, Counts
    <3>2. seen[r] \in Nat /\ chan[act[r]].ver \in Nat
      BY <3>1, NumbersOf DEF ChannelInv, RegistryInv
    <3> QED
      BY <2>2, <3>1, <3>2
  <2>4. Counts'
    BY <1>1, <2>3 DEF ChannelInv, ChannelParts, Counts
  <2>5. Published'
    <3>1. \A b \in Requests : version \in Nat /\ pub[b] <= version
      BY NumbersOf DEF ChannelInv, ChannelParts, Published, RegistryInv
    <3> QED
      BY <1>1, <2>2, <3>1 DEF Published
  <2>6. UpToDate'
    <3> SUFFICES ASSUME NEW r \in Requests, pc[r] \in {"parked", "sending"},
                        seen[r] = chan'[act[r]].ver, seen[r] # base[r]
                 PROVE  body[r] >= pub'[act[r]]
      BY <1>1 DEF UpToDate
    <3>1. pc[r] \in Subscribed
      BY DEF Subscribed
    <3>2. act[r] \in Requests /\ act[r] # a
      BY <2>3, <3>1, RequestFacts DEF ChannelInv
    <3> QED
      BY <2>2, <3>2 DEF ChannelInv, ChannelParts, UpToDate
  <2> QED
    BY <2>4, <2>5, <2>6 DEF ChannelParts
<1> QED
  BY <1>2, <1>3

LEMMA ChannelNext == ChannelInv /\ [Next]_vars => ChannelInv'
<1> SUFFICES ASSUME ChannelInv, [Next]_vars PROVE ChannelParts'
  BY NextInv DEF ChannelInv
<1>0. version \in Nat
  BY DEF ChannelInv, RegistryInv, TypeOK
<1>1. ASSUME NEW r \in Requests, NEW c \in Clients, NEW p \in Paths,
             NEW f \in {"Register", "Deregister"}, Respond(r, c, p, f)
      PROVE  ChannelParts'
  BY <1>1, BeforeTheLoop
<1>2. ASSUME NEW r \in Requests, RequestStep(r) PROVE ChannelParts'
  BY <1>2, BeforeTheLoop, LockKeepsChannels, SubscribeKeepsChannels, LoopKeepsChannels
     DEF RequestStep
<1>3. ASSUME NEW a \in Requests, ActiveStep(a) PROVE ChannelParts'
  <2>1. UNCHANGED <<chan, pub, version>>
    BY <1>3 DEF ActiveStep, Attach, StayActive, Detach, Remove
  <2>2. \A b \in Requests : phase[b] # "free" => phase'[b] # "free"
    BY <1>3 DEF ActiveStep, Attach, StayActive, Detach, Remove, SetPhase,
                ChannelInv, RegistryInv, TypeOK, ActivationTypes
  <2>3. UNCHANGED <<pc, act, seen, base, body>>
    BY <1>3 DEF ActiveStep, Attach, StayActive, Detach, Remove, requestVars
  <2>4. \A r \in Requests : pc[r] \in Subscribed => act[r] \in Requests
    BY RequestFacts DEF ChannelInv
  <2> QED
    BY <2>1, <2>2, <2>3, <2>4
       DEF ChannelInv, ChannelParts, Counts, Published, UpToDate
<1>4. ASSUME NEW n \in Notifiers, Change(n) \/ NotifyStep(n) PROVE ChannelParts'
  <2>1. CASE Publish(n)
    BY <2>1, PublishKeepsChannels
  <2>2. CASE ~Publish(n)
    <3>1. UNCHANGED <<chan, pub, phase, requestVars>>
      BY <1>4, <2>2 DEF Change, NotifyStep, NotifyChange, NotifyChangeForPath,
                       BeginNotify, Bump, EndNotify, activeVars
    <3>2. version' = version \/ version' = version + 1
      BY <1>4, <2>2 DEF Change, NotifyStep, NotifyChange, NotifyChangeForPath,
                       BeginNotify, Bump, EndNotify
    <3>3. version' \in Nat /\ version' >= version
      BY <1>0, <3>2
    <3> QED
      BY <3>1, <3>3, ChannelsUntouched
  <2> QED
    BY <2>1, <2>2
<1>5. CASE UNCHANGED vars
  <2>1. UNCHANGED <<chan, pub, phase, requestVars, version>>
    BY <1>5 DEF vars, activeVars
  <2> QED
    BY <1>0, <2>1, ChannelsUntouched
<1> QED
  BY <1>1, <1>2, <1>3, <1>4, <1>5 DEF Next

LEMMA ChannelInit == Init => ChannelInv
<1> SUFFICES ASSUME Init PROVE ChannelInv
  OBVIOUS
<1>1. Counts /\ Published /\ UpToDate
  BY DEF Init, Counts, Published, UpToDate, Subscribed
<1> QED
  BY <1>1, InitInv DEF ChannelInv, ChannelParts

LEMMA ChannelInvariance == Spec => []ChannelInv
BY ChannelInit, ChannelNext, PTL DEF Spec

(* Whatever is published while a loop wakes up, runs the handler or waits  *)
(* for an acknowledgement, a loop that rests was told the state of the     *)
(* last publication or a later one, for any number of notifiers.           *)
THEOREM NotifiedObserversAreCurrent == Spec => []NotifiedObserverIsCurrent
<1>1. ChannelInv => NotifiedObserverIsCurrent
  BY DEF ChannelInv, ChannelParts, UpToDate, NotifiedObserverIsCurrent
<1> QED
  BY <1>1, ChannelInvariance, PTL

-----------------------------------------------------------------------------
(* The holder, as long as no two paths have the same relative key.         *)

KeysDiffer == \A p, q \in Paths : RelKey[p] = RelKey[q] => p = q

(* What is attached has its entry.                                         *)
Entered ==
  \A a \in Requests :
    /\ phase[a] # "panicked"
    /\ phase[a] \in {"attached", "closed"} => holder[RelKey[place[a]]] = a

HolderInv == RegistryInv /\ (KeysDiffer => Entered)

(* An activation that is attached or closed is the only one with its key.  *)
LEMMA OwnKey ==
  ASSUME RegistryInv, KeysDiffer, NEW a \in Requests, NEW b \in Requests, a # b,
         Lives(a), Lives(b)
  PROVE  /\ RelKey[place[a]] # RelKey[place[b]]
         /\ RelKey[place[a]] \in RelKeys /\ RelKey[place[b]] \in RelKeys
<1>1. /\ place[a] \in Paths /\ byPath[place[a]] = a
      /\ place[b] \in Paths /\ byPath[place[b]] = b
  BY DEF RegistryInv, PathsNameActivations
<1> QED
  BY <1>1 DEF KeysDiffer, RelKeys

LEMMA HolderNext == HolderInv /\ [Next]_vars => HolderInv'
<1> SUFFICES ASSUME HolderInv, [Next]_vars, KeysDiffer PROVE Entered'
  BY NextInv DEF HolderInv, KeysDiffer, RelKey
<1>0. RegistryInv /\ Entered
  BY DEF HolderInv
<1>1. ASSUME NEW a \in Requests, Attach(a) \/ Detach(a) PROVE Entered'
  <2> DEFINE k == RelKey[place[a]]
  <2>1. /\ UNCHANGED place /\ Lives(a)
        /\ \A b \in Requests : b # a => phase'[b] = phase[b]
    BY <1>0, <1>1 DEF Attach, Detach, SetPhase, Lives, OnActive, RegistryInv,
                      TypeOK, ActivationTypes
  <2>2. PICK x \in {a, None} : holder' = [holder EXCEPT ![k] = x]
    BY <1>1 DEF Attach, Detach
  <2>3. k \in RelKeys
    BY <1>0, <2>1 DEF RelKeys, RegistryInv, PathsNameActivations
  <2> HIDE DEF k
  <2>4. holder'[k] = x /\ \A j \in RelKeys : j # k => holder'[j] = holder[j]
    BY <1>0, <2>2, <2>3 DEF RegistryInv, TypeOK, HolderTypes
  <2>5. ASSUME NEW b \in Requests, b # a
        PROVE  /\ phase'[b] # "panicked"
               /\ phase'[b] \in {"attached", "closed"} => holder'[RelKey[place[b]]] = b
    <3>1. phase'[b] \in {"attached", "closed"} => Lives(b)
      BY <2>1, <2>5 DEF Lives, OnActive
    <3> QED
      BY <1>0, <2>1, <2>4, <2>5, <3>1, OwnKey DEF Entered, k
  <2>6. /\ phase'[a] # "panicked"
        /\ phase'[a] \in {"attached", "closed"} => holder'[RelKey[place[a]]] = a
    <3>1. CASE Attach(a)
      <4>1. phase'[a] = "attached" /\ holder' = [holder EXCEPT ![k] = a]
        BY <1>0, <3>1 DEF Attach, SetPhase, k, RegistryInv, TypeOK, ActivationTypes
      <4>2. holder'[k] = a
        BY <1>0, <2>3, <4>1 DEF RegistryInv, TypeOK, HolderTypes
      <4> QED
        BY <4>1, <4>2 DEF k
    <3>2. CASE Detach(a)
      <4>1. phase[a] = "closed" /\ holder[RelKey[place[a]]] = a
        BY <1>0, <3>2 DEF Detach, Entered
      <4>2. phase'[a] = "returned"
        BY <1>0, <3>2, <4>1, ObserveAssumption
           DEF Detach, SetPhase, RegistryInv, TypeOK, ActivationTypes
      <4> QED
        BY <4>2
    <3> QED
      BY <1>1, <3>1, <3>2
  <2> QED
    BY <2>1, <2>5, <2>6 DEF Entered
<1>2. ASSUME NEW a \in Requests, StayActive(a) \/ Remove(a) PROVE Entered'
  <2>1. /\ UNCHANGED <<place, holder>>
        /\ \A b \in Requests : b # a => phase'[b] = phase[b]
        /\ \/ phase[a] = "attached" /\ phase'[a] = "closed"
           \/ phase'[a] = "ended"
    BY <1>0, <1>2 DEF StayActive, Remove, SetPhase, holderVars, RegistryInv, TypeOK,
                      ActivationTypes
  <2> QED
    BY <1>0, <2>1 DEF Entered
<1>3. ASSUME NEW r \in Requests, Lock(r) PROVE Entered'
  <2>1. UNCHANGED holder
    BY <1>3 DEF Lock, holderVars
  <2>2. /\ \A a \in Requests : a # r => phase'[a] = phase[a] /\ place'[a] = place[a]
        /\ phase'[r] \in {"spawned", "free"}
    <3>1. phase[r] = "free"
      BY <1>0, <1>3 DEF Lock, RegistryInv, PathsNameActivations
    <3> QED
      BY <1>0, <1>3, <3>1 DEF Lock, activeVars, RegistryInv, TypeOK, ActivationTypes
  <2> QED
    BY <1>0, <2>1, <2>2 DEF Entered
<1>4. CASE UNCHANGED <<phase, place, holder>>
  BY <1>0, <1>4 DEF Entered
<1>5. ASSUME NEW r \in Requests,
             \/ \E c \in Clients, p \in Paths, f \in {"Register", "Deregister"} :
                  Respond(r, c, p, f)
             \/ Subscribe(r) \/ Register(r) \/ Deregister(r) \/ Terminated(r)
             \/ Wake(r) \/ Borrow(r) \/ Notify(r) \/ SendReturns(r)
      PROVE  UNCHANGED <<phase, place, holder>>
  BY <1>5 DEF Respond, Subscribe, Register, Deregister, Terminated, Wake, Borrow,
              Notify, SendReturns, activeVars, holderVars
<1>6. ASSUME NEW n \in Notifiers, Change(n) \/ NotifyStep(n)
      PROVE  UNCHANGED <<phase, place, holder>>
  BY <1>6 DEF Change, NotifyStep, NotifyChange, NotifyChangeForPath, BeginNotify,
              Bump, Publish, EndNotify, activeVars, holderVars
<1>7. UNCHANGED vars => UNCHANGED <<phase, place, holder>>
  BY DEF vars, activeVars, holderVars
<1> QED
  BY <1>1, <1>2, <1>3, <1>4, <1>5, <1>6, <1>7 DEF Next, RequestStep, ActiveStep

(* As long as no two paths have the same relative key, the unwrap() in     *)
(* detach() never fails, for any number of requests, clients and paths.    *)
THEOREM DetachFindsEntry == Spec => []DetachFindsItsEntry
<1>1. Init => HolderInv
  <2>1. Init => Entered
    BY DEF Init, Entered
  <2> QED
    BY <2>1, InitInv DEF HolderInv
<1>2. HolderInv => DetachFindsItsEntry
  BY DEF HolderInv, KeysDiffer, Entered, DetachFindsItsEntry
<1> QED
  BY <1>1, <1>2, HolderNext, PTL DEF Spec

-----------------------------------------------------------------------------
(* Which paths have keys of their own: those of which the resource's path  *)
(* is no part, as its string was written.  What a recursive function       *)
(* computes is shown by the least number for which it does not.            *)

LEMMA LeastNumber ==
  ASSUME NEW T \in SUBSET Nat, T # {}
  PROVE  \E x \in T : \A y \in T : x <= y
<1>1. IsWellFoundedOn(OpToRel(<, Nat), Nat)
  BY NatLessThanWellFounded
<1>2. PICK x \in T : \A y \in T : <<y, x>> \notin OpToRel(<, Nat)
  BY <1>1, WFMin
<1>3. \A y \in T : ~(y < x)
  BY <1>2 DEF OpToRel
<1> QED
  BY <1>3

OccursAt(s, i) == SubSeq(s, i, i + Len(Prefix) - 1) = Prefix

(* The prefix is nowhere in a string.                                      *)
IsForeignTo(s) ==
  \A i \in 1 .. Len(s) : i + Len(Prefix) - 1 <= Len(s) => ~(Prefix # <<>> /\ OccursAt(s, i))

(* g is the search for the prefix, from each position on.                  *)
Removal(s, g) ==
  g = [i \in 1 .. Len(s) + 1 |->
         IF i = Len(s) + 1 THEN <<>>
         ELSE IF i + Len(Prefix) - 1 <= Len(s) /\ (Prefix # <<>> /\ OccursAt(s, i))
              THEN g[i + Len(Prefix)]
         ELSE <<s[i]>> \o g[i + 1]]

LEMMA RemovalStep ==
  ASSUME NEW S, NEW s \in Seq(S), IsForeignTo(s), NEW g, Removal(s, g)
  PROVE  /\ g[Len(s) + 1] = <<>>
         /\ \A i \in 1 .. Len(s) : g[i] = <<s[i]>> \o g[i + 1]
<1>1. Len(s) \in Nat
  OBVIOUS
<1>2. g[Len(s) + 1] = <<>>
  BY <1>1 DEF Removal
<1>3. ASSUME NEW i \in 1 .. Len(s) PROVE g[i] = <<s[i]>> \o g[i + 1]
  <2>1. ~(i + Len(Prefix) - 1 <= Len(s) /\ (Prefix # <<>> /\ OccursAt(s, i)))
    BY DEF IsForeignTo
  <2>2. i \in 1 .. Len(s) + 1 /\ i # Len(s) + 1
    BY <1>1
  <2> QED
    BY <2>1, <2>2 DEF Removal
<1> QED
  BY <1>2, <1>3

(* A string without the prefix stays as it is.                             *)
LEMMA ForeignStays ==
  ASSUME NEW S, NEW s \in Seq(S), IsForeignTo(s)
  PROVE  WithoutPrefix(s) = s
<1> DEFINE L == Len(s)
           g == [i \in 1 .. L + 1 |-> SubSeq(s, i, L)]
<1>1. L \in Nat
  OBVIOUS
<1>2. Removal(s, g)
  <2>1. g[L + 1] = <<>>
    <3>1. SubSeq(s, L + 1, L) = <<>>
      BY <1>1, SubSeqEmpty
    <3> QED
      BY <1>1, <3>1
  <2>2. ASSUME NEW i \in 1 .. L PROVE g[i] = <<s[i]>> \o g[i + 1]
    <3>1. SubSeq(s, i, L) = <<s[i]>> \o SubSeq(s, i + 1, L)
      BY <1>1, SubSeqRecursiveFirst
    <3>2. i \in 1 .. L + 1 /\ i + 1 \in 1 .. L + 1
      BY <1>1
    <3> QED
      BY <3>1, <3>2
  <2>3. \A i \in 1 .. L + 1 :
          g[i] = IF i = L + 1 THEN <<>>
                 ELSE IF i + Len(Prefix) - 1 <= L /\ (Prefix # <<>> /\ OccursAt(s, i))
                      THEN g[i + Len(Prefix)]
                 ELSE <<s[i]>> \o g[i + 1]
    <3> HIDE DEF g
    <3>1. \A i \in 1 .. L + 1 : i = L + 1 \/ i \in 1 .. L
      BY <1>1
    <3> QED
      BY <1>1, <2>1, <2>2, <3>1 DEF IsForeignTo
  <2> QED
    BY <2>3 DEF Removal
<1> DEFINE f == CHOOSE h : h = [i \in 1 .. Len(s) + 1 |->
              IF i = Len(s) + 1 THEN <<>>
              ELSE IF i + Len(Prefix) - 1 <= Len(s)
                        /\ (Prefix # <<>> /\ SubSeq(s, i, i + Len(Prefix) - 1) = Prefix)
                   THEN h[i + Len(Prefix)]
              ELSE <<s[i]>> \o h[i + 1]]
<1>3. Removal(s, f)
  BY <1>2, Zenon DEF Removal, OccursAt
<1>4. WithoutPrefix(s) = f[1]
  BY Zenon DEF WithoutPrefix
<1> HIDE DEF f
<1> DEFINE T == {m \in 0 .. L : f[L + 1 - m] # SubSeq(s, L + 1 - m, L)}
<1>5. T = {}
  <2> SUFFICES ASSUME T # {} PROVE FALSE
    OBVIOUS
  <2>0. T \in SUBSET Nat
    BY <1>1
  <2>1. PICK m \in T : \A y \in T : m <= y
    BY <2>0, LeastNumber
  <2>2. CASE m = 0
    <3>1. f[L + 1] = <<>> /\ SubSeq(s, L + 1, L) = <<>>
      BY <1>1, <1>3, RemovalStep, SubSeqEmpty
    <3>2. L + 1 - m = L + 1
      BY <1>1, <2>2
    <3>3. f[L + 1 - m] = SubSeq(s, L + 1 - m, L)
      BY <3>1, <3>2
    <3> QED
      BY <3>3
  <2>3. CASE m # 0
    <3> DEFINE i == L + 1 - m
    <3>1. i \in 1 .. L /\ i + 1 = L + 1 - (m - 1) /\ m - 1 \in 0 .. L
      BY <1>1, <2>3
    <3>2. m - 1 \notin T
      <4>1. m \in Nat /\ ~(m <= m - 1)
        BY <2>0
      <4> QED
        BY <2>1, <4>1
    <3>3. f[i + 1] = SubSeq(s, i + 1, L)
      BY <3>1, <3>2
    <3>4. f[i] = <<s[i]>> \o f[i + 1]
      BY <1>3, <3>1, RemovalStep
    <3>5. SubSeq(s, i, L) = <<s[i]>> \o SubSeq(s, i + 1, L)
      BY <1>1, <3>1, SubSeqRecursiveFirst
    <3>6. f[i] = SubSeq(s, i, L)
      BY <3>3, <3>4, <3>5
    <3> QED
      BY <3>6
  <2> QED
    BY <2>2, <2>3
<1>6. f[1] = SubSeq(s, 1, L)
  <2>1. L \in 0 .. L /\ L + 1 - L = 1
    BY <1>1
  <2>2. L \notin T
    BY <1>5
  <2> QED
    BY <2>1, <2>2
<1> QED
  BY <1>4, <1>6, SubSeqFull

(* g is the filter of the names, over each beginning of w.                 *)
Names(w, g) ==
  g = [n \in 0 .. Len(w) |->
         IF n = 0 THEN <<>>
         ELSE IF w[n] = Slash THEN g[n - 1] ELSE Append(g[n - 1], w[n])]

(* A joined path: the segments in the odd places, slashes between them.    *)
LEMMA JoinedIsString ==
  ASSUME NEW S, NEW p \in Seq(S)
  PROVE  /\ Joined(p) \in Seq(S \cup {Slash})
         /\ Len(Joined(p)) = IF Len(p) = 0 THEN 0 ELSE 2 * Len(p) - 1
<1> DEFINE L == Len(p)
<1>1. L \in Nat
  OBVIOUS
<1>2. ASSUME NEW i \in 1 .. 2 * L - 1 PROVE Joined(p)[i] \in S \cup {Slash}
  <2>1. CASE i % 2 = 1
    <3>1. (i + 1) \div 2 \in 1 .. L
      BY <1>1, <2>1
    <3>2. p[(i + 1) \div 2] \in S
      BY <3>1
    <3> QED
      BY <2>1, <3>2 DEF Joined
  <2>2. CASE i % 2 # 1
    BY <2>2 DEF Joined
  <2> QED
    BY <2>1, <2>2
<1>3. Joined(p) \in [1 .. 2 * L - 1 -> S \cup {Slash}]
  BY <1>2 DEF Joined
<1>4. PICK n \in Nat : n = IF L = 0 THEN 0 ELSE 2 * L - 1
  BY <1>1
<1>5. 1 .. 2 * L - 1 = 1 .. n
  BY <1>1, <1>4
<1>6. Joined(p) \in Seq(S \cup {Slash})
  BY <1>3, <1>5, SeqDef
<1>7. DOMAIN Joined(p) = 1 .. n
  BY <1>3, <1>5
<1> QED
  BY <1>1, <1>4, <1>6, <1>7, LenProperties

(* The names of a joined path are its segments.                            *)
LEMMA JoinedHasItsSegments ==
  ASSUME NEW S, Slash \notin S, NEW p \in Seq(S)
  PROVE  PM!KeyFromPath(Joined(p)) = p
<1> DEFINE w == Joined(p)
           L == Len(p)
           Half(n) == (n + 1) \div 2
           g == [n \in 0 .. Len(w) |-> SubSeq(p, 1, Half(n))]
<1>1. L \in Nat /\ w \in Seq(S \cup {Slash})
      /\ Len(w) = IF L = 0 THEN 0 ELSE 2 * L - 1
  <2>1. L \in Nat
    OBVIOUS
  <2> QED
    BY <2>1, JoinedIsString
<1>2. \A n \in 1 .. Len(w) : w[n] = IF n % 2 = 1 THEN p[Half(n)] ELSE Slash
  <2>1. \A n \in 1 .. Len(w) : n \in 1 .. 2 * L - 1
    BY <1>1
  <2> QED
    BY <2>1 DEF Joined
<1> HIDE DEF w
<1>3. ASSUME NEW n \in 1 .. Len(w)
      PROVE  SubSeq(p, 1, Half(n)) = IF w[n] = Slash THEN SubSeq(p, 1, Half(n - 1))
                                     ELSE Append(SubSeq(p, 1, Half(n - 1)), w[n])
  <2>1. n \in Nat /\ n >= 1 /\ n <= 2 * L - 1 /\ L >= 1
    BY <1>1
  <2>2. CASE n % 2 = 1
    <3>1. PICK k \in Nat : n = 2 * k - 1
      <4>1. (n + 1) \div 2 \in Nat /\ n = 2 * ((n + 1) \div 2) - 1
        BY <2>1, <2>2
      <4> QED
        BY <4>1
    <3>2. Half(n) = k /\ Half(n - 1) = k - 1 /\ k \in 1 .. L
      BY <2>1, <3>1
    <3>3. w[n] = p[k] /\ p[k] \in S /\ p[k] # Slash
      BY <1>2, <2>2, <3>2
    <3>4. SubSeq(p, 1, k) = SubSeq(p, 1, k - 1) \o <<p[k]>>
      BY <1>1, <3>2, SubSeqRecursiveSecond
    <3>5. SubSeq(p, 1, k - 1) \in Seq(S)
      BY <3>2
    <3>6. Append(SubSeq(p, 1, k - 1), p[k]) = SubSeq(p, 1, k - 1) \o <<p[k]>>
      BY <3>3, <3>5, AppendIsConcat
    <3> QED
      BY <3>2, <3>3, <3>4, <3>6
  <2>3. CASE n % 2 # 1
    <3>1. PICK k \in Nat : n = 2 * k
      BY <2>1, <2>3
    <3>2. Half(n) = k /\ Half(n - 1) = k
      BY <3>1
    <3> QED
      BY <1>2, <2>3, <3>2
  <2> QED
    BY <2>2, <2>3
<1>4. SubSeq(p, 1, Half(0)) = <<>>
  BY SubSeqEmpty
<1>5. Names(w, g)
  <2>1. \A n \in 0 .. Len(w) : g[n] = SubSeq(p, 1, Half(n))
    OBVIOUS
  <2> HIDE DEF g
  <2>2. \A n \in 0 .. Len(w) :
          g[n] = IF n = 0 THEN <<>>
                 ELSE IF w[n] = Slash THEN g[n - 1] ELSE Append(g[n - 1], w[n])
    <3> SUFFICES ASSUME NEW n \in 0 .. Len(w)
                 PROVE  g[n] = IF n = 0 THEN <<>>
                               ELSE IF w[n] = Slash THEN g[n - 1] ELSE Append(g[n - 1], w[n])
      OBVIOUS
    <3>1. CASE n = 0
      BY <1>4, <2>1, <3>1
    <3>2. CASE n # 0
      <4>1. n \in 1 .. Len(w) /\ n - 1 \in 0 .. Len(w)
        BY <1>1, <3>2
      <4> QED
        BY <1>3, <2>1, <3>2, <4>1
    <3> QED
      BY <3>1, <3>2
  <2> QED
    BY <2>2 DEF Names, g
<1> DEFINE f == CHOOSE h : h = [n \in 0 .. Len(w) |->
                 IF n = 0 THEN <<>>
                 ELSE IF w[n] = Slash THEN h[n - 1] ELSE Append(h[n - 1], w[n])]
<1>6. Names(w, f)
  BY <1>5, Zenon DEF Names
<1>7. PM!KeyFromPath(w) = f[Len(w)]
  BY Zenon DEF PM!KeyFromPath
<1> HIDE DEF f
<1> DEFINE T == {m \in 0 .. Len(w) : f[m] # SubSeq(p, 1, Half(m))}
<1>8. T = {}
  <2> SUFFICES ASSUME T # {} PROVE FALSE
    OBVIOUS
  <2>0. T \in SUBSET Nat
    BY <1>1
  <2>1. PICK m \in T : \A y \in T : m <= y
    BY <2>0, LeastNumber
  <2>2. CASE m = 0
    <3>1. f[0] = <<>>
      BY <1>6, <2>2 DEF Names
    <3> QED
      BY <1>4, <2>2, <3>1
  <2>3. CASE m # 0
    <3>1. m \in 1 .. Len(w) /\ m - 1 \in 0 .. Len(w)
      BY <1>1, <2>3
    <3>2. m - 1 \notin T
      <4>1. m \in Nat /\ ~(m <= m - 1)
        BY <2>0
      <4> QED
        BY <2>1, <4>1
    <3>3. f[m - 1] = SubSeq(p, 1, Half(m - 1))
      BY <3>1, <3>2
    <3>4. f[m] = IF w[m] = Slash THEN f[m - 1] ELSE Append(f[m - 1], w[m])
      <4>1. m \in 0 .. Len(w) /\ m # 0
        BY <1>1, <3>1, <2>3
      <4> QED
        BY <1>6, <4>1 DEF Names
    <3>5. f[m] = SubSeq(p, 1, Half(m))
      BY <1>3, <3>1, <3>3, <3>4
    <3> QED
      BY <3>5
  <2> QED
    BY <2>2, <2>3
<1>9. f[Len(w)] = SubSeq(p, 1, Half(Len(w)))
  <2>1. Len(w) \in 0 .. Len(w)
    BY <1>1
  <2>2. Len(w) \notin T
    BY <1>8
  <2> QED
    BY <2>1, <2>2
<1>10. Half(Len(w)) = L
  <2>1. CASE L = 0
    <3>1. Len(w) = 0
      BY <1>1, <2>1
    <3>2. (0 + 1) \div 2 = 0
      OBVIOUS
    <3> QED
      BY <2>1, <3>1, <3>2
  <2>2. CASE L # 0
    <3>1. Len(w) = 2 * L - 1
      BY <1>1, <2>2
    <3>2. (2 * L - 1 + 1) \div 2 = L
      BY <1>1
    <3> QED
      BY <3>1, <3>2
  <2> QED
    BY <2>1, <2>2
<1> QED
  BY <1>7, <1>9, <1>10, SubSeqFull DEF w

(* The paths of requests: segments without a slash, and not empty ones.    *)
PathsAreSegments == \A p \in Paths : p \in Seq({p[i] : i \in DOMAIN p} \ {Slash})

PrefixIsForeign == \A p \in Paths : IsForeignTo(Joined(p))

LEMMA OwnKeys ==
  ASSUME PathsAreSegments, PrefixIsForeign, NEW p \in Paths
  PROVE  RelKey[p] = p
<1> DEFINE S == {p[i] : i \in DOMAIN p} \ {Slash}
<1>1. p \in Seq(S) /\ Slash \notin S
  BY DEF PathsAreSegments
<1> HIDE DEF S
<1>2. PM!KeyFromPath(Joined(p)) = p
  BY <1>1, JoinedHasItsSegments
<1>3. WithoutPrefix(Joined(p)) = Joined(p)
  <2>1. Joined(p) \in Seq(S \cup {Slash})
    BY <1>1, JoinedIsString
  <2> QED
    BY <2>1, ForeignStays DEF PrefixIsForeign
<1> QED
  BY <1>2, <1>3 DEF RelKey

(* A resource serves paths whose segments have no slash in them, and its   *)
(* own path, as attach() removes it, is in none of them: it begins with a  *)
(* slash, which a joined path does not, so it could only be found further  *)
(* on.  Then each path has a key of its own and the unwrap() in detach()   *)
(* never fails.  A path that names the resource twice is outside of this.  *)
THEOREM DetachNeverPanics ==
  PathsAreSegments /\ PrefixIsForeign
    => (Spec => [](\A a \in Requests : phase[a] # "panicked"))
<1> SUFFICES ASSUME PathsAreSegments, PrefixIsForeign
             PROVE  Spec => [](\A a \in Requests : phase[a] # "panicked")
  OBVIOUS
<1>1. KeysDiffer
  BY OwnKeys DEF KeysDiffer
<1>2. DetachFindsItsEntry => \A a \in Requests : phase[a] # "panicked"
  BY <1>1 DEF DetachFindsItsEntry, KeysDiffer
<1> QED
  BY <1>2, DetachFindsEntry, PTL

-----------------------------------------------------------------------------
(* The numbers of one observation.  With one notifier the next number, the *)
(* one in the channel, the one at hand and the last one sent are in this   *)
(* order on the circle of numbers, never further apart than there were     *)
(* changes.                                                                *)

(* How far the second number is from the first, counting on.               *)
Ahead(x, y) == (y + NumSpace - x) % NumSpace

OneNotifier    == \A m, n \in Notifiers : m = n
NumbersSuffice == MaxVersion <= NumSpace \div 2

\* Paths whose messages are numbered by the channel, and by the handler.
ByChannel(p) == \A v \in 0 .. MaxVersion : HandlerNumber[<<p, v>>] = None
ByHandler(p) ==
  \A v, w \in 0 .. MaxVersion : v <= w =>
    /\ HandlerNumber[<<p, v>>] # None /\ HandlerNumber[<<p, w>>] # None
    /\ ~U24!Backwards(HandlerNumber[<<p, v>>], HandlerNumber[<<p, w>>])

EitherNumbers == \A p \in Paths : ByChannel(p) \/ ByHandler(p)

(* A change that an activation was not yet told of, but may be.            *)
Due(a) ==
  IF \E n \in Notifiers : \/ npc[n] = "changed"
                          \/ npc[n] \in {"notifying", "bumped"} /\ a \in todo[n]
  THEN 1 ELSE 0

(* How many changes the channel of an activation is behind.                *)
Behind(a) == Ahead(chan[a].num, number[a]) + Due(a)

(* What is attached, to be notified or numbered has been activated.        *)
Begun(a) == a \in Requests /\ phase[a] # "free"

AllBegun ==
  /\ \A k \in RelKeys : holder[k] # None => Begun(holder[k])
  /\ \A n \in Notifiers : \A a \in todo[n] : Begun(a)
  /\ \A n \in Notifiers : npc[n] = "bumped" => Begun(at[n])

(* The number in the notifier's hand is the last one that was taken.       *)
InHand == \A n \in Notifiers : npc[n] = "bumped" => newNum[n] = number[at[n]]

(* A sequence moves on by one for a change at most.                        *)
Paced == \A a \in Requests : Behind(a) <= version

(* The number of the last message, the one at hand, the one in the channel *)
(* and the next one follow each other, within as many steps as there were  *)
(* changes.                                                                *)
Follows(r) ==
  Listening(r) /\ ByChannel(path[r]) =>
    /\ last[r] # None
    /\ Ahead(last[r], chan[act[r]].num) + Behind(act[r]) <= version
    /\ pc[r] = "numbered" =>
         Ahead(last[r], num[r]) + Ahead(num[r], chan[act[r]].num) + Behind(act[r])
           <= version

(* What was sent is of the past, and has the number of its handler.        *)
Tells(r) ==
  /\ body[r] <= version
  /\ pc[r] \in {"idle", "answered", "locked", "subscribed"} => last[r] = None
  /\ last[r] # None /\ HandlerNumber[<<path[r], body[r]>>] # None =>
       last[r] = HandlerNumber[<<path[r], body[r]>>]

SequenceParts == InHand /\ Paced /\ \A r \in Requests : Follows(r) /\ Tells(r)
SequenceInv == ChannelInv /\ AllBegun /\ SequenceParts

(* The circle of numbers.                                                  *)
LEMMA AheadIs ==
  ASSUME NEW x \in Nums, NEW y \in Nums
  PROVE  Ahead(x, y) = IF y >= x THEN y - x ELSE y + NumSpace - x
<1>1. NumSpace \in Nat \ {0} /\ x \in 0 .. NumSpace - 1 /\ y \in 0 .. NumSpace - 1
  BY ObserveAssumption DEF Nums
<1>2. PICK d \in 0 .. 2 * NumSpace - 1 : d = y + NumSpace - x
  BY <1>1
<1>3. d % NumSpace = IF d < NumSpace THEN d ELSE d - NumSpace
  BY <1>1, <1>2
<1> QED
  BY <1>1, <1>2, <1>3 DEF Ahead

LEMMA NextNumIs ==
  ASSUME NEW x \in Nums
  PROVE  NextNum(x) = IF x = NumSpace - 1 THEN 0 ELSE x + 1
<1>1. NumSpace \in Nat \ {0} /\ x \in 0 .. NumSpace - 1
  BY ObserveAssumption DEF Nums
<1>2. PICK w \in Nat : w = 256 * NumSpace
  BY <1>1
<1>3. x + 1 < w /\ x + 1 \in Nat
  BY <1>1, <1>2
<1>4. (x + 1) % w = x + 1
  BY <1>2, <1>3
<1>5. (x + 1) % NumSpace = IF x = NumSpace - 1 THEN 0 ELSE x + 1
  BY <1>1
<1> QED
  BY <1>1, <1>2, <1>4, <1>5
     DEF NextNum, U24!WrappingAdd, U24!Masked, U24!TryFrom, U24!MaxNum

LEMMA AheadFacts ==
  ASSUME NEW x \in Nums, NEW y \in Nums, NEW z \in Nums
  PROVE  /\ Ahead(x, y) \in Nat /\ Ahead(x, x) = 0
         /\ Ahead(x, z) <= Ahead(x, y) + Ahead(y, z)
         /\ Ahead(x, NextNum(y)) <= Ahead(x, y) + 1
         /\ U24!Backwards(x, y) <=> Ahead(x, y) > NumSpace \div 2
<1>1. NumSpace \in Nat \ {0} /\ x \in Nat /\ y \in Nat /\ z \in Nat
      /\ x < NumSpace /\ y < NumSpace /\ z < NumSpace
  BY ObserveAssumption DEF Nums
<1>2. Ahead(x, y) = IF y >= x THEN y - x ELSE y + NumSpace - x
  BY AheadIs
<1>3. Ahead(x, z) = IF z >= x THEN z - x ELSE z + NumSpace - x
  BY AheadIs
<1>4. Ahead(y, z) = IF z >= y THEN z - y ELSE z + NumSpace - y
  BY AheadIs
<1>5. Ahead(x, x) = 0
  BY <1>1, AheadIs
<1>6. Ahead(x, NextNum(y)) <= Ahead(x, y) + 1
  <2>1. NextNum(y) \in Nums /\ NextNum(y) = IF y = NumSpace - 1 THEN 0 ELSE y + 1
    BY NextNumType, NextNumIs
  <2>2. PICK n \in Nums : n = NextNum(y)
    BY <2>1
  <2>3. Ahead(x, n) = IF n >= x THEN n - x ELSE n + NumSpace - x
    BY AheadIs
  <2> QED
    BY <1>1, <1>2, <2>1, <2>2, <2>3
<1>7. U24!Backwards(x, y) <=> Ahead(x, y) > NumSpace \div 2
  BY DEF U24!Backwards, Ahead
<1> QED
  BY <1>1, <1>2, <1>3, <1>4, <1>5, <1>6, <1>7

(* Types, as the steps below use them.                                     *)
LEMMA SequenceTypes ==
  ASSUME TypeOK, NEW a \in Requests
  PROVE  /\ chan[a].num \in Nums /\ number[a] \in Nums /\ num[a] \in Nums
         /\ last[a] \in Nums \cup {None} /\ version \in Nat
         /\ body[a] \in 0 .. MaxVersion /\ Due(a) \in {0, 1}
BY DEF TypeOK, ActivationTypes, RequestTypes, Maybe, Due

LEMMA BehindType ==
  ASSUME TypeOK, NEW a \in Requests
  PROVE  Behind(a) \in Nat /\ Ahead(chan[a].num, number[a]) \in Nat
<1>1. Ahead(chan[a].num, number[a]) \in Nat
  BY SequenceTypes, AheadFacts
<1> QED
  BY <1>1, SequenceTypes DEF Behind

LEMMA SequenceFacts ==
  ASSUME SequenceInv
  PROVE  /\ TypeOK /\ RegistryInv /\ ChannelInv
         /\ \A r \in Requests : Listening(r) => act[r] \in Requests /\ phase[act[r]] # "free"
<1>1. ChannelInv /\ RegistryInv /\ TypeOK
  BY DEF SequenceInv, ChannelInv, RegistryInv
<1>2. ASSUME NEW r \in Requests, Listening(r)
      PROVE  act[r] \in Requests /\ phase[act[r]] # "free"
  <2>1. pc[r] \in Subscribed
    BY <1>2 DEF Listening
  <2> QED
    BY <1>1, <2>1, RequestFacts DEF ChannelInv, ChannelParts, Counts
<1> QED
  BY <1>1, <1>2

(* A step of one request that leaves activations, notifiers and all others *)
(* alone.                                                                  *)
LEMMA OneFollows ==
  ASSUME SequenceInv, NEW r \in Requests,
         UNCHANGED <<chan, number, version, npc, todo, at, newNum>>,
         \A q \in Requests : q # r =>
           /\ pc'[q] = pc[q] /\ act'[q] = act[q] /\ path'[q] = path[q]
           /\ num'[q] = num[q] /\ last'[q] = last[q] /\ body'[q] = body[q],
         Follows(r)', Tells(r)'
  PROVE  SequenceParts'
<1>1. \A a \in Requests : Behind(a)' = Behind(a)
  BY DEF Behind, Due
<1>2. InHand' /\ Paced'
  BY <1>1 DEF SequenceInv, SequenceParts, InHand, Paced
<1>3. ASSUME NEW q \in Requests, q # r PROVE Follows(q)' /\ Tells(q)'
  <2>1. Follows(q) /\ Tells(q)
    BY DEF SequenceInv, SequenceParts
  <2>2. Tells(q)'
    BY <1>3, <2>1 DEF Tells
  <2>3. ASSUME Listening(q)', ByChannel(path'[q]) PROVE Follows(q)'
    <3>1. Listening(q) /\ ByChannel(path[q]) /\ act[q] \in Requests
      BY <1>3, <2>3, SequenceFacts DEF Listening
    <3>2. Behind(act[q])' = Behind(act[q])
      BY <1>1, <1>3, <3>1 DEF Behind, Due
    <3> QED
      BY <1>3, <2>1, <3>1, <3>2 DEF Follows
  <2>4. Follows(q)'
    BY <2>3 DEF Follows, ByChannel
  <2> QED
    BY <2>2, <2>4
<1> QED
  BY <1>2, <1>3 DEF SequenceParts

(* Before and at the end of the loop, and between its messages.            *)
LEMMA RespondFollows ==
  ASSUME SequenceInv, NEW r \in Requests, NEW c \in Clients, NEW p \in Paths,
         NEW f \in {"Register", "Deregister"}, Respond(r, c, p, f)
  PROVE  SequenceParts'
<1>1. /\ pc[r] = "idle" /\ pc' = [pc EXCEPT ![r] = "answered"]
      /\ path' = [path EXCEPT ![r] = p] /\ body' = [body EXCEPT ![r] = version]
      /\ UNCHANGED <<act, num, last, chan, number, version, npc, todo, at, newNum>>
  BY DEF Respond, Goto, activeVars, notifierVars
<1>2. /\ pc'[r] = "answered" /\ body'[r] = version
      /\ \A q \in Requests : q # r =>
           pc'[q] = pc[q] /\ path'[q] = path[q] /\ body'[q] = body[q]
  BY <1>1, SequenceFacts DEF TypeOK, RequestTypes
<1>3. last[r] = None
  BY <1>1 DEF SequenceInv, SequenceParts, Tells
<1>4. version \in Nat
  BY SequenceFacts DEF TypeOK
<1>5. Tells(r)'
  BY <1>1, <1>2, <1>3, <1>4 DEF Tells
<1>6. Follows(r)'
  BY <1>2 DEF Follows, Listening, Subscribed
<1> QED
  BY <1>1, <1>2, <1>5, <1>6, OneFollows

LEMMA QuietFollows ==
  ASSUME SequenceInv, NEW r \in Requests,
         \/ Subscribe(r) \/ Deregister(r) \/ Terminated(r) \/ Wake(r) \/ SendReturns(r)
  PROVE  SequenceParts'
<1>1. UNCHANGED <<path, body, num, last, chan, number, version, npc, todo, at, newNum>>
  BY DEF Subscribe, Deregister, Terminated, Wake, SendReturns, activeVars, notifierVars
<1>2. PICK there \in {"subscribed", "done", "woken", "parked"} :
        pc' = [pc EXCEPT ![r] = there]
  BY DEF Subscribe, Deregister, Terminated, Wake, SendReturns, Goto
<1>3. pc'[r] = there /\ \A q \in Requests : q # r => pc'[q] = pc[q]
  BY <1>2, SequenceFacts DEF TypeOK, RequestTypes
<1>4. \A q \in Requests : q # r => act'[q] = act[q]
  BY SequenceFacts
     DEF Subscribe, Deregister, Terminated, Wake, SendReturns, TypeOK, RequestTypes
<1>5. there \in {"woken", "parked"} => Listening(r) /\ act' = act
  BY <1>2, <1>3, SequenceFacts
     DEF Subscribe, Deregister, Terminated, Wake, SendReturns, Goto, Listening, Subscribed,
         TypeOK, RequestTypes
<1>6. there = "subscribed" => pc[r] = "locked"
  BY <1>2, <1>3, SequenceFacts
     DEF Subscribe, Deregister, Terminated, Wake, SendReturns, Goto, TypeOK, RequestTypes
<1>7. Follows(r) /\ Tells(r)
  BY DEF SequenceInv, SequenceParts
<1>8. Tells(r)'
  BY <1>1, <1>3, <1>6, <1>7 DEF Tells
<1>9. Follows(r)'
  <2>1. CASE there \in {"subscribed", "done"}
    BY <1>3, <2>1 DEF Follows, Listening, Subscribed
  <2>2. CASE there \in {"woken", "parked"}
    <3>1. Behind(act[r])' = Behind(act[r])
      BY <1>1, <1>5, <2>2 DEF Behind, Due
    <3>2. pc'[r] # "numbered"
      BY <1>3
    <3> QED
      BY <1>1, <1>5, <1>7, <2>2, <3>1, <3>2 DEF Follows, ByChannel
  <2> QED
    BY <2>1, <2>2
<1> QED
  BY <1>1, <1>3, <1>4, <1>8, <1>9, OneFollows

(* The first message has the number of the channel.                        *)
LEMMA RegisterFollows ==
  ASSUME SequenceInv, NEW r \in Requests, Register(r)
  PROVE  SequenceParts'
<1>1. /\ pc[r] = "subscribed" /\ pc' = [pc EXCEPT ![r] = "parked"]
      /\ last' = [last EXCEPT ![r] = Value(path[r], body[r], chan[act[r]].num)]
      /\ UNCHANGED <<act, path, body, num, chan, number, version, npc, todo, at, newNum>>
  BY DEF Register, Goto, activeVars, notifierVars
<1>2. pc'[r] = "parked" /\ \A q \in Requests : q # r => pc'[q] = pc[q]
  BY <1>1, SequenceFacts DEF TypeOK, RequestTypes
<1>3. /\ last'[r] = Value(path[r], body[r], chan[act[r]].num)
      /\ \A q \in Requests : q # r => last'[q] = last[q]
  BY <1>1, SequenceFacts DEF TypeOK, RequestTypes
<1>4. act[r] \in Requests /\ body[r] \in 0 .. MaxVersion
  BY <1>1, SequenceFacts, RequestFacts DEF Subscribed, TypeOK, RequestTypes
<1>5. /\ chan[act[r]].num \in Nums /\ number[act[r]] \in Nums
      /\ Behind(act[r]) <= version /\ Behind(act[r]) \in Nat /\ version \in Nat
  BY <1>4, SequenceFacts, SequenceTypes, BehindType DEF SequenceInv, SequenceParts, Paced
<1>6. Tells(r)'
  BY <1>1, <1>2, <1>3 DEF SequenceInv, SequenceParts, Tells, Value
<1>7. ASSUME ByChannel(path[r]) PROVE Follows(r)'
  <2>1. last'[r] = chan[act[r]].num
    BY <1>3, <1>4, <1>7 DEF Value, ByChannel
  <2>2. last'[r] # None
    BY <1>5, <2>1, ObserveAssumption DEF Nums
  <2>3. Ahead(last'[r], chan[act[r]].num) = 0
    BY <1>5, <2>1, AheadFacts
  <2>4. Behind(act[r])' = Behind(act[r])
    BY <1>1 DEF Behind, Due
  <2> QED
    BY <1>1, <1>2, <1>5, <2>2, <2>3, <2>4 DEF Follows
<1>8. Follows(r)'
  BY <1>1, <1>7 DEF Follows, ByChannel
<1> QED
  BY <1>1, <1>2, <1>3, <1>6, <1>8, OneFollows

LEMMA BorrowFollows ==
  ASSUME SequenceInv, NEW r \in Requests, Borrow(r)
  PROVE  SequenceParts'
<1>1. /\ pc[r] = "woken"
      /\ UNCHANGED <<act, path, body, last, chan, number, version, npc, todo, at, newNum>>
      /\ \/ pc' = [pc EXCEPT ![r] = "parked"] /\ UNCHANGED num
         \/ /\ pc' = [pc EXCEPT ![r] = "numbered"]
            /\ num' = [num EXCEPT ![r] = chan[act[r]].num]
  BY DEF Borrow, Goto, activeVars, notifierVars
<1>2. /\ \A q \in Requests : q # r => pc'[q] = pc[q] /\ num'[q] = num[q]
      /\ \/ pc'[r] = "parked"
         \/ pc'[r] = "numbered" /\ num'[r] = chan[act[r]].num
  BY <1>1, SequenceFacts DEF TypeOK, RequestTypes
<1>3. Listening(r) /\ act[r] \in Requests
  BY <1>1, SequenceFacts DEF Listening, Subscribed
<1>4. Follows(r) /\ Tells(r)
  BY DEF SequenceInv, SequenceParts
<1>5. Tells(r)'
  BY <1>1, <1>2, <1>4 DEF Tells
<1>6. Behind(act[r])' = Behind(act[r]) /\ Behind(act[r]) \in Nat
  BY <1>1, <1>3, SequenceFacts, BehindType DEF Behind, Due
<1>7. ASSUME ByChannel(path[r]) PROVE Follows(r)'
  <2>1. last[r] # None /\ Ahead(last[r], chan[act[r]].num) + Behind(act[r]) <= version
    BY <1>3, <1>4, <1>7 DEF Follows
  <2>2. last[r] \in Nums /\ chan[act[r]].num \in Nums
    BY <1>3, <2>1, SequenceFacts, SequenceTypes
  <2>3. Ahead(last[r], chan[act[r]].num) \in Nat
        /\ Ahead(chan[act[r]].num, chan[act[r]].num) = 0
    BY <2>2, AheadFacts
  <2>4. pc'[r] = "numbered" =>
          Ahead(last[r], num'[r]) + Ahead(num'[r], chan[act[r]].num) + Behind(act[r])
            <= version
    BY <1>2, <1>6, <2>1, <2>3
  <2> QED
    BY <1>1, <1>6, <2>1, <2>4 DEF Follows
<1>8. Follows(r)'
  BY <1>1, <1>7 DEF Follows, ByChannel
<1> QED
  BY <1>1, <1>2, <1>5, <1>8, OneFollows

(* A notification has the number at hand, or a later one of its handler.   *)
LEMMA NotifyFollows ==
  ASSUME SequenceInv, NEW r \in Requests, Notify(r)
  PROVE  SequenceParts'
<1>1. /\ pc[r] = "numbered"
      /\ UNCHANGED <<act, path, num, chan, number, version, npc, todo, at, newNum>>
      /\ \/ /\ pc' = [pc EXCEPT ![r] = "sending"]
            /\ body' = [body EXCEPT ![r] = version]
            /\ last' = [last EXCEPT ![r] = Value(path[r], version, num[r])]
         \/ pc' = [pc EXCEPT ![r] = "done"] /\ UNCHANGED <<body, last>>
  BY DEF Notify, Goto, activeVars, notifierVars
<1>2. /\ \A q \in Requests : q # r =>
           pc'[q] = pc[q] /\ body'[q] = body[q] /\ last'[q] = last[q]
      /\ \/ /\ pc'[r] = "sending" /\ body'[r] = version
            /\ last'[r] = Value(path[r], version, num[r])
         \/ pc'[r] = "done" /\ UNCHANGED <<body, last>>
  BY <1>1, SequenceFacts DEF TypeOK, RequestTypes
<1>3. Listening(r) /\ act[r] \in Requests /\ version \in 0 .. MaxVersion /\ version \in Nat
  BY <1>1, SequenceFacts DEF Listening, Subscribed, TypeOK
<1>4. Follows(r) /\ Tells(r)
  BY DEF SequenceInv, SequenceParts
<1>5. Tells(r)'
  BY <1>1, <1>2, <1>3, <1>4 DEF Tells, Value
<1>6. Behind(act[r])' = Behind(act[r]) /\ Behind(act[r]) \in Nat
  BY <1>1, <1>3, SequenceFacts, BehindType DEF Behind, Due
<1>7. ASSUME ByChannel(path[r]), pc'[r] = "sending" PROVE Follows(r)'
  <2>1. /\ last[r] # None
        /\ Ahead(last[r], num[r]) + Ahead(num[r], chan[act[r]].num) + Behind(act[r])
             <= version
    BY <1>1, <1>3, <1>4, <1>7 DEF Follows
  <2>2. last[r] \in Nums /\ chan[act[r]].num \in Nums /\ num[r] \in Nums
    BY <1>3, <2>1, SequenceFacts, SequenceTypes
  <2>3. Ahead(last[r], num[r]) \in Nat /\ Ahead(num[r], chan[act[r]].num) \in Nat
    BY <2>2, AheadFacts
  <2>4. last'[r] = num[r]
    BY <1>2, <1>3, <1>7 DEF Value, ByChannel
  <2>5. last'[r] # None
    BY <2>2, <2>4, ObserveAssumption DEF Nums
  <2>6. Ahead(last'[r], chan[act[r]].num) + Behind(act[r]) <= version
    BY <1>3, <1>6, <2>1, <2>3, <2>4
  <2> QED
    BY <1>1, <1>6, <1>7, <2>5, <2>6 DEF Follows
<1>8. Follows(r)'
  <2>1. pc'[r] = "done" => Follows(r)'
    BY DEF Follows, Listening, Subscribed
  <2> QED
    BY <1>1, <1>2, <1>7, <2>1 DEF Follows, ByChannel
<1> QED
  BY <1>1, <1>2, <1>5, <1>8, OneFollows

(* A fresh channel has the number of the activation, and no receivers.     *)
LEMMA LockFollows ==
  ASSUME SequenceInv, NEW r \in Requests, Lock(r)
  PROVE  SequenceParts'
<1>1. /\ pc[r] = "answered" /\ pc' = [pc EXCEPT ![r] = "locked"]
      /\ UNCHANGED <<act, path, body, num, last, version, npc, todo, at, newNum>>
      /\ \/ UNCHANGED <<number, chan>>
         \/ \E n \in StartNums :
              /\ number' = [number EXCEPT ![r] = n]
              /\ chan' = [chan EXCEPT ![r] = [num |-> n, ver |-> 0]]
  BY DEF Lock, Goto, activeVars, notifierVars
<1>2. pc'[r] = "locked" /\ \A q \in Requests : q # r => pc'[q] = pc[q]
  BY <1>1, SequenceFacts DEF TypeOK, RequestTypes
<1>3. \A a \in Requests : a # r => number'[a] = number[a] /\ chan'[a] = chan[a]
  BY <1>1, SequenceFacts DEF TypeOK, ActivationTypes
<1>4. \A a \in Requests : a # r => Behind(a)' = Behind(a)
  BY <1>1, <1>3 DEF Behind, Due
<1>5. InHand'
  <2>1. ASSUME NEW n \in Notifiers, npc'[n] = "bumped"
        PROVE  newNum'[n] = number'[at'[n]]
    <3>1. npc[n] = "bumped" /\ newNum[n] = number[at[n]]
      BY <1>1, <2>1 DEF SequenceInv, SequenceParts, InHand
    <3>2. Begun(at[n]) /\ phase[r] = "free"
      BY <1>1, <3>1, SequenceFacts
         DEF SequenceInv, AllBegun, RegistryInv, PathsNameActivations
    <3> QED
      BY <1>1, <1>3, <3>1, <3>2 DEF Begun
  <2> QED
    BY <2>1 DEF InHand
<1>6. Paced'
  <2>1. UNCHANGED <<number, chan>> => Behind(r)' = Behind(r)
    BY <1>1 DEF Behind, Due
  <2>2. ASSUME NEW n \in StartNums,
               number' = [number EXCEPT ![r] = n],
               chan' = [chan EXCEPT ![r] = [num |-> n, ver |-> 0]]
        PROVE  Behind(r)' <= version
    <3>1. number'[r] = n /\ chan'[r].num = n /\ n \in Nums
      BY <2>2, SequenceFacts, ObserveAssumption DEF TypeOK, ActivationTypes, Nums
    <3>2. Ahead(n, n) = 0 /\ Due(r)' = Due(r) /\ Due(r) \in {0, 1}
      BY <1>1, <3>1, AheadFacts DEF Due
    <3>3. Behind(r)' = Due(r)
      BY <3>1, <3>2 DEF Behind
    <3>4. Behind(r) = Ahead(chan[r].num, number[r]) + Due(r)
      BY DEF Behind
    <3>5. Behind(r) <= version
      BY DEF SequenceInv, SequenceParts, Paced
    <3>6. Ahead(chan[r].num, number[r]) \in Nat /\ version \in Nat
      BY SequenceFacts, BehindType, SequenceTypes
    <3> QED
      BY <3>2, <3>3, <3>4, <3>5, <3>6
  <2>3. Behind(r)' <= version
    BY <1>1, <2>1, <2>2 DEF SequenceInv, SequenceParts, Paced
  <2> QED
    BY <1>1, <1>4, <2>3 DEF SequenceInv, SequenceParts, Paced
<1>7. ASSUME NEW q \in Requests PROVE Follows(q)' /\ Tells(q)'
  <2>1. Follows(q) /\ Tells(q)
    BY DEF SequenceInv, SequenceParts
  <2>2. Tells(q)'
    BY <1>1, <1>2, <2>1 DEF Tells
  <2>3. ASSUME Listening(q)', ByChannel(path[q]) PROVE Follows(q)'
    <3>1. q # r /\ pc'[q] = pc[q] /\ Listening(q)
      BY <1>2, <2>3 DEF Listening, Subscribed
    <3>2. act[q] \in Requests /\ act[q] # r
      BY <1>1, <3>1, SequenceFacts DEF RegistryInv, PathsNameActivations
    <3>3. Behind(act[q])' = Behind(act[q]) /\ chan'[act[q]] = chan[act[q]]
      BY <1>1, <1>3, <3>2 DEF Behind, Due
    <3> QED
      BY <1>1, <2>1, <2>3, <3>1, <3>3 DEF Follows
  <2> QED
    BY <1>1, <2>2, <2>3 DEF Follows, ByChannel
<1> QED
  BY <1>5, <1>6, <1>7 DEF SequenceParts

(* Activations stay begun, and those that are attached have begun.         *)
LEMMA NextBegun == RegistryInv /\ AllBegun /\ [Next]_vars => AllBegun'
<1> SUFFICES ASSUME RegistryInv, AllBegun, [Next]_vars PROVE AllBegun'
  OBVIOUS
<1>0. TypeOK
  BY DEF RegistryInv
<1>1. ASSUME \A a : Begun(a) => Begun(a)',
             UNCHANGED <<holder, todo, npc, at>>
      PROVE  AllBegun'
  BY <1>1 DEF AllBegun
<1>2. UNCHANGED phase => \A a : Begun(a) => Begun(a)'
  BY DEF Begun
<1>3. ASSUME NEW r \in Requests,
             \/ \E c \in Clients, p \in Paths, f \in {"Register", "Deregister"} :
                  Respond(r, c, p, f)
             \/ RequestStep(r) /\ ~Lock(r)
      PROVE  AllBegun'
  <2>1. UNCHANGED <<phase, holder, todo, npc, at>>
    BY <1>3 DEF Respond, RequestStep, Subscribe, Register, Deregister, Terminated, Wake,
                Borrow, Notify, SendReturns, activeVars, holderVars, notifierVars
  <2> QED
    BY <1>1, <1>2, <2>1
<1>4. ASSUME NEW r \in Requests, Lock(r) PROVE AllBegun'
  <2>1. UNCHANGED <<holder, todo, npc, at>>
    BY <1>4 DEF Lock, holderVars, notifierVars
  <2>2. UNCHANGED phase \/ phase' = [phase EXCEPT ![r] = "spawned"]
    BY <1>4 DEF Lock, activeVars
  <2>3. \A a : Begun(a) => Begun(a)'
    BY <1>0, <2>2 DEF Begun, TypeOK, ActivationTypes
  <2> QED
    BY <1>1, <2>1, <2>3
<1>5. ASSUME NEW a \in Requests, ActiveStep(a) PROVE AllBegun'
  <2>1. UNCHANGED <<todo, npc, at>>
    BY <1>5 DEF ActiveStep, Attach, StayActive, Detach, Remove, notifierVars
  <2>2. PICK there \in {"attached", "closed", "returned", "panicked", "ended"} :
          phase' = [phase EXCEPT ![a] = there]
    BY <1>5 DEF ActiveStep, Attach, StayActive, Detach, Remove, SetPhase
  <2>3. Begun(a)' /\ \A b : Begun(b) => Begun(b)'
    BY <1>0, <2>2 DEF Begun, TypeOK, ActivationTypes
  <2>4. \A k \in RelKeys : holder'[k] \in {holder[k], a, None}
    BY <1>0, <1>5 DEF ActiveStep, Attach, StayActive, Detach, Remove, holderVars,
                      TypeOK, HolderTypes
  <2> QED
    BY <2>1, <2>3, <2>4 DEF AllBegun
<1>6. ASSUME NEW n \in Notifiers, Change(n) \/ NotifyStep(n) PROVE AllBegun'
  <2>1. UNCHANGED <<phase, holder>>
    BY <1>6 DEF Change, NotifyStep, NotifyChange, NotifyChangeForPath, BeginNotify,
                Bump, Publish, EndNotify, activeVars, holderVars
  <2>2. \A a : Begun(a) => Begun(a)'
    BY <1>2, <2>1
  <2>3. CASE Change(n) \/ Publish(n) \/ EndNotify(n)
    <3>1. /\ UNCHANGED <<todo, at>>
          /\ \A m \in Notifiers : npc'[m] = "bumped" => npc[m] = "bumped"
      BY <1>0, <2>3 DEF Change, Publish, EndNotify, NGoto, TypeOK, NotifierTypes
    <3> QED
      BY <2>1, <2>2, <3>1 DEF AllBegun
  <2>4. ASSUME NEW a \in Requests, Bump(n, a) PROVE AllBegun'
    <3>1. /\ a \in todo[n] /\ at'[n] = a
          /\ \A m \in Notifiers : todo'[m] \subseteq todo[m]
          /\ \A m \in Notifiers : m # n => npc'[m] = npc[m] /\ at'[m] = at[m]
      BY <1>0, <2>4 DEF Bump, NGoto, TypeOK, NotifierTypes
    <3> QED
      BY <2>1, <2>2, <3>1 DEF AllBegun
  <2>5. ASSUME NEW keys, keys \subseteq RelKeys, \A k \in keys : holder[k] # None,
               BeginNotify(n, keys)
        PROVE  AllBegun'
    <3>1. /\ UNCHANGED at /\ todo'[n] = {holder[k] : k \in keys}
          /\ \A m \in Notifiers : m # n => npc'[m] = npc[m] /\ todo'[m] = todo[m]
          /\ npc'[n] = "notifying"
      BY <1>0, <2>5 DEF BeginNotify, NGoto, TypeOK, NotifierTypes
    <3>2. \A a \in todo'[n] : Begun(a)
      BY <2>5, <3>1 DEF AllBegun
    <3> QED
      BY <2>1, <2>2, <3>1, <3>2 DEF AllBegun
  <2>6. \A k \in DOMAIN Attached : k \in RelKeys /\ holder[k] # None
    BY DEF Attached
  <2>7. CASE NotifyChange(n)
    BY <2>5, <2>6, <2>7 DEF NotifyChange
  <2>8. ASSUME NEW rel \in RelKeys, NotifyChangeForPath(n, rel) PROVE AllBegun'
    <3>1. PM!Matches(Attached, rel) \subseteq DOMAIN Attached
      BY DEF PM!Matches
    <3> QED
      BY <2>5, <2>6, <2>8, <3>1 DEF NotifyChangeForPath
  <2> QED
    BY <1>6, <2>3, <2>4, <2>7, <2>8 DEF NotifyStep
<1>7. UNCHANGED vars => AllBegun'
  BY <1>1, <1>2 DEF vars, activeVars, holderVars, notifierVars
<1> QED
  BY <1>3, <1>4, <1>5, <1>6, <1>7 DEF Next

LEMMA DueType == \A a : Due(a) \in {0, 1} /\ Due(a)' \in {0, 1}
BY DEF Due

(* A step that falls behind by no more than it changes.                    *)
LEMMA OthersFollow ==
  ASSUME SequenceInv, UNCHANGED <<pc, act, path, num, last, body, chan>>, InHand',
         version' \in Nat, version <= version',
         \A a \in Requests :
           Behind(a)' \in Nat /\ Behind(a)' + version <= Behind(a) + version'
  PROVE  SequenceParts'
<1>1. /\ version \in Nat
      /\ \A a \in Requests : Behind(a) \in Nat /\ Behind(a) <= version
  BY SequenceFacts, SequenceTypes, BehindType
     DEF SequenceInv, SequenceParts, Paced, TypeOK
<1>2. Paced'
  BY <1>1 DEF Paced
<1>3. ASSUME NEW r \in Requests PROVE Follows(r)' /\ Tells(r)'
  <2>1. Follows(r) /\ Tells(r)
    BY DEF SequenceInv, SequenceParts
  <2>2. body[r] \in Nat
    BY SequenceFacts, SequenceTypes
  <2>3. Tells(r)'
    BY <1>1, <2>1, <2>2 DEF Tells
  <2>4. ASSUME Listening(r), ByChannel(path[r]) PROVE Follows(r)'
    <3> DEFINE a == act[r]
               x == Ahead(last[r], chan[a].num)
               y == Ahead(last[r], num[r])
               z == Ahead(num[r], chan[a].num)
    <3>1. a \in Requests /\ act'[r] = a
      BY <2>4, SequenceFacts
    <3>2. last[r] # None /\ x + Behind(a) <= version
          /\ (pc[r] = "numbered" => y + z + Behind(a) <= version)
      BY <2>1, <2>4 DEF Follows
    <3>3. x \in Nat /\ y \in Nat /\ z \in Nat
      <4>1. last[r] \in Nums /\ num[r] \in Nums /\ chan[a].num \in Nums
        BY <3>1, <3>2, SequenceFacts, SequenceTypes
      <4> QED
        BY <4>1, AheadFacts
    <3> HIDE DEF a, x, y, z
    <3>4. Behind(a) \in Nat /\ Behind(a)' \in Nat /\ Behind(a)' + version <= Behind(a) + version'
      BY <1>1, <3>1 DEF a
    <3>5. x + Behind(a)' <= version'
          /\ (pc[r] = "numbered" => y + z + Behind(a)' <= version')
      BY <1>1, <3>2, <3>3, <3>4
    <3> QED
      BY <3>2, <3>5 DEF a, x, y, z, Follows
  <2>5. Follows(r)'
    BY <2>4 DEF Follows, Listening, ByChannel
  <2> QED
    BY <2>3, <2>5
<1> QED
  BY <1>2, <1>3 DEF SequenceParts

(* A change is due to every activation, before it is notified.             *)
LEMMA NotifierFollows ==
  ASSUME SequenceInv, OneNotifier, NEW n \in Notifiers,
         Change(n) \/ (NotifyStep(n) /\ ~Publish(n))
  PROVE  SequenceParts'
<1>1. UNCHANGED <<pc, act, path, num, last, body, chan>>
  BY DEF Change, NotifyStep, NotifyChange, NotifyChangeForPath, BeginNotify, Bump,
         EndNotify, activeVars, requestVars
<1>2. TypeOK /\ version \in Nat /\ \A m \in Notifiers : m = n
  BY SequenceFacts DEF TypeOK, OneNotifier
<1>3. ASSUME NEW a \in Requests
      PROVE  /\ Ahead(chan[a].num, number[a]) \in Nat
             /\ Behind(a) = Ahead(chan[a].num, number[a]) + Due(a)
             /\ Due(a) \in {0, 1} /\ Due(a)' \in {0, 1}
  BY <1>2, BehindType, DueType DEF Behind
<1>4. CASE Change(n)
  <2>1. version' = version + 1 /\ UNCHANGED <<number, at, newNum>> /\ npc'[n] = "changed"
    BY <1>2, <1>4 DEF Change, NGoto, activeVars, TypeOK, NotifierTypes
  <2>2. InHand'
    BY <1>2, <2>1 DEF InHand
  <2>3. ASSUME NEW a \in Requests
        PROVE  Behind(a)' \in Nat /\ Behind(a)' + version <= Behind(a) + version'
    <3>1. Behind(a)' = Ahead(chan[a].num, number[a]) + Due(a)'
      BY <1>1, <2>1 DEF Behind
    <3> QED
      BY <1>2, <1>3, <2>1, <3>1
  <2> QED
    BY <1>1, <1>2, <2>1, <2>2, <2>3, OthersFollow
<1>5. CASE EndNotify(n) \/ \E keys : BeginNotify(n, keys)
  <2>1. /\ UNCHANGED <<version, number, at, newNum>> /\ npc'[n] \in {"idle", "notifying"}
        /\ \/ npc[n] = "changed" \/ npc'[n] = "idle"
    BY <1>2, <1>5 DEF EndNotify, BeginNotify, NGoto, activeVars, TypeOK, NotifierTypes
  <2>2. InHand'
    BY <1>2, <2>1 DEF InHand
  <2>3. ASSUME NEW a \in Requests
        PROVE  Behind(a)' \in Nat /\ Behind(a)' + version <= Behind(a) + version'
    <3>1. Behind(a)' = Ahead(chan[a].num, number[a]) + Due(a)'
      BY <1>1, <2>1 DEF Behind
    <3>2. Due(a) = 1 \/ Due(a)' = 0
      BY <1>2, <2>1 DEF Due
    <3> QED
      BY <1>2, <1>3, <2>1, <3>1, <3>2
  <2> QED
    BY <1>1, <1>2, <2>1, <2>2, <2>3, OthersFollow
<1>6. ASSUME NEW b \in Requests, Bump(n, b) PROVE SequenceParts'
  <2>1. /\ UNCHANGED version /\ npc[n] = "notifying" /\ npc'[n] = "bumped"
        /\ b \in todo[n] /\ todo'[n] = todo[n] \ {b} /\ at'[n] = b
        /\ number'[b] = NextNum(number[b]) /\ newNum'[n] = NextNum(number[b])
        /\ \A a \in Requests : a # b => number'[a] = number[a]
    BY <1>2, <1>6 DEF Bump, NGoto, TypeOK, NotifierTypes, ActivationTypes
  <2>2. InHand'
    BY <1>2, <2>1 DEF InHand
  <2>3. ASSUME NEW a \in Requests
        PROVE  Behind(a)' \in Nat /\ Behind(a)' + version <= Behind(a) + version'
    <3>1. CASE a = b
      <4>1. Due(a) = 1 /\ Due(a)' = 0
        BY <1>2, <2>1, <3>1 DEF Due
      <4>2. chan[a].num \in Nums /\ number[a] \in Nums /\ NextNum(number[a]) \in Nums
        BY <1>2, SequenceTypes, NextNumType
      <4>3. /\ Ahead(chan[a].num, NextNum(number[a])) \in Nat
            /\ Ahead(chan[a].num, NextNum(number[a])) <= Ahead(chan[a].num, number[a]) + 1
        BY <4>2, AheadFacts
      <4>4. Behind(a)' = Ahead(chan[a].num, NextNum(number[a])) + Due(a)'
        BY <1>1, <2>1, <3>1 DEF Behind
      <4> QED
        BY <1>2, <1>3, <2>1, <4>1, <4>3, <4>4
    <3>2. CASE a # b
      <4>1. Due(a)' = Due(a)
        BY <1>2, <2>1, <3>2 DEF Due
      <4>2. Behind(a)' = Ahead(chan[a].num, number[a]) + Due(a)'
        BY <1>1, <2>1, <3>2 DEF Behind
      <4> QED
        BY <1>2, <1>3, <2>1, <4>1, <4>2
    <3> QED
      BY <3>1, <3>2
  <2> QED
    BY <1>1, <1>2, <2>1, <2>2, <2>3, OthersFollow
<1> QED
  BY <1>4, <1>5, <1>6 DEF NotifyStep, NotifyChange, NotifyChangeForPath

(* What is published is the next number: the channel catches up.           *)
LEMMA PublishFollows ==
  ASSUME SequenceInv, OneNotifier, NEW n \in Notifiers, Publish(n)
  PROVE  SequenceParts'
<1>0. at[n] \in Requests /\ newNum[n] = number[at[n]]
  BY DEF Publish, SequenceInv, AllBegun, Begun, SequenceParts, InHand
<1> PICK b \in Requests : b = at[n]
  BY <1>0
<1>1. /\ npc[n] = "bumped" /\ npc' = [npc EXCEPT ![n] = "notifying"]
      /\ UNCHANGED <<pc, act, path, num, last, body, version, number, todo, at, newNum>>
      /\ \/ chan' = [chan EXCEPT ![b] = [num |-> newNum[n], ver |-> @.ver + 1]]
         \/ UNCHANGED chan
  BY DEF Publish, NGoto, requestVars
<1>2. TypeOK /\ \A m \in Notifiers : m = n
  BY SequenceFacts DEF OneNotifier
<1>3. newNum[n] = number[b]
  BY <1>0
<1>4. npc'[n] = "notifying" /\ InHand'
  BY <1>1, <1>2 DEF InHand, TypeOK, NotifierTypes
<1>5. \A a \in Requests : Due(a)' = Due(a)
  BY <1>1, <1>2, <1>4 DEF Due
<1>6. CASE UNCHANGED chan
  <2>1. \A a \in Requests : Behind(a)' = Behind(a)
    BY <1>1, <1>5, <1>6 DEF Behind
  <2>2. version \in Nat /\ \A a \in Requests : Behind(a) \in Nat
    BY <1>2, BehindType DEF TypeOK
  <2> QED
    BY <1>1, <1>4, <1>6, <2>1, <2>2, OthersFollow
<1>7. CASE chan' = [chan EXCEPT ![b] = [num |-> newNum[n], ver |-> @.ver + 1]]
  <2>1. chan'[b].num = number[b] /\ \A a \in Requests : a # b => chan'[a] = chan[a]
    BY <1>2, <1>3, <1>7 DEF TypeOK, ActivationTypes
  <2>2. \A a \in Requests : a # b => Behind(a)' = Behind(a)
    BY <1>1, <1>5, <2>1 DEF Behind
  <2>3. chan[b].num \in Nums /\ number[b] \in Nums /\ version \in Nat /\ Due(b) \in {0, 1}
    BY <1>2, <1>3, SequenceTypes
  <2>4. Ahead(number[b], number[b]) = 0 /\ Ahead(chan[b].num, number[b]) \in Nat
    BY <2>3, AheadFacts
  <2>5. Behind(b)' = Due(b) /\ Behind(b) = Ahead(chan[b].num, number[b]) + Due(b)
    BY <1>1, <1>3, <1>5, <2>1, <2>3, <2>4 DEF Behind
  <2>6. Paced'
    <3>1. Behind(b)' <= version
      BY <2>3, <2>4, <2>5 DEF SequenceInv, SequenceParts, Paced
    <3> QED
      BY <1>1, <2>2, <3>1 DEF SequenceInv, SequenceParts, Paced
  <2>7. ASSUME NEW r \in Requests PROVE Follows(r)' /\ Tells(r)'
    <3>1. Follows(r) /\ Tells(r)
      BY DEF SequenceInv, SequenceParts
    <3>2. Tells(r)'
      BY <1>1, <3>1 DEF Tells
    <3>3. ASSUME Listening(r), ByChannel(path[r]), act[r] # b PROVE Follows(r)'
      <4>1. act[r] \in Requests
        BY <3>3, SequenceFacts
      <4>2. Behind(act[r])' = Behind(act[r]) /\ chan'[act[r]] = chan[act[r]]
        BY <1>1, <2>1, <2>2, <3>3, <4>1 DEF Behind, Due
      <4> QED
        BY <1>1, <3>1, <3>3, <4>2 DEF Follows
    <3>4. ASSUME Listening(r), ByChannel(path[r]), act[r] = b PROVE Follows(r)'
      <4> PICK c : c = chan[b].num
        OBVIOUS
      <4> PICK m : m = number[b]
        OBVIOUS
      <4>1. /\ last[r] # None /\ Ahead(last[r], c) + Behind(b) <= version
            /\ pc[r] = "numbered" =>
                 Ahead(last[r], num[r]) + Ahead(num[r], c) + Behind(b) <= version
        BY <3>1, <3>4 DEF Follows
      <4>2. last[r] \in Nums /\ num[r] \in Nums /\ c \in Nums /\ m \in Nums
        BY <1>2, <2>3, <4>1, SequenceTypes
      <4>3. /\ Ahead(last[r], m) <= Ahead(last[r], c) + Ahead(c, m)
            /\ Ahead(num[r], m) <= Ahead(num[r], c) + Ahead(c, m)
        BY <4>2, AheadFacts
      <4>4. /\ Ahead(last[r], m) \in Nat /\ Ahead(last[r], c) \in Nat /\ Ahead(c, m) \in Nat
            /\ Ahead(num[r], m) \in Nat /\ Ahead(num[r], c) \in Nat
            /\ Ahead(last[r], num[r]) \in Nat
        BY <4>2, AheadFacts
      <4>5. Behind(b) = Ahead(c, m) + Due(b)
        BY <2>5
      <4>6. /\ Ahead(last[r], m) + Due(b) <= version
            /\ pc[r] = "numbered" =>
                 Ahead(last[r], num[r]) + Ahead(num[r], m) + Due(b) <= version
        BY <2>3, <4>1, <4>3, <4>4, <4>5
      <4>7. act'[r] = b /\ chan'[act'[r]].num = m /\ UNCHANGED <<last, num, pc, version>>
        BY <1>1, <2>1, <3>4
      <4>8. Behind(act[r])' = Due(b)
        <5>1. Behind(act[r])' = Behind(b)'
          BY <4>7 DEF Behind, Due
        <5> QED
          BY <2>5, <5>1
      <4> QED
        BY <4>1, <4>6, <4>7, <4>8 DEF Follows
    <3> QED
      BY <1>1, <3>2, <3>3, <3>4 DEF Follows, Listening, ByChannel
  <2> QED
    BY <1>4, <2>6, <2>7 DEF SequenceParts
<1> QED
  BY <1>1, <1>6, <1>7

LEMMA SequenceNext ==
  ASSUME OneNotifier
  PROVE  SequenceInv /\ [Next]_vars => SequenceInv'
<1> SUFFICES ASSUME SequenceInv, [Next]_vars PROVE SequenceParts'
  BY ChannelNext, NextBegun, SequenceFacts DEF SequenceInv
<1>1. ASSUME NEW r \in Requests, RequestStep(r) PROVE SequenceParts'
  BY <1>1, QuietFollows, LockFollows, RegisterFollows, BorrowFollows, NotifyFollows
     DEF RequestStep
<1>2. ASSUME UNCHANGED <<pc, act, path, num, last, body, chan, number, version>>,
             UNCHANGED notifierVars
      PROVE  SequenceParts'
  <2>1. \A a \in Requests : Behind(a)' = Behind(a)
    BY <1>2 DEF Behind, Due, notifierVars
  <2>2. version \in Nat /\ \A a \in Requests : Behind(a) \in Nat
    BY SequenceFacts, BehindType DEF TypeOK
  <2>3. InHand'
    BY <1>2 DEF SequenceInv, SequenceParts, InHand, notifierVars
  <2> QED
    BY <1>2, <2>1, <2>2, <2>3, OthersFollow
<1>3. ASSUME NEW a \in Requests, ActiveStep(a) PROVE SequenceParts'
  <2>1. UNCHANGED <<pc, act, path, num, last, body, chan, number, version, notifierVars>>
    BY <1>3 DEF ActiveStep, Attach, StayActive, Detach, Remove, requestVars
  <2> QED
    BY <1>2, <2>1
<1>4. ASSUME NEW n \in Notifiers, Change(n) \/ NotifyStep(n) PROVE SequenceParts'
  BY <1>4, NotifierFollows, PublishFollows
<1>5. CASE UNCHANGED vars
  BY <1>2, <1>5 DEF vars, requestVars, activeVars
<1> QED
  BY <1>1, <1>3, <1>4, <1>5, RespondFollows DEF Next

LEMMA SequenceInit == Init => SequenceInv
<1> SUFFICES ASSUME Init PROVE SequenceInv
  OBVIOUS
<1>1. ChannelInv /\ TypeOK
  BY ChannelInit DEF ChannelInv, RegistryInv
<1>2. AllBegun /\ InHand
  BY DEF Init, AllBegun, InHand
<1>3. ASSUME NEW a \in Requests PROVE Behind(a) <= version
  <2>1. Ahead(0, 0) = 0
    <3>1. 0 \in Nums
      BY ObserveAssumption DEF Nums
    <3> QED
      BY <3>1, AheadFacts
  <2>2. chan[a].num = 0 /\ number[a] = 0 /\ Due(a) = 0 /\ version = 0
    BY DEF Init, Due
  <2> QED
    BY <2>1, <2>2 DEF Behind
<1>4. ASSUME NEW r \in Requests PROVE Follows(r) /\ Tells(r)
  BY DEF Init, Follows, Tells, Listening, Subscribed
<1> QED
  BY <1>1, <1>2, <1>3, <1>4 DEF SequenceInv, SequenceParts, Paced

(* With one notifier, and at most half as many changes as there are        *)
(* numbers, no observer is sent a number that its client takes for an      *)
(* older one: through wrap-arounds, publications that overtake the loop    *)
(* and channels that nobody listened to.  Paths are numbered throughout by *)
(* the channel, or by a handler that counts on.                            *)
THEOREM SequencesKeepForward ==
  OneNotifier /\ NumbersSuffice /\ EitherNumbers => (Spec => SequenceNeverRunsBackwards)
<1> SUFFICES ASSUME OneNotifier, NumbersSuffice, EitherNumbers
             PROVE  Spec => SequenceNeverRunsBackwards
  OBVIOUS
<1>1. SequenceInv /\ [Next]_vars => SequenceInv'
  BY SequenceNext
<1>2. ASSUME SequenceInv, [Next]_vars, NEW r \in Requests, last[r] # None
      PROVE  ~U24!Backwards(last[r], last'[r])
  <2>1. last[r] \in Nums /\ TypeOK /\ NumSpace \in Nat \ {0}
    BY <1>2, SequenceFacts, SequenceTypes, ObserveAssumption
  <2>2. CASE last'[r] = last[r]
    <3>1. Ahead(last[r], last[r]) = 0
      BY <2>1, AheadFacts
    <3>2. ~(0 > NumSpace \div 2)
      BY <2>1
    <3> QED
      BY <2>1, <2>2, <3>1, <3>2, AheadFacts
  <2>3. CASE Notify(r) /\ last'[r] # last[r]
    <3>1. /\ pc[r] = "numbered" /\ last'[r] = Value(path[r], version, num[r])
          /\ version \in 0 .. MaxVersion /\ body[r] \in 0 .. MaxVersion
          /\ path[r] \in Paths
      BY <1>2, <2>1, <2>3, SequenceFacts, RequestFacts DEF Notify, TypeOK, RequestTypes
    <3>2. Follows(r) /\ Tells(r)
      BY <1>2 DEF SequenceInv, SequenceParts
    <3>3. CASE ByChannel(path[r])
      <4>1. Listening(r) /\ act[r] \in Requests
        BY <1>2, <3>1, SequenceFacts DEF Listening, Subscribed
      <4>2. Ahead(last[r], num[r]) + Ahead(num[r], chan[act[r]].num) + Behind(act[r])
              <= version
        BY <3>1, <3>2, <3>3, <4>1 DEF Follows
      <4>3. num[r] \in Nums /\ chan[act[r]].num \in Nums /\ Behind(act[r]) \in Nat
        BY <2>1, <4>1, SequenceTypes, BehindType
      <4>4. Ahead(last[r], num[r]) \in Nat /\ Ahead(num[r], chan[act[r]].num) \in Nat
        BY <2>1, <4>3, AheadFacts
      <4>5. Ahead(last[r], num[r]) <= MaxVersion /\ MaxVersion \in Nat
        BY <3>1, <4>2, <4>3, <4>4, ObserveAssumption
      <4>6. PICK half \in Nat : half = NumSpace \div 2
        BY <2>1
      <4>7. ~(Ahead(last[r], num[r]) > NumSpace \div 2)
        BY <4>4, <4>5, <4>6 DEF NumbersSuffice
      <4>8. last'[r] = num[r]
        BY <3>1, <3>3 DEF Value, ByChannel
      <4> QED
        BY <2>1, <4>3, <4>7, <4>8, AheadFacts
    <3>4. CASE ByHandler(path[r])
      <4>1. body[r] <= version
        BY <3>2 DEF Tells
      <4>2. /\ HandlerNumber[<<path[r], body[r]>>] # None
            /\ HandlerNumber[<<path[r], version>>] # None
            /\ ~U24!Backwards(HandlerNumber[<<path[r], body[r]>>],
                              HandlerNumber[<<path[r], version>>])
        BY <3>1, <3>4, <4>1 DEF ByHandler
      <4>3. /\ last[r] = HandlerNumber[<<path[r], body[r]>>]
            /\ last'[r] = HandlerNumber[<<path[r], version>>]
        BY <1>2, <3>1, <3>2, <4>2 DEF Tells, Value
      <4> QED
        BY <4>2, <4>3
    <3> QED
      BY <3>1, <3>3, <3>4 DEF EitherNumbers
  <2>4. ASSUME NEW q \in Requests, Register(q) PROVE last'[r] = last[r]
    <3>1. last[q] = None
      BY <1>2, <2>4 DEF SequenceInv, SequenceParts, Tells, Register
    <3> QED
      BY <1>2, <2>1, <2>4, <3>1 DEF Register, TypeOK, RequestTypes
  <2>5. ASSUME NEW q \in Requests, q # r, Notify(q) PROVE last'[r] = last[r]
    BY <2>1, <2>5 DEF Notify, TypeOK, RequestTypes
  <2>6. ASSUME NEW q \in Requests,
               \/ \E c \in Clients, p \in Paths, f \in {"Register", "Deregister"} :
                    Respond(q, c, p, f)
               \/ Lock(q) \/ Subscribe(q) \/ Deregister(q) \/ Terminated(q) \/ Wake(q)
               \/ Borrow(q) \/ SendReturns(q) \/ ActiveStep(q)
        PROVE  last'[r] = last[r]
    BY <2>6 DEF Respond, Lock, Subscribe, Deregister, Terminated, Wake, Borrow,
                SendReturns, ActiveStep, Attach, StayActive, Detach, Remove, requestVars
  <2>7. ASSUME NEW n \in Notifiers, Change(n) \/ NotifyStep(n) PROVE last'[r] = last[r]
    BY <2>7 DEF Change, NotifyStep, NotifyChange, NotifyChangeForPath, BeginNotify, Bump,
                Publish, EndNotify, requestVars
  <2>8. CASE UNCHANGED vars
    BY <2>2, <2>8 DEF vars, requestVars
  <2> QED
    BY <1>2, <2>2, <2>3, <2>4, <2>5, <2>6, <2>7, <2>8 DEF Next, RequestStep
<1>3. SequenceInv /\ [Next]_vars =>
        [\A r \in Requests : last[r] # None => ~U24!Backwards(last[r], last'[r])]_vars
  BY <1>2
<1> QED
  BY SequenceInit, <1>1, <1>3, PTL DEF Spec, SequenceNeverRunsBackwards
=============================================================================
