--------------------------- MODULE ObserveProofs ----------------------------
(***************************************************************************)
(* Theorems about Observe for every set of requests, clients, paths and    *)
(* notifiers: the registry, the loops and on_active agree, and they        *)
(* implement Observations.                                                 *)
(***************************************************************************)
EXTENDS Observe, TLAPS

-----------------------------------------------------------------------------
(* Types.                                                                  *)

(* A sequence number stays within its width (u24::wrapping_add).           *)
LEMMA NextNumType == \A n \in Nums : NextNum(n) \in Nums
<1> SUFFICES ASSUME NEW n \in Nums PROVE NextNum(n) \in Nums
  OBVIOUS
<1>1. NumSpace \in Nat \ {0} /\ 256 * NumSpace \in Nat \ {0} /\ n + 1 \in Nat
  BY ObserveAssumption DEF Nums
<1>2. PICK x \in Nat : x = (n + 1) % (256 * NumSpace)
  BY <1>1
<1>3. PICK y \in 0 .. NumSpace - 1 : y = x % NumSpace
  BY <1>1, <1>2
<1>4. NextNum(n) = y
  BY <1>1, <1>2, <1>3 DEF NextNum, U24!WrappingAdd, U24!Masked, U24!TryFrom, U24!MaxNum
<1> QED
  BY <1>3, <1>4 DEF Nums

(* A message is numbered by its handler or by its channel, in both cases   *)
(* within the width of a number.                                           *)
LEMMA ValueType ==
  ASSUME NEW p \in Paths, NEW v \in 0 .. MaxVersion, NEW n \in Nums
  PROVE  Value(p, v, n) \in Nums
<1>1. <<p, v>> \in Paths \X (0 .. MaxVersion)
  OBVIOUS
<1>2. HandlerNumber[<<p, v>>] \in Nums \cup {None}
  BY <1>1, ObserveAssumption DEF Nums
<1> QED
  BY <1>2 DEF Value

(* The places a request's task can be at, one by one.                      *)
LEMMA PcsType ==
  \A s \in {"idle", "answered", "locked", "subscribed", "parked", "woken",
            "numbered", "sending", "done"} : s \in Pcs
BY DEF Pcs, Subscribed

(* A group of variables that a step leaves alone keeps its types.          *)
LEMMA UnchangedTypes ==
  ASSUME TypeOK
  PROVE  /\ UNCHANGED registryVars => RegistryTypes'
         /\ UNCHANGED activeVars => ActivationTypes'
         /\ UNCHANGED holderVars => HolderTypes'
         /\ UNCHANGED requestVars => RequestTypes'
         /\ UNCHANGED notifierVars => NotifierTypes'
         /\ UNCHANGED version => (version \in 0 .. MaxVersion)'
<1> USE DEF TypeOK
<1>1. UNCHANGED registryVars => RegistryTypes'
  BY DEF RegistryTypes, registryVars
<1>2. UNCHANGED activeVars => ActivationTypes'
  BY DEF ActivationTypes, activeVars
<1>3. UNCHANGED holderVars => HolderTypes'
  BY DEF HolderTypes, holderVars
<1>4. UNCHANGED requestVars => RequestTypes'
  BY DEF RequestTypes, requestVars
<1>5. UNCHANGED notifierVars => NotifierTypes'
  BY DEF NotifierTypes, notifierVars
<1> QED
  BY <1>1, <1>2, <1>3, <1>4, <1>5

(* The initial state has the right types.                                  *)
LEMMA InitTypes == Init => TypeOK
<1> SUFFICES ASSUME Init PROVE TypeOK
  OBVIOUS
<1>1. 0 \in Nums /\ 0 \in 0 .. MaxVersion
  BY ObserveAssumption DEF Nums
<1>2. RegistryTypes /\ HolderTypes /\ NotifierTypes
  BY <1>1 DEF Init, RegistryTypes, HolderTypes, NotifierTypes, Maybe
<1>3. ActivationTypes
  BY <1>1 DEF Init, ActivationTypes, Maybe, Phases
<1>4. RequestTypes
  BY <1>1, PcsType DEF Init, RequestTypes, Maybe
<1> QED
  BY <1>1, <1>2, <1>3, <1>4 DEF Init, TypeOK

(* In the critical section and in the loop a request has its path, and     *)
(* the activation it looks up or listens to exists.                        *)
LEMMA RequestFacts ==
  ASSUME RegistryInv, NEW r \in Requests
  PROVE  /\ pc[r] # "idle" => path[r] \in Paths /\ client[r] \in Clients
         /\ pc[r] = "locked" => byPath[path[r]] \in Requests
         /\ pc[r] \in Subscribed => act[r] \in Requests
<1> USE DEF RegistryInv, RequestsAreFilled
<1>1. pc[r] # "idle" => path[r] \in Paths /\ client[r] \in Clients
  OBVIOUS
<1>2. pc[r] \in {"locked", "subscribed"} => byPath[path[r]] \in Requests
  BY <1>1 DEF CriticalSection, TypeOK, RegistryTypes, Maybe
<1>3. pc[r] \in Subscribed => act[r] \in Requests
  BY <1>2 DEF CriticalSection, TypeOK, RequestTypes, Maybe, Listening, Subscribed
<1> QED
  BY <1>1, <1>2, <1>3

(* A number or version read from an existing channel.                      *)
LEMMA ChannelFacts ==
  ASSUME TypeOK, NEW a \in Requests
  PROVE  chan[a].num \in Nums /\ chan[a].ver \in Nat
BY DEF TypeOK, ActivationTypes

(* What a step of a request's task does to the types.                      *)
LEMMA RequestStepTypes ==
  ASSUME RegistryInv, NEW r \in Requests, RequestStep(r)
  PROVE  TypeOK'
<1> USE DEF Goto
<1>0. TypeOK
  BY DEF RegistryInv
<1>1. CASE Lock(r)
  <2>1. StartNums \subseteq Nums
    BY ObserveAssumption DEF Nums
  <2>2. ActivationTypes'
    <3>1. CASE UNCHANGED activeVars
      BY <3>1, <1>0, UnchangedTypes
    <3>2. CASE byPath[path[r]] = None
      <4>1. PICK n \in Nums : /\ number' = [number EXCEPT ![r] = n]
                              /\ chan' = [chan EXCEPT ![r] = [num |-> n, ver |-> 0]]
        BY <1>1, <3>2, <2>1 DEF Lock
      <4>2. chan' \in [Requests -> [num : Nums, ver : Nat]] /\ number' \in [Requests -> Nums]
        BY <4>1, <1>0 DEF TypeOK, ActivationTypes
      <4>3. phase' \in [Requests -> Phases] /\ place' \in [Requests -> Maybe(Paths)]
        BY <1>0, <1>1, <3>2 DEF Lock, TypeOK, ActivationTypes, RequestTypes, Phases
      <4> QED
        BY <1>0, <1>1, <3>2, <4>2, <4>3 DEF Lock, TypeOK, ActivationTypes
    <3> QED
      BY <1>1, <3>1, <3>2 DEF Lock
  <2>3. RegistryTypes'
    BY <1>0, <1>1 DEF Lock, TypeOK, RegistryTypes, Maybe
  <2>4. RequestTypes'
    BY <1>0, <1>1, PcsType DEF Lock, TypeOK, RequestTypes
  <2> QED
    BY <1>0, <1>1, <2>2, <2>3, <2>4, UnchangedTypes DEF Lock, TypeOK
<1>2. CASE Subscribe(r)
  <2>1. byPath[path[r]] \in Requests
    BY <1>2, RequestFacts DEF Subscribe
  <2>2. RequestTypes'
    BY <1>0, <1>2, <2>1, PcsType, ChannelFacts
       DEF Subscribe, TypeOK, RequestTypes, Maybe
  <2> QED
    BY <1>0, <1>2, <2>2, UnchangedTypes DEF Subscribe, TypeOK
<1>3. CASE Register(r)
  <2>1. act[r] \in Requests
    BY <1>3, RequestFacts DEF Register, Subscribed
  <2>2. Value(path[r], body[r], chan[act[r]].num) \in Nums
    <3>1. path[r] \in Paths /\ body[r] \in 0 .. MaxVersion /\ chan[act[r]].num \in Nums
      BY <1>0, <1>3, <2>1, RequestFacts, ChannelFacts DEF Register, TypeOK, RequestTypes
    <3> QED
      BY <3>1, ValueType
  <2>3. RequestTypes'
    BY <1>0, <1>3, <2>2, PcsType
       DEF Register, Terminate, TypeOK, RequestTypes, Maybe
  <2>4. RegistryTypes'
    BY <1>0, <1>3 DEF Register, TypeOK, RegistryTypes, Maybe
  <2> QED
    BY <1>0, <1>3, <2>3, <2>4, UnchangedTypes DEF Register, TypeOK
<1>4. CASE Deregister(r)
  <2>1. RequestTypes'
    BY <1>0, <1>4, PcsType DEF Deregister, Terminate, TypeOK, RequestTypes
  <2>2. RegistryTypes'
    BY <1>0, <1>4 DEF Deregister, TypeOK, RegistryTypes, Maybe
  <2> QED
    BY <1>0, <1>4, <2>1, <2>2, UnchangedTypes DEF Deregister, TypeOK
<1>5. CASE Terminated(r)
  <2>1. RequestTypes'
    BY <1>0, <1>5, PcsType DEF Terminated, TypeOK, RequestTypes
  <2> QED
    BY <1>0, <1>5, <2>1, UnchangedTypes DEF Terminated, TypeOK
<1>6. CASE Wake(r)
  <2>1. act[r] \in Requests
    BY <1>6, RequestFacts DEF Wake, Subscribed
  <2>2. RequestTypes'
    BY <1>0, <1>6, <2>1, PcsType, ChannelFacts DEF Wake, TypeOK, RequestTypes
  <2> QED
    BY <1>0, <1>6, <2>2, UnchangedTypes DEF Wake, TypeOK
<1>7. CASE Borrow(r)
  <2>1. act[r] \in Requests
    BY <1>7, RequestFacts DEF Borrow, Subscribed
  <2>2. RequestTypes'
    BY <1>0, <1>7, <2>1, PcsType, ChannelFacts DEF Borrow, TypeOK, RequestTypes
  <2> QED
    BY <1>0, <1>7, <2>2, UnchangedTypes DEF Borrow, TypeOK
<1>8. CASE Notify(r)
  <2>1. Value(path[r], version, num[r]) \in Nums
    <3>1. path[r] \in Paths /\ version \in 0 .. MaxVersion /\ num[r] \in Nums
      BY <1>0, <1>8, RequestFacts DEF Notify, TypeOK, RequestTypes
    <3> QED
      BY <3>1, ValueType
  <2>2. RequestTypes'
    BY <1>0, <1>8, <2>1, PcsType DEF Notify, TypeOK, RequestTypes, Maybe
  <2> QED
    BY <1>0, <1>8, <2>2, UnchangedTypes DEF Notify, TypeOK
<1>9. CASE SendReturns(r)
  <2>1. RequestTypes'
    BY <1>0, <1>9, PcsType DEF SendReturns, TypeOK, RequestTypes
  <2> QED
    BY <1>0, <1>9, <2>1, UnchangedTypes DEF SendReturns, TypeOK
<1> QED
  BY <1>1, <1>2, <1>3, <1>4, <1>5, <1>6, <1>7, <1>8, <1>9 DEF RequestStep

(* What a step of the task of on_active does to the types.                 *)
LEMMA ActiveStepTypes ==
  ASSUME TypeOK, NEW a \in Requests, ActiveStep(a)
  PROVE  TypeOK'
<1>1. ASSUME NEW s \in Phases, SetPhase(a, s), UNCHANGED <<place, number, chan, pub>>
      PROVE  ActivationTypes'
  BY <1>1 DEF SetPhase, TypeOK, ActivationTypes
<1>2. \A s \in {"attached", "closed", "returned", "panicked", "ended"} : s \in Phases
  BY DEF Phases
<1>3. CASE Attach(a)
  <2>1. HolderTypes'
    BY <1>3 DEF Attach, TypeOK, HolderTypes, Maybe
  <2> QED
    BY <1>1, <1>2, <1>3, <2>1, UnchangedTypes DEF Attach, TypeOK
<1>4. CASE StayActive(a)
  BY <1>1, <1>2, <1>4, UnchangedTypes DEF StayActive, TypeOK
<1>5. CASE Detach(a)
  <2>1. HolderTypes'
    BY <1>5 DEF Detach, TypeOK, HolderTypes, Maybe
  <2> QED
    BY <1>1, <1>2, <1>5, <2>1, UnchangedTypes DEF Detach, TypeOK
<1>6. CASE Remove(a)
  <2>1. RegistryTypes'
    BY <1>6 DEF Remove, TypeOK, RegistryTypes, Maybe
  <2>2. RequestTypes'
    BY <1>6 DEF Remove, Terminate, TypeOK, RequestTypes
  <2> QED
    BY <1>1, <1>2, <1>6, <2>1, <2>2, UnchangedTypes DEF Remove, TypeOK
<1> QED
  BY <1>3, <1>4, <1>5, <1>6 DEF ActiveStep

(* What a step of a notifier does to the types.                            *)
LEMMA NotifierStepTypes ==
  ASSUME TypeOK, NEW n \in Notifiers, Change(n) \/ NotifyStep(n)
  PROVE  TypeOK'
<1> USE DEF NGoto
<1>1. CASE Change(n)
  <2>1. NotifierTypes' /\ (version \in 0 .. MaxVersion)'
    BY <1>1, ObserveAssumption DEF Change, TypeOK, NotifierTypes
  <2> QED
    BY <1>1, <2>1, UnchangedTypes DEF Change, TypeOK
<1>2. ASSUME NEW keys \in SUBSET (DOMAIN Attached), BeginNotify(n, keys)
      PROVE  TypeOK'
  <2>1. {holder[k] : k \in keys} \subseteq Requests
    BY DEF Attached, TypeOK, HolderTypes, Maybe
  <2>2. NotifierTypes' /\ HolderTypes'
    BY <1>2, <2>1 DEF BeginNotify, TypeOK, NotifierTypes, HolderTypes
  <2> QED
    BY <1>2, <2>2, UnchangedTypes DEF BeginNotify, TypeOK
<1>3. ASSUME NEW a \in Requests, Bump(n, a) PROVE TypeOK'
  <2>1. NextNum(number[a]) \in Nums
    BY NextNumType DEF TypeOK, ActivationTypes
  <2>2. NotifierTypes'
    BY <1>3, <2>1 DEF Bump, TypeOK, NotifierTypes, Maybe
  <2>3. ActivationTypes'
    BY <1>3, <2>1 DEF Bump, TypeOK, ActivationTypes
  <2> QED
    BY <1>3, <2>2, <2>3, UnchangedTypes DEF Bump, TypeOK
<1>4. CASE Publish(n)
  <2>1. chan' \in [Requests -> [num : Nums, ver : Nat]]
    <3>1. newNum[n] \in Nums
      BY DEF TypeOK, NotifierTypes
    <3>2. CASE at[n] \in Requests
      BY <1>4, <3>1, <3>2, ChannelFacts DEF Publish, TypeOK, ActivationTypes
    <3>3. CASE at[n] \notin Requests
      BY <1>4, <3>3 DEF Publish, TypeOK, ActivationTypes
    <3> QED
      BY <3>2, <3>3
  <2>2. ActivationTypes'
    BY <1>4, <2>1 DEF Publish, TypeOK, ActivationTypes
  <2>3. NotifierTypes'
    BY <1>4 DEF Publish, TypeOK, NotifierTypes
  <2> QED
    BY <1>4, <2>2, <2>3, UnchangedTypes DEF Publish, TypeOK
<1>5. CASE EndNotify(n)
  <2>1. NotifierTypes' /\ HolderTypes'
    BY <1>5 DEF EndNotify, TypeOK, NotifierTypes, HolderTypes
  <2> QED
    BY <1>5, <2>1, UnchangedTypes DEF EndNotify, TypeOK
<1>6. CASE NotifyChange(n)
  BY <1>2, <1>6 DEF NotifyChange
<1>7. ASSUME NEW k \in RelKeys, NotifyChangeForPath(n, k) PROVE TypeOK'
  BY <1>2, <1>7 DEF NotifyChangeForPath, PM!Matches
<1> QED
  BY <1>1, <1>3, <1>4, <1>5, <1>6, <1>7 DEF NotifyStep

-----------------------------------------------------------------------------
(* The registry, the loops and the activations.                            *)

(* A step that moves one task within its loop, or out of it, and leaves    *)
(* the registry and the phases alone.                                      *)
LEMMA LoopKeepsRegistry ==
  ASSUME RegistryInv, TypeOK', NEW r \in Requests, NEW there \in Pcs,
         Listening(r), pc' = [pc EXCEPT ![r] = there],
         there = "done" \/ there \in Subscribed \ {"subscribed"},
         UNCHANGED <<registryVars, phase, place, client, path, act, term>>
  PROVE  RegistryInv'
<1> USE DEF RegistryInv, registryVars
<1>1. /\ \A q \in Requests : q # r => pc'[q] = pc[q]
      /\ pc'[r] = there
      /\ pc[r] \notin {"idle", "answered", "locked", "subscribed"}
      /\ there \notin {"idle", "answered", "locked", "subscribed"}
  BY DEF TypeOK, RequestTypes, Listening, Subscribed
<1>2. \A q \in Requests : Listening(q)' => Listening(q)
  BY <1>1 DEF Listening
<1>3. CriticalSection'
  BY <1>1 DEF CriticalSection
<1>4. RequestsAreFilled'
  BY <1>1, <1>2 DEF RequestsAreFilled
<1>5. PathsNameActivations'
  BY <1>1 DEF PathsNameActivations, Lives, OnActive
<1>6. ListenersAreRegistered'
  BY <1>2 DEF ListenersAreRegistered
<1> QED
  BY <1>3, <1>4, <1>5, <1>6

(* Every step of the loop of do_handle is such a step.                     *)
LEMMA LoopStepInv ==
  ASSUME RegistryInv, NEW r \in Requests,
         Terminated(r) \/ Wake(r) \/ Borrow(r) \/ Notify(r) \/ SendReturns(r)
  PROVE  RegistryInv'
<1>1. TypeOK'
  BY RequestStepTypes DEF RequestStep
<1>2. /\ Listening(r)
      /\ UNCHANGED <<registryVars, phase, place, client, path, act, term>>
  BY DEF Terminated, Wake, Borrow, Notify, SendReturns, Listening, Subscribed,
     registryVars, activeVars
<1>3. PICK there \in {"parked", "woken", "numbered", "sending", "done"} :
        pc' = [pc EXCEPT ![r] = there]
  BY DEF Terminated, Wake, Borrow, Notify, SendReturns, Goto
<1>4. there \in Pcs /\ (there = "done" \/ there \in Subscribed \ {"subscribed"})
  BY PcsType DEF Subscribed
<1> QED
  BY <1>1, <1>2, <1>3, <1>4, LoopKeepsRegistry

(* Entering the registry: the lock was free, so nobody else is inside, and *)
(* an activation is created only for a path that has none.                 *)
LEMMA LockInv ==
  ASSUME RegistryInv, NEW r \in Requests, Lock(r)
  PROVE  RegistryInv'
<1> USE DEF RegistryInv, Lock, Goto
<1>1. TypeOK'
  BY RequestStepTypes DEF RequestStep
<1>2. /\ \A q \in Requests : q # r => pc'[q] = pc[q]
      /\ pc'[r] = "locked" /\ phase[r] = "free"
      /\ path[r] \in Paths
      /\ r # None
  BY ObserveAssumption
     DEF TypeOK, RequestTypes, PathsNameActivations, RequestsAreFilled
<1>3. /\ byPath'[path[r]] # None
      /\ \A p \in Paths : byPath[p] # None => byPath'[p] = byPath[p]
      /\ \A p \in Paths : byPath'[p] = byPath[p] \/ (p = path[r] /\ byPath'[p] = r)
  BY <1>2 DEF TypeOK, RegistryTypes
<1>4. \A q \in Requests : Listening(q)' <=> Listening(q)
  BY <1>2 DEF Listening, Subscribed
<1>5. CriticalSection'
  <2>1. \A q \in Requests : q # r => pc[q] \notin {"locked", "subscribed"}
    BY ObserveAssumption DEF CriticalSection
  <2> QED
    BY <2>1, <1>2, <1>3 DEF CriticalSection
<1>6. RequestsAreFilled'
  BY <1>2, <1>4 DEF RequestsAreFilled
<1>7. PathsNameActivations'
  <2>1. CASE byPath[path[r]] # None
    BY <2>1, <1>2 DEF PathsNameActivations, Lives, OnActive, activeVars
  <2>2. CASE byPath[path[r]] = None
    <3>1. /\ phase'[r] = "spawned" /\ place'[r] = path[r] /\ byPath'[path[r]] = r
          /\ \A a \in Requests : a # r => phase'[a] = phase[a] /\ place'[a] = place[a]
          /\ \A p \in Paths : p # path[r] => byPath'[p] = byPath[p]
      BY <2>2, <1>2 DEF TypeOK, ActivationTypes, RegistryTypes
    <3>2. ASSUME NEW p \in Paths, NEW a \in Requests, byPath'[p] = a
          PROVE  Lives(a)' /\ place'[a] = p
      <4>1. CASE p = path[r]
        BY <4>1, <3>1, <3>2 DEF Lives, OnActive
      <4>2. CASE p # path[r]
        <5>1. byPath[p] = a /\ Lives(a) /\ place[a] = p
          BY <4>2, <3>1, <3>2, ObserveAssumption DEF PathsNameActivations
        <5>2. a # r
          BY <5>1, <1>2 DEF Lives, OnActive
        <5> QED
          BY <5>1, <5>2, <3>1 DEF Lives, OnActive
      <4> QED
        BY <4>1, <4>2
    <3>3. ASSUME NEW a \in Requests, Lives(a)'
          PROVE  place'[a] \in Paths /\ byPath'[place'[a]] = a
      <4>1. CASE a = r
        BY <4>1, <3>1, <1>2
      <4>2. CASE a # r
        <5>1. /\ Lives(a) /\ place'[a] = place[a]
              /\ place[a] \in Paths /\ byPath[place[a]] = a
          BY <4>2, <3>1, <3>3 DEF PathsNameActivations, Lives, OnActive
        <5> QED
          BY <5>1, <2>2, <3>1, ObserveAssumption
      <4> QED
        BY <4>1, <4>2
    <3>4. \A a \in Requests : pc'[a] \in {"idle", "answered"} => phase'[a] = "free"
      BY <3>1, <1>2 DEF PathsNameActivations
    <3>5. ASSUME NEW p \in Paths, byPath'[p] # None
          PROVE  Lives(byPath[p])' /\ place'[byPath'[p]] = p
      <4>1. PICK a \in Requests : byPath'[p] = a
        BY <1>1, <3>5 DEF TypeOK, RegistryTypes, Maybe
      <4>2. Lives(a)' /\ place'[a] = p
        BY <4>1, <3>2
      <4> QED
        BY <4>1, <4>2 DEF Lives, OnActive
    <3> QED
      BY <3>3, <3>4, <3>5 DEF PathsNameActivations
  <2> QED
    BY <2>1, <2>2
<1>8. ListenersAreRegistered'
  <2> SUFFICES ASSUME NEW q \in Requests, Listening(q), ~term[q]
               PROVE  byPath'[path[q]] = act[q] /\ regs[path[q]][client[q]] = q
    BY <1>4 DEF ListenersAreRegistered
  <2>1. /\ byPath[path[q]] = act[q] /\ regs[path[q]][client[q]] = q
        /\ act[q] # None /\ path[q] \in Paths
    BY DEF ListenersAreRegistered, RequestsAreFilled, Listening, Subscribed
  <2> QED
    BY <2>1, <1>3
<1> QED
  BY <1>1, <1>5, <1>6, <1>7, <1>8

(* Subscribing: the holder of the lock notes the activation of its path.   *)
LEMMA SubscribeInv ==
  ASSUME RegistryInv, NEW r \in Requests, Subscribe(r)
  PROVE  RegistryInv'
<1> USE DEF RegistryInv, Subscribe, Goto, registryVars, activeVars
<1>1. TypeOK'
  BY RequestStepTypes DEF RequestStep
<1>2. /\ \A q \in Requests : q # r => pc'[q] = pc[q] /\ act'[q] = act[q]
      /\ pc'[r] = "subscribed" /\ act'[r] = byPath[path[r]]
  BY DEF TypeOK, RequestTypes
<1>3. \A q \in Requests : Listening(q)' <=> Listening(q) /\ q # r
  BY <1>2 DEF Listening, Subscribed
<1>4. CriticalSection'
  BY <1>2 DEF CriticalSection
<1>5. RequestsAreFilled'
  BY <1>2, <1>3 DEF RequestsAreFilled
<1>6. PathsNameActivations'
  BY <1>2 DEF PathsNameActivations, Lives, OnActive
<1>7. ListenersAreRegistered'
  BY <1>2, <1>3 DEF ListenersAreRegistered
<1> QED
  BY <1>1, <1>4, <1>5, <1>6, <1>7

(* Registering: the new entry names the new loop, and the loop it replaces *)
(* is told to stop.                                                        *)
LEMMA RegisterInv ==
  ASSUME RegistryInv, NEW r \in Requests, Register(r)
  PROVE  RegistryInv'
<1> USE DEF RegistryInv, Register, Goto, Terminate
<1>1. TypeOK'
  BY RequestStepTypes DEF RequestStep
<1>2. /\ \A q \in Requests : q # r => pc'[q] = pc[q]
      /\ pc'[r] = "parked" /\ act[r] = byPath[path[r]] /\ act[r] # None
      /\ path[r] \in Paths /\ client[r] \in Clients
  BY DEF TypeOK, RequestTypes, CriticalSection, RequestsAreFilled
<1>3. \A q \in Requests : q # r => (Listening(q)' <=> Listening(q))
  BY <1>2 DEF Listening
<1>4. CriticalSection'
  <2>1. \A q \in Requests : q # r => pc[q] \notin {"locked", "subscribed"}
    BY DEF CriticalSection
  <2> QED
    BY <2>1, <1>2 DEF CriticalSection
<1>5. RequestsAreFilled'
  BY <1>2, <1>3 DEF RequestsAreFilled
<1>6. PathsNameActivations'
  BY <1>2 DEF PathsNameActivations, Lives, OnActive, activeVars
<1>7. ListenersAreRegistered'
  <2> SUFFICES ASSUME NEW q \in Requests, Listening(q)', ~term'[q]
               PROVE  byPath[path[q]] = act[q] /\ regs'[path[q]][client[q]] = q
    BY DEF ListenersAreRegistered
  <2>1. CASE q = r
    BY <2>1, <1>2 DEF TypeOK, RegistryTypes
  <2>2. CASE q # r
    <3>1. Listening(q) /\ ~term[q]
      BY <2>2, <1>3
    <3>2. q # regs[path[r]][client[r]]
      BY <3>1
    <3>3. /\ byPath[path[q]] = act[q] /\ regs[path[q]][client[q]] = q
          /\ path[q] \in Paths /\ client[q] \in Clients
      BY <3>1 DEF ListenersAreRegistered, RequestsAreFilled, Listening, Subscribed
    <3> QED
      BY <3>2, <3>3, <1>2 DEF TypeOK, RegistryTypes
  <2> QED
    BY <2>1, <2>2
<1> QED
  BY <1>1, <1>4, <1>5, <1>6, <1>7

(* Deregistering: the loop whose registration is removed is told to stop.  *)
LEMMA DeregisterInv ==
  ASSUME RegistryInv, NEW r \in Requests, Deregister(r)
  PROVE  RegistryInv'
<1> USE DEF RegistryInv, Deregister, Goto, Terminate
<1>1. TypeOK'
  BY RequestStepTypes DEF RequestStep
<1>2. /\ \A q \in Requests : q # r => pc'[q] = pc[q]
      /\ pc'[r] = "done"
      /\ path[r] \in Paths /\ client[r] \in Clients
  BY DEF TypeOK, RequestTypes, RequestsAreFilled
<1>3. \A q \in Requests : Listening(q)' => Listening(q) /\ q # r
  BY <1>2 DEF Listening, Subscribed
<1>4. CriticalSection'
  BY <1>2 DEF CriticalSection
<1>5. RequestsAreFilled'
  BY <1>2, <1>3 DEF RequestsAreFilled
<1>6. PathsNameActivations'
  BY <1>2 DEF PathsNameActivations, Lives, OnActive, activeVars
<1>7. ListenersAreRegistered'
  <2> SUFFICES ASSUME NEW q \in Requests, Listening(q)', ~term'[q]
               PROVE  byPath[path[q]] = act[q] /\ regs'[path[q]][client[q]] = q
    BY DEF ListenersAreRegistered
  <2>1. Listening(q) /\ ~term[q] /\ q # regs[path[r]][client[r]]
    BY <1>3
  <2>2. /\ byPath[path[q]] = act[q] /\ regs[path[q]][client[q]] = q
        /\ path[q] \in Paths /\ client[q] \in Clients
    BY <2>1 DEF ListenersAreRegistered, RequestsAreFilled, Listening, Subscribed
  <2> QED
    BY <2>1, <2>2, <1>2 DEF TypeOK, RegistryTypes
<1> QED
  BY <1>1, <1>4, <1>5, <1>6, <1>7

(* A fresh request touches nothing but itself.                             *)
LEMMA RespondInv ==
  ASSUME RegistryInv, NEW r \in Requests, NEW c \in Clients, NEW p \in Paths,
         NEW f \in {"Register", "Deregister"}, Respond(r, c, p, f)
  PROVE  RegistryInv'
<1> USE DEF RegistryInv, Respond, Goto, registryVars, activeVars
<1>1. TypeOK'
  <2>1. RequestTypes'
    BY PcsType DEF TypeOK, RequestTypes, Maybe
  <2> QED
    BY <2>1, UnchangedTypes DEF TypeOK
<1>2. /\ \A q \in Requests : q # r => /\ pc'[q] = pc[q] /\ path'[q] = path[q]
                                     /\ client'[q] = client[q]
      /\ pc[r] = "idle" /\ pc'[r] = "answered"
      /\ path'[r] = p /\ client'[r] = c
  BY DEF TypeOK, RequestTypes
<1>3. \A q \in Requests : Listening(q)' <=> Listening(q) /\ q # r
  BY <1>2 DEF Listening, Subscribed
<1>4. CriticalSection'
  BY <1>2 DEF CriticalSection
<1>5. RequestsAreFilled'
  BY <1>2, <1>3 DEF RequestsAreFilled
<1>6. PathsNameActivations'
  BY <1>2 DEF PathsNameActivations, Lives, OnActive
<1>7. ListenersAreRegistered'
  BY <1>2, <1>3 DEF ListenersAreRegistered
<1> QED
  BY <1>1, <1>4, <1>5, <1>6, <1>7

(* on_active runs its course: the path stays registered until it is        *)
(* removed.                                                                *)
LEMMA OnActiveInv ==
  ASSUME RegistryInv, NEW a \in Requests, Attach(a) \/ StayActive(a) \/ Detach(a)
  PROVE  RegistryInv'
<1> USE DEF RegistryInv
<1>1. TypeOK'
  BY ActiveStepTypes DEF ActiveStep
<1>2. /\ UNCHANGED <<registryVars, requestVars, place>>
      /\ Lives(a) /\ Lives(a)' /\ phase'[a] # "free" /\ phase[a] # "free"
      /\ \A b \in Requests : b # a => phase'[b] = phase[b]
  BY DEF Attach, StayActive, Detach, SetPhase, Lives, OnActive, TypeOK,
     ActivationTypes
<1>3. \A b \in Requests : Lives(b)' <=> Lives(b)
  BY <1>2 DEF Lives, OnActive
<1>4. PathsNameActivations'
  <2>1. ASSUME NEW p \in Paths, byPath[p] # None
        PROVE  Lives(byPath[p])' /\ place[byPath[p]] = p
    <3>1. PICK b \in Requests : byPath[p] = b
      BY <2>1 DEF TypeOK, RegistryTypes, Maybe
    <3> QED
      BY <3>1, <2>1, <1>2, <1>3 DEF PathsNameActivations, registryVars, Lives, OnActive
  <2> QED
    BY <2>1, <1>2, <1>3 DEF PathsNameActivations, registryVars, requestVars
<1>5. CriticalSection' /\ RequestsAreFilled' /\ ListenersAreRegistered'
  BY <1>2 DEF CriticalSection, RequestsAreFilled, ListenersAreRegistered, Listening,
     registryVars, requestVars
<1> QED
  BY <1>1, <1>4, <1>5

(* The end of an activation: nobody is in the critical section, the path   *)
(* is its own, and every loop registered there is told to stop.            *)
LEMMA RemoveInv ==
  ASSUME RegistryInv, NEW a \in Requests, Remove(a)
  PROVE  RegistryInv'
<1> USE DEF RegistryInv, Remove, SetPhase, Terminate
<1>1. TypeOK'
  BY ActiveStepTypes DEF ActiveStep
<1>2. /\ place[a] \in Paths /\ byPath[place[a]] = a
      /\ \A b \in Requests : b # a => phase'[b] = phase[b]
      /\ phase'[a] = "ended" /\ phase[a] = "returned"
      /\ \A p \in Paths : p # place[a] => byPath'[p] = byPath[p] /\ regs'[p] = regs[p]
      /\ byPath'[place[a]] = None
  BY DEF PathsNameActivations, Lives, TypeOK, ActivationTypes, RegistryTypes
<1>3. CriticalSection'
  <2>1. \A q \in Requests : pc[q] \notin {"locked", "subscribed"}
    BY ObserveAssumption DEF CriticalSection
  <2> QED
    BY <2>1 DEF CriticalSection
<1>4. RequestsAreFilled'
  BY DEF RequestsAreFilled, Listening
<1>5. PathsNameActivations'
  <2>1. ASSUME NEW p \in Paths, byPath'[p] # None
        PROVE  Lives(byPath[p])' /\ place[byPath'[p]] = p
    <3>1. PICK b \in Requests : byPath'[p] = b /\ byPath[p] = b /\ p # place[a]
      BY <2>1, <1>1, <1>2 DEF TypeOK, RegistryTypes, Maybe
    <3>2. Lives(b) /\ place[b] = p /\ b # a
      BY <3>1, ObserveAssumption DEF PathsNameActivations
    <3> QED
      BY <3>1, <3>2, <1>2 DEF Lives, OnActive
  <2>2. ASSUME NEW b \in Requests, Lives(b)'
        PROVE  place[b] \in Paths /\ byPath'[place[b]] = b
    <3>1. b # a
      BY <2>2, <1>2 DEF Lives, OnActive
    <3>2. Lives(b)
      BY <2>2, <3>1, <1>2 DEF Lives, OnActive
    <3>3. place[b] \in Paths /\ byPath[place[b]] = b
      BY <3>2 DEF PathsNameActivations
    <3> QED
      BY <3>1, <3>3, <1>2
  <2>3. \A b \in Requests : pc[b] \in {"idle", "answered"} => phase'[b] = "free"
    BY <1>2 DEF PathsNameActivations
  <2> QED
    BY <2>1, <2>2, <2>3 DEF PathsNameActivations
<1>6. ListenersAreRegistered'
  <2> SUFFICES ASSUME NEW q \in Requests, Listening(q), ~term'[q]
               PROVE  byPath'[path[q]] = act[q] /\ regs'[path[q]][client[q]] = q
    BY DEF ListenersAreRegistered, Listening
  <2>1. /\ ~term[q]
        /\ q \notin {regs[place[a]][c] : c \in Clients}
    BY DEF TypeOK, RequestTypes
  <2>2. /\ byPath[path[q]] = act[q] /\ regs[path[q]][client[q]] = q
        /\ path[q] \in Paths /\ client[q] \in Clients
    BY <2>1 DEF ListenersAreRegistered, RequestsAreFilled, Listening, Subscribed
  <2>3. path[q] # place[a]
    BY <2>1, <2>2
  <2> QED
    BY <2>2, <2>3, <1>2
<1> QED
  BY <1>1, <1>3, <1>4, <1>5, <1>6

(* Steps that touch none of what the invariant is about.                   *)
LEMMA UntouchedInv ==
  ASSUME RegistryInv, TypeOK', UNCHANGED <<registryVars, requestVars, phase, place>>
  PROVE  RegistryInv'
<1>1. /\ CriticalSection' /\ RequestsAreFilled'
      /\ PathsNameActivations' /\ ListenersAreRegistered'
  BY DEF RegistryInv, CriticalSection, RequestsAreFilled, PathsNameActivations,
     ListenersAreRegistered, Lives, OnActive, Listening, registryVars, requestVars
<1> QED
  BY <1>1 DEF RegistryInv

(* The invariant is inductive: one step per action.                        *)
LEMMA NextInv == RegistryInv /\ [Next]_vars => RegistryInv'
<1> SUFFICES ASSUME RegistryInv, [Next]_vars PROVE RegistryInv'
  OBVIOUS
<1>0. TypeOK
  BY DEF RegistryInv
<1>1. ASSUME NEW r \in Requests, NEW c \in Clients, NEW p \in Paths,
             NEW f \in {"Register", "Deregister"}, Respond(r, c, p, f)
      PROVE  RegistryInv'
  BY <1>1, RespondInv
<1>2. ASSUME NEW r \in Requests, RequestStep(r) PROVE RegistryInv'
  BY <1>2, LockInv, SubscribeInv, RegisterInv, DeregisterInv, LoopStepInv
     DEF RequestStep
<1>3. ASSUME NEW a \in Requests, ActiveStep(a) PROVE RegistryInv'
  BY <1>3, OnActiveInv, RemoveInv DEF ActiveStep
<1>4. ASSUME NEW n \in Notifiers, Change(n) \/ NotifyStep(n) PROVE RegistryInv'
  <2>1. UNCHANGED <<registryVars, requestVars, phase, place>>
    BY <1>4 DEF Change, NotifyStep, NotifyChange, NotifyChangeForPath, BeginNotify,
       Bump, Publish, EndNotify, activeVars
  <2> QED
    BY <2>1, <1>0, <1>4, NotifierStepTypes, UntouchedInv
<1>5. CASE UNCHANGED vars
  <2>1. UNCHANGED <<registryVars, requestVars, phase, place>> /\ TypeOK'
    BY <1>0, <1>5, UnchangedTypes DEF vars, activeVars, TypeOK
  <2> QED
    BY <2>1, UntouchedInv
<1> QED
  BY <1>1, <1>2, <1>3, <1>4, <1>5 DEF Next

(* The initial state satisfies the invariant.                              *)
LEMMA InitInv == Init => RegistryInv
<1> SUFFICES ASSUME Init PROVE RegistryInv
  OBVIOUS
<1>1. CriticalSection /\ RequestsAreFilled /\ ListenersAreRegistered
  BY DEF Init, CriticalSection, RequestsAreFilled, ListenersAreRegistered,
     Listening, Subscribed
<1>2. PathsNameActivations
  BY DEF Init, PathsNameActivations, Lives, OnActive
<1> QED
  BY <1>1, <1>2, InitTypes DEF RegistryInv

(* The registry, the loops and the activations agree in every reachable    *)
(* state.                                                                  *)
THEOREM Invariance == Spec => []RegistryInv
BY InitInv, NextInv, PTL DEF Spec

(* The registry, the channels and the tasks keep their types.              *)
THEOREM TypeCorrect == Spec => []TypeOK
<1>1. RegistryInv => TypeOK
  BY DEF RegistryInv
<1> QED
  BY <1>1, Invariance, PTL

(* When on_active returns, the path is still registered, and for this very *)
(* activation, whatever requests did meanwhile.                            *)
THEOREM PathsStayRegistered == Spec => []LifecycleFindsItsPath
<1>1. RegistryInv => LifecycleFindsItsPath
  BY DEF RegistryInv, PathsNameActivations, LifecycleFindsItsPath, Lives
<1> QED
  BY <1>1, Invariance, PTL

(* on_active never runs twice at a time for one path.                      *)
THEOREM OneOnActivePerPath == Spec => []OnActiveIsNotConcurrent
<1>1. RegistryInv => OnActiveIsNotConcurrent
  BY DEF RegistryInv, PathsNameActivations, OnActiveIsNotConcurrent, Lives
<1> QED
  BY <1>1, Invariance, PTL

(* A Deregister, a new registration and the end of on_active reach every   *)
(* loop that still listens.                                                *)
THEOREM ListenersStayRegistered == Spec => []ListenersAreRegistered
<1>1. RegistryInv => ListenersAreRegistered
  BY DEF RegistryInv
<1> QED
  BY <1>1, Invariance, PTL

-----------------------------------------------------------------------------
(* Observe implements Observations.                                        *)

(* A request that was not made has no client, and one that is not          *)
(* registered yet cannot have been told to stop.                           *)
Fresh ==
  \A r \in Requests :
    /\ pc[r] = "idle" => client[r] = None
    /\ pc[r] \in {"idle", "answered", "locked", "subscribed"} => ~term[r]

(* A registration names a request of its client for its path, so that to   *)
(* end it ends no observation of anybody else.                             *)
EntriesNameTheirRequest ==
  \A p \in Paths, c \in Clients : regs[p][c] # None =>
    /\ pc[regs[p][c]] # "idle"
    /\ path[regs[p][c]] = p /\ client[regs[p][c]] = c

ObservationsInv == RegistryInv /\ Fresh /\ EntriesNameTheirRequest

-----------------------------------------------------------------------------
(* Modes.                                                                  *)

(* What a mode says of the task.                                           *)
LEMMA ModeFacts ==
  ASSUME NEW r \in Requests
  PROVE  /\ Mode(r) = "on" <=> Listening(r) /\ ~term[r]
         /\ Mode(r) = "ending" <=> Listening(r) /\ term[r]
         /\ Mode(r) = "over" <=> pc[r] = "done"
         /\ Mode(r) = "none" <=> pc[r] # "done" /\ ~Listening(r)
         /\ Mode(r) \in {"none", "on", "ending", "over"}
         /\ Modes[r] = Mode(r)
<1>1. Listening(r) => pc[r] # "done"
  BY DEF Listening, Subscribed
<1> QED
  BY <1>1 DEF Mode, Modes

(* A step that keeps each mode keeps the modes.                            *)
LEMMA ModesStay ==
  ASSUME \A r \in Requests : (Listening(r)' <=> Listening(r))
           /\ (pc'[r] = "done" <=> pc[r] = "done") /\ (term'[r] <=> term[r])
  PROVE  UNCHANGED Modes
<1>1. \A r \in Requests : Mode(r)' = Mode(r)
  BY DEF Mode
<1> QED
  BY <1>1 DEF Modes

Silent == UNCHANGED Abstract!vars

LEMMA SilentStep ==
  ASSUME UNCHANGED <<version, client, path, body>>, UNCHANGED Modes
  PROVE  Silent
BY DEF Silent, Abstract!vars

(* A step that leaves the requests and the registrations alone.            *)
LEMMA UntouchedRefines ==
  ASSUME ObservationsInv, UNCHANGED <<regs, requestVars>>
  PROVE  Fresh' /\ EntriesNameTheirRequest' /\ UNCHANGED <<client, path, body, Modes>>
<1>1. UNCHANGED <<pc, client, path, body, term, regs>>
  BY DEF requestVars
<1>2. Fresh' /\ EntriesNameTheirRequest'
  BY <1>1 DEF ObservationsInv, Fresh, EntriesNameTheirRequest
<1>3. UNCHANGED Modes
  BY <1>1, ModesStay DEF Listening
<1> QED
  BY <1>1, <1>2, <1>3

-----------------------------------------------------------------------------
(* The steps of a request.                                                 *)

(* It is answered.                                                         *)
LEMMA RespondRefines ==
  ASSUME ObservationsInv, NEW r \in Requests, NEW c \in Clients, NEW p \in Paths,
         NEW f \in {"Register", "Deregister"}, Respond(r, c, p, f)
  PROVE  Fresh' /\ EntriesNameTheirRequest' /\ Abstract!Answer(r, c, p)
<1>1. /\ pc[r] = "idle" /\ pc' = [pc EXCEPT ![r] = "answered"]
      /\ client' = [client EXCEPT ![r] = c] /\ path' = [path EXCEPT ![r] = p]
      /\ body' = [body EXCEPT ![r] = version]
      /\ UNCHANGED <<version, term, regs>>
  BY DEF Respond, Goto, registryVars
<1>2. /\ pc'[r] = "answered" /\ client'[r] = c /\ path'[r] = p
      /\ \A q \in Requests : q # r =>
           pc'[q] = pc[q] /\ client'[q] = client[q] /\ path'[q] = path[q]
  BY <1>1 DEF ObservationsInv, RegistryInv, TypeOK, RequestTypes
<1>3. UNCHANGED Modes
  <2>1. ASSUME NEW q \in Requests
        PROVE  (Listening(q)' <=> Listening(q)) /\ (pc'[q] = "done" <=> pc[q] = "done")
               /\ (term'[q] <=> term[q])
    BY <1>1, <1>2 DEF Listening, Subscribed
  <2> QED
    BY <2>1, ModesStay
<1>4. Fresh'
  BY <1>1, <1>2 DEF ObservationsInv, Fresh
<1>5. EntriesNameTheirRequest'
  <2> SUFFICES ASSUME NEW q \in Paths, NEW d \in Clients, regs[q][d] # None
               PROVE  /\ pc'[regs[q][d]] # "idle"
                      /\ path'[regs[q][d]] = q /\ client'[regs[q][d]] = d
    BY <1>1 DEF EntriesNameTheirRequest
  <2>1. PICK x \in Requests : regs[q][d] = x
    BY DEF ObservationsInv, RegistryInv, TypeOK, RegistryTypes, Maybe
  <2>2. pc[x] # "idle" /\ path[x] = q /\ client[x] = d
    BY <2>1 DEF ObservationsInv, EntriesNameTheirRequest
  <2> QED
    BY <1>1, <1>2, <2>1, <2>2
<1>6. client[r] = None
  BY <1>1 DEF ObservationsInv, Fresh
<1> QED
  BY <1>1, <1>3, <1>4, <1>5, <1>6 DEF Abstract!Answer

(* On the way to its registration nothing of it is seen.                   *)
LEMMA EnterRegistryRefines ==
  ASSUME ObservationsInv, NEW r \in Requests, Lock(r) \/ Subscribe(r)
  PROVE  Fresh' /\ EntriesNameTheirRequest' /\ Silent
<1>1. /\ UNCHANGED <<version, client, path, body, term, regs>>
      /\ pc[r] \in {"answered", "locked"}
  BY DEF Lock, Subscribe, registryVars
<1>2. PICK there \in {"locked", "subscribed"} : pc' = [pc EXCEPT ![r] = there]
  BY DEF Lock, Subscribe, Goto
<1>3. pc'[r] = there /\ \A q \in Requests : q # r => pc'[q] = pc[q]
  BY <1>2 DEF ObservationsInv, RegistryInv, TypeOK, RequestTypes
<1>4. UNCHANGED Modes
  <2>1. ASSUME NEW q \in Requests
        PROVE  (Listening(q)' <=> Listening(q)) /\ (pc'[q] = "done" <=> pc[q] = "done")
               /\ (term'[q] <=> term[q])
    BY <1>1, <1>3 DEF Listening, Subscribed
  <2> QED
    BY <2>1, ModesStay
<1>5. Fresh'
  BY <1>1, <1>3 DEF ObservationsInv, Fresh
<1>6. EntriesNameTheirRequest'
  <2>1. \A q \in Requests : pc[q] # "idle" => pc'[q] # "idle"
    BY <1>3
  <2>2. \A p \in Paths, c \in Clients : regs[p][c] # None => regs[p][c] \in Requests
    BY DEF ObservationsInv, RegistryInv, TypeOK, RegistryTypes, Maybe
  <2> QED
    BY <1>1, <2>1, <2>2 DEF ObservationsInv, EntriesNameTheirRequest
<1> QED
  BY <1>1, <1>4, <1>5, <1>6, SilentStep

(* It registers or deregisters: exactly the observation that was on for    *)
(* its client and path is ended.                                           *)
LEMMA EnterRefines ==
  ASSUME ObservationsInv, NEW r \in Requests, NEW there \in {"parked", "done"},
         NEW entry \in {r, None},
         pc[r] \in {"answered", "subscribed"}, pc' = [pc EXCEPT ![r] = there],
         Terminate({regs[path[r]][client[r]]}),
         regs' = [regs EXCEPT ![path[r]][client[r]] = entry],
         UNCHANGED <<version, client, path, body>>
  PROVE  /\ Fresh' /\ EntriesNameTheirRequest'
         /\ Abstract!Enter(r, IF there = "done" THEN "over" ELSE "on")
<1> DEFINE x == regs[path[r]][client[r]]
           m == IF there = "done" THEN "over" ELSE "on"
<1>1. /\ pc'[r] = there /\ pc' \in [Requests -> Pcs]
      /\ \A q \in Requests : q # r => pc'[q] = pc[q]
      /\ path[r] \in Paths /\ client[r] \in Clients
  BY PcsType DEF ObservationsInv, RegistryInv, TypeOK, RequestTypes, RequestsAreFilled
<1>2. ~Listening(r) /\ pc[r] # "done" /\ ~term[r]
  BY DEF Listening, Subscribed, ObservationsInv, Fresh
<1>3. \A q \in Requests : term'[q] <=> term[q] \/ (q = x /\ Listening(q))
  BY DEF Terminate, ObservationsInv, RegistryInv, TypeOK, RequestTypes
<1>4. x # None => path[x] = path[r] /\ client[x] = client[r] /\ x \in Requests
  BY <1>1 DEF ObservationsInv, EntriesNameTheirRequest, RegistryInv, TypeOK,
              RegistryTypes, Maybe
<1> HIDE DEF x
<1>5. ~term'[r]
  BY <1>2, <1>3
<1>6. Mode(r)' = m
  BY <1>1, <1>5 DEF Mode, Listening, Subscribed
<1>7. ASSUME NEW q \in Requests, q # r
      PROVE  Mode(q)' = IF Mode(q) = "on" /\ path[q] = path[r] /\ client[q] = client[r]
                        THEN "ending" ELSE Mode(q)
  <2>1. (Listening(q)' <=> Listening(q)) /\ (pc'[q] = "done" <=> pc[q] = "done")
    BY <1>1, <1>7 DEF Listening
  <2>2. CASE q = x /\ Listening(q)
    <3>1. path[q] = path[r] /\ client[q] = client[r]
      BY <1>4, <2>2, ObserveAssumption
    <3>2. term'[q] /\ pc[q] # "done"
      BY <1>3, <2>2 DEF Listening, Subscribed
    <3>3. Mode(q)' = "ending" /\ Mode(q) \in {"on", "ending"}
      BY <2>1, <2>2, <3>2 DEF Mode
    <3> QED
      BY <3>1, <3>3
  <2>3. CASE ~(q = x /\ Listening(q))
    <3>1. term'[q] <=> term[q]
      BY <1>3, <2>3
    <3>2. Mode(q)' = Mode(q)
      BY <2>1, <3>1 DEF Mode
    <3>3. ~(Mode(q) = "on" /\ path[q] = path[r] /\ client[q] = client[r])
      <4> SUFFICES ASSUME Mode(q) = "on", path[q] = path[r], client[q] = client[r]
                   PROVE  FALSE
        OBVIOUS
      <4>1. Listening(q) /\ ~term[q]
        BY ModeFacts
      <4>2. regs[path[q]][client[q]] = q
        BY <4>1 DEF ObservationsInv, RegistryInv, ListenersAreRegistered
      <4> QED
        BY <2>3, <4>1, <4>2 DEF x
    <3> QED
      BY <3>2, <3>3
  <2> QED
    BY <2>2, <2>3
<1>8. Abstract!Enter(r, m)
  <2>1. client[r] # None
    BY <1>1, ObserveAssumption
  <2>2. Modes[r] = "none" /\ \A q \in Requests : Modes[q] = Mode(q)
    BY <1>2 DEF Modes, Mode
  <2>3. Modes' = [q \in Requests |-> Mode(q)']
    BY DEF Modes
  <2>4. Modes' = [q \in Requests |->
                    IF q = r THEN m
                    ELSE IF Modes[q] = "on" /\ path[q] = path[r] /\ client[q] = client[r]
                    THEN "ending" ELSE Modes[q]]
    BY <1>6, <1>7, <2>2, <2>3
  <2> QED
    BY <2>1, <2>2, <2>4 DEF Abstract!Enter
<1>9. Fresh'
  <2> SUFFICES ASSUME NEW q \in Requests
               PROVE  /\ pc'[q] = "idle" => client[q] = None
                      /\ pc'[q] \in {"idle", "answered", "locked", "subscribed"} => ~term'[q]
    BY DEF Fresh
  <2>1. CASE q = r
    BY <1>1, <2>1
  <2>2. CASE q # r
    BY <1>1, <1>3, <2>2 DEF ObservationsInv, Fresh, Listening, Subscribed
  <2> QED
    BY <2>1, <2>2
<1>10. EntriesNameTheirRequest'
  <2> SUFFICES ASSUME NEW p \in Paths, NEW c \in Clients, regs'[p][c] # None
               PROVE  /\ pc'[regs'[p][c]] # "idle"
                      /\ path[regs'[p][c]] = p /\ client[regs'[p][c]] = c
    BY DEF EntriesNameTheirRequest
  <2>1. CASE p = path[r] /\ c = client[r]
    <3>1. regs'[p][c] = entry
      BY <1>1, <2>1 DEF ObservationsInv, RegistryInv, TypeOK, RegistryTypes
    <3> QED
      BY <1>1, <2>1, <3>1
  <2>2. CASE ~(p = path[r] /\ c = client[r])
    <3>1. PICK y \in Requests : regs'[p][c] = y /\ regs[p][c] = y
      BY <1>1, <2>2 DEF ObservationsInv, RegistryInv, TypeOK, RegistryTypes, Maybe
    <3>2. pc[y] # "idle" /\ path[y] = p /\ client[y] = c
      BY <3>1, ObserveAssumption DEF ObservationsInv, EntriesNameTheirRequest
    <3> QED
      BY <1>1, <3>1, <3>2
  <2> QED
    BY <2>1, <2>2
<1> QED
  BY <1>8, <1>9, <1>10

(* The loop: notifications are told, and its end is for good.              *)
LEMMA LoopRefines ==
  ASSUME ObservationsInv, NEW r \in Requests,
         Terminated(r) \/ Wake(r) \/ Borrow(r) \/ Notify(r) \/ SendReturns(r)
  PROVE  /\ Fresh' /\ EntriesNameTheirRequest'
         /\ Silent \/ Abstract!Tell(r) \/ Abstract!Leave(r)
<1>1. Listening(r) /\ UNCHANGED <<version, client, path, term, regs>>
  BY DEF Terminated, Wake, Borrow, Notify, SendReturns, Listening, Subscribed,
         registryVars
<1>2. PICK there \in {"parked", "woken", "numbered", "sending", "done"} :
        /\ pc' = [pc EXCEPT ![r] = there]
        /\ \/ UNCHANGED body
           \/ body' = [body EXCEPT ![r] = version] /\ there = "sending"
  BY DEF Terminated, Wake, Borrow, Notify, SendReturns, Goto
<1>3. pc'[r] = there /\ \A q \in Requests : q # r => pc'[q] = pc[q]
  BY <1>2 DEF ObservationsInv, RegistryInv, TypeOK, RequestTypes
<1>4. pc[r] \notin {"idle", "answered", "locked", "subscribed", "done"}
  BY <1>1 DEF Listening, Subscribed
<1>5. Fresh'
  BY <1>1, <1>3, <1>4 DEF ObservationsInv, Fresh
<1>6. EntriesNameTheirRequest'
  <2>1. \A q \in Requests : pc[q] # "idle" => pc'[q] # "idle"
    BY <1>3
  <2>2. \A p \in Paths, c \in Clients : regs[p][c] # None => regs[p][c] \in Requests
    BY DEF ObservationsInv, RegistryInv, TypeOK, RegistryTypes, Maybe
  <2> QED
    BY <1>1, <2>1, <2>2 DEF ObservationsInv, EntriesNameTheirRequest
<1>7. Abstract!Observed(r)
  BY <1>1, <1>4 DEF Abstract!Observed, Modes, Mode
<1>8. CASE there = "done"
  <2>1. Mode(r)' = "over"
    BY <1>3, <1>8 DEF Mode
  <2>2. \A q \in Requests : q # r => Mode(q)' = Mode(q)
    BY <1>1, <1>3 DEF Mode, Listening
  <2>3. Modes' = [q \in Requests |-> Mode(q)']
    BY DEF Modes
  <2>4. Modes' = [Modes EXCEPT ![r] = "over"]
    BY <2>1, <2>2, <2>3 DEF Modes
  <2> QED
    BY <1>1, <1>2, <1>5, <1>6, <1>7, <1>8, <2>4 DEF Abstract!Leave
<1>9. CASE there # "done"
  <2>1. ASSUME NEW q \in Requests
        PROVE  (Listening(q)' <=> Listening(q)) /\ (pc'[q] = "done" <=> pc[q] = "done")
               /\ (term'[q] <=> term[q])
    <3>1. CASE q = r
      BY <1>1, <1>3, <1>4, <1>9, <3>1 DEF Listening, Subscribed
    <3>2. CASE q # r
      BY <1>1, <1>3, <3>2 DEF Listening
    <3> QED
      BY <3>1, <3>2
  <2>2. UNCHANGED Modes
    BY <2>1, ModesStay
  <2> QED
    BY <1>1, <1>2, <1>5, <1>6, <1>7, <2>2, SilentStep DEF Abstract!Tell
<1> QED
  BY <1>8, <1>9

-----------------------------------------------------------------------------
(* The end of an activation ends what is on for its path, and no other.    *)
LEMMA RemoveRefines ==
  ASSUME ObservationsInv, NEW a \in Requests, Remove(a)
  PROVE  Fresh' /\ EntriesNameTheirRequest' /\ place[a] \in Paths /\ Abstract!GiveUp(place[a])
<1> DEFINE E == {regs[place[a]][c] : c \in Clients}
<1>1. /\ UNCHANGED <<version, pc, client, path, body>>
      /\ regs' = [regs EXCEPT ![place[a]] = [c \in Clients |-> None]]
      /\ Terminate(E)
      /\ place[a] \in Paths
  BY DEF Remove, ObservationsInv, RegistryInv, PathsNameActivations, Lives
<1>2. \A q \in Requests : q \in E => path[q] = place[a]
  BY <1>1, ObserveAssumption DEF ObservationsInv, EntriesNameTheirRequest
<1>3. \A q \in Requests : term'[q] <=> term[q] \/ (q \in E /\ Listening(q))
  BY <1>1 DEF Terminate, ObservationsInv, RegistryInv, TypeOK, RequestTypes
<1>4. ASSUME NEW q \in Requests, Listening(q), ~term[q], path[q] = place[a]
      PROVE  q \in E
  <2>1. regs[path[q]][client[q]] = q /\ client[q] \in Clients
    BY <1>4 DEF ObservationsInv, RegistryInv, ListenersAreRegistered,
                RequestsAreFilled, Listening, Subscribed
  <2> QED
    BY <1>4, <2>1
<1> HIDE DEF E
<1>5. ASSUME NEW q \in Requests
      PROVE  Mode(q)' = IF Mode(q) = "on" /\ path[q] = place[a]
                        THEN "ending" ELSE Mode(q)
  <2>1. Listening(q)' <=> Listening(q)
    BY <1>1 DEF Listening
  <2>2. CASE q \in E /\ Listening(q)
    <3>1. path[q] = place[a] /\ term'[q] /\ pc[q] # "done"
      BY <1>2, <1>3, <2>2 DEF Listening, Subscribed
    <3>2. Mode(q)' = "ending" /\ Mode(q) \in {"on", "ending"}
      BY <1>1, <2>1, <2>2, <3>1 DEF Mode
    <3> QED
      BY <3>1, <3>2
  <2>3. CASE ~(q \in E /\ Listening(q))
    <3>1. term'[q] <=> term[q]
      BY <1>3, <2>3
    <3>2. Mode(q)' = Mode(q)
      BY <1>1, <2>1, <3>1 DEF Mode
    <3>3. ~(Mode(q) = "on" /\ path[q] = place[a])
      BY <1>4, <2>3, ModeFacts
    <3> QED
      BY <3>2, <3>3
  <2> QED
    BY <2>2, <2>3
<1>6. Abstract!GiveUp(place[a])
  <2>1. \A q \in Requests : Modes[q] = Mode(q)
    BY DEF Modes
  <2>2. Modes' = [q \in Requests |-> Mode(q)']
    BY DEF Modes
  <2>3. Modes' = [q \in Requests |-> IF Modes[q] = "on" /\ path[q] = place[a]
                                     THEN "ending" ELSE Modes[q]]
    BY <1>5, <2>1, <2>2
  <2> QED
    BY <1>1, <2>3 DEF Abstract!GiveUp
<1>7. Fresh'
  BY <1>1, <1>3 DEF ObservationsInv, Fresh, Listening, Subscribed
<1>8. EntriesNameTheirRequest'
  <2> SUFFICES ASSUME NEW p \in Paths, NEW c \in Clients, regs'[p][c] # None
               PROVE  /\ pc[regs'[p][c]] # "idle"
                      /\ path[regs'[p][c]] = p /\ client[regs'[p][c]] = c
    BY <1>1 DEF EntriesNameTheirRequest
  <2>1. p # place[a] /\ regs'[p][c] = regs[p][c]
    BY <1>1 DEF ObservationsInv, RegistryInv, TypeOK, RegistryTypes
  <2> QED
    BY <2>1 DEF ObservationsInv, EntriesNameTheirRequest
<1> QED
  BY <1>1, <1>6, <1>7, <1>8

-----------------------------------------------------------------------------

LEMMA ObservationsInit == Init => ObservationsInv /\ Abstract!Init
<1> SUFFICES ASSUME Init PROVE ObservationsInv /\ Abstract!Init
  OBVIOUS
<1>1. Fresh /\ EntriesNameTheirRequest
  BY DEF Init, Fresh, EntriesNameTheirRequest
<1>2. Modes = [r \in Requests |-> "none"]
  BY DEF Init, Modes, Mode, Listening, Subscribed
<1>3. Abstract!Init
  BY <1>2 DEF Init, Abstract!Init
<1> QED
  BY <1>1, <1>3, InitInv DEF ObservationsInv

(* Each step is one that the client may see, or none.                      *)
LEMMA ObservationsNext ==
  ObservationsInv /\ [Next]_vars
    => Fresh' /\ EntriesNameTheirRequest' /\ [Abstract!Next]_(Abstract!vars)
<1> SUFFICES ASSUME ObservationsInv, [Next]_vars
             PROVE  Fresh' /\ EntriesNameTheirRequest' /\ [Abstract!Next]_(Abstract!vars)
  OBVIOUS
<1>1. CASE \E r \in Requests, c \in Clients, p \in Paths, f \in {"Register", "Deregister"} :
             Respond(r, c, p, f)
  <2>1. PICK r \in Requests, c \in Clients, p \in Paths, f \in {"Register", "Deregister"} :
          Respond(r, c, p, f)
    BY <1>1
  <2> QED
    BY <2>1, RespondRefines DEF Abstract!Next
<1>2. ASSUME NEW r \in Requests, RequestStep(r)
      PROVE  Fresh' /\ EntriesNameTheirRequest' /\ [Abstract!Next]_(Abstract!vars)
  <2>1. CASE Lock(r) \/ Subscribe(r)
    BY <2>1, EnterRegistryRefines DEF Silent
  <2>2. CASE Register(r)
    <3>1. /\ pc[r] \in {"answered", "subscribed"} /\ pc' = [pc EXCEPT ![r] = "parked"]
          /\ Terminate({regs[path[r]][client[r]]})
          /\ regs' = [regs EXCEPT ![path[r]][client[r]] = r]
          /\ UNCHANGED <<version, client, path, body>>
      BY <2>2 DEF Register, Goto
    <3>2. /\ Fresh' /\ EntriesNameTheirRequest' /\ Abstract!Enter(r, "on")
      BY <3>1, EnterRefines
    <3> QED
      BY <3>2 DEF Abstract!Next
  <2>3. CASE Deregister(r)
    <3>1. /\ pc[r] \in {"answered", "subscribed"} /\ pc' = [pc EXCEPT ![r] = "done"]
          /\ Terminate({regs[path[r]][client[r]]})
          /\ regs' = [regs EXCEPT ![path[r]][client[r]] = None]
          /\ UNCHANGED <<version, client, path, body>>
      BY <2>3 DEF Deregister, Goto
    <3>2. /\ Fresh' /\ EntriesNameTheirRequest' /\ Abstract!Enter(r, "over")
      BY <3>1, EnterRefines
    <3> QED
      BY <3>2 DEF Abstract!Next
  <2>4. CASE Terminated(r) \/ Wake(r) \/ Borrow(r) \/ Notify(r) \/ SendReturns(r)
    BY <2>4, LoopRefines DEF Abstract!Next, Silent
  <2> QED
    BY <1>2, <2>1, <2>2, <2>3, <2>4 DEF RequestStep
<1>3. ASSUME NEW a \in Requests, ActiveStep(a)
      PROVE  Fresh' /\ EntriesNameTheirRequest' /\ [Abstract!Next]_(Abstract!vars)
  <2>1. CASE Attach(a) \/ StayActive(a) \/ Detach(a)
    <3>1. UNCHANGED <<version, requestVars, regs>>
      BY <2>1 DEF Attach, StayActive, Detach, registryVars
    <3> QED
      BY <3>1, UntouchedRefines, SilentStep DEF Silent
  <2>2. CASE Remove(a)
    BY <2>2, RemoveRefines DEF Abstract!Next
  <2> QED
    BY <1>3, <2>1, <2>2 DEF ActiveStep
<1>4. CASE \E n \in Notifiers : Change(n)
  <2>1. version' = version + 1 /\ UNCHANGED <<requestVars, regs>>
    BY <1>4 DEF Change, registryVars
  <2>2. Fresh' /\ EntriesNameTheirRequest' /\ UNCHANGED <<client, path, body, Modes>>
    BY <2>1, UntouchedRefines
  <2> QED
    BY <2>1, <2>2 DEF Abstract!Next, Abstract!Change
<1>5. CASE \E n \in Notifiers : NotifyStep(n)
  <2>1. UNCHANGED <<version, requestVars, regs>>
    BY <1>5 DEF NotifyStep, NotifyChange, NotifyChangeForPath, BeginNotify, Bump,
                Publish, EndNotify, registryVars
  <2> QED
    BY <2>1, UntouchedRefines, SilentStep DEF Silent
<1>6. CASE UNCHANGED vars
  <2>1. UNCHANGED <<version, requestVars, regs>>
    BY <1>6 DEF vars, registryVars
  <2> QED
    BY <2>1, UntouchedRefines, SilentStep DEF Silent
<1> QED
  BY <1>1, <1>2, <1>3, <1>4, <1>5, <1>6 DEF Next

(* The registrations, the loops and what they were told agree throughout.  *)
THEOREM ObservationsInvariance == Spec => []ObservationsInv
<1>1. ObservationsInv /\ [Next]_vars => ObservationsInv'
  BY ObservationsNext, NextInv DEF ObservationsInv
<1> QED
  BY ObservationsInit, <1>1, PTL DEF Spec

(* The registry, the loops and on_active implement Observations: a client  *)
(* has one observation of a path at a time, which a later request of its   *)
(* own, a Deregister or the resource ends, once and for good, and no step  *)
(* ends one of another client or path.                                     *)
THEOREM ImplementsObservations == Spec => ObservationsSpec
<1> QED
  BY ObservationsInit, ObservationsNext, ObservationsInvariance, PTL
     DEF Spec, ObservationsSpec, Abstract!Spec
=============================================================================
