-------------------------- MODULE ObservedAppProofs --------------------------
(***************************************************************************)
(* Theorems about ObservedApp: it implements both of its parts, so that    *)
(* what is proved about each holds for the two together, and the end of    *)
(* the way from a change of the resource to the client that observes it.   *)
(***************************************************************************)
EXTENDS ObservedApp, AppProofs

(* The theorems about Observe, for the tasks that the app spawns.          *)
OP == INSTANCE NotificationProofs
        WITH Requests <- Exchanges, Clients <- Peers \X Tokens

(* Its assumptions hold.                                                   *)
LEMMA RegistryAssumption == OP!ObserveAssumption
<1>1. Peers \X Tokens # {}
  <2>1. PICK p \in Peers, t \in Tokens : TRUE
    BY ObservedAssumption, AppAssumption
  <2>2. <<p, t>> \in Peers \X Tokens
    OBVIOUS
  <2> QED
    BY <2>2
<1> QED
  BY <1>1, ObservedAssumption DEF OP!ObserveAssumption

LEMMA SameKeys == O!RelKey = OP!RelKey /\ O!RelKeys = OP!RelKeys
BY DEF O!RelKey, OP!RelKey, O!RelKeys, OP!RelKeys, O!WithoutPrefix, OP!WithoutPrefix,
       O!Joined, OP!Joined, O!PM!KeyFromPath, OP!PM!KeyFromPath

LEMMA SameRegistryInit == O!Init <=> OP!Init
BY SameKeys DEF O!Init, OP!Init

(* So are its actions: they are the same formulas.                         *)
LEMMA SameRegistration ==
  \A r \in Exchanges :
    /\ \A c, p, f : O!Respond(r, c, p, f) <=> OP!Respond(r, c, p, f)
    /\ O!Lock(r) <=> OP!Lock(r)
    /\ O!Subscribe(r) <=> OP!Subscribe(r)
    /\ O!Register(r) <=> OP!Register(r)
    /\ O!Deregister(r) <=> OP!Deregister(r)
BY DEF O!Respond, OP!Respond, O!Lock, OP!Lock, O!Subscribe, OP!Subscribe, O!Register,
       OP!Register, O!Deregister, OP!Deregister, O!Goto, OP!Goto, O!Terminate, OP!Terminate,
       O!Listening, OP!Listening, O!Subscribed, OP!Subscribed, O!Value, OP!Value,
       O!registryVars, OP!registryVars, O!activeVars, OP!activeVars, O!holderVars,
       OP!holderVars, O!notifierVars, OP!notifierVars

LEMMA SameLoop ==
  \A r \in Exchanges :
    /\ O!Wake(r) <=> OP!Wake(r)
    /\ O!Borrow(r) <=> OP!Borrow(r)
    /\ O!Notify(r) <=> OP!Notify(r)
    /\ O!SendReturns(r) <=> OP!SendReturns(r)
    /\ O!Terminated(r) <=> OP!Terminated(r)
BY DEF O!Wake, OP!Wake, O!Borrow, OP!Borrow, O!Notify, OP!Notify, O!SendReturns,
       OP!SendReturns, O!Terminated, OP!Terminated, O!Goto, OP!Goto, O!Value, OP!Value,
       O!registryVars, OP!registryVars, O!activeVars, OP!activeVars, O!holderVars,
       OP!holderVars, O!notifierVars, OP!notifierVars

LEMMA SameActive == \A a \in Exchanges : O!ActiveStep(a) <=> OP!ActiveStep(a)
BY SameKeys
   DEF O!ActiveStep, OP!ActiveStep, O!Attach, OP!Attach, O!StayActive, OP!StayActive,
       O!Detach, OP!Detach, O!Remove, OP!Remove, O!SetPhase, OP!SetPhase, O!Terminate,
       OP!Terminate, O!Listening, OP!Listening, O!Receivers, OP!Receivers, O!Subscribed,
       OP!Subscribed, O!requestVars, OP!requestVars, O!registryVars, OP!registryVars,
       O!holderVars, OP!holderVars, O!notifierVars, OP!notifierVars

LEMMA SameNumbers == \A n : O!NextNum(n) = OP!NextNum(n)
BY DEF O!NextNum, OP!NextNum, O!U24!WrappingAdd, OP!U24!WrappingAdd, O!U24!TryFrom,
       OP!U24!TryFrom, O!U24!Masked, OP!U24!Masked, O!U24!MaxNum, OP!U24!MaxNum

LEMMA SameMatches ==
  /\ O!Attached = OP!Attached
  /\ \A m, p : O!PM!Matches(m, p) = OP!PM!Matches(m, p)
BY SameKeys
   DEF O!Attached, OP!Attached, O!PM!Matches, OP!PM!Matches, O!PM!UpTo, OP!PM!UpTo

LEMMA SameNotifiers ==
  \A n \in Notifiers :
    /\ O!Change(n) <=> OP!Change(n)
    /\ O!NotifyStep(n) <=> OP!NotifyStep(n)
<1> SUFFICES ASSUME NEW n \in Notifiers
             PROVE  /\ O!Change(n) <=> OP!Change(n)
                    /\ O!NotifyStep(n) <=> OP!NotifyStep(n)
  OBVIOUS
<1>1. O!Change(n) <=> OP!Change(n)
  BY DEF O!Change, OP!Change, O!NGoto, OP!NGoto, O!requestVars, OP!requestVars,
         O!registryVars, OP!registryVars, O!activeVars, OP!activeVars, O!holderVars,
         OP!holderVars
<1>2. \A keys : O!BeginNotify(n, keys) <=> OP!BeginNotify(n, keys)
  BY DEF O!BeginNotify, OP!BeginNotify, O!NGoto, OP!NGoto, O!requestVars, OP!requestVars,
         O!registryVars, OP!registryVars, O!activeVars, OP!activeVars
<1>3. \A a \in Exchanges : O!Bump(n, a) <=> OP!Bump(n, a)
  BY SameNumbers
     DEF O!Bump, OP!Bump, O!NGoto, OP!NGoto, O!requestVars, OP!requestVars,
         O!registryVars, OP!registryVars, O!holderVars, OP!holderVars
<1>4. O!Publish(n) <=> OP!Publish(n)
  BY DEF O!Publish, OP!Publish, O!NGoto, OP!NGoto, O!Receivers, OP!Receivers, O!Subscribed,
         OP!Subscribed, O!requestVars, OP!requestVars, O!registryVars, OP!registryVars,
         O!holderVars, OP!holderVars
<1>5. O!EndNotify(n) <=> OP!EndNotify(n)
  BY DEF O!EndNotify, OP!EndNotify, O!NGoto, OP!NGoto, O!requestVars, OP!requestVars,
         O!registryVars, OP!registryVars, O!activeVars, OP!activeVars
<1>6. O!NotifyChange(n) <=> OP!NotifyChange(n)
  BY <1>2, SameMatches DEF O!NotifyChange, OP!NotifyChange
<1>7. \A k : O!NotifyChangeForPath(n, k) <=> OP!NotifyChangeForPath(n, k)
  BY <1>2, SameMatches DEF O!NotifyChangeForPath, OP!NotifyChangeForPath
<1> QED
  BY <1>1, <1>3, <1>4, <1>5, <1>6, <1>7, SameKeys DEF O!NotifyStep, OP!NotifyStep
-----------------------------------------------------------------------------
(* Both parts.                                                             *)

LEMMA AppNext == [ObservedNext]_all => [Next]_vars
<1> SUFFICES ASSUME [ObservedNext]_all PROVE [Next]_vars
  OBVIOUS
<1>1. ASSUME NEW e \in Exchanges, DoHandle(e) PROVE [Next]_vars
  <2>1. CASE Report(e) \/ Proceed(e)
    BY <2>1 DEF Report, Proceed
  <2>2. CASE Finish(e)
    BY <2>2 DEF Finish, Next
  <2>3. CASE FailFirst(e)
    BY <2>3 DEF FailFirst, Next
  <2>4. CASE Inform(e)
    BY <2>4 DEF Inform, Next
  <2>5. CASE Resume(e)
    BY <2>5 DEF Resume, Next
  <2>6. CASE Stop(e)
    BY <2>6 DEF Stop, Next
  <2> QED
    BY <1>1, <2>1, <2>2, <2>3, <2>4, <2>5, <2>6 DEF DoHandle
<1>2. CASE AppStep
  BY <1>2 DEF AppStep, Next
<1>3. CASE ResourceStep
  BY <1>3 DEF ResourceStep
<1>4. CASE UNCHANGED all
  BY <1>4 DEF all
<1> QED
  BY <1>1, <1>2, <1>3, <1>4 DEF ObservedNext

(* The tasks of the app are those of AppHandler, whatever the registry and *)
(* the resource do: the theorems about that module hold here.              *)
THEOREM ObservedAppIsApp == ObservedSpec => Spec
<1>1. ObservedInit => Init
  BY DEF ObservedInit
<1> QED
  BY <1>1, AppNext, PTL DEF ObservedSpec, Spec

LEMMA AppInvariance == ObservedSpec => []ControlInv /\ []RP!IInv /\ []Turn
BY ObservedAppIsApp, ControlInvariance, ManagerInvariance, TurnInvariance, PTL

LEMMA RegistryNext == ControlInv /\ [ObservedNext]_all => [OP!Next]_(OP!vars)
<1> SUFFICES ASSUME ControlInv, [ObservedNext]_all PROVE [OP!Next]_(OP!vars)
  OBVIOUS
<1>1. UNCHANGED observation => UNCHANGED OP!vars
  BY DEF observation, OP!vars, OP!requestVars, OP!registryVars, OP!activeVars,
         OP!holderVars, OP!notifierVars
<1>2. ASSUME NEW e \in Exchanges, DoHandle(e) PROVE [OP!Next]_(OP!vars)
  <2>1. CASE Report(e)
    <3>1. PICK t \in Tokens : OP!Respond(e, <<from[e], t>>, packet[e].path, FlagOf(e))
      BY <2>1, SameRegistration DEF Report
    <3>2. packet[e].path \in Paths /\ <<from[e], t>> \in Peers \X Tokens
      BY <2>1, ObservedAssumption DEF Report, Concerned, ControlInv, Given
    <3>3. FlagOf(e) \in {"Register", "Deregister"}
      BY DEF FlagOf
    <3> QED
      BY <3>1, <3>2, <3>3 DEF OP!Next
  <2>2. CASE Proceed(e)
    <3>1. OP!RequestStep(e)
      BY <2>2, SameRegistration, SameLoop DEF Proceed, OP!RequestStep
    <3> QED
      BY <3>1 DEF OP!Next
  <2>3. CASE Finish(e)
    <3>1. OP!RequestStep(e) \/ UNCHANGED observation
      BY <2>3, SameRegistration DEF Finish, OP!RequestStep
    <3> QED
      BY <1>1, <3>1 DEF OP!Next
  <2>4. CASE FailFirst(e)
    BY <1>1, <2>4 DEF FailFirst
  <2>5. CASE Inform(e) \/ Resume(e) \/ Stop(e)
    <3>1. OP!RequestStep(e)
      BY <2>5, SameLoop DEF Inform, Resume, Stop, OP!RequestStep
    <3> QED
      BY <3>1 DEF OP!Next
  <2> QED
    BY <1>2, <2>1, <2>2, <2>3, <2>4, <2>5 DEF DoHandle
<1>3. CASE AppStep
  BY <1>1, <1>3 DEF AppStep
<1>4. CASE ResourceStep
  BY <1>4, SameActive, SameNotifiers DEF ResourceStep, OP!Next
<1>5. CASE UNCHANGED all
  BY <1>1, <1>5 DEF all
<1> QED
  BY <1>2, <1>3, <1>4, <1>5 DEF ObservedNext

LEMMA IsObserve == ObservedSpec => OP!Spec
<1>1. ObservedInit => OP!Init
  BY SameRegistryInit DEF ObservedInit
<1> QED
  BY <1>1, RegistryNext, AppInvariance, PTL DEF ObservedSpec, OP!Spec

(* The registry, the channels and on_active are those of Observe, although *)
(* a request can now come to it only as a packet that was routed, and its  *)
(* sends return what the manager says: the theorems about that module hold *)
(* here.                                                                   *)
THEOREM ObservedAppIsObserve == ObservedSpec => O!Spec
<1>1. ObservedInit => O!Init
  BY DEF ObservedInit
<1>2. OP!Next => O!Next
  BY SameRegistration, SameLoop, SameActive, SameNotifiers
     DEF OP!Next, O!Next, OP!RequestStep, O!RequestStep
<1>3. UNCHANGED OP!vars => UNCHANGED O!vars
  BY DEF OP!vars, OP!requestVars, OP!registryVars, OP!activeVars, OP!holderVars,
         OP!notifierVars, O!vars, O!requestVars, O!registryVars, O!activeVars,
         O!holderVars, O!notifierVars
<1>4. ControlInv /\ [ObservedNext]_all => [O!Next]_(O!vars)
  BY <1>2, <1>3, RegistryNext
<1> QED
  BY <1>1, <1>4, AppInvariance, PTL DEF ObservedSpec, O!Spec

LEMMA RegistryInvariance == ObservedSpec => []OP!ChannelInv
<1>1. OP!Spec => []OP!ChannelInv
  BY RegistryAssumption, OP!ChannelInvariance DEF OP!ChannelInvariance
<1> QED
  BY <1>1, IsObserve, PTL

-----------------------------------------------------------------------------
(* Where the two parts of a task are.                                      *)

Registering == {"answered", "locked", "subscribed"}

(* A task is at the same place for the app and for the registry, and is    *)
(* registered for the peer that its packet came from.                      *)
Together(e) ==
  /\ pc[e] \in Registering => task[e] = "handling" /\ Concerned(e)
  /\ pc[e] = "answered" => flag[e] = FlagOf(e)
  /\ pc[e] \in {"locked", "subscribed"} => FlagOf(e) = "Register"
  /\ pc[e] \in {"parked", "woken", "numbered"} => task[e] = "parked"
  /\ pc[e] = "sending" => task[e] = "sending"
  /\ pc[e] = "done" => task[e] \in {"done", "ignored"}
  /\ pc[e] = "idle" => task[e] \notin {"parked", "sending"}
  /\ pc[e] # "idle" => client[e][1] = from[e]

(* The last notification carries what the loop was last told, and a loop   *)
(* that rests after a change has sent one.                                 *)
Carries(e) ==
  /\ Sent(e) > 0 => pc[e] \notin Registering \cup {"idle"}
                    /\ carried[<<e, Sent(e)>>] = body[e]
  /\ pc[e] = "sending" => Sent(e) > 0
  /\ pc[e] = "parked" /\ seen[e] # base[e] => Sent(e) > 0

JointParts ==
  /\ gone = {}
  /\ carried \in [Notifications -> Nat]
  /\ \A e \in Exchanges : Together(e) /\ Carries(e)

JointInv == ControlInv /\ RP!IInv /\ Turn /\ OP!ChannelInv /\ JointParts

(* What the invariants of the parts say of the variables used here.        *)
LEMMA JointTypes ==
  ASSUME JointInv
  PROVE  /\ pc \in [Exchanges -> {"idle", "answered", "locked", "done", "numbered",
                                  "subscribed", "parked", "woken", "sending"}]
         /\ task \in [Exchanges -> Tasks]
         /\ client = [e \in Exchanges |-> client[e]] /\ flag = [e \in Exchanges |-> flag[e]]
         /\ seen \in [Exchanges -> Nat] /\ base \in [Exchanges -> Nat]
         /\ body \in [Exchanges -> 0 .. MaxVersion] /\ version \in Nat
         /\ MaxVersion \in Nat
         /\ \A e \in Exchanges : Sent(e) \in 0 .. MaxNotify[e] /\ MaxNotify[e] \in Nat
         /\ \A e \in Exchanges : \A n \in 1 .. MaxNotify[e] : <<e, n>> \in Notifications
<1>1. OP!TypeOK
  BY DEF JointInv, OP!ChannelInv, OP!RegistryInv
<1>2. /\ pc \in [Exchanges -> OP!Pcs]
      /\ client = [e \in Exchanges |-> client[e]] /\ flag = [e \in Exchanges |-> flag[e]]
      /\ seen \in [Exchanges -> Nat] /\ base \in [Exchanges -> Nat]
      /\ body \in [Exchanges -> 0 .. MaxVersion] /\ version \in 0 .. MaxVersion
  BY <1>1 DEF OP!TypeOK, OP!RequestTypes
<1>3. OP!Pcs = {"idle", "answered", "locked", "done", "numbered", "subscribed", "parked",
                "woken", "sending"}
  BY DEF OP!Pcs, OP!Subscribed
<1>4. task \in [Exchanges -> Tasks]
  BY DEF JointInv, ControlInv, Types
<1>5. MaxVersion \in Nat /\ \A e \in Exchanges : MaxNotify[e] \in Nat
  BY ObservedAssumption, AppAssumption
<1> QED
  BY <1>2, <1>3, <1>4, <1>5, SentType, NotificationsType

(* What is said of a task stays, if its part of the state does.            *)
LEMMA OthersStayTogether ==
  ASSUME NEW e \in Exchanges, Together(e), Carries(e), UNCHANGED <<app, table>>,
         packet'[e] = packet[e], from'[e] = from[e], task'[e] = task[e], pc'[e] = pc[e],
         client'[e] = client[e], flag'[e] = flag[e], body'[e] = body[e],
         seen'[e] = seen[e], base'[e] = base[e], Sent(e)' = Sent(e),
         carried'[<<e, Sent(e)>>] = carried[<<e, Sent(e)>>]
  PROVE  Together(e)' /\ Carries(e)'
<1>1. (Concerned(e)' <=> Concerned(e)) /\ FlagOf(e)' = FlagOf(e)
  <2>1. Matched(e)' = Matched(e) /\ Resource(e)' = Resource(e) /\ App' = App
    BY DEF Matched, Resource, App
  <2> QED
    BY <2>1 DEF Concerned, FlagOf, HasResponse
<1>2. Together(e)'
  BY <1>1 DEF Together
<1>3. Carries(e)'
  BY DEF Carries
<1> QED
  BY <1>2, <1>3

(* Only a task that begins to wait for a send has begun one.               *)
LEMMA SentStays ==
  ASSUME JointInv, [ObservedNext]_all, NEW e \in Exchanges,
         task[e] # "parked" \/ task'[e] # "sending"
  PROVE  Sent(e)' = Sent(e)
<1>1. ~Notify(e)
  BY JointTypes DEF Notify, Become
<1> QED
  BY <1>1, AppNext, SentGrows DEF JointInv

(* A step of one task.                                                     *)
LEMMA OneTaskMoves ==
  ASSUME JointInv, [ObservedNext]_all, NEW x \in Exchanges,
         UNCHANGED <<app, table, gone, packet, from>>,
         \A e \in Exchanges : e # x =>
           /\ task'[e] = task[e] /\ pc'[e] = pc[e] /\ client'[e] = client[e]
           /\ flag'[e] = flag[e] /\ body'[e] = body[e] /\ seen'[e] = seen[e]
           /\ base'[e] = base[e] /\ carried'[<<e, Sent(e)>>] = carried[<<e, Sent(e)>>],
         carried' \in [Notifications -> Nat],
         Together(x)', Carries(x)'
  PROVE  JointParts'
<1>1. ASSUME NEW e \in Exchanges, e # x PROVE Together(e)' /\ Carries(e)'
  <2>1. Sent(e)' = Sent(e)
    BY <1>1, SentStays
  <2>2. Together(e) /\ Carries(e)
    BY DEF JointInv, JointParts
  <2> QED
    BY <1>1, <2>1, <2>2, OthersStayTogether
<1> QED
  BY <1>1 DEF JointInv, JointParts

LEMMA ReportJoint ==
  ASSUME JointInv, [ObservedNext]_all, NEW x \in Exchanges, Report(x)
  PROVE  JointParts'
<1>1. PICK t \in Tokens : O!Respond(x, <<from[x], t>>, packet[x].path, FlagOf(x))
  BY DEF Report
<1>2. /\ pc[x] = "idle" /\ task[x] = "handling" /\ Concerned(x)
      /\ UNCHANGED <<vars, carried, seen, base>>
      /\ pc' = [pc EXCEPT ![x] = "answered"]
      /\ client' = [client EXCEPT ![x] = <<from[x], t>>]
      /\ flag' = [flag EXCEPT ![x] = FlagOf(x)]
      /\ body' = [body EXCEPT ![x] = version]
  BY <1>1 DEF Report, O!Respond, O!Goto
<1>3. /\ \A e \in Exchanges : e # x =>
           pc'[e] = pc[e] /\ client'[e] = client[e] /\ flag'[e] = flag[e] /\ body'[e] = body[e]
      /\ pc'[x] = "answered" /\ client'[x] = <<from[x], t>> /\ flag'[x] = FlagOf(x)
  BY <1>2, JointTypes
<1>4. UNCHANGED <<app, table, gone, packet, from, task, stage>>
  BY <1>2 DEF vars, manager
<1>5. Sent(x)' = Sent(x) /\ Sent(x) \in Nat /\ ~(Sent(x) > 0)
  <2>1. Sent(x)' = Sent(x)
    BY <1>4, SentStays
  <2>2. Sent(x) \in Nat
    BY JointTypes
  <2>3. ~(Sent(x) > 0)
    BY <1>2 DEF JointInv, JointParts, Carries
  <2> QED
    BY <2>1, <2>2, <2>3
<1>6. Concerned(x)' /\ FlagOf(x)' = FlagOf(x)
  BY <1>2, <1>4 DEF Concerned, FlagOf, HasResponse, Resource, Matched, App
<1>7. Together(x)'
  BY <1>2, <1>3, <1>4, <1>6 DEF Together, Registering
<1>8. Carries(x)'
  BY <1>3, <1>5 DEF Carries
<1>9. carried' \in [Notifications -> Nat]
  BY <1>2 DEF JointInv, JointParts
<1> QED
  BY <1>2, <1>3, <1>4, <1>7, <1>8, <1>9, OneTaskMoves

(* A loop that has seen nothing new rests without a notification.          *)
LEMMA ProceedJoint ==
  ASSUME JointInv, [ObservedNext]_all, NEW x \in Exchanges, Proceed(x)
  PROVE  JointParts'
<1>1. /\ UNCHANGED <<vars, carried, client, flag, body>>
      /\ \E there \in {"locked", "subscribed", "woken", "parked", "numbered"} :
           pc' = [pc EXCEPT ![x] = there]
  BY DEF Proceed, O!Lock, O!Subscribe, O!Wake, O!Borrow, O!Goto
<1>2. UNCHANGED <<app, table, gone, packet, from, task, stage>>
  BY <1>1 DEF vars, manager
<1>3. \/ pc[x] = "answered" /\ flag[x] = "Register" /\ pc'[x] = "locked"
      \/ pc[x] = "locked" /\ pc'[x] = "subscribed"
      \/ pc[x] = "parked" /\ pc'[x] = "woken"
      \/ /\ pc[x] = "woken" /\ pc'[x] \in {"parked", "numbered"}
         /\ UNCHANGED <<seen, base>>
         /\ pc'[x] = "parked" => chan[act[x]].ver = 0
  BY JointTypes DEF Proceed, O!Lock, O!Subscribe, O!Wake, O!Borrow, O!Goto
<1>4. \A e \in Exchanges : e # x =>
        pc'[e] = pc[e] /\ seen'[e] = seen[e] /\ base'[e] = base[e]
  <2>1. \A e \in Exchanges : e # x => pc'[e] = pc[e]
    BY <1>1, JointTypes
  <2>2. \A e \in Exchanges : e # x => seen'[e] = seen[e] /\ base'[e] = base[e]
    BY JointTypes DEF Proceed, O!Lock, O!Subscribe, O!Wake, O!Borrow
  <2> QED
    BY <2>1, <2>2
<1>5. Together(x) /\ Carries(x)
  BY DEF JointInv, JointParts
<1>6. Concerned(x)' <=> Concerned(x)
  BY <1>2 DEF Concerned, HasResponse, Resource, Matched, App
<1>7. FlagOf(x)' = FlagOf(x)
  BY <1>2 DEF FlagOf
<1>8. Together(x)'
  BY <1>1, <1>2, <1>3, <1>5, <1>6, <1>7 DEF Together, Registering
<1>9. pc'[x] = "parked" => seen'[x] = base'[x]
  <2> SUFFICES ASSUME pc'[x] = "parked" PROVE seen[x] = base[x] /\ UNCHANGED <<seen, base>>
    OBVIOUS
  <2>1. pc[x] = "woken" /\ chan[act[x]].ver = 0 /\ UNCHANGED <<seen, base>>
    BY <1>3
  <2>2. base[x] <= seen[x] /\ seen[x] <= chan[act[x]].ver
    BY <2>1 DEF JointInv, OP!ChannelInv, OP!ChannelParts, OP!Counts, OP!Subscribed
  <2>3. base[x] \in Nat /\ seen[x] \in Nat
    BY JointTypes
  <2> QED
    BY <2>1, <2>2, <2>3
<1>10. Carries(x)'
  <2>1. Sent(x)' = Sent(x)
    BY <1>2, SentStays
  <2>2. carried'[<<x, Sent(x)'>>] = carried[<<x, Sent(x)>>] /\ body'[x] = body[x]
    BY <1>1, <2>1
  <2> QED
    BY <1>3, <1>5, <1>9, <2>1, <2>2 DEF Carries, Registering
<1>11. carried' \in [Notifications -> Nat]
  BY <1>1 DEF JointInv, JointParts
<1> QED
  BY <1>1, <1>2, <1>4, <1>8, <1>10, <1>11, OneTaskMoves

(* The response goes out, without a stop of the server: a task that was    *)
(* registered parks, and any other one is over.                            *)
LEMMA RespondFinishes ==
  ASSUME NEW x \in Exchanges, JointInv, Respond(x)
  PROVE  /\ UNCHANGED <<app, table, gone, packet, from, stage>>
         /\ task[x] = "handling"
         /\ \E t : task' = [task EXCEPT ![x] = t] /\ t \in {"parked", "done", "ignored", "panicked"}
         /\ Concerned(x) => task'[x] = IF FlagOf(x) = "Register" THEN "parked" ELSE "done"
         /\ ~Concerned(x) => task'[x] # "parked"
<1>1. gone = {} /\ task \in [Exchanges -> Tasks]
  BY JointTypes DEF JointInv, JointParts
<1>2. /\ UNCHANGED <<app, table, gone, packet, from, stage>>
      /\ task[x] = "handling"
      /\ \E t : task' = [task EXCEPT ![x] = t] /\ t \in {"parked", "done", "ignored", "panicked"}
  BY DEF Respond, EndWith, EndWithError, Become, manager
<1>3. Concerned(x) => /\ HasResponse(x) /\ ~Misregisters(x)
                      /\ Registers(x) <=> FlagOf(x) = "Register"
  BY DEF Concerned, Misregisters, Registers, FlagOf, IsObservation
<1>4. Concerned(x) => task'[x] = IF FlagOf(x) = "Register" THEN "parked" ELSE "done"
  BY <1>1, <1>3 DEF Respond, EndWith, Become
<1>5. ~Concerned(x) => ~HasResponse(x) \/ ~Registers(x)
  BY DEF Concerned, Registers, IsObservation
<1>6. ~Concerned(x) => task'[x] # "parked"
  BY <1>1, <1>5 DEF Respond, EndWith, EndWithError, Become
<1> QED
  BY <1>2, <1>4, <1>6

LEMMA FinishJoint ==
  ASSUME JointInv, [ObservedNext]_all, NEW x \in Exchanges, Finish(x)
  PROVE  JointParts'
<1>1. /\ Respond(x) /\ UNCHANGED carried
      /\ \/ O!Register(x) \/ O!Deregister(x)
         \/ ~Concerned(x) /\ UNCHANGED observation
  BY DEF Finish
<1>2. /\ UNCHANGED <<app, table, gone, packet, from, stage>>
      /\ task[x] = "handling"
      /\ Concerned(x) => task'[x] = IF FlagOf(x) = "Register" THEN "parked" ELSE "done"
      /\ ~Concerned(x) => task'[x] # "parked"
      /\ task'[x] \in {"parked", "done", "ignored", "panicked"}
      /\ \A e \in Exchanges : e # x => task'[e] = task[e]
  BY <1>1, RespondFinishes, JointTypes
<1>3. /\ UNCHANGED <<client, flag, body, seen, base>>
      /\ \/ pc[x] = "subscribed" /\ pc' = [pc EXCEPT ![x] = "parked"]
         \/ /\ pc[x] = "answered" /\ flag[x] = "Deregister"
            /\ pc' = [pc EXCEPT ![x] = "done"]
         \/ ~Concerned(x) /\ UNCHANGED pc
  BY <1>1 DEF O!Register, O!Deregister, O!Goto, observation
<1>4. /\ \A e \in Exchanges : e # x => pc'[e] = pc[e]
      /\ \/ pc[x] = "subscribed" /\ pc'[x] = "parked"
         \/ pc[x] = "answered" /\ flag[x] = "Deregister" /\ pc'[x] = "done"
         \/ ~Concerned(x) /\ pc'[x] = pc[x]
  BY <1>3, JointTypes
<1>5. Together(x) /\ Carries(x) /\ carried \in [Notifications -> Nat]
  BY DEF JointInv, JointParts
<1>6. pc[x] \in Registering \cup {"idle"}
  BY <1>2, <1>5, JointTypes DEF Together, Registering
<1>7. pc'[x] # "idle" => client'[x][1] = from'[x]
  BY <1>2, <1>3, <1>4, <1>5 DEF Together
<1>8. Together(x)'
  <2>1. CASE pc[x] = "subscribed" /\ pc'[x] = "parked"
    BY <1>2, <1>5, <1>7, <2>1 DEF Together, Registering
  <2>2. CASE pc[x] = "answered" /\ flag[x] = "Deregister" /\ pc'[x] = "done"
    BY <1>2, <1>5, <1>7, <2>2 DEF Together, Registering
  <2>3. CASE ~Concerned(x) /\ pc'[x] = pc[x]
    BY <1>2, <1>5, <1>6, <2>3 DEF Together, Registering
  <2> QED
    BY <1>4, <2>1, <2>2, <2>3
<1>9. Carries(x)'
  <2>1. Sent(x)' = Sent(x) /\ Sent(x) \in Nat
    BY <1>2, SentStays, JointTypes
  <2>2. ~(Sent(x) > 0)
    BY <1>5, <1>6 DEF Carries
  <2>3. pc[x] = "subscribed" => seen[x] = base[x]
    BY DEF JointInv, OP!ChannelInv, OP!ChannelParts, OP!Counts, OP!Subscribed
  <2>4. pc'[x] = "parked" => seen'[x] = base'[x]
    BY <1>3, <1>4, <1>6, <2>3 DEF Registering
  <2>5. pc'[x] # "sending"
    BY <1>4, <1>6 DEF Registering
  <2> QED
    BY <2>1, <2>2, <2>4, <2>5 DEF Carries
<1> QED
  BY <1>1, <1>2, <1>3, <1>4, <1>5, <1>8, <1>9, OneTaskMoves

(* What fails ends its task.                                               *)
LEMMA FailEnds ==
  ASSUME NEW x \in Exchanges, JointInv, NEW code, Fail(x, code)
  PROVE  /\ UNCHANGED <<app, table, gone, packet, from, stage>>
         /\ task'[x] \in {"done", "ignored"}
         /\ \A e \in Exchanges : e # x => task'[e] = task[e]
<1>1. gone = {} /\ task \in [Exchanges -> Tasks]
  BY JointTypes DEF JointInv, JointParts
<1> QED
  BY <1>1 DEF Fail, EndWithError, EndWith, Become, manager

LEMMA FailFirstJoint ==
  ASSUME JointInv, [ObservedNext]_all, NEW x \in Exchanges, FailFirst(x)
  PROVE  JointParts'
<1>1. /\ pc[x] = "idle" /\ task[x] = "handling"
      /\ UNCHANGED <<pc, client, flag, body, seen, base, carried>>
  BY DEF FailFirst, observation
<1>2. /\ UNCHANGED <<app, table, gone, packet, from, stage>>
      /\ task'[x] \in {"done", "ignored"}
      /\ \A e \in Exchanges : e # x => task'[e] = task[e]
  BY FailEnds DEF FailFirst
<1>3. Together(x) /\ Carries(x) /\ carried \in [Notifications -> Nat]
  BY DEF JointInv, JointParts
<1>4. Together(x)'
  BY <1>1, <1>2 DEF Together, Registering
<1>5. Carries(x)'
  <2>1. Sent(x)' = Sent(x)
    BY <1>1, SentStays
  <2> QED
    BY <1>1, <1>3, <2>1 DEF Carries
<1> QED
  BY <1>1, <1>2, <1>3, <1>4, <1>5, OneTaskMoves

(* A notification carries what the loop has just been told.                *)
LEMMA InformJoint ==
  ASSUME JointInv, [ObservedNext]_all, NEW x \in Exchanges, Inform(x)
  PROVE  JointParts'
<1>1. /\ pc[x] = "numbered" /\ UNCHANGED <<version, client, flag, seen, base>>
      /\ \/ pc' = [pc EXCEPT ![x] = "sending"] /\ body' = [body EXCEPT ![x] = version]
         \/ pc' = [pc EXCEPT ![x] = "done"] /\ UNCHANGED body
  BY DEF Inform, O!Notify, O!Goto
<1>2. Together(x) /\ Carries(x) /\ carried \in [Notifications -> Nat]
  BY DEF JointInv, JointParts
<1>3. /\ \A e \in Exchanges : e # x => pc'[e] = pc[e] /\ body'[e] = body[e]
      /\ \/ pc'[x] = "sending" /\ body'[x] = version
         \/ pc'[x] = "done" /\ body'[x] = body[x]
  BY <1>1, JointTypes
<1>4. task[x] = "parked" /\ client[x][1] = from[x]
  BY <1>1, <1>2 DEF Together
<1>5. CASE pc'[x] = "sending"
  <2>1. /\ Notify(x) /\ carried' = [carried EXCEPT ![<<x, Sent(x) + 1>>] = body'[x]]
        /\ body'[x] = version
    BY <1>3, <1>5 DEF Inform
  <2>2. /\ Sent(x) < MaxNotify[x] /\ task' = [task EXCEPT ![x] = "sending"]
        /\ UNCHANGED <<app, table, gone, packet, from>>
    BY <2>1 DEF Notify, Become
  <2>3. Sent(x)' = Sent(x) + 1
    BY <2>1, AppNext, SentGrows DEF JointInv
  <2>4. Sent(x) \in Nat /\ <<x, Sent(x) + 1>> \in Notifications /\ version \in Nat
    BY <2>2, JointTypes
  <2>5. carried' \in [Notifications -> Nat] /\ carried'[<<x, Sent(x)'>>] = body'[x]
    BY <1>2, <2>1, <2>3, <2>4
  <2>6. \A e \in Exchanges : e # x =>
          task'[e] = task[e] /\ carried'[<<e, Sent(e)>>] = carried[<<e, Sent(e)>>]
    <3>1. \A e \in Exchanges : e # x => <<e, Sent(e)>> # <<x, Sent(x) + 1>>
      OBVIOUS
    <3>2. \A e \in Exchanges : e # x => task'[e] = task[e]
      BY <2>2, JointTypes
    <3>3. \A s : s # <<x, Sent(x) + 1>> => carried'[s] = carried[s]
      BY <1>2, <2>1
    <3> QED
      BY <3>1, <3>2, <3>3
  <2>7. task'[x] = "sending"
    BY <2>2, JointTypes
  <2>8. Together(x)'
    BY <1>1, <1>4, <1>5, <2>2, <2>7 DEF Together, Registering
  <2>9. Carries(x)'
    BY <1>5, <2>3, <2>4, <2>5 DEF Carries, Registering
  <2> QED
    BY <1>1, <1>3, <2>2, <2>5, <2>6, <2>8, <2>9, OneTaskMoves
<1>6. CASE pc'[x] = "done"
  <2>1. UNCHANGED carried /\ \E code \in ErrorCodes \cup {None} : Fail(x, code)
    BY <1>6 DEF Inform
  <2>2. /\ UNCHANGED <<app, table, gone, packet, from, stage>>
        /\ task'[x] \in {"done", "ignored"}
        /\ \A e \in Exchanges : e # x => task'[e] = task[e]
    BY <2>1, FailEnds
  <2>3. Sent(x)' = Sent(x)
    BY <2>2, SentStays
  <2>4. Together(x)'
    BY <1>1, <1>4, <1>6, <2>2 DEF Together, Registering
  <2>5. Carries(x)'
    BY <1>1, <1>2, <1>3, <1>6, <2>1, <2>3 DEF Carries, Registering
  <2> QED
    BY <1>1, <1>2, <1>3, <2>1, <2>2, <2>4, <2>5, OneTaskMoves
<1> QED
  BY <1>3, <1>5, <1>6

LEMMA ResumeJoint ==
  ASSUME JointInv, [ObservedNext]_all, NEW x \in Exchanges, Resume(x) \/ Stop(x)
  PROVE  JointParts'
<1>1. /\ UNCHANGED <<app, table, gone, packet, from, carried, client, flag, body, seen, base>>
      /\ \E there \in {"parked", "done"} :
           /\ pc' = [pc EXCEPT ![x] = there] /\ task' = [task EXCEPT ![x] = there]
           /\ pc[x] = "sending" \/ (pc[x] = "parked" /\ there = "done")
  <2>1. CASE Resume(x)
    <3>1. /\ pc[x] = "sending" /\ pc'[x] = task'[x]
          /\ UNCHANGED <<app, table, gone, packet, from, carried, client, flag, body, seen, base>>
      BY <2>1 DEF Resume, O!SendReturns, SendReturns
    <3>2. PICK there \in {"parked", "done"} : pc' = [pc EXCEPT ![x] = there]
      BY <2>1 DEF Resume, O!SendReturns, O!Goto
    <3>3. PICK also \in {"parked", "done"} : task' = [task EXCEPT ![x] = also]
      BY <2>1 DEF Resume, SendReturns, Become
    <3>4. pc'[x] = there /\ task'[x] = also
      BY <3>2, <3>3, JointTypes
    <3> QED
      BY <3>1, <3>2, <3>3, <3>4
  <2>2. CASE Stop(x)
    BY <2>2 DEF Stop, O!Terminated, O!Goto, Terminate, Become
  <2> QED
    BY <2>1, <2>2
<1>2. /\ pc'[x] = task'[x] /\ pc[x] \in {"sending", "parked"}
      /\ pc'[x] = "done" \/ (pc'[x] = "parked" /\ pc[x] = "sending")
      /\ \A e \in Exchanges : e # x => pc'[e] = pc[e] /\ task'[e] = task[e]
  BY <1>1, JointTypes
<1>3. Together(x) /\ Carries(x) /\ carried \in [Notifications -> Nat]
  BY DEF JointInv, JointParts
<1>4. Together(x)'
  BY <1>1, <1>2, <1>3 DEF Together, Registering
<1>5. Carries(x)'
  <2>1. Sent(x)' = Sent(x)
    BY <1>2, SentStays
  <2> QED
    BY <1>1, <1>2, <1>3, <2>1 DEF Carries, Registering
<1> QED
  BY <1>1, <1>2, <1>3, <1>4, <1>5, OneTaskMoves

(* A step of the app alone is one of a task that does not observe yet, or  *)
(* none of a task.                                                         *)
LEMMA AppStepJoint ==
  ASSUME JointInv, [ObservedNext]_all, AppStep
  PROVE  JointParts'
<1>1. /\ UNCHANGED <<pc, client, flag, body, seen, base, carried>>
      /\ carried \in [Notifications -> Nat]
  BY DEF AppStep, observation, JointInv, JointParts
<1>2. ASSUME NEW x \in Exchanges, task[x] \in {"none", "spawned"},
             task'[x] \in {"spawned", "handling", "done", "ignored", "panicked"},
             \A e \in Exchanges : e # x =>
               task'[e] = task[e] /\ packet'[e] = packet[e] /\ from'[e] = from[e],
             UNCHANGED <<app, table, gone>>
      PROVE  JointParts'
  <2>1. \A e \in Exchanges : Together(e) /\ Carries(e)
    BY DEF JointInv, JointParts
  <2>2. pc[x] = "idle"
    BY <1>2, <2>1, JointTypes DEF Together, Registering
  <2>3. Together(x)'
    BY <1>1, <1>2, <2>2 DEF Together, Registering
  <2>4. Carries(x)'
    <3>1. Sent(x)' = Sent(x)
      BY <1>2, SentStays
    <3> QED
      BY <1>1, <2>1, <2>2, <3>1 DEF Carries
  <2>5. ASSUME NEW e \in Exchanges, e # x PROVE Together(e)' /\ Carries(e)'
    <3>1. Sent(e)' = Sent(e)
      BY <1>2, <2>5, SentStays
    <3> QED
      BY <1>1, <1>2, <2>1, <2>5, <3>1, OthersStayTogether
  <2> QED
    BY <1>1, <1>2, <2>3, <2>4, <2>5 DEF JointInv, JointParts
<1>3. ASSUME NEW x \in Exchanges, NEW pk \in Packets, NEW p \in Peers, Handle(x, pk, p)
      PROVE  JointParts'
  <2>1. /\ task[x] = "none" /\ task' = [task EXCEPT ![x] = "spawned"]
        /\ packet' = [packet EXCEPT ![x] = pk] /\ from' = [from EXCEPT ![x] = p]
        /\ UNCHANGED <<app, table, gone>>
    BY <1>3 DEF Handle, Become
  <2>2. /\ packet = [e \in Exchanges |-> packet[e]] /\ from = [e \in Exchanges |-> from[e]]
    BY DEF JointInv, ControlInv, Types
  <2>3. /\ task'[x] = "spawned"
        /\ \A e \in Exchanges : e # x =>
             task'[e] = task[e] /\ packet'[e] = packet[e] /\ from'[e] = from[e]
    BY <2>1, <2>2, JointTypes
  <2> QED
    BY <1>2, <2>1, <2>3
<1>4. ASSUME NEW x \in Exchanges, HandlePacket(x) PROVE JointParts'
  <2>1. /\ task[x] = "spawned" /\ UNCHANGED <<app, table, gone, packet, from>>
        /\ \E t \in {"handling", "done", "ignored", "panicked"} :
             task' = [task EXCEPT ![x] = t]
    BY <1>4 DEF HandlePacket, EndWithError, EndWith, Become
  <2>2. /\ task'[x] \in {"spawned", "handling", "done", "ignored", "panicked"}
        /\ \A e \in Exchanges : e # x => task'[e] = task[e]
    BY <2>1, JointTypes
  <2> QED
    BY <1>2, <2>1, <2>2
<1>5. CASE UNCHANGED <<app, table, gone, packet, from, task>>
  <2>1. ASSUME NEW e \in Exchanges PROVE Together(e)' /\ Carries(e)'
    <3>1. Sent(e)' = Sent(e)
      BY <1>5, SentStays
    <3>2. Together(e) /\ Carries(e)
      BY DEF JointInv, JointParts
    <3> QED
      BY <1>1, <1>5, <3>1, <3>2, OthersStayTogether
  <2> QED
    BY <1>1, <1>5, <2>1 DEF JointInv, JointParts
<1> QED
  BY <1>3, <1>4, <1>5 DEF AppStep, SendStep, HandleReply

LEMMA UntouchedJoint ==
  ASSUME JointInv, [ObservedNext]_all, ResourceStep \/ UNCHANGED all
  PROVE  JointParts'
<1>1. UNCHANGED <<vars, carried, pc, client, flag, body, seen, base>>
  BY DEF ResourceStep, all, observation, O!ActiveStep, O!Attach, O!StayActive, O!Detach,
         O!Remove, O!Change, O!NotifyStep, O!NotifyChange, O!NotifyChangeForPath,
         O!BeginNotify, O!Bump, O!Publish, O!EndNotify, O!requestVars
<1>2. UNCHANGED <<app, table, gone, packet, from, task>>
  BY <1>1 DEF vars
<1>3. ASSUME NEW e \in Exchanges PROVE Together(e)' /\ Carries(e)'
  <2>1. Sent(e)' = Sent(e)
    BY <1>2, SentStays
  <2>2. Together(e) /\ Carries(e)
    BY DEF JointInv, JointParts
  <2> QED
    BY <1>1, <1>2, <2>1, <2>2, OthersStayTogether
<1> QED
  BY <1>1, <1>2, <1>3 DEF JointInv, JointParts

LEMMA JointNext == JointInv /\ [ObservedNext]_all => JointParts'
BY ReportJoint, ProceedJoint, FinishJoint, FailFirstJoint, InformJoint, ResumeJoint,
   AppStepJoint, UntouchedJoint
   DEF ObservedNext, DoHandle

LEMMA JointInit == ObservedInit => JointParts
<1> SUFFICES ASSUME ObservedInit PROVE JointParts
  OBVIOUS
<1>1. ASSUME NEW e \in Exchanges
      PROVE  Sent(e) = 0 /\ task[e] = "none" /\ pc[e] = "idle"
  <2>1. Sent(e) = 0
    <3>1. \A n \in 1 .. MaxNotify[e] : stage[<<e, n>>] = "idle"
      BY NotificationsType DEF ObservedInit, Init, R!Init
    <3>2. {n \in 1 .. MaxNotify[e] : stage[<<e, n>>] # "idle"} = {}
      BY <3>1
    <3> QED
      BY <3>2, FS_EmptySet DEF Sent
  <2> QED
    BY <2>1 DEF ObservedInit, Init, O!Init
<1>2. \A e \in Exchanges : Together(e) /\ Carries(e)
  BY <1>1 DEF Together, Carries, Registering
<1>3. gone = {} /\ carried \in [Notifications -> Nat]
  BY DEF ObservedInit, Init
<1> QED
  BY <1>2, <1>3 DEF JointParts

LEMMA JointInvariance == ObservedSpec => []JointInv
BY JointInit, JointNext, AppInvariance, RegistryInvariance, PTL DEF ObservedSpec, JointInv

(* From the change to the client: what an observer that rests was last     *)
(* told is not behind the last publication, and it is in a notification    *)
(* that was acknowledged, by the client of that registration, whatever the *)
(* other tasks send under the message IDs that all of them share.          *)
THEOREM PublicationsAreDelivered == ObservedSpec => []LastPublicationWasAcknowledged
<1>1. JointInv /\ AcknowledgedByItsClient => LastPublicationWasAcknowledged
  <2> SUFFICES ASSUME JointInv, AcknowledgedByItsClient, NEW e \in Exchanges,
                      pc[e] = "parked", seen[e] = chan[act[e]].ver, seen[e] # base[e]
               PROVE  \E s \in {e} \X (1 .. MaxNotify[e]) :
                        /\ carried[s] >= pub[act[e]]
                        /\ result[s] = "Ok" /\ answered[s] # None
                        /\ from[answered[s][1]] = client[e][1]
    BY DEF LastPublicationWasAcknowledged
  <2> DEFINE s == <<e, Sent(e)>>
  <2>1. Together(e) /\ Carries(e)
    BY DEF JointInv, JointParts
  <2>2. Sent(e) > 0 /\ carried[s] = body[e] /\ task[e] = "parked" /\ client[e][1] = from[e]
    BY <2>1 DEF Together, Carries
  <2>3. Sent(e) \in 1 .. MaxNotify[e]
    BY <2>2, JointTypes
  <2>4. s \in {e} \X (1 .. MaxNotify[e]) /\ s \in Notifications /\ s[1] = e
    BY <2>3, NotificationsType
  <2>5. result[s] = "Ok"
    BY <2>2, <2>3 DEF JointInv, Turn
  <2>6. answered[s] # None /\ from[answered[s][1]] = from[e]
    BY <2>4, <2>5 DEF AcknowledgedByItsClient
  <2>7. body[e] >= pub[act[e]]
    BY DEF JointInv, OP!ChannelInv, OP!ChannelParts, OP!UpToDate
  <2> HIDE DEF s
  <2> QED
    BY <2>2, <2>4, <2>5, <2>6, <2>7
<1> QED
  BY <1>1, JointInvariance, ObservedAppIsApp, ObservationsHearTheirClient, PTL
=============================================================================
