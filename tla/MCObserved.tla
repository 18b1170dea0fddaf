----------------------------- MODULE MCObserved -----------------------------
(* An app with one observable resource; two requests, of two peers.         *)
EXTENDS ObservedApp

CONSTANTS e1, e2, p1, p2, core, rt, a, s

Core == <<Empty, core, a>>
Formats == [f \in {rt} |-> rt]

AppsOfRun ==
  [one |-> AppNotDiscoverable(AddResources(NewApp,
     <<Observable(MethodHandler(NewResource(<<Empty, a>>), "GET"))>>))]

Get(type, observe) ==
  [class |-> "Request", type |-> type, method |-> "GET", path |-> <<a>>,
   observe |-> observe, query |-> <<>>]

\* A client observes, ends that, or asks once.
PacketsOfRun == {Get("Con", "register"), Get("Con", "deregister"), Get("Non", "none")}

MaxNotifyOfRun == [e \in Exchanges |-> 1]
PathsOfRun     == {<<a>>}
PrefixOfRun    == <<s, a>>

\* The Observe value comes from the registry.
NoNumbers == [pv \in Paths \X (0 .. MaxVersion) |-> None]
=============================================================================
