------------------------------- MODULE MCApp --------------------------------
(* Small instances of AppHandler for TLC.                                  *)
EXTENDS AppHandler

CONSTANTS e1, e2, p1, p2, a, b, wellKnown, core, rt, ct, x, y, json, fifty

Core == <<Empty, wellKnown, core>>
Formats == [f \in {json} |-> fifty]

(* An observable resource and one below it, the latter written with a      *)
(* slash too many and with an attribute that was set twice.                *)
Nested ==
  AddResources(NewApp,
    <<Observable(LinkAttr(LinkAttr(MethodHandler(NewResource(<<Empty, a>>), "GET"),
                                   rt, Quoted(x)), ct, Format(json))),
      LinkAttr(LinkAttr(DefaultHandler(NewResource(<<Empty, a, Empty, b>>)),
                        rt, Quoted(y)), rt, Quoted(x))>>)

(* Two strings of one path, next to a resource at the root.                *)
Rooted ==
  AddResources(NewApp,
    <<MethodHandler(NewResource(<<Empty, a>>), "PUT"),
      ResourceNotDiscoverable(MethodHandler(NewResource(<<Empty, a, Empty>>), "GET")),
      Observable(MethodHandler(NewResource(<<Empty, Empty>>), "GET"))>>)

\* No discovery: /.well-known/core is a path like any other one.
Unlisted ==
  AppNotDiscoverable(AddResources(NewApp,
    <<MethodHandler(NewResource(<<Empty, wellKnown>>), "unknown")>>))

AppsOfRun == [nested |-> Nested, rooted |-> Rooted, unlisted |-> Unlisted]

Request(type, method, path, observe, query) ==
  [class |-> "Request", type |-> type, method |-> method, path |-> path,
   observe |-> observe, query |-> query]
Other(class, type) ==
  [class |-> class, type |-> type, method |-> "none", path |-> <<>>,
   observe |-> "none", query |-> <<>>]

\* Of the options in the last query only the second and the third one count.
PacketsOfRun ==
  {Request("Con", "GET", <<a>>, "register", <<>>),
   Request("Non", "GET", <<a, b>>, "register", <<>>),
   Request("Con", "PUT", <<b, NotText>>, "none", <<>>),
   Request("Con", "GET", <<a>>, "invalid", <<>>),
   Request("Reset", "GET", <<wellKnown, core>>, "none", <<>>),
   Request("Con", "GET", <<wellKnown, core>>, "none",
           <<<<rt, y>>, <<rt, x, y>>, <<ct, fifty>>, <<ct>>, <<rt, NotText>>>>),
   Request("Con", "GET", <<wellKnown, core>>, "none", <<>>),
   Other("Empty", "Con"), Other("Empty", "Non"), Other("Response", "Con")}

\* The first exchange may notify twice, the second one once.
NotifyOfRun == [e \in Exchanges |-> IF e = e1 THEN 2 ELSE 1]
=============================================================================
