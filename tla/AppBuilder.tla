----------------------------- MODULE AppBuilder -----------------------------
(***************************************************************************)
(* app_builder.rs, resource_builder.rs, core_handler.rs and from_builder   *)
(* of app_handler.rs: an app is built by calls of its builders and turned  *)
(* into a table of resources and the links under /.well-known/core.  A     *)
(* path is as it was written, with an empty segment for each slash too     *)
(* many.  What a handler does is external; block transfer is as well.      *)
(***************************************************************************)
EXTENDS PathMatcher, CoreLink

CONSTANTS CorePath,   \* "/.well-known/core", as written
          Obs         \* LINK_ATTR_OBSERVABLE

(* RequestTypeKey: a method that is not known has the key of match-all.    *)
Methods == {"GET", "POST", "PUT", "DELETE", "FETCH", "PATCH", "IPATCH"}
MethodKey(method) == IF method \in Methods THEN method ELSE "any"

NewResource(path) ==
  [path |-> path, listed |-> TRUE, link |-> Link(path), handlers |-> {},
   observable |-> FALSE]
ResourceNotDiscoverable(r) == [r EXCEPT !.listed = FALSE]
LinkAttr(r, key, value) == [r EXCEPT !.link = Attr(@, key, value)]
MethodHandler(r, method) == [r EXCEPT !.handlers = @ \cup {MethodKey(method)}]
DefaultHandler(r) == [r EXCEPT !.handlers = @ \cup {"any"}]
Observable(r) == LinkAttr([r EXCEPT !.observable = TRUE], Obs, Flag)

Build(r) ==
  [path |-> r.path, handlers |-> r.handlers, observable |-> r.observable,
   listed |-> r.listed, discoverable |-> Discoverable(r.link)]

NewApp == [listing |-> TRUE, resources |-> <<>>]
AppNotDiscoverable(a) == [a EXCEPT !.listing = FALSE]
AddResources(a, rs) == [a EXCEPT !.resources = @ \o rs]

\* CoreRequestHandler::new_resource_builder
CoreResource == MethodHandler(NewResource(CorePath), "GET")

(* from_builder: the resources in the order of the calls and the core      *)
(* resource, if any; its links, which a resource keeps that is replaced.   *)
FromBuilder(a) ==
  LET all == a.resources \o (IF a.listing THEN <<CoreResource>> ELSE <<>>) IN
  [resources |-> [i \in DOMAIN all |-> Build(all[i])],
   core |-> IF a.listing THEN Len(all) ELSE 0,
   links |-> {i \in DOMAIN a.resources : a.resources[i].listed}]

KeyOf(app, i) == KeyFromPath(app.resources[i].path)

(* The map by path string keeps the last resource inserted for a string.   *)
Kept(app) ==
  {i \in DOMAIN app.resources :
     \A j \in DOMAIN app.resources :
       i < j => app.resources[i].path # app.resources[j].path}

(* from_path_strings iterates over that map in any order; of the strings   *)
(* that have one key, the last one it meets stays.                         *)
Tables(app) ==
  {t \in [{KeyOf(app, i) : i \in Kept(app)} -> Kept(app)] :
     \A k \in DOMAIN t : KeyOf(app, t[k]) = k}

(* CoreRequestHandler::handle: the links that a request asks for.          *)
Listing(app, options) ==
  {i \in app.links : FilterByQuery(app.resources[i].discoverable,
                                   RequestGetQueries(options))}

(* The handler of the method, or the default handler.                      *)
Handles(app, i, method) ==
  {MethodKey(method), "any"} \cap app.resources[i].handlers # {}

PathsAreDistinct(app) ==
  \A i, j \in DOMAIN app.resources : KeyOf(app, i) = KeyOf(app, j) => i = j
=============================================================================
