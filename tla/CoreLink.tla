------------------------------ MODULE CoreLink -------------------------------
(***************************************************************************)
(* core_link.rs, the filter of core_handler.rs and the queries of          *)
(* coap_utils.rs: the links of /.well-known/core and which of them a       *)
(* request asks for.  A text is a value; a query option is the sequence of *)
(* the texts between its equals signs.                                     *)
(***************************************************************************)
EXTENDS Naturals, Sequences

CONSTANTS NoText,        \* the empty text
          NotText,       \* bytes that are not UTF-8
          FormatNumber   \* the number of a content format, in digits

Link(path) == [path |-> path, attributes |-> <<>>]
Attr(link, key, value) == [link EXCEPT !.attributes = Append(@, <<key, value>>)]

(* The four kinds of values: how each is written into the link, and its    *)
(* text for comparisons.                                                   *)
Quoted(text)   == [form |-> "quoted", text |-> text]
Number(digits) == [form |-> "number", text |-> digits]
Format(f)      == Number(FormatNumber[f])
Flag           == [form |-> "bare", text |-> NoText]

\* Mutant: the first value of a key stays.
CollectedFirst(pairs, counted) ==
  LET First(k) == CHOOSE i \in counted :
                    pairs[i][1] = k /\ \A j \in counted : j < i => pairs[j][1] # k
  IN  [k \in {pairs[i][1] : i \in counted} |-> pairs[First(k)][2]]

(* collect::<HashMap<_, _>>(), of the pairs that were not passed over: the *)
(* last value of a key stays.                                              *)
Collected(pairs, counted) ==
  LET Last(k) == CHOOSE i \in counted :
                   pairs[i][1] = k /\ \A j \in counted : i < j => pairs[j][1] # k
  IN  [k \in {pairs[i][1] : i \in counted} |-> pairs[Last(k)][2]]

(* DiscoverableResource: the link, whose string has all the attributes,    *)
(* and what queries are compared with.                                     *)
Discoverable(link) ==
  [link |-> link,
   attributes |-> Collected([n \in DOMAIN link.attributes |->
                     <<link.attributes[n][1], link.attributes[n][2].text>>],
                     DOMAIN link.attributes)]

(* OptionValueQuery: a key and what is between the first two equals signs; *)
(* without one, or if either is not UTF-8, the option is passed over.      *)
IsQuery(option) == Len(option) > 1 /\ NotText \notin {option[1], option[2]}

RequestGetQueries(options) ==
  Collected(options, {n \in DOMAIN options : IsQuery(options[n])})

\* Mutant: one of the attributes that were asked for is enough.
FilterByAnyQuery(resource, queries) ==
  DOMAIN queries = {} \/ \E k \in DOMAIN queries \cap DOMAIN resource.attributes :
                           queries[k] = resource.attributes[k]

FilterByQuery(resource, queries) ==
  \A k \in DOMAIN queries :
    k \in DOMAIN resource.attributes /\ queries[k] = resource.attributes[k]
=============================================================================
