----------------------------- MODULE MCObserve ------------------------------
(* Small instances of Observe for TLC: a resource at "/counter".           *)
EXTENDS Observe, TLC

CONSTANTS counter, sub

ResourcePath == <<Slash, counter>>

OnePath == {<<counter>>}

\* Two paths with relative keys of their own, one below the other.
OneBelow == {<<counter>>, <<counter, sub>>}

\* Two paths whose relative keys are the same, <<counter>>.
SameKey == {<<counter>>, <<counter, counter>>}

NoNumbers == [pv \in Paths \X (0 .. MaxVersion) |-> None]

\* Below the resource the handler numbers its messages itself, by version.
SomeNumbers ==
  [pv \in Paths \X (0 .. MaxVersion) |->
     IF Len(pv[1]) = 1 THEN None ELSE (NumSpace - 2 + pv[2]) % NumSpace]

Symmetry == Permutations(Requests) \cup Permutations(Clients)
              \cup Permutations(Notifiers)
=============================================================================
