---------------------------- MODULE PathMatcher -----------------------------
(***************************************************************************)
(* app/path_matcher.rs: a map whose keys are paths, searched for the keys  *)
(* that a path goes through.  A path is a sequence of segments; a path as  *)
(* it was written has empty segments where slashes lead, trail or double.  *)
(***************************************************************************)
EXTENDS Integers, Sequences

CONSTANT Empty   \* the empty segment

NoMatch == -1

\* Mutant: only the leading slash is dropped.
KeyFromTail(written) == SubSeq(written, 2, Len(written))

(* key_from_path: the filter over the segments.                            *)
KeyFromPath(written) ==
  LET key[n \in 0 .. Len(written)] ==
        IF n = 0 THEN <<>>
        ELSE IF written[n] = Empty THEN key[n - 1] ELSE Append(key[n - 1], written[n])
  IN  key[Len(written)]

UpTo(path, depth) == SubSeq(path, 1, depth)

\* Mutant: the search goes up from the root.
LookupFromRoot(map, path) ==
  LET from[d \in 0 .. Len(path) + 1] ==
        IF d > Len(path) THEN NoMatch
        ELSE IF UpTo(path, d) \in DOMAIN map THEN d ELSE from[d + 1]
  IN  from[0]

(* matched_index of the most specific match: the loop over search_depth.   *)
Lookup(map, path) ==
  LET from[d \in 0 .. Len(path)] ==
        IF UpTo(path, d) \in DOMAIN map THEN d
        ELSE IF d = 0 THEN NoMatch ELSE from[d - 1]
  IN  from[Len(path)]

(* match_all: the keys on the way, whose order nothing depends on.         *)
Matches(map, path) == {UpTo(path, d) : d \in 0 .. Len(path)} \cap DOMAIN map
=============================================================================
