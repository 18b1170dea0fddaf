------------------------------ MODULE AppProofs ------------------------------
(***************************************************************************)
(* Proofs about AppHandler, for any apps, packets, exchanges and peers.    *)
(***************************************************************************)
EXTENDS AppHandler, FiniteSetTheorems, SequenceTheorems, WellFoundedInduction, TLAPS

-----------------------------------------------------------------------------
(* Paths.  What a recursive function computes is shown by the least number *)
(* for which it does not.                                                  *)

LEMMA LeastNumber ==
  ASSUME NEW T \in SUBSET Nat, T # {}
  PROVE  \E x \in T : \A y \in T : x <= y
<1>1. IsWellFoundedOn(OpToRel(<, Nat), Nat)
  BY NatLessThanWellFounded
<1>2. PICK x \in T : \A y \in T : <<y, x>> \notin OpToRel(<, Nat)
  BY <1>1, WFMin
<1>3. \A y \in T : ~(y < x)
  BY <1>2 DEF OpToRel
<1> QED
  BY <1>3

LEMMA GreatestNumber ==
  ASSUME NEW n \in Nat, NEW T \in SUBSET (1 .. n), T # {}
  PROVE  \E x \in T : \A y \in T : y <= x
<1> DEFINE U == {n - x : x \in T}
<1>1. U \in SUBSET Nat /\ U # {}
  <2>1. \A x \in T : n - x \in Nat
    OBVIOUS
  <2> QED
    BY <2>1
<1>2. PICK u \in U : \A v \in U : u <= v
  BY <1>1, LeastNumber
<1>3. PICK x \in T : u = n - x
  OBVIOUS
<1>4. \A y \in T : n - x <= n - y
  BY <1>2, <1>3
<1> QED
  BY <1>4

(* g is the search for a path, from each depth up to n.                    *)
Search(map, path, n, g) ==
  g = [d \in 0 .. n |-> IF UpTo(path, d) \in DOMAIN map THEN d
                        ELSE IF d = 0 THEN NoMatch ELSE g[d - 1]]

LEMMA SearchExists ==
  ASSUME NEW map, NEW path, NEW n \in Nat
  PROVE  \E g : Search(map, path, n, g)
<1> DEFINE T == {m \in Nat : ~ \E g : Search(map, path, m, g)}
<1> SUFFICES ASSUME T # {} PROVE FALSE
  OBVIOUS
<1>1. PICK m \in T : \A y \in T : m <= y
  BY LeastNumber
<1>2. CASE m = 0
  <2> DEFINE g == [d \in 0 .. 0 |-> IF UpTo(path, 0) \in DOMAIN map THEN 0 ELSE NoMatch]
  <2>1. Search(map, path, 0, g)
    BY DEF Search
  <2> QED
    BY <2>1, <1>2
<1>3. CASE m # 0
  <2>1. m - 1 \in Nat /\ m - 1 \notin T
    BY <1>1, <1>3
  <2>2. PICK g : Search(map, path, m - 1, g)
    BY <2>1
  <2> DEFINE h == [d \in 0 .. m |->
                     IF d < m THEN g[d]
                     ELSE IF UpTo(path, m) \in DOMAIN map THEN m ELSE g[m - 1]]
  <2>3. \A d \in 0 .. m : h[d] = IF UpTo(path, d) \in DOMAIN map THEN d
                                 ELSE IF d = 0 THEN NoMatch ELSE h[d - 1]
    BY <2>2, <1>1, <1>3 DEF Search
  <2>4. Search(map, path, m, h)
    BY <2>3 DEF Search
  <2> QED
    BY <2>4
<1> QED
  BY <1>2, <1>3

LEMMA LookupIsSearch ==
  ASSUME NEW map, NEW path, Len(path) \in Nat
  PROVE  \E g : Search(map, path, Len(path), g) /\ Lookup(map, path) = g[Len(path)]
<1>1. PICK g : Search(map, path, Len(path), g)
  BY SearchExists
<1> DEFINE f == CHOOSE h : h = [d \in 0 .. Len(path) |->
                                  IF UpTo(path, d) \in DOMAIN map THEN d
                                  ELSE IF d = 0 THEN NoMatch ELSE h[d - 1]]
<1>2. Search(map, path, Len(path), f)
  BY <1>1, Zenon DEF Search
<1>3. Lookup(map, path) = f[Len(path)]
  BY Zenon DEF Lookup
<1> QED
  BY <1>2, <1>3

(* l is the depth of the longest key on the way of a path, down from n.    *)
Longest(map, path, n, l) ==
  \/ l = NoMatch /\ \A d \in 0 .. n : UpTo(path, d) \notin DOMAIN map
  \/ /\ l \in 0 .. n /\ UpTo(path, l) \in DOMAIN map
     /\ \A d \in 0 .. n : UpTo(path, d) \in DOMAIN map => d <= l

(* PathMatcher::lookup finds the most specific match of any path, and one  *)
(* if there is any.                                                        *)
THEOREM LookupIsLongest ==
  ASSUME NEW map, NEW path, Len(path) \in Nat
  PROVE  Longest(map, path, Len(path), Lookup(map, path))
<1>1. PICK g : Search(map, path, Len(path), g) /\ Lookup(map, path) = g[Len(path)]
  BY LookupIsSearch
<1> DEFINE T == {m \in 0 .. Len(path) : ~Longest(map, path, m, g[m])}
<1>2. SUFFICES ASSUME T # {} PROVE FALSE
  BY <1>1
<1>3. PICK m \in T : \A y \in T : m <= y
  <2>1. T \in SUBSET Nat
    OBVIOUS
  <2> QED
    BY <1>2, <2>1, LeastNumber
<1>4. g[m] = IF UpTo(path, m) \in DOMAIN map THEN m ELSE IF m = 0 THEN NoMatch ELSE g[m - 1]
  BY <1>1 DEF Search
<1>5. CASE UpTo(path, m) \in DOMAIN map
  BY <1>4, <1>5 DEF Longest
<1>6. CASE UpTo(path, m) \notin DOMAIN map /\ m = 0
  BY <1>4, <1>6 DEF Longest
<1>7. CASE UpTo(path, m) \notin DOMAIN map /\ m # 0
  <2>1. m - 1 \in 0 .. Len(path) /\ m - 1 \notin T
    BY <1>3, <1>7
  <2>2. Longest(map, path, m - 1, g[m])
    BY <1>4, <1>7, <2>1
  <2>3. Longest(map, path, m, g[m])
    <3>1. \A d \in 0 .. m : d \in 0 .. m - 1 \/ d = m
      OBVIOUS
    <3> QED
      BY <1>7, <2>2, <3>1 DEF Longest
  <2> QED
    BY <2>3
<1> QED
  BY <1>5, <1>6, <1>7

(* The segments that have a name, one position after the other.            *)
LEMMA NamesGrow ==
  ASSUME NEW w, NEW n \in Nat
  PROVE  /\ Names(w, 0) = {}
         /\ IsFiniteSet(Names(w, n)) /\ Cardinality(Names(w, n)) \in 0 .. n
         /\ w[n + 1] = Empty => Names(w, n + 1) = Names(w, n)
         /\ w[n + 1] # Empty =>
              /\ Names(w, n + 1) = Names(w, n) \cup {n + 1}
              /\ Cardinality(Names(w, n + 1)) = Cardinality(Names(w, n)) + 1
<1>1. Names(w, n) \subseteq 1 .. n /\ Names(w, 0) = {}
  BY DEF Names
<1>2. IsFiniteSet(1 .. n) /\ Cardinality(1 .. n) = n
  BY FS_Interval
<1>3. IsFiniteSet(Names(w, n)) /\ Cardinality(Names(w, n)) \in 0 .. n
  <2>1. IsFiniteSet(Names(w, n)) /\ Cardinality(Names(w, n)) <= n
    BY <1>1, <1>2, FS_Subset
  <2> QED
    BY <2>1, FS_CardinalityType
<1>4. w[n + 1] = Empty => Names(w, n + 1) = Names(w, n)
  BY DEF Names
<1>5. w[n + 1] # Empty => Names(w, n + 1) = Names(w, n) \cup {n + 1}
  BY DEF Names
<1>6. n + 1 \notin Names(w, n)
  BY <1>1
<1> QED
  BY <1>1, <1>3, <1>4, <1>5, <1>6, FS_AddElement

(* g is the filter of key_from_path, over each prefix up to n.             *)
Filter(w, n, g) ==
  g = [d \in 0 .. n |->
         IF d = 0 THEN <<>>
         ELSE IF w[d] = Empty THEN g[d - 1] ELSE Append(g[d - 1], w[d])]

LEMMA FilterExists ==
  ASSUME NEW w, NEW n \in Nat
  PROVE  \E g : Filter(w, n, g)
<1> DEFINE T == {m \in Nat : ~ \E g : Filter(w, m, g)}
<1> SUFFICES ASSUME T # {} PROVE FALSE
  OBVIOUS
<1>1. PICK m \in T : \A y \in T : m <= y
  BY LeastNumber
<1>2. CASE m = 0
  <2> DEFINE g == [d \in 0 .. 0 |-> <<>>]
  <2>1. Filter(w, 0, g)
    BY DEF Filter
  <2> QED
    BY <2>1, <1>2
<1>3. CASE m # 0
  <2>1. m - 1 \in Nat /\ m - 1 \notin T
    BY <1>1, <1>3
  <2>2. PICK g : Filter(w, m - 1, g)
    BY <2>1
  <2> DEFINE last == IF w[m] = Empty THEN g[m - 1] ELSE Append(g[m - 1], w[m])
             h == [d \in 0 .. m |-> IF d < m THEN g[d] ELSE last]
  <2>3. \A d \in 0 .. m - 1 :
          g[d] = IF d = 0 THEN <<>>
                 ELSE IF w[d] = Empty THEN g[d - 1] ELSE Append(g[d - 1], w[d])
    BY <2>2 DEF Filter
  <2> HIDE DEF last
  <2>4. h[m] = last /\ \A d \in 0 .. m - 1 : h[d] = g[d]
    BY <1>3
  <2> HIDE DEF h
  <2>5. \A d \in 0 .. m : h[d] = IF d = 0 THEN <<>>
                                 ELSE IF w[d] = Empty THEN h[d - 1] ELSE Append(h[d - 1], w[d])
    <3>1. ASSUME NEW d \in 0 .. m - 1
          PROVE  h[d] = IF d = 0 THEN <<>>
                        ELSE IF w[d] = Empty THEN h[d - 1] ELSE Append(h[d - 1], w[d])
      <4>1. d # 0 => d - 1 \in 0 .. m - 1
        BY <1>3
      <4> QED
        BY <2>3, <2>4, <4>1
    <3>2. h[m] = IF w[m] = Empty THEN h[m - 1] ELSE Append(h[m - 1], w[m])
      BY <2>4, <1>3 DEF last
    <3> QED
      BY <1>3, <3>1, <3>2
  <2>6. Filter(w, m, h)
    BY <2>5 DEF Filter, h
  <2> QED
    BY <2>6
<1> QED
  BY <1>2, <1>3

LEMMA KeyIsFilter ==
  ASSUME NEW w, Len(w) \in Nat
  PROVE  \E g : Filter(w, Len(w), g) /\ KeyFromPath(w) = g[Len(w)]
<1>1. PICK g : Filter(w, Len(w), g)
  BY FilterExists
<1> DEFINE f == CHOOSE h : h = [d \in 0 .. Len(w) |->
                                  IF d = 0 THEN <<>>
                                  ELSE IF w[d] = Empty THEN h[d - 1] ELSE Append(h[d - 1], w[d])]
<1>2. Filter(w, Len(w), f)
  BY <1>1, Zenon DEF Filter
<1>3. KeyFromPath(w) = f[Len(w)]
  BY Zenon DEF KeyFromPath
<1> QED
  BY <1>2, <1>3

(* key has the names of w among the first n, in their order.               *)
InOrder(w, n, key) ==
  /\ key \in Seq({w[i] : i \in Names(w, n)})
  /\ Len(key) = Cardinality(Names(w, n))
  /\ \A i \in Names(w, n) : key[Cardinality(Names(w, i))] = w[i]
  /\ \A k \in 1 .. Len(key) : \E i \in Names(w, n) : Cardinality(Names(w, i)) = k

LEMMA FilterKeepsOrder ==
  ASSUME NEW w, NEW n \in Nat, NEW g, Filter(w, n, g)
  PROVE  InOrder(w, n, g[n])
<1> DEFINE T == {m \in 0 .. n : ~InOrder(w, m, g[m])}
<1> SUFFICES ASSUME T # {} PROVE FALSE
  OBVIOUS
<1>1. PICK m \in T : \A y \in T : m <= y
  <2>1. T \in SUBSET Nat
    OBVIOUS
  <2> QED
    BY <2>1, LeastNumber
<1>2. g[m] = IF m = 0 THEN <<>>
             ELSE IF w[m] = Empty THEN g[m - 1] ELSE Append(g[m - 1], w[m])
  BY DEF Filter
<1>3. CASE m = 0
  <2>1. g[m] = <<>> /\ Names(w, m) = {} /\ Cardinality({}) = 0
    BY <1>2, <1>3, NamesGrow, FS_EmptySet
  <2>2. <<>> \in Seq({w[i] : i \in {}}) /\ Len(<<>>) = 0
    OBVIOUS
  <2>3. InOrder(w, m, <<>>)
    BY <2>1, <2>2 DEF InOrder
  <2> QED
    BY <2>1, <2>3
<1>4. CASE m # 0
  <2>1. m - 1 \in 0 .. n /\ m - 1 \in Nat /\ m - 1 \notin T /\ (m - 1) + 1 = m
    BY <1>1, <1>4
  <2> DEFINE key == g[m - 1]
  <2>2. InOrder(w, m - 1, key)
    BY <2>1
  <2>3. CASE w[m] = Empty
    <3>1. Names(w, m) = Names(w, m - 1) /\ g[m] = key
      BY <1>2, <1>4, <2>1, <2>3, NamesGrow
    <3>2. InOrder(w, m, g[m])
      BY <2>2, <3>1 DEF InOrder
    <3> QED
      BY <3>2
  <2>4. CASE w[m] # Empty
    <3> DEFINE c == Cardinality(Names(w, m - 1))
               V == {w[i] : i \in Names(w, m)}
    <3>1. /\ Names(w, m) = Names(w, m - 1) \cup {m}
          /\ c \in Nat /\ Cardinality(Names(w, m)) = c + 1
          /\ g[m] = Append(key, w[m])
      <4>1. /\ (m - 1) + 1 = m
            /\ Cardinality(Names(w, m - 1)) \in 0 .. m - 1
            /\ w[(m - 1) + 1] # Empty =>
                /\ Names(w, (m - 1) + 1) = Names(w, m - 1) \cup {(m - 1) + 1}
                /\ Cardinality(Names(w, (m - 1) + 1)) = Cardinality(Names(w, m - 1)) + 1
        BY <2>1, NamesGrow
      <4> QED
        BY <1>2, <1>4, <2>4, <4>1
    <3>2. key \in Seq({w[i] : i \in Names(w, m - 1)}) /\ Len(key) = c
      BY <2>2 DEF InOrder
    <3>3. key \in Seq(V) /\ w[m] \in V
      BY <3>1, <3>2
    <3> HIDE DEF c, V, key
    <3>4. /\ g[m] \in Seq(V) /\ Len(g[m]) = c + 1 /\ g[m][c + 1] = w[m]
          /\ \A i \in 1 .. c : g[m][i] = key[i]
      BY <3>1, <3>2, <3>3, AppendProperties
    <3>5. ASSUME NEW i \in Names(w, m) PROVE g[m][Cardinality(Names(w, i))] = w[i]
      <4>1. CASE i = m
        BY <3>1, <3>4, <4>1
      <4>2. CASE i \in Names(w, m - 1)
        <5>1. key[Cardinality(Names(w, i))] = w[i]
          BY <2>2, <4>2 DEF InOrder
        <5>2. Cardinality(Names(w, i)) \in 1 .. c
          <6>1. i \in 1 .. m - 1 /\ i \in Names(w, i)
            BY <4>2 DEF Names
          <6>2. Names(w, i) \subseteq Names(w, m - 1)
            BY <6>1, <2>1 DEF Names
          <6>3. IsFiniteSet(Names(w, m - 1)) /\ IsFiniteSet(Names(w, i))
            BY <2>1, <6>1, NamesGrow
          <6>4. Cardinality(Names(w, i)) <= c
            BY <6>2, <6>3, FS_Subset DEF c
          <6>5. Cardinality(Names(w, i)) # 0 /\ Cardinality(Names(w, i)) \in Nat
            BY <6>1, <6>3, FS_EmptySet, FS_CardinalityType
          <6> QED
            BY <3>1, <6>4, <6>5
        <5> QED
          BY <3>4, <5>1, <5>2
      <4> QED
        BY <3>1, <4>1, <4>2
    <3>6. ASSUME NEW k \in 1 .. c + 1
          PROVE  \E i \in Names(w, m) : Cardinality(Names(w, i)) = k
      <4>1. CASE k = c + 1
        BY <3>1, <4>1
      <4>2. CASE k # c + 1
        <5>1. k \in 1 .. Len(key)
          BY <3>1, <3>2, <4>2
        <5> QED
          BY <2>2, <3>1, <5>1 DEF InOrder
      <4> QED
        BY <4>1, <4>2
    <3> QED
      BY <3>1, <3>4, <3>5, <3>6 DEF InOrder, V
  <2> QED
    BY <2>3, <2>4
<1> QED
  BY <1>3, <1>4

(* key_from_path keeps the segments of any path that have a name, in their *)
(* order, wherever slashes lead, trail or double.                          *)
THEOREM KeyIsSegments ==
  ASSUME NEW w, Len(w) \in Nat
  PROVE  /\ KeyFromPath(w) = Segments(w)
         /\ KeyFromPath(w) \in Seq({w[i] : i \in 1 .. Len(w)} \ {Empty})
<1> DEFINE n == Len(w)
           N == Names(w, n)
           key == KeyFromPath(w)
<1>1. InOrder(w, n, key)
  BY KeyIsFilter, FilterKeepsOrder
<1>2. key \in Seq({w[i] : i \in N}) /\ Len(key) = Cardinality(N)
  BY <1>1 DEF InOrder
<1>3. {w[i] : i \in N} \subseteq {w[i] : i \in 1 .. Len(w)} \ {Empty}
  BY DEF Names
<1>4. key \in Seq({w[i] : i \in 1 .. Len(w)} \ {Empty})
  <2> HIDE DEF key
  <2>1. \A S, T : S \subseteq T => Seq(S) \subseteq Seq(T)
    OBVIOUS
  <2> QED
    BY <1>2, <1>3, <2>1
<1>5. Cardinality(N) \in Nat
  BY <1>2
<1>6. ASSUME NEW k \in 1 .. Cardinality(N)
      PROVE  key[k] = Segments(w)[k]
  <2> DEFINE i == CHOOSE j \in N : Cardinality(Names(w, j)) = k
  <2>1. \E j \in N : Cardinality(Names(w, j)) = k
    BY <1>1, <1>2 DEF InOrder
  <2>2. i \in N /\ Cardinality(Names(w, i)) = k
    BY <2>1
  <2>3. key[k] = w[i]
    BY <1>1, <2>2 DEF InOrder
  <2>4. Segments(w)[k] = w[i]
    BY DEF Segments
  <2> QED
    BY <2>3, <2>4
<1>7. key = [k \in 1 .. Cardinality(N) |-> key[k]]
  BY <1>2, <1>5
<1>8. Segments(w) = [k \in 1 .. Cardinality(N) |-> Segments(w)[k]]
  BY DEF Segments
<1> QED
  BY <1>4, <1>6, <1>7, <1>8

-----------------------------------------------------------------------------
(* The table and the links of an app.                                      *)

(* The core resource comes after those of the application.                 *)
LEMMA AppShape ==
  ASSUME app \in DOMAIN Apps
  PROVE  /\ \E n \in Nat : DOMAIN App.resources = 1 .. n
         /\ \A i \in DOMAIN App.resources : Len(App.resources[i].path) \in Nat
         /\ \A i \in App.links :
              /\ i \in DOMAIN App.resources
              /\ App.resources[i].discoverable = Discoverable(Apps[app].resources[i].link)
              /\ IsSequence(Apps[app].resources[i].link.attributes)
<1> DEFINE b == Apps[app]
           own == b.resources
           rest == IF b.listing THEN <<CoreResource>> ELSE <<>>
           all == own \o rest
           E == Elements(own) \cup {CoreResource}
<1>1. own \in Seq(E) /\ rest \in Seq(E)
  <2>1. own \in Seq(Elements(own))
    BY AppAssumption DEF IsSequence
  <2> HIDE DEF own
  <2>2. own \in Seq(E)
    BY <2>1
  <2>3. <<>> \in Seq(E) /\ <<CoreResource>> \in Seq(E)
    OBVIOUS
  <2>4. rest \in Seq(E)
    BY <2>3
  <2> QED
    BY <2>2, <2>4
<1>2. CoreResource.path = CorePath
  BY DEF CoreResource, MethodHandler, NewResource
<1>3. /\ App.resources = [i \in DOMAIN all |-> Build(all[i])]
      /\ App.links = {i \in DOMAIN own : own[i].listed}
  BY DEF App, Built, FromBuilder
<1> HIDE DEF rest
<1>4. /\ all \in Seq(E) /\ Len(all) = Len(own) + Len(rest)
      /\ \A i \in 1 .. Len(own) : all[i] = own[i]
  BY <1>1, ConcatProperties
<1>5. /\ Len(own) \in Nat /\ Len(rest) \in Nat
      /\ DOMAIN own = 1 .. Len(own) /\ DOMAIN all = 1 .. Len(all)
  BY <1>1, <1>4
<1> HIDE DEF all
<1>6. \A i \in DOMAIN all : all[i] \in E
  BY <1>4
<1>7. \A r \in E : Len(r.path) \in Nat
  <2>1. \A s : IsSequence(s) => Len(s) \in Nat
    BY DEF IsSequence
  <2>2. \A r \in Elements(own) : IsSequence(r.path)
    BY AppAssumption DEF Elements
  <2>3. IsSequence(CorePath)
    BY AppAssumption
  <2> QED
    BY <1>2, <2>1, <2>2, <2>3
<1>8. \A i \in DOMAIN all :
        /\ App.resources[i].path = all[i].path
        /\ App.resources[i].discoverable = Discoverable(all[i].link)
  BY <1>3 DEF Build
<1>9. \A i \in DOMAIN own : i \in DOMAIN all /\ all[i] = own[i]
  BY <1>4, <1>5
<1>10. \A i \in DOMAIN own : IsSequence(own[i].link.attributes)
  BY AppAssumption
<1>11. DOMAIN App.resources = DOMAIN all
  BY <1>3
<1>12. \E n \in Nat : DOMAIN App.resources = 1 .. n
  BY <1>4, <1>5, <1>11
<1>13. \A i \in DOMAIN App.resources : Len(App.resources[i].path) \in Nat
  BY <1>6, <1>7, <1>8, <1>11
<1> QED
  BY <1>3, <1>8, <1>9, <1>10, <1>11, <1>12, <1>13

(* Whatever the order in which the paths were met, each one has an entry,  *)
(* of a resource with that path.                                           *)
LEMMA TableIsWhole ==
  ASSUME app \in DOMAIN Apps, NEW t \in Tables(App)
  PROVE  /\ DOMAIN t = Keys
         /\ \A k \in Keys : t[k] \in DOMAIN App.resources /\ KeyOf(App, t[k]) = k
<1>1. PICK n \in Nat : DOMAIN App.resources = 1 .. n
  BY AppShape
<1>2. ASSUME NEW i \in DOMAIN App.resources
      PROVE  \E j \in Kept(App) : KeyOf(App, j) = KeyOf(App, i)
  <2> DEFINE T == {j \in 1 .. n : App.resources[j].path = App.resources[i].path}
  <2>1. T # {}
    BY <1>1
  <2>2. PICK j \in T : \A x \in T : x <= j
    BY <2>1, GreatestNumber
  <2>3. j \in Kept(App)
    BY <1>1, <2>2 DEF Kept
  <2>4. KeyOf(App, j) = KeyOf(App, i)
    BY DEF KeyOf
  <2> QED
    BY <2>3, <2>4
<1>3. Kept(App) \subseteq DOMAIN App.resources
  BY DEF Kept
<1>4. /\ DOMAIN t = {KeyOf(App, i) : i \in Kept(App)}
      /\ \A k \in DOMAIN t : t[k] \in Kept(App) /\ KeyOf(App, t[k]) = k
  BY DEF Tables
<1>5. DOMAIN t = Keys
  BY <1>2, <1>3, <1>4 DEF Keys
<1> QED
  BY <1>3, <1>4, <1>5

(* A map that pairs are collected into has the last value of each key.     *)
IsLast(pairs, counted, i) ==
  i \in counted /\ \A j \in counted : i < j => pairs[j][1] # pairs[i][1]

LEMMA CollectedLast ==
  ASSUME NEW pairs, NEW n \in Nat, NEW counted \in SUBSET (1 .. n)
  PROVE  /\ \A i \in counted : pairs[i][1] \in DOMAIN Collected(pairs, counted)
         /\ \A i \in counted :
              IsLast(pairs, counted, i) =>
                Collected(pairs, counted)[pairs[i][1]] = pairs[i][2]
         /\ \A k \in DOMAIN Collected(pairs, counted) :
              \E i \in counted : pairs[i][1] = k /\ IsLast(pairs, counted, i)
<1> DEFINE Last(k, i) == pairs[i][1] = k /\ \A j \in counted : i < j => pairs[j][1] # k
           last(k) == CHOOSE i \in counted : Last(k, i)
           keys == {pairs[i][1] : i \in counted}
<1>1. Collected(pairs, counted) = [k \in keys |-> pairs[last(k)][2]]
  BY DEF Collected
<1>2. ASSUME NEW k \in keys PROVE \E i \in counted : Last(k, i)
  <2> DEFINE T == {i \in counted : pairs[i][1] = k}
  <2>1. T # {} /\ T \in SUBSET (1 .. n)
    OBVIOUS
  <2>2. PICK i \in T : \A x \in T : x <= i
    BY <2>1, GreatestNumber
  <2> QED
    BY <2>2
<1>3. ASSUME NEW k \in keys PROVE last(k) \in counted /\ Last(k, last(k))
  BY <1>2
<1>4. ASSUME NEW i \in counted, Last(pairs[i][1], i) PROVE last(pairs[i][1]) = i
  <2>1. pairs[i][1] \in keys
    OBVIOUS
  <2>2. last(pairs[i][1]) \in counted /\ Last(pairs[i][1], last(pairs[i][1]))
    BY <1>3, <2>1
  <2>3. \A l \in counted : Last(pairs[i][1], l) => ~(i < l) /\ ~(l < i)
    BY <1>4
  <2>4. \A l \in counted : ~(i < l) /\ ~(l < i) => l = i
    OBVIOUS
  <2> QED
    BY <2>2, <2>3, <2>4
<1> HIDE DEF last
<1>5. \A k : k \in DOMAIN Collected(pairs, counted) <=> k \in keys
  BY <1>1
<1>6. \A k \in keys : Collected(pairs, counted)[k] = pairs[last(k)][2]
  BY <1>1
<1>7. \A k, i : Last(k, i) /\ i \in counted <=> pairs[i][1] = k /\ IsLast(pairs, counted, i)
  BY DEF IsLast
<1>8. ASSUME NEW i \in counted, IsLast(pairs, counted, i)
      PROVE  Collected(pairs, counted)[pairs[i][1]] = pairs[i][2]
  <2>1. Last(pairs[i][1], i)
    BY <1>8 DEF IsLast
  <2>2. last(pairs[i][1]) = i
    BY <1>4, <2>1
  <2>3. pairs[i][1] \in keys
    OBVIOUS
  <2> HIDE DEF keys, Last
  <2> QED
    BY <1>6, <2>2, <2>3
<1>9. \A k \in keys : \E i \in counted : pairs[i][1] = k /\ IsLast(pairs, counted, i)
  BY <1>3, <1>7
<1>10. \A k \in DOMAIN Collected(pairs, counted) :
         \E i \in counted : pairs[i][1] = k /\ IsLast(pairs, counted, i)
  BY <1>5, <1>9
<1> QED
  BY <1>5, <1>8, <1>10

-----------------------------------------------------------------------------
(* The manager that the exchanges share.                                   *)

(* The theorems about the manager, for the one that the exchanges share.   *)
RP == INSTANCE RetransmissionProofs
        WITH Sends <- Notifications,
             Streams <- {{e} \X (1 .. MaxNotify[e]) : e \in Exchanges},
             closed <- {s \in Notifications : s[1] \in gone}

(* A notification is one of an exchange.                                   *)
LEMMA NotificationsType ==
  \A s : s \in Notifications <=>
    \E e \in Exchanges : \E n \in 1 .. MaxNotify[e] : s = <<e, n>>
<1> SUFFICES ASSUME NEW s
             PROVE  s \in Notifications <=>
                      \E e \in Exchanges : \E n \in 1 .. MaxNotify[e] : s = <<e, n>>
  OBVIOUS
<1>1. s \in Notifications <=> \E e \in Exchanges : s \in {e} \X (1 .. MaxNotify[e])
  BY DEF Notifications
<1> QED
  BY <1>1

(* Its assumptions hold.                                                   *)
LEMMA ManagerAssumption == RP!RetransmissionAssumption
<1>1. {{e} \X (1 .. MaxNotify[e]) : e \in Exchanges} \subseteq SUBSET Notifications
  BY DEF Notifications
<1>2. None \notin Notifications
  BY NotificationsType, AppAssumption
<1> QED
  BY <1>1, <1>2, AppAssumption DEF RP!RetransmissionAssumption

LEMMA SameInit == R!Init <=> RP!Init
BY DEF R!Init, RP!Init, R!Mids, RP!Mids, R!Keys, RP!Keys, R!Unused, RP!Unused

LEMMA SameTypes == R!TypeOK <=> RP!TypeOK
BY DEF R!TypeOK, RP!TypeOK, R!Mids, RP!Mids, R!Keys, RP!Keys, R!Limit, RP!Limit,
       R!Events, RP!Events, R!Replies, RP!Replies, R!Results, RP!Results, R!Failures,
       RP!Failures

LEMMA SameSend == \A s, p : R!Send(s, p) <=> RP!Send(s, p)
BY DEF R!Send, RP!Send, R!NextMid, RP!NextMid, R!Displace, RP!Displace, R!Live, RP!Live

LEMMA SameReply == \A s, t : R!HandleReply(s, t) <=> RP!HandleReply(s, t)
BY DEF R!HandleReply, RP!HandleReply, R!Key, RP!Key, R!Live, RP!Live

LEMMA SameFuture ==
  \A s : /\ R!Start(s) <=> RP!Start(s)
         /\ R!Timeout(s) <=> RP!Timeout(s)
         /\ R!Wake(s) <=> RP!Wake(s)
BY DEF R!Start, RP!Start, R!Timeout, RP!Timeout, R!Wake, RP!Wake, R!Transmit, RP!Transmit,
       R!Finish, RP!Finish, R!ResultOf, RP!ResultOf, R!Limit, RP!Limit

LEMMA SameNext == R!Next <=> RP!Next
BY SameSend, SameReply, SameFuture
   DEF R!Next, RP!Next, R!Replies, RP!Replies, R!CloseStream, RP!CloseStream

(* A second message follows the first one.                                 *)
LEMMA AppendSecond ==
  ASSUME NEW x, NEW m
  PROVE  Append(<<x>>, m) = <<x, m>> 
<1> DEFINE T == {x, m}
           s == Append(<<x>>, m)
           t == <<x, m>>
<1>1. <<x>> \in Seq(T) /\ m \in T
  OBVIOUS
<1>2. s \in Seq(T) /\ Len(s) = 2 /\ s[1] = x /\ s[2] = m
  BY <1>1, AppendProperties
<1>3. t \in Seq(T) /\ Len(t) = 2 /\ t[1] = x /\ t[2] = m
  OBVIOUS
<1> HIDE DEF s, t, T
<1>4. \A i \in 1 .. Len(s) : s[i] = t[i]
  BY <1>2, <1>3
<1>5. s = t
  BY <1>2, <1>3, <1>4, SeqEqual
<1> QED
  BY <1>5 DEF s, t

-----------------------------------------------------------------------------
(* What an exchange is told, and when.                                     *)

(* The request has a resource and a handler.                               *)
Routed(e) ==
  /\ packet[e].class = "Request" /\ IsText(packet[e].path)
  /\ Matched(e) # NoMatch
  /\ Handles(App, Resource(e), packet[e].method)

(* It registers an observer.                                               *)
Observes(e) == Routed(e) /\ HasResponse(e) /\ ~Misregisters(e) /\ Registers(e)

(* The messages that a packet may be answered with, before a notification. *)
Answer(e, m) ==
  \/ packet[e].class = "Empty" /\ m = [type |-> "Reset", code |-> "Empty"]
  \/ /\ packet[e].class = "Request" /\ ~IsText(packet[e].path)
     /\ m = Failure(e, "BadRequest")
  \/ /\ packet[e].class = "Request" /\ IsText(packet[e].path)
     /\ \/ Matched(e) = NoMatch /\ m = Failure(e, "NotFound")
        \/ Matched(e) # NoMatch /\ m = Failure(e, "MethodNotAllowed")
  \/ /\ Routed(e)
     /\ \/ m = Response(e)
        \/ \E c \in ErrorCodes \cup {"BadRequest"} : m = Failure(e, c)

(* The packet of a task is one that arrived, from a peer.                  *)
Given ==
  \A e \in Exchanges : task[e] # "none" => packet[e] \in Packets /\ from[e] \in Peers

(* What was sent, by where the task is.                                    *)
Told ==
  \A e \in Exchanges :
    /\ task[e] \in {"none", "spawned", "handling"} => out[e] = <<>>
    /\ task[e] = "handling" => Routed(e)
    /\ task[e] \in {"parked", "sending"} => Observes(e) /\ out[e] = <<Response(e)>>
    /\ task[e] \in {"done", "ignored", "panicked"} =>
         \/ out[e] = <<>>
         \/ \E m : Answer(e, m) /\ out[e] = <<m>>
         \/ /\ task[e] = "done" /\ Observes(e)
            /\ \E c \in ErrorCodes : out[e] = <<Response(e), Failure(e, c)>>

Types ==
  /\ app \in DOMAIN Apps
  /\ table \in Tables(App)
  /\ packet \in [Exchanges -> Packets \cup {None}]
  /\ from \in [Exchanges -> Peers \cup {None}]
  /\ task \in [Exchanges -> Tasks]
  /\ out = [e \in Exchanges |-> out[e]]
  /\ gone \in SUBSET Exchanges

ControlInv == Types /\ Given /\ Told

LEMMA InitControl == Init => ControlInv
BY DEF Init, ControlInv, Types, Given, Told, Tasks

(* What is said of an exchange stays, unless it gets its packet.           *)
LEMMA Framed ==
  ASSUME UNCHANGED <<app, table>>, NEW e \in Exchanges, packet'[e] = packet[e]
  PROVE  /\ Routed(e)' <=> Routed(e)
         /\ Observes(e)' <=> Observes(e)
         /\ Response(e)' = Response(e)
         /\ \A c : Failure(e, c)' = Failure(e, c)
         /\ \A m : Answer(e, m)' <=> Answer(e, m)
<1>1. /\ Matched(e)' = Matched(e) /\ Resource(e)' = Resource(e)
      /\ Unmatched(e)' = Unmatched(e) /\ App' = App
      /\ HasResponse(e)' <=> HasResponse(e)
      /\ ResponseType(e)' = ResponseType(e)
  BY DEF Matched, Resource, Unmatched, App, HasResponse, ResponseType
<1>2. Routed(e)' <=> Routed(e)
  BY <1>1 DEF Routed
<1>3. Observes(e)' <=> Observes(e)
  BY <1>1, <1>2 DEF Observes, Misregisters, Registers
<1>4. Response(e)' = Response(e) /\ \A c : Failure(e, c)' = Failure(e, c)
  BY <1>1 DEF Response, Failure
<1>5. \A m : Answer(e, m)' <=> Answer(e, m)
  BY <1>1, <1>2, <1>4 DEF Answer
<1> QED
  BY <1>2, <1>3, <1>4, <1>5

(* One exchange at a time: the others are as they were.                    *)
LEMMA OneExchange ==
  ASSUME ControlInv, UNCHANGED <<app, table, gone>>, NEW e \in Exchanges,
         NEW t \in Tasks, NEW o,
         packet' = packet, from' = from,
         task' = [task EXCEPT ![e] = t], out' = [out EXCEPT ![e] = o],
         task[e] # "none",
         t \in {"none", "spawned", "handling"} => o = <<>>,
         t = "handling" => Routed(e),
         t \in {"parked", "sending"} => Observes(e) /\ o = <<Response(e)>>,
         t \in {"done", "ignored", "panicked"} =>
           \/ o = <<>>
           \/ \E m : Answer(e, m) /\ o = <<m>>
           \/ /\ t = "done" /\ Observes(e)
              /\ \E c \in ErrorCodes : o = <<Response(e), Failure(e, c)>>
  PROVE  ControlInv'
<1>1. Types'
  BY DEF ControlInv, Types, App
<1>2. Given'
  BY DEF ControlInv, Types, Given
<1>3. ASSUME NEW x \in Exchanges
      PROVE  /\ Routed(x)' <=> Routed(x)
             /\ Observes(x)' <=> Observes(x)
             /\ Response(x)' = Response(x)
             /\ \A c : Failure(x, c)' = Failure(x, c)
             /\ \A m : Answer(x, m)' <=> Answer(x, m)
  BY Framed
<1>4. /\ task'[e] = t /\ out'[e] = o
      /\ \A x \in Exchanges : x # e => task'[x] = task[x] /\ out'[x] = out[x]
  BY DEF ControlInv, Types
<1>5. Told'
  <2> SUFFICES ASSUME NEW x \in Exchanges
               PROVE
    /\ task'[x] \in {"none", "spawned", "handling"} => out'[x] = <<>>
    /\ task'[x] = "handling" => Routed(x)'
    /\ task'[x] \in {"parked", "sending"} => Observes(x)' /\ out'[x] = <<Response(x)'>>
    /\ task'[x] \in {"done", "ignored", "panicked"} =>
         \/ out'[x] = <<>>
         \/ \E m : Answer(x, m)' /\ out'[x] = <<m>>
         \/ /\ task'[x] = "done" /\ Observes(x)'
            /\ \E c \in ErrorCodes : out'[x] = <<Response(x)', Failure(x, c)'>>
    BY DEF Told
  <2>1. CASE x = e
    BY <2>1, <1>3, <1>4
  <2>2. CASE x # e
    BY <2>2, <1>3, <1>4 DEF ControlInv, Told
  <2> QED
    BY <2>1, <2>2
<1> QED
  BY <1>1, <1>2, <1>5 DEF ControlInv

(* A task that ends with a message has told it, or has panicked.           *)
LEMMA Ending ==
  ASSUME ControlInv, NEW e \in Exchanges, NEW m, EndWith(e, m)
  PROVE  \/ /\ task' = [task EXCEPT ![e] = "done"]
            /\ out' = [out EXCEPT ![e] = Append(out[e], m)]
         \/ /\ task' = [task EXCEPT ![e] = "panicked"]
            /\ out' = [out EXCEPT ![e] = out[e]]
BY DEF EndWith, Become, ControlInv, Types

LEMMA EndingWithError ==
  ASSUME ControlInv, NEW e \in Exchanges, NEW c, EndWithError(e, c)
  PROVE  \/ /\ c # None
            /\ task' = [task EXCEPT ![e] = "done"]
            /\ out' = [out EXCEPT ![e] = Append(out[e], Failure(e, c))]
         \/ /\ \E t \in {"panicked", "ignored"} : task' = [task EXCEPT ![e] = t]
            /\ out' = [out EXCEPT ![e] = out[e]]
<1>1. CASE c # None /\ EndWith(e, Failure(e, c))
  BY <1>1, Ending
<1>2. CASE Become(e, "ignored") /\ UNCHANGED out
  BY <1>2 DEF Become, ControlInv, Types
<1> QED
  BY <1>1, <1>2 DEF EndWithError

(* A task that ends, and has told nothing before.                          *)
LEMMA FirstAndLast ==
  ASSUME ControlInv, NEW e \in Exchanges, out[e] = <<>>, task[e] # "none",
         UNCHANGED <<app, table, packet, from, gone>>,
         NEW t \in {"done", "panicked", "ignored"}, NEW o,
         task' = [task EXCEPT ![e] = t], out' = [out EXCEPT ![e] = o],
         o = <<>> \/ \E m : Answer(e, m) /\ o = <<m>>
  PROVE  ControlInv'
BY OneExchange DEF Tasks

LEMMA ErrorEnds ==
  ASSUME ControlInv, NEW e \in Exchanges, out[e] = <<>>, task[e] # "none",
         UNCHANGED <<app, table, packet, from, gone>>,
         NEW c, EndWithError(e, c), c # None => Answer(e, Failure(e, c))
  PROVE  ControlInv'
<1> DEFINE m == Failure(e, c)
<1>1. CASE /\ c # None /\ task' = [task EXCEPT ![e] = "done"]
           /\ out' = [out EXCEPT ![e] = Append(out[e], m)]
  <2> HIDE DEF m
  <2>1. Append(out[e], m) = <<m>>
    OBVIOUS
  <2>2. out' = [out EXCEPT ![e] = <<m>>]
    BY <1>1, <2>1
  <2> QED
    BY <1>1, <2>2, FirstAndLast DEF m
<1>2. CASE /\ \E t \in {"panicked", "ignored"} : task' = [task EXCEPT ![e] = t]
           /\ out' = [out EXCEPT ![e] = out[e]]
  <2>1. PICK t \in {"panicked", "ignored"} : task' = [task EXCEPT ![e] = t]
    BY <1>2
  <2>2. out' = [out EXCEPT ![e] = <<>>]
    BY <1>2
  <2> QED
    BY <2>1, <2>2, FirstAndLast
<1> QED
  BY <1>1, <1>2, EndingWithError

LEMMA HandleControl ==
  ASSUME ControlInv, NEW e \in Exchanges, NEW pk \in Packets, NEW p \in Peers,
         Handle(e, pk, p)
  PROVE  ControlInv'
<1>1. /\ task[e] = "none" /\ task' = [task EXCEPT ![e] = "spawned"]
      /\ packet' = [packet EXCEPT ![e] = pk] /\ from' = [from EXCEPT ![e] = p]
      /\ UNCHANGED <<app, table, out, gone>>
  BY DEF Handle, Become
<1>2. Types'
  BY <1>1 DEF ControlInv, Types, Tasks, App
<1>3. Given'
  BY <1>1 DEF ControlInv, Types, Given
<1>4. ASSUME NEW x \in Exchanges, x # e
      PROVE  /\ Routed(x)' <=> Routed(x)
             /\ Observes(x)' <=> Observes(x)
             /\ Response(x)' = Response(x)
             /\ \A c : Failure(x, c)' = Failure(x, c)
             /\ \A m : Answer(x, m)' <=> Answer(x, m)
  <2>1. packet'[x] = packet[x]
    BY <1>1, <1>4 DEF ControlInv, Types
  <2> QED
    BY <1>1, <2>1, Framed
<1>5. Told'
  <2> SUFFICES ASSUME NEW x \in Exchanges
               PROVE
    /\ task'[x] \in {"none", "spawned", "handling"} => out'[x] = <<>>
    /\ task'[x] = "handling" => Routed(x)'
    /\ task'[x] \in {"parked", "sending"} => Observes(x)' /\ out'[x] = <<Response(x)'>>
    /\ task'[x] \in {"done", "ignored", "panicked"} =>
         \/ out'[x] = <<>>
         \/ \E m : Answer(x, m)' /\ out'[x] = <<m>>
         \/ /\ task'[x] = "done" /\ Observes(x)'
            /\ \E c \in ErrorCodes : out'[x] = <<Response(x)', Failure(x, c)'>>
    BY DEF Told
  <2>1. CASE x = e
    BY <2>1, <1>1 DEF ControlInv, Types, Told
  <2>2. CASE x # e
    <3>1. task'[x] = task[x] /\ out'[x] = out[x]
      BY <2>2, <1>1 DEF ControlInv, Types
    <3> QED
      BY <2>2, <3>1, <1>4 DEF ControlInv, Told
  <2> QED
    BY <2>1, <2>2
<1> QED
  BY <1>2, <1>3, <1>5 DEF ControlInv

LEMMA HandlePacketControl ==
  ASSUME ControlInv, NEW e \in Exchanges, HandlePacket(e)
  PROVE  ControlInv'
<1>1. /\ task[e] = "spawned" /\ out[e] = <<>>
      /\ UNCHANGED <<app, table, packet, from, gone>>
  BY DEF HandlePacket, ControlInv, Told
<1>2. \A m : Append(out[e], m) = <<m>>
  BY <1>1
<1>3. ASSUME NEW t \in {"done", "panicked", "ignored"}, NEW o,
             task' = [task EXCEPT ![e] = t], out' = [out EXCEPT ![e] = o],
             o = <<>> \/ \E m : Answer(e, m) /\ o = <<m>>
      PROVE  ControlInv'
  BY <1>1, <1>3, FirstAndLast
<1>4. ASSUME NEW c, EndWithError(e, c), Answer(e, Failure(e, c)) PROVE ControlInv'
  BY <1>1, <1>4, ErrorEnds
<1>5. CASE /\ packet[e].class = "Empty" /\ packet[e].type = "Con"
           /\ EndWith(e, [type |-> "Reset", code |-> "Empty"])
  <2>1. PICK m : Answer(e, m) /\ EndWith(e, m)
    BY <1>5 DEF Answer
  <2> QED
    BY <1>1, <1>2, <1>3, <2>1, Ending
<1>6. CASE Become(e, "ignored") /\ UNCHANGED out
  <2>1. task' = [task EXCEPT ![e] = "ignored"] /\ out' = [out EXCEPT ![e] = out[e]]
    BY <1>6 DEF Become, ControlInv, Types
  <2> QED
    BY <1>1, <1>3, <2>1
<1>7. CASE /\ packet[e].class = "Request" /\ ~IsText(packet[e].path)
           /\ EndWithError(e, "BadRequest")
  BY <1>4, <1>7 DEF Answer
<1>8. CASE packet[e].class = "Request" /\ IsText(packet[e].path)
  <2>1. CASE Matched(e) = NoMatch /\ EndWithError(e, "NotFound")
    BY <1>4, <1>8, <2>1 DEF Answer
  <2>2. CASE Matched(e) # NoMatch /\ EndWithError(e, "MethodNotAllowed")
    BY <1>4, <1>8, <2>2 DEF Answer
  <2>3. CASE /\ Matched(e) # NoMatch /\ Handles(App, Resource(e), packet[e].method)
             /\ Become(e, "handling") /\ UNCHANGED out
    <3>1. task' = [task EXCEPT ![e] = "handling"] /\ out' = [out EXCEPT ![e] = out[e]]
      BY <2>3 DEF Become, ControlInv, Types
    <3>2. Routed(e)
      BY <1>8, <2>3 DEF Routed
    <3> QED
      BY <1>1, <3>1, <3>2, OneExchange DEF Tasks
  <2> QED
    BY <1>6, <1>8, <2>1, <2>2, <2>3 DEF HandlePacket
<1> QED
  BY <1>5, <1>6, <1>7, <1>8 DEF HandlePacket

LEMMA RespondControl ==
  ASSUME ControlInv, NEW e \in Exchanges, Respond(e)
  PROVE  ControlInv'
<1>1. /\ task[e] = "handling" /\ out[e] = <<>> /\ Routed(e)
      /\ UNCHANGED <<app, table, packet, from, gone>>
  BY DEF Respond, ControlInv, Told
<1>2. \A m : Append(out[e], m) = <<m>>
  BY <1>1
<1>3. ASSUME NEW t \in {"done", "panicked", "ignored"}, NEW o,
             task' = [task EXCEPT ![e] = t], out' = [out EXCEPT ![e] = o],
             o = <<>> \/ \E m : Answer(e, m) /\ o = <<m>>
      PROVE  ControlInv'
  BY <1>1, <1>3, FirstAndLast
<1>4. Answer(e, Response(e)) /\ Answer(e, Failure(e, "BadRequest"))
  BY <1>1 DEF Answer
<1>5. CASE Become(e, "panicked") /\ UNCHANGED out
  <2>1. task' = [task EXCEPT ![e] = "panicked"] /\ out' = [out EXCEPT ![e] = out[e]]
    BY <1>5 DEF Become, ControlInv, Types
  <2> QED
    BY <1>1, <1>3, <2>1
<1>6. CASE EndWithError(e, "BadRequest")
  BY <1>1, <1>4, <1>6, ErrorEnds
<1>7. CASE EndWith(e, Response(e))
  <2>1. CASE /\ task' = [task EXCEPT ![e] = "done"]
             /\ out' = [out EXCEPT ![e] = Append(out[e], Response(e))]
    <3>1. out' = [out EXCEPT ![e] = <<Response(e)>>]
      BY <1>2, <2>1
    <3> QED
      BY <1>1, <1>4, <2>1, <3>1, FirstAndLast
  <2>2. CASE /\ task' = [task EXCEPT ![e] = "panicked"]
             /\ out' = [out EXCEPT ![e] = out[e]]
    BY <1>1, <2>2, FirstAndLast
  <2> QED
    BY <1>7, <2>1, <2>2, Ending
<1>8. CASE /\ HasResponse(e) /\ Registers(e)
           /\ out' = [out EXCEPT ![e] = Append(@, Response(e))]
           /\ Become(e, "parked")
  <2>1. Observes(e)
    BY <1>1, <1>8 DEF Observes, Registers, Misregisters
  <2>2. /\ task' = [task EXCEPT ![e] = "parked"]
        /\ out' = [out EXCEPT ![e] = <<Response(e)>>]
    BY <1>2, <1>8 DEF Become, ControlInv, Types
  <2> QED
    BY <1>1, <2>1, <2>2, OneExchange DEF Tasks
<1> QED
  BY <1>5, <1>6, <1>7, <1>8 DEF Respond

LEMMA FailControl ==
  ASSUME ControlInv, NEW e \in Exchanges, NEW c \in ErrorCodes \cup {None}, Fail(e, c)
  PROVE  ControlInv'
<1>1. /\ task[e] \in {"handling", "parked"} /\ EndWithError(e, c)
      /\ UNCHANGED <<app, table, packet, from, gone>>
  BY DEF Fail
<1>2. CASE task[e] = "handling"
  <2>1. out[e] = <<>> /\ Routed(e)
    BY <1>2 DEF ControlInv, Told
  <2>2. c # None => Answer(e, Failure(e, c))
    BY <2>1 DEF Answer
  <2> QED
    BY <1>1, <1>2, <2>1, <2>2, ErrorEnds
<1>3. CASE task[e] = "parked"
  <2>1. out[e] = <<Response(e)>> /\ Observes(e)
    BY <1>3 DEF ControlInv, Told
  <2>2. Answer(e, Response(e))
    BY <2>1 DEF Answer, Observes
  <2>5. \A m : Append(out[e], m) = <<Response(e), m>>
    BY <2>1, AppendSecond
  <2>3. CASE /\ c # None
             /\ task' = [task EXCEPT ![e] = "done"]
             /\ out' = [out EXCEPT ![e] = Append(out[e], Failure(e, c))]
    <3>1. c \in ErrorCodes /\ out' = [out EXCEPT ![e] = <<Response(e), Failure(e, c)>>]
      BY <2>5, <2>3
    <3> QED
      BY <1>1, <1>3, <2>1, <2>3, <3>1, OneExchange DEF Tasks
  <2>4. CASE /\ \E t \in {"panicked", "ignored"} : task' = [task EXCEPT ![e] = t]
             /\ out' = [out EXCEPT ![e] = out[e]]
    BY <1>1, <1>3, <2>1, <2>2, <2>4, OneExchange DEF Tasks
  <2> QED
    BY <1>1, <2>3, <2>4, EndingWithError
<1> QED
  BY <1>1, <1>2, <1>3

(* The loop changes where the task is, and what it told stays.             *)
LEMMA LoopControl ==
  ASSUME ControlInv, NEW e \in Exchanges, Notify(e) \/ SendReturns(e) \/ Terminate(e)
  PROVE  ControlInv'
<1>1. /\ task[e] \in {"parked", "sending"}
      /\ \E t \in {"parked", "sending", "done"} : task' = [task EXCEPT ![e] = t]
      /\ UNCHANGED <<app, table, packet, from, out, gone>>
  BY DEF Notify, SendReturns, Terminate, Become
<1>2. out[e] = <<Response(e)>> /\ Observes(e) /\ Answer(e, Response(e))
  BY <1>1 DEF ControlInv, Told, Observes, Answer
<1>3. out' = [out EXCEPT ![e] = out[e]]
  BY <1>1 DEF ControlInv, Types
<1> QED
  BY <1>1, <1>2, <1>3, OneExchange DEF Tasks

(* Steps of the manager, and those of the server and of nobody.            *)
LEMMA OutsideControl ==
  ASSUME ControlInv, UNCHANGED <<app, table, packet, from, task, out>>,
         gone' \in SUBSET Exchanges
  PROVE  ControlInv'
<1>1. Types' /\ Given'
  BY DEF ControlInv, Types, Given, App
<1>2. Told'
  BY Framed DEF ControlInv, Told
<1> QED
  BY <1>1, <1>2 DEF ControlInv

LEMMA NextControl == ControlInv /\ [Next]_vars => ControlInv'
<1> SUFFICES ASSUME ControlInv, [Next]_vars PROVE ControlInv'
  OBVIOUS
<1>1. ASSUME NEW e \in Exchanges, NEW pk \in Packets, NEW p \in Peers, Handle(e, pk, p)
      PROVE  ControlInv'
  BY <1>1, HandleControl
<1>2. ASSUME NEW e \in Exchanges, HandlePacket(e) PROVE ControlInv'
  BY <1>2, HandlePacketControl
<1>3. ASSUME NEW e \in Exchanges, Respond(e) PROVE ControlInv'
  BY <1>3, RespondControl
<1>4. ASSUME NEW e \in Exchanges, NEW c \in ErrorCodes \cup {None}, Fail(e, c)
      PROVE  ControlInv'
  BY <1>4, FailControl
<1>5. ASSUME NEW e \in Exchanges, Notify(e) \/ SendReturns(e) \/ Terminate(e)
      PROVE  ControlInv'
  BY <1>5, LoopControl
<1>6. ASSUME NEW e \in Exchanges, DropStream(e) PROVE ControlInv'
  <2>1. gone' \in SUBSET Exchanges
    BY <1>6 DEF DropStream, ControlInv, Types
  <2> QED
    BY <1>6, <2>1, OutsideControl DEF DropStream
<1>7. ASSUME NEW s \in Notifications, SendStep(s) PROVE ControlInv'
  BY <1>7, OutsideControl DEF SendStep, ControlInv, Types
<1>8. ASSUME NEW s \in Notifications, NEW t \in R!Replies, HandleReply(s, t)
      PROVE  ControlInv'
  BY <1>8, OutsideControl DEF HandleReply, ControlInv, Types
<1>9. CASE UNCHANGED vars
  BY <1>9, OutsideControl DEF vars, ControlInv, Types
<1> QED
  BY <1>1, <1>2, <1>3, <1>4, <1>5, <1>6, <1>7, <1>8, <1>9 DEF Next

LEMMA ControlInvariance == Spec => []ControlInv
BY InitControl, NextControl, PTL DEF Spec

-----------------------------------------------------------------------------
(* The manager.                                                            *)

LEMMA SentType ==
  ASSUME NEW e \in Exchanges
  PROVE  Sent(e) \in 0 .. MaxNotify[e]
<1> DEFINE begun == {n \in 1 .. MaxNotify[e] : stage[<<e, n>>] # "idle"}
<1>1. MaxNotify[e] \in Nat
  BY AppAssumption
<1>2. IsFiniteSet(1 .. MaxNotify[e]) /\ Cardinality(1 .. MaxNotify[e]) = MaxNotify[e]
  BY <1>1, FS_Interval
<1>3. IsFiniteSet(begun) /\ Cardinality(begun) <= MaxNotify[e]
  BY <1>2, FS_Subset
<1>4. Cardinality(begun) \in Nat
  BY <1>3, FS_CardinalityType
<1> QED
  BY <1>1, <1>3, <1>4 DEF Sent

(* Each step is a step of the manager or leaves it as it is.               *)
LEMMA NextManager == ControlInv /\ [Next]_vars => [R!Next]_(R!vars)
<1> SUFFICES ASSUME ControlInv, [Next]_vars PROVE R!Next \/ UNCHANGED R!vars
  OBVIOUS
<1>1. ASSUME UNCHANGED <<gone, manager>> PROVE UNCHANGED R!vars
  BY <1>1 DEF manager, R!vars
<1>2. ASSUME NEW e \in Exchanges, Notify(e) PROVE R!Next
  <2>1. R!Send(<<e, Sent(e) + 1>>, from[e]) /\ task[e] = "parked" /\ Sent(e) < MaxNotify[e]
    BY <1>2 DEF Notify
  <2>2. from[e] \in Peers
    BY <2>1 DEF ControlInv, Given
  <2>3. MaxNotify[e] \in Nat /\ Sent(e) + 1 \in 1 .. MaxNotify[e]
    BY <2>1, SentType, AppAssumption
  <2>4. <<e, Sent(e) + 1>> \in Notifications
    BY <2>3, NotificationsType
  <2> QED
    BY <2>1, <2>2, <2>4 DEF R!Next
<1>3. ASSUME NEW e \in Exchanges, DropStream(e) PROVE R!Next
  <2> DEFINE S == {e} \X (1 .. MaxNotify[e])
  <2>1. /\ gone' = gone \cup {e} /\ UNCHANGED manager
    BY <1>3 DEF DropStream
  <2>2. {s \in Notifications : s[1] \in gone'} = {s \in Notifications : s[1] \in gone} \cup S
    <3>1. \A s : s \in S <=> s \in Notifications /\ s[1] = e
      BY NotificationsType
    <3> QED
      BY <2>1, <3>1
  <2>3. R!CloseStream(S)
    BY <2>1, <2>2 DEF R!CloseStream, manager
  <2> QED
    BY <2>3 DEF R!Next
<1>4. ASSUME NEW s \in Notifications, SendStep(s) PROVE R!Next
  BY <1>4 DEF SendStep, R!Next
<1>5. ASSUME NEW s \in Notifications, NEW t \in R!Replies, HandleReply(s, t) PROVE R!Next
  BY <1>5 DEF HandleReply, R!Next
<1>6. ASSUME NEW e \in Exchanges,
             \/ \E pk \in Packets, p \in Peers : Handle(e, pk, p)
             \/ HandlePacket(e) \/ Respond(e) \/ SendReturns(e) \/ Terminate(e)
             \/ \E c \in ErrorCodes \cup {None} : Fail(e, c)
      PROVE  UNCHANGED <<gone, manager>>
  BY <1>6 DEF Handle, HandlePacket, Respond, SendReturns, Terminate, Fail
<1>7. CASE UNCHANGED vars
  BY <1>1, <1>7 DEF vars
<1> QED
  BY <1>1, <1>2, <1>3, <1>4, <1>5, <1>6, <1>7 DEF Next

(* The manager that the exchanges share, with their notifications as its   *)
(* sends, behaves as Retransmission says: whatever is proved about that    *)
(* module holds here.                                                      *)
THEOREM ManagerIsRetransmission == Spec => R!Spec
<1>1. Init => R!Init
  BY DEF Init
<1> QED
  BY <1>1, ControlInvariance, NextManager, PTL DEF Spec, R!Spec

LEMMA ManagerSpec == Spec => RP!Spec
<1>1. R!Init => RP!Init
  BY SameInit
<1>2. [R!Next]_(R!vars) => [RP!Next]_(RP!vars)
  BY SameNext DEF R!vars, RP!vars
<1> QED
  BY <1>1, <1>2, ManagerIsRetransmission, PTL DEF R!Spec, RP!Spec

LEMMA ManagerInvariance == Spec => []RP!IInv
<1>1. RP!Spec => []RP!IInv
  BY ManagerAssumption, RP!Invariance DEF RP!Invariance
<1> QED
  BY <1>1, ManagerSpec, PTL

(* A loop that sends a notification has what ReliableSend promises: one    *)
(* outcome, which what the peer said justifies, a bounded number of copies *)
(* and none after the outcome, whatever the other exchanges send and hear. *)
THEOREM NotificationsAreReliable == Spec => RP!PromiseSpec
<1>1. RP!Spec => RP!PromiseSpec
  BY ManagerAssumption, RP!KeepsPromise DEF RP!KeepsPromise
<1> QED
  BY <1>1, ManagerSpec, PTL

(* The table, the tasks and the manager keep their types.                  *)
THEOREM TypeCorrect == Spec => []TypeOK
<1>1. ControlInv /\ RP!IInv => TypeOK
  <2> SUFFICES ASSUME ControlInv, RP!IInv PROVE TypeOK
    OBVIOUS
  <2>1. R!TypeOK
    BY SameTypes DEF RP!IInv
  <2>2. ASSUME NEW e \in Exchanges PROVE Len(out[e]) <= 2
    <3>1. \A m, n : Len(<<>>) <= 2 /\ Len(<<m>>) <= 2 /\ Len(<<m, n>>) <= 2
      OBVIOUS
    <3>2. task[e] \in Tasks
      BY DEF ControlInv, Types
    <3>3. \/ out[e] = <<>>
          \/ \E m : out[e] = <<m>>
          \/ \E m, n : out[e] = <<m, n>>
      <4>1. CASE task[e] \in {"none", "spawned", "handling"}
        BY <4>1 DEF ControlInv, Told
      <4>2. CASE task[e] \in {"parked", "sending"}
        BY <4>2 DEF ControlInv, Told
      <4>3. CASE task[e] \in {"done", "ignored", "panicked"}
        BY <4>3 DEF ControlInv, Told
      <4> QED
        BY <3>2, <4>1, <4>2, <4>3 DEF Tasks
    <3> QED
      BY <3>1, <3>3
  <2> QED
    BY <2>1, <2>2 DEF TypeOK, ControlInv, Types
<1> QED
  BY ControlInvariance, ManagerInvariance, <1>1, PTL

(* A second message under the ID of a request is the error of a            *)
(* notification, and ends the observation that the first one began.        *)
THEOREM RequestsAreAnsweredOnce == Spec => []AnsweredOnce
<1>1. ControlInv => AnsweredOnce
  <2> SUFFICES ASSUME ControlInv, NEW e \in Exchanges, Len(out[e]) > 1
               PROVE  /\ Len(out[e]) = 2
                      /\ Registers(e) /\ out[e][1].code = "Content"
                      /\ out[e][2].code \in ErrorCodes
                      /\ task[e] = "done"
    BY DEF AnsweredOnce
  <2>1. out[e] # <<>> /\ \A m : out[e] # <<m>>
    <3>1. \A m : Len(<<>>) = 0 /\ Len(<<m>>) = 1
      OBVIOUS
    <3>2. ~(0 > 1) /\ ~(1 > 1)
      OBVIOUS
    <3> QED
      BY <3>1, <3>2
  <2>2. /\ task[e] = "done" /\ Observes(e)
        /\ \E c \in ErrorCodes : out[e] = <<Response(e), Failure(e, c)>>
    BY <2>1 DEF ControlInv, Types, Told, Tasks
  <2> QED
    BY <2>2 DEF Observes, Response, Failure
<1> QED
  BY ControlInvariance, <1>1, PTL

-----------------------------------------------------------------------------
(* The notifications of an observation.                                    *)

(* They are handed to the manager one after the other: after the answer,   *)
(* and each after the Ok of the one before it, which a parked task has for *)
(* the last one as well.                                                   *)
Turn ==
  \A e \in Exchanges :
    /\ \A n \in 1 .. MaxNotify[e] : stage[<<e, n>>] # "idle" <=> n <= Sent(e)
    /\ Sent(e) > 0 => out[e] # <<>>
    /\ \A n \in 1 .. Sent(e) :
         result[<<e, n>>] = "Ok" \/ (n = Sent(e) /\ task[e] # "parked")

LEMMA InitTurn == Init => Turn
<1> SUFFICES ASSUME Init, NEW e \in Exchanges
             PROVE  /\ \A n \in 1 .. MaxNotify[e] : stage[<<e, n>>] # "idle" <=> n <= Sent(e)
                    /\ Sent(e) = 0
  BY DEF Turn
<1>1. \A n \in 1 .. MaxNotify[e] : stage[<<e, n>>] = "idle"
  BY NotificationsType DEF Init, R!Init
<1>2. {n \in 1 .. MaxNotify[e] : stage[<<e, n>>] # "idle"} = {}
  BY <1>1
<1>3. Sent(e) = 0
  BY <1>2, FS_EmptySet DEF Sent
<1> QED
  BY <1>1, <1>3

(* What was sent to a peer is not taken back.                              *)
LEMMA AnswersStay ==
  ASSUME ControlInv, [Next]_vars, NEW e \in Exchanges, out[e] # <<>>
  PROVE  out'[e] # <<>>
<1>1. ASSUME NEW x \in Exchanges, HandlePacket(x) \/ Respond(x) PROVE out'[e] # <<>>
  <2>1. out[x] = <<>>
    BY <1>1 DEF HandlePacket, Respond, ControlInv, Told
  <2>2. x # e
    BY <2>1
  <2>3. \A y \in Exchanges : y # x => out'[y] = out[y]
    BY <1>1 DEF HandlePacket, Respond, EndWithError, EndWith, ControlInv, Types
  <2> QED
    BY <2>2, <2>3
<1>2. ASSUME NEW x \in Exchanges, NEW c, Fail(x, c) PROVE out'[e] # <<>>
  <2>1. \/ UNCHANGED out
        \/ out' = [out EXCEPT ![x] = Append(out[x], Failure(x, c))]
    BY <1>2 DEF Fail, EndWithError, EndWith
  <2>2. out[x] = <<>> \/ out[x] = <<Response(x)>>
    BY <1>2 DEF Fail, ControlInv, Told
  <2>3. \A m : Append(out[x], m) # <<>>
    <3>1. \A y, m : Append(<<>>, m) # <<>> /\ <<y, m>> # <<>>
      OBVIOUS
    <3> QED
      BY <2>2, <3>1, AppendSecond
  <2> QED
    BY <2>1, <2>3 DEF ControlInv, Types
<1>3. UNCHANGED out => out'[e] # <<>>
  OBVIOUS
<1> QED
  BY <1>1, <1>2, <1>3
     DEF Next, vars, Handle, Notify, SendReturns, Terminate, DropStream, SendStep,
         HandleReply

(* A send that was begun or that returned Ok has done so for good, and     *)
(* only Notify begins one.                                                 *)
LEMMA SendsProgress ==
  ASSUME RP!IInv, [Next]_vars, NEW s \in Notifications
  PROVE  /\ stage[s] # "idle" => stage'[s] # "idle"
         /\ result[s] = "Ok" => result'[s] = "Ok"
         /\ stage[s] = "idle" /\ stage'[s] # "idle" =>
              \E e \in Exchanges : Notify(e) /\ s = <<e, Sent(e) + 1>>
<1>1. /\ stage \in [Notifications -> {"idle", "created", "waiting", "done"}]
      /\ result = [o \in Notifications |-> result[o]]
      /\ stage[s] = "done" <=> result[s] # "none"
  BY DEF RP!IInv, RP!TypeOK, RP!StagesAreConsistent
<1>2. ASSUME NEW e \in Exchanges, Notify(e)
      PROVE  /\ stage[s] # "idle" => stage'[s] = stage[s]
             /\ result'[s] = result[s]
             /\ stage'[s] # stage[s] => s = <<e, Sent(e) + 1>>
  BY <1>1, <1>2 DEF Notify, R!Send
<1>3. ASSUME NEW o \in Notifications, SendStep(o)
      PROVE  /\ stage[s] = "idle" <=> stage'[s] = "idle"
             /\ result[s] = "Ok" => result'[s] = "Ok"
  BY <1>1, <1>3 DEF SendStep, R!Start, R!Timeout, R!Wake, R!Transmit, R!Finish
<1>4. ASSUME NEW o \in Notifications, NEW t \in R!Replies, HandleReply(o, t)
      PROVE  UNCHANGED <<stage, result>>
  BY <1>4 DEF HandleReply, R!HandleReply
<1>5. ASSUME NEW e \in Exchanges,
             \/ \E pk \in Packets, p \in Peers : Handle(e, pk, p)
             \/ HandlePacket(e) \/ Respond(e) \/ SendReturns(e) \/ Terminate(e)
             \/ \E c \in ErrorCodes \cup {None} : Fail(e, c)
             \/ DropStream(e)
      PROVE  UNCHANGED <<stage, result>>
  BY <1>5 DEF Handle, HandlePacket, Respond, SendReturns, Terminate, Fail, DropStream, manager
<1>6. CASE UNCHANGED vars
  BY <1>6 DEF vars, manager
<1> QED
  BY <1>2, <1>3, <1>4, <1>5, <1>6 DEF Next

(* So is the number of those that were begun.                              *)
LEMMA SentGrows ==
  ASSUME RP!IInv, Turn, [Next]_vars, NEW e \in Exchanges
  PROVE  /\ Notify(e) => /\ Sent(e)' = Sent(e) + 1
                         /\ \A n \in 1 .. MaxNotify[e] :
                              stage'[<<e, n>>] # "idle" <=> n <= Sent(e) + 1
         /\ ~Notify(e) => /\ Sent(e)' = Sent(e)
                          /\ \A n \in 1 .. MaxNotify[e] :
                               stage'[<<e, n>>] # "idle" <=> n <= Sent(e)
<1> DEFINE begun == {n \in 1 .. MaxNotify[e] : stage[<<e, n>>] # "idle"}
<1>1. Sent(e) \in 0 .. MaxNotify[e] /\ MaxNotify[e] \in Nat
  BY SentType, AppAssumption
<1>2. \A n \in 1 .. MaxNotify[e] : <<e, n>> \in Notifications
  BY NotificationsType
<1>3. \A n \in 1 .. MaxNotify[e] : stage[<<e, n>>] # "idle" <=> n <= Sent(e)
  BY DEF Turn
<1>4. CASE Notify(e)
  <2>1. Sent(e) < MaxNotify[e] /\ stage' = [stage EXCEPT ![<<e, Sent(e) + 1>>] = "created"]
    BY <1>4 DEF Notify, R!Send
  <2>2. stage \in [Notifications -> {"idle", "created", "waiting", "done"}]
    BY DEF RP!IInv, RP!TypeOK
  <2>3. \A n \in 1 .. MaxNotify[e] : stage'[<<e, n>>] # "idle" <=> n <= Sent(e) + 1
    BY <1>1, <1>2, <1>3, <2>1, <2>2
  <2>4. begun' = 1 .. Sent(e) + 1
    BY <1>1, <2>1, <2>3
  <2>5. Cardinality(1 .. Sent(e) + 1) = Sent(e) + 1
    BY <1>1, FS_Interval
  <2>6. Sent(e)' = Sent(e) + 1
    BY <2>4, <2>5 DEF Sent
  <2> QED
    BY <1>4, <2>3, <2>6
<1>5. CASE ~Notify(e)
  <2>1. \A n \in 1 .. MaxNotify[e] : stage'[<<e, n>>] # "idle" <=> n <= Sent(e)
    BY <1>2, <1>3, <1>5, SendsProgress
  <2>2. begun' = begun
    BY <1>3, <2>1
  <2>3. Sent(e)' = Sent(e)
    BY <2>2 DEF Sent
  <2> QED
    BY <1>5, <2>1, <2>3
<1> QED
  BY <1>4, <1>5

(* A task comes to wait for a change after its answer, or after an Ok.     *)
LEMMA Parking ==
  ASSUME ControlInv, [Next]_vars, NEW e \in Exchanges, task'[e] = "parked"
  PROVE  task[e] = "parked" \/ out[e] = <<>> \/ result[<<e, Sent(e)>>] = "Ok"
<1>1. task \in [Exchanges -> Tasks]
  BY DEF ControlInv, Types
<1>2. ASSUME NEW x \in Exchanges, SendReturns(x)
      PROVE  task[e] = "parked" \/ result[<<e, Sent(e)>>] = "Ok"
  BY <1>1, <1>2 DEF SendReturns, Become
<1>3. ASSUME NEW x \in Exchanges, Respond(x)
      PROVE  task[e] = "parked" \/ out[e] = <<>>
  <2>1. out[x] = <<>>
    BY <1>3 DEF Respond, ControlInv, Told
  <2>2. x # e => task'[e] = task[e]
    BY <1>1, <1>3 DEF Respond, EndWith, EndWithError, Become
  <2> QED
    BY <2>1, <2>2
<1>4. ASSUME NEW x \in Exchanges, NEW c, Fail(x, c) PROVE task[e] = "parked"
  BY <1>1, <1>4 DEF Fail, EndWithError, EndWith, Become
<1>5. ASSUME NEW x \in Exchanges, HandlePacket(x) PROVE task[e] = "parked"
  BY <1>1, <1>5 DEF HandlePacket, EndWithError, EndWith, Become
<1>6. ASSUME NEW x \in Exchanges,
             \/ \E pk \in Packets, p \in Peers : Handle(x, pk, p)
             \/ Notify(x) \/ Terminate(x)
      PROVE  task[e] = "parked"
  BY <1>1, <1>6 DEF Handle, Notify, Terminate, Become
<1>7. UNCHANGED task => task[e] = "parked"
  OBVIOUS
<1> QED
  BY <1>2, <1>3, <1>4, <1>5, <1>6, <1>7
     DEF Next, vars, DropStream, SendStep, HandleReply

LEMMA NextTurn == ControlInv /\ RP!IInv /\ Turn /\ [Next]_vars => Turn'
<1> SUFFICES ASSUME ControlInv, RP!IInv, Turn, [Next]_vars, NEW e \in Exchanges
             PROVE
    /\ \A n \in 1 .. MaxNotify[e] : stage'[<<e, n>>] # "idle" <=> n <= Sent(e)'
    /\ Sent(e)' > 0 => out'[e] # <<>>
    /\ \A n \in 1 .. Sent(e)' :
         result'[<<e, n>>] = "Ok" \/ (n = Sent(e)' /\ task'[e] # "parked")
  BY DEF Turn
<1>1. Sent(e) \in Nat /\ MaxNotify[e] \in Nat /\ Sent(e) <= MaxNotify[e]
  BY SentType, AppAssumption
<1>2. \A n \in 1 .. Sent(e) : result[<<e, n>>] = "Ok" => result'[<<e, n>>] = "Ok"
  <2>1. \A n \in 1 .. Sent(e) : <<e, n>> \in Notifications
    BY <1>1, NotificationsType
  <2> QED
    BY <2>1, SendsProgress
<1>3. /\ Sent(e) > 0 => out[e] # <<>>
      /\ \A n \in 1 .. Sent(e) :
           result[<<e, n>>] = "Ok" \/ (n = Sent(e) /\ task[e] # "parked")
  BY DEF Turn
<1>4. CASE Notify(e)
  <2>1. /\ Sent(e)' = Sent(e) + 1
        /\ \A n \in 1 .. MaxNotify[e] : stage'[<<e, n>>] # "idle" <=> n <= Sent(e) + 1
    BY <1>4, SentGrows
  <2>2. task[e] = "parked" /\ UNCHANGED out /\ task'[e] = "sending"
    BY <1>4 DEF Notify, Become, ControlInv, Types
  <2>3. out[e] # <<>>
    BY <2>2 DEF ControlInv, Told
  <2> QED
    BY <1>1, <1>2, <1>3, <2>1, <2>2, <2>3
<1>5. CASE ~Notify(e)
  <2>1. /\ Sent(e)' = Sent(e)
        /\ \A n \in 1 .. MaxNotify[e] : stage'[<<e, n>>] # "idle" <=> n <= Sent(e)
    BY <1>5, SentGrows
  <2>2. Sent(e) > 0 => out'[e] # <<>>
    BY <1>3, AnswersStay
  <2>3. task'[e] = "parked" /\ Sent(e) > 0 =>
          task[e] = "parked" \/ result[<<e, Sent(e)>>] = "Ok"
    BY <1>3, Parking
  <2> QED
    BY <1>1, <1>2, <1>3, <2>1, <2>2, <2>3
<1> QED
  BY <1>4, <1>5

LEMMA TurnInvariance == Spec => []Turn
BY InitTurn, NextTurn, ControlInvariance, ManagerInvariance, PTL DEF Spec

(* The notifications of an observation follow the answer that began it,    *)
(* and each one the acknowledgement of the one before it: after a Reset,   *)
(* a timeout or an error there is no other one.                            *)
THEOREM ObservationsNotifyInTurn == Spec => []NotificationsInTurn
<1>1. Turn => NotificationsInTurn
  <2> SUFFICES ASSUME Turn, NEW e \in Exchanges, NEW n \in 1 .. MaxNotify[e],
                      stage[<<e, n>>] # "idle"
               PROVE  out[e] # <<>> /\ \A m \in 1 .. n - 1 : result[<<e, m>>] = "Ok"
    BY DEF NotificationsInTurn
  <2>1. n <= Sent(e) /\ Sent(e) \in Nat /\ n \in Nat /\ n > 0
    BY SentType, AppAssumption DEF Turn
  <2> QED
    BY <2>1 DEF Turn
<1> QED
  BY <1>1, TurnInvariance, PTL

-----------------------------------------------------------------------------
(* Whose acknowledgement it is.                                            *)

(* A notification is sent to the peer of its exchange.                     *)
SentToItsClient ==
  \A s \in Notifications : stage[s] # "idle" =>
    task[s[1]] # "none" /\ peer[s] = from[s[1]]

LEMMA NextSentToItsClient ==
  ControlInv /\ RP!IInv /\ SentToItsClient /\ [Next]_vars => SentToItsClient'
<1> SUFFICES ASSUME ControlInv, RP!IInv, SentToItsClient, [Next]_vars,
                    NEW s \in Notifications, stage'[s] # "idle"
             PROVE  task'[s[1]] # "none" /\ peer'[s] = from'[s[1]]
  BY DEF SentToItsClient
<1>1. /\ stage \in [Notifications -> {"idle", "created", "waiting", "done"}]
      /\ peer \in [Notifications -> Peers]
      /\ task \in [Exchanges -> Tasks]
      /\ from \in [Exchanges -> Peers \cup {None}]
  BY DEF RP!IInv, RP!TypeOK, ControlInv, Types
<1>2. PICK e \in Exchanges : \E n \in 1 .. MaxNotify[e] : s = <<e, n>>
  BY NotificationsType
<1>3. s[1] = e
  BY <1>2
<1>4. ASSUME NEW x \in Exchanges, Notify(x)
      PROVE  task'[e] # "none" /\ peer'[s] = from'[e]
  <2>1. /\ task[x] = "parked" /\ task' = [task EXCEPT ![x] = "sending"] /\ from' = from
        /\ stage' = [stage EXCEPT ![<<x, Sent(x) + 1>>] = "created"]
        /\ peer' = [peer EXCEPT ![<<x, Sent(x) + 1>>] = from[x]]
    BY <1>4 DEF Notify, Become, R!Send
  <2>2. CASE s = <<x, Sent(x) + 1>>
    <3>1. x = e
      BY <1>3, <2>2
    <3> QED
      BY <1>1, <2>1, <2>2, <3>1
  <2>3. CASE s # <<x, Sent(x) + 1>>
    BY <1>1, <1>3, <2>1, <2>3 DEF SentToItsClient
  <2> QED
    BY <2>2, <2>3
<1>5. CASE stage[s] # "idle"
  <2>1. task[e] # "none" /\ peer[s] = from[e]
    BY <1>3, <1>5 DEF SentToItsClient
  <2>2. ASSUME NEW x \in Exchanges, NEW pk \in Packets, NEW p \in Peers, Handle(x, pk, p)
        PROVE  task'[e] = task[e] /\ from'[e] = from[e] /\ peer' = peer
    BY <1>1, <2>1, <2>2 DEF Handle, Become, manager
  <2>3. ASSUME NEW x \in Exchanges,
               \/ HandlePacket(x) \/ Respond(x) \/ SendReturns(x) \/ Terminate(x)
               \/ \E c \in ErrorCodes \cup {None} : Fail(x, c)
        PROVE  /\ \E t \in Tasks \ {"none"} : task' = [task EXCEPT ![x] = t]
               /\ UNCHANGED <<from, peer>>
    BY <2>3 DEF HandlePacket, Respond, SendReturns, Terminate, Fail, EndWithError, EndWith,
                Become, manager, Tasks
  <2>4. ASSUME NEW o \in Notifications, SendStep(o) PROVE UNCHANGED <<task, from, peer>>
    BY <2>4 DEF SendStep, R!Start, R!Timeout, R!Wake
  <2>5. ASSUME NEW o \in Notifications, NEW t \in R!Replies, HandleReply(o, t)
        PROVE  UNCHANGED <<task, from, peer>>
    BY <2>5 DEF HandleReply, R!HandleReply
  <2>6. ASSUME NEW x \in Exchanges, DropStream(x) PROVE UNCHANGED <<task, from, peer>>
    BY <2>6 DEF DropStream, manager
  <2>7. CASE UNCHANGED vars
    BY <2>1, <2>7, <1>3 DEF vars, manager
  <2>8. ASSUME NEW x \in Exchanges, NEW t \in Tasks \ {"none"}, 
               task' = [task EXCEPT ![x] = t], UNCHANGED <<from, peer>>
        PROVE  task'[e] # "none" /\ peer'[s] = from'[e]
    BY <1>1, <2>1, <2>8
  <2> QED
    BY <1>3, <1>4, <2>1, <2>2, <2>3, <2>4, <2>5, <2>6, <2>7, <2>8 DEF Next
<1>6. CASE stage[s] = "idle"
  BY <1>3, <1>4, <1>6, SendsProgress
<1> QED
  BY <1>5, <1>6

LEMMA CreditedReplies == Spec => []RP!RepliesAreCredited
<1>1. R!Init => RP!Init
  BY SameInit
<1>2. [R!Next]_(R!vars) => [RP!Next]_(RP!vars)
  BY SameNext DEF R!vars, RP!vars
<1>3. R!Spec => RP!Spec
  BY <1>1, <1>2, PTL DEF R!Spec, RP!Spec
<1>4. RP!Spec => []RP!RepliesAreCredited
  BY ManagerAssumption, RP!EventsComeFromReplies DEF RP!EventsComeFromReplies
<1> QED
  BY ManagerIsRetransmission, <1>3, <1>4, PTL

(* The Ok that lets an observation go on stands for an Acknowledgement by  *)
(* the client that observes: it came to a copy of a message to that peer,  *)
(* whichever exchange that was a notification of.                          *)
THEOREM ObservationsHearTheirClient == Spec => []AcknowledgedByItsClient
<1>1. Init => SentToItsClient
  BY DEF Init, R!Init, SentToItsClient
<1>2. SentToItsClient /\ RP!IInv /\ RP!RepliesAreCredited => AcknowledgedByItsClient
  <2> SUFFICES ASSUME SentToItsClient, RP!IInv, RP!RepliesAreCredited,
                      NEW s \in Notifications, result[s] = "Ok"
               PROVE  answered[s] # None /\ from[answered[s][1]] = from[s[1]]
    BY DEF AcknowledgedByItsClient
  <2>1. event[s] = "Ack" /\ stage[s] = "done"
    BY DEF RP!IInv, RP!OutcomeIsJustified, RP!StagesAreConsistent
  <2>2. answered[s] # None
    BY <2>1 DEF RP!RepliesAreCredited, RP!Replies
  <2>3. /\ answered[s] \in Notifications /\ stage[answered[s]] # "idle"
        /\ peer[answered[s]] = peer[s]
    BY <2>2 DEF RP!IInv, RP!TypeOK, RP!StagesAreConsistent, RP!AnswerMatchesSend
  <2> QED
    BY <2>1, <2>2, <2>3 DEF SentToItsClient
<1> QED
  BY <1>1, <1>2, NextSentToItsClient, ControlInvariance, ManagerInvariance,
     CreditedReplies, PTL DEF Spec

-----------------------------------------------------------------------------
(* Which resource answers, and what a listing has.                         *)

(* The first message is the answer, and content is what a handler made.    *)
LEMMA FirstIsAnswer ==
  ASSUME ControlInv, NEW e \in Exchanges, out[e] # <<>>
  PROVE  /\ Answer(e, out[e][1])
         /\ packet[e] \in Packets
         /\ out[e][1].code = "Content" => Routed(e) /\ out[e][1] = Response(e)
<1>1. task[e] \notin {"none", "spawned", "handling"}
  BY DEF ControlInv, Told
<1>2. Observes(e) => Answer(e, Response(e))
  BY DEF Observes, Answer
<1>3. Answer(e, out[e][1])
  <2>1. CASE task[e] \in {"parked", "sending"}
    BY <1>2, <2>1 DEF ControlInv, Told
  <2>2. CASE task[e] \in {"done", "ignored", "panicked"}
    BY <1>2, <2>2 DEF ControlInv, Told
  <2> QED
    BY <1>1, <2>1, <2>2 DEF ControlInv, Types, Tasks
<1>4. \A c : Failure(e, c).code = c
  BY DEF Failure
<1>5. out[e][1].code = "Content" => Routed(e) /\ out[e][1] = Response(e)
  BY <1>3, <1>4 DEF Answer, ErrorCodes
<1> QED
  BY <1>1, <1>3, <1>5 DEF ControlInv, Given

(* The resource of a routed request, by the table.                         *)
LEMMA ResourceOnTheWay ==
  ASSUME ControlInv, NEW e \in Exchanges, packet[e] \in Packets
  PROVE  /\ Matched(e) = NoMatch =>
              \A d \in 0 .. Len(packet[e].path) : UpTo(packet[e].path, d) \notin Keys
         /\ Matched(e) # NoMatch =>
              /\ Matched(e) \in 0 .. Len(packet[e].path)
              /\ KeyOf(App, Resource(e)) = UpTo(packet[e].path, Matched(e))
              /\ KeyOf(App, Resource(e)) \in Keys
              /\ Len(KeyOf(App, Resource(e))) = Matched(e)
              /\ \A d \in 0 .. Len(packet[e].path) :
                   UpTo(packet[e].path, d) \in Keys =>
                     Len(UpTo(packet[e].path, d)) <= Matched(e)
              /\ KeyOf(App, Resource(e)) \o Unmatched(e) = packet[e].path
<1> DEFINE path == packet[e].path
           V == Elements(path)
<1>1. path \in Seq(V) /\ Len(path) \in Nat
  BY AppAssumption DEF IsSequence
<1>2. /\ DOMAIN table = Keys
      /\ \A k \in Keys : KeyOf(App, table[k]) = k
  BY TableIsWhole DEF ControlInv, Types
<1>3. Longest(table, path, Len(path), Matched(e))
  BY <1>1, LookupIsLongest DEF Matched
<1> HIDE DEF path, V
<1>4. \A d \in 0 .. Len(path) : Len(UpTo(path, d)) = d
  <2>1. \A d \in 0 .. Len(path) : \A i \in 1 .. d : path[i] \in V
    BY <1>1
  <2>2. \A d \in 0 .. Len(path) : Len(SubSeq(path, 1, d)) = IF 1 <= d THEN d - 1 + 1 ELSE 0
    BY <1>1, <2>1, SubSeqProperties
  <2> QED
    BY <1>1, <2>2 DEF UpTo
<1>5. CASE Matched(e) = NoMatch
  <2>1. \A d \in 0 .. Len(path) : UpTo(path, d) \notin Keys
    BY <1>1, <1>2, <1>3, <1>5 DEF Longest, NoMatch
  <2> QED
    BY <1>5, <2>1 DEF path
<1>6. CASE Matched(e) # NoMatch
  <2>1. /\ Matched(e) \in 0 .. Len(path) /\ UpTo(path, Matched(e)) \in Keys
        /\ \A d \in 0 .. Len(path) : UpTo(path, d) \in Keys => d <= Matched(e)
    BY <1>2, <1>3, <1>6 DEF Longest
  <2>2. Resource(e) = table[UpTo(path, Matched(e))]
    BY DEF Resource, path
  <2>3. KeyOf(App, Resource(e)) = UpTo(path, Matched(e))
    BY <1>2, <2>1, <2>2
  <2>4. UpTo(path, Matched(e)) \o Unmatched(e) = path
    <3>1. SubSeq(path, 1, Matched(e)) \o SubSeq(path, Matched(e) + 1, Len(path))
            = SubSeq(path, 1, Len(path))
      BY <1>1, <2>1, ConcatAdjacentSubSeq
    <3> QED
      BY <1>1, <3>1, SubSeqFull DEF UpTo, Unmatched, path
  <2> QED
    BY <1>4, <1>6, <2>1, <2>3, <2>4 DEF path
<1> QED
  BY <1>5, <1>6

(* A request is answered by the resource with the longest path on its way, *)
(* with the rest of its path, and with 4.04 only if there is none, for any *)
(* app and any path.                                                       *)
THEOREM RequestsAreRouted == Spec => []RoutedToMostSpecific
<1>1. ControlInv => RoutedToMostSpecific
  <2> SUFFICES ASSUME ControlInv, NEW e \in Exchanges, out[e] # <<>>,
                      packet[e].class = "Request"
               PROVE
    LET onWay == {UpTo(packet[e].path, d) : d \in 0 .. Len(packet[e].path)} \cap Keys
    IN  /\ out[e][1].code = "NotFound" <=> IsText(packet[e].path) /\ onWay = {}
        /\ out[e][1].code = "Content" =>
             /\ KeyOf(App, out[e][1].by) \in onWay
             /\ \A k \in onWay : Len(k) <= Len(KeyOf(App, out[e][1].by))
             /\ KeyOf(App, out[e][1].by) \o out[e][1].rest = packet[e].path
    BY DEF RoutedToMostSpecific
  <2> DEFINE path == packet[e].path
             onWay == {UpTo(path, d) : d \in 0 .. Len(path)} \cap Keys
  <2>1. /\ Answer(e, out[e][1]) /\ packet[e] \in Packets
        /\ out[e][1].code = "Content" => Routed(e) /\ out[e][1] = Response(e)
    BY FirstIsAnswer
  <2>2. Matched(e) = NoMatch => onWay = {}
    BY <2>1, ResourceOnTheWay
  <2>3. Matched(e) # NoMatch =>
          /\ KeyOf(App, Resource(e)) \in onWay
          /\ \A k \in onWay : Len(k) <= Len(KeyOf(App, Resource(e)))
          /\ KeyOf(App, Resource(e)) \o Unmatched(e) = path
    BY <2>1, ResourceOnTheWay
  <2>4. \A c : Failure(e, c).code = c
    BY DEF Failure
  <2>5. Response(e).code = "Content" /\ Response(e).by = Resource(e)
        /\ Response(e).rest = Unmatched(e)
    BY DEF Response
  <2>6. out[e][1].code = "NotFound" <=> IsText(path) /\ Matched(e) = NoMatch
    BY <2>1, <2>4, <2>5 DEF Answer, Routed, ErrorCodes
  <2>7. Routed(e) => Matched(e) # NoMatch
    BY DEF Routed
  <2> QED
    BY <2>1, <2>2, <2>3, <2>5, <2>6, <2>7
<1> QED
  BY ControlInvariance, <1>1, PTL

(* Every link of a listing, of any app, leads to a resource under its      *)
(* whole path, which is the listed one if no other one has that path.      *)
THEOREM DiscoveredResourcesAreServed == Spec => []DiscoveryIsServed
<1>1. ControlInv => DiscoveryIsServed
  <2> SUFFICES ASSUME ControlInv, NEW e \in Exchanges, out[e] # <<>>,
                      out[e][1].code = "Content", NEW i \in out[e][1].links
               PROVE
    /\ Lookup(table, Segments(App.resources[i].path)) = Len(Segments(App.resources[i].path))
    /\ PathsAreDistinct(App) => table[Segments(App.resources[i].path)] = i
    BY DEF DiscoveryIsServed
  <2> DEFINE written == App.resources[i].path
             path == Segments(written)
             V == {written[n] : n \in 1 .. Len(written)} \ {Empty}
  <2>1. i \in App.links
    <3>1. i \in Response(e).links
      BY FirstIsAnswer
    <3>2. Response(e).links \subseteq Listing(App, packet[e].query)
      BY DEF Response
    <3> QED
      BY <3>1, <3>2 DEF Listing
  <2>2. app \in DOMAIN Apps /\ table \in Tables(App)
    BY DEF ControlInv, Types
  <2>3. i \in DOMAIN App.resources /\ Len(written) \in Nat
    BY <2>1, <2>2, AppShape
  <2>4. KeyOf(App, i) = path /\ path \in Seq(V)
    BY <2>3, KeyIsSegments DEF KeyOf
  <2>5. path \in Keys
    BY <2>3, <2>4 DEF Keys
  <2>6. /\ DOMAIN table = Keys
        /\ table[path] \in DOMAIN App.resources /\ KeyOf(App, table[path]) = path
    BY <2>2, <2>5, TableIsWhole
  <2> HIDE DEF path, V
  <2>7. Longest(table, path, Len(path), Lookup(table, path)) /\ Len(path) \in Nat
    BY <2>4, LookupIsLongest
  <2>8. UpTo(path, Len(path)) = path
    BY <2>4, SubSeqFull DEF UpTo
  <2>9. Lookup(table, path) = Len(path)
    BY <2>5, <2>6, <2>7, <2>8 DEF Longest
  <2>10. PathsAreDistinct(App) => table[path] = i
    BY <2>3, <2>4, <2>6 DEF PathsAreDistinct
  <2> QED
    BY <2>9, <2>10 DEF path
<1> QED
  BY ControlInvariance, <1>1, PTL

(* What is asked for and what a link shows, by key.                        *)
LEMMA QueryIsAsked ==
  ASSUME NEW options, IsSequence(options)
  PROVE  LET Q == RequestGetQueries(options) IN
         /\ \A q \in Asked(options) : q[1] \in DOMAIN Q /\ Q[q[1]] = q[2]
         /\ \A k \in DOMAIN Q : <<k, Q[k]>> \in Asked(options)
<1> DEFINE n == Len(options)
           counted == {i \in DOMAIN options : IsQuery(options[i])}
           Q == RequestGetQueries(options)
<1>1. n \in Nat /\ DOMAIN options = 1 .. n
  BY DEF IsSequence
<1>2. counted \in SUBSET (1 .. n) /\ Q = Collected(options, counted)
  BY <1>1 DEF RequestGetQueries
<1>3. \A i : IsLast(options, counted, i) <=>
        /\ i \in DOMAIN options /\ IsQuery(options[i])
        /\ \A l \in i + 1 .. Len(options) :
             IsQuery(options[l]) => options[l][1] # options[i][1]
  BY <1>1 DEF IsLast
<1>4. \A q : q \in Asked(options) <=>
        \E i \in counted :
          IsLast(options, counted, i) /\ q = <<options[i][1], options[i][2]>>
  BY <1>3 DEF Asked
<1> HIDE DEF n, counted, Q
<1>5. \A i \in counted : options[i][1] \in DOMAIN Q
  BY <1>1, <1>2, CollectedLast
<1>6. \A i \in counted : IsLast(options, counted, i) => Q[options[i][1]] = options[i][2]
  BY <1>1, <1>2, CollectedLast
<1>7. \A k \in DOMAIN Q : \E i \in counted : options[i][1] = k /\ IsLast(options, counted, i)
  BY <1>1, <1>2, CollectedLast
<1>8. \A q \in Asked(options) : q[1] \in DOMAIN Q /\ Q[q[1]] = q[2]
  BY <1>4, <1>5, <1>6
<1>9. \A k \in DOMAIN Q : <<k, Q[k]>> \in Asked(options)
  BY <1>4, <1>6, <1>7
<1> QED
  BY <1>8, <1>9 DEF Q

LEMMA LinkShows ==
  ASSUME NEW link, IsSequence(link.attributes)
  PROVE  LET attributes == Discoverable(link).attributes
             shown == {<<link.attributes[n][1], link.attributes[n][2].text>> :
                         n \in DOMAIN link.attributes}
         IN  /\ \A k \in DOMAIN attributes : <<k, attributes[k]>> \in shown
             /\ \A v \in shown : v[1] \in DOMAIN attributes
<1> DEFINE written == link.attributes
           N == DOMAIN written
           pairs == [n \in N |-> <<written[n][1], written[n][2].text>>]
           attributes == Discoverable(link).attributes
<1>1. Len(written) \in Nat /\ N \in SUBSET (1 .. Len(written))
  BY DEF IsSequence
<1>2. attributes = Collected(pairs, N)
  BY DEF Discoverable
<1>3. \A n \in N : pairs[n][1] = written[n][1] /\ pairs[n][2] = written[n][2].text
  OBVIOUS
<1> HIDE DEF pairs, attributes, N
<1>4. \A i \in N : pairs[i][1] \in DOMAIN attributes
  BY <1>1, <1>2, CollectedLast
<1>5. \A i \in N : IsLast(pairs, N, i) => attributes[pairs[i][1]] = pairs[i][2]
  BY <1>1, <1>2, CollectedLast
<1>6. \A k \in DOMAIN attributes : \E i \in N : pairs[i][1] = k /\ IsLast(pairs, N, i)
  BY <1>1, <1>2, CollectedLast
<1>7. \A k \in DOMAIN attributes : \E i \in N :
        k = written[i][1] /\ attributes[k] = written[i][2].text
  BY <1>3, <1>5, <1>6
<1> QED
  BY <1>3, <1>4, <1>7 DEF attributes, N

(* A listing has the links that show what was asked for last, and leaves   *)
(* out no other one than links that have an attribute twice.               *)
THEOREM ListingsMatchQueries == Spec => []DiscoveryMatchesQuery
<1>1. ControlInv => DiscoveryMatchesQuery
  <2> SUFFICES ASSUME ControlInv, NEW e \in Exchanges, out[e] # <<>>,
                      out[e][1].code = "Content", out[e][1].by = App.core,
                      NEW i \in App.links
               PROVE
    /\ i \in out[e][1].links => Asked(packet[e].query) \subseteq Shown(i)
    /\ (/\ Asked(packet[e].query) \subseteq Shown(i)
        /\ \A v, w \in Shown(i) : v[1] = w[1] => v = w)
         => i \in out[e][1].links
    BY DEF DiscoveryMatchesQuery
  <2> DEFINE Q == RequestGetQueries(packet[e].query)
             link == Apps[app].resources[i].link
             attributes == Discoverable(link).attributes
  <2>1. out[e][1] = Response(e) /\ packet[e] \in Packets
    BY FirstIsAnswer
  <2>2. Resource(e) = App.core
    BY <2>1 DEF Response
  <2>3. i \in out[e][1].links <=> FilterByQuery(App.resources[i].discoverable, Q)
    BY <2>1, <2>2 DEF Response, Listing
  <2>4. /\ App.resources[i].discoverable = Discoverable(link)
        /\ IsSequence(link.attributes)
    BY AppShape DEF ControlInv, Types
  <2>5. Shown(i) = {<<link.attributes[n][1], link.attributes[n][2].text>> :
                      n \in DOMAIN link.attributes}
    <3>1. App.resources[i].discoverable.link = link
      <4>1. \A l : Discoverable(l).link = l
        BY DEF Discoverable
      <4> HIDE DEF link
      <4> QED
        BY <2>4, <4>1
    <3> HIDE DEF link
    <3> QED
      BY <3>1 DEF Shown
  <2>6. /\ \A k \in DOMAIN attributes : <<k, attributes[k]>> \in Shown(i)
        /\ \A v \in Shown(i) : v[1] \in DOMAIN attributes
    BY <2>4, <2>5, LinkShows
  <2>7. /\ \A q \in Asked(packet[e].query) : q[1] \in DOMAIN Q /\ Q[q[1]] = q[2]
        /\ \A k \in DOMAIN Q : <<k, Q[k]>> \in Asked(packet[e].query)
    BY <2>1, QueryIsAsked, AppAssumption
  <2>8. \A q \in Asked(packet[e].query) : q = <<q[1], q[2]>>
    BY DEF Asked
  <2>9. FilterByQuery(App.resources[i].discoverable, Q) <=>
          \A k \in DOMAIN Q : k \in DOMAIN attributes /\ Q[k] = attributes[k]
    BY <2>4 DEF FilterByQuery
  <2> HIDE DEF Q, link, attributes
  <2>10. ASSUME FilterByQuery(App.resources[i].discoverable, Q),
                NEW q \in Asked(packet[e].query)
         PROVE  q \in Shown(i)
    <3>1. q[1] \in DOMAIN attributes /\ q[2] = attributes[q[1]]
      BY <2>7, <2>9, <2>10
    <3> QED
      BY <2>6, <2>8, <3>1
  <2>11. ASSUME Asked(packet[e].query) \subseteq Shown(i),
                \A v, w \in Shown(i) : v[1] = w[1] => v = w, NEW k \in DOMAIN Q
         PROVE  k \in DOMAIN attributes /\ Q[k] = attributes[k]
    <3> DEFINE v == <<k, Q[k]>>
               w == <<k, attributes[k]>>
    <3>1. v \in Shown(i) /\ v[1] = k /\ v[2] = Q[k]
      BY <2>7, <2>11
    <3>2. k \in DOMAIN attributes
      BY <2>6, <3>1
    <3>3. w \in Shown(i) /\ w[1] = k /\ w[2] = attributes[k]
      BY <2>6, <3>2
    <3> HIDE DEF v, w
    <3> QED
      BY <2>11, <3>1, <3>2, <3>3
  <2> QED
    BY <2>3, <2>9, <2>10, <2>11
<1> QED
  BY ControlInvariance, <1>1, PTL
=============================================================================
