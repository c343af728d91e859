------------------------- MODULE QmlStructuresProofs -------------------------
(***************************************************************************)
(* What module QmlStructures promises, for every set of wrappers, values   *)
(* and gadgets, structures of any number of fields and lists of any length.*)
(*                                                                         *)
(* A call may lead to others before it returns.  What each of them, with   *)
(* all it leads to, leaves standing is one relation, Keeps: whoever calls  *)
(* and is called back in the middle of it relies on nothing else.          *)
(***************************************************************************)
EXTENDS QmlStructures, SequenceTheorems, FiniteSetTheorems, WellFoundedInduction, TLAPS

-----------------------------------------------------------------------------
(***************************************************************************)
(* The parts of the invariant.                                             *)
(***************************************************************************)
\* Only the wrapper that is assigned is connected for the structure.
Wired(s) ==
  /\ s.pointer # NoWrapper => s.pointer \in s.alive
  /\ \A w \in Wrapper : w # s.pointer => "struct" \notin ToSet(s.slots[w])

\* And it is connected, except while it is being assigned.
Linked(s) == s.pointer # NoWrapper => "struct" \in ToSet(s.slots[s.pointer])

\* Neither exception of StructureFollows applies.
Clean(s) == ~s.unheard /\ "struct" \notin s.foreign

Sound(s) == Wired(s) /\ (Clean(s) => s.read = s.value)

Even(s) == Clean(s) => s.value = Shown(s)

StructureOK(s) == Sound(s) /\ Linked(s) /\ Even(s)

Listed(s, w) == [kind |-> "wrapper", wrapper |-> w] \in ToSet(s.assigned)

\* The wrappers in the list that still exist are connected for it, no others.
Watched(s) ==
  \A w \in Wrapper :
    /\ "list" \in ToSet(s.slots[w]) => Listed(s, w)
    /\ w \in s.alive /\ Listed(s, w) => "list" \in ToSet(s.slots[w])

Told(s) == s.elementsRead = s.elements

Filled(s) ==
  "list" \notin s.foreign /\ ~s.undefined =>
    /\ Len(s.elements) = Len(s.assigned)
    /\ \A n \in DOMAIN s.elements : s.elements[n] = Content(s, s.assigned[n])

ListOK(s) == Watched(s) /\ Told(s) /\ Filled(s)

\* What a call and all it leads to keeps, whenever it is made: before a
\* wrapper is connected only some parts of the invariant hold.
Keeps(s, q) ==
  /\ q \in State /\ q.alive = s.alive /\ q.assigned = s.assigned
  /\ Wired(s) => Wired(q)
  /\ Sound(s) => Sound(q)
  /\ Sound(s) /\ Linked(s) => Linked(q) /\ (Even(q) \/ q.pointer = s.pointer)
  /\ StructureOK(s) => StructureOK(q)
  /\ Watched(s) /\ Told(s) => Watched(q) /\ Told(q)
  /\ ListOK(s) => ListOK(q)

\* Between two calls.
AtRest(s) == s \in State /\ s.reaction = None /\ StructureOK(s) /\ ListOK(s)

Inv == AtRest(qml)

-----------------------------------------------------------------------------
(***************************************************************************)
(* Recursive functions.                                                    *)
(***************************************************************************)
LEMMA LeastNatural ==
  ASSUME NEW T, T \subseteq Nat, T # {}
  PROVE  \E n \in T : \A m \in T : n <= m
<1>. DEFINE R == OpToRel(<, Nat)
<1>1. IsWellFoundedOn(R, Nat)
  BY NatLessThanWellFounded, Zenon
<1>2. \A m, n \in Nat : m < n => <<m, n>> \in R
  BY DEF OpToRel
<1>. HIDE DEF R
<1>3. PICK n \in T : \A m \in T : ~(<<m, n>> \in R)
  BY <1>1, WFMin
<1>4. ASSUME NEW m \in T
      PROVE  n <= m
  <2>1. m \in Nat /\ n \in Nat
    OBVIOUS
  <2>2. ~(m < n)
    BY <1>2, <1>3, <2>1
  <2>. QED  BY <2>1, <2>2
<1>. QED  BY <1>4

LEMMA CountUp ==
  ASSUME NEW N \in Nat, NEW S, 0 \in S, \A n \in 1 .. N : n - 1 \in S => n \in S
  PROVE  \A n \in 0 .. N : n \in S
<1>. DEFINE T == {n \in 0 .. N : n \notin S}
<1>. SUFFICES ASSUME T # {}
              PROVE  FALSE
  OBVIOUS
<1>1. PICK n \in T : \A m \in T : n <= m
  <2>1. T \subseteq Nat
    OBVIOUS
  <2>. HIDE DEF T
  <2>. QED  BY <2>1, LeastNatural
<1>2. n \in 1 .. N /\ n - 1 \in 0 .. N
  OBVIOUS
<1>3. n - 1 \in S
  BY <1>1, <1>2
<1>. QED  BY <1>2, <1>3

Recursion(f, N, base, next) ==
  f = [n \in 0 .. N |-> IF n = 0 THEN base ELSE next[n][f[n - 1]]]

LEMMA RecursionSteps ==
  ASSUME NEW N \in Nat, NEW base, NEW next, NEW f, Recursion(f, N, base, next)
  PROVE  /\ f = [n \in 0 .. N |-> f[n]] /\ f[0] = base
         /\ \A n \in 1 .. N : n - 1 \in 0 .. N /\ f[n] = next[n][f[n - 1]]
<1>1. f = [n \in 0 .. N |-> IF n = 0 THEN base ELSE next[n][f[n - 1]]]
  BY DEF Recursion
<1>2. f = [n \in 0 .. N |-> f[n]]
  BY <1>1
<1>3. \A n \in 0 .. N : f[n] = IF n = 0 THEN base ELSE next[n][f[n - 1]]
  BY <1>1
<1>4. \A n \in 1 .. N : n \in 0 .. N /\ n # 0 /\ n - 1 \in 0 .. N
  OBVIOUS
<1>5. f[0] = base
  BY <1>3
<1>6. \A n \in 1 .. N : f[n] = next[n][f[n - 1]]
  BY <1>3, <1>4, Zenon
<1>. QED  BY <1>2, <1>4, <1>5, <1>6

\* A recursive function over 0 .. N whose step n leads from I[n - 1] into I[n]
\* is defined.
LEMMA Solution ==
  ASSUME NEW N \in Nat, NEW base, NEW next, NEW I, base \in I[0],
         \A n \in 1 .. N : \A x \in I[n - 1] : next[n][x] \in I[n]
  PROVE  \E f : Recursion(f, N, base, next) /\ \A n \in 0 .. N : f[n] \in I[n]
<1>. DEFINE Solves(f, M) ==
              /\ f = [n \in 0 .. M |-> IF n = 0 THEN base ELSE next[n][f[n - 1]]]
              /\ \A n \in 0 .. M : f[n] \in I[n]
            S == {M \in 0 .. N : \E f : Solves(f, M)}
<1>1. 0 \in S
  <2>. DEFINE f == [n \in 0 .. 0 |-> base]
  <2>1. f = [n \in 0 .. 0 |-> IF n = 0 THEN base ELSE next[n][f[n - 1]]]
    OBVIOUS
  <2>2. \A n \in 0 .. 0 : f[n] \in I[n]
    OBVIOUS
  <2>. HIDE DEF f
  <2>. QED  BY <2>1, <2>2
<1>2. ASSUME NEW M \in 1 .. N, M - 1 \in S
      PROVE  M \in S
  <2>1. PICK f : Solves(f, M - 1)
    BY <1>2
  <2>. DEFINE g == [n \in 0 .. M |-> IF n < M THEN f[n] ELSE next[M][f[M - 1]]]
  <2>2. \A n \in 0 .. M - 1 : g[n] = f[n]
    OBVIOUS
  <2>3. g[M] = next[M][f[M - 1]]
    OBVIOUS
  <2>4. \A n \in 1 .. M - 1 : f[n] = next[n][f[n - 1]]
    BY <2>1
  <2>5. f[0] = base
    BY <2>1
  <2>6. \A n \in 0 .. M : g[n] = IF n = 0 THEN base ELSE next[n][g[n - 1]]
    <3>. HIDE DEF g
    <3>. QED  BY <2>2, <2>3, <2>4, <2>5
  <2>7. g = [n \in 0 .. M |-> IF n = 0 THEN base ELSE next[n][g[n - 1]]]
    <3>1. g = [n \in 0 .. M |-> g[n]]
      OBVIOUS
    <3>. HIDE DEF g
    <3>. QED  BY <2>6, <3>1
  <2>8. \A n \in 0 .. M : g[n] \in I[n]
    <3>1. f[M - 1] \in I[M - 1]
      BY <2>1
    <3>. HIDE DEF g
    <3>2. g[M] \in I[M]
      BY <2>3, <3>1
    <3>. QED  BY <2>1, <2>2, <3>2
  <2>. HIDE DEF g
  <2>. QED  BY <2>7, <2>8
<1>3. N \in S
  <2>. HIDE DEF S
  <2>. QED  BY <1>1, <1>2, CountUp
<1>. QED  BY <1>3 DEF Recursion

-----------------------------------------------------------------------------
(***************************************************************************)
(* Connections.                                                            *)
(***************************************************************************)
LEMMA AppendedSet ==
  ASSUME NEW S, NEW q \in Seq(S), NEW e \in S
  PROVE  Append(q, e) \in Seq(S) /\ ToSet(Append(q, e)) = ToSet(q) \union {e}
<1>1. /\ Append(q, e) \in Seq(S) /\ Len(q) \in Nat /\ Len(Append(q, e)) = Len(q) + 1
      /\ \A n \in 1 .. Len(q) : Append(q, e)[n] = q[n]
      /\ Append(q, e)[Len(q) + 1] = e
  BY AppendProperties, LenProperties
<1>2. DOMAIN q = 1 .. Len(q) /\ DOMAIN Append(q, e) = 1 .. Len(q) + 1
  BY <1>1, LenProperties
<1>3. \A n : n \in 1 .. Len(q) + 1 <=> n \in 1 .. Len(q) \/ n = Len(q) + 1
  BY <1>1
<1>. QED  BY <1>1, <1>2, <1>3 DEF ToSet

LEMMA JoinedSet ==
  ASSUME NEW S, NEW q \in Seq(S), NEW r \in Seq(S)
  PROVE  q \o r \in Seq(S) /\ ToSet(q \o r) = ToSet(q) \union ToSet(r)
<1>1. /\ q \o r \in Seq(S) /\ Len(q) \in Nat /\ Len(r) \in Nat
      /\ Len(q \o r) = Len(q) + Len(r)
      /\ \A n \in 1 .. Len(q) + Len(r) :
           (q \o r)[n] = IF n <= Len(q) THEN q[n] ELSE r[n - Len(q)]
  BY ConcatProperties, LenProperties
<1>2. /\ DOMAIN q = 1 .. Len(q) /\ DOMAIN r = 1 .. Len(r)
      /\ DOMAIN (q \o r) = 1 .. Len(q) + Len(r)
  BY <1>1, LenProperties
<1>3. ToSet(q \o r) \subseteq ToSet(q) \union ToSet(r)
  <2>1. ASSUME NEW n \in 1 .. Len(q) + Len(r)
        PROVE  (q \o r)[n] \in ToSet(q) \union ToSet(r)
    <3>1. CASE n <= Len(q)
      BY <1>1, <1>2, <3>1 DEF ToSet
    <3>2. CASE ~(n <= Len(q))
      <4>1. n - Len(q) \in 1 .. Len(r)
        BY <1>1, <3>2
      <4>. QED  BY <1>1, <1>2, <3>2, <4>1 DEF ToSet
    <3>. QED  BY <3>1, <3>2
  <2>. QED  BY <1>2, <2>1 DEF ToSet
<1>4. ToSet(q) \subseteq ToSet(q \o r)
  <2>1. \A n \in 1 .. Len(q) : n \in 1 .. Len(q) + Len(r) /\ (q \o r)[n] = q[n]
    BY <1>1
  <2>. QED  BY <1>2, <2>1 DEF ToSet
<1>5. ToSet(r) \subseteq ToSet(q \o r)
  <2>1. \A n \in 1 .. Len(r) :
          Len(q) + n \in 1 .. Len(q) + Len(r) /\ (q \o r)[Len(q) + n] = r[n]
    BY <1>1
  <2>. QED  BY <1>2, <2>1 DEF ToSet
<1>. QED  BY <1>1, <1>3, <1>4, <1>5

LEMMA OthersIs ==
  ASSUME NEW c \in Seq(Property), NEW kind \in Property
  PROVE  Others(c, kind) \in Seq(Property) /\ ToSet(Others(c, kind)) = ToSet(c) \ {kind}
<1>. DEFINE N == Len(c)
            I == [n \in 0 .. N |->
                    {q \in Seq(Property) : ToSet(q) = {c[k] : k \in 1 .. n} \ {kind}}]
            Step(q, n) == IF c[n] = kind THEN q ELSE Append(q, c[n])
            next == [n \in 1 .. N |-> [q \in I[n - 1] |-> Step(q, n)]]
            Is(g) == g = [n \in 0 .. N |->
                            IF n = 0 THEN <<>>
                            ELSE IF c[n] = kind THEN g[n - 1]
                            ELSE Append(g[n - 1], c[n])]
            kept == CHOOSE g : Is(g)
<1>1. Others(c, kind) = kept[N]
  BY DEF Others
<1>2. N \in Nat /\ DOMAIN c = 1 .. N /\ \A n \in 1 .. N : c[n] \in Property
  BY LenProperties, ElementOfSeq
<1>3. <<>> \in I[0]
  <2>1. <<>> \in Seq(Property) /\ ToSet(<<>>) = {} /\ {c[k] : k \in 1 .. 0} = {}
    BY EmptySeq DEF ToSet
  <2>. QED  BY <1>2, <2>1
<1>4. ASSUME NEW n \in 1 .. N, NEW q \in I[n - 1]
      PROVE  Step(q, n) \in I[n] /\ next[n][q] = Step(q, n)
  <2>1. n - 1 \in 0 .. N /\ n \in 0 .. N
    BY <1>2
  <2>2. q \in Seq(Property) /\ ToSet(q) = {c[k] : k \in 1 .. n - 1} \ {kind}
    BY <1>4, <2>1
  <2>3. {c[k] : k \in 1 .. n} = {c[k] : k \in 1 .. n - 1} \union {c[n]}
    <3>1. \A k : k \in 1 .. n <=> k \in 1 .. n - 1 \/ k = n
      BY <1>2
    <3>. QED  BY <3>1
  <2>4. CASE c[n] = kind
    BY <2>1, <2>2, <2>3, <2>4
  <2>5. CASE c[n] # kind
    <3>1. Append(q, c[n]) \in Seq(Property) /\ ToSet(Append(q, c[n])) = ToSet(q) \union {c[n]}
      BY <1>2, <2>2, AppendedSet
    <3>. QED  BY <2>1, <2>2, <2>3, <2>5, <3>1
  <2>. QED  BY <2>4, <2>5
<1>. HIDE DEF N, I, next
<1>5. PICK f : Recursion(f, N, <<>>, next) /\ \A n \in 0 .. N : f[n] \in I[n]
  <2>1. \A n \in 1 .. N : \A x \in I[n - 1] : next[n][x] \in I[n]
    BY <1>4
  <2>. QED  BY <1>2, <1>3, <2>1, Solution
<1>6. Is(f)
  <2>1. /\ f = [n \in 0 .. N |-> f[n]] /\ f[0] = <<>>
        /\ \A n \in 1 .. N : n - 1 \in 0 .. N /\ f[n] = next[n][f[n - 1]]
    BY <1>2, <1>5, RecursionSteps
  <2>2. \A n \in 1 .. N : f[n] = Step(f[n - 1], n)
    BY <1>4, <1>5, <2>1
  <2>3. ASSUME NEW n \in 0 .. N
        PROVE  f[n] = IF n = 0 THEN <<>>
                      ELSE IF c[n] = kind THEN f[n - 1] ELSE Append(f[n - 1], c[n])
    <3>1. n = 0 \/ n \in 1 .. N
      BY <1>2
    <3>. QED  BY <2>1, <2>2, <3>1
  <2>. QED  BY <2>1, <2>3
<1>7. Is(kept)
  BY <1>6
<1>. HIDE DEF kept
<1>8. \A n \in 0 .. N : kept[n] \in I[n]
  <2>. DEFINE S == {n \in 0 .. N : kept[n] \in I[n]}
  <2>1. 0 \in S
    BY <1>2, <1>3, <1>7
  <2>2. ASSUME NEW n \in 1 .. N, n - 1 \in S
        PROVE  n \in S
    <3>1. n \in 0 .. N /\ n # 0 /\ kept[n - 1] \in I[n - 1]
      BY <1>2, <2>2
    <3>2. kept[n] = Step(kept[n - 1], n)
      BY <1>7, <3>1
    <3>. QED  BY <1>4, <3>1, <3>2
  <2>. HIDE DEF S
  <2>3. \A n \in 0 .. N : n \in S
    BY <1>2, <2>1, <2>2, CountUp
  <2>. QED  BY <2>3 DEF S
<1>9. kept[N] \in Seq(Property) /\ ToSet(kept[N]) = {c[k] : k \in 1 .. N} \ {kind}
  BY <1>2, <1>8 DEF I
<1>. QED  BY <1>1, <1>2, <1>9 DEF ToSet

LEMMA WithoutIs ==
  ASSUME NEW slots \in [Wrapper -> Seq(Property)], NEW kind \in Property
  PROVE  /\ Without(slots, kind) \in [Wrapper -> Seq(Property)]
         /\ \A w \in Wrapper : ToSet(Without(slots, kind)[w]) = ToSet(slots[w]) \ {kind}
BY OthersIs DEF Without

LEMMA CountIs ==
  ASSUME NEW s \in State, NEW w \in Wrapper
  PROVE  Count(s, w) \in Nat /\ (Count(s, w) > 0 <=> Listed(s, w))
<1>. DEFINE T == {n \in DOMAIN s.assigned :
                    s.assigned[n] = [kind |-> "wrapper", wrapper |-> w]}
<1>1. s.assigned \in Seq(Variant)
  BY DEF State
<1>2. Len(s.assigned) \in Nat /\ DOMAIN s.assigned = 1 .. Len(s.assigned)
  BY <1>1, LenProperties
<1>3. IsFiniteSet(T)
  <2>1. IsFiniteSet(1 .. Len(s.assigned))
    BY <1>2, FS_Interval
  <2>. QED  BY <1>2, <2>1, FS_Subset
<1>4. Cardinality(T) \in Nat /\ (Cardinality(T) = 0 <=> T = {})
  BY <1>3, FS_CardinalityType, FS_EmptySet
<1>5. T # {} <=> Listed(s, w)
  BY DEF Listed, ToSet
<1>6. Count(s, w) = Cardinality(T)
  BY DEF Count
<1>. QED  BY <1>4, <1>5, <1>6

LEMMA WatchIs ==
  ASSUME NEW s \in State
  PROVE  /\ Watch(s) \in [Wrapper -> Seq(Property)]
         /\ \A w \in Wrapper :
              ToSet(Watch(s)[w]) =
                (ToSet(s.slots[w]) \ {"list"})
                  \union (IF w \in s.alive /\ Listed(s, w) THEN {"list"} ELSE {})
<1>. DEFINE cleared == Without(s.slots, "list")
            added(w) == IF w \in s.alive THEN [n \in 1 .. Count(s, w) |-> "list"] ELSE <<>>
<1>1. /\ cleared \in [Wrapper -> Seq(Property)]
      /\ \A w \in Wrapper : ToSet(cleared[w]) = ToSet(s.slots[w]) \ {"list"}
  <2>1. s.slots \in [Wrapper -> Seq(Property)] /\ "list" \in Property
    BY DEF State, Property
  <2>. QED  BY <2>1, WithoutIs
<1>2. ASSUME NEW w \in Wrapper
      PROVE  /\ added(w) \in Seq(Property)
             /\ ToSet(added(w)) = IF w \in s.alive /\ Listed(s, w) THEN {"list"} ELSE {}
  <2>1. CASE w \in s.alive
    <3>1. Count(s, w) \in Nat /\ (Count(s, w) > 0 <=> Listed(s, w))
      BY CountIs
    <3>2. "list" \in Property
      BY DEF Property
    <3>3. [n \in 1 .. Count(s, w) |-> "list"] \in Seq(Property)
      BY <3>1, <3>2
    <3>4. ToSet([n \in 1 .. Count(s, w) |-> "list"]) = {"list" : n \in 1 .. Count(s, w)}
      BY DEF ToSet
    <3>5. 1 .. Count(s, w) # {} <=> Count(s, w) > 0
      BY <3>1
    <3>. QED  BY <2>1, <3>1, <3>3, <3>4, <3>5
  <2>2. CASE w \notin s.alive
    BY <2>2, EmptySeq DEF ToSet
  <2>. QED  BY <2>1, <2>2
<1>3. Watch(s) = [w \in Wrapper |-> cleared[w] \o added(w)]
  BY DEF Watch
<1>. HIDE DEF cleared, added
<1>4. ASSUME NEW w \in Wrapper
      PROVE  /\ cleared[w] \o added(w) \in Seq(Property)
             /\ ToSet(cleared[w] \o added(w)) = ToSet(cleared[w]) \union ToSet(added(w))
  BY <1>1, <1>2, JoinedSet
<1>. QED  BY <1>1, <1>2, <1>3, <1>4

-----------------------------------------------------------------------------
(***************************************************************************)
(* What is kept.                                                           *)
(***************************************************************************)
\* For the list nothing has changed.
SameList(s, q) ==
  /\ q.alive = s.alive /\ q.assigned = s.assigned /\ q.fields = s.fields
  /\ q.elements = s.elements /\ q.elementsRead = s.elementsRead
  /\ q.undefined = s.undefined
  /\ "list" \in q.foreign <=> "list" \in s.foreign
  /\ \A w \in Wrapper : "list" \in ToSet(q.slots[w]) <=> "list" \in ToSet(s.slots[w])

\* For the structure nothing has changed.
SameStructure(s, q) ==
  /\ q.alive = s.alive /\ q.fields = s.fields /\ q.pointer = s.pointer
  /\ q.value = s.value /\ q.read = s.read /\ q.unheard = s.unheard
  /\ "struct" \in q.foreign <=> "struct" \in s.foreign
  /\ \A w \in Wrapper : "struct" \in ToSet(q.slots[w]) <=> "struct" \in ToSet(s.slots[w])

LEMMA SameListKeeps ==
  ASSUME NEW s, NEW q, SameList(s, q)
  PROVE  /\ Watched(s) => Watched(q)
         /\ Told(s) => Told(q)
         /\ Filled(s) => Filled(q)
         /\ ListOK(s) => ListOK(q)
<1>1. Watched(s) => Watched(q)
  BY DEF SameList, Watched, Listed
<1>2. Told(s) => Told(q)
  BY DEF SameList, Told
<1>3. \A x : Content(q, x) = Content(s, x)
  BY DEF SameList, Content
<1>4. Filled(s) => Filled(q)
  BY <1>3 DEF SameList, Filled
<1>. QED  BY <1>1, <1>2, <1>4 DEF ListOK

LEMMA SameStructureKeeps ==
  ASSUME NEW s \in State, NEW q, SameStructure(s, q)
  PROVE  /\ Wired(s) => Wired(q)
         /\ Linked(s) => Linked(q)
         /\ Sound(s) => Sound(q)
         /\ Even(s) => Even(q)
         /\ StructureOK(s) => StructureOK(q)
<1>0. s.pointer # NoWrapper => s.pointer \in Wrapper
  BY DEF State
<1>1. Wired(s) => Wired(q)
  BY DEF SameStructure, Wired
<1>2. Linked(s) => Linked(q)
  BY <1>0 DEF SameStructure, Linked
<1>3. Clean(s) <=> Clean(q)
  BY DEF SameStructure, Clean
<1>4. Shown(s) = Shown(q)
  BY DEF SameStructure, Shown
<1>5. Sound(s) => Sound(q)
  BY <1>1, <1>3 DEF SameStructure, Sound
<1>6. Even(s) => Even(q)
  BY <1>3, <1>4 DEF SameStructure, Even
<1>. QED  BY <1>1, <1>2, <1>5, <1>6 DEF StructureOK

LEMMA KeepsSame ==
  ASSUME NEW s \in State, NEW q \in State, SameList(s, q), SameStructure(s, q)
  PROVE  Keeps(s, q)
<1>1. q.alive = s.alive /\ q.assigned = s.assigned /\ q.pointer = s.pointer
  BY DEF SameList, SameStructure
<1>. QED  BY <1>1, SameListKeeps, SameStructureKeeps DEF Keeps

LEMMA KeepsItself ==
  ASSUME NEW s \in State
  PROVE  Keeps(s, s)
BY DEF Keeps

LEMMA KeepsOn ==
  ASSUME NEW s, NEW q, NEW r, Keeps(s, q), Keeps(q, r)
  PROVE  Keeps(s, r)
<1>1. Sound(s) /\ Linked(s) => Linked(r) /\ (Even(r) \/ r.pointer = s.pointer)
  <2>1. SUFFICES ASSUME Sound(s), Linked(s)
                 PROVE  Linked(r) /\ (Even(r) \/ r.pointer = s.pointer)
    OBVIOUS
  <2>2. Sound(q) /\ Linked(q) /\ (Even(q) \/ q.pointer = s.pointer)
    BY <2>1 DEF Keeps
  <2>3. Linked(r) /\ (Even(r) \/ r.pointer = q.pointer)
    BY <2>2 DEF Keeps
  <2>4. Even(q) => Even(r)
    BY <2>2 DEF Keeps, StructureOK
  <2>. QED  BY <2>2, <2>3, <2>4
<1>. QED  BY <1>1 DEF Keeps

LEMMA ReactionKeeps ==
  ASSUME NEW s \in State, NEW r \in Reaction, NEW q, q = [s EXCEPT !.reaction = r]
  PROVE  q \in State /\ Keeps(s, q) /\ Keeps(q, s) /\ q.reaction = r
<1>1. q \in State /\ q.reaction = r
  BY DEF State
<1>2. SameList(s, q) /\ SameStructure(s, q) /\ SameList(q, s) /\ SameStructure(q, s)
  BY DEF State, SameList, SameStructure
<1>. QED  BY <1>1, <1>2, KeepsSame

LEMMA NoneIsReaction == None \in Reaction
BY DEF None, Reaction

-----------------------------------------------------------------------------
(***************************************************************************)
(* Telling QML.                                                            *)
(***************************************************************************)
\* Whoever tells QML has it read, and relies on nothing but Keeps after that.
Tells(tell) ==
  \A s \in State :
    Keeps(Read.struct[s], tell.struct[s]) /\ Keeps(Read.list[s], tell.list[s])

LEMMA ReadIs ==
  ASSUME NEW s \in State
  PROVE  /\ Read.struct[s] = [s EXCEPT !.read = Shown(s)]
         /\ Read.list[s] = [s EXCEPT !.elementsRead = s.elements]
         /\ Read.struct[s] \in State
         /\ Read.list[s] \in State
         /\ Shown(s) \in Struct
<1>2. Read.struct[s] = [s EXCEPT !.read = Shown(s)]
  BY DEF Read
<1>3. Read.list[s] = [s EXCEPT !.elementsRead = s.elements]
  BY DEF Read
<1>4. Shown(s) \in Struct
  BY DEF Shown, State
<1>. QED  BY <1>2, <1>3, <1>4 DEF State

\* QML hears of the structure.
LEMMA TellStructure ==
  ASSUME NEW tell, Tells(tell), NEW s \in State, NEW q, q = tell.struct[s]
  PROVE  /\ q \in State /\ q.alive = s.alive /\ q.assigned = s.assigned
         /\ Wired(s) => Wired(q)
         /\ Wired(s) /\ Even(s) => Sound(q)
         /\ Wired(s) /\ Even(s) /\ Linked(s) => StructureOK(q)
         /\ Watched(s) /\ Told(s) => Watched(q) /\ Told(q)
         /\ ListOK(s) => ListOK(q)
<1>. DEFINE r == [s EXCEPT !.read = Shown(s)]
<1>1. r \in State /\ r = Read.struct[s]
  BY ReadIs
<1>2. Keeps(r, q)
  <2>. HIDE DEF r
  <2>. QED  BY <1>1 DEF Tells
<1>3. SameList(s, r)
  BY DEF State, SameList
<1>4. /\ r.pointer = s.pointer /\ r.alive = s.alive /\ r.slots = s.slots /\ r.assigned = s.assigned
      /\ r.value = s.value /\ r.fields = s.fields /\ r.unheard = s.unheard
      /\ r.foreign = s.foreign /\ r.read = Shown(s)
  BY DEF State
<1>. HIDE DEF r
<1>5. Shown(r) = Shown(s) /\ (Clean(r) <=> Clean(s))
  BY <1>4 DEF Shown, Clean
<1>6. Wired(s) => Wired(r)
  BY <1>4 DEF Wired
<1>7. Wired(s) /\ Even(s) => Sound(r) /\ Even(r)
  BY <1>4, <1>5, <1>6 DEF Sound, Even
<1>8. Linked(s) => Linked(r)
  BY <1>4 DEF Linked
<1>9. Wired(s) /\ Even(s) /\ Linked(s) => StructureOK(r)
  BY <1>7, <1>8 DEF StructureOK
<1>. QED  BY <1>2, <1>3, <1>4, <1>6, <1>7, <1>9, SameListKeeps DEF Keeps

\* QML hears of the list.
LEMMA TellList ==
  ASSUME NEW tell, Tells(tell), NEW s \in State, NEW q, q = tell.list[s]
  PROVE  /\ Keeps(s, q)
         /\ Watched(s) => Watched(q) /\ Told(q)
         /\ Watched(s) /\ Filled(s) => ListOK(q)
<1>. DEFINE r == [s EXCEPT !.elementsRead = s.elements]
<1>1. r \in State /\ r = Read.list[s]
  BY ReadIs
<1>2. Keeps(r, q)
  <2>. HIDE DEF r
  <2>. QED  BY <1>1 DEF Tells
<1>3. SameStructure(s, r)
  BY DEF State, SameStructure
<1>4. /\ r.alive = s.alive /\ r.slots = s.slots /\ r.assigned = s.assigned
      /\ r.fields = s.fields /\ r.foreign = s.foreign /\ r.undefined = s.undefined
      /\ r.elements = s.elements /\ r.elementsRead = s.elements
  BY DEF State
<1>. HIDE DEF r
<1>5. Told(r) /\ (Watched(s) => Watched(r))
  BY <1>4 DEF Told, Watched, Listed
<1>6. Filled(s) => Filled(r)
  <2>1. \A x : Content(r, x) = Content(s, x)
    BY <1>4 DEF Content
  <2>. QED  BY <1>4, <2>1 DEF Filled
<1>7. ListOK(s) => ListOK(r)
  BY <1>5, <1>6 DEF ListOK
<1>8. Keeps(s, r)
  <2>1. r.pointer = s.pointer
    BY <1>3 DEF SameStructure
  <2>2. /\ Wired(s) => Wired(r)
        /\ Linked(s) => Linked(r)
        /\ Sound(s) => Sound(r)
        /\ StructureOK(s) => StructureOK(r)
    BY <1>3, SameStructureKeeps
  <2>. QED  BY <1>1, <1>4, <1>5, <1>7, <2>1, <2>2 DEF Keeps
<1>9. Keeps(s, q)
  BY <1>2, <1>8, KeepsOn
<1>10. Watched(s) /\ Filled(s) => ListOK(r)
  BY <1>5, <1>6 DEF ListOK
<1>. QED  BY <1>2, <1>5, <1>9, <1>10 DEF Keeps

-----------------------------------------------------------------------------
(***************************************************************************)
(* The structure property.                                                 *)
(***************************************************************************)
\* What the property takes over from a wrapper that is connected is in order.
LEMMA SyncStep ==
  ASSUME NEW tell, Tells(tell), NEW s \in State, NEW q, q = Sync(s, tell)
  PROVE  Keeps(s, q) /\ (Sound(s) /\ Linked(s) => StructureOK(q))
<1>1. CASE s.pointer = NoWrapper \/ s.fields[s.pointer] = s.value
  <2>1. q = s
    BY <1>1 DEF Sync
  <2>2. Even(s)
    BY <1>1 DEF Even, Shown
  <2>. QED  BY <2>1, <2>2, KeepsItself DEF StructureOK
<1>2. CASE ~(s.pointer = NoWrapper \/ s.fields[s.pointer] = s.value)
  <2>. DEFINE x == [Own(s) EXCEPT !.value = s.fields[s.pointer]]
  <2>1. Own(s).value = s.value
    BY DEF Own, State
  <2>2. q = tell.struct[x]
    BY <1>2, <2>1 DEF Sync, SetValue
  <2>3. s.pointer \in Wrapper /\ s.fields[s.pointer] \in Struct
    BY <1>2 DEF State
  <2>4. x \in State
    BY <2>3 DEF State, Own
  <2>5. /\ x.alive = s.alive /\ x.fields = s.fields /\ x.slots = s.slots
        /\ x.pointer = s.pointer /\ x.value = s.fields[s.pointer]
        /\ x.assigned = s.assigned /\ x.elements = s.elements
        /\ x.elementsRead = s.elementsRead /\ x.undefined = s.undefined
        /\ x.foreign = s.foreign \ {"struct"}
    BY DEF State, Own
  <2>. HIDE DEF x
  <2>6. SameList(s, x)
    BY <2>5 DEF SameList
  <2>7. Even(x) /\ (Wired(s) => Wired(x)) /\ (Linked(s) => Linked(x))
    BY <1>2, <2>5 DEF Even, Shown, Wired, Linked
  <2>8. /\ q \in State /\ q.alive = x.alive /\ q.assigned = x.assigned
        /\ Wired(x) => Wired(q) /\ Sound(q)
        /\ Wired(x) /\ Linked(x) => StructureOK(q)
        /\ Watched(x) /\ Told(x) => Watched(q) /\ Told(q)
        /\ ListOK(x) => ListOK(q)
    BY <2>2, <2>4, <2>7, TellStructure
  <2>9. Sound(s) /\ Linked(s) => StructureOK(q)
    BY <2>7, <2>8 DEF Sound
  <2>10. /\ Watched(s) /\ Told(s) => Watched(q) /\ Told(q)
         /\ ListOK(s) => ListOK(q)
    BY <2>6, <2>8, SameListKeeps
  <2>11. Keeps(s, q)
    BY <2>5, <2>7, <2>8, <2>9, <2>10 DEF Keeps, Sound, StructureOK
  <2>. QED  BY <2>9, <2>11
<1>. QED  BY <1>1, <1>2

LEMMA SetValueKeepsList ==
  ASSUME NEW tell, Tells(tell), NEW s \in State, NEW v \in Struct,
         NEW q, q = SetValue(s, v, tell)
  PROVE  /\ q \in State /\ q.alive = s.alive /\ q.assigned = s.assigned
         /\ Watched(s) /\ Told(s) => Watched(q) /\ Told(q)
         /\ ListOK(s) => ListOK(q)
<1>1. CASE s.value = v
  BY <1>1 DEF SetValue
<1>2. CASE s.value # v
  <2>. DEFINE x == [s EXCEPT !.value = v]
  <2>1. q = tell.struct[x]
    BY <1>2 DEF SetValue
  <2>2. x \in State /\ SameList(s, x)
    BY DEF State, SameList
  <2>. HIDE DEF x
  <2>3. /\ q \in State /\ q.alive = x.alive /\ q.assigned = x.assigned
        /\ Watched(x) /\ Told(x) => Watched(q) /\ Told(q)
        /\ ListOK(x) => ListOK(q)
    BY <2>1, <2>2, TellStructure
  <2>. QED  BY <2>2, <2>3, SameListKeeps DEF SameList
<1>. QED  BY <1>1, <1>2

LEMMA ResetIs ==
  ASSUME NEW s \in State, NEW w \in Wrapper \union {NoWrapper}, NEW q, q = Reset(s, w)
  PROVE  /\ q \in State /\ SameList(s, q)
         /\ q.pointer = w
         /\ \A u \in Wrapper : "struct" \notin ToSet(q.slots[u])
<1>1. /\ Without(s.slots, "struct") \in [Wrapper -> Seq(Property)]
      /\ \A u \in Wrapper :
           ToSet(Without(s.slots, "struct")[u]) = ToSet(s.slots[u]) \ {"struct"}
  <2>1. s.slots \in [Wrapper -> Seq(Property)] /\ "struct" \in Property
    BY DEF State, Property
  <2>. QED  BY <2>1, WithoutIs
<1>2. q \in State /\ q.pointer = w /\ q.slots = Without(s.slots, "struct")
  BY <1>1 DEF Reset, State
<1>3. SameList(s, q)
  <2>1. /\ q.alive = s.alive /\ q.assigned = s.assigned /\ q.fields = s.fields
        /\ q.elements = s.elements /\ q.elementsRead = s.elementsRead
        /\ q.undefined = s.undefined /\ q.foreign = s.foreign
    BY DEF Reset, State
  <2>. QED  BY <1>1, <1>2, <2>1 DEF SameList
<1>. QED  BY <1>1, <1>2, <1>3

LEMMA OwnIs ==
  ASSUME NEW s \in State, NEW q, q = Own(s)
  PROVE  /\ q \in State /\ SameList(s, q)
         /\ q.pointer = s.pointer /\ q.slots = s.slots
<1>1. q \in State
  BY DEF Own, State
<1>2. /\ q.alive = s.alive /\ q.assigned = s.assigned /\ q.fields = s.fields
      /\ q.elements = s.elements /\ q.elementsRead = s.elementsRead
      /\ q.undefined = s.undefined /\ q.foreign = s.foreign \ {"struct"}
      /\ q.pointer = s.pointer /\ q.slots = s.slots
  BY DEF Own, State
<1>. QED  BY <1>1, <1>2 DEF SameList

LEMMA SameListOn ==
  ASSUME NEW s, NEW q, NEW r, SameList(s, q), SameList(q, r)
  PROVE  SameList(s, r)
BY DEF SameList

\* A gadget is in order once it is assigned, whatever was before.
LEMMA GadgetStep ==
  ASSUME NEW tell, Tells(tell), NEW s \in State, NEW g \in Struct,
         NEW q, q = SetGadget(s, g, tell)
  PROVE  Keeps(s, q) /\ StructureOK(q)
<1>. DEFINE p == SetValue(s, g, tell)
            y == Reset(p, NoWrapper)
            x == Own(y)
<1>1. q = tell.struct[x]
  BY DEF SetGadget
<1>2. /\ p \in State /\ p.alive = s.alive /\ p.assigned = s.assigned
      /\ Watched(s) /\ Told(s) => Watched(p) /\ Told(p)
      /\ ListOK(s) => ListOK(p)
  BY SetValueKeepsList
<1>. HIDE DEF p
<1>3. /\ y \in State /\ SameList(p, y) /\ y.pointer = NoWrapper
      /\ \A u \in Wrapper : "struct" \notin ToSet(y.slots[u])
  BY <1>2, ResetIs
<1>. HIDE DEF y
<1>4. /\ x \in State /\ SameList(y, x)
      /\ x.pointer = y.pointer /\ x.slots = y.slots
  BY <1>3, OwnIs
<1>. HIDE DEF x
<1>5. Wired(x) /\ Even(x) /\ Linked(x)
  BY <1>3, <1>4 DEF Wired, Even, Linked, Shown
<1>6. SameList(p, x)
  BY <1>3, <1>4, SameListOn
<1>7. /\ q \in State /\ q.alive = x.alive /\ q.assigned = x.assigned
      /\ StructureOK(q)
      /\ Watched(x) /\ Told(x) => Watched(q) /\ Told(q)
      /\ ListOK(x) => ListOK(q)
  BY <1>1, <1>4, <1>5, TellStructure
<1>8. q.alive = s.alive /\ q.assigned = s.assigned
  BY <1>2, <1>6, <1>7 DEF SameList
<1>9. /\ Watched(s) /\ Told(s) => Watched(q) /\ Told(q)
      /\ ListOK(s) => ListOK(q)
  BY <1>2, <1>6, <1>7, SameListKeeps
<1>. QED  BY <1>7, <1>8, <1>9 DEF Keeps, StructureOK, Sound

LEMMA ConnectIs ==
  ASSUME NEW s \in State, Wired(s), NEW q, q = Connect(s)
  PROVE  /\ q \in State /\ SameList(s, q)
         /\ Wired(q) /\ Even(q) /\ Linked(q)
<1>1. CASE s.pointer = NoWrapper
  <2>1. q = s
    BY <1>1 DEF Connect
  <2>. QED  BY <1>1, <2>1 DEF SameList, Even, Linked, Shown
<1>2. CASE s.pointer # NoWrapper
  <2>1. s.pointer \in Wrapper /\ s.slots \in [Wrapper -> Seq(Property)]
        /\ "struct" \in Property
    BY <1>2 DEF State, Property
  <2>. DEFINE joined == Append(s.slots[s.pointer], "struct")
  <2>2. joined \in Seq(Property) /\ ToSet(joined) = ToSet(s.slots[s.pointer]) \union {"struct"}
    BY <2>1, AppendedSet
  <2>3. q = [s EXCEPT !.slots = [@ EXCEPT ![s.pointer] = joined],
                      !.unheard = s.fields[s.pointer] # s.value]
    BY <1>2 DEF Connect, State
  <2>. HIDE DEF joined
  <2>4. /\ q.slots = [s.slots EXCEPT ![s.pointer] = joined]
        /\ q.unheard = (s.fields[s.pointer] # s.value)
        /\ q.alive = s.alive /\ q.assigned = s.assigned /\ q.fields = s.fields
        /\ q.elements = s.elements /\ q.elementsRead = s.elementsRead
        /\ q.undefined = s.undefined /\ q.foreign = s.foreign
        /\ q.pointer = s.pointer /\ q.value = s.value
    BY <2>3 DEF State
  <2>5. q \in State
    <3>1. [s.slots EXCEPT ![s.pointer] = joined] \in [Wrapper -> Seq(Property)]
      BY <2>1, <2>2
    <3>. DEFINE slots == [s.slots EXCEPT ![s.pointer] = joined]
                unheard == s.fields[s.pointer] # s.value
    <3>2. unheard \in BOOLEAN
      OBVIOUS
    <3>3. q = [s EXCEPT !.slots = slots, !.unheard = unheard]
      BY <2>3
    <3>. HIDE DEF slots, unheard
    <3>4. slots \in [Wrapper -> Seq(Property)]
      BY <3>1 DEF slots
    <3>. QED  BY <3>2, <3>3, <3>4 DEF State
  <2>6. /\ q.slots[s.pointer] = joined
        /\ \A u \in Wrapper : u # s.pointer => q.slots[u] = s.slots[u]
    BY <2>1, <2>4
  <2>7. SameList(s, q)
    BY <2>1, <2>2, <2>4, <2>6 DEF SameList
  <2>8. Wired(q)
    BY <2>4, <2>6 DEF Wired
  <2>9. Linked(q)
    BY <2>2, <2>4, <2>6 DEF Linked
  <2>10. Even(q)
    BY <1>2, <2>4 DEF Even, Clean, Shown
  <2>. QED  BY <2>5, <2>7, <2>8, <2>9, <2>10
<1>. QED  BY <1>1, <1>2

\* So is a wrapper.
LEMMA WrapperStep ==
  ASSUME NEW tell, Tells(tell), NEW s \in State, NEW w \in s.alive,
         NEW q, q = SetWrapper(s, w, tell)
  PROVE  Keeps(s, q)
<1>1. CASE s.pointer = w
  <2>1. q = s
    BY <1>1 DEF SetWrapper
  <2>. QED  BY <2>1, KeepsItself
<1>2. CASE s.pointer # w
  <2>. DEFINE z == Reset(s, w)
              p == Sync(z, tell)
              x == Connect(p)
  <2>1. q = tell.struct[x]
    BY <1>2 DEF SetWrapper
  <2>2. w \in Wrapper
    BY DEF State
  <2>3. /\ z \in State /\ SameList(s, z) /\ z.pointer = w
        /\ \A u \in Wrapper : "struct" \notin ToSet(z.slots[u])
    BY <2>2, ResetIs
  <2>. HIDE DEF z
  <2>4. Wired(z)
    BY <2>3 DEF Wired, SameList
  <2>5. Keeps(z, p)
    BY <2>3, SyncStep
  <2>. HIDE DEF p
  <2>6. p \in State /\ Wired(p)
    BY <2>4, <2>5 DEF Keeps
  <2>7. /\ x \in State /\ SameList(p, x)
        /\ Wired(x) /\ Even(x) /\ Linked(x)
    BY <2>6, ConnectIs
  <2>. HIDE DEF x
  <2>8. /\ q \in State /\ q.alive = x.alive /\ q.assigned = x.assigned
        /\ StructureOK(q)
        /\ Watched(x) /\ Told(x) => Watched(q) /\ Told(q)
        /\ ListOK(x) => ListOK(q)
    BY <2>1, <2>7, TellStructure
  <2>9. q.alive = s.alive /\ q.assigned = s.assigned
    BY <2>3, <2>5, <2>7, <2>8 DEF SameList, Keeps
  <2>10. /\ Watched(s) /\ Told(s) => Watched(z) /\ Told(z)
         /\ ListOK(s) => ListOK(z)
    BY <2>3, SameListKeeps
  <2>11. /\ Watched(p) /\ Told(p) => Watched(x) /\ Told(x)
         /\ ListOK(p) => ListOK(x)
    BY <2>7, SameListKeeps
  <2>12. /\ Watched(s) /\ Told(s) => Watched(q) /\ Told(q)
         /\ ListOK(s) => ListOK(q)
    BY <2>5, <2>8, <2>10, <2>11 DEF Keeps
  <2>. QED  BY <2>8, <2>9, <2>12 DEF Keeps, StructureOK, Sound
<1>. QED  BY <1>1, <1>2

Usably(s, variant) == variant.kind = "wrapper" => variant.wrapper \in s.alive

LEMMA AssignStep ==
  ASSUME NEW tell, Tells(tell), NEW s \in State, NEW variant \in Variant,
         Usably(s, variant), NEW q, q = Assign(s, variant, tell)
  PROVE  Keeps(s, q)
<1>1. CASE variant.kind = "gadget"
  <2>1. variant.value \in Gadget
    BY <1>1 DEF Variant
  <2>2. variant.value \in Struct
    BY <2>1, ConstantsAssumption DEF ConstantsAssumption, Struct
  <2>3. q = SetGadget(s, variant.value, tell)
    BY <1>1 DEF Assign
  <2>. QED  BY <2>2, <2>3, GadgetStep
<1>2. CASE variant.kind # "gadget"
  <2>1. variant.wrapper \in s.alive
    BY <1>2 DEF Variant, Usably
  <2>2. q = SetWrapper(s, variant.wrapper, tell)
    BY <1>2 DEF Assign
  <2>. QED  BY <2>1, <2>2, WrapperStep
<1>. QED  BY <1>1, <1>2

-----------------------------------------------------------------------------
(***************************************************************************)
(* The list property.                                                      *)
(***************************************************************************)
LEMMA ContentIs ==
  ASSUME NEW s \in State, NEW variant \in Variant
  PROVE  Content(s, variant) \in Struct
<1>1. CASE variant.kind = "gadget"
  <2>1. variant.value \in Gadget
    BY <1>1 DEF Variant
  <2>. QED  BY <1>1, <2>1, ConstantsAssumption DEF ConstantsAssumption, Struct, Content
<1>2. CASE variant.kind # "gadget"
  <2>1. variant.wrapper \in Wrapper
    BY <1>2 DEF Variant
  <2>. QED  BY <1>2, <2>1 DEF Content, State
<1>. QED  BY <1>1, <1>2

\* Whatever the list was, it is in order when it was read again.
LEMMA RefreshStep ==
  ASSUME NEW tell, Tells(tell), NEW s \in State, NEW q, q = Refresh(s, tell)
  PROVE  Keeps(s, q) /\ (Told(s) => ListOK(q))
<1>. DEFINE elements == [n \in DOMAIN s.assigned |-> Content(s, s.assigned[n])]
            undefined == s.undefined \/ \E w \in Wrapper \ s.alive : Count(s, w) > 0
            t == [s EXCEPT !.slots = Watch(s), !.foreign = @ \ {"list"},
                           !.undefined = undefined]
            x == [t EXCEPT !.elements = elements]
<1>1. q = IF t.elements = elements THEN t ELSE tell.list[x]
  <2>1. t = [s EXCEPT !.slots = Watch(s), !.foreign = @ \ {"list"},
                      !.undefined = @ \/ \E w \in Wrapper \ s.alive : Count(s, w) > 0]
    BY DEF State
  <2>. HIDE DEF t
  <2>. QED  BY <2>1 DEF Refresh
<1>2. /\ s.assigned \in Seq(Variant) /\ DOMAIN s.assigned = 1 .. Len(s.assigned)
      /\ Len(s.assigned) \in Nat
  <2>1. s.assigned \in Seq(Variant)
    BY DEF State
  <2>. QED  BY <2>1, LenProperties
<1>3. \A n \in DOMAIN s.assigned : Content(s, s.assigned[n]) \in Struct
  BY <1>2, ElementOfSeq, ContentIs
<1>4. /\ elements \in Seq(Struct) /\ Len(elements) = Len(s.assigned)
      /\ DOMAIN elements = DOMAIN s.assigned
      /\ \A n \in DOMAIN elements : elements[n] = Content(s, s.assigned[n])
  <2>1. elements \in [1 .. Len(s.assigned) -> Struct]
    BY <1>2, <1>3
  <2>. HIDE DEF elements
  <2>2. elements \in Seq(Struct) /\ Len(elements) = Len(s.assigned)
    BY <1>2, <2>1, IsASeq
  <2>. QED  BY <1>2, <2>1, <2>2 DEF elements
<1>5. undefined \in BOOLEAN
  BY DEF State
<1>6. /\ Watch(s) \in [Wrapper -> Seq(Property)]
      /\ \A w \in Wrapper :
           ToSet(Watch(s)[w]) =
             (ToSet(s.slots[w]) \ {"list"})
               \union (IF w \in s.alive /\ Listed(s, w) THEN {"list"} ELSE {})
  BY WatchIs
<1>. HIDE DEF elements, undefined
<1>7. /\ t \in State /\ t.slots = Watch(s) /\ t.foreign = s.foreign \ {"list"}
      /\ t.undefined = undefined /\ t.alive = s.alive /\ t.fields = s.fields
      /\ t.pointer = s.pointer /\ t.value = s.value /\ t.read = s.read
      /\ t.assigned = s.assigned /\ t.elements = s.elements
      /\ t.elementsRead = s.elementsRead /\ t.unheard = s.unheard
  BY <1>5, <1>6 DEF State
<1>. HIDE DEF t
<1>8. /\ x \in State /\ x.slots = Watch(s) /\ x.foreign = s.foreign \ {"list"}
      /\ x.alive = s.alive /\ x.fields = s.fields
      /\ x.pointer = s.pointer /\ x.value = s.value /\ x.read = s.read
      /\ x.assigned = s.assigned /\ x.elements = elements
      /\ x.unheard = s.unheard
  BY <1>4, <1>7 DEF State
<1>. HIDE DEF x
<1>9. ASSUME NEW y \in {t, x}, y.elements = elements
      PROVE  SameStructure(s, y) /\ Watched(y) /\ Filled(y)
  <2>1. /\ y.slots = Watch(s) /\ y.foreign = s.foreign \ {"list"}
        /\ y.alive = s.alive /\ y.fields = s.fields
        /\ y.pointer = s.pointer /\ y.value = s.value /\ y.read = s.read
        /\ y.assigned = s.assigned /\ y.unheard = s.unheard
    BY <1>7, <1>8
  <2>2. SameStructure(s, y)
    BY <1>6, <2>1 DEF SameStructure
  <2>3. \A w \in Wrapper : Listed(y, w) <=> Listed(s, w)
    BY <2>1 DEF Listed
  <2>4. Watched(y)
    BY <1>6, <2>1, <2>3 DEF Watched
  <2>5. \A variant : Content(y, variant) = Content(s, variant)
    BY <2>1 DEF Content
  <2>6. Filled(y)
    BY <1>4, <1>9, <2>1, <2>5 DEF Filled
  <2>. QED  BY <2>2, <2>4, <2>6
<1>10. ASSUME NEW y \in {t, x}, y.elements = elements, Keeps(y, q),
              Told(s) => ListOK(q), Watched(q), Told(s) => Told(q)
       PROVE  Keeps(s, q)
  <2>1. SameStructure(s, y)
    BY <1>9, <1>10
  <2>2. /\ Wired(s) => Wired(y)
        /\ Linked(s) => Linked(y)
        /\ Sound(s) => Sound(y)
        /\ StructureOK(s) => StructureOK(y)
    BY <2>1, SameStructureKeeps
  <2>3. y.alive = s.alive /\ y.assigned = s.assigned /\ y.pointer = s.pointer
    BY <1>7, <1>8
  <2>4. ListOK(s) => ListOK(q)
    BY <1>10 DEF ListOK
  <2>. QED  BY <1>10, <2>2, <2>3, <2>4 DEF Keeps
<1>11. CASE t.elements = elements
  <2>1. q = t
    BY <1>1, <1>11
  <2>2. Told(s) => Told(t)
    BY <1>7 DEF Told
  <2>3. Keeps(t, q) /\ (Told(s) => ListOK(q)) /\ Watched(q)
    BY <1>7, <1>9, <1>11, <2>1, <2>2, KeepsItself DEF ListOK
  <2>. QED  BY <1>10, <1>11, <2>1, <2>2, <2>3
<1>12. CASE t.elements # elements
  <2>1. q = tell.list[x]
    BY <1>1, <1>12
  <2>2. Watched(x) /\ Filled(x) /\ x.elements = elements
    BY <1>8, <1>9
  <2>3. Keeps(x, q) /\ ListOK(q)
    BY <1>8, <2>1, <2>2, TellList
  <2>. QED  BY <1>10, <2>2, <2>3 DEF ListOK
<1>. QED  BY <1>11, <1>12

-----------------------------------------------------------------------------
(***************************************************************************)
(* The fields of a wrapper.                                                *)
(***************************************************************************)
LEMMA CallSlotStep ==
  ASSUME NEW tell, Tells(tell), NEW s \in State, NEW w \in Wrapper, NEW slot \in Property,
         NEW q, q = CallSlot(s, w, slot, tell)
  PROVE  /\ Keeps(s, q)
         /\ slot = "struct" /\ Sound(s) /\ Linked(s) /\ s.pointer = w => StructureOK(q)
         /\ slot = "list" /\ Watched(s) /\ Told(s) /\ w \in s.alive /\ Listed(s, w) => ListOK(q)
<1>0. slot = "struct" \/ slot = "list"
  BY DEF Property
<1>1. CASE slot \notin ToSet(s.slots[w])
  <2>1. q = s
    BY <1>1 DEF CallSlot
  <2>2. ~(slot = "struct" /\ Linked(s) /\ s.pointer = w)
    BY <1>1, ConstantsAssumption DEF Linked, ConstantsAssumption
  <2>3. ~(slot = "list" /\ Watched(s) /\ w \in s.alive /\ Listed(s, w))
    BY <1>1 DEF Watched
  <2>. QED  BY <2>1, <2>2, <2>3, KeepsItself
<1>2. CASE slot \in ToSet(s.slots[w]) /\ slot = "struct"
  <2>1. q = Sync(s, tell)
    BY <1>2 DEF CallSlot
  <2>. QED  BY <1>2, <2>1, SyncStep
<1>3. CASE slot \in ToSet(s.slots[w]) /\ slot = "list"
  <2>1. q = Refresh(s, tell)
    BY <1>3 DEF CallSlot
  <2>. QED  BY <1>3, <2>1, RefreshStep
<1>. QED  BY <1>0, <1>1, <1>2, <1>3

\* The states in which the first n slots of wrapper w may have left state s.
\* Until the property's own slot was called it need not follow w.
Along(s, w, n) ==
  {p \in State :
     /\ Keeps(s, p)
     /\ Sound(s) /\ Linked(s) /\ s.pointer = w =>
          Even(p) \/ (p.pointer = w /\ \A k \in 1 .. n : s.slots[w][k] # "struct")
     /\ Watched(s) /\ Told(s) /\ Listed(s, w) =>
          Filled(p) \/ \A k \in 1 .. n : s.slots[w][k] # "list"}

LEMMA AlongStep ==
  ASSUME NEW tell, Tells(tell), NEW s \in State, NEW w \in s.alive,
         NEW n \in 1 .. Len(s.slots[w]), NEW p \in Along(s, w, n - 1),
         NEW q, q = CallSlot(p, w, s.slots[w][n], tell)
  PROVE  q \in Along(s, w, n)
<1>. DEFINE slot == s.slots[w][n]
<1>1. w \in Wrapper /\ s.slots[w] \in Seq(Property)
  BY DEF State
<1>2. slot \in Property /\ n \in Nat
  BY <1>1, LenProperties, ElementOfSeq
<1>3. slot = "struct" \/ slot = "list"
  BY <1>2 DEF Property
<1>4. p \in State /\ Keeps(s, p)
  BY DEF Along
<1>5. /\ Keeps(p, q)
      /\ slot = "struct" /\ Sound(p) /\ Linked(p) /\ p.pointer = w => StructureOK(q)
      /\ slot = "list" /\ Watched(p) /\ Told(p) /\ w \in p.alive /\ Listed(p, w) => ListOK(q)
  BY <1>1, <1>2, <1>4, CallSlotStep
<1>6. \A k : k \in 1 .. n <=> k \in 1 .. n - 1 \/ k = n
  BY <1>2
<1>7. ASSUME Sound(s), Linked(s), s.pointer = w
      PROVE  Even(q) \/ (q.pointer = w /\ \A k \in 1 .. n : s.slots[w][k] # "struct")
  <2>1. Sound(p) /\ Linked(p)
    BY <1>4, <1>7 DEF Keeps
  <2>2. CASE Even(p)
    BY <1>5, <2>1, <2>2 DEF Keeps, StructureOK
  <2>3. CASE p.pointer = w /\ \A k \in 1 .. n - 1 : s.slots[w][k] # "struct"
    <3>1. CASE slot = "struct"
      BY <1>5, <2>1, <2>3, <3>1 DEF StructureOK
    <3>2. CASE slot = "list"
      <4>1. Even(q) \/ q.pointer = p.pointer
        BY <1>5, <2>1 DEF Keeps
      <4>. QED  BY <1>6, <2>3, <3>2, <4>1
    <3>. QED  BY <1>3, <3>1, <3>2
  <2>. QED  BY <1>7, <2>2, <2>3 DEF Along
<1>8. ASSUME Watched(s), Told(s), Listed(s, w)
      PROVE  Filled(q) \/ \A k \in 1 .. n : s.slots[w][k] # "list"
  <2>1. /\ Watched(p) /\ Told(p) /\ p.alive = s.alive
        /\ p.assigned = s.assigned
    BY <1>4, <1>8 DEF Keeps
  <2>2. Listed(p, w)
    BY <1>8, <2>1 DEF Listed
  <2>3. CASE Filled(p)
    BY <1>5, <2>1, <2>3 DEF Keeps, ListOK
  <2>4. CASE \A k \in 1 .. n - 1 : s.slots[w][k] # "list"
    <3>1. CASE slot = "list"
      BY <1>5, <2>1, <2>2, <3>1 DEF ListOK
    <3>2. CASE slot = "struct"
      BY <1>6, <2>4, <3>2
    <3>. QED  BY <1>3, <3>1, <3>2
  <2>. QED  BY <1>8, <2>3, <2>4 DEF Along
<1>9. Keeps(s, q) /\ q \in State
  BY <1>4, <1>5, KeepsOn DEF Keeps
<1>. QED  BY <1>7, <1>8, <1>9 DEF Along

LEMMA AnyFieldChangedAlong ==
  ASSUME NEW tell, Tells(tell), NEW s \in State, NEW w \in s.alive
  PROVE  AnyFieldChanged(s, w, tell) \in Along(s, w, Len(s.slots[w]))
<1>. DEFINE N == Len(s.slots[w])
            I == [n \in 0 .. N |-> Along(s, w, n)]
            Step(q, n) == CallSlot(q, w, s.slots[w][n], tell)
            next == [n \in 1 .. N |-> [q \in I[n - 1] |-> Step(q, n)]]
            Is(g) == g = [n \in 0 .. N |-> IF n = 0 THEN s ELSE Step(g[n - 1], n)]
            after == CHOOSE g : Is(g)
<1>1. AnyFieldChanged(s, w, tell) = after[N]
  BY DEF AnyFieldChanged
<1>2. N \in Nat
  <2>1. w \in Wrapper /\ s.slots[w] \in Seq(Property)
    BY DEF State
  <2>. QED  BY <2>1, LenProperties
<1>3. s \in I[0]
  <2>1. I[0] = Along(s, w, 0)
    BY <1>2
  <2>2. \A k : k \notin 1 .. 0
    OBVIOUS
  <2>. QED  BY <2>1, <2>2, KeepsItself DEF Along
<1>4. ASSUME NEW n \in 1 .. N, NEW q \in I[n - 1]
      PROVE  Step(q, n) \in I[n] /\ next[n][q] = Step(q, n)
  <2>1. /\ n - 1 \in 0 .. N /\ n \in 0 .. N
        /\ I[n - 1] = Along(s, w, n - 1) /\ I[n] = Along(s, w, n)
    BY <1>2
  <2>2. next[n][q] = Step(q, n)
    BY <1>4
  <2>. QED  BY <2>1, <2>2, AlongStep
<1>. HIDE DEF I, next, Step, N
<1>5. PICK f : Recursion(f, N, s, next) /\ \A n \in 0 .. N : f[n] \in I[n]
  <2>1. \A n \in 1 .. N : \A x \in I[n - 1] : next[n][x] \in I[n]
    BY <1>4
  <2>. QED  BY <1>2, <1>3, <2>1, Solution
<1>6. Is(f)
  <2>1. /\ f = [n \in 0 .. N |-> f[n]] /\ f[0] = s
        /\ \A n \in 1 .. N : n - 1 \in 0 .. N /\ f[n] = next[n][f[n - 1]]
    BY <1>2, <1>5, RecursionSteps
  <2>2. \A n \in 1 .. N : f[n] = Step(f[n - 1], n)
    BY <1>4, <1>5, <2>1
  <2>3. ASSUME NEW n \in 0 .. N
        PROVE  f[n] = IF n = 0 THEN s ELSE Step(f[n - 1], n)
    <3>1. n = 0 \/ n \in 1 .. N
      BY <1>2
    <3>. QED  BY <2>1, <2>2, <3>1
  <2>. QED  BY <2>1, <2>3
<1>7. Is(after)
  BY <1>6
<1>. HIDE DEF after
<1>8. \A n \in 0 .. N : after[n] \in I[n]
  <2>. DEFINE S == {n \in 0 .. N : after[n] \in I[n]}
  <2>1. 0 \in S
    BY <1>2, <1>3, <1>7
  <2>2. ASSUME NEW n \in 1 .. N, n - 1 \in S
        PROVE  n \in S
    <3>1. n \in 0 .. N /\ n # 0 /\ after[n - 1] \in I[n - 1]
      BY <1>2, <2>2
    <3>2. after[n] = Step(after[n - 1], n)
      BY <1>7, <3>1
    <3>. QED  BY <1>4, <3>1, <3>2
  <2>. HIDE DEF S
  <2>3. \A n \in 0 .. N : n \in S
    BY <1>2, <2>1, <2>2, CountUp
  <2>. QED  BY <2>3 DEF S
<1>9. N \in 0 .. N
  BY <1>2
<1>10. after[N] \in Along(s, w, N)
  BY <1>8, <1>9 DEF I
<1>. QED  BY <1>1, <1>10 DEF N

\* The signal of a changed field leads every property to take it over.
LEMMA AnyFieldChangedStep ==
  ASSUME NEW tell, Tells(tell), NEW s \in State, NEW w \in s.alive,
         NEW q, q = AnyFieldChanged(s, w, tell)
  PROVE  /\ Keeps(s, q)
         /\ Sound(s) /\ Linked(s) /\ s.pointer = w => StructureOK(q)
         /\ Watched(s) /\ Told(s) /\ Listed(s, w) => ListOK(q)
<1>. DEFINE N == Len(s.slots[w])
<1>1. q \in Along(s, w, N)
  BY AnyFieldChangedAlong
<1>2. Keeps(s, q)
  BY <1>1 DEF Along
<1>3. w \in Wrapper /\ s.slots[w] \in Seq(Property)
  BY DEF State
<1>4. DOMAIN s.slots[w] = 1 .. N
  BY <1>3, LenProperties
<1>5. ASSUME Sound(s), Linked(s), s.pointer = w
      PROVE  StructureOK(q)
  <2>1. \E k \in 1 .. N : s.slots[w][k] = "struct"
    BY <1>3, <1>4, <1>5, ConstantsAssumption DEF Linked, ToSet, ConstantsAssumption
  <2>2. Even(q)
    BY <1>1, <1>5, <2>1 DEF Along
  <2>. QED  BY <1>2, <1>5, <2>2 DEF Keeps, StructureOK
<1>6. ASSUME Watched(s), Told(s), Listed(s, w)
      PROVE  ListOK(q)
  <2>1. \E k \in 1 .. N : s.slots[w][k] = "list"
    BY <1>3, <1>4, <1>6 DEF Watched, ToSet
  <2>2. Filled(q)
    BY <1>1, <1>6, <2>1 DEF Along
  <2>. QED  BY <1>2, <1>6, <2>2 DEF Keeps, ListOK
<1>. QED  BY <1>2, <1>5, <1>6

LEMMA SetFieldStep ==
  ASSUME NEW tell, Tells(tell), NEW s \in State, NEW w \in s.alive,
         NEW f \in 1 .. Fields, NEW v \in Value,
         NEW q, q = SetField(s, w, f, v, tell)
  PROVE  Keeps(s, q)
<1>1. CASE s.fields[w][f] = v
  <2>1. q = s
    BY <1>1 DEF SetField
  <2>. QED  BY <2>1, KeepsItself
<1>2. CASE s.fields[w][f] # v
  <2>. DEFINE t == [s EXCEPT !.fields[w][f] = v]
  <2>1. q = AnyFieldChanged(t, w, tell)
    BY <1>2 DEF SetField
  <2>2. w \in Wrapper /\ s.fields \in [Wrapper -> Struct]
    BY DEF State
  <2>3. [s.fields[w] EXCEPT ![f] = v] \in Struct
    BY <2>2 DEF Struct
  <2>4. t = [s EXCEPT !.fields = [s.fields EXCEPT ![w] = [s.fields[w] EXCEPT ![f] = v]]]
    BY <2>2 DEF State
  <2>. HIDE DEF t
  <2>5. /\ t \in State /\ t.fields = [s.fields EXCEPT ![w] = [s.fields[w] EXCEPT ![f] = v]]
        /\ t.slots = s.slots /\ t.foreign = s.foreign
        /\ t.undefined = s.undefined /\ t.alive = s.alive
        /\ t.pointer = s.pointer /\ t.value = s.value /\ t.read = s.read
        /\ t.assigned = s.assigned /\ t.elements = s.elements
        /\ t.elementsRead = s.elementsRead /\ t.unheard = s.unheard
    <3>1. [s.fields EXCEPT ![w] = [s.fields[w] EXCEPT ![f] = v]] \in [Wrapper -> Struct]
      BY <2>2, <2>3
    <3>. QED  BY <2>4, <3>1 DEF State
  <2>6. \A u \in Wrapper : u # w => t.fields[u] = s.fields[u]
    BY <2>2, <2>5
  <2>7. /\ Keeps(t, q)
        /\ Sound(t) /\ Linked(t) /\ t.pointer = w => StructureOK(q)
        /\ Watched(t) /\ Told(t) /\ Listed(t, w) => ListOK(q)
    BY <2>1, <2>5, AnyFieldChangedStep
  <2>8. Clean(t) <=> Clean(s)
    BY <2>5 DEF Clean
  <2>9. /\ Wired(s) => Wired(t)
        /\ Linked(s) => Linked(t)
        /\ Sound(s) => Sound(t)
    BY <2>5, <2>8 DEF Wired, Linked, Sound
  <2>10. (Watched(s) => Watched(t)) /\ (Told(s) => Told(t))
    BY <2>5 DEF Watched, Listed, Told
  <2>11. ASSUME StructureOK(s)
         PROVE  StructureOK(q)
    <3>1. CASE s.pointer = w
      BY <2>5, <2>7, <2>9, <2>11, <3>1 DEF StructureOK
    <3>2. CASE s.pointer # w
      <4>1. s.pointer \in Wrapper \union {NoWrapper}
        BY DEF State
      <4>2. Shown(t) = Shown(s)
        BY <2>5, <2>6, <3>2, <4>1 DEF Shown
      <4>3. Even(t)
        BY <2>5, <2>8, <2>11, <4>2 DEF Even, StructureOK
      <4>. QED  BY <2>7, <2>9, <2>11, <4>3 DEF Keeps, StructureOK
    <3>. QED  BY <3>1, <3>2
  <2>12. ASSUME ListOK(s)
         PROVE  ListOK(q)
    <3>1. CASE Listed(s, w)
      <4>1. Listed(t, w)
        BY <2>5, <3>1 DEF Listed
      <4>. QED  BY <2>7, <2>10, <2>12, <4>1 DEF ListOK
    <3>2. CASE ~Listed(s, w)
      <4>1. /\ s.assigned \in Seq(Variant) /\ DOMAIN s.assigned = 1 .. Len(s.assigned)
            /\ s.elements \in Seq(Struct) /\ DOMAIN s.elements = 1 .. Len(s.elements)
        <5>1. s.assigned \in Seq(Variant) /\ s.elements \in Seq(Struct)
          BY DEF State
        <5>. QED  BY <5>1, LenProperties
      <4>2. ASSUME NEW n \in DOMAIN s.assigned
            PROVE  Content(t, s.assigned[n]) = Content(s, s.assigned[n])
        <5>1. s.assigned[n] \in Variant
          BY <4>1, ElementOfSeq
        <5>2. CASE s.assigned[n].kind = "gadget"
          BY <5>2 DEF Content
        <5>3. CASE s.assigned[n].kind # "gadget"
          <6>1. /\ s.assigned[n] \in [kind : {"wrapper"}, wrapper : Wrapper]
            BY <5>1, <5>3 DEF Variant
          <6>2. PICK u \in Wrapper : s.assigned[n] = [kind |-> "wrapper", wrapper |-> u]
            BY <6>1
          <6>3. u # w
            BY <3>2, <6>2 DEF Listed, ToSet
          <6>. QED  BY <2>6, <6>2, <6>3 DEF Content
        <5>. QED  BY <5>2, <5>3
      <4>3. Filled(s)
        BY <2>12 DEF ListOK
      <4>4. Filled(t)
        BY <2>5, <4>1, <4>2, <4>3 DEF Filled
      <4>. QED  BY <2>7, <2>10, <2>12, <4>4 DEF Keeps, ListOK
    <3>. QED  BY <3>1, <3>2
  <2>. QED  BY <2>5, <2>7, <2>9, <2>10, <2>11, <2>12 DEF Keeps
<1>. QED  BY <1>1, <1>2

-----------------------------------------------------------------------------
(***************************************************************************)
(* Handlers.                                                               *)
(***************************************************************************)
LEMMA ReadTells == Tells(Read)
BY ReadIs, KeepsItself DEF Tells

LEMMA ReactKeeps ==
  ASSUME NEW s \in State
  PROVE  Keeps(s, React(s))
<1>. DEFINE r == s.reaction
            t == [s EXCEPT !.reaction = None]
<1>1. t \in State /\ Keeps(s, t)
  BY NoneIsReaction, ReactionKeeps
<1>2. t.alive = s.alive
  BY DEF State
<1>3. r \in Reaction
  BY DEF State
<1>. HIDE DEF t
<1>4. CASE r.kind = "none"
  <2>1. React(s) = s
    BY <1>4 DEF React
  <2>. QED  BY <2>1, KeepsItself
<1>5. CASE r.kind = "field" /\ r.wrapper \in s.alive
  <2>1. React(s) = SetField(t, r.wrapper, r.field, r.value, Read)
    BY <1>5 DEF React, t
  <2>2. r.field \in 1 .. Fields /\ r.value \in Value
    BY <1>3, <1>5 DEF Reaction
  <2>. HIDE DEF r
  <2>3. Keeps(t, React(s))
    BY <1>1, <1>2, <1>5, <2>1, <2>2, ReadTells, SetFieldStep
  <2>. QED  BY <1>1, <2>3, KeepsOn
<1>6. CASE /\ r.kind = "assign"
           /\ r.variant.kind = "wrapper" => r.variant.wrapper \in s.alive
  <2>1. React(s) = Assign(t, r.variant, Read)
    BY <1>6 DEF React, t
  <2>2. r.variant \in Variant
    BY <1>3, <1>6 DEF Reaction
  <2>3. Usably(t, r.variant)
    BY <1>2, <1>6 DEF Usably
  <2>. HIDE DEF r
  <2>4. Keeps(t, React(s))
    BY <1>1, <2>1, <2>2, <2>3, ReadTells, AssignStep
  <2>. QED  BY <1>1, <2>4, KeepsOn
<1>7. CASE /\ r.kind # "none"
           /\ ~(r.kind = "field" /\ r.wrapper \in s.alive)
           /\ ~(r.kind = "assign" /\ (r.variant.kind = "wrapper" => r.variant.wrapper \in s.alive))
  <2>1. React(s) = t
    BY <1>7 DEF React, t
  <2>. QED  BY <1>1, <2>1
<1>. QED  BY <1>4, <1>5, <1>6, <1>7

LEMMA HearTells == Tells(Hear)
<1>1. ASSUME NEW s \in State
      PROVE  Keeps(Read.struct[s], Hear.struct[s]) /\ Keeps(Read.list[s], Hear.list[s])
  <2>1. Hear.struct[s] = React(Read.struct[s]) /\ Hear.list[s] = React(Read.list[s])
    BY DEF Hear
  <2>2. Read.struct[s] \in State /\ Read.list[s] \in State
    BY ReadIs
  <2>. QED  BY <2>1, <2>2, ReactKeeps
<1>. QED  BY <1>1 DEF Tells

LEMMA AssignFromGadgetKeeps ==
  ASSUME NEW s \in State, NEW w \in s.alive, NEW gadget \in Struct
  PROVE  Keeps(s, AssignFromGadget(s, w, gadget))
<1>. DEFINE N == Fields
            I == {p \in State : Keeps(s, p)}
            Step(q, n) == SetField(q, w, n, gadget[n], Hear)
            next == [n \in 1 .. N |-> [q \in I |-> Step(q, n)]]
            Is(g) == g = [n \in 0 .. N |-> IF n = 0 THEN s ELSE Step(g[n - 1], n)]
            after == CHOOSE g : Is(g)
<1>1. AssignFromGadget(s, w, gadget) = after[N]
  BY DEF AssignFromGadget
<1>2. N \in Nat
  BY ConstantsAssumption DEF ConstantsAssumption
<1>3. s \in I
  BY KeepsItself
<1>4. ASSUME NEW n \in 1 .. N, NEW q \in I
      PROVE  Step(q, n) \in I /\ next[n][q] = Step(q, n)
  <2>1. gadget[n] \in Value
    BY DEF Struct
  <2>2. q \in State /\ w \in q.alive /\ Keeps(s, q)
    BY DEF Keeps
  <2>3. Keeps(q, Step(q, n))
    BY <2>1, <2>2, HearTells, SetFieldStep
  <2>4. Keeps(s, Step(q, n))
    BY <2>2, <2>3, KeepsOn
  <2>5. Step(q, n) \in State
    BY <2>4 DEF Keeps
  <2>. QED  BY <2>4, <2>5
<1>. HIDE DEF I, next, Step, N
<1>5. PICK f : Recursion(f, N, s, next) /\ \A n \in 0 .. N : f[n] \in I
  <2>. DEFINE J == [n \in 0 .. N |-> I]
  <2>1. \A n \in 0 .. N : J[n] = I
    OBVIOUS
  <2>2. \A n \in 1 .. N : n - 1 \in 0 .. N /\ n \in 0 .. N
    BY <1>2
  <2>. HIDE DEF J
  <2>3. \A n \in 1 .. N : \A x \in J[n - 1] : next[n][x] \in J[n]
    BY <1>4, <2>1, <2>2
  <2>4. s \in J[0]
    BY <1>2, <1>3, <2>1
  <2>5. \E f : Recursion(f, N, s, next) /\ \A n \in 0 .. N : f[n] \in J[n]
    BY <1>2, <2>3, <2>4, Solution
  <2>. QED  BY <2>1, <2>5
<1>6. Is(f)
  <2>1. /\ f = [n \in 0 .. N |-> f[n]] /\ f[0] = s
        /\ \A n \in 1 .. N : n - 1 \in 0 .. N /\ f[n] = next[n][f[n - 1]]
    BY <1>2, <1>5, RecursionSteps
  <2>2. \A n \in 1 .. N : f[n] = Step(f[n - 1], n)
    BY <1>4, <1>5, <2>1
  <2>3. ASSUME NEW n \in 0 .. N
        PROVE  f[n] = IF n = 0 THEN s ELSE Step(f[n - 1], n)
    <3>1. n = 0 \/ n \in 1 .. N
      BY <1>2
    <3>. QED  BY <2>1, <2>2, <3>1
  <2>. QED  BY <2>1, <2>3
<1>7. Is(after)
  BY <1>6
<1>. HIDE DEF after
<1>8. \A n \in 0 .. N : after[n] \in I
  <2>. DEFINE S == {n \in 0 .. N : after[n] \in I}
  <2>1. 0 \in S
    BY <1>2, <1>3, <1>7
  <2>2. ASSUME NEW n \in 1 .. N, n - 1 \in S
        PROVE  n \in S
    <3>1. n \in 0 .. N /\ n # 0 /\ after[n - 1] \in I
      BY <1>2, <2>2
    <3>2. after[n] = Step(after[n - 1], n)
      BY <1>7, <3>1
    <3>. QED  BY <1>4, <3>1, <3>2
  <2>. HIDE DEF S
  <2>3. \A n \in 0 .. N : n \in S
    BY <1>2, <2>1, <2>2, CountUp
  <2>. QED  BY <2>3 DEF S
<1>9. N \in 0 .. N
  BY <1>2
<1>10. Keeps(s, after[N])
  BY <1>8, <1>9 DEF I
<1>. QED  BY <1>1, <1>10

-----------------------------------------------------------------------------
(***************************************************************************)
(* The actions.                                                            *)
(***************************************************************************)
LEMMA InitAtRest == Init => Inv
<1>. SUFFICES ASSUME Init
              PROVE  AtRest(qml)
  BY DEF Inv
<1>1. Initial \in Struct
  BY ConstantsAssumption DEF ConstantsAssumption, Initial, Struct
<1>2. <<>> \in Seq(Property) /\ <<>> \in Seq(Variant) /\ <<>> \in Seq(Struct)
  BY EmptySeq
<1>3. qml \in State
  BY <1>1, <1>2, NoneIsReaction DEF Init, State
<1>4. \A w \in Wrapper : ToSet(qml.slots[w]) = {}
  BY EmptySeq DEF Init, ToSet
<1>5. StructureOK(qml)
  BY <1>4 DEF Init, StructureOK, Sound, Wired, Linked, Even, Shown
<1>6. Told(qml) /\ Filled(qml)
  BY EmptySeq DEF Init, Told, Filled
<1>7. Watched(qml)
  <2>1. ToSet(qml.assigned) = {}
    BY EmptySeq DEF Init, ToSet
  <2>. QED  BY <1>4, <2>1 DEF Watched, Listed
<1>. QED  BY <1>3, <1>5, <1>6, <1>7 DEF Init, AtRest, ListOK

LEMMA DoneAtRest ==
  ASSUME NEW s \in State, StructureOK(s), ListOK(s), NEW q, q = Done(s)
  PROVE  AtRest(q)
<1>1. q = [s EXCEPT !.reaction = None]
  BY DEF Done
<1>2. q \in State /\ Keeps(s, q) /\ q.reaction = None
  BY <1>1, NoneIsReaction, ReactionKeeps
<1>. QED  BY <1>2 DEF Keeps, AtRest

LEMMA ReactingKeeps ==
  ASSUME NEW s, AtRest(s), NEW r \in Reaction, NEW x, x = Reacting(s, r)
  PROVE  /\ x \in State /\ StructureOK(x) /\ ListOK(x)
         /\ x.alive = s.alive /\ x.elements = s.elements
<1>1. s \in State /\ x = [s EXCEPT !.reaction = r]
  BY DEF AtRest, Reacting
<1>2. x \in State /\ Keeps(s, x)
  BY <1>1, ReactionKeeps
<1>3. x.alive = s.alive /\ x.elements = s.elements
  BY <1>1 DEF State
<1>. QED  BY <1>2, <1>3 DEF Keeps, AtRest

\* A call made between two others ends as it began.
LEMMA CallAtRest ==
  ASSUME NEW s, StructureOK(s), ListOK(s), NEW x, Keeps(s, x), NEW q, q = Done(x)
  PROVE  AtRest(q)
<1>1. x \in State /\ StructureOK(x) /\ ListOK(x)
  BY DEF Keeps
<1>. QED  BY <1>1, DoneAtRest

LEMMA SetStructureStep ==
  ASSUME Inv, NEW variant \in Variant, NEW r \in Reaction, SetStructure(variant, r)
  PROVE  Inv'
<1>. DEFINE s == Reacting(qml, r)
<1>1. /\ s \in State /\ StructureOK(s) /\ ListOK(s) /\ s.alive = qml.alive
  BY ReactingKeeps DEF Inv
<1>. HIDE DEF s
<1>2. Usably(s, variant) /\ qml' = Done(Assign(s, variant, Hear))
  BY <1>1 DEF SetStructure, Usable, Usably, s
<1>3. Keeps(s, Assign(s, variant, Hear))
  BY <1>1, <1>2, HearTells, AssignStep
<1>4. AtRest(qml')
  BY <1>1, <1>2, <1>3, CallAtRest
<1>. QED  BY <1>4 DEF Inv

LEMMA SetElementsStep ==
  ASSUME Inv, NEW variants \in Seq(Variant), NEW r \in Reaction, SetElements(variants, r)
  PROVE  Inv'
<1>. DEFINE s == Reacting(qml, r)
            t == [s EXCEPT !.assigned = variants]
            x == Refresh(t, Hear)
<1>1. s \in State /\ StructureOK(s) /\ ListOK(s)
  BY ReactingKeeps DEF Inv
<1>2. qml' = Done(x)
  BY DEF SetElements
<1>. HIDE DEF s
<1>3. t \in State /\ SameStructure(s, t) /\ Told(t)
  BY <1>1 DEF State, SameStructure, ListOK, Told
<1>. HIDE DEF t
<1>4. StructureOK(t)
  BY <1>1, <1>3, SameStructureKeeps
<1>5. Keeps(t, x) /\ ListOK(x)
  BY <1>3, HearTells, RefreshStep
<1>6. x \in State /\ StructureOK(x)
  BY <1>4, <1>5 DEF Keeps
<1>7. AtRest(qml')
  BY <1>2, <1>5, <1>6, DoneAtRest
<1>. QED  BY <1>7 DEF Inv

LEMMA ChangeFieldStep ==
  ASSUME Inv, NEW w \in Wrapper, NEW f \in 1 .. Fields, NEW v \in Value, NEW r \in Reaction,
         ChangeField(w, f, v, r)
  PROVE  Inv'
<1>. DEFINE s == Reacting(qml, r)
<1>1. /\ s \in State /\ StructureOK(s) /\ ListOK(s) /\ s.alive = qml.alive
  BY ReactingKeeps DEF Inv
<1>. HIDE DEF s
<1>2. w \in s.alive /\ qml' = Done(SetField(s, w, f, v, Hear))
  BY <1>1 DEF ChangeField, s
<1>3. Keeps(s, SetField(s, w, f, v, Hear))
  BY <1>1, <1>2, HearTells, SetFieldStep
<1>4. AtRest(qml')
  BY <1>1, <1>2, <1>3, CallAtRest
<1>. QED  BY <1>4 DEF Inv

LEMMA SetSerializedStep ==
  ASSUME Inv, NEW w \in Wrapper, NEW g \in Gadget, NEW r \in Reaction, SetSerialized(w, g, r)
  PROVE  Inv'
<1>. DEFINE s == Reacting(qml, r)
<1>1. /\ s \in State /\ StructureOK(s) /\ ListOK(s) /\ s.alive = qml.alive
  BY ReactingKeeps DEF Inv
<1>. HIDE DEF s
<1>2. w \in s.alive /\ qml' = Done(AssignFromGadget(s, w, g))
  BY <1>1 DEF SetSerialized, s
<1>3. g \in Struct
  BY ConstantsAssumption DEF ConstantsAssumption, Struct
<1>4. Keeps(s, AssignFromGadget(s, w, g))
  BY <1>1, <1>2, <1>3, AssignFromGadgetKeeps
<1>5. AtRest(qml')
  BY <1>1, <1>2, <1>4, CallAtRest
<1>. QED  BY <1>5 DEF Inv

LEMMA SetByClientStep ==
  ASSUME Inv, NEW g \in Gadget, NEW r \in Reaction, SetByClient(g, r)
  PROVE  Inv'
<1>. DEFINE s == Reacting(qml, r)
            t == [s EXCEPT !.foreign = @ \union {"struct"}]
            y == [t EXCEPT !.value = g]
            x == SetValue(t, g, Hear)
<1>1. s \in State /\ StructureOK(s) /\ ListOK(s)
  BY ReactingKeeps DEF Inv
<1>2. qml' = Done(x)
  BY DEF SetByClient
<1>3. g \in Struct
  BY ConstantsAssumption DEF ConstantsAssumption, Struct
<1>4. x = IF t.value = g THEN t ELSE Hear.struct[y]
  BY DEF SetValue
<1>. HIDE DEF s
<1>5. /\ t \in State /\ SameList(s, t) /\ "struct" \in t.foreign
      /\ t.alive = s.alive /\ t.pointer = s.pointer /\ t.slots = s.slots
  BY <1>1 DEF State, SameList, Property
<1>. HIDE DEF t
<1>6. /\ y \in State /\ SameList(t, y) /\ y.foreign = t.foreign
      /\ y.alive = t.alive /\ y.pointer = t.pointer /\ y.slots = t.slots
  BY <1>3, <1>5 DEF State, SameList
<1>. HIDE DEF y, x
<1>7. ASSUME NEW z \in {t, y}
      PROVE  z \in State /\ StructureOK(z) /\ ListOK(z)
  <2>1. /\ z \in State /\ "struct" \in z.foreign
        /\ z.alive = s.alive /\ z.pointer = s.pointer /\ z.slots = s.slots
    BY <1>5, <1>6
  <2>2. ~Clean(z)
    BY <2>1 DEF Clean
  <2>3. Wired(z) /\ Linked(z)
    BY <1>1, <2>1 DEF StructureOK, Sound, Wired, Linked
  <2>4. ListOK(t) /\ ListOK(y)
    BY <1>1, <1>5, <1>6, SameListKeeps
  <2>. QED  BY <2>1, <2>2, <2>3, <2>4 DEF StructureOK, Sound, Even
<1>8. x \in State /\ StructureOK(x) /\ ListOK(x)
  <2>1. CASE t.value = g
    BY <1>4, <1>7, <2>1
  <2>2. CASE t.value # g
    <3>1. x = Hear.struct[y]
      BY <1>4, <2>2
    <3>2. y \in State /\ Wired(y) /\ Even(y) /\ Linked(y) /\ ListOK(y)
      BY <1>7 DEF StructureOK, Sound
    <3>. QED  BY <3>1, <3>2, HearTells, TellStructure
  <2>. QED  BY <2>1, <2>2
<1>9. AtRest(qml')
  BY <1>2, <1>8, DoneAtRest
<1>. QED  BY <1>9 DEF Inv

LEMMA SetElementsByClientStep ==
  ASSUME Inv, NEW elements \in Seq(Struct), NEW r \in Reaction,
         SetElementsByClient(elements, r)
  PROVE  Inv'
<1>. DEFINE s == Reacting(qml, r)
            t == [s EXCEPT !.elements = elements, !.foreign = @ \union {"list"}]
            x == Hear.list[t]
<1>1. s \in State /\ StructureOK(s) /\ ListOK(s)
  BY ReactingKeeps DEF Inv
<1>2. qml' = Done(x)
  BY DEF SetElementsByClient
<1>. HIDE DEF s
<1>3. /\ t \in State /\ SameStructure(s, t) /\ "list" \in t.foreign
      /\ t.alive = s.alive /\ t.assigned = s.assigned /\ t.slots = s.slots
  BY <1>1 DEF State, SameStructure, Property
<1>. HIDE DEF t
<1>4. StructureOK(t)
  BY <1>1, <1>3, SameStructureKeeps
<1>5. Watched(t) /\ Filled(t)
  BY <1>1, <1>3 DEF ListOK, Watched, Listed, Filled
<1>6. Keeps(t, x) /\ ListOK(x)
  BY <1>3, <1>5, HearTells, TellList
<1>7. x \in State /\ StructureOK(x)
  BY <1>4, <1>6 DEF Keeps
<1>8. AtRest(qml')
  BY <1>2, <1>6, <1>7, DoneAtRest
<1>. QED  BY <1>8 DEF Inv

LEMMA DestroyWrapperStep ==
  ASSUME Inv, NEW w \in Wrapper, DestroyWrapper(w)
  PROVE  Inv'
<1>. DEFINE pointer == IF qml.pointer = w THEN NoWrapper ELSE qml.pointer
<1>1. qml \in State /\ qml.reaction = None /\ StructureOK(qml) /\ ListOK(qml)
  BY DEF Inv, AtRest
<1>2. PICK q : q = [qml EXCEPT !.alive = @ \ {w}, !.slots[w] = <<>>,
                               !.pointer = IF @ = w THEN NoWrapper ELSE @]
  OBVIOUS
<1>3. qml' = q
  BY <1>2 DEF DestroyWrapper
<1>4. /\ <<>> \in Seq(Property) /\ ToSet(<<>>) = {}
      /\ qml.slots \in [Wrapper -> Seq(Property)]
      /\ qml.pointer \in Wrapper \union {NoWrapper}
  BY <1>1, EmptySeq DEF State, ToSet
<1>5. q = [qml EXCEPT !.alive = qml.alive \ {w}, !.slots = [qml.slots EXCEPT ![w] = <<>>],
                      !.pointer = pointer]
  BY <1>1, <1>2 DEF State
<1>6. pointer \in Wrapper \union {NoWrapper}
  BY <1>4
<1>7. [qml.slots EXCEPT ![w] = <<>>] \in [Wrapper -> Seq(Property)]
  BY <1>4
<1>. HIDE DEF pointer
<1>8. /\ q \in State /\ q.alive = qml.alive \ {w} /\ q.pointer = pointer
      /\ q.slots = [qml.slots EXCEPT ![w] = <<>>]
      /\ q.value = qml.value /\ q.read = qml.read /\ q.fields = qml.fields
      /\ q.assigned = qml.assigned /\ q.elements = qml.elements
      /\ q.elementsRead = qml.elementsRead /\ q.reaction = qml.reaction
      /\ q.unheard = qml.unheard /\ q.undefined = qml.undefined /\ q.foreign = qml.foreign
  BY <1>1, <1>5, <1>6, <1>7 DEF State
<1>9. /\ q.slots[w] = <<>>
      /\ \A u \in Wrapper : u # w => q.slots[u] = qml.slots[u]
  BY <1>4, <1>8
<1>10. Wired(qml) /\ Linked(qml) /\ Even(qml) /\ (Clean(qml) => qml.read = qml.value)
  BY <1>1 DEF StructureOK, Sound
<1>11. pointer # NoWrapper => pointer = qml.pointer /\ pointer # w
  BY DEF pointer
<1>12. qml.pointer = NoWrapper => pointer = NoWrapper
  BY ConstantsAssumption DEF pointer, ConstantsAssumption
<1>13. Wired(q)
  <2>1. pointer # NoWrapper => pointer \in q.alive
    BY <1>8, <1>10, <1>11 DEF Wired
  <2>2. ASSUME NEW u \in Wrapper, u # pointer
        PROVE  "struct" \notin ToSet(q.slots[u])
    <3>1. CASE u = w
      BY <1>4, <1>9, <3>1
    <3>2. CASE u # w
      <4>1. u # qml.pointer
        BY <2>2, <3>2 DEF pointer
      <4>. QED  BY <1>9, <1>10, <3>2, <4>1 DEF Wired
    <3>. QED  BY <3>1, <3>2
  <2>. QED  BY <1>8, <2>1, <2>2 DEF Wired
<1>14. Linked(q)
  BY <1>4, <1>8, <1>9, <1>10, <1>11 DEF Linked
<1>15. Clean(q) <=> Clean(qml)
  BY <1>8 DEF Clean
<1>16. Even(q) /\ (Clean(q) => q.read = q.value)
  BY <1>8, <1>10, <1>11, <1>15 DEF Even, Shown
<1>17. Watched(qml) /\ Told(qml) /\ Filled(qml)
  BY <1>1 DEF ListOK
<1>18. \A u : Listed(q, u) <=> Listed(qml, u)
  BY <1>8 DEF Listed
<1>19. Watched(q)
  <2>1. ASSUME NEW u \in Wrapper
        PROVE  /\ "list" \in ToSet(q.slots[u]) => Listed(q, u)
               /\ u \in q.alive /\ Listed(q, u) => "list" \in ToSet(q.slots[u])
    <3>1. CASE u = w
      BY <1>4, <1>8, <1>9, <3>1
    <3>2. CASE u # w
      BY <1>8, <1>9, <1>17, <1>18, <3>2 DEF Watched
    <3>. QED  BY <3>1, <3>2
  <2>. QED  BY <2>1 DEF Watched
<1>20. Told(q) /\ Filled(q)
  <2>1. \A x : Content(q, x) = Content(qml, x)
    BY <1>8 DEF Content
  <2>. QED  BY <1>8, <1>17, <2>1 DEF Told, Filled
<1>21. AtRest(q)
  BY <1>1, <1>8, <1>13, <1>14, <1>16, <1>19, <1>20 DEF AtRest, StructureOK, Sound, ListOK
<1>. QED  BY <1>3, <1>21 DEF Inv

LEMMA NextKeepsInv == Inv /\ [Next]_qml => Inv'
<1>. SUFFICES ASSUME Inv, [Next]_qml
              PROVE  Inv'
  OBVIOUS
<1>1. CASE UNCHANGED qml
  BY <1>1 DEF Inv
<1>2. ASSUME NEW r \in Reaction, NEW v \in Variant, SetStructure(v, r)
      PROVE  Inv'
  BY <1>2, SetStructureStep
<1>3. ASSUME NEW r \in Reaction, NEW n \in 0 .. MaxLength, NEW vs \in [1 .. n -> Variant],
             SetElements(vs, r)
      PROVE  Inv'
  <2>1. vs \in Seq(Variant)
    BY ConstantsAssumption, IsASeq DEF ConstantsAssumption
  <2>. QED  BY <1>3, <2>1, SetElementsStep
<1>4. ASSUME NEW r \in Reaction, NEW w \in Wrapper, NEW f \in 1 .. Fields, NEW v \in Value,
             ChangeField(w, f, v, r)
      PROVE  Inv'
  BY <1>4, ChangeFieldStep
<1>5. ASSUME NEW r \in Reaction, NEW w \in Wrapper, NEW g \in Gadget, SetSerialized(w, g, r)
      PROVE  Inv'
  BY <1>5, SetSerializedStep
<1>6. ASSUME NEW r \in Reaction, NEW g \in Gadget, SetByClient(g, r)
      PROVE  Inv'
  BY <1>6, SetByClientStep
<1>7. ASSUME NEW r \in Reaction, NEW n \in 0 .. MaxLength, NEW es \in [1 .. n -> Gadget],
             SetElementsByClient(es, r)
      PROVE  Inv'
  <2>1. es \in [1 .. n -> Struct]
    BY ConstantsAssumption DEF ConstantsAssumption, Struct
  <2>2. es \in Seq(Struct)
    BY <2>1, ConstantsAssumption, IsASeq DEF ConstantsAssumption
  <2>. QED  BY <1>7, <2>2, SetElementsByClientStep
<1>8. ASSUME NEW w \in Wrapper, DestroyWrapper(w)
      PROVE  Inv'
  BY <1>8, DestroyWrapperStep
<1>. QED  BY <1>1, <1>2, <1>3, <1>4, <1>5, <1>6, <1>7, <1>8, Zenon DEF Next

\* Between two calls the service's properties follow what is assigned to them,
\* the connections are those that make them follow, and QML has heard of it.
THEOREM Invariance == Spec => []Inv
<1>1. Init => Inv
  BY InitAtRest
<1>2. Inv /\ [Next]_qml => Inv'
  BY NextKeepsInv
<1>. QED  BY <1>1, <1>2, PTL DEF Spec

-----------------------------------------------------------------------------
(***************************************************************************)
(* What follows.                                                           *)
(***************************************************************************)
\* And no connection is left that nobody needs.
THEOREM TypeCorrect == Spec => []TypeOK
<1>1. Inv => TypeOK
  <2>. SUFFICES ASSUME Inv
                PROVE  TypeOK
    OBVIOUS
  <2>1. qml \in State /\ qml.reaction = None /\ Wired(qml) /\ Watched(qml)
    BY DEF Inv, AtRest, StructureOK, Sound, ListOK
  <2>2. ASSUME NEW w \in Wrapper
        PROVE  ToSet(qml.slots[w]) \subseteq {"struct", "list"}
    <3>1. qml.slots[w] \in Seq(Property)
      BY <2>1 DEF State
    <3>2. \A n \in DOMAIN qml.slots[w] : qml.slots[w][n] \in Property
      BY <3>1, LenProperties, ElementOfSeq
    <3>. QED  BY <3>2 DEF ToSet, Property
  <2>. QED  BY <2>1, <2>2 DEF TypeOK, Wired, Watched, Listed
<1>. QED  BY <1>1, Invariance, PTL

\* The service's structure is what its wrapper holds, however the handlers that
\* hear of a change, in the middle of an assignment or of the signal of a field,
\* assign or change something themselves.
THEOREM StructureCorrect == Spec => []StructureFollows
<1>1. Inv => StructureFollows
  BY DEF Inv, AtRest, StructureOK, Even, Clean, Shown, StructureFollows
<1>. QED  BY <1>1, Invariance, PTL

\* The service's list holds what its gadgets and wrappers hold, though reading
\* it again replaces the connections through which it is told to do so.
THEOREM ElementsCorrect == Spec => []ElementsFollow
<1>1. Inv => ElementsFollow
  BY DEF Inv, AtRest, ListOK, Filled, ElementsFollow
<1>. QED  BY <1>1, Invariance, PTL

\* What QML has read last is what it would read now: no value changes behind
\* its back, as when a wrapper is replaced by a gadget of another value.
THEOREM HandlersCorrect == Spec => []HandlersCurrent
<1>1. Inv => HandlersCurrent
  BY DEF Inv, AtRest, StructureOK, Sound, Even, Clean, Shown, ListOK, Told, HandlersCurrent
<1>. QED  BY <1>1, Invariance, PTL

=============================================================================
