--------------------------- MODULE ModelRowsProofs ---------------------------
(***************************************************************************)
(* Proofs about ModelRows, for any items, number of rows, size of the      *)
(* cache and of the window, and number of changes: a proxy that has        *)
(* received everything shows and caches the service's rows and has an      *)
(* answer for every row it asked for, unless the service was withdrawn.    *)
(*                                                                         *)
(* The invariant follows the messages that wait in the client: it relates  *)
(* the proxy to the service's model as it was before the first of them,    *)
(* and each row that is cached, brought or asked for to the messages that  *)
(* will replace, drop or answer it.                                        *)
(***************************************************************************)
EXTENDS ModelRows, SequenceTheorems, WellFoundedInduction, TLAPS

\* What a cache of these keys and items may be; WellFormed is asked apart.
CacheOf(Key, Item) ==
  [recent : Seq(Key), items : UNION {[keys -> Item] : keys \in SUBSET Key}]

-----------------------------------------------------------------------------
(***************************************************************************)
(* Lists without repetitions.                                              *)
(***************************************************************************)
LEMMA ConsFacts ==
  ASSUME NEW Key, NEW s \in Seq(Key), NEW key \in Key, IsInjective(s), key \notin ToSet(s)
  PROVE  /\ <<key>> \o s \in Seq(Key)
         /\ Len(<<key>> \o s) = Len(s) + 1
         /\ (<<key>> \o s)[1] = key
         /\ IsInjective(<<key>> \o s)
         /\ ToSet(<<key>> \o s) = ToSet(s) \union {key}
<1>. DEFINE t == <<key>> \o s
<1>1. /\ t \in Seq(Key) /\ Len(t) = Len(s) + 1 /\ t[1] = key /\ Len(s) \in Nat
      /\ \A i \in 1 .. Len(s) : t[i + 1] = s[i]
  BY ConcatProperties, LenProperties
<1>2. DOMAIN s = 1 .. Len(s) /\ DOMAIN t = 1 .. Len(s) + 1
  BY <1>1, LenProperties
<1>. HIDE DEF t
<1>3. \A i \in 2 .. Len(s) + 1 : i - 1 \in 1 .. Len(s) /\ t[i] = s[i - 1]
  BY <1>1
<1>4. IsInjective(t)
  <2>. SUFFICES ASSUME NEW i \in 1 .. Len(s) + 1, NEW j \in 1 .. Len(s) + 1, t[i] = t[j]
                PROVE  i = j
    BY <1>2 DEF IsInjective
  <2>1. CASE i = 1 \/ j = 1
    <3>1. \A n \in 2 .. Len(s) + 1 : t[n] # t[1]
      BY <1>1, <1>2, <1>3 DEF ToSet
    <3>2. i \in 2 .. Len(s) + 1 \/ i = 1
      BY <1>1
    <3>3. j \in 2 .. Len(s) + 1 \/ j = 1
      BY <1>1
    <3>. QED  BY <2>1, <3>1, <3>2, <3>3
  <2>2. CASE i # 1 /\ j # 1
    <3>1. i \in 2 .. Len(s) + 1 /\ j \in 2 .. Len(s) + 1
      BY <1>1, <2>2
    <3>2. i - 1 = j - 1
      BY <1>2, <1>3, <3>1 DEF IsInjective
    <3>. QED  BY <3>1, <3>2
  <2>. QED  BY <2>1, <2>2
<1>5. ToSet(t) = ToSet(s) \union {key}
  <2>1. ASSUME NEW i \in 1 .. Len(s) + 1 PROVE t[i] \in ToSet(s) \union {key}
    <3>1. CASE i = 1
      BY <1>1, <3>1
    <3>2. CASE i # 1
      <4>1. i \in 2 .. Len(s) + 1
        BY <1>1, <3>2
      <4>. QED  BY <1>2, <1>3, <4>1 DEF ToSet
    <3>. QED  BY <3>1, <3>2
  <2>2. ASSUME NEW i \in 1 .. Len(s) PROVE s[i] \in ToSet(t)
    <3>1. i + 1 \in 1 .. Len(s) + 1
      BY <1>1
    <3>. QED  BY <1>1, <1>2, <3>1 DEF ToSet
  <2>3. key \in ToSet(t)
    BY <1>1, <1>2 DEF ToSet
  <2>. QED  BY <1>2, <2>1, <2>2, <2>3 DEF ToSet
<1>. QED  BY <1>1, <1>4, <1>5 DEF t

LEMMA FrontFacts ==
  ASSUME NEW Key, NEW s \in Seq(Key), s # <<>>, IsInjective(s)
  PROVE  /\ Front(s) \in Seq(Key)
         /\ Len(Front(s)) = Len(s) - 1
         /\ \A i \in 1 .. Len(s) - 1 : Front(s)[i] = s[i]
         /\ IsInjective(Front(s))
         /\ ToSet(Front(s)) = ToSet(s) \ {Last(s)}
<1>. DEFINE t == Front(s)
<1>1. Len(s) \in Nat /\ Len(s) > 0 /\ DOMAIN s = 1 .. Len(s) /\ Last(s) = s[Len(s)]
  BY LenProperties, EmptySeq DEF Last
<1>2. t \in Seq(Key) /\ Len(t) = Len(s) - 1 /\ \A i \in 1 .. Len(s) - 1 : t[i] = s[i]
  BY <1>1, SubSeqProperties DEF Front
<1>3. DOMAIN t = 1 .. Len(s) - 1
  BY <1>2, LenProperties
<1>. HIDE DEF t
<1>4. IsInjective(t)
  BY <1>1, <1>2, <1>3 DEF IsInjective
<1>5. ToSet(t) = ToSet(s) \ {Last(s)}
  <2>1. ASSUME NEW i \in 1 .. Len(s) - 1 PROVE t[i] \in ToSet(s) \ {Last(s)}
    BY <1>1, <1>2 DEF ToSet, IsInjective
  <2>2. ASSUME NEW i \in 1 .. Len(s), s[i] # Last(s) PROVE s[i] \in ToSet(t)
    <3>1. i \in 1 .. Len(s) - 1
      BY <1>1, <2>2
    <3>. QED  BY <1>2, <1>3, <3>1 DEF ToSet
  <2>. QED  BY <1>1, <1>3, <2>1, <2>2 DEF ToSet
<1>. QED  BY <1>2, <1>4, <1>5 DEF t

LEMMA WithoutFacts ==
  ASSUME NEW Key, NEW s \in Seq(Key), NEW key \in ToSet(s), IsInjective(s)
  PROVE  /\ Without(s, key) \in Seq(Key)
         /\ Len(Without(s, key)) = Len(s) - 1
         /\ IsInjective(Without(s, key))
         /\ ToSet(Without(s, key)) = ToSet(s) \ {key}
<1>. DEFINE k == CHOOSE n \in DOMAIN s : s[n] = key
            t == Without(s, key)
<1>1. Len(s) \in Nat /\ DOMAIN s = 1 .. Len(s)
  BY LenProperties
<1>2. k \in 1 .. Len(s) /\ s[k] = key
  BY <1>1 DEF ToSet
<1>3. t = SubSeq(s, 1, k - 1) \o SubSeq(s, k + 1, Len(s))
  BY DEF Without, RemoveAt
<1>. HIDE DEF k, t
<1>4. /\ SubSeq(s, 1, k - 1) \in Seq(Key) /\ Len(SubSeq(s, 1, k - 1)) = k - 1
      /\ \A i \in 1 .. k - 1 : SubSeq(s, 1, k - 1)[i] = s[i]
  BY <1>1, <1>2, SubSeqProperties
<1>5. /\ SubSeq(s, k + 1, Len(s)) \in Seq(Key) /\ Len(SubSeq(s, k + 1, Len(s))) = Len(s) - k
      /\ \A i \in 1 .. Len(s) - k : SubSeq(s, k + 1, Len(s))[i] = s[i + k]
  <2>. DEFINE m == k + 1
              n == Len(s)
  <2>1. m \in Int /\ n \in Int /\ \A i \in m .. n : s[i] \in Key
    BY <1>1, <1>2
  <2>. HIDE DEF m, n
  <2>2. /\ SubSeq(s, m, n) \in Seq(Key)
        /\ Len(SubSeq(s, m, n)) = IF m <= n THEN n - m + 1 ELSE 0
        /\ \A i \in 1 .. n - m + 1 : SubSeq(s, m, n)[i] = s[m + i - 1]
    BY <2>1, SubSeqProperties
  <2>3. /\ n - m + 1 = Len(s) - k
        /\ (IF m <= n THEN n - m + 1 ELSE 0) = Len(s) - k
        /\ \A i \in 1 .. Len(s) - k : m + i - 1 = i + k
    <3>1. n - m + 1 = Len(s) - k
      BY <1>1, <1>2 DEF m, n
    <3>2. (IF m <= n THEN n - m + 1 ELSE 0) = Len(s) - k
      <4>1. CASE m <= n
        BY <3>1, <4>1
      <4>2. CASE ~(m <= n)
        <5>0. m = k + 1 /\ n = Len(s) /\ k \in Int /\ Len(s) \in Int /\ k <= Len(s)
          BY <1>1, <1>2 DEF m, n
        <5>1. Len(s) - k = 0
          BY <4>2, <5>0
        <5>. QED  BY <4>2, <5>1
      <4>. QED  BY <4>1, <4>2
    <3>3. ASSUME NEW i \in 1 .. Len(s) - k PROVE m + i - 1 = i + k
      BY <1>1, <1>2 DEF m, n
    <3>. QED  BY <3>1, <3>2, <3>3
  <2>4. /\ SubSeq(s, m, n) \in Seq(Key)
        /\ Len(SubSeq(s, m, n)) = Len(s) - k
        /\ \A i \in 1 .. Len(s) - k : SubSeq(s, m, n)[i] = s[i + k]
    BY <2>2, <2>3
  <2>. QED  BY <2>4 DEF m, n
<1>6. /\ t \in Seq(Key) /\ Len(t) = Len(s) - 1
      /\ \A i \in 1 .. k - 1 : t[i] = s[i]
      /\ \A i \in k .. Len(s) - 1 : t[i] = s[i + 1]
  <2>. DEFINE left == SubSeq(s, 1, k - 1)
              right == SubSeq(s, k + 1, Len(s))
  <2>. HIDE DEF left, right
  <2>1. /\ t = left \o right
        /\ left \in Seq(Key) /\ Len(left) = k - 1 /\ \A i \in 1 .. k - 1 : left[i] = s[i]
        /\ right \in Seq(Key) /\ Len(right) = Len(s) - k
        /\ \A i \in 1 .. Len(s) - k : right[i] = s[i + k]
    BY <1>3, <1>4, <1>5 DEF left, right
  <2>2. /\ t \in Seq(Key) /\ Len(t) = Len(s) - 1
        /\ \A i \in 1 .. Len(s) - 1 :
             t[i] = IF i <= k - 1 THEN left[i] ELSE right[i - (k - 1)]
    <3>1. Len(left) + Len(right) = Len(s) - 1
      BY <1>1, <1>2, <2>1
    <3>2. /\ left \o right \in Seq(Key) /\ Len(left \o right) = Len(left) + Len(right)
          /\ \A i \in 1 .. Len(left) + Len(right) :
               (left \o right)[i] = IF i <= Len(left) THEN left[i] ELSE right[i - Len(left)]
      BY <2>1, ConcatProperties
    <3>. QED  BY <2>1, <3>1, <3>2
  <2>3. ASSUME NEW i \in k .. Len(s) - 1 PROVE t[i] = s[i + 1]
    <3>1. i \in 1 .. Len(s) - 1 /\ ~(i <= k - 1) /\ i - (k - 1) \in 1 .. Len(s) - k
      BY <1>1, <1>2
    <3>2. (i - (k - 1)) + k = i + 1
      BY <1>1, <1>2
    <3>. QED  BY <2>1, <2>2, <3>1, <3>2
  <2>4. ASSUME NEW i \in 1 .. k - 1 PROVE t[i] = s[i]
    <3>1. i \in 1 .. Len(s) - 1 /\ i <= k - 1
      BY <1>1, <1>2
    <3>. QED  BY <2>1, <2>2, <3>1
  <2>. QED  BY <2>2, <2>3, <2>4
<1>7. DOMAIN t = 1 .. Len(s) - 1
  BY <1>6, LenProperties
<1>8. \A i \in 1 .. Len(s) - 1 :
        \E j \in 1 .. Len(s) \ {k} : t[i] = s[j] /\ j = (IF i < k THEN i ELSE i + 1)
  BY <1>1, <1>2, <1>6
<1>9. IsInjective(t)
  BY <1>1, <1>2, <1>7, <1>8 DEF IsInjective
<1>10. ToSet(t) = ToSet(s) \ {key}
  <2>1. ASSUME NEW i \in 1 .. Len(s) - 1 PROVE t[i] \in ToSet(s) \ {key}
    BY <1>1, <1>2, <1>8 DEF ToSet, IsInjective
  <2>2. ASSUME NEW j \in 1 .. Len(s), s[j] # key PROVE s[j] \in ToSet(t)
    <3>1. PICK i \in 1 .. Len(s) - 1 : t[i] = s[j]
      <4>1. CASE j < k
        <5>1. j \in 1 .. k - 1 /\ j \in 1 .. Len(s) - 1
          BY <1>1, <1>2, <4>1
        <5>. QED  BY <1>6, <5>1
      <4>2. CASE j > k
        <5>1. j - 1 \in k .. Len(s) - 1 /\ j - 1 \in 1 .. Len(s) - 1 /\ (j - 1) + 1 = j
          BY <1>1, <1>2, <4>2
        <5>. QED  BY <1>6, <5>1
      <4>3. j # k
        BY <1>2, <2>2
      <4>. QED  BY <1>1, <1>2, <4>1, <4>2, <4>3
    <3>. QED  BY <1>7, <3>1 DEF ToSet
  <2>. QED  BY <1>1, <1>7, <2>1, <2>2 DEF ToSet
<1>. QED  BY <1>6, <1>9, <1>10 DEF t

-----------------------------------------------------------------------------
(***************************************************************************)
(* The operations.                                                         *)
(***************************************************************************)
LEMMA CacheIntro ==
  ASSUME NEW Key, NEW Item, NEW list \in Seq(Key), NEW keys \in SUBSET Key, NEW index \in [keys -> Item],
         Len(list) <= Capacity, IsInjective(list), ToSet(list) = keys
  PROVE  /\ [recent |-> list, items |-> index] \in CacheOf(Key, Item)
         /\ WellFormed([recent |-> list, items |-> index])
BY DEF CacheOf, WellFormed

LEMMA EmptyCacheWellFormed ==
  ASSUME NEW Key, NEW Item
  PROVE  EmptyCache \in CacheOf(Key, Item) /\ WellFormed(EmptyCache)
<1>1. <<>> \in Seq(Key) /\ Len(<<>>) <= Capacity /\ DOMAIN <<>> = {}
  BY CapacityAssumption
<1>2. <<>> \in [{} -> Item]
  BY <1>1
<1>3. IsInjective(<<>>) /\ ToSet(<<>>) = {}
  BY <1>1 DEF IsInjective, ToSet
<1>. QED  BY <1>1, <1>2, <1>3, CacheIntro DEF EmptyCache

\* insert() and the eviction it may lead to leave no node without an entry of
\* the index, no entry without a node, and no more nodes than fit.  The item
\* inserted is there, and what stays is what it was.
THEOREM InsertKeepsInStep ==
  ASSUME NEW Key, NEW Item, NEW cache \in CacheOf(Key, Item), WellFormed(cache), NEW key \in Key, NEW item \in Item
  PROVE  LET after == Insert(cache, key, item)
         IN  /\ after \in CacheOf(Key, Item) /\ WellFormed(after)
             /\ Exists(after, key) /\ Lookup(after, key) = item
             /\ \A other \in DOMAIN after.items \ {key} :
                  Exists(cache, other) /\ Lookup(after, other) = Lookup(cache, other)
<1>. DEFINE rest == IF Exists(cache, key) THEN Without(cache.recent, key) ELSE cache.recent
            list == <<key>> \o rest
            index == [k \in DOMAIN cache.items \union {key} |->
                        IF k = key THEN item ELSE cache.items[k]]
            after == Insert(cache, key, item)
<1>1. /\ cache.recent \in Seq(Key) /\ Len(cache.recent) \in Nat
      /\ Len(cache.recent) <= Capacity /\ IsInjective(cache.recent)
      /\ ToSet(cache.recent) = DOMAIN cache.items
      /\ Capacity \in Nat \ {0}
      /\ DOMAIN cache.items \subseteq Key
      /\ \A k \in DOMAIN cache.items : cache.items[k] \in Item
  BY CapacityAssumption, LenProperties DEF CacheOf, WellFormed
<1>2. /\ rest \in Seq(Key) /\ Len(rest) <= Capacity /\ Len(rest) \in Nat
      /\ IsInjective(rest) /\ ToSet(rest) = DOMAIN cache.items \ {key}
  BY <1>1, WithoutFacts, LenProperties DEF Exists
<1>3. after = Evict([recent |-> list, items |-> index])
  BY DEF Insert
<1>. HIDE DEF rest
<1>4. /\ list \in Seq(Key) /\ Len(list) = Len(rest) + 1 /\ list[1] = key
      /\ IsInjective(list) /\ ToSet(list) = DOMAIN index
  BY <1>1, <1>2, ConsFacts
<1>5. /\ DOMAIN index \subseteq Key /\ \A k \in DOMAIN index : index[k] \in Item
      /\ key \in DOMAIN index /\ index[key] = item
      /\ \A k \in DOMAIN index \ {key} : k \in DOMAIN cache.items /\ index[k] = cache.items[k]
  BY <1>1
<1>. HIDE DEF list, after
<1>. SUFFICES \E keys \in SUBSET Key : \E kept \in [keys -> Item], short \in Seq(Key) :
                /\ after = [recent |-> short, items |-> kept]
                /\ Len(short) <= Capacity /\ IsInjective(short) /\ ToSet(short) = keys
                /\ key \in keys /\ keys \subseteq DOMAIN index
                /\ \A k \in keys : kept[k] = index[k]
  <2>. HIDE DEF index
  <2>1. PICK keys \in SUBSET Key : \E kept \in [keys -> Item], short \in Seq(Key) :
                /\ after = [recent |-> short, items |-> kept]
                /\ Len(short) <= Capacity /\ IsInjective(short) /\ ToSet(short) = keys
                /\ key \in keys /\ keys \subseteq DOMAIN index
                /\ \A k \in keys : kept[k] = index[k]
    OBVIOUS
  <2>2. PICK kept \in [keys -> Item], short \in Seq(Key) :
                /\ after = [recent |-> short, items |-> kept]
                /\ Len(short) <= Capacity /\ IsInjective(short) /\ ToSet(short) = keys
                /\ key \in keys /\ keys \subseteq DOMAIN index
                /\ \A k \in keys : kept[k] = index[k]
    BY <2>1
  <2>3. after \in CacheOf(Key, Item) /\ WellFormed(after)
    BY <2>2, CacheIntro
  <2>4. after.items = kept /\ DOMAIN kept = keys
    BY <2>2
  <2>5. Exists(after, key) /\ Lookup(after, key) = item
    BY <1>5, <2>2, <2>4 DEF Exists, Lookup
  <2>6. \A other \in DOMAIN after.items \ {key} :
          Exists(cache, other) /\ Lookup(after, other) = Lookup(cache, other)
    BY <1>5, <2>2, <2>4 DEF Exists, Lookup
  <2>. QED  BY <2>3, <2>5, <2>6 DEF after
<1>8. index \in [DOMAIN index -> Item]
  BY <1>5
<1>. HIDE DEF index
<1>6. CASE Len(list) <= Capacity
  <2>1. after = [recent |-> list, items |-> index]
    BY <1>1, <1>2, <1>3, <1>4, <1>6 DEF Evict
  <2>. QED  BY <1>4, <1>5, <1>6, <1>8, <2>1
<1>7. CASE Len(list) > Capacity
  <2>1. after = [recent |-> Front(list), items |-> Drop(index, Last(list))]
    BY <1>3, <1>7 DEF Evict
  <2>2. list # <<>> /\ Len(list) = Capacity + 1 /\ DOMAIN list = 1 .. Len(list)
    BY <1>1, <1>2, <1>4, <1>7, EmptySeq, LenProperties
  <2>3. Last(list) # key
    BY <1>1, <1>4, <2>2 DEF Last, IsInjective
  <2>4. /\ Front(list) \in Seq(Key) /\ Len(Front(list)) = Capacity
        /\ IsInjective(Front(list)) /\ ToSet(Front(list)) = DOMAIN index \ {Last(list)}
    BY <1>1, <1>4, <2>2, FrontFacts
  <2>. DEFINE kept == Drop(index, Last(list))
  <2>5. /\ DOMAIN kept = DOMAIN index \ {Last(list)}
        /\ \A k \in DOMAIN kept : kept[k] = index[k]
        /\ kept \in [DOMAIN kept -> Item]
    BY <1>5 DEF Drop
  <2>. HIDE DEF kept
  <2>6. after = [recent |-> Front(list), items |-> kept]
    BY <2>1 DEF kept
  <2>7. DOMAIN kept \in SUBSET Key /\ key \in DOMAIN kept /\ Capacity <= Capacity
    BY <1>1, <1>5, <2>3, <2>5
  <2>. QED  BY <2>4, <2>5, <2>6, <2>7
<1>. QED  BY <1>1, <1>2, <1>4, <1>6, <1>7

\* get() moves a key to the front of the list and changes nothing else.
THEOREM TouchKeepsInStep ==
  ASSUME NEW Key, NEW Item, NEW cache \in CacheOf(Key, Item), WellFormed(cache), NEW key, Exists(cache, key)
  PROVE  /\ Touch(cache, key) \in CacheOf(Key, Item) /\ WellFormed(Touch(cache, key))
         /\ Touch(cache, key).items = cache.items
<1>1. /\ cache.recent \in Seq(Key) /\ IsInjective(cache.recent)
      /\ key \in ToSet(cache.recent) /\ key \in Key
      /\ Len(cache.recent) \in Nat /\ Len(cache.recent) <= Capacity
      /\ ToSet(cache.recent) = DOMAIN cache.items
  BY LenProperties DEF CacheOf, WellFormed, Exists
<1>. DEFINE rest == Without(cache.recent, key)
            list == <<key>> \o rest
<1>2. /\ rest \in Seq(Key) /\ Len(rest) = Len(cache.recent) - 1
      /\ IsInjective(rest) /\ ToSet(rest) = ToSet(cache.recent) \ {key}
  BY <1>1, WithoutFacts
<1>. HIDE DEF rest
<1>3. /\ list \in Seq(Key) /\ Len(list) = Len(cache.recent)
      /\ IsInjective(list) /\ ToSet(list) = ToSet(cache.recent)
  <2>1. /\ list \in Seq(Key) /\ Len(list) = Len(rest) + 1
        /\ IsInjective(list) /\ ToSet(list) = ToSet(rest) \union {key}
    BY <1>1, <1>2, ConsFacts
  <2>2. Len(rest) + 1 = Len(cache.recent)
    BY <1>1, <1>2
  <2>3. ToSet(rest) \union {key} = ToSet(cache.recent)
    BY <1>1, <1>2
  <2>. QED  BY <2>1, <2>2, <2>3
<1>4. Touch(cache, key) = [recent |-> list, items |-> cache.items]
  <2>1. cache = [recent |-> cache.recent, items |-> cache.items]
    BY DEF CacheOf
  <2>2. Touch(cache, key) = [[recent |-> cache.recent, items |-> cache.items] EXCEPT !.recent = list]
    BY <2>1 DEF Touch, rest
  <2>. QED  BY <2>2
<1>. HIDE DEF list
<1>5. cache.items \in [DOMAIN cache.items -> Item] /\ DOMAIN cache.items \in SUBSET Key
  BY DEF CacheOf
<1>6. /\ [recent |-> list, items |-> cache.items] \in CacheOf(Key, Item)
      /\ WellFormed([recent |-> list, items |-> cache.items])
  BY <1>1, <1>3, <1>5, CacheIntro
<1>. QED  BY <1>4, <1>6

-----------------------------------------------------------------------------
(***************************************************************************)
(* Counting.                                                               *)
(***************************************************************************)
LEMMA LeastNatural ==
  ASSUME NEW T, T \subseteq Nat, T # {}
  PROVE  \E n \in T : \A m \in T : n <= m
<1>. DEFINE R == OpToRel(<, Nat)
<1>1. IsWellFoundedOn(R, Nat)
  BY NatLessThanWellFounded, Zenon
<1>2. \A m, n \in Nat : m < n => <<m, n>> \in R
  BY DEF OpToRel
<1>. HIDE DEF R
<1>3. PICK n \in T : \A m \in T : ~(<<m, n>> \in R)
  BY <1>1, WFMin
<1>4. ASSUME NEW m \in T
      PROVE  n <= m
  <2>1. m \in Nat /\ n \in Nat
    OBVIOUS
  <2>2. ~(m < n)
    BY <1>2, <1>3, <2>1
  <2>. QED  BY <2>1, <2>2
<1>. QED  BY <1>4

LEMMA CountUp ==
  ASSUME NEW N \in Nat, NEW S, 0 \in S, \A n \in 1 .. N : n - 1 \in S => n \in S
  PROVE  \A n \in 0 .. N : n \in S
<1>. DEFINE T == {n \in 0 .. N : n \notin S}
<1>. SUFFICES ASSUME T # {}
              PROVE  FALSE
  OBVIOUS
<1>1. PICK n \in T : \A m \in T : n <= m
  <2>1. T \subseteq Nat
    OBVIOUS
  <2>. HIDE DEF T
  <2>. QED  BY <2>1, LeastNatural
<1>2. n \in 1 .. N /\ n - 1 \in 0 .. N
  OBVIOUS
<1>3. n - 1 \in S
  BY <1>1, <1>2
<1>. QED  BY <1>2, <1>3

LEMMA MinOfInterval ==
  ASSUME NEW a \in Int, NEW b \in Int, NEW S, S \subseteq a .. b, S # {}
  PROVE  Min(S) \in S /\ \A y \in S : Min(S) <= y
<1>. DEFINE T == {y - a : y \in S}
<1>0. \A y \in S : y \in Int /\ y - a \in Nat
  OBVIOUS
<1>1. PICK n \in T : \A m \in T : n <= m
  <2>1. T \subseteq Nat /\ T # {}
    BY <1>0
  <2>. HIDE DEF T
  <2>. QED  BY <2>1, LeastNatural
<1>2. PICK x \in S : n = x - a
  OBVIOUS
<1>3. ASSUME NEW y \in S
      PROVE  x <= y
  <2>1. n <= y - a
    BY <1>1
  <2>. QED  BY <1>0, <1>2, <2>1
<1>. QED  BY <1>3, Zenon DEF Min

LEMMA MaxOfInterval ==
  ASSUME NEW a \in Int, NEW b \in Int, NEW S, S \subseteq a .. b, S # {}
  PROVE  Max(S) \in S /\ \A y \in S : Max(S) >= y
<1>. DEFINE T == {b - y : y \in S}
<1>0. \A y \in S : y \in Int /\ b - y \in Nat
  OBVIOUS
<1>1. PICK n \in T : \A m \in T : n <= m
  <2>1. T \subseteq Nat /\ T # {}
    BY <1>0
  <2>. HIDE DEF T
  <2>. QED  BY <2>1, LeastNatural
<1>2. PICK x \in S : n = b - x
  OBVIOUS
<1>3. \A y \in S : x >= y
  BY <1>0, <1>1, <1>2
<1>. QED  BY <1>3, Zenon DEF Max

LEMMA MinOfTwo ==
  ASSUME NEW a \in Int, NEW b \in Int
  PROVE  Min({a, b}) = IF a <= b THEN a ELSE b
<1>. DEFINE m == IF a <= b THEN a ELSE b
<1>1. m \in {a, b} /\ \A y \in {a, b} : m <= y
  OBVIOUS
<1>2. \A x \in {a, b} : (\A y \in {a, b} : x <= y) => x = m
  OBVIOUS
<1>. QED  BY <1>1, <1>2 DEF Min

LEMMA MaxOfTwo ==
  ASSUME NEW a \in Int, NEW b \in Int
  PROVE  Max({a, b}) = IF a >= b THEN a ELSE b
<1>. DEFINE m == IF a >= b THEN a ELSE b
<1>1. m \in {a, b} /\ \A y \in {a, b} : m >= y
  OBVIOUS
<1>2. \A x \in {a, b} : (\A y \in {a, b} : x >= y) => x = m
  OBVIOUS
<1>. QED  BY <1>1, <1>2 DEF Max

Recursion(f, N, base, next) ==
  f = [n \in 0 .. N |-> IF n = 0 THEN base ELSE next[n][f[n - 1]]]

LEMMA RecursionSteps ==
  ASSUME NEW N \in Nat, NEW base, NEW next, NEW f, Recursion(f, N, base, next)
  PROVE  /\ f = [n \in 0 .. N |-> f[n]] /\ f[0] = base
         /\ \A n \in 1 .. N : n - 1 \in 0 .. N /\ f[n] = next[n][f[n - 1]]
<1>1. f = [n \in 0 .. N |-> IF n = 0 THEN base ELSE next[n][f[n - 1]]]
  BY DEF Recursion
<1>2. f = [n \in 0 .. N |-> f[n]]
  BY <1>1
<1>3. \A n \in 0 .. N : f[n] = IF n = 0 THEN base ELSE next[n][f[n - 1]]
  BY <1>1
<1>4. \A n \in 1 .. N : n \in 0 .. N /\ n # 0 /\ n - 1 \in 0 .. N
  OBVIOUS
<1>5. f[0] = base
  BY <1>3
<1>6. \A n \in 1 .. N : f[n] = next[n][f[n - 1]]
  BY <1>3, <1>4, Zenon
<1>. QED  BY <1>2, <1>4, <1>5, <1>6

\* A recursive function over 0 .. N whose step n leads from I[n - 1] into I[n]
\* is defined.
LEMMA Solution ==
  ASSUME NEW N \in Nat, NEW base, NEW next, NEW I, base \in I[0],
         \A n \in 1 .. N : \A x \in I[n - 1] : next[n][x] \in I[n]
  PROVE  \E f : Recursion(f, N, base, next) /\ \A n \in 0 .. N : f[n] \in I[n]
<1>. DEFINE Solves(f, M) ==
              /\ f = [n \in 0 .. M |-> IF n = 0 THEN base ELSE next[n][f[n - 1]]]
              /\ \A n \in 0 .. M : f[n] \in I[n]
            S == {M \in 0 .. N : \E f : Solves(f, M)}
<1>1. 0 \in S
  <2>. DEFINE f == [n \in 0 .. 0 |-> base]
  <2>1. f = [n \in 0 .. 0 |-> IF n = 0 THEN base ELSE next[n][f[n - 1]]]
    OBVIOUS
  <2>2. \A n \in 0 .. 0 : f[n] \in I[n]
    OBVIOUS
  <2>. HIDE DEF f
  <2>. QED  BY <2>1, <2>2
<1>2. ASSUME NEW M \in 1 .. N, M - 1 \in S
      PROVE  M \in S
  <2>1. PICK f : Solves(f, M - 1)
    BY <1>2
  <2>. DEFINE g == [n \in 0 .. M |-> IF n < M THEN f[n] ELSE next[M][f[M - 1]]]
  <2>2. \A n \in 0 .. M - 1 : g[n] = f[n]
    OBVIOUS
  <2>3. g[M] = next[M][f[M - 1]]
    OBVIOUS
  <2>4. \A n \in 1 .. M - 1 : f[n] = next[n][f[n - 1]]
    BY <2>1
  <2>5. f[0] = base
    BY <2>1
  <2>6. \A n \in 0 .. M : g[n] = IF n = 0 THEN base ELSE next[n][g[n - 1]]
    <3>. HIDE DEF g
    <3>. QED  BY <2>2, <2>3, <2>4, <2>5
  <2>7. g = [n \in 0 .. M |-> IF n = 0 THEN base ELSE next[n][g[n - 1]]]
    <3>1. g = [n \in 0 .. M |-> g[n]]
      OBVIOUS
    <3>. HIDE DEF g
    <3>. QED  BY <2>6, <3>1
  <2>8. \A n \in 0 .. M : g[n] \in I[n]
    <3>1. f[M - 1] \in I[M - 1]
      BY <2>1
    <3>. HIDE DEF g
    <3>2. g[M] \in I[M]
      BY <2>3, <3>1
    <3>. QED  BY <2>1, <2>2, <3>2
  <2>. HIDE DEF g
  <2>. QED  BY <2>7, <2>8
<1>3. N \in S
  <2>. HIDE DEF S
  <2>. QED  BY <1>1, <1>2, CountUp
<1>. QED  BY <1>3 DEF Recursion

-----------------------------------------------------------------------------
(***************************************************************************)
(* The proxy.                                                              *)
(***************************************************************************)
Caches == {cache \in CacheOf(Nat, Value) : WellFormed(cache)}

Requests ==
  [kind : {"properties"}] \union [kind : {"rows"}, first : Nat, last : Nat]

Proxies ==
  [known : BOOLEAN, size : Int, cache : Caches, asked : SUBSET Nat,
   placeholders : SUBSET Nat, requests : Seq(Requests), attached : BOOLEAN,
   view : Seq(Shown)]

Requested(requests, i) ==
  \E n \in 1 .. Len(requests) :
    requests[n].kind = "rows" /\ i \in requests[n].first .. requests[n].last

\* q is p after it has asked for more rows.
Asks(p, q) ==
  /\ q \in Proxies
  /\ q.known = p.known /\ q.size = p.size /\ q.attached = p.attached
  /\ q.cache.items = p.cache.items
  /\ q.placeholders = p.placeholders /\ q.view = p.view
  /\ \A i : Requested(p.requests, i) => Requested(q.requests, i)
  /\ \A i \in q.asked : i \in p.asked \/ Requested(q.requests, i)

LEMMA CacheInsert ==
  ASSUME NEW cache \in Caches, NEW i \in Nat, NEW v \in Value
  PROVE  /\ Insert(cache, i, v) \in Caches
         /\ i \in DOMAIN Insert(cache, i, v).items /\ Insert(cache, i, v).items[i] = v
         /\ \A j \in DOMAIN Insert(cache, i, v).items \ {i} :
              j \in DOMAIN cache.items /\ Insert(cache, i, v).items[j] = cache.items[j]
<1>1. PICK K : K = Nat
  OBVIOUS
<1>2. cache \in CacheOf(K, Value) /\ WellFormed(cache) /\ i \in K
  BY <1>1 DEF Caches
<1>. DEFINE after == Insert(cache, i, v)
<1>3. /\ after \in CacheOf(K, Value) /\ WellFormed(after)
      /\ Exists(after, i) /\ Lookup(after, i) = v
      /\ \A j \in DOMAIN after.items \ {i} :
           Exists(cache, j) /\ Lookup(after, j) = Lookup(cache, j)
  BY <1>2, InsertKeepsInStep
<1>. HIDE DEF after
<1>4. after \in Caches
  BY <1>1, <1>3 DEF Caches
<1>. QED  BY <1>3, <1>4 DEF Exists, Lookup, after

LEMMA CacheTouch ==
  ASSUME NEW cache \in Caches, NEW i \in DOMAIN cache.items
  PROVE  Touch(cache, i) \in Caches /\ Touch(cache, i).items = cache.items
BY TouchKeepsInStep DEF Caches, Exists

LEMMA CacheEmpty == EmptyCache \in Caches /\ DOMAIN EmptyCache.items = {}
<1>1. EmptyCache \in Caches
  BY EmptyCacheWellFormed DEF Caches
<1>2. DOMAIN EmptyCache.items = {}
  BY DEF EmptyCache
<1>. QED  BY <1>1, <1>2

LEMMA CacheItems ==
  ASSUME NEW cache \in Caches
  PROVE  DOMAIN cache.items \subseteq Nat /\ \A i \in DOMAIN cache.items : cache.items[i] \in Value
BY DEF Caches, CacheOf

\* What the cache holds after the first n items were inserted.
Holding(cache, first, items, n) ==
  {c \in Caches :
     /\ n = 1 => first \in DOMAIN c.items
     /\ \A i \in DOMAIN c.items :
          IF i \in first .. first + n - 1
          THEN c.items[i] = items[i - first + 1]
          ELSE i \in DOMAIN cache.items /\ c.items[i] = cache.items[i]}

LEMMA HoldingStep ==
  ASSUME NEW cache \in Caches, NEW first \in Nat, NEW items \in Seq(Value),
         NEW n \in 1 .. Len(items), NEW c \in Holding(cache, first, items, n - 1)
  PROVE  Insert(c, first + n - 1, items[n]) \in Holding(cache, first, items, n)
<1>. DEFINE key == first + n - 1
            d == Insert(c, key, items[n])
<1>1. Len(items) \in Nat /\ n \in Nat \ {0} /\ items[n] \in Value /\ key \in Nat /\ key - first + 1 = n
  BY LenProperties, ElementOfSeq
<1>2. c \in Caches
  BY DEF Holding
<1>. HIDE DEF key
<1>3. /\ d \in Caches /\ key \in DOMAIN d.items /\ d.items[key] = items[n]
      /\ \A j \in DOMAIN d.items \ {key} : j \in DOMAIN c.items /\ d.items[j] = c.items[j]
      /\ DOMAIN d.items \subseteq Nat
  <2>1. /\ d \in Caches /\ key \in DOMAIN d.items /\ d.items[key] = items[n]
        /\ \A j \in DOMAIN d.items \ {key} : j \in DOMAIN c.items /\ d.items[j] = c.items[j]
    <3>1. ASSUME NEW k \in Nat, NEW v \in Value
          PROVE  /\ Insert(c, k, v) \in Caches
                 /\ k \in DOMAIN Insert(c, k, v).items /\ Insert(c, k, v).items[k] = v
                 /\ \A j \in DOMAIN Insert(c, k, v).items \ {k} :
                      j \in DOMAIN c.items /\ Insert(c, k, v).items[j] = c.items[j]
      BY <1>2, CacheInsert
    <3>. QED  BY <1>1, <3>1
  <2>. HIDE DEF d
  <2>. QED  BY <2>1, CacheItems
<1>. HIDE DEF d
<1>4. ASSUME NEW i \in DOMAIN d.items
      PROVE  IF i \in first .. first + n - 1
             THEN d.items[i] = items[i - first + 1]
             ELSE i \in DOMAIN cache.items /\ d.items[i] = cache.items[i]
  <2>1. CASE i = key
    <3>1. i \in first .. first + n - 1
      BY <1>1, <2>1 DEF key
    <3>. QED  BY <1>1, <1>3, <2>1, <3>1
  <2>2. CASE i # key
    <3>1. i \in first .. first + n - 1 <=> i \in first .. first + (n - 1) - 1
      BY <1>1, <1>3, <2>2 DEF key
    <3>2. /\ i \in DOMAIN c.items /\ d.items[i] = c.items[i]
          /\ IF i \in first .. first + (n - 1) - 1
             THEN c.items[i] = items[i - first + 1]
             ELSE i \in DOMAIN cache.items /\ c.items[i] = cache.items[i]
      BY <1>3, <2>2 DEF Holding
    <3>. QED  BY <3>1, <3>2
  <2>. QED  BY <2>1, <2>2
<1>5. n = 1 => first \in DOMAIN d.items
  BY <1>1, <1>3 DEF key
<1>. QED  BY <1>3, <1>4, <1>5 DEF Holding, d, key

LEMMA InsertItemsIs ==
  ASSUME NEW p, p.cache \in Caches, NEW first \in Nat, NEW items \in Seq(Value)
  PROVE  \E c \in Holding(p.cache, first, items, Len(items)) :
           InsertItems(p, first, items) = [p EXCEPT !.cache = c]
<1>. DEFINE N == Len(items)
            I == [n \in 0 .. N |-> Holding(p.cache, first, items, n)]
            next == [n \in 1 .. N |-> [c \in I[n - 1] |-> Insert(c, first + n - 1, items[n])]]
<1>1. N \in Nat
  BY LenProperties
<1>2. p.cache \in I[0]
  <2>1. I[0] = Holding(p.cache, first, items, 0)
    BY <1>1
  <2>2. \A i : i \notin first .. first + 0 - 1
    OBVIOUS
  <2>. QED  BY <2>1, <2>2 DEF Holding
<1>3. ASSUME NEW n \in 1 .. N, NEW c \in I[n - 1]
      PROVE  next[n][c] \in I[n] /\ next[n][c] = Insert(c, first + n - 1, items[n])
  <2>1. /\ n - 1 \in 0 .. N /\ n \in 0 .. N
        /\ I[n - 1] = Holding(p.cache, first, items, n - 1) /\ I[n] = Holding(p.cache, first, items, n)
    BY <1>1
  <2>2. next[n][c] = Insert(c, first + n - 1, items[n])
    BY <1>3
  <2>. QED  BY <2>1, <2>2, HoldingStep
<1>. HIDE DEF I, next
<1>4. PICK f : Recursion(f, N, p.cache, next) /\ \A n \in 0 .. N : f[n] \in I[n]
  <2>. HIDE DEF N
  <2>1. \A n \in 1 .. N : \A x \in I[n - 1] : next[n][x] \in I[n]
    BY <1>3
  <2>. QED  BY <1>1, <1>2, <2>1, Solution
<1>. DEFINE Step(c, n) == Insert(c, first + n - 1, items[n])
            Is(g) == g = [n \in 0 .. N |-> IF n = 0 THEN p.cache ELSE Step(g[n - 1], n)]
            cached == CHOOSE g : Is(g)
<1>5. InsertItems(p, first, items) = [p EXCEPT !.cache = cached[N]]
  BY DEF InsertItems
<1>. HIDE DEF Step, N
<1>10. /\ f = [n \in 0 .. N |-> f[n]] /\ f[0] = p.cache
       /\ \A n \in 1 .. N : n - 1 \in 0 .. N /\ f[n] = next[n][f[n - 1]]
  <2>. HIDE DEF N
  <2>. QED  BY <1>1, <1>4, RecursionSteps
<1>6. \A n \in 1 .. N : f[n] = Step(f[n - 1], n)
  BY <1>3, <1>4, <1>10 DEF Step
<1>7. Is(f)
  <2>1. ASSUME NEW n \in 0 .. N
        PROVE  f[n] = IF n = 0 THEN p.cache ELSE Step(f[n - 1], n)
    <3>1. CASE n = 0
      BY <1>10, <3>1
    <3>2. CASE n # 0
      <4>1. n \in 1 .. N
        BY <1>1, <3>2
      <4>. QED  BY <1>6, <3>2, <4>1
    <3>. QED  BY <3>1, <3>2
  <2>. QED  BY <1>10, <2>1
<1>8. Is(cached)
  BY <1>7
<1>. HIDE DEF cached
<1>9. cached[N] = f[N]
  <2>. DEFINE S == {n \in 0 .. N : cached[n] = f[n]}
  <2>1. 0 \in S
    BY <1>1, <1>7, <1>8
  <2>2. ASSUME NEW n \in 1 .. N, n - 1 \in S
        PROVE  n \in S
    BY <1>1, <1>6, <1>8, <2>2
  <2>. HIDE DEF S
  <2>3. \A n \in 0 .. N : n \in S
    BY <1>1, <2>1, <2>2, CountUp
  <2>. QED  BY <1>1, <2>3 DEF S
<1>. QED  BY <1>1, <1>4, <1>5, <1>9 DEF I, N

-----------------------------------------------------------------------------
(***************************************************************************)
(* Asking for rows.                                                        *)
(***************************************************************************)
LEMMA RequestedAppend ==
  ASSUME NEW requests \in Seq(Requests), NEW request \in Requests
  PROVE  \A i : Requested(Append(requests, request), i) <=>
                  \/ Requested(requests, i)
                  \/ request.kind = "rows" /\ i \in request.first .. request.last
<1>. DEFINE t == Append(requests, request)
<1>1. /\ Len(t) = Len(requests) + 1 /\ Len(requests) \in Nat
      /\ \A n \in 1 .. Len(requests) : t[n] = requests[n]
      /\ t[Len(requests) + 1] = request
  BY AppendProperties, LenProperties
<1>. HIDE DEF t
<1>2. ASSUME NEW i
      PROVE  Requested(t, i) <=> \/ Requested(requests, i)
                                 \/ request.kind = "rows" /\ i \in request.first .. request.last
  <2>1. ASSUME Requested(t, i)
        PROVE  \/ Requested(requests, i)
               \/ request.kind = "rows" /\ i \in request.first .. request.last
    <3>1. PICK n \in 1 .. Len(t) : t[n].kind = "rows" /\ i \in t[n].first .. t[n].last
      BY <2>1 DEF Requested
    <3>2. CASE n = Len(requests) + 1
      BY <1>1, <3>1, <3>2
    <3>3. CASE n # Len(requests) + 1
      <4>1. n \in 1 .. Len(requests)
        BY <1>1, <3>3
      <4>. QED  BY <1>1, <3>1, <4>1 DEF Requested
    <3>. QED  BY <3>2, <3>3
  <2>2. ASSUME Requested(requests, i)
        PROVE  Requested(t, i)
    <3>1. \A n \in 1 .. Len(requests) : n \in 1 .. Len(t)
      BY <1>1
    <3>. QED  BY <1>1, <2>2, <3>1 DEF Requested
  <2>3. ASSUME request.kind = "rows" /\ i \in request.first .. request.last
        PROVE  Requested(t, i)
    <3>1. Len(requests) + 1 \in 1 .. Len(t)
      BY <1>1
    <3>. QED  BY <1>1, <2>3, <3>1 DEF Requested
  <2>. QED  BY <2>1, <2>2, <2>3
<1>. QED  BY <1>2 DEF t

LEMMA AsksIntro ==
  ASSUME NEW p \in Proxies, NEW requests \in Seq(Requests), NEW asked \in SUBSET Nat,
         \A i : Requested(p.requests, i) => Requested(requests, i),
         \A i \in asked : i \in p.asked \/ Requested(requests, i)
  PROVE  Asks(p, [p EXCEPT !.requests = requests, !.asked = asked])
<1>. DEFINE q == [p EXCEPT !.requests = requests, !.asked = asked]
<1>1. q \in Proxies
  BY DEF Proxies
<1>2. /\ q.known = p.known /\ q.size = p.size /\ q.attached = p.attached
      /\ q.cache = p.cache /\ q.placeholders = p.placeholders /\ q.view = p.view
      /\ q.requests = requests /\ q.asked = asked
  BY DEF Proxies
<1>. HIDE DEF q
<1>3. Asks(p, q)
  BY <1>1, <1>2 DEF Asks
<1>. QED  BY <1>3 DEF q

LEMMA AsksNothing == ASSUME NEW p \in Proxies PROVE Asks(p, p)
BY DEF Asks

LEMMA AsksTwice ==
  ASSUME NEW p, NEW q, NEW r, Asks(p, q), Asks(q, r)
  PROVE  Asks(p, r)
BY DEF Asks

LEMMA RequestItemsAsks ==
  ASSUME NEW p \in Proxies, p.size \in Nat, NEW index \in 0 .. p.size
  PROVE  Asks(p, RequestItems(p, index))
<1>. DEFINE start == Max({0, index - PrefetchCount})
            First == {i \in start .. p.size : i = p.size \/ ~Held(p, i)}
            first == Min(First)
            end == Min({first + 2 * PrefetchCount, p.size - 1})
            Final == {i \in first .. end : ~Held(p, i)}
            last == Max(Final)
            request == [kind |-> "rows", first |-> first, last |-> last]
<1>0. PrefetchCount \in Nat \ {0}
  BY ConstantsAssumption
<1>1. start \in 0 .. p.size
  <2>1. index \in Int /\ index - PrefetchCount \in Int
    BY <1>0
  <2>2. start = IF 0 >= index - PrefetchCount THEN 0 ELSE index - PrefetchCount
    BY <2>1, MaxOfTwo
  <2>. QED  BY <1>0, <2>2
<1>2. RequestItems(p, index) =
        IF first - index < PrefetchCount /\ first # p.size
        THEN [p EXCEPT !.requests = Append(@, request), !.asked = @ \union (first .. last)]
        ELSE p
  BY DEF RequestItems
<1>. HIDE DEF start
<1>3. first \in First
  <2>1. p.size \in First /\ First \subseteq start .. p.size /\ start \in Int /\ p.size \in Int
    BY <1>1
  <2>. HIDE DEF First
  <2>. QED  BY <2>1, MinOfInterval
<1>4. first \in Nat /\ first <= p.size /\ (first # p.size => ~Held(p, first))
  BY <1>1, <1>3
<1>. HIDE DEF first
<1>5. CASE first - index < PrefetchCount /\ first # p.size
  <2>1. end \in Int /\ first <= end
    <3>1. first + 2 * PrefetchCount \in Int /\ p.size - 1 \in Int
      BY <1>0, <1>4
    <3>2. end = IF first + 2 * PrefetchCount <= p.size - 1 THEN first + 2 * PrefetchCount ELSE p.size - 1
      BY <3>1, MinOfTwo
    <3>. QED  BY <1>0, <1>4, <1>5, <3>2
  <2>. HIDE DEF end
  <2>2. last \in Final
    <3>1. first \in Final /\ Final \subseteq first .. end /\ first \in Int
      BY <1>4, <1>5, <2>1
    <3>. HIDE DEF Final
    <3>. QED  BY <2>1, <3>1, MaxOfInterval
  <2>3. last \in Nat
    BY <1>4, <2>1, <2>2
  <2>. HIDE DEF last
  <2>4. request \in Requests /\ request.kind = "rows" /\ request.first = first /\ request.last = last
    BY <1>4, <2>3 DEF Requests
  <2>. HIDE DEF request
  <2>. DEFINE requests == Append(p.requests, request)
              asked == p.asked \union (first .. last)
  <2>5. p.requests \in Seq(Requests) /\ p.asked \in SUBSET Nat
    BY DEF Proxies
  <2>6. requests \in Seq(Requests)
    BY <2>4, <2>5, AppendProperties
  <2>7. asked \in SUBSET Nat
    BY <1>4, <2>3, <2>5
  <2>8. \A i : Requested(requests, i) <=> Requested(p.requests, i) \/ i \in first .. last
    BY <2>4, <2>5, RequestedAppend
  <2>9. RequestItems(p, index) = [p EXCEPT !.requests = requests, !.asked = asked]
    BY <1>2, <1>5 DEF Proxies
  <2>10. \A i \in asked : i \in p.asked \/ Requested(requests, i)
    BY <2>8
  <2>. HIDE DEF requests, asked
  <2>11. \A i : Requested(p.requests, i) => Requested(requests, i)
    BY <2>8
  <2>12. Asks(p, [p EXCEPT !.requests = requests, !.asked = asked])
    BY <2>6, <2>7, <2>10, <2>11, AsksIntro
  <2>. QED  BY <2>9, <2>12
<1>6. CASE ~(first - index < PrefetchCount /\ first # p.size)
  BY <1>2, <1>6, AsksNothing
<1>. QED  BY <1>5, <1>6

LEMMA PrefetchAsks ==
  ASSUME NEW p \in Proxies, p.size \in Nat, NEW row \in 0 .. p.size
  PROVE  Asks(p, Prefetch(p, row))
<1>. DEFINE next == Min({p.size, row + PrefetchCount})
            previous == Max({0, row - PrefetchCount})
            ahead == IF ~Held(p, next) THEN RequestItems(p, next) ELSE p
<1>0. PrefetchCount \in Nat \ {0} /\ row \in Nat
  BY ConstantsAssumption
<1>1. next \in 0 .. p.size
  <2>1. row + PrefetchCount \in Int /\ p.size \in Int
    BY <1>0
  <2>2. next = IF p.size <= row + PrefetchCount THEN p.size ELSE row + PrefetchCount
    BY <2>1, MinOfTwo
  <2>. QED  BY <1>0, <2>2
<1>2. previous \in 0 .. p.size
  <2>1. row - PrefetchCount \in Int
    BY <1>0
  <2>2. previous = IF 0 >= row - PrefetchCount THEN 0 ELSE row - PrefetchCount
    BY <2>1, MaxOfTwo
  <2>. QED  BY <1>0, <2>2
<1>3. Prefetch(p, row) =
        IF ~Exists(ahead.cache, next) /\ previous \notin ahead.asked
        THEN RequestItems(ahead, previous) ELSE ahead
  BY DEF Prefetch
<1>. HIDE DEF next, previous
<1>4. Asks(p, ahead)
  BY <1>1, RequestItemsAsks, AsksNothing
<1>5. ahead \in Proxies /\ ahead.size = p.size
  BY <1>4 DEF Asks
<1>. HIDE DEF ahead
<1>6. Asks(ahead, RequestItems(ahead, previous))
  BY <1>2, <1>5, RequestItemsAsks
<1>. QED  BY <1>3, <1>4, <1>6, AsksTwice

-----------------------------------------------------------------------------
(***************************************************************************)
(* Reading a row.                                                          *)
(***************************************************************************)
\* Row i of the model is v.
Present(model, i, v) == i \in Nat /\ i < Len(model) /\ model[i + 1] = v

LEMMA ServedIs ==
  ASSUME rows \in Seq(Value), NEW first \in Nat, NEW last \in Int
  PROVE  /\ Served(first, last).kind = "answer" /\ Served(first, last).first = first
         /\ Served(first, last).items \in Seq(Value)
         /\ \A n \in 1 .. Len(Served(first, last).items) :
              first + n <= Len(rows) /\ rows[first + n] = Served(first, last).items[n]
         /\ \A i \in first .. last :
              i < Len(rows) => i - first + 1 \in 1 .. Len(Served(first, last).items)
<1>. DEFINE from == Max({first, 0})
            to == Min({last, Len(rows) - 1})
            a == from + 1
            b == to + 1
            items == SubSeq(rows, a, b)
<1>1. Len(rows) \in Nat
  BY LenProperties
<1>2. from = first
  BY MaxOfTwo
<1>3. to = IF last <= Len(rows) - 1 THEN last ELSE Len(rows) - 1
  BY <1>1, MinOfTwo
<1>4. Served(first, last) = [kind |-> "answer", first |-> from, items |-> items]
  BY DEF Served
<1>5. /\ a \in Nat \ {0} /\ b \in Int /\ b <= Len(rows) /\ a = first + 1
      /\ \A i \in first .. last : i < Len(rows) => i <= to
  <2>1. a = first + 1 /\ a \in Nat \ {0}
    BY <1>2
  <2>. HIDE DEF from, a
  <2>2. to \in Int /\ to <= Len(rows) - 1 /\ (to = last \/ to = Len(rows) - 1)
    BY <1>1, <1>3
  <2>. HIDE DEF to
  <2>. QED  BY <1>1, <2>1, <2>2
<1>6. b = to + 1 /\ to \in Int
  BY <1>1, <1>3
<1>. HIDE DEF from, to, a, b
<1>7. \A i \in a .. b : rows[i] \in Value
  <2>1. \A i \in a .. b : i \in 1 .. Len(rows)
    BY <1>1, <1>5
  <2>. QED  BY <2>1, ElementOfSeq
<1>8. /\ items \in Seq(Value) /\ Len(items) = (IF a <= b THEN b - a + 1 ELSE 0)
      /\ \A i \in 1 .. b - a + 1 : items[i] = rows[a + i - 1]
  BY <1>5, <1>7, SubSeqProperties
<1>. HIDE DEF items
<1>9. ASSUME NEW n \in 1 .. Len(items)
      PROVE  first + n <= Len(rows) /\ rows[first + n] = items[n]
  <2>1. n \in 1 .. b - a + 1 /\ a + n - 1 = first + n /\ first + n <= b
    BY <1>5, <1>8
  <2>. QED  BY <1>1, <1>5, <1>8, <2>1
<1>10. ASSUME NEW i \in first .. last, i < Len(rows)
       PROVE  i - first + 1 \in 1 .. Len(items)
  <2>1. i <= to
    BY <1>5, <1>10
  <2>2. a <= b /\ i - first + 1 <= b - a + 1
    BY <1>5, <1>6, <2>1
  <2>. QED  BY <1>5, <1>8, <2>2
<1>. QED  BY <1>2, <1>4, <1>8, <1>9, <1>10

\* q is p after the row was obtained: fetched with the window around it if
\* the proxy is synchronous, asked for otherwise.
Obtains(p, row, q) ==
  /\ q \in Proxies
  /\ q.known = p.known /\ q.size = p.size /\ q.attached = p.attached
  /\ \A i \in DOMAIN q.cache.items :
       \/ i \in DOMAIN p.cache.items /\ q.cache.items[i] = p.cache.items[i]
       \/ synchronous /\ row \notin DOMAIN p.cache.items /\ Present(rows, i, q.cache.items[i])
  /\ row \in DOMAIN p.cache.items => q.cache.items = p.cache.items
  /\ q.placeholders \subseteq p.placeholders \union {row}
  /\ synchronous \/ row \in DOMAIN p.cache.items => q.placeholders = p.placeholders
  /\ \A i : Requested(p.requests, i) => Requested(q.requests, i)
  /\ \A i \in q.asked : i \in p.asked \/ Requested(q.requests, i)

LEMMA FetchObtains ==
  ASSUME rows \in Seq(Value), NEW p \in Proxies, p.size \in Nat, NEW row \in 0 .. p.size - 1,
         row \notin DOMAIN p.cache.items, synchronous
  PROVE  Obtains(p, row, Fetch(p, row)) /\ Fetch(p, row).view = p.view
<1>. DEFINE from == IF row > PrefetchCount THEN row - PrefetchCount ELSE 0
            to == IF row < p.size - PrefetchCount THEN row + PrefetchCount ELSE p.size - 1
            First == {i \in from .. to : i = to \/ ~Exists(p.cache, i)}
            first == Min(First)
            Final == {i \in first .. to : i = first \/ ~Exists(p.cache, i)}
            last == Max(Final)
            answer == Served(first, last)
<1>0. PrefetchCount \in Nat \ {0}
  BY ConstantsAssumption
<1>1. from \in Nat /\ to \in Nat /\ from <= to
  BY <1>0
<1>2. Fetch(p, row) = IF p.known /\ exported THEN InsertItems(p, answer.first, answer.items) ELSE p
  BY DEF Fetch
<1>. HIDE DEF from, to
<1>3. first \in First
  <2>1. to \in First /\ First \subseteq from .. to /\ from \in Int /\ to \in Int
    BY <1>1
  <2>. HIDE DEF First
  <2>2. First # {}
    BY <2>1
  <2>. QED  BY <2>1, <2>2, MinOfInterval
<1>4. first \in Nat /\ first <= to
  BY <1>1, <1>3
<1>. HIDE DEF first
<1>5. last \in Final
  <2>1. first \in Final /\ Final \subseteq first .. to /\ first \in Int /\ to \in Int
    BY <1>1, <1>4
  <2>. HIDE DEF Final
  <2>2. Final # {}
    BY <2>1
  <2>. QED  BY <2>1, <2>2, MaxOfInterval
<1>6. last \in Int
  BY <1>1, <1>4, <1>5
<1>. HIDE DEF last
<1>7. /\ answer.first = first /\ answer.items \in Seq(Value)
      /\ \A n \in 1 .. Len(answer.items) :
           first + n <= Len(rows) /\ rows[first + n] = answer.items[n]
  BY <1>4, <1>6, ServedIs
<1>. HIDE DEF answer
<1>8. p.cache \in Caches
  BY DEF Proxies
<1>9. PICK c \in Holding(p.cache, first, answer.items, Len(answer.items)) :
        InsertItems(p, first, answer.items) = [p EXCEPT !.cache = c]
  <2>1. ASSUME NEW f \in Nat, NEW items \in Seq(Value)
        PROVE  \E c \in Holding(p.cache, f, items, Len(items)) :
                 InsertItems(p, f, items) = [p EXCEPT !.cache = c]
    BY <1>8, InsertItemsIs
  <2>. QED  BY <1>4, <1>7, <2>1
<1>. DEFINE q == [p EXCEPT !.cache = c]
<1>10. /\ c \in Caches
       /\ \A i \in DOMAIN c.items : IF i \in first .. first + Len(answer.items) - 1
                                    THEN c.items[i] = answer.items[i - first + 1]
                                    ELSE i \in DOMAIN p.cache.items /\ c.items[i] = p.cache.items[i]
  BY <1>9 DEF Holding
<1>11. /\ q \in Proxies /\ q.known = p.known /\ q.size = p.size /\ q.attached = p.attached
       /\ q.cache = c /\ q.placeholders = p.placeholders /\ q.view = p.view
       /\ q.requests = p.requests /\ q.asked = p.asked
  BY <1>10 DEF Proxies
<1>. HIDE DEF q
<1>12. ASSUME NEW i \in DOMAIN c.items
       PROVE  \/ i \in DOMAIN p.cache.items /\ c.items[i] = p.cache.items[i]
              \/ Present(rows, i, c.items[i])
  <2>1. CASE i \in first .. first + Len(answer.items) - 1
    <3>0. Len(answer.items) \in Nat /\ Len(rows) \in Nat
      BY <1>7, LenProperties
    <3>1. /\ i - first + 1 \in 1 .. Len(answer.items) /\ first + (i - first + 1) = i + 1
          /\ i \in Nat
      BY <1>4, <2>1, <3>0
    <3>2. i + 1 <= Len(rows) /\ rows[i + 1] = answer.items[i - first + 1]
      BY <1>7, <3>1
    <3>3. c.items[i] = answer.items[i - first + 1]
      BY <1>10, <2>1
    <3>. QED  BY <3>0, <3>1, <3>2, <3>3 DEF Present
  <2>2. CASE i \notin first .. first + Len(answer.items) - 1
    BY <1>10, <2>2
  <2>. QED  BY <2>1, <2>2
<1>13. Obtains(p, row, q)
  BY <1>11, <1>12 DEF Obtains
<1>14. Obtains(p, row, p)
  BY DEF Obtains
<1>. QED  BY <1>2, <1>7, <1>9, <1>11, <1>13, <1>14 DEF q

LEMMA ObtainObtains ==
  ASSUME rows \in Seq(Value), synchronous \in BOOLEAN,
         NEW p \in Proxies, p.size \in Nat, NEW row \in 0 .. p.size - 1
  PROVE  Obtains(p, row, Obtain(p, row)) /\ Obtain(p, row).view = p.view
<1>1. CASE Exists(p.cache, row)
  <2>1. Obtain(p, row) = p
    BY <1>1 DEF Obtain
  <2>. QED  BY <2>1 DEF Obtains
<1>2. CASE ~Exists(p.cache, row) /\ synchronous
  <2>1. Obtain(p, row) = Fetch(p, row)
    BY <1>2 DEF Obtain
  <2>. QED  BY <1>2, <2>1, FetchObtains DEF Exists
<1>3. CASE ~Exists(p.cache, row) /\ ~synchronous
  <2>. DEFINE r == RequestItems(p, row)
              q == [r EXCEPT !.placeholders = @ \union {row}]
  <2>1. Obtain(p, row) = q
    BY <1>3 DEF Obtain
  <2>2. Asks(p, r) /\ row \in Nat
    BY RequestItemsAsks
  <2>. HIDE DEF r
  <2>3. r \in Proxies
    BY <2>2 DEF Asks
  <2>4. /\ q \in Proxies /\ q.known = r.known /\ q.size = r.size /\ q.attached = r.attached
        /\ q.cache = r.cache /\ q.placeholders = r.placeholders \union {row} /\ q.view = r.view
        /\ q.requests = r.requests /\ q.asked = r.asked
    BY <2>2, <2>3 DEF Proxies
  <2>. HIDE DEF q
  <2>5. Obtains(p, row, q) /\ q.view = p.view
    BY <1>3, <2>2, <2>4 DEF Asks, Obtains, Exists
  <2>. QED  BY <2>1, <2>5
<1>. QED  BY <1>1, <1>2, <1>3

\* q is p after the view has read the row: it shows the item, or a
\* placeholder of a row that was not cached.
Reads(p, row, q) ==
  /\ Obtains(p, row, q)
  /\ Len(q.view) = Len(p.view)
  /\ \A n \in 1 .. Len(p.view) \ {row + 1} : q.view[n] = p.view[n]
  /\ \/ q.view[row + 1] = Placeholder /\ row \notin DOMAIN p.cache.items
     \/ row \in DOMAIN q.cache.items /\ q.view[row + 1] = q.cache.items[row]

LEMMA ReadRowReads ==
  ASSUME rows \in Seq(Value), synchronous \in BOOLEAN,
         NEW p \in Proxies, p.size \in Nat, NEW row \in 0 .. p.size - 1, row < Len(p.view)
  PROVE  Reads(p, row, ReadRow(p, row))
<1>. DEFINE o == Obtain(p, row)
            q == Prefetch(o, row)
            n == row + 1
            x == IF Exists(q.cache, row) THEN Lookup(q.cache, row) ELSE Placeholder
            cache == IF Exists(q.cache, row) THEN Touch(q.cache, row) ELSE q.cache
            view == [q.view EXCEPT ![n] = x]
            r == [q EXCEPT !.view = view, !.cache = cache]
<1>1. Obtains(p, row, o) /\ o.view = p.view
  BY ObtainObtains
<1>2. o \in Proxies /\ o.size = p.size
  BY <1>1 DEF Obtains
<1>3. ReadRow(p, row) = IF Exists(q.cache, row)
                        THEN [q EXCEPT !.view[row + 1] = Lookup(q.cache, row), !.cache = Touch(@, row)]
                        ELSE [q EXCEPT !.view[row + 1] = Placeholder]
  BY DEF ReadRow
<1>. HIDE DEF o
<1>4. Asks(o, q)
  <2>1. row \in 0 .. o.size
    BY <1>2
  <2>. QED  BY <1>2, <2>1, PrefetchAsks
<1>. HIDE DEF q
<1>5. /\ Obtains(p, row, q) /\ q \in Proxies /\ q.view = p.view
      /\ q.cache \in Caches /\ q.view \in Seq(Shown)
  <2>1. Obtains(p, row, q)
    BY <1>1, <1>4 DEF Asks, Obtains
  <2>2. q \in Proxies /\ q.view = p.view
    BY <1>1, <1>4 DEF Asks
  <2>. QED  BY <2>1, <2>2 DEF Proxies
<1>6. n \in 1 .. Len(q.view) /\ row \in Nat /\ Len(q.view) \in Nat
  BY <1>5, LenProperties
<1>7. x \in Shown
  BY <1>5, CacheItems DEF Shown, Exists, Lookup
<1>8. cache \in Caches /\ cache.items = q.cache.items
  BY <1>5, CacheTouch DEF Exists
<1>9. /\ view \in Seq(Shown) /\ Len(view) = Len(q.view)
      /\ \A m \in 1 .. Len(q.view) : view[m] = IF m = n THEN x ELSE q.view[m]
  <2>. HIDE DEF x, n
  <2>. QED  BY <1>5, <1>6, <1>7, ExceptSeq
<1>10. ReadRow(p, row) = r
  BY <1>3, <1>5 DEF Proxies
<1>. HIDE DEF cache, view
<1>11. /\ r \in Proxies /\ r.known = q.known /\ r.size = q.size /\ r.attached = q.attached
       /\ r.cache = cache /\ r.placeholders = q.placeholders /\ r.view = view
       /\ r.requests = q.requests /\ r.asked = q.asked
  BY <1>5, <1>8, <1>9 DEF Proxies
<1>. HIDE DEF r
<1>12. Obtains(p, row, r)
  BY <1>5, <1>8, <1>11 DEF Obtains
<1>13. \/ x = Placeholder /\ row \notin DOMAIN p.cache.items
       \/ row \in DOMAIN r.cache.items /\ x = r.cache.items[row]
  <2>1. CASE Exists(q.cache, row)
    BY <1>8, <1>11, <2>1 DEF Exists, Lookup
  <2>2. CASE ~Exists(q.cache, row)
    <3>1. row \notin DOMAIN p.cache.items
      BY <1>5, <2>2 DEF Exists, Obtains
    <3>. QED  BY <2>2, <3>1
  <2>. QED  BY <2>1, <2>2
<1>. HIDE DEF x
<1>14. Reads(p, row, r)
  BY <1>5, <1>6, <1>9, <1>11, <1>12, <1>13 DEF Reads
<1>. QED  BY <1>10, <1>14

\* q is p after the view was told that the row, which is cached, has changed.
Refreshes(p, row, q) ==
  /\ q \in Proxies
  /\ q.known = p.known /\ q.size = p.size /\ q.attached = p.attached
  /\ q.cache.items = p.cache.items /\ q.placeholders = p.placeholders
  /\ \A i : Requested(p.requests, i) => Requested(q.requests, i)
  /\ \A i \in q.asked : i \in p.asked \/ Requested(q.requests, i)
  /\ Len(q.view) = Len(p.view)
  /\ \A n \in 1 .. Len(p.view) :
       q.view[n] = IF n = row + 1 /\ p.view[n] # Unread THEN p.cache.items[row] ELSE p.view[n]
  /\ p.view = <<>> => q = p

LEMMA DataChangedRefreshes ==
  ASSUME rows \in Seq(Value), synchronous \in BOOLEAN,
         NEW p \in Proxies, NEW row \in Nat, row \in DOMAIN p.cache.items,
         p.view # <<>> => p.size = Len(p.view)
  PROVE  Refreshes(p, row, DataChanged(p, row, row))
<1>. DEFINE Is(f) == f = [n \in 0 .. row - row + 1 |->
                            IF n = 0 THEN p ELSE ReadAgain(f[n - 1], row + n - 1)]
            read == CHOOSE f : Is(f)
            q == ReadAgain(p, row)
            view == [n \in 0 .. 1 |-> IF n = 0 THEN p ELSE q]
<1>1. DataChanged(p, row, row) = read[row - row + 1]
  BY DEF DataChanged
<1>2. row - row + 1 = 1 /\ row + 1 - 1 = row
  OBVIOUS
<1>. HIDE DEF q
<1>3. Is(view)
  <2>1. \A n \in 0 .. 1 : view[n] = IF n = 0 THEN p ELSE ReadAgain(view[n - 1], row + n - 1)
    <3>1. view[0] = p /\ view[1] = q
      OBVIOUS
    <3>2. q = ReadAgain(view[1 - 1], row + 1 - 1)
      BY <1>2, <3>1 DEF q
    <3>3. \A n \in 0 .. 1 : n = 0 \/ n = 1
      OBVIOUS
    <3>. HIDE DEF view
    <3>. QED  BY <3>1, <3>2, <3>3
  <2>2. view = [n \in 0 .. 1 |-> view[n]]
    OBVIOUS
  <2>. HIDE DEF view
  <2>3. view = [n \in 0 .. 1 |-> IF n = 0 THEN p ELSE ReadAgain(view[n - 1], row + n - 1)]
    BY <2>1, <2>2
  <2>. QED  BY <1>2, <2>3
<1>4. Is(read)
  <2>. HIDE DEF Is
  <2>. QED  BY <1>3
<1>. HIDE DEF read
<1>5. DataChanged(p, row, row) = q
  <2>1. \A n \in 0 .. 1 : read[n] = IF n = 0 THEN p ELSE ReadAgain(read[n - 1], row + n - 1)
    BY <1>2, <1>4
  <2>2. read[0] = p
    BY <2>1
  <2>3. read[1] = ReadAgain(read[1 - 1], row + 1 - 1)
    BY <2>1
  <2>. QED  BY <1>1, <1>2, <2>2, <2>3 DEF q
<1>6. p.view \in Seq(Shown) /\ Len(p.view) \in Nat
  BY LenProperties DEF Proxies
<1>7. CASE row < Len(p.view) /\ p.view[row + 1] # Unread
  <2>1. p.view # <<>>
    BY <1>6, <1>7
  <2>2. p.size \in Nat /\ row \in 0 .. p.size - 1
    BY <1>6, <1>7, <2>1
  <2>3. q = ReadRow(p, row)
    BY <1>7 DEF q, ReadAgain
  <2>4. Reads(p, row, q)
    BY <1>7, <2>2, <2>3, ReadRowReads
  <2>5. q.cache.items = p.cache.items /\ q.placeholders = p.placeholders
    BY <2>4 DEF Reads, Obtains
  <2>6. q.view[row + 1] = p.cache.items[row]
    BY <2>4, <2>5 DEF Reads
  <2>7. ASSUME NEW n \in 1 .. Len(p.view)
        PROVE  q.view[n] = IF n = row + 1 /\ p.view[n] # Unread THEN p.cache.items[row] ELSE p.view[n]
    BY <1>7, <2>4, <2>6 DEF Reads
  <2>8. Refreshes(p, row, q)
    BY <2>1, <2>4, <2>5, <2>7 DEF Reads, Obtains, Refreshes
  <2>. QED  BY <1>5, <2>8
<1>8. CASE ~(row < Len(p.view) /\ p.view[row + 1] # Unread)
  <2>1. q = p
    BY <1>8 DEF q, ReadAgain
  <2>2. \A n \in 1 .. Len(p.view) : ~(n = row + 1 /\ p.view[n] # Unread)
    BY <1>6, <1>8
  <2>3. Refreshes(p, row, p)
    BY <2>2 DEF Refreshes
  <2>. QED  BY <1>5, <2>1, <2>3
<1>. QED  BY <1>7, <1>8

-----------------------------------------------------------------------------
(***************************************************************************)
(* Taking an answer.                                                       *)
(***************************************************************************)
\* q is p after it has taken the first n items of an answer.
Taking(p, first, items, n) ==
  {q \in Proxies :
     /\ q.known = p.known /\ q.size = p.size /\ q.attached = p.attached
     /\ \A i \in DOMAIN q.cache.items :
          IF i \in first .. first + n - 1
          THEN q.cache.items[i] = items[i - first + 1]
          ELSE i \in DOMAIN p.cache.items /\ q.cache.items[i] = p.cache.items[i]
     /\ q.placeholders \subseteq p.placeholders
     /\ \A i : Requested(p.requests, i) => Requested(q.requests, i)
     /\ \A i \in q.asked : \/ Requested(q.requests, i)
                           \/ i \in p.asked /\ i \notin first .. first + n - 1
     /\ Len(q.view) = Len(p.view)
     /\ \A m \in 1 .. Len(p.view) :
          \/ q.view[m] = p.view[m]
          \/ m - 1 \in first .. first + n - 1 /\ q.view[m] = items[m - first]}

\* q is p after it has taken one more item.
Takes(p, i, v, q) ==
  /\ q \in Proxies
  /\ q.known = p.known /\ q.size = p.size /\ q.attached = p.attached
  /\ \A j \in DOMAIN q.cache.items :
       IF j = i THEN q.cache.items[j] = v
       ELSE j \in DOMAIN p.cache.items /\ q.cache.items[j] = p.cache.items[j]
  /\ q.placeholders \subseteq p.placeholders
  /\ \A j : Requested(p.requests, j) => Requested(q.requests, j)
  /\ \A j \in q.asked : Requested(q.requests, j) \/ (j \in p.asked /\ j # i)
  /\ Len(q.view) = Len(p.view)
  /\ \A m \in 1 .. Len(p.view) : q.view[m] = p.view[m] \/ (m = i + 1 /\ q.view[m] = v)

LEMMA TakeItemTakes ==
  ASSUME rows \in Seq(Value), synchronous \in BOOLEAN,
         NEW p \in Proxies, NEW i \in Nat, NEW v \in Value,
         p.view # <<>> => p.size = Len(p.view)
  PROVE  Takes(p, i, v, TakeItem(p, i, v))
<1>. DEFINE known == Exists(p.cache, i) /\ Lookup(p.cache, i) = v
            cache == IF known THEN Touch(p.cache, i) ELSE Insert(p.cache, i, v)
            stored == [p EXCEPT !.cache = cache]
            changed == DataChanged(stored, i, i)
            told == IF ~known /\ i \in p.placeholders
                    THEN [changed EXCEPT !.placeholders = @ \ {i}] ELSE stored
            q == [told EXCEPT !.asked = @ \ {i}]
<1>1. p.cache \in Caches /\ p.view \in Seq(Shown)
  BY DEF Proxies
<1>2. /\ cache \in Caches /\ i \in DOMAIN cache.items /\ cache.items[i] = v
      /\ \A j \in DOMAIN cache.items \ {i} :
           j \in DOMAIN p.cache.items /\ cache.items[j] = p.cache.items[j]
  <2>1. CASE known
    <3>1. i \in DOMAIN p.cache.items /\ p.cache.items[i] = v
      BY <2>1 DEF Exists, Lookup
    <3>2. cache = Touch(p.cache, i)
      BY <2>1
    <3>3. Touch(p.cache, i) \in Caches /\ Touch(p.cache, i).items = p.cache.items
      BY <1>1, <3>1, CacheTouch
    <3>. HIDE DEF known, cache
    <3>. QED  BY <3>1, <3>2, <3>3
  <2>2. CASE ~known
    BY <1>1, <2>2, CacheInsert
  <2>. QED  BY <2>1, <2>2
<1>3. TakeItem(p, i, v) = q
  <2>1. stored = [p EXCEPT !.cache = IF known THEN Touch(@, i) ELSE Insert(@, i, v)]
    BY DEF Proxies
  <2>. QED  BY <2>1 DEF TakeItem
<1>. HIDE DEF cache, known
<1>4. /\ stored \in Proxies /\ stored.known = p.known /\ stored.size = p.size
      /\ stored.attached = p.attached /\ stored.cache = cache
      /\ stored.placeholders = p.placeholders /\ stored.view = p.view
      /\ stored.requests = p.requests /\ stored.asked = p.asked
  BY <1>2 DEF Proxies
<1>. HIDE DEF stored
<1>5. Refreshes(stored, i, changed)
  BY <1>2, <1>4, DataChangedRefreshes
<1>. HIDE DEF changed
<1>6. changed \in Proxies
  BY <1>5 DEF Refreshes
<1>. DEFINE repaired == [changed EXCEPT !.placeholders = @ \ {i}]
<1>7. /\ repaired \in Proxies /\ repaired.known = changed.known /\ repaired.size = changed.size
      /\ repaired.attached = changed.attached /\ repaired.cache = changed.cache
      /\ repaired.placeholders = changed.placeholders \ {i} /\ repaired.view = changed.view
      /\ repaired.requests = changed.requests /\ repaired.asked = changed.asked
  BY <1>6 DEF Proxies
<1>8. told = repaired \/ told = stored
  OBVIOUS
<1>. HIDE DEF repaired, told
<1>9. /\ told \in Proxies /\ told.known = p.known /\ told.size = p.size
      /\ told.attached = p.attached /\ told.cache.items = cache.items
      /\ told.placeholders \subseteq p.placeholders
      /\ \A j : Requested(p.requests, j) => Requested(told.requests, j)
      /\ \A j \in told.asked : j \in p.asked \/ Requested(told.requests, j)
      /\ Len(told.view) = Len(p.view)
      /\ \A m \in 1 .. Len(p.view) : told.view[m] = p.view[m] \/ (m = i + 1 /\ told.view[m] = v)
  <2>1. CASE told = stored
    BY <1>4, <2>1
  <2>2. CASE told = repaired
    BY <1>2, <1>4, <1>5, <1>7, <2>2 DEF Refreshes
  <2>. QED  BY <1>8, <2>1, <2>2
<1>10. /\ q \in Proxies /\ q.known = told.known /\ q.size = told.size
       /\ q.attached = told.attached /\ q.cache = told.cache
       /\ q.placeholders = told.placeholders /\ q.view = told.view
       /\ q.requests = told.requests /\ q.asked = told.asked \ {i}
  BY <1>9 DEF Proxies
<1>. HIDE DEF q
<1>11. Takes(p, i, v, q)
  BY <1>2, <1>9, <1>10 DEF Takes
<1>. QED  BY <1>3, <1>11

LEMMA TakingStep ==
  ASSUME rows \in Seq(Value), synchronous \in BOOLEAN,
         NEW p \in Proxies, NEW first \in Nat, NEW items \in Seq(Value),
         p.view # <<>> => p.size = Len(p.view),
         NEW n \in 1 .. Len(items), NEW q \in Taking(p, first, items, n - 1)
  PROVE  TakeItem(q, first + n - 1, items[n]) \in Taking(p, first, items, n)
<1>. DEFINE i == first + n - 1
            r == TakeItem(q, i, items[n])
<1>1. /\ n \in Nat \ {0} /\ items[n] \in Value /\ i \in Nat /\ i - first + 1 = n /\ i + 1 - first = n
  BY LenProperties, ElementOfSeq
<1>2. i \in first .. first + n - 1 /\ i \notin first .. first + (n - 1) - 1
  BY <1>1
<1>3. \A j : j \in first .. first + n - 1 <=> j \in first .. first + (n - 1) - 1 \/ j = i
  BY <1>1
<1>. HIDE DEF i
<1>4. /\ q \in Proxies
      /\ q.known = p.known /\ q.size = p.size /\ q.attached = p.attached
      /\ \A j \in DOMAIN q.cache.items :
           IF j \in first .. first + (n - 1) - 1
           THEN q.cache.items[j] = items[j - first + 1]
           ELSE j \in DOMAIN p.cache.items /\ q.cache.items[j] = p.cache.items[j]
      /\ q.placeholders \subseteq p.placeholders
      /\ \A j : Requested(p.requests, j) => Requested(q.requests, j)
      /\ \A j \in q.asked : \/ Requested(q.requests, j)
                            \/ j \in p.asked /\ j \notin first .. first + (n - 1) - 1
      /\ Len(q.view) = Len(p.view)
      /\ \A m \in 1 .. Len(p.view) :
           \/ q.view[m] = p.view[m]
           \/ m - 1 \in first .. first + (n - 1) - 1 /\ q.view[m] = items[m - first]
  BY DEF Taking
<1>5. Takes(q, i, items[n], r)
  <2>1. q.view # <<>> => q.size = Len(q.view)
    <3>1. q.view \in Seq(Shown) /\ p.view \in Seq(Shown)
      BY <1>4 DEF Proxies
    <3>2. p.view = <<>> => q.view = <<>>
      BY <1>4, <3>1, EmptySeq
    <3>. QED  BY <1>4, <3>2
  <2>2. ASSUME NEW k \in Nat, NEW v \in Value
        PROVE  Takes(q, k, v, TakeItem(q, k, v))
    BY <1>4, <2>1, TakeItemTakes
  <2>. QED  BY <1>1, <2>2
<1>. HIDE DEF r
<1>6. ASSUME NEW j \in DOMAIN r.cache.items
      PROVE  IF j \in first .. first + n - 1
             THEN r.cache.items[j] = items[j - first + 1]
             ELSE j \in DOMAIN p.cache.items /\ r.cache.items[j] = p.cache.items[j]
  <2>1. CASE j = i
    BY <1>1, <1>2, <1>5, <2>1 DEF Takes
  <2>2. CASE j # i
    <3>1. j \in DOMAIN q.cache.items /\ r.cache.items[j] = q.cache.items[j]
      BY <1>5, <2>2 DEF Takes
    <3>. QED  BY <1>3, <1>4, <2>2, <3>1
  <2>. QED  BY <2>1, <2>2
<1>7. ASSUME NEW j \in r.asked
      PROVE  Requested(r.requests, j) \/ (j \in p.asked /\ j \notin first .. first + n - 1)
  BY <1>3, <1>4, <1>5 DEF Takes
<1>8. ASSUME NEW m \in 1 .. Len(p.view)
      PROVE  \/ r.view[m] = p.view[m]
             \/ m - 1 \in first .. first + n - 1 /\ r.view[m] = items[m - first]
  <2>1. CASE r.view[m] = q.view[m]
    BY <1>3, <1>4, <2>1
  <2>2. CASE m = i + 1 /\ r.view[m] = items[n]
    <3>1. m - 1 = i /\ m - first = n
      BY <1>1, <2>2
    <3>2. m - 1 \in first .. first + n - 1
      BY <1>2, <3>1, Zenon
    <3>3. r.view[m] = items[m - first]
      BY <2>2, <3>1, Zenon
    <3>. QED  BY <3>2, <3>3
  <2>. QED  BY <1>4, <1>5, <2>1, <2>2 DEF Takes
<1>9. r \in Taking(p, first, items, n)
  BY <1>4, <1>5, <1>6, <1>7, <1>8 DEF Taking, Takes
<1>. QED  BY <1>9 DEF i, r

LEMMA TakeAnswerTakes ==
  ASSUME rows \in Seq(Value), synchronous \in BOOLEAN,
         NEW p \in Proxies, NEW first \in Nat, NEW items \in Seq(Value),
         p.view # <<>> => p.size = Len(p.view)
  PROVE  TakeAnswer(p, first, items) \in Taking(p, first, items, Len(items))
<1>. DEFINE N == Len(items)
            I == [n \in 0 .. N |-> Taking(p, first, items, n)]
            next == [n \in 1 .. N |-> [q \in I[n - 1] |-> TakeItem(q, first + n - 1, items[n])]]
<1>1. N \in Nat
  BY LenProperties
<1>2. p \in I[0]
  <2>1. I[0] = Taking(p, first, items, 0)
    BY <1>1
  <2>2. \A i : i \notin first .. first + 0 - 1
    OBVIOUS
  <2>. QED  BY <2>1, <2>2 DEF Taking
<1>3. ASSUME NEW n \in 1 .. N, NEW q \in I[n - 1]
      PROVE  next[n][q] \in I[n] /\ next[n][q] = TakeItem(q, first + n - 1, items[n])
  <2>1. /\ n - 1 \in 0 .. N /\ n \in 0 .. N
        /\ I[n - 1] = Taking(p, first, items, n - 1) /\ I[n] = Taking(p, first, items, n)
    BY <1>1
  <2>2. next[n][q] = TakeItem(q, first + n - 1, items[n])
    BY <1>3
  <2>. QED  BY <2>1, <2>2, TakingStep
<1>. HIDE DEF I, next
<1>4. PICK f : Recursion(f, N, p, next) /\ \A n \in 0 .. N : f[n] \in I[n]
  <2>. HIDE DEF N
  <2>1. \A n \in 1 .. N : \A x \in I[n - 1] : next[n][x] \in I[n]
    BY <1>3
  <2>. QED  BY <1>1, <1>2, <2>1, Solution
<1>. DEFINE Step(q, n) == TakeItem(q, first + n - 1, items[n])
            Is(g) == g = [n \in 0 .. N |-> IF n = 0 THEN p ELSE Step(g[n - 1], n)]
            taken == CHOOSE g : Is(g)
<1>5. TakeAnswer(p, first, items) = taken[N]
  BY DEF TakeAnswer
<1>. HIDE DEF Step, N
<1>6. /\ f = [n \in 0 .. N |-> f[n]] /\ f[0] = p
      /\ \A n \in 1 .. N : n - 1 \in 0 .. N /\ f[n] = next[n][f[n - 1]]
  BY <1>1, <1>4, RecursionSteps
<1>7. \A n \in 1 .. N : f[n] = Step(f[n - 1], n)
  BY <1>3, <1>4, <1>6 DEF Step
<1>8. Is(f)
  <2>1. ASSUME NEW n \in 0 .. N
        PROVE  f[n] = IF n = 0 THEN p ELSE Step(f[n - 1], n)
    <3>1. CASE n = 0
      BY <1>6, <3>1
    <3>2. CASE n # 0
      <4>1. n \in 1 .. N
        BY <1>1, <3>2
      <4>. QED  BY <1>7, <3>2, <4>1
    <3>. QED  BY <3>1, <3>2
  <2>. QED  BY <1>6, <2>1
<1>9. Is(taken)
  BY <1>8
<1>. HIDE DEF taken
<1>10. taken[N] = f[N]
  <2>. DEFINE S == {n \in 0 .. N : taken[n] = f[n]}
  <2>1. 0 \in S
    BY <1>1, <1>8, <1>9
  <2>2. ASSUME NEW n \in 1 .. N, n - 1 \in S
        PROVE  n \in S
    BY <1>1, <1>7, <1>9, <2>2
  <2>. HIDE DEF S
  <2>3. \A n \in 0 .. N : n \in S
    BY <1>1, <2>1, <2>2, CountUp
  <2>. QED  BY <1>1, <2>3 DEF S
<1>. QED  BY <1>1, <1>4, <1>5, <1>10 DEF I, N

-----------------------------------------------------------------------------
(***************************************************************************)
(* Changes of the rows and of the view.                                    *)
(***************************************************************************)
LEMMA PartIs ==
  ASSUME NEW S, NEW s \in Seq(S), NEW a \in 1 .. Len(s) + 1, NEW b \in a - 1 .. Len(s)
  PROVE  /\ SubSeq(s, a, b) \in Seq(S) /\ Len(SubSeq(s, a, b)) = b - a + 1
         /\ \A n \in 1 .. b - a + 1 : SubSeq(s, a, b)[n] = s[a + n - 1]
<1>1. Len(s) \in Nat /\ a \in Int /\ b \in Int
  BY LenProperties
<1>2. \A n \in a .. b : s[n] \in S
  BY <1>1, ElementOfSeq
<1>3. /\ SubSeq(s, a, b) \in Seq(S)
      /\ Len(SubSeq(s, a, b)) = IF a <= b THEN b - a + 1 ELSE 0
      /\ \A n \in 1 .. b - a + 1 : SubSeq(s, a, b)[n] = s[a + n - 1]
  BY <1>1, <1>2, SubSeqProperties
<1>4. (IF a <= b THEN b - a + 1 ELSE 0) = b - a + 1
  BY <1>1
<1>. QED  BY <1>3, <1>4

LEMMA InsertedIs ==
  ASSUME NEW S, NEW s \in Seq(S), NEW first \in 0 .. Len(s), NEW items \in Seq(S)
  PROVE  /\ Inserted(s, first, items) \in Seq(S)
         /\ Len(Inserted(s, first, items)) = Len(s) + Len(items)
         /\ \A n \in 1 .. Len(s) + Len(items) :
              Inserted(s, first, items)[n] =
                IF n <= first THEN s[n]
                ELSE IF n <= first + Len(items) THEN items[n - first] ELSE s[n - Len(items)]
<1>. DEFINE left == SubSeq(s, 1, first)
            right == SubSeq(s, first + 1, Len(s))
            t == left \o items
            u == t \o right
            N == Len(s)
            K == Len(items)
<1>1. N \in Nat /\ K \in Nat /\ first \in Nat /\ first <= N
  BY LenProperties
<1>2. /\ left \in Seq(S) /\ Len(left) = first /\ \A n \in 1 .. first : left[n] = s[n]
  <2>1. /\ left \in Seq(S) /\ Len(left) = first - 1 + 1
        /\ \A n \in 1 .. first - 1 + 1 : left[n] = s[1 + n - 1]
    BY <1>1, PartIs
  <2>2. first - 1 + 1 = first /\ \A n \in 1 .. first : 1 + n - 1 = n
    BY <1>1
  <2>. HIDE DEF left
  <2>. QED  BY <2>1, <2>2
<1>3. /\ right \in Seq(S) /\ Len(right) = N - first
      /\ \A n \in 1 .. N - first : right[n] = s[first + n]
  <2>. DEFINE a == first + 1
  <2>1. a \in 1 .. N + 1 /\ N \in a - 1 .. N /\ N - a + 1 = N - first
        /\ \A n \in 1 .. N - first : a + n - 1 = first + n
    BY <1>1
  <2>. HIDE DEF a
  <2>2. /\ SubSeq(s, a, N) \in Seq(S) /\ Len(SubSeq(s, a, N)) = N - a + 1
        /\ \A n \in 1 .. N - a + 1 : SubSeq(s, a, N)[n] = s[a + n - 1]
    BY <2>1, PartIs
  <2>3. right = SubSeq(s, a, N)
    BY DEF a
  <2>. HIDE DEF right
  <2>. QED  BY <2>1, <2>2, <2>3
<1>4. Inserted(s, first, items) = u
  BY DEF Inserted
<1>. HIDE DEF left, right, N, K
<1>5. /\ t \in Seq(S) /\ Len(t) = first + K
      /\ \A n \in 1 .. first + K : t[n] = IF n <= first THEN left[n] ELSE items[n - first]
  BY <1>2, ConcatProperties DEF K
<1>. HIDE DEF t
<1>6. /\ u \in Seq(S) /\ Len(u) = N + K
      /\ \A n \in 1 .. N + K : u[n] = IF n <= first + K THEN t[n] ELSE right[n - (first + K)]
  <2>1. (first + K) + (N - first) = N + K
    BY <1>1
  <2>2. /\ u \in Seq(S) /\ Len(u) = Len(t) + Len(right)
        /\ \A n \in 1 .. Len(t) + Len(right) :
             u[n] = IF n <= Len(t) THEN t[n] ELSE right[n - Len(t)]
    BY <1>3, <1>5, ConcatProperties
  <2>. HIDE DEF u
  <2>3. Len(t) + Len(right) = N + K /\ Len(t) = first + K
    BY <1>3, <1>5, <2>1
  <2>. QED  BY <2>2, <2>3
<1>. HIDE DEF u
<1>7. ASSUME NEW n \in 1 .. N + K
      PROVE  u[n] = IF n <= first THEN s[n] ELSE IF n <= first + K THEN items[n - first] ELSE s[n - K]
  <2>1. CASE n <= first
    <3>1. n \in 1 .. first /\ n \in 1 .. first + K /\ n <= first + K
      BY <1>1, <2>1
    <3>. QED  BY <1>2, <1>5, <1>6, <2>1, <3>1
  <2>2. CASE ~(n <= first) /\ n <= first + K
    <3>1. n \in 1 .. first + K
      BY <1>1, <2>2
    <3>. QED  BY <1>5, <1>6, <2>2, <3>1
  <2>3. CASE ~(n <= first) /\ ~(n <= first + K)
    <3>1. n - (first + K) \in 1 .. N - first /\ first + (n - (first + K)) = n - K
      BY <1>1, <2>3
    <3>. QED  BY <1>3, <1>6, <2>3, <3>1
  <2>. QED  BY <1>1, <2>1, <2>2, <2>3
<1>. QED  BY <1>4, <1>6, <1>7 DEF N, K

LEMMA DeletedIs ==
  ASSUME NEW S, NEW s \in Seq(S), NEW first \in Nat, NEW last \in Nat,
         first <= last, last < Len(s)
  PROVE  /\ Deleted(s, first, last) \in Seq(S)
         /\ Len(Deleted(s, first, last)) = Len(s) - last + first - 1
         /\ \A n \in 1 .. Len(s) - last + first - 1 :
              Deleted(s, first, last)[n] = IF n <= first THEN s[n] ELSE s[n + last - first + 1]
<1>. DEFINE left == SubSeq(s, 1, first)
            right == SubSeq(s, last + 2, Len(s))
            u == left \o right
            N == Len(s)
<1>1. N \in Nat /\ first \in Nat /\ last \in Nat /\ first <= last /\ last < N
  BY LenProperties
<1>2. /\ left \in Seq(S) /\ Len(left) = first /\ \A n \in 1 .. first : left[n] = s[n]
  <2>0. first \in 1 - 1 .. N /\ 1 \in 1 .. N + 1
    BY <1>1
  <2>1. /\ left \in Seq(S) /\ Len(left) = first - 1 + 1
        /\ \A n \in 1 .. first - 1 + 1 : left[n] = s[1 + n - 1]
    BY <2>0, PartIs
  <2>2. first - 1 + 1 = first /\ \A n \in 1 .. first : 1 + n - 1 = n
    BY <1>1
  <2>. HIDE DEF left
  <2>. QED  BY <2>1, <2>2
<1>3. /\ right \in Seq(S) /\ Len(right) = N - last - 1
      /\ \A n \in 1 .. N - last - 1 : right[n] = s[last + 1 + n]
  <2>. DEFINE a == last + 2
  <2>1. a \in 1 .. N + 1 /\ N \in a - 1 .. N /\ N - a + 1 = N - last - 1
        /\ \A n \in 1 .. N - last - 1 : a + n - 1 = last + 1 + n
    BY <1>1
  <2>. HIDE DEF a
  <2>2. /\ SubSeq(s, a, N) \in Seq(S) /\ Len(SubSeq(s, a, N)) = N - a + 1
        /\ \A n \in 1 .. N - a + 1 : SubSeq(s, a, N)[n] = s[a + n - 1]
    BY <2>1, PartIs
  <2>3. right = SubSeq(s, a, N)
    BY DEF a
  <2>. HIDE DEF right
  <2>. QED  BY <2>1, <2>2, <2>3
<1>4. Deleted(s, first, last) = u
  BY DEF Deleted
<1>. HIDE DEF left, right, N
<1>5. /\ u \in Seq(S) /\ Len(u) = N - last + first - 1
      /\ \A n \in 1 .. N - last + first - 1 : u[n] = IF n <= first THEN left[n] ELSE right[n - first]
  <2>1. first + (N - last - 1) = N - last + first - 1
    BY <1>1
  <2>. QED  BY <1>2, <1>3, <2>1, ConcatProperties
<1>. HIDE DEF u
<1>6. ASSUME NEW n \in 1 .. N - last + first - 1
      PROVE  u[n] = IF n <= first THEN s[n] ELSE s[n + last - first + 1]
  <2>1. CASE n <= first
    <3>1. n \in 1 .. first
      BY <1>1, <2>1
    <3>. QED  BY <1>2, <1>5, <2>1, <3>1
  <2>2. CASE ~(n <= first)
    <3>1. n - first \in 1 .. N - last - 1 /\ last + 1 + (n - first) = n + last - first + 1
      BY <1>1, <2>2
    <3>. QED  BY <1>3, <1>5, <2>2, <3>1
  <2>. QED  BY <2>1, <2>2
<1>. QED  BY <1>4, <1>5, <1>6 DEF N

\* The view has these rows.  It shows their items, as far as it shows items,
\* unless a blocking call has overtaken messages.
Shows(h, view, s) ==
  /\ view \in Seq(Shown) /\ s \in Seq(Value) /\ Len(view) = Len(s)
  /\ "overtaken" \notin h => \A n \in 1 .. Len(s) : view[n] \in {Placeholder, Unread, s[n]}

LEMMA InsertedShows ==
  ASSUME NEW h, NEW view, NEW s, Shows(h, view, s), NEW first \in 0 .. Len(s),
         NEW new, NEW items, Shows(h, new, items)
  PROVE  /\ Shows(h, Inserted(view, first, new), Inserted(s, first, items))
         /\ Len(Inserted(s, first, items)) = Len(s) + Len(items)
<1>. DEFINE v == Inserted(view, first, new)
            t == Inserted(s, first, items)
<1>1. /\ view \in Seq(Shown) /\ s \in Seq(Value) /\ Len(view) = Len(s) /\ Len(s) \in Nat
      /\ "overtaken" \notin h => \A n \in 1 .. Len(s) : view[n] \in {Placeholder, Unread, s[n]}
  BY LenProperties DEF Shows
<1>2. /\ new \in Seq(Shown) /\ items \in Seq(Value) /\ Len(new) = Len(items) /\ Len(items) \in Nat
      /\ "overtaken" \notin h => \A n \in 1 .. Len(items) : new[n] \in {Placeholder, Unread, items[n]}
  BY LenProperties DEF Shows
<1>3. /\ t \in Seq(Value) /\ Len(t) = Len(s) + Len(items)
      /\ \A n \in 1 .. Len(s) + Len(items) :
           t[n] = IF n <= first THEN s[n]
                  ELSE IF n <= first + Len(items) THEN items[n - first] ELSE s[n - Len(items)]
  <2>1. s \in Seq(Value) /\ items \in Seq(Value)
    BY <1>1, <1>2
  <2>. QED  BY <2>1, InsertedIs
<1>4. /\ v \in Seq(Shown) /\ Len(v) = Len(s) + Len(items)
      /\ \A n \in 1 .. Len(s) + Len(items) :
           v[n] = IF n <= first THEN view[n]
                  ELSE IF n <= first + Len(items) THEN new[n - first] ELSE view[n - Len(items)]
  <2>1. first \in 0 .. Len(view)
    BY <1>1
  <2>2. /\ v \in Seq(Shown) /\ Len(v) = Len(view) + Len(new)
        /\ \A n \in 1 .. Len(view) + Len(new) :
             v[n] = IF n <= first THEN view[n]
                    ELSE IF n <= first + Len(new) THEN new[n - first] ELSE view[n - Len(new)]
    <3>1. view \in Seq(Shown) /\ new \in Seq(Shown)
      BY <1>1, <1>2
    <3>. QED  BY <2>1, <3>1, InsertedIs
  <2>. HIDE DEF v
  <2>. QED  BY <1>1, <1>2, <2>2
<1>. HIDE DEF v, t
<1>5. ASSUME "overtaken" \notin h, NEW n \in 1 .. Len(s) + Len(items)
      PROVE  v[n] \in {Placeholder, Unread, t[n]}
  <2>1. CASE n <= first
    <3>1. n \in 1 .. Len(s)
      BY <1>1, <2>1
    <3>. QED  BY <1>1, <1>3, <1>4, <1>5, <2>1, <3>1
  <2>2. CASE ~(n <= first) /\ n <= first + Len(items)
    <3>1. n - first \in 1 .. Len(items)
      BY <1>1, <1>2, <2>2
    <3>. QED  BY <1>2, <1>3, <1>4, <1>5, <2>2, <3>1
  <2>3. CASE ~(n <= first) /\ ~(n <= first + Len(items))
    <3>1. n - Len(items) \in 1 .. Len(s)
      BY <1>1, <1>2, <2>3
    <3>. QED  BY <1>1, <1>3, <1>4, <1>5, <2>3, <3>1
  <2>. QED  BY <2>1, <2>2, <2>3
<1>6. Shows(h, v, t)
  BY <1>3, <1>4, <1>5 DEF Shows
<1>. QED  BY <1>3, <1>6 DEF v, t

LEMMA DeletedShows ==
  ASSUME NEW h, NEW view, NEW s, Shows(h, view, s), NEW first \in Nat, NEW last \in Nat,
         first <= last, last < Len(s)
  PROVE  /\ Shows(h, Deleted(view, first, last), Deleted(s, first, last))
         /\ Len(Deleted(s, first, last)) = Len(s) - last + first - 1
<1>. DEFINE v == Deleted(view, first, last)
            t == Deleted(s, first, last)
            N == Len(s) - last + first - 1
<1>1. /\ view \in Seq(Shown) /\ s \in Seq(Value) /\ Len(view) = Len(s) /\ Len(s) \in Nat
      /\ "overtaken" \notin h => \A n \in 1 .. Len(s) : view[n] \in {Placeholder, Unread, s[n]}
  BY LenProperties DEF Shows
<1>2. /\ t \in Seq(Value) /\ Len(t) = N
      /\ \A n \in 1 .. N : t[n] = IF n <= first THEN s[n] ELSE s[n + last - first + 1]
  <2>1. s \in Seq(Value)
    BY <1>1
  <2>. QED  BY <2>1, DeletedIs
<1>3. /\ v \in Seq(Shown) /\ Len(v) = N
      /\ \A n \in 1 .. N : v[n] = IF n <= first THEN view[n] ELSE view[n + last - first + 1]
  <2>1. last < Len(view)
    BY <1>1
  <2>2. /\ v \in Seq(Shown) /\ Len(v) = Len(view) - last + first - 1
        /\ \A n \in 1 .. Len(view) - last + first - 1 :
             v[n] = IF n <= first THEN view[n] ELSE view[n + last - first + 1]
    <3>1. view \in Seq(Shown)
      BY <1>1
    <3>. QED  BY <2>1, <3>1, DeletedIs
  <2>. HIDE DEF v
  <2>. QED  BY <1>1, <2>2
<1>. HIDE DEF v, t
<1>4. ASSUME "overtaken" \notin h, NEW n \in 1 .. N
      PROVE  v[n] \in {Placeholder, Unread, t[n]}
  <2>1. CASE n <= first
    <3>1. n \in 1 .. Len(s)
      BY <1>1, <2>1
    <3>. QED  BY <1>1, <1>2, <1>3, <1>4, <2>1, <3>1
  <2>2. CASE ~(n <= first)
    <3>1. n + last - first + 1 \in 1 .. Len(s)
      BY <1>1, <2>2
    <3>. QED  BY <1>1, <1>2, <1>3, <1>4, <2>2, <3>1
  <2>. QED  BY <2>1, <2>2
<1>5. Shows(h, v, t)
  BY <1>2, <1>3, <1>4 DEF Shows
<1>. QED  BY <1>2, <1>5 DEF v, t

LEMMA MovedShows ==
  ASSUME NEW h, NEW view, NEW s, Shows(h, view, s),
         NEW first \in Nat, NEW destination \in Nat,
         first < Len(s), destination <= Len(s)
  PROVE  /\ Shows(h, Moved(view, first, destination), Moved(s, first, destination))
         /\ Len(Moved(s, first, destination)) = Len(s)
<1>. DEFINE d == IF destination > first THEN destination - 1 ELSE destination
            left == Deleted(s, first, first)
            shown == Deleted(view, first, first)
            items == SubSeq(s, first + 1, first + 1)
            new == SubSeq(view, first + 1, first + 1)
<1>1. /\ view \in Seq(Shown) /\ s \in Seq(Value) /\ Len(view) = Len(s) /\ Len(s) \in Nat
      /\ "overtaken" \notin h => \A n \in 1 .. Len(s) : view[n] \in {Placeholder, Unread, s[n]}
  BY LenProperties DEF Shows
<1>2. Shows(h, shown, left) /\ Len(left) = Len(s) - 1
  <2>1. Len(s) - first + first - 1 = Len(s) - 1
    BY <1>1
  <2>2. first <= first
    OBVIOUS
  <2>3. /\ Shows(h, shown, left)
        /\ Len(left) = Len(s) - first + first - 1
    BY <2>2, DeletedShows
  <2>. QED  BY <2>1, <2>3
<1>3. Shows(h, new, items) /\ Len(items) = 1
  <2>. DEFINE a == first + 1
  <2>1. a \in 1 .. Len(s) + 1 /\ a \in a - 1 .. Len(s) /\ a - a + 1 = 1 /\ a \in 1 .. Len(s)
        /\ a + 1 - 1 = a
    BY <1>1
  <2>. HIDE DEF a
  <2>2. /\ SubSeq(s, a, a) \in Seq(Value) /\ Len(SubSeq(s, a, a)) = 1
        /\ \A n \in 1 .. 1 : SubSeq(s, a, a)[n] = s[a + n - 1]
    BY <1>1, <2>1, PartIs
  <2>3. /\ SubSeq(view, a, a) \in Seq(Shown) /\ Len(SubSeq(view, a, a)) = 1
        /\ \A n \in 1 .. 1 : SubSeq(view, a, a)[n] = view[a + n - 1]
    BY <1>1, <2>1, PartIs
  <2>4. SubSeq(s, a, a)[1] = s[a] /\ SubSeq(view, a, a)[1] = view[a]
    BY <2>1, <2>2, <2>3
  <2>5. "overtaken" \notin h => \A n \in 1 .. 1 : SubSeq(view, a, a)[n] \in {Placeholder, Unread, SubSeq(s, a, a)[n]}
    BY <1>1, <2>1, <2>4
  <2>6. new = SubSeq(view, a, a) /\ items = SubSeq(s, a, a)
    BY DEF a
  <2>. HIDE DEF new, items
  <2>. QED  BY <2>2, <2>3, <2>5, <2>6 DEF Shows
<1>4. d \in 0 .. Len(left)
  BY <1>1, <1>2
<1>5. /\ Moved(s, first, destination) = Inserted(left, d, items)
      /\ Moved(view, first, destination) = Inserted(shown, d, new)
  BY DEF Moved
<1>. HIDE DEF left, shown, items, new, d
<1>6. /\ Shows(h, Inserted(shown, d, new), Inserted(left, d, items))
      /\ Len(Inserted(left, d, items)) = Len(left) + Len(items)
  <2>1. Shows(h, shown, left)
    BY <1>2
  <2>2. Shows(h, new, items)
    BY <1>3
  <2>3. ASSUME NEW k \in 0 .. Len(left)
        PROVE  /\ Shows(h, Inserted(shown, k, new), Inserted(left, k, items))
               /\ Len(Inserted(left, k, items)) = Len(left) + Len(items)
    BY <2>1, <2>2, InsertedShows
  <2>. QED  BY <1>4, <2>3
<1>. QED  BY <1>1, <1>2, <1>3, <1>5, <1>6

-----------------------------------------------------------------------------
(***************************************************************************)
(* The invariant.                                                          *)
(***************************************************************************)
\* What waits in the client of a service that was never withdrawn.
Messages ==
  [kind : {"added"}]
    \union [kind : {"snapshot", "reset"}, size : Nat]
    \union [kind : {"answer", "changed"}, first : Nat, items : Seq(Value)]
    \union [kind : {"inserted", "deleted"}, first : Nat, last : Nat]
    \union [kind : {"moved"}, first : Nat, destination : Nat]

\* The message makes the proxy empty its cache.
Clears(message) == message.kind \in {"inserted", "deleted", "moved", "reset"}

\* The message has an item for row i.
Brings(message, i) ==
  message.kind \in {"changed", "answer"}
    /\ i \in message.first .. message.first + Len(message.items) - 1

Brought(message, i) == message.items[i - message.first + 1]

\* A message behind position k of the queue will drop or replace row i.
Outdated(queue, i, k) ==
  \E l \in k + 1 .. Len(queue) : Clears(queue[l]) \/ Brings(queue[l], i)

\* What is cached, and what is brought, is the present item or outdated.
CacheOK(p, queue, model) ==
  \A i \in DOMAIN p.cache.items :
    Present(model, i, p.cache.items[i]) \/ Outdated(queue, i, 0)

BringsOK(queue, model) ==
  \A k \in 1 .. Len(queue) : \A i :
    Brings(queue[k], i) => Present(model, i, Brought(queue[k], i)) \/ Outdated(queue, i, k)

Answers(message, i) ==
  \/ message.kind \in {"inserted", "reset"}
  \/ message.kind = "answer" /\ Brings(message, i)

\* The service will answer, its answer waits, or a message will make the proxy
\* forget that it asked.
AskedOK(p, queue, model) ==
  \A i \in p.asked :
    \/ Requested(p.requests, i)
    \/ \E k \in 1 .. Len(queue) : Answers(queue[k], i)
    \/ i >= Len(model)

\* The message tells that the rows s became the rows t.
Leads(s, message, t) ==
  \/ message.kind = "added" /\ t = s
  \/ message.kind = "snapshot" /\ t = s /\ message.size = Len(s)
  \/ /\ message.kind = "answer" /\ t = s
     /\ \A n \in 1 .. Len(message.items) :
          message.first + n <= Len(s) /\ s[message.first + n] = message.items[n]
  \/ /\ message.kind = "changed" /\ message.first < Len(s)
     /\ \E v \in Value : message.items = <<v>> /\ t = [s EXCEPT ![message.first + 1] = v]
  \/ /\ message.kind = "inserted" /\ message.first <= Len(s) /\ message.last = message.first
     /\ \E v \in Value : t = Inserted(s, message.first, <<v>>)
  \/ /\ message.kind = "deleted" /\ message.first <= message.last /\ message.last < Len(s)
     /\ t = Deleted(s, message.first, message.last)
  \/ /\ message.kind = "moved" /\ message.first < Len(s) /\ message.destination <= Len(s)
     /\ t = Moved(s, message.first, message.destination)
  \/ message.kind = "reset" /\ message.size = Len(t)

\* m[k] are the rows as the first k messages of the queue tell them.
Linked(m, queue, model) ==
  /\ m \in [0 .. Len(queue) -> Seq(Value)]
  /\ m[Len(queue)] = model
  /\ \A k \in 1 .. Len(queue) : Leads(m[k - 1], queue[k], m[k])

\* Row i will be read again, and still be the row it is.
ChangePending(queue, i) ==
  \E k \in 1 .. Len(queue) :
    /\ queue[k].kind = "changed" /\ queue[k].first = i
    /\ \A l \in 1 .. k - 1 : ~Clears(queue[l])

\* The proxy has been told of the rows s.
Told(p, queue, h, s) ==
  /\ p.attached => p.size = Len(s) /\ Len(p.view) = Len(s)
  /\ "overtaken" \notin h =>
       /\ \A n \in 1 .. Len(p.view) :
            p.view[n] \in {Placeholder, Unread, s[n]} \/ ChangePending(queue, n - 1)
       /\ \A i \in DOMAIN p.cache.items :
            i < Len(s) => p.cache.items[i] = s[i + 1] \/ ChangePending(queue, i)

AddedMessage == [kind |-> "added"]
PropertiesRequest == [kind |-> "properties"]

InitialProxy ==
  [known |-> FALSE, size |-> 0, cache |-> EmptyCache, asked |-> {}, placeholders |-> {},
   requests |-> <<>>, attached |-> FALSE, view |-> <<>>]

\* What the proxy and its queue can be before the proxy is known to the
\* service, before the adapter sends signals, and before a snapshot comes.
Stages ==
  /\ ~proxy.known =>
       /\ proxy = InitialProxy
       /\ inbox = IF exported THEN <<AddedMessage>> ELSE <<>>
  /\ proxy.known =>
       /\ exported
       /\ \A k \in 1 .. Len(inbox) : inbox[k].kind # "added"
       /\ synchronous => proxy.attached /\ proxy.placeholders = {}
       /\ proxy.attached => listened
       /\ ~proxy.attached =>
            /\ proxy.view = <<>> /\ proxy.asked = {} /\ proxy.placeholders = {}
            /\ proxy.requests \in {<<>>, <<PropertiesRequest>>}
            /\ \A k \in 1 .. Len(inbox) : inbox[k].kind # "answer"
       /\ ~listened =>
            inbox = <<>> /\ proxy.cache = EmptyCache /\ proxy.requests = <<PropertiesRequest>>

Unrenewed ==
  /\ rows \in Seq(Value)
  /\ exported \in BOOLEAN /\ listened \in BOOLEAN /\ synchronous \in BOOLEAN
  /\ proxy \in Proxies /\ inbox \in Seq(Messages)
  /\ Stages
  /\ \E m : Linked(m, inbox, rows) /\ Told(proxy, inbox, history, m[0])
  /\ CacheOK(proxy, inbox, rows)
  /\ BringsOK(inbox, rows)
  /\ AskedOK(proxy, inbox, rows)

\* Nothing is claimed of a proxy whose service was withdrawn once.
RInv == "renewed" \in history \/ Unrenewed

-----------------------------------------------------------------------------
(***************************************************************************)
(* The queue.                                                              *)
(***************************************************************************)
LEMMA QueueAppend ==
  ASSUME NEW S, NEW queue \in Seq(S), NEW e \in S
  PROVE  /\ Append(queue, e) \in Seq(S) /\ Len(queue) \in Nat
         /\ Len(Append(queue, e)) = Len(queue) + 1
         /\ \A k \in 1 .. Len(queue) : k \in 1 .. Len(queue) + 1 /\ Append(queue, e)[k] = queue[k]
         /\ Append(queue, e)[Len(queue) + 1] = e
BY AppendProperties, LenProperties

LEMMA QueueTail ==
  ASSUME NEW S, NEW queue \in Seq(S), queue # <<>>
  PROVE  /\ Tail(queue) \in Seq(S) /\ Len(queue) \in Nat \ {0} /\ Head(queue) \in S
         /\ Len(Tail(queue)) = Len(queue) - 1
         /\ \A k \in 1 .. Len(queue) - 1 : k + 1 \in 1 .. Len(queue) /\ Tail(queue)[k] = queue[k + 1]
         /\ Head(queue) = queue[1]
<1>1. /\ Head(queue) \in S /\ Tail(queue) \in Seq(S) /\ Len(Tail(queue)) = Len(queue) - 1
      /\ \A k \in 1 .. Len(Tail(queue)) : Tail(queue)[k] = queue[k + 1]
  BY HeadTailProperties
<1>2. Len(queue) \in Nat \ {0}
  BY EmptySeq
<1>. QED  BY <1>1, <1>2

LEMMA LinkedAppend ==
  ASSUME NEW m, NEW queue \in Seq(Messages), NEW message \in Messages,
         NEW model, NEW new \in Seq(Value),
         Linked(m, queue, model), Leads(model, message, new)
  PROVE  \E l : Linked(l, Append(queue, message), new) /\ l[0] = m[0]
<1>. DEFINE N == Len(queue)
            q == Append(queue, message)
            l == [k \in 0 .. N + 1 |-> IF k <= N THEN m[k] ELSE new]
<1>1. /\ N \in Nat /\ Len(q) = N + 1 /\ q[N + 1] = message
      /\ \A k \in 1 .. N : q[k] = queue[k]
  BY QueueAppend
<1>2. /\ \A k \in 0 .. N : m[k] \in Seq(Value)
      /\ m[N] = model
      /\ \A k \in 1 .. N : Leads(m[k - 1], queue[k], m[k])
  BY DEF Linked
<1>. HIDE DEF q, N
<1>3. /\ \A k \in 0 .. N : l[k] = m[k]
      /\ l[N + 1] = new /\ l \in [0 .. N + 1 -> Seq(Value)]
  BY <1>1, <1>2
<1>. HIDE DEF l
<1>4. ASSUME NEW k \in 1 .. N + 1
      PROVE  Leads(l[k - 1], q[k], l[k])
  <2>1. CASE k = N + 1
    <3>1. N \in 0 .. N /\ (N + 1) - 1 = N
      BY <1>1
    <3>2. l[k - 1] = model /\ q[k] = message /\ l[k] = new
      BY <1>1, <1>2, <1>3, <2>1, <3>1
    <3>. QED  BY <3>2
  <2>2. CASE k # N + 1
    <3>1. k \in 1 .. N /\ k - 1 \in 0 .. N /\ k \in 0 .. N
      BY <1>1, <2>2
    <3>2. l[k - 1] = m[k - 1] /\ q[k] = queue[k] /\ l[k] = m[k]
      BY <1>1, <1>3, <3>1
    <3>. QED  BY <1>2, <3>1, <3>2
  <2>. QED  BY <2>1, <2>2
<1>5. Linked(l, q, new)
  BY <1>1, <1>3, <1>4 DEF Linked
<1>6. l[0] = m[0]
  BY <1>1, <1>3
<1>. QED  BY <1>5, <1>6 DEF q

LEMMA LinkedTail ==
  ASSUME NEW m, NEW queue \in Seq(Messages), NEW model, queue # <<>>, Linked(m, queue, model)
  PROVE  \E l : /\ Linked(l, Tail(queue), model) /\ l[0] \in Seq(Value)
                /\ m[0] \in Seq(Value) /\ Leads(m[0], Head(queue), l[0])
<1>. DEFINE N == Len(queue)
            q == Tail(queue)
            l == [k \in 0 .. N - 1 |-> m[k + 1]]
<1>1. /\ N \in Nat \ {0} /\ Len(q) = N - 1 /\ Head(queue) = queue[1]
      /\ \A k \in 1 .. N - 1 : k + 1 \in 1 .. N /\ q[k] = queue[k + 1]
  BY QueueTail
<1>2. /\ \A k \in 0 .. N : m[k] \in Seq(Value)
      /\ m[N] = model
      /\ \A k \in 1 .. N : Leads(m[k - 1], queue[k], m[k])
  BY DEF Linked
<1>. HIDE DEF q, N
<1>3. \A k \in 0 .. N - 1 : l[k] = m[k + 1] /\ k + 1 \in 0 .. N
  BY <1>1
<1>4. l \in [0 .. N - 1 -> Seq(Value)]
  BY <1>1, <1>2
<1>. HIDE DEF l
<1>5. ASSUME NEW k \in 1 .. N - 1
      PROVE  Leads(l[k - 1], q[k], l[k])
  <2>1. k - 1 \in 0 .. N - 1 /\ k \in 0 .. N - 1 /\ (k - 1) + 1 = k /\ (k + 1) - 1 = k
        /\ k + 1 \in 1 .. N
    BY <1>1
  <2>2. l[k - 1] = m[k] /\ l[k] = m[k + 1] /\ q[k] = queue[k + 1]
    BY <1>1, <1>3, <2>1
  <2>3. Leads(m[(k + 1) - 1], queue[k + 1], m[k + 1])
    BY <1>2, <2>1
  <2>. QED  BY <2>1, <2>2, <2>3
<1>6. l[N - 1] = model
  BY <1>1, <1>2, <1>3
<1>7. Linked(l, q, model)
  BY <1>1, <1>4, <1>5, <1>6 DEF Linked
<1>8. Leads(m[0], Head(queue), l[0]) /\ l[0] \in Seq(Value) /\ m[0] \in Seq(Value)
  <2>1. l[0] = m[1] /\ Leads(m[1 - 1], queue[1], m[1])
    BY <1>1, <1>2, <1>3
  <2>. QED  BY <1>1, <1>2, <2>1
<1>. QED  BY <1>7, <1>8 DEF q

LEMMA OutdatedAppend ==
  ASSUME NEW queue \in Seq(Messages), NEW message \in Messages, NEW i, NEW k \in 0 .. Len(queue),
         Outdated(queue, i, k) \/ Clears(message) \/ Brings(message, i)
  PROVE  Outdated(Append(queue, message), i, k)
<1>. DEFINE N == Len(queue)
            q == Append(queue, message)
<1>1. /\ N \in Nat /\ Len(q) = N + 1 /\ q[N + 1] = message
      /\ \A l \in 1 .. N : q[l] = queue[l]
  BY QueueAppend
<1>. HIDE DEF q
<1>2. CASE Outdated(queue, i, k)
  <2>1. PICK l \in k + 1 .. N : Clears(queue[l]) \/ Brings(queue[l], i)
    BY <1>2 DEF Outdated
  <2>2. l \in k + 1 .. N + 1 /\ l \in 1 .. N
    BY <1>1
  <2>. QED  BY <1>1, <2>1, <2>2 DEF Outdated, q
<1>3. CASE Clears(message) \/ Brings(message, i)
  <2>1. N + 1 \in k + 1 .. N + 1
    BY <1>1
  <2>. QED  BY <1>1, <1>3, <2>1 DEF Outdated, q
<1>. QED  BY <1>2, <1>3

LEMMA OutdatedTail ==
  ASSUME NEW queue \in Seq(Messages), queue # <<>>, NEW i, NEW k \in 0 .. Len(queue),
         Outdated(queue, i, k)
  PROVE  /\ k > 0 => Outdated(Tail(queue), i, k - 1)
         /\ k = 0 => \/ Outdated(Tail(queue), i, 0)
                     \/ Clears(Head(queue)) \/ Brings(Head(queue), i)
<1>. DEFINE N == Len(queue)
            q == Tail(queue)
<1>1. /\ N \in Nat \ {0} /\ Len(q) = N - 1 /\ Head(queue) = queue[1]
      /\ \A l \in 1 .. N - 1 : q[l] = queue[l + 1]
  BY QueueTail
<1>. HIDE DEF q
<1>2. PICK l \in k + 1 .. N : Clears(queue[l]) \/ Brings(queue[l], i)
  BY DEF Outdated
<1>3. CASE l = 1
  BY <1>1, <1>2, <1>3
<1>4. CASE l # 1
  <2>1. l - 1 \in 1 .. N - 1 /\ (l - 1) + 1 = l
    BY <1>1, <1>4
  <2>2. q[l - 1] = queue[l]
    BY <1>1, <2>1
  <2>3. k > 0 => l - 1 \in (k - 1) + 1 .. N - 1
    BY <1>1, <1>4
  <2>4. k = 0 => l - 1 \in 0 + 1 .. N - 1
    BY <1>1, <1>4
  <2>. QED  BY <1>1, <1>2, <2>2, <2>3, <2>4 DEF Outdated, q
<1>. QED  BY <1>3, <1>4

LEMMA PendingAppend ==
  ASSUME NEW queue \in Seq(Messages), NEW message \in Messages, NEW i, ChangePending(queue, i)
  PROVE  ChangePending(Append(queue, message), i)
<1>. DEFINE N == Len(queue)
            q == Append(queue, message)
<1>1. /\ N \in Nat /\ Len(q) = N + 1
      /\ \A l \in 1 .. N : l \in 1 .. N + 1 /\ q[l] = queue[l]
  BY QueueAppend
<1>. HIDE DEF q
<1>2. PICK k \in 1 .. N : /\ queue[k].kind = "changed" /\ queue[k].first = i
                          /\ \A l \in 1 .. k - 1 : ~Clears(queue[l])
  BY DEF ChangePending
<1>3. \A l \in 1 .. k - 1 : l \in 1 .. N
  BY <1>1
<1>4. \A l \in 1 .. k - 1 : ~Clears(q[l])
  BY <1>1, <1>2, <1>3
<1>5. k \in 1 .. Len(q) /\ q[k] = queue[k]
  BY <1>1
<1>. QED  BY <1>2, <1>4, <1>5 DEF ChangePending, q

LEMMA PendingTail ==
  ASSUME NEW queue \in Seq(Messages), queue # <<>>, NEW i, ChangePending(queue, i)
  PROVE  \/ Head(queue).kind = "changed" /\ Head(queue).first = i
         \/ ~Clears(Head(queue)) /\ ChangePending(Tail(queue), i)
<1>. DEFINE N == Len(queue)
            q == Tail(queue)
<1>1. /\ N \in Nat \ {0} /\ Len(q) = N - 1 /\ Head(queue) = queue[1]
      /\ \A l \in 1 .. N - 1 : q[l] = queue[l + 1]
  BY QueueTail
<1>. HIDE DEF q
<1>2. PICK k \in 1 .. N : /\ queue[k].kind = "changed" /\ queue[k].first = i
                          /\ \A l \in 1 .. k - 1 : ~Clears(queue[l])
  BY DEF ChangePending
<1>3. CASE k = 1
  BY <1>1, <1>2, <1>3
<1>4. CASE k # 1
  <2>1. k - 1 \in 1 .. N - 1 /\ 1 \in 1 .. k - 1 /\ (k - 1) + 1 = k
    BY <1>1, <1>4
  <2>2. q[k - 1] = queue[k] /\ k - 1 \in 1 .. Len(q)
    BY <1>1, <2>1
  <2>3. ASSUME NEW l \in 1 .. (k - 1) - 1
        PROVE  ~Clears(q[l])
    <3>1. l + 1 \in 1 .. k - 1 /\ l \in 1 .. N - 1
      BY <1>1, <1>4
    <3>. QED  BY <1>1, <1>2, <3>1
  <2>4. ~Clears(Head(queue))
    BY <1>1, <1>2, <2>1
  <2>. QED  BY <1>2, <2>2, <2>3, <2>4 DEF ChangePending, q
<1>. QED  BY <1>3, <1>4

\* What a message that leaves the cache alone says of the rows.
LEMMA LeadsKeeps ==
  ASSUME NEW s \in Seq(Value), NEW message \in Messages, NEW t,
         Leads(s, message, t), ~Clears(message)
  PROVE  /\ Len(t) = Len(s)
         /\ \A i \in 0 .. Len(s) - 1 :
              t[i + 1] = s[i + 1] \/ (message.kind = "changed" /\ message.first = i)
<1>1. Len(s) \in Nat
  BY LenProperties
<1>2. \/ t = s
      \/ /\ message.kind = "changed" /\ message.first < Len(s)
         /\ \E v \in Value : message.items = <<v>> /\ t = [s EXCEPT ![message.first + 1] = v]
  BY DEF Leads, Clears
<1>3. CASE t = s
  BY <1>3
<1>4. CASE /\ message.kind = "changed" /\ message.first < Len(s)
           /\ \E v \in Value : message.items = <<v>> /\ t = [s EXCEPT ![message.first + 1] = v]
  <2>1. PICK v \in Value : t = [s EXCEPT ![message.first + 1] = v]
    BY <1>4
  <2>2. message.first \in Nat
    BY <1>4 DEF Messages
  <2>. DEFINE n == message.first + 1
  <2>3. n \in 1 .. Len(s)
    BY <1>1, <1>4, <2>2
  <2>4. t = [s EXCEPT ![n] = v]
    BY <2>1
  <2>. HIDE DEF n
  <2>5. Len(t) = Len(s) /\ \A j \in 1 .. Len(s) : t[j] = IF j = n THEN v ELSE s[j]
    BY <2>3, <2>4, ExceptSeq
  <2>6. ASSUME NEW i \in 0 .. Len(s) - 1, i # message.first
        PROVE  t[i + 1] = s[i + 1]
    <3>1. i + 1 \in 1 .. Len(s) /\ i + 1 # n
      BY <1>1, <2>2, <2>6 DEF n
    <3>. QED  BY <2>5, <3>1
  <2>. QED  BY <1>4, <2>5, <2>6
<1>. QED  BY <1>2, <1>3, <1>4

\* If no message empties the cache, the service's present rows are those the
\* proxy was told of or will be read again.
LEMMA Ahead ==
  ASSUME NEW m, NEW queue \in Seq(Messages), NEW model, Linked(m, queue, model),
         \A k \in 1 .. Len(queue) : ~Clears(queue[k])
  PROVE  /\ Len(model) = Len(m[0])
         /\ \A i : Present(model, i, model[i + 1]) =>
              model[i + 1] = m[0][i + 1] \/ ChangePending(queue, i)
<1>. DEFINE N == Len(queue)
            Changed(i, k) == \E j \in 1 .. k : queue[j].kind = "changed" /\ queue[j].first = i
            S == {k \in 0 .. N : /\ Len(m[k]) = Len(m[0])
                                 /\ \A i \in 0 .. Len(m[0]) - 1 :
                                      m[k][i + 1] = m[0][i + 1] \/ Changed(i, k)}
<1>1. /\ N \in Nat /\ \A k \in 0 .. N : m[k] \in Seq(Value)
      /\ m[N] = model /\ \A k \in 1 .. N : Leads(m[k - 1], queue[k], m[k]) /\ queue[k] \in Messages
  BY LenProperties, ElementOfSeq DEF Linked
<1>2. 0 \in S
  BY <1>1
<1>3. ASSUME NEW k \in 1 .. N, k - 1 \in S
      PROVE  k \in S
  <2>1. k \in 0 .. N /\ k - 1 \in 0 .. N /\ k \in 1 .. k
    BY <1>1
  <2>2. /\ Len(m[k]) = Len(m[k - 1])
        /\ \A i \in 0 .. Len(m[k - 1]) - 1 :
             m[k][i + 1] = m[k - 1][i + 1] \/ (queue[k].kind = "changed" /\ queue[k].first = i)
    <3>1. m[k - 1] \in Seq(Value) /\ queue[k] \in Messages /\ Leads(m[k - 1], queue[k], m[k])
      BY <1>1, <2>1
    <3>. DEFINE s == m[k - 1]
                t == m[k]
                message == queue[k]
    <3>2. s \in Seq(Value) /\ message \in Messages /\ Leads(s, message, t) /\ ~Clears(message)
      BY <3>1
    <3>. HIDE DEF s, t, message
    <3>3. /\ Len(t) = Len(s)
          /\ \A i \in 0 .. Len(s) - 1 :
               t[i + 1] = s[i + 1] \/ (message.kind = "changed" /\ message.first = i)
      BY <3>2, LeadsKeeps
    <3>. QED  BY <3>3 DEF s, t, message
  <2>3. /\ Len(m[k - 1]) = Len(m[0])
        /\ \A i \in 0 .. Len(m[0]) - 1 : m[k - 1][i + 1] = m[0][i + 1] \/ Changed(i, k - 1)
    BY <1>3
  <2>4. ASSUME NEW i \in 0 .. Len(m[0]) - 1
        PROVE  m[k][i + 1] = m[0][i + 1] \/ Changed(i, k)
    <3>1. CASE m[k][i + 1] = m[k - 1][i + 1] /\ m[k - 1][i + 1] = m[0][i + 1]
      BY <3>1
    <3>2. CASE queue[k].kind = "changed" /\ queue[k].first = i
      BY <2>1, <3>2
    <3>3. CASE Changed(i, k - 1)
      <4>1. \A j \in 1 .. k - 1 : j \in 1 .. k
        BY <1>1
      <4>. QED  BY <3>3, <4>1
    <3>. HIDE DEF Changed
    <3>4. i \in 0 .. Len(m[k - 1]) - 1
      BY <2>3
    <3>. QED  BY <2>2, <2>3, <3>1, <3>2, <3>3, <3>4
  <2>. QED  BY <2>1, <2>2, <2>3, <2>4
<1>4. N \in S
  <2>. HIDE DEF S
  <2>1. \A k \in 0 .. N : k \in S
    BY <1>1, <1>2, <1>3, CountUp
  <2>. QED  BY <1>1, <2>1
<1>5. /\ Len(model) = Len(m[0])
      /\ \A i \in 0 .. Len(m[0]) - 1 : model[i + 1] = m[0][i + 1] \/ Changed(i, N)
  BY <1>1, <1>4
<1>6. ASSUME NEW i, Present(model, i, model[i + 1])
      PROVE  model[i + 1] = m[0][i + 1] \/ ChangePending(queue, i)
  <2>1. m[0] \in Seq(Value)
    BY <1>1
  <2>2. i \in 0 .. Len(m[0]) - 1
    BY <1>5, <1>6, <2>1, LenProperties DEF Present
  <2>3. ASSUME Changed(i, N)
        PROVE  ChangePending(queue, i)
    <3>1. PICK j \in 1 .. N : queue[j].kind = "changed" /\ queue[j].first = i
      BY <2>3
    <3>2. \A l \in 1 .. j - 1 : l \in 1 .. N
      BY <1>1
    <3>. QED  BY <3>1, <3>2 DEF ChangePending
  <2>. HIDE DEF Changed
  <2>. QED  BY <1>5, <2>2, <2>3
<1>. QED  BY <1>5, <1>6

\* The parts of the invariant about single rows, when a message is appended.
LEMMA AppendKeeps ==
  ASSUME NEW p, NEW q, NEW queue \in Seq(Messages), NEW message \in Messages,
         NEW model, NEW new, CacheOK(p, queue, model), BringsOK(queue, model),
         q.cache.items = p.cache.items,
         \A i, v : Present(model, i, v) =>
           Present(new, i, v) \/ Clears(message) \/ Brings(message, i),
         \A i : Brings(message, i) => Present(new, i, Brought(message, i))
  PROVE  CacheOK(q, Append(queue, message), new) /\ BringsOK(Append(queue, message), new)
<1>. DEFINE N == Len(queue)
            r == Append(queue, message)
<1>1. /\ N \in Nat /\ Len(r) = N + 1 /\ r[N + 1] = message
      /\ \A k \in 1 .. N : r[k] = queue[k]
  BY QueueAppend
<1>2. ASSUME NEW i, NEW v, NEW k \in 0 .. N, Present(model, i, v) \/ Outdated(queue, i, k)
      PROVE  Present(new, i, v) \/ Outdated(r, i, k)
  <2>1. Present(new, i, v) \/ Outdated(queue, i, k) \/ Clears(message) \/ Brings(message, i)
    BY <1>2
  <2>2. Present(new, i, v) \/ Outdated(Append(queue, message), i, k)
    BY <2>1, OutdatedAppend
  <2>. QED  BY <2>2
<1>. HIDE DEF r
<1>3. CacheOK(q, r, new)
  <2>1. 0 \in 0 .. N
    BY <1>1
  <2>. QED  BY <1>2, <2>1 DEF CacheOK
<1>4. ASSUME NEW k \in 1 .. N + 1, NEW i, Brings(r[k], i)
      PROVE  Present(new, i, Brought(r[k], i)) \/ Outdated(r, i, k)
  <2>1. CASE k = N + 1
    BY <1>1, <1>4, <2>1
  <2>2. CASE k # N + 1
    <3>1. k \in 1 .. N /\ k \in 0 .. N /\ r[k] = queue[k]
      BY <1>1, <2>2
    <3>2. Present(model, i, Brought(queue[k], i)) \/ Outdated(queue, i, k)
      BY <1>4, <3>1 DEF BringsOK
    <3>. QED  BY <1>2, <3>1, <3>2
  <2>. QED  BY <2>1, <2>2
<1>5. BringsOK(r, new)
  BY <1>1, <1>4 DEF BringsOK
<1>. QED  BY <1>3, <1>5 DEF r

\* The same when the first message is delivered.
LEMMA TailKeeps ==
  ASSUME NEW p, NEW q, NEW queue \in Seq(Messages), queue # <<>>, NEW model,
         CacheOK(p, queue, model), BringsOK(queue, model),
         \A i \in DOMAIN q.cache.items :
           \/ /\ i \in DOMAIN p.cache.items /\ q.cache.items[i] = p.cache.items[i]
              /\ ~Clears(Head(queue)) /\ ~Brings(Head(queue), i)
           \/ Brings(Head(queue), i) /\ q.cache.items[i] = Brought(Head(queue), i)
  PROVE  CacheOK(q, Tail(queue), model) /\ BringsOK(Tail(queue), model)
<1>. DEFINE N == Len(queue)
            r == Tail(queue)
<1>1. /\ N \in Nat \ {0} /\ Len(r) = N - 1 /\ Head(queue) = queue[1]
      /\ \A k \in 1 .. N - 1 : k + 1 \in 1 .. N /\ r[k] = queue[k + 1]
  BY QueueTail
<1>2. ASSUME NEW i, NEW k \in 1 .. N, Outdated(queue, i, k)
      PROVE  Outdated(r, i, k - 1)
  BY <1>1, <1>2, OutdatedTail
<1>3. ASSUME NEW i, Outdated(queue, i, 0), ~Clears(Head(queue)), ~Brings(Head(queue), i)
      PROVE  Outdated(r, i, 0)
  <2>1. 0 \in 0 .. N
    BY <1>1
  <2>. QED  BY <1>3, <2>1, OutdatedTail
<1>. HIDE DEF r
<1>4. ASSUME NEW i \in DOMAIN q.cache.items
      PROVE  Present(model, i, q.cache.items[i]) \/ Outdated(r, i, 0)
  <2>1. CASE /\ i \in DOMAIN p.cache.items /\ q.cache.items[i] = p.cache.items[i]
             /\ ~Clears(Head(queue)) /\ ~Brings(Head(queue), i)
    BY <1>3, <2>1 DEF CacheOK
  <2>2. CASE Brings(Head(queue), i) /\ q.cache.items[i] = Brought(Head(queue), i)
    <3>1. 1 \in 1 .. N /\ 1 - 1 = 0
      BY <1>1
    <3>2. Present(model, i, q.cache.items[i]) \/ Outdated(queue, i, 1)
      BY <1>1, <2>2, <3>1 DEF BringsOK
    <3>3. Outdated(queue, i, 1) => Outdated(r, i, 1 - 1)
      BY <1>2, <3>1
    <3>. QED  BY <3>1, <3>2, <3>3
  <2>. QED  BY <2>1, <2>2
<1>5. ASSUME NEW k \in 1 .. N - 1, NEW i, Brings(r[k], i)
      PROVE  Present(model, i, Brought(r[k], i)) \/ Outdated(r, i, k)
  <2>1. k + 1 \in 1 .. N /\ r[k] = queue[k + 1] /\ (k + 1) - 1 = k
    BY <1>1
  <2>2. Present(model, i, Brought(r[k], i)) \/ Outdated(queue, i, k + 1)
    BY <1>5, <2>1 DEF BringsOK
  <2>3. Outdated(queue, i, k + 1) => Outdated(r, i, (k + 1) - 1)
    BY <1>2, <2>1
  <2>. QED  BY <2>1, <2>2, <2>3
<1>. QED  BY <1>1, <1>4, <1>5 DEF CacheOK, BringsOK, r

LEMMA AskedTail ==
  ASSUME NEW p, NEW q, NEW queue \in Seq(Messages), queue # <<>>, NEW model,
         AskedOK(p, queue, model),
         \A i : Requested(p.requests, i) => Requested(q.requests, i),
         \A i \in q.asked : \/ Requested(q.requests, i)
                            \/ i \in p.asked /\ ~Answers(Head(queue), i)
  PROVE  AskedOK(q, Tail(queue), model)
<1>. DEFINE N == Len(queue)
            r == Tail(queue)
<1>1. /\ N \in Nat \ {0} /\ Len(r) = N - 1 /\ Head(queue) = queue[1]
      /\ \A k \in 1 .. N - 1 : k + 1 \in 1 .. N /\ r[k] = queue[k + 1]
  BY QueueTail
<1>. HIDE DEF r
<1>2. ASSUME NEW i \in q.asked
      PROVE  \/ Requested(q.requests, i)
             \/ \E k \in 1 .. Len(r) : Answers(r[k], i)
             \/ i >= Len(model)
  <2>1. CASE i \in p.asked /\ ~Answers(Head(queue), i)
    <3>1. \/ Requested(p.requests, i)
          \/ \E k \in 1 .. N : Answers(queue[k], i)
          \/ i >= Len(model)
      BY <2>1 DEF AskedOK
    <3>2. ASSUME NEW k \in 1 .. N, Answers(queue[k], i)
          PROVE  \E l \in 1 .. Len(r) : Answers(r[l], i)
      <4>1. k # 1
        BY <1>1, <2>1, <3>2
      <4>2. k - 1 \in 1 .. N - 1 /\ (k - 1) + 1 = k
        BY <1>1, <4>1
      <4>3. r[k - 1] = queue[k]
        BY <1>1, <4>2
      <4>. QED  BY <1>1, <3>2, <4>2, <4>3
    <3>. QED  BY <3>1, <3>2
  <2>. QED  BY <2>1
<1>. QED  BY <1>2 DEF AskedOK, r

LEMMA AskedAppend ==
  ASSUME NEW p, NEW q, NEW queue \in Seq(Messages), NEW message \in Messages,
         NEW model, NEW new, AskedOK(p, queue, model), q.asked = p.asked,
         \A i : Requested(p.requests, i) =>
           Requested(q.requests, i) \/ Answers(message, i) \/ i >= Len(new),
         \A i \in p.asked : i >= Len(model) => Answers(message, i) \/ i >= Len(new)
  PROVE  AskedOK(q, Append(queue, message), new)
<1>. DEFINE N == Len(queue)
            r == Append(queue, message)
<1>1. /\ N \in Nat /\ Len(r) = N + 1 /\ r[N + 1] = message
      /\ \A k \in 1 .. N : k \in 1 .. N + 1 /\ r[k] = queue[k]
  BY QueueAppend
<1>. HIDE DEF r
<1>2. ASSUME NEW i \in q.asked
      PROVE  \/ Requested(q.requests, i)
             \/ \E k \in 1 .. Len(r) : Answers(r[k], i)
             \/ i >= Len(new)
  <2>1. \/ Requested(p.requests, i)
        \/ \E k \in 1 .. N : Answers(queue[k], i)
        \/ i >= Len(model)
    BY DEF AskedOK
  <2>2. ASSUME Answers(message, i)
        PROVE  \E k \in 1 .. Len(r) : Answers(r[k], i)
    <3>1. N + 1 \in 1 .. Len(r)
      BY <1>1
    <3>. QED  BY <1>1, <2>2, <3>1
  <2>3. ASSUME NEW k \in 1 .. N, Answers(queue[k], i)
        PROVE  \E l \in 1 .. Len(r) : Answers(r[l], i)
    <3>1. k \in 1 .. Len(r) /\ r[k] = queue[k]
      BY <1>1
    <3>. QED  BY <2>3, <3>1
  <2>. QED  BY <2>1, <2>2, <2>3
<1>. QED  BY <1>2 DEF AskedOK, r

LEMMA ToldAppend ==
  ASSUME NEW p, NEW q, NEW queue \in Seq(Messages), NEW message \in Messages, NEW h, NEW s,
         Told(p, queue, h, s), q.attached = p.attached, q.size = p.size, q.view = p.view,
         q.cache.items = p.cache.items
  PROVE  Told(q, Append(queue, message), h, s)
<1>1. \A i : ChangePending(queue, i) => ChangePending(Append(queue, message), i)
  BY PendingAppend
<1>. QED  BY <1>1 DEF Told

\* With an empty cache, nothing shown and nothing asked for, the proxy may be
\* told of any rows.
LEMMA Fresh ==
  ASSUME NEW p \in Proxies, NEW queue \in {<<>>, <<AddedMessage>>}, NEW model \in Seq(Value), NEW h,
         DOMAIN p.cache.items = {}, p.asked = {},
         \A n \in 1 .. Len(p.view) : p.view[n] = Unread,
         p.attached => p.size = Len(model) /\ Len(p.view) = Len(model)
  PROVE  /\ queue \in Seq(Messages)
         /\ \E m : Linked(m, queue, model) /\ Told(p, queue, h, m[0])
         /\ CacheOK(p, queue, model) /\ BringsOK(queue, model) /\ AskedOK(p, queue, model)
<1>1. AddedMessage \in Messages /\ AddedMessage.kind = "added"
  BY DEF AddedMessage, Messages
<1>2. /\ queue \in Seq(Messages) /\ Len(queue) \in {0, 1}
      /\ \A k \in 1 .. Len(queue) : queue[k] = AddedMessage
  <2>1. CASE queue = <<>>
    BY <2>1
  <2>2. CASE queue = <<AddedMessage>>
    BY <1>1, <2>2
  <2>. QED  BY <2>1, <2>2
<1>. DEFINE m == [k \in 0 .. Len(queue) |-> model]
<1>3. /\ m \in [0 .. Len(queue) -> Seq(Value)]
      /\ \A k \in 0 .. Len(queue) : m[k] = model
      /\ 0 \in 0 .. Len(queue) /\ Len(queue) \in 0 .. Len(queue)
      /\ \A k \in 1 .. Len(queue) : k \in 0 .. Len(queue) /\ k - 1 \in 0 .. Len(queue)
  BY <1>2
<1>. HIDE DEF m
<1>4. Linked(m, queue, model)
  BY <1>1, <1>2, <1>3 DEF Linked, Leads
<1>5. Told(p, queue, h, m[0])
  BY <1>3 DEF Told
<1>6. CacheOK(p, queue, model) /\ AskedOK(p, queue, model)
  BY DEF CacheOK, AskedOK
<1>7. BringsOK(queue, model)
  BY <1>1, <1>2 DEF BringsOK, Brings
<1>. QED  BY <1>2, <1>4, <1>5, <1>6, <1>7

LEMMA InitialProxyIs ==
  /\ InitialProxy \in Proxies /\ ~InitialProxy.known /\ ~InitialProxy.attached
  /\ InitialProxy.size = 0 /\ InitialProxy.view = <<>> /\ InitialProxy.asked = {}
  /\ InitialProxy.placeholders = {} /\ InitialProxy.requests = <<>>
  /\ DOMAIN InitialProxy.cache.items = {} /\ InitialProxy.cache = EmptyCache
<1>1. EmptyCache \in Caches /\ DOMAIN EmptyCache.items = {}
  BY CacheEmpty
<1>2. <<>> \in Seq(Requests) /\ <<>> \in Seq(Shown)
  OBVIOUS
<1>. QED  BY <1>1, <1>2 DEF InitialProxy, Proxies

-----------------------------------------------------------------------------
(***************************************************************************)
(* The initial states, and the steps of the service.                       *)
(***************************************************************************)
LEMMA InitialRowsAreRows == InitialRows \subseteq Seq(Value)
<1>1. MaxRows \in Nat /\ InitialRows \subseteq UNION {[1 .. n -> Value] : n \in 0 .. MaxRows}
  BY ConstantsAssumption
<1>2. ASSUME NEW n \in 0 .. MaxRows
      PROVE  [1 .. n -> Value] \subseteq Seq(Value)
  BY <1>1, SeqDef
<1>. QED  BY <1>1, <1>2

LEMMA RInit == Init => RInv
<1>. SUFFICES ASSUME Init
              PROVE  Unrenewed
  BY DEF RInv
<1>1. /\ rows \in Seq(Value) /\ ~exported /\ exported \in BOOLEAN /\ listened \in BOOLEAN
      /\ synchronous \in BOOLEAN /\ inbox = <<>> /\ proxy = InitialProxy
  BY InitialRowsAreRows DEF Init, InitialProxy
<1>2. /\ inbox \in Seq(Messages)
      /\ \E m : Linked(m, inbox, rows) /\ Told(proxy, inbox, history, m[0])
      /\ CacheOK(proxy, inbox, rows) /\ BringsOK(inbox, rows) /\ AskedOK(proxy, inbox, rows)
  <2>1. <<>> \in {<<>>, <<AddedMessage>>} /\ \A n \in 1 .. Len(<<>>) : <<>>[n] = Unread
    OBVIOUS
  <2>. QED  BY <1>1, <2>1, InitialProxyIs, Fresh
<1>3. Stages
  BY <1>1, InitialProxyIs DEF Stages
<1>. QED  BY <1>1, <1>2, <1>3, InitialProxyIs DEF Unrenewed

\* Before the adapter sends signals the proxy holds nothing of the rows.
LEMMA ChangesUnheard ==
  ASSUME Unrenewed, NEW new \in Seq(Value), rows' = new, ~(listened /\ proxy.known),
         UNCHANGED <<inbox, exported, listened, synchronous, proxy, history>>
  PROVE  Unrenewed'
<1>1. /\ proxy \in Proxies /\ inbox \in {<<>>, <<AddedMessage>>}
      /\ DOMAIN proxy.cache.items = {} /\ proxy.asked = {} /\ proxy.view = <<>> /\ ~proxy.attached
  BY InitialProxyIs, CacheEmpty DEF Unrenewed, Stages
<1>2. \A n \in 1 .. Len(proxy.view) : proxy.view[n] = Unread
  BY <1>1
<1>3. /\ \E m : Linked(m, inbox, new) /\ Told(proxy, inbox, history, m[0])
      /\ CacheOK(proxy, inbox, new) /\ BringsOK(inbox, new) /\ AskedOK(proxy, inbox, new)
  BY <1>1, <1>2, Fresh
<1>4. Stages'
  BY DEF Unrenewed, Stages
<1>. QED  BY <1>3, <1>4 DEF Unrenewed

\* The rows after a change, by the message about it.
LEMMA LeadsOn ==
  ASSUME NEW s \in Seq(Value), NEW message \in Messages, NEW t \in Seq(Value), Leads(s, message, t),
         message.kind \in {"changed", "inserted", "deleted", "moved", "reset"}
  PROVE  /\ \A i, v : Present(s, i, v) => Present(t, i, v) \/ Clears(message) \/ Brings(message, i)
         /\ \A i : Brings(message, i) => Present(t, i, Brought(message, i))
         /\ \A i \in Nat : i >= Len(s) => Answers(message, i) \/ i >= Len(t)
<1>0. Len(s) \in Nat /\ Len(t) \in Nat
  BY LenProperties
<1>1. CASE message.kind = "changed"
  <2>1. PICK v \in Value : /\ message.first < Len(s) /\ message.items = <<v>>
                           /\ t = [s EXCEPT ![message.first + 1] = v]
    BY <1>1 DEF Leads
  <2>2. message.first \in Nat
    BY <1>1 DEF Messages
  <2>. DEFINE f == message.first
              n == f + 1
  <2>3. n \in 1 .. Len(s) /\ t = [s EXCEPT ![n] = v]
    BY <1>0, <2>1, <2>2
  <2>4. Len(t) = Len(s) /\ \A j \in 1 .. Len(s) : t[j] = IF j = n THEN v ELSE s[j]
    <3>. HIDE DEF n
    <3>. QED  BY <2>3, ExceptSeq
  <2>5. Len(message.items) = 1 /\ message.items[1] = v
    BY <2>1
  <2>6. \A i : Brings(message, i) <=> i = f
    BY <1>1, <2>2, <2>5 DEF Brings
  <2>7. Present(t, f, Brought(message, f))
    <3>1. f - f + 1 = 1 /\ n = f + 1 /\ f < Len(t)
      BY <2>1, <2>2, <2>4
    <3>. QED  BY <2>2, <2>3, <2>4, <2>5, <3>1 DEF Present, Brought
  <2>8. ASSUME NEW i, NEW w, Present(s, i, w), i # f
        PROVE  Present(t, i, w)
    <3>1. i \in Nat /\ i + 1 \in 1 .. Len(s) /\ i + 1 # n /\ s[i + 1] = w
      BY <1>0, <2>2, <2>8 DEF Present
    <3>. QED  BY <2>4, <2>8, <3>1 DEF Present
  <2>. QED  BY <1>0, <2>4, <2>6, <2>7, <2>8
<1>2. CASE message.kind \in {"inserted", "deleted", "moved", "reset"}
  <2>1. Clears(message) /\ \A i : ~Brings(message, i)
    BY <1>2 DEF Clears, Brings
  <2>2. CASE message.kind \in {"inserted", "reset"}
    BY <2>1, <2>2 DEF Answers
  <2>3. CASE message.kind = "deleted"
    <3>1. /\ message.first \in Nat /\ message.last \in Nat /\ message.first <= message.last
          /\ message.last < Len(s) /\ t = Deleted(s, message.first, message.last)
      BY <2>3 DEF Leads, Messages
    <3>2. ASSUME NEW f \in Nat, NEW l \in Nat, f <= l, l < Len(s)
          PROVE  Len(Deleted(s, f, l)) <= Len(s)
      <4>1. Len(Deleted(s, f, l)) = Len(s) - l + f - 1
        BY <3>2, DeletedIs
      <4>. QED  BY <1>0, <3>2, <4>1
    <3>3. Len(t) <= Len(s)
      BY <3>1, <3>2
    <3>. QED  BY <1>0, <2>1, <3>3
  <2>4. CASE message.kind = "moved"
    <3>1. /\ message.first \in Nat /\ message.destination \in Nat /\ message.first < Len(s)
          /\ message.destination <= Len(s) /\ t = Moved(s, message.first, message.destination)
      BY <2>4 DEF Leads, Messages
    <3>2. ASSUME NEW f \in Nat, NEW d \in Nat, f < Len(s), d <= Len(s)
          PROVE  Len(Moved(s, f, d)) = Len(s)
      <4>1. s \in Seq(Shown)
        BY SeqMonotonic DEF Shown
      <4>2. Shows({}, s, s)
        BY <4>1 DEF Shows
      <4>. QED  BY <3>2, <4>2, MovedShows
    <3>3. Len(t) = Len(s)
      BY <3>1, <3>2
    <3>. QED  BY <1>0, <2>1, <3>3
  <2>. QED  BY <1>2, <2>2, <2>3, <2>4
<1>. QED  BY <1>1, <1>2

LEMMA ChangesKeeps ==
  ASSUME Unrenewed, NEW new \in Seq(Value), NEW message \in Messages, Changes(new, message),
         Leads(rows, message, new),
         message.kind \in {"changed", "inserted", "deleted", "moved", "reset"}
  PROVE  Unrenewed'
<1>1. CASE ~(listened /\ proxy.known)
  BY <1>1, ChangesUnheard DEF Changes
<1>2. CASE listened /\ proxy.known
  <2>1. /\ rows' = new /\ inbox' = Append(inbox, message) /\ exported' = exported
        /\ listened' = listened /\ synchronous' = synchronous /\ proxy' = proxy
        /\ history' = history
    BY <1>2 DEF Changes
  <2>2. rows \in Seq(Value) /\ proxy \in Proxies /\ inbox \in Seq(Messages)
    BY DEF Unrenewed
  <2>3. PICK m : Linked(m, inbox, rows) /\ Told(proxy, inbox, history, m[0])
    BY DEF Unrenewed
  <2>4. \E l : Linked(l, Append(inbox, message), new) /\ Told(proxy, Append(inbox, message), history, l[0])
    <3>1. PICK l : Linked(l, Append(inbox, message), new) /\ l[0] = m[0]
      BY <2>2, <2>3, LinkedAppend
    <3>2. Told(proxy, Append(inbox, message), history, m[0])
      BY <2>2, <2>3, ToldAppend
    <3>. QED  BY <3>1, <3>2
  <2>5. /\ \A i, v : Present(rows, i, v) => Present(new, i, v) \/ Clears(message) \/ Brings(message, i)
        /\ \A i : Brings(message, i) => Present(new, i, Brought(message, i))
        /\ \A i \in Nat : i >= Len(rows) => Answers(message, i) \/ i >= Len(new)
    BY <2>2, LeadsOn
  <2>6. CacheOK(proxy, Append(inbox, message), new) /\ BringsOK(Append(inbox, message), new)
    BY <2>2, <2>5, AppendKeeps DEF Unrenewed
  <2>7. AskedOK(proxy, Append(inbox, message), new)
    <3>1. proxy.asked \subseteq Nat
      BY <2>2 DEF Proxies
    <3>. QED  BY <2>2, <2>5, <3>1, AskedAppend DEF Unrenewed
  <2>8. /\ Append(inbox, message) \in Seq(Messages)
        /\ \A k \in 1 .. Len(Append(inbox, message)) :
             (k \in 1 .. Len(inbox) /\ Append(inbox, message)[k] = inbox[k])
               \/ Append(inbox, message)[k] = message
    <3>1. Len(inbox) \in Nat /\ Len(Append(inbox, message)) = Len(inbox) + 1
      BY <2>2, QueueAppend
    <3>2. \A k \in 1 .. Len(inbox) + 1 : k \in 1 .. Len(inbox) \/ k = Len(inbox) + 1
      BY <3>1
    <3>. QED  BY <2>2, <3>1, <3>2, QueueAppend
  <2>9. Stages'
    BY <1>2, <2>1, <2>8 DEF Unrenewed, Stages
  <2>. QED  BY <2>1, <2>2, <2>4, <2>6, <2>7, <2>8, <2>9 DEF Unrenewed
<1>. QED  BY <1>1, <1>2

LEMMA OneItem ==
  ASSUME NEW S, NEW v \in S
  PROVE  <<v>> \in Seq(S) /\ Len(<<v>>) = 1 /\ <<v>>[1] = v
OBVIOUS

LEMMA ServiceStepKeeps ==
  ASSUME Unrenewed, ServiceStep
  PROVE  RInv'
<1>1. rows \in Seq(Value) /\ Len(rows) \in Nat /\ MaxRows \in Nat
  BY LenProperties, ConstantsAssumption DEF Unrenewed
<1>2. Row \subseteq Nat
  BY <1>1 DEF Row
<1>3. ASSUME NEW i \in Row, NEW v \in Value, ChangeRow(i, v)
      PROVE  Unrenewed'
  <2>. DEFINE new == [rows EXCEPT ![i + 1] = v]
              message == [kind |-> "changed", first |-> i, items |-> <<v>>]
  <2>1. Changes(new, message) /\ i \in Nat /\ i < Len(rows)
    BY <1>2, <1>3 DEF ChangeRow
  <2>2. i + 1 \in 1 .. Len(rows)
    BY <1>1, <2>1
  <2>3. new \in Seq(Value)
    BY <1>1, <2>2, ExceptSeq
  <2>4. message \in Messages /\ message.kind = "changed" /\ message.first = i /\ message.items = <<v>>
    BY <2>1, OneItem DEF Messages
  <2>. HIDE DEF message
  <2>5. Leads(rows, message, new)
    BY <2>1, <2>4 DEF Leads
  <2>. HIDE DEF new
  <2>. QED  BY <2>1, <2>3, <2>4, <2>5, ChangesKeeps
<1>4. ASSUME NEW i \in Row, NEW v \in Value, InsertRow(i, v)
      PROVE  Unrenewed'
  <2>. DEFINE new == Inserted(rows, i, <<v>>)
              message == [kind |-> "inserted", first |-> i, last |-> i]
  <2>1. Changes(new, message) /\ i \in Nat /\ i <= Len(rows)
    BY <1>2, <1>4 DEF InsertRow
  <2>2. i \in 0 .. Len(rows) /\ <<v>> \in Seq(Value)
    BY <1>1, <2>1, OneItem
  <2>3. new \in Seq(Value)
    BY <1>1, <2>2, InsertedIs
  <2>4. message \in Messages /\ message.kind = "inserted" /\ message.first = i /\ message.last = i
    BY <2>1 DEF Messages
  <2>. HIDE DEF message
  <2>5. Leads(rows, message, new)
    BY <2>1, <2>4 DEF Leads
  <2>. HIDE DEF new
  <2>. QED  BY <2>1, <2>3, <2>4, <2>5, ChangesKeeps
<1>5. ASSUME NEW i \in Row, NEW j \in Row, DeleteRows(i, j)
      PROVE  Unrenewed'
  <2>. DEFINE new == Deleted(rows, i, j)
              message == [kind |-> "deleted", first |-> i, last |-> j]
  <2>1. Changes(new, message) /\ i \in Nat /\ j \in Nat /\ i <= j /\ j < Len(rows)
    BY <1>2, <1>5 DEF DeleteRows
  <2>2. new \in Seq(Value)
    BY <1>1, <2>1, DeletedIs
  <2>3. message \in Messages /\ message.kind = "deleted" /\ message.first = i /\ message.last = j
    BY <2>1 DEF Messages
  <2>. HIDE DEF message
  <2>4. Leads(rows, message, new)
    BY <2>1, <2>3 DEF Leads
  <2>. HIDE DEF new
  <2>. QED  BY <2>1, <2>2, <2>3, <2>4, ChangesKeeps
<1>6. ASSUME NEW i \in Row, NEW d \in 0 .. MaxRows, MoveRow(i, d)
      PROVE  Unrenewed'
  <2>. DEFINE new == Moved(rows, i, d)
              message == [kind |-> "moved", first |-> i, destination |-> d]
  <2>1. Changes(new, message) /\ i \in Nat /\ d \in Nat /\ i < Len(rows) /\ d <= Len(rows)
    BY <1>1, <1>2, <1>6 DEF MoveRow
  <2>2. new \in Seq(Value)
    <3>1. rows \in Seq(Shown)
      BY <1>1, SeqMonotonic DEF Shown
    <3>2. Shows({}, rows, rows)
      BY <1>1, <3>1 DEF Shows
    <3>3. Shows({}, Moved(rows, i, d), Moved(rows, i, d))
      BY <2>1, <3>2, MovedShows
    <3>. QED  BY <3>3 DEF Shows
  <2>3. message \in Messages /\ message.kind = "moved" /\ message.first = i /\ message.destination = d
    BY <2>1 DEF Messages
  <2>. HIDE DEF message
  <2>4. Leads(rows, message, new)
    BY <2>1, <2>3 DEF Leads
  <2>. HIDE DEF new
  <2>. QED  BY <2>1, <2>2, <2>3, <2>4, ChangesKeeps
<1>7. ASSUME NEW new \in InitialRows, ResetRows(new)
      PROVE  Unrenewed'
  <2>. DEFINE message == [kind |-> "reset", size |-> Len(new)]
  <2>1. Changes(new, message)
    BY <1>7 DEF ResetRows
  <2>2. new \in Seq(Value) /\ Len(new) \in Nat
    BY InitialRowsAreRows, LenProperties
  <2>3. message \in Messages /\ message.kind = "reset" /\ message.size = Len(new)
    BY <2>2 DEF Messages
  <2>. HIDE DEF message
  <2>4. Leads(rows, message, new)
    BY <2>3 DEF Leads
  <2>. QED  BY <2>1, <2>2, <2>3, <2>4, ChangesKeeps
<1>8. ASSUME Export
      PROVE  Unrenewed'
  <2>1. /\ ~exported /\ exported' = TRUE /\ listened' \in BOOLEAN
        /\ inbox' = Append(inbox, AddedMessage)
        /\ rows' = rows /\ synchronous' = synchronous /\ proxy' = proxy /\ history' = history
    BY <1>8 DEF Export, AddedMessage
  <2>2. proxy = InitialProxy /\ inbox = <<>> /\ ~proxy.known
    BY <2>1 DEF Unrenewed, Stages
  <2>3. inbox' = <<AddedMessage>>
    BY <2>1, <2>2
  <2>4. /\ inbox' \in Seq(Messages)
        /\ \E m : Linked(m, inbox', rows) /\ Told(proxy, inbox', history, m[0])
        /\ CacheOK(proxy, inbox', rows) /\ BringsOK(inbox', rows) /\ AskedOK(proxy, inbox', rows)
    <3>1. inbox' \in {<<>>, <<AddedMessage>>} /\ \A n \in 1 .. Len(<<>>) : <<>>[n] = Unread
      BY <2>3
    <3>. QED  BY <1>1, <2>2, <3>1, InitialProxyIs, Fresh
  <2>5. Stages'
    BY <2>1, <2>2, <2>3 DEF Stages
  <2>. QED  BY <2>1, <2>4, <2>5 DEF Unrenewed
<1>9. ASSUME Withdraw
      PROVE  "renewed" \in history'
  BY <1>9 DEF Withdraw
<1>. QED  BY <1>3, <1>4, <1>5, <1>6, <1>7, <1>8, <1>9 DEF ServiceStep, RInv

LEMMA RequestedTail ==
  ASSUME NEW requests \in Seq(Requests), requests # <<>>
  PROVE  \A i : Requested(requests, i) =>
                  \/ Requested(Tail(requests), i)
                  \/ /\ Head(requests).kind = "rows"
                     /\ i \in Head(requests).first .. Head(requests).last
<1>. DEFINE N == Len(requests)
            r == Tail(requests)
<1>1. /\ N \in Nat \ {0} /\ Len(r) = N - 1 /\ Head(requests) = requests[1]
      /\ \A k \in 1 .. N - 1 : r[k] = requests[k + 1]
  BY QueueTail
<1>. HIDE DEF r
<1>2. ASSUME NEW i, Requested(requests, i)
      PROVE  \/ Requested(r, i)
             \/ Head(requests).kind = "rows" /\ i \in Head(requests).first .. Head(requests).last
  <2>1. PICK n \in 1 .. N : requests[n].kind = "rows" /\ i \in requests[n].first .. requests[n].last
    BY <1>2 DEF Requested
  <2>2. CASE n = 1
    BY <1>1, <2>1, <2>2
  <2>3. CASE n # 1
    <3>1. n - 1 \in 1 .. N - 1 /\ (n - 1) + 1 = n
      BY <1>1, <2>3
    <3>2. r[n - 1] = requests[n] /\ n - 1 \in 1 .. Len(r)
      BY <1>1, <3>1
    <3>. QED  BY <2>1, <3>2 DEF Requested
  <2>. QED  BY <2>2, <2>3
<1>. QED  BY <1>2 DEF r

LEMMA HandleRequestKeeps ==
  ASSUME Unrenewed, HandleRequest
  PROVE  Unrenewed'
<1>. DEFINE request == Head(proxy.requests)
            message == IF request.kind = "properties" THEN [kind |-> "snapshot", size |-> Len(rows)]
                       ELSE Served(request.first, request.last)
            queue == Append(inbox, message)
<1>1. /\ rows \in Seq(Value) /\ proxy \in Proxies /\ inbox \in Seq(Messages) /\ Len(rows) \in Nat
      /\ exported \in BOOLEAN /\ listened \in BOOLEAN /\ synchronous \in BOOLEAN
      /\ proxy.requests \in Seq(Requests) /\ proxy.asked \subseteq Nat
  BY LenProperties DEF Unrenewed, Proxies
<1>2. /\ exported /\ proxy.requests # <<>> /\ inbox' = queue
      /\ listened' = (listened \/ request.kind = "properties")
      /\ proxy' = [proxy EXCEPT !.requests = Tail(@)]
      /\ rows' = rows /\ exported' = exported /\ synchronous' = synchronous /\ history' = history
  BY DEF HandleRequest
<1>3. /\ request \in Requests /\ Tail(proxy.requests) \in Seq(Requests)
  BY <1>1, <1>2, QueueTail
<1>4. /\ proxy' \in Proxies /\ proxy'.known = proxy.known /\ proxy'.size = proxy.size
      /\ proxy'.cache = proxy.cache /\ proxy'.asked = proxy.asked
      /\ proxy'.placeholders = proxy.placeholders /\ proxy'.requests = Tail(proxy.requests)
      /\ proxy'.attached = proxy.attached /\ proxy'.view = proxy.view
  BY <1>1, <1>2, <1>3 DEF Proxies
<1>5. proxy.known
  BY <1>2, InitialProxyIs DEF Unrenewed, Stages
<1>6. /\ message \in Messages /\ Leads(rows, message, rows) /\ ~Clears(message)
      /\ message.kind \in {"snapshot", "answer"}
      /\ message.kind = "answer" <=> request.kind = "rows"
      /\ \A i : Brings(message, i) => Present(rows, i, Brought(message, i))
      /\ request.kind = "rows" =>
           \A i \in request.first .. request.last : Answers(message, i) \/ i >= Len(rows)
  <2>1. CASE request.kind = "properties"
    <3>1. message = [kind |-> "snapshot", size |-> Len(rows)]
      BY <2>1
    <3>2. message \in Messages /\ message.kind = "snapshot" /\ message.size = Len(rows)
      <4>. DEFINE snapshot == [kind |-> "snapshot", size |-> Len(rows)]
      <4>1. snapshot \in Messages
        BY <1>1 DEF Messages
      <4>2. snapshot.kind = "snapshot" /\ snapshot.size = Len(rows)
        OBVIOUS
      <4>3. message = snapshot
        BY <3>1
      <4>. HIDE DEF message, snapshot
      <4>. QED  BY <4>1, <4>2, <4>3
    <3>. HIDE DEF message, request
    <3>3. Leads(rows, message, rows) /\ ~Clears(message) /\ \A i : ~Brings(message, i)
      BY <3>2 DEF Leads, Clears, Brings
    <3>. QED  BY <2>1, <3>2, <3>3
  <2>2. CASE request.kind = "rows"
    <3>1. message = Served(request.first, request.last) /\ request.first \in Nat /\ request.last \in Nat
      BY <1>3, <2>2 DEF Requests
    <3>. DEFINE f == request.first
                l == request.last
    <3>2. /\ message.kind = "answer" /\ message.first = f /\ message.items \in Seq(Value)
          /\ \A n \in 1 .. Len(message.items) :
               f + n <= Len(rows) /\ rows[f + n] = message.items[n]
          /\ \A i \in f .. l : i < Len(rows) => i - f + 1 \in 1 .. Len(message.items)
      <4>1. ASSUME NEW a \in Nat, NEW b \in Nat
            PROVE  /\ Served(a, b).kind = "answer" /\ Served(a, b).first = a
                   /\ Served(a, b).items \in Seq(Value)
                   /\ \A n \in 1 .. Len(Served(a, b).items) :
                        a + n <= Len(rows) /\ rows[a + n] = Served(a, b).items[n]
                   /\ \A i \in a .. b : i < Len(rows) => i - a + 1 \in 1 .. Len(Served(a, b).items)
        <5>1. rows \in Seq(Value) /\ b \in Int
          BY <1>1
        <5>. QED  BY <5>1, ServedIs
      <4>2. message = Served(f, l) /\ f \in Nat /\ l \in Nat
        BY <3>1
      <4>. HIDE DEF message, f, l
      <4>. QED  BY <4>1, <4>2
    <3>3. message \in Messages
      <4>1. message = [kind |-> "answer", first |-> f, items |-> message.items]
        BY <3>1, <3>2 DEF Served
      <4>2. [kind |-> "answer", first |-> f, items |-> message.items] \in Messages
        BY <3>1, <3>2 DEF Messages
      <4>. QED  BY <4>1, <4>2
    <3>4. Len(message.items) \in Nat
      BY <3>2, LenProperties
    <3>. HIDE DEF message
    <3>5. Leads(rows, message, rows) /\ ~Clears(message)
      BY <3>2 DEF Leads, Clears
    <3>6. ASSUME NEW i, Brings(message, i)
          PROVE  Present(rows, i, Brought(message, i))
      <4>1. i - f + 1 \in 1 .. Len(message.items) /\ i \in Nat /\ f + (i - f + 1) = i + 1
        <5>1. i \in f .. f + Len(message.items) - 1 /\ f \in Nat
          BY <3>1, <3>2, <3>6 DEF Brings
        <5>. HIDE DEF f
        <5>. QED  BY <3>4, <5>1
      <4>2. i + 1 <= Len(rows) /\ rows[i + 1] = message.items[i - f + 1]
        BY <3>2, <4>1
      <4>. QED  BY <1>1, <3>2, <4>1, <4>2 DEF Present, Brought
    <3>7. ASSUME NEW i \in f .. l
          PROVE  Answers(message, i) \/ i >= Len(rows)
      <4>1. CASE i < Len(rows)
        <5>1. i - f + 1 \in 1 .. Len(message.items)
          BY <3>2, <4>1
        <5>2. i \in f .. f + Len(message.items) - 1
          BY <3>1, <3>4, <5>1
        <5>. QED  BY <3>2, <5>2 DEF Answers, Brings
      <4>2. CASE ~(i < Len(rows))
        BY <1>1, <3>1, <4>2
      <4>. QED  BY <4>1, <4>2
    <3>. QED  BY <2>2, <3>2, <3>3, <3>5, <3>6, <3>7
  <2>. QED  BY <1>3, <2>1, <2>2 DEF Requests
<1>. HIDE DEF message, request
<1>7. \E m : Linked(m, queue, rows) /\ Told(proxy', queue, history, m[0])
  <2>1. PICK m : Linked(m, inbox, rows) /\ Told(proxy, inbox, history, m[0])
    BY DEF Unrenewed
  <2>2. PICK l : Linked(l, queue, rows) /\ l[0] = m[0]
    BY <1>1, <1>6, <2>1, LinkedAppend
  <2>3. Told(proxy', queue, history, m[0])
    BY <1>1, <1>4, <1>6, <2>1, ToldAppend
  <2>. QED  BY <2>2, <2>3
<1>8. CacheOK(proxy', queue, rows) /\ BringsOK(queue, rows)
  BY <1>1, <1>4, <1>6, AppendKeeps DEF Unrenewed
<1>9. AskedOK(proxy', queue, rows)
  <2>1. ASSUME NEW i, Requested(proxy.requests, i)
        PROVE  Requested(proxy'.requests, i) \/ Answers(message, i) \/ i >= Len(rows)
    <3>1. \/ Requested(Tail(proxy.requests), i)
          \/ request.kind = "rows" /\ i \in request.first .. request.last
      BY <1>1, <1>2, <2>1, RequestedTail DEF request
    <3>. QED  BY <1>4, <1>6, <3>1
  <2>. QED  BY <1>1, <1>4, <1>6, <2>1, AskedAppend DEF Unrenewed
<1>10. /\ queue \in Seq(Messages)
       /\ \A k \in 1 .. Len(queue) : (k \in 1 .. Len(inbox) /\ queue[k] = inbox[k]) \/ queue[k] = message
  <2>1. Len(inbox) \in Nat /\ Len(queue) = Len(inbox) + 1
    BY <1>1, <1>6, QueueAppend
  <2>2. \A k \in 1 .. Len(inbox) + 1 : k \in 1 .. Len(inbox) \/ k = Len(inbox) + 1
    BY <2>1
  <2>. QED  BY <1>1, <1>6, <2>1, <2>2, QueueAppend
<1>. HIDE DEF queue
<1>11. Stages'
  <2>1. ~listened \/ ~proxy.attached => request.kind = "properties" /\ proxy'.requests = <<>>
    <3>1. ~listened \/ ~proxy.attached => proxy.requests = <<PropertiesRequest>>
      BY <1>2, <1>5 DEF Unrenewed, Stages
    <3>2. /\ Head(<<PropertiesRequest>>) = PropertiesRequest
          /\ Tail(<<PropertiesRequest>>) = <<>>
          /\ PropertiesRequest.kind = "properties"
      BY DEF PropertiesRequest
    <3>3. request = Head(proxy.requests) /\ proxy'.requests = Tail(proxy.requests)
      BY <1>4 DEF request
    <3>. QED  BY <3>1, <3>2, <3>3
  <2>2. listened'
    BY <1>2, <2>1
  <2>3. \A k \in 1 .. Len(queue) : queue[k].kind # "added"
    BY <1>5, <1>6, <1>10 DEF Unrenewed, Stages
  <2>4. ~proxy.attached => \A k \in 1 .. Len(queue) : queue[k].kind # "answer"
    BY <1>5, <1>6, <1>10, <2>1 DEF Unrenewed, Stages
  <2>. QED  BY <1>2, <1>4, <1>5, <2>1, <2>2, <2>3, <2>4 DEF Unrenewed, Stages
<1>12. listened' \in BOOLEAN
  BY <1>2
<1>. QED  BY <1>1, <1>2, <1>4, <1>7, <1>8, <1>9, <1>10, <1>11, <1>12 DEF Unrenewed

\* The bus refuses requests to a service that is not exported; the proxy has
\* made none then.
LEMMA RefuseRequestKeeps ==
  ASSUME Unrenewed, RefuseRequest
  PROVE  FALSE
BY InitialProxyIs DEF Unrenewed, Stages, RefuseRequest

-----------------------------------------------------------------------------
(***************************************************************************)
(* The steps of the client.                                                *)
(***************************************************************************)
LEMMA HeadIs ==
  ASSUME Unrenewed, inbox # <<>>, Head(inbox).kind # "added"
  PROVE  /\ proxy.known /\ exported /\ listened
         /\ Head(inbox) \in Messages /\ Tail(inbox) \in Seq(Messages)
         /\ ~proxy.attached => Head(inbox).kind # "answer"
<1>1. Head(inbox) \in Messages /\ Tail(inbox) \in Seq(Messages) /\ Head(inbox) = inbox[1]
      /\ 1 \in 1 .. Len(inbox)
  BY QueueTail DEF Unrenewed
<1>2. proxy.known
  <2>1. Head(<<AddedMessage>>) = AddedMessage /\ AddedMessage.kind = "added"
    BY DEF AddedMessage
  <2>. QED  BY <2>1 DEF Unrenewed, Stages
<1>. QED  BY <1>1, <1>2 DEF Unrenewed, Stages

\* A message is delivered, and the proxy becomes q.
LEMMA DeliveredKeeps ==
  ASSUME Unrenewed, inbox # <<>>, Head(inbox).kind # "added", inbox' = Tail(inbox),
         UNCHANGED <<rows, exported, listened, synchronous>>,
         NEW q \in Proxies, proxy' = q, q.known = proxy.known,
         proxy.attached => q.attached,
         synchronous => q.placeholders = {},
         ~q.attached => /\ q.view = <<>> /\ q.asked = {} /\ q.placeholders = {}
                        /\ q.requests = proxy.requests,
         \A i : Requested(proxy.requests, i) => Requested(q.requests, i),
         \A i \in q.asked : \/ Requested(q.requests, i)
                            \/ i \in proxy.asked /\ ~Answers(Head(inbox), i),
         \A i \in DOMAIN q.cache.items :
           \/ /\ i \in DOMAIN proxy.cache.items /\ q.cache.items[i] = proxy.cache.items[i]
              /\ ~Clears(Head(inbox)) /\ ~Brings(Head(inbox), i)
           \/ Brings(Head(inbox), i) /\ q.cache.items[i] = Brought(Head(inbox), i),
         \A s \in Seq(Value), t \in Seq(Value) :
           Told(proxy, inbox, history, s) /\ Leads(s, Head(inbox), t)
             => Told(q, Tail(inbox), history', t)
  PROVE  Unrenewed'
<1>1. /\ inbox \in Seq(Messages) /\ Tail(inbox) \in Seq(Messages)
      /\ proxy.known /\ exported /\ listened
  BY HeadIs DEF Unrenewed
<1>2. \E m : Linked(m, inbox', rows) /\ Told(proxy', inbox', history', m[0])
  <2>1. PICK m : Linked(m, inbox, rows) /\ Told(proxy, inbox, history, m[0])
    BY DEF Unrenewed
  <2>2. PICK l : /\ Linked(l, Tail(inbox), rows) /\ l[0] \in Seq(Value)
                 /\ m[0] \in Seq(Value) /\ Leads(m[0], Head(inbox), l[0])
    BY <1>1, <2>1, LinkedTail
  <2>3. Told(q, Tail(inbox), history', l[0])
    BY <2>1, <2>2
  <2>. QED  BY <2>2, <2>3
<1>3. CacheOK(proxy', inbox', rows) /\ BringsOK(inbox', rows)
  BY <1>1, TailKeeps DEF Unrenewed
<1>4. AskedOK(proxy', inbox', rows)
  BY <1>1, AskedTail DEF Unrenewed
<1>5. Stages'
  <2>1. \A k \in 1 .. Len(Tail(inbox)) : k + 1 \in 1 .. Len(inbox) /\ Tail(inbox)[k] = inbox[k + 1]
    BY <1>1, QueueTail
  <2>2. \A k \in 1 .. Len(inbox) : inbox[k].kind # "added"
    BY <1>1 DEF Unrenewed, Stages
  <2>3. ~proxy.attached => /\ proxy.requests \in {<<>>, <<PropertiesRequest>>}
                           /\ \A k \in 1 .. Len(inbox) : inbox[k].kind # "answer"
    BY <1>1 DEF Unrenewed, Stages
  <2>4. synchronous => proxy.attached
    BY <1>1 DEF Unrenewed, Stages
  <2>. QED  BY <1>1, <2>1, <2>2, <2>3, <2>4 DEF Stages
<1>. QED  BY <1>1, <1>2, <1>3, <1>4, <1>5 DEF Unrenewed

\* What was told to the proxy, by the message that is delivered.
LEMMA ToldTail ==
  ASSUME Unrenewed, inbox # <<>>, NEW h, NEW s, Told(proxy, inbox, h, s), "overtaken" \notin h,
         Head(inbox).kind # "changed"
  PROVE  /\ \A n \in 1 .. Len(proxy.view) :
              \/ proxy.view[n] \in {Placeholder, Unread, s[n]}
              \/ ~Clears(Head(inbox)) /\ ChangePending(Tail(inbox), n - 1)
         /\ \A i \in DOMAIN proxy.cache.items : i < Len(s) =>
              \/ proxy.cache.items[i] = s[i + 1]
              \/ ~Clears(Head(inbox)) /\ ChangePending(Tail(inbox), i)
<1>1. ASSUME NEW i, ChangePending(inbox, i)
      PROVE  ~Clears(Head(inbox)) /\ ChangePending(Tail(inbox), i)
  BY <1>1, PendingTail DEF Unrenewed
<1>. QED  BY <1>1 DEF Told

LEMMA AllUnread ==
  ASSUME NEW size \in Nat
  PROVE  /\ [n \in 1 .. size |-> Unread] \in Seq(Shown)
         /\ Len([n \in 1 .. size |-> Unread]) = size
         /\ \A n \in 1 .. size : [k \in 1 .. size |-> Unread][n] = Unread
BY SeqDef DEF Shown

LEMMA ResetIs ==
  ASSUME NEW p \in Proxies, NEW size \in Nat
  PROVE  LET q == Reset(p, size)
         IN  /\ q \in Proxies /\ q.known = p.known /\ q.size = size /\ q.cache = p.cache
             /\ q.asked = p.asked /\ q.placeholders = p.placeholders
             /\ q.requests = p.requests /\ q.attached
             /\ Len(q.view) = size /\ \A n \in 1 .. size : q.view[n] = Unread
<1>. DEFINE view == [n \in 1 .. size |-> Unread]
<1>1. /\ view \in Seq(Shown) /\ Len(view) = size /\ \A n \in 1 .. size : view[n] = Unread
  BY AllUnread
<1>2. Reset(p, size) = [p EXCEPT !.size = size, !.attached = TRUE, !.view = view]
  BY DEF Reset
<1>. HIDE DEF view
<1>. DEFINE q == Reset(p, size)
<1>3. /\ q.known = p.known /\ q.size = size /\ q.cache = p.cache
      /\ q.asked = p.asked /\ q.placeholders = p.placeholders
      /\ q.requests = p.requests /\ q.attached = TRUE /\ q.view = view
  BY <1>2 DEF Proxies
<1>4. q \in Proxies
  <2>1. [p EXCEPT !.size = size] \in Proxies
    BY DEF Proxies
  <2>2. [[p EXCEPT !.size = size] EXCEPT !.attached = TRUE] \in Proxies
    BY <2>1 DEF Proxies
  <2>3. [[[p EXCEPT !.size = size] EXCEPT !.attached = TRUE] EXCEPT !.view = view] \in Proxies
    BY <1>1, <2>2 DEF Proxies
  <2>. QED  BY <1>2, <2>3
<1>. HIDE DEF q
<1>5. Len(q.view) = size /\ \A n \in 1 .. size : q.view[n] = Unread
  BY <1>1, <1>3
<1>. QED  BY <1>3, <1>4, <1>5 DEF q

LEMMA OnSnapshotKeeps ==
  ASSUME Unrenewed, OnSnapshot
  PROVE  Unrenewed'
<1>. DEFINE head == Head(inbox)
            q == Reset(proxy, head.size)
<1>1. /\ inbox # <<>> /\ head.kind = "snapshot" /\ inbox' = Tail(inbox) /\ proxy' = q
      /\ history' = history \ {"shuffled"}
      /\ UNCHANGED <<rows, exported, listened, synchronous>>
  BY DEF OnSnapshot, Delivers
<1>2. /\ proxy.known /\ head \in Messages /\ proxy \in Proxies
      /\ synchronous => proxy.placeholders = {}
  BY <1>1, HeadIs DEF Unrenewed, Stages
<1>3. head.size \in Nat
  BY <1>1, <1>2 DEF Messages
<1>4. /\ q \in Proxies /\ q.known = proxy.known /\ q.size = head.size /\ q.cache = proxy.cache
      /\ q.asked = proxy.asked /\ q.placeholders = proxy.placeholders
      /\ q.requests = proxy.requests /\ q.attached
      /\ Len(q.view) = head.size /\ \A n \in 1 .. head.size : q.view[n] = Unread
  BY <1>2, <1>3, ResetIs
<1>. HIDE DEF q, head
<1>5. ~Clears(head) /\ \A i : ~Brings(head, i) /\ ~Answers(head, i)
  BY <1>1 DEF Clears, Brings, Answers
<1>6. ASSUME NEW s \in Seq(Value), NEW t \in Seq(Value),
             Told(proxy, inbox, history, s), Leads(s, head, t)
      PROVE  Told(q, Tail(inbox), history', t)
  <2>1. t = s /\ head.size = Len(s)
    BY <1>1, <1>6 DEF Leads
  <2>2. ASSUME "overtaken" \notin history'
        PROVE  \A i \in DOMAIN q.cache.items : i < Len(t) =>
                 q.cache.items[i] = t[i + 1] \/ ChangePending(Tail(inbox), i)
    <3>1. "overtaken" \notin history
      BY <1>1, <2>2
    <3>. QED  BY <1>1, <1>4, <1>6, <2>1, <3>1, ToldTail DEF head
  <2>. QED  BY <1>4, <2>1, <2>2 DEF Told
<1>. QED  BY <1>1, <1>2, <1>4, <1>5, <1>6, DeliveredKeeps DEF head

LEMMA OnAnswerKeeps ==
  ASSUME Unrenewed, OnAnswer
  PROVE  Unrenewed'
<1>. DEFINE head == Head(inbox)
            first == head.first
            items == head.items
            q == TakeAnswer(proxy, first, items)
<1>1. /\ inbox # <<>> /\ head.kind = "answer" /\ inbox' = Tail(inbox) /\ proxy' = q
      /\ history' = history /\ UNCHANGED <<rows, exported, listened, synchronous>>
  BY DEF OnAnswer, Delivers
<1>2. /\ proxy.known /\ head \in Messages /\ proxy \in Proxies /\ proxy.attached
      /\ synchronous => proxy.placeholders = {}
      /\ rows \in Seq(Value) /\ synchronous \in BOOLEAN
  BY <1>1, HeadIs DEF Unrenewed, Stages
<1>3. first \in Nat /\ items \in Seq(Value)
  BY <1>1, <1>2 DEF Messages
<1>4. proxy.size = Len(proxy.view)
  BY <1>2 DEF Unrenewed, Told
<1>. HIDE DEF head, first, items
<1>5. q \in Taking(proxy, first, items, Len(items))
  BY <1>2, <1>3, <1>4, TakeAnswerTakes
<1>. HIDE DEF q
<1>6. Len(items) \in Nat
  BY <1>3, LenProperties
<1>7. /\ ~Clears(head)
      /\ \A i : Brings(head, i) <=> i \in first .. first + Len(items) - 1
      /\ \A i : Answers(head, i) <=> i \in first .. first + Len(items) - 1
      /\ \A i : Brought(head, i) = items[i - first + 1]
  BY <1>1 DEF Clears, Brings, Answers, Brought, first, items
<1>8. /\ q \in Proxies /\ q.known = proxy.known /\ q.size = proxy.size /\ q.attached
      /\ \A i \in DOMAIN q.cache.items :
           IF i \in first .. first + Len(items) - 1
           THEN q.cache.items[i] = items[i - first + 1]
           ELSE i \in DOMAIN proxy.cache.items /\ q.cache.items[i] = proxy.cache.items[i]
      /\ q.placeholders \subseteq proxy.placeholders
      /\ \A i : Requested(proxy.requests, i) => Requested(q.requests, i)
      /\ \A i \in q.asked : \/ Requested(q.requests, i)
                            \/ i \in proxy.asked /\ i \notin first .. first + Len(items) - 1
      /\ Len(q.view) = Len(proxy.view)
      /\ \A m \in 1 .. Len(proxy.view) :
           \/ q.view[m] = proxy.view[m]
           \/ m - 1 \in first .. first + Len(items) - 1 /\ q.view[m] = items[m - first]
  BY <1>2, <1>5 DEF Taking
<1>9. ASSUME NEW s \in Seq(Value), NEW t \in Seq(Value),
             Told(proxy, inbox, history, s), Leads(s, head, t)
      PROVE  Told(q, Tail(inbox), history', t)
  <2>1. t = s /\ \A n \in 1 .. Len(items) : first + n <= Len(s) /\ s[first + n] = items[n]
    BY <1>1, <1>9 DEF Leads, first, items
  <2>2. ASSUME "overtaken" \notin history
        PROVE  /\ \A n \in 1 .. Len(q.view) :
                    q.view[n] \in {Placeholder, Unread, s[n]} \/ ChangePending(Tail(inbox), n - 1)
               /\ \A i \in DOMAIN q.cache.items :
                    i < Len(s) => q.cache.items[i] = s[i + 1] \/ ChangePending(Tail(inbox), i)
    <3>1. /\ \A n \in 1 .. Len(proxy.view) :
               proxy.view[n] \in {Placeholder, Unread, s[n]} \/ ChangePending(Tail(inbox), n - 1)
          /\ \A i \in DOMAIN proxy.cache.items :
               i < Len(s) => proxy.cache.items[i] = s[i + 1] \/ ChangePending(Tail(inbox), i)
      BY <1>1, <1>9, <2>2, ToldTail DEF head
    <3>2. ASSUME NEW i \in first .. first + Len(items) - 1
          PROVE  /\ items[i - first + 1] = s[i + 1]
                 /\ (i + 1) - first = i - first + 1
      <4>1. i - first + 1 \in 1 .. Len(items) /\ first + (i - first + 1) = i + 1
        BY <1>3, <1>6
      <4>2. (i + 1) - first = i - first + 1
        BY <1>3
      <4>. QED  BY <2>1, <4>1, <4>2
    <3>3. ASSUME NEW n \in 1 .. Len(proxy.view)
          PROVE  q.view[n] \in {Placeholder, Unread, s[n]} \/ ChangePending(Tail(inbox), n - 1)
      <4>1. CASE q.view[n] = proxy.view[n]
        BY <3>1, <4>1
      <4>2. CASE n - 1 \in first .. first + Len(items) - 1 /\ q.view[n] = items[n - first]
        <5>1. (n - 1) + 1 = n
          OBVIOUS
        <5>2. items[(n - 1) - first + 1] = s[n] /\ n - first = (n - 1) - first + 1
          BY <3>2, <4>2, <5>1
        <5>. QED  BY <4>2, <5>2
      <4>. QED  BY <1>8, <4>1, <4>2
    <3>4. ASSUME NEW i \in DOMAIN q.cache.items, i < Len(s)
          PROVE  q.cache.items[i] = s[i + 1] \/ ChangePending(Tail(inbox), i)
      BY <1>8, <3>1, <3>2, <3>4
    <3>. QED  BY <1>8, <3>3, <3>4
  <2>. QED  BY <1>1, <1>2, <1>8, <1>9, <2>1, <2>2 DEF Told
<1>10. \A i \in DOMAIN q.cache.items :
         \/ /\ i \in DOMAIN proxy.cache.items /\ q.cache.items[i] = proxy.cache.items[i]
            /\ ~Clears(head) /\ ~Brings(head, i)
         \/ Brings(head, i) /\ q.cache.items[i] = Brought(head, i)
  BY <1>7, <1>8
<1>11. \A i \in q.asked : Requested(q.requests, i) \/ (i \in proxy.asked /\ ~Answers(head, i))
  BY <1>7, <1>8
<1>12. synchronous => q.placeholders = {}
  BY <1>2, <1>8
<1>. HIDE DEF Taking
<1>. QED  BY <1>1, <1>8, <1>9, <1>10, <1>11, <1>12, DeliveredKeeps DEF head

LEMMA OnChangedKeeps ==
  ASSUME Unrenewed, OnChanged
  PROVE  Unrenewed'
<1>. DEFINE head == Head(inbox)
            first == head.first
            items == head.items
<1>1. /\ inbox # <<>> /\ head.kind = "changed" /\ inbox' = Tail(inbox)
      /\ proxy' = DataChanged(InsertItems(proxy, first, items), first, first + Len(items) - 1)
      /\ history' = history /\ UNCHANGED <<rows, exported, listened, synchronous>>
  BY DEF OnChanged, Delivers
<1>2. /\ proxy.known /\ head \in Messages /\ proxy \in Proxies /\ proxy.cache \in Caches
      /\ synchronous => proxy.attached /\ proxy.placeholders = {}
      /\ ~proxy.attached => /\ proxy.view = <<>> /\ proxy.asked = {} /\ proxy.placeholders = {}
      /\ rows \in Seq(Value) /\ synchronous \in BOOLEAN
  BY <1>1, HeadIs DEF Unrenewed, Stages, Proxies
<1>3. first \in Nat /\ items \in Seq(Value)
  BY <1>1, <1>2 DEF Messages
<1>4. \E v \in Value : items = <<v>>
  <2>1. PICK m : Linked(m, inbox, rows)
    BY DEF Unrenewed
  <2>2. PICK l : Leads(m[0], head, l[0])
    BY <1>1, <2>1, LinkedTail DEF Unrenewed
  <2>. QED  BY <1>1, <2>2 DEF Leads
<1>5. PICK v \in Value : items = <<v>>
  BY <1>4
<1>6. Len(items) = 1 /\ items[1] = v
  BY <1>5
<1>7. proxy.view # <<>> => proxy.size = Len(proxy.view)
  BY <1>2 DEF Unrenewed, Told
<1>. HIDE DEF head, first, items
<1>8. PICK c \in Holding(proxy.cache, first, items, Len(items)) :
        InsertItems(proxy, first, items) = [proxy EXCEPT !.cache = c]
  BY <1>2, <1>3, InsertItemsIs
<1>9. /\ c \in Caches /\ first \in DOMAIN c.items
      /\ \A i \in DOMAIN c.items :
           IF i = first THEN c.items[i] = v
           ELSE i \in DOMAIN proxy.cache.items /\ c.items[i] = proxy.cache.items[i]
  <2>1. first .. first + 1 - 1 = {first} /\ first - first + 1 = 1
    BY <1>3
  <2>. QED  BY <1>6, <1>8, <2>1 DEF Holding
<1>. DEFINE p == [proxy EXCEPT !.cache = c]
            q == DataChanged(p, first, first)
<1>10. /\ p \in Proxies /\ p.known = proxy.known /\ p.size = proxy.size /\ p.cache = c
       /\ p.asked = proxy.asked /\ p.placeholders = proxy.placeholders
       /\ p.requests = proxy.requests /\ p.attached = proxy.attached /\ p.view = proxy.view
  BY <1>2, <1>9 DEF Proxies
<1>11. proxy' = q
  <2>1. first + Len(items) - 1 = first
    BY <1>3, <1>6
  <2>. QED  BY <1>1, <1>8, <2>1
<1>. HIDE DEF p
<1>12. Refreshes(p, first, q)
  BY <1>2, <1>3, <1>7, <1>9, <1>10, DataChangedRefreshes
<1>. HIDE DEF q
<1>13. /\ ~Clears(head)
       /\ \A i : Brings(head, i) <=> i = first
       /\ \A i : ~Answers(head, i)
       /\ Brought(head, first) = v
  <2>1. first .. first + 1 - 1 = {first} /\ first - first + 1 = 1
    BY <1>3
  <2>. QED  BY <1>1, <1>6, <2>1 DEF Clears, Brings, Answers, Brought, first, items
<1>14. /\ q \in Proxies /\ q.known = proxy.known /\ q.size = proxy.size
       /\ q.attached = proxy.attached
       /\ q.cache.items = c.items /\ q.placeholders = proxy.placeholders
       /\ \A i : Requested(proxy.requests, i) => Requested(q.requests, i)
       /\ \A i \in q.asked : i \in proxy.asked \/ Requested(q.requests, i)
       /\ Len(q.view) = Len(proxy.view)
       /\ \A n \in 1 .. Len(proxy.view) :
            q.view[n] = IF n = first + 1 /\ proxy.view[n] # Unread THEN c.items[first]
                        ELSE proxy.view[n]
       /\ proxy.view = <<>> => q = p
  BY <1>10, <1>12 DEF Refreshes
<1>15. ASSUME NEW s \in Seq(Value), NEW t \in Seq(Value),
              Told(proxy, inbox, history, s), Leads(s, head, t)
       PROVE  Told(q, Tail(inbox), history', t)
  <2>1. first < Len(s) /\ t = [s EXCEPT ![first + 1] = v] /\ Len(s) \in Nat
    <3>1. PICK w \in Value : items = <<w>> /\ t = [s EXCEPT ![first + 1] = w] /\ first < Len(s)
      BY <1>1, <1>15 DEF Leads, first, items
    <3>. QED  BY <1>6, <3>1, LenProperties
  <2>2. Len(t) = Len(s) /\ \A n \in 1 .. Len(s) : t[n] = IF n = first + 1 THEN v ELSE s[n]
    <3>1. PICK n : n = first + 1
      OBVIOUS
    <3>2. n \in 1 .. Len(s) /\ t = [s EXCEPT ![n] = v]
      BY <1>3, <2>1, <3>1
    <3>. QED  BY <3>1, <3>2, ExceptSeq
  <2>3. ASSUME NEW i, ChangePending(inbox, i), i # first
        PROVE  ChangePending(Tail(inbox), i)
    BY <1>1, <2>3, PendingTail DEF Unrenewed, head, first
  <2>4. ASSUME "overtaken" \notin history
        PROVE  /\ \A n \in 1 .. Len(q.view) :
                    q.view[n] \in {Placeholder, Unread, t[n]} \/ ChangePending(Tail(inbox), n - 1)
               /\ \A i \in DOMAIN q.cache.items :
                    i < Len(t) => q.cache.items[i] = t[i + 1] \/ ChangePending(Tail(inbox), i)
    <3>1. /\ \A n \in 1 .. Len(proxy.view) :
               proxy.view[n] \in {Placeholder, Unread, s[n]} \/ ChangePending(inbox, n - 1)
          /\ \A i \in DOMAIN proxy.cache.items :
               i < Len(s) => proxy.cache.items[i] = s[i + 1] \/ ChangePending(inbox, i)
          /\ Len(proxy.view) = Len(s) \/ Len(proxy.view) = 0
      BY <1>2, <1>15, <2>4 DEF Told
    <3>2. ASSUME NEW n \in 1 .. Len(q.view)
          PROVE  q.view[n] \in {Placeholder, Unread, t[n]} \/ ChangePending(Tail(inbox), n - 1)
      <4>1. n \in 1 .. Len(proxy.view) /\ n \in 1 .. Len(s) /\ (n - 1 = first <=> n = first + 1)
        BY <1>3, <1>14, <2>1, <3>1
      <4>2. CASE n = first + 1
        BY <1>9, <1>14, <2>2, <4>1, <4>2
      <4>3. CASE n # first + 1
        <5>1. q.view[n] = proxy.view[n] /\ t[n] = s[n]
          BY <1>14, <2>2, <4>1, <4>3
        <5>2. ChangePending(inbox, n - 1) => ChangePending(Tail(inbox), n - 1)
          BY <2>3, <4>1, <4>3
        <5>. QED  BY <3>1, <4>1, <5>1, <5>2
      <4>. QED  BY <4>2, <4>3
    <3>3. ASSUME NEW i \in DOMAIN q.cache.items, i < Len(t)
          PROVE  q.cache.items[i] = t[i + 1] \/ ChangePending(Tail(inbox), i)
      <4>1. i \in Nat /\ i + 1 \in 1 .. Len(s) /\ (i = first <=> i + 1 = first + 1)
        <5>1. i \in Nat
          BY <1>9, <1>14, CacheItems
        <5>. QED  BY <1>3, <2>1, <2>2, <3>3, <5>1
      <4>2. CASE i = first
        BY <1>9, <1>14, <2>2, <4>1, <4>2
      <4>3. CASE i # first
        <5>1. i \in DOMAIN proxy.cache.items /\ q.cache.items[i] = proxy.cache.items[i]
          BY <1>9, <1>14, <4>3
        <5>. QED  BY <2>2, <2>3, <3>1, <3>3, <4>1, <4>3, <5>1
      <4>. QED  BY <4>2, <4>3
    <3>. QED  BY <3>2, <3>3
  <2>. QED  BY <1>1, <1>14, <1>15, <2>2, <2>4 DEF Told
<1>16. \A i \in DOMAIN q.cache.items :
         \/ /\ i \in DOMAIN proxy.cache.items /\ q.cache.items[i] = proxy.cache.items[i]
            /\ ~Clears(head) /\ ~Brings(head, i)
         \/ Brings(head, i) /\ q.cache.items[i] = Brought(head, i)
  BY <1>9, <1>13, <1>14
<1>17. \A i \in q.asked : Requested(q.requests, i) \/ (i \in proxy.asked /\ ~Answers(head, i))
  BY <1>13, <1>14
<1>18. ~q.attached => /\ q.view = <<>> /\ q.asked = {} /\ q.placeholders = {}
                      /\ q.requests = proxy.requests
  BY <1>2, <1>10, <1>14
<1>19. synchronous => q.placeholders = {}
  BY <1>2, <1>14
<1>20. /\ inbox # <<>> /\ head.kind # "added" /\ inbox' = Tail(inbox)
       /\ UNCHANGED <<rows, exported, listened, synchronous>>
  BY <1>1
<1>21. /\ q \in Proxies /\ proxy' = q /\ q.known = proxy.known /\ (proxy.attached => q.attached)
       /\ \A i : Requested(proxy.requests, i) => Requested(q.requests, i)
  BY <1>11, <1>14
<1>. QED  BY <1>15, <1>16, <1>17, <1>18, <1>19, <1>20, <1>21, DeliveredKeeps DEF head

\* A message is delivered that makes the proxy empty its cache.
LEMMA ClearedKeeps ==
  ASSUME Unrenewed, inbox # <<>>, Clears(Head(inbox)), inbox' = Tail(inbox),
         UNCHANGED <<rows, exported, listened, synchronous>>,
         NEW q \in Proxies, proxy' = q, q.known = proxy.known, q.attached = proxy.attached,
         q.cache = EmptyCache, q.requests = proxy.requests,
         q.asked \subseteq proxy.asked, q.placeholders \subseteq proxy.placeholders,
         Head(inbox).kind \in {"inserted", "reset"} => q.asked = {},
         ~proxy.attached => q.view = <<>>,
         \A s \in Seq(Value), t \in Seq(Value) :
           /\ proxy.attached /\ proxy.size = Len(s) /\ Shows(history, proxy.view, s)
           /\ Leads(s, Head(inbox), t)
           => q.size = Len(t) /\ Shows(history', q.view, t)
  PROVE  Unrenewed'
<1>. DEFINE head == Head(inbox)
<1>1. /\ head.kind # "added" /\ \A i : ~Brings(head, i)
      /\ \A i : Answers(head, i) => head.kind \in {"inserted", "reset"}
  BY DEF Clears, Brings, Answers
<1>2. /\ synchronous => q.placeholders = {}
      /\ ~q.attached => q.view = <<>> /\ q.asked = {} /\ q.placeholders = {}
      /\ proxy \in Proxies
  BY <1>1, HeadIs DEF Unrenewed, Stages
<1>3. DOMAIN q.cache.items = {}
  BY CacheEmpty
<1>4. \A i \in q.asked : i \in proxy.asked /\ ~Answers(head, i)
  BY <1>1
<1>5. ASSUME NEW s \in Seq(Value), NEW t \in Seq(Value),
             Told(proxy, inbox, history, s), Leads(s, head, t)
      PROVE  Told(q, Tail(inbox), history', t)
  <2>1. CASE ~proxy.attached
    <3>1. Len(q.view) = 0
      BY <2>1
    <3>. QED  BY <1>3, <2>1, <3>1 DEF Told
  <2>2. CASE proxy.attached
    <3>1. proxy.view \in Seq(Shown) /\ proxy.size = Len(s) /\ Len(proxy.view) = Len(s)
      BY <1>2, <1>5, <2>2 DEF Proxies, Told
    <3>2. ASSUME "overtaken" \notin history
          PROVE  \A n \in 1 .. Len(proxy.view) : proxy.view[n] \in {Placeholder, Unread, s[n]}
      <4>1. head.kind # "changed"
        BY DEF Clears
      <4>. QED  BY <1>5, <3>2, <4>1, ToldTail
    <3>3. Shows(history, proxy.view, s)
      BY <3>1, <3>2 DEF Shows
    <3>4. q.size = Len(t) /\ Shows(history', q.view, t)
      BY <1>5, <2>2, <3>1, <3>3
    <3>5. /\ Len(q.view) = Len(t)
          /\ "overtaken" \notin history' =>
               \A n \in 1 .. Len(t) : q.view[n] \in {Placeholder, Unread, t[n]}
      BY <3>4 DEF Shows
    <3>. QED  BY <1>3, <3>4, <3>5 DEF Told
  <2>. QED  BY <2>1, <2>2
<1>. HIDE DEF head
<1>6. \A i : Requested(proxy.requests, i) => Requested(q.requests, i)
  OBVIOUS
<1>7. \A i \in q.asked : Requested(q.requests, i) \/ (i \in proxy.asked /\ ~Answers(head, i))
  BY <1>4
<1>. QED  BY <1>1, <1>2, <1>3, <1>5, <1>6, <1>7, DeliveredKeeps DEF head

LEMMA ShowsOn ==
  ASSUME NEW h, NEW k, NEW view, NEW s, Shows(h, view, s), "overtaken" \notin k => "overtaken" \notin h
  PROVE  Shows(k, view, s)
BY DEF Shows

LEMMA ShufflesIs == Shuffles => ("overtaken" \notin history' => "overtaken" \notin history)
BY DEF Shuffles

\* The rows the proxy shows and the rows it is told of next.
LEMMA SomeRows ==
  ASSUME Unrenewed, inbox # <<>>, proxy.attached
  PROVE  \E s \in Seq(Value), t \in Seq(Value) :
           /\ proxy.size = Len(s) /\ Shows({"overtaken"}, proxy.view, s)
           /\ Leads(s, Head(inbox), t)
<1>1. PICK m : Linked(m, inbox, rows) /\ Told(proxy, inbox, history, m[0])
  BY DEF Unrenewed
<1>2. PICK l : m[0] \in Seq(Value) /\ l[0] \in Seq(Value) /\ Leads(m[0], Head(inbox), l[0])
  BY <1>1, LinkedTail DEF Unrenewed
<1>3. /\ proxy.size = Len(m[0]) /\ Len(proxy.view) = Len(m[0]) /\ proxy.view \in Seq(Shown)
  BY <1>1 DEF Told, Unrenewed, Proxies
<1>4. Shows({"overtaken"}, proxy.view, m[0])
  BY <1>2, <1>3 DEF Shows
<1>. QED  BY <1>2, <1>3, <1>4

LEMMA ClearIs ==
  ASSUME NEW p \in Proxies
  PROVE  LET q == Clear(p)
         IN  /\ q \in Proxies /\ q.known = p.known /\ q.size = p.size /\ q.cache = EmptyCache
             /\ q.asked = {} /\ q.placeholders = {} /\ q.requests = p.requests
             /\ q.attached = p.attached /\ q.view = p.view
<1>. DEFINE q == Clear(p)
<1>1. q = [p EXCEPT !.cache = EmptyCache, !.asked = {}, !.placeholders = {}]
  BY DEF Clear
<1>. HIDE DEF q
<1>2. EmptyCache \in Caches
  BY CacheEmpty
<1>3. [p EXCEPT !.cache = EmptyCache] \in Proxies
  BY <1>2 DEF Proxies
<1>4. [[p EXCEPT !.cache = EmptyCache] EXCEPT !.asked = {}] \in Proxies
  BY <1>3 DEF Proxies
<1>5. [[[p EXCEPT !.cache = EmptyCache] EXCEPT !.asked = {}] EXCEPT !.placeholders = {}] \in Proxies
  BY <1>4 DEF Proxies
<1>6. q \in Proxies
  BY <1>1, <1>5
<1>7. /\ q.known = p.known /\ q.size = p.size /\ q.cache = EmptyCache
      /\ q.asked = {} /\ q.placeholders = {} /\ q.requests = p.requests
      /\ q.attached = p.attached /\ q.view = p.view
  BY <1>1 DEF Proxies
<1>. QED  BY <1>6, <1>7 DEF q

LEMMA OnInsertedKeeps ==
  ASSUME Unrenewed, OnInserted
  PROVE  Unrenewed'
<1>. DEFINE head == Head(inbox)
            first == head.first
            new == [n \in 1 .. head.last - first + 1 |-> Unread]
            view == IF proxy.attached THEN Inserted(proxy.view, first, new) ELSE proxy.view
            p == [proxy EXCEPT !.size = @ + Len(new), !.view = view]
            q == Clear(p)
<1>1. /\ inbox # <<>> /\ head.kind = "inserted" /\ inbox' = Tail(inbox) /\ proxy' = q
      /\ Shuffles /\ UNCHANGED <<rows, exported, listened, synchronous>>
  BY DEF OnInserted, Delivers, ViewOf
<1>2. /\ proxy.known /\ head \in Messages /\ proxy \in Proxies
      /\ ~proxy.attached => proxy.view = <<>>
  <2>1. head.kind # "added"
    BY <1>1
  <2>. QED  BY <1>1, <2>1, HeadIs DEF Unrenewed, Stages
<1>3. first \in Nat /\ head.last \in Nat
  BY <1>1, <1>2 DEF Messages
<1>4. head.last = first
  <2>1. PICK m : Linked(m, inbox, rows)
    BY DEF Unrenewed
  <2>2. PICK l : Leads(m[0], head, l[0])
    BY <1>1, <2>1, LinkedTail DEF Unrenewed
  <2>. QED  BY <1>1, <2>2 DEF Leads
<1>5. Len(new) = 1 /\ new \in Seq(Shown) /\ new[1] = Unread
  <2>1. head.last - first + 1 = 1
    BY <1>3, <1>4
  <2>. HIDE DEF first, head
  <2>2. new = [n \in 1 .. 1 |-> Unread]
    BY <2>1
  <2>. HIDE DEF new
  <2>3. 1 \in Nat /\ 1 \in 1 .. 1
    OBVIOUS
  <2>. QED  BY <2>2, <2>3, AllUnread
<1>. HIDE DEF head, first, new
<1>6. ASSUME NEW h, NEW s \in Seq(Value), NEW t \in Seq(Value), proxy.attached,
             proxy.size = Len(s), Shows(h, proxy.view, s), Leads(s, head, t)
      PROVE  p.size = Len(t) /\ Shows(h, view, t)
  <2>1. PICK v \in Value : t = Inserted(s, first, <<v>>) /\ first <= Len(s)
    BY <1>1, <1>6 DEF Leads, first
  <2>2. Shows(h, new, <<v>>)
    BY <1>5, OneItem DEF Shows
  <2>3. Len(<<v>>) = 1 /\ first \in 0 .. Len(s)
    BY <1>3, <2>1, LenProperties
  <2>4. PICK items : items = <<v>>
    OBVIOUS
  <2>5. /\ Shows(h, Inserted(proxy.view, first, new), Inserted(s, first, items))
        /\ Len(Inserted(s, first, items)) = Len(s) + Len(items)
    <3>1. Shows(h, new, items)
      BY <2>2, <2>4
    <3>. QED  BY <1>6, <2>3, <3>1, InsertedShows
  <2>6. view = Inserted(proxy.view, first, new)
    BY <1>6
  <2>7. p.size = proxy.size + Len(new)
    BY <1>2 DEF Proxies
  <2>. HIDE DEF view, p
  <2>. QED  BY <1>5, <1>6, <2>1, <2>3, <2>4, <2>5, <2>6, <2>7
<1>7. p.size \in Int
  BY <1>2, <1>5 DEF Proxies
<1>8. view \in Seq(Shown)
  <2>1. CASE ~proxy.attached
    BY <1>2, <2>1 DEF Proxies
  <2>2. CASE proxy.attached
    BY <1>1, <1>6, <2>2, SomeRows DEF head, Shows
  <2>. QED  BY <2>1, <2>2
<1>9. /\ p \in Proxies /\ p.known = proxy.known /\ p.view = view
      /\ p.requests = proxy.requests /\ p.attached = proxy.attached
  <2>. DEFINE size == proxy.size + Len(new)
  <2>1. size \in Int
    BY <1>2, <1>5 DEF Proxies
  <2>2. p = [proxy EXCEPT !.size = size, !.view = view]
    OBVIOUS
  <2>. HIDE DEF size, view, p
  <2>3. [proxy EXCEPT !.size = size] \in Proxies
    BY <1>2, <2>1 DEF Proxies
  <2>4. [[proxy EXCEPT !.size = size] EXCEPT !.view = view] \in Proxies
    BY <1>8, <2>3 DEF Proxies
  <2>. QED  BY <1>2, <2>2, <2>4 DEF Proxies
<1>10. /\ q \in Proxies /\ q.known = p.known /\ q.size = p.size /\ q.cache = EmptyCache
       /\ q.asked = {} /\ q.placeholders = {} /\ q.requests = p.requests
       /\ q.attached = p.attached /\ q.view = p.view
  <2>. HIDE DEF p
  <2>. QED  BY <1>9, ClearIs
<1>. HIDE DEF p, q
<1>11. ASSUME NEW s \in Seq(Value), NEW t \in Seq(Value), proxy.attached,
              proxy.size = Len(s), Shows(history, proxy.view, s), Leads(s, head, t)
       PROVE  q.size = Len(t) /\ Shows(history', q.view, t)
  BY <1>1, <1>6, <1>9, <1>10, <1>11, ShowsOn, ShufflesIs
<1>12. Clears(head) /\ (~proxy.attached => q.view = <<>>)
  BY <1>1, <1>2, <1>9, <1>10 DEF Clears, view
<1>. QED  BY <1>1, <1>9, <1>10, <1>11, <1>12, ClearedKeeps DEF head

\* The cache is emptied, and the view and the number of rows change.
Cleared(p, size, view) == [p EXCEPT !.cache = EmptyCache, !.size = size, !.view = view]

LEMMA ClearedIs ==
  ASSUME NEW p \in Proxies, NEW size \in Int, NEW view \in Seq(Shown)
  PROVE  LET q == Cleared(p, size, view)
         IN  /\ q \in Proxies /\ q.known = p.known /\ q.size = size /\ q.cache = EmptyCache
             /\ q.asked = p.asked /\ q.placeholders = p.placeholders /\ q.requests = p.requests
             /\ q.attached = p.attached /\ q.view = view
<1>. DEFINE q == [p EXCEPT !.cache = EmptyCache, !.size = size, !.view = view]
<1>1. EmptyCache \in Caches
  BY CacheEmpty
<1>2. [p EXCEPT !.cache = EmptyCache] \in Proxies
  BY <1>1 DEF Proxies
<1>3. [[p EXCEPT !.cache = EmptyCache] EXCEPT !.size = size] \in Proxies
  BY <1>2 DEF Proxies
<1>4. [[[p EXCEPT !.cache = EmptyCache] EXCEPT !.size = size] EXCEPT !.view = view] \in Proxies
  BY <1>3 DEF Proxies
<1>5. q \in Proxies
  <2>1. q = [[[p EXCEPT !.cache = EmptyCache] EXCEPT !.size = size] EXCEPT !.view = view]
    OBVIOUS
  <2>. HIDE DEF q
  <2>. QED  BY <1>4, <2>1
<1>6. /\ q.known = p.known /\ q.size = size /\ q.cache = EmptyCache
      /\ q.asked = p.asked /\ q.placeholders = p.placeholders /\ q.requests = p.requests
      /\ q.attached = p.attached /\ q.view = view
  BY DEF Proxies
<1>7. q = Cleared(p, size, view)
  BY DEF Cleared
<1>. HIDE DEF q
<1>. QED  BY <1>5, <1>6, <1>7

LEMMA OnDeletedKeeps ==
  ASSUME Unrenewed, OnDeleted
  PROVE  Unrenewed'
<1>. DEFINE head == Head(inbox)
            first == head.first
            last == head.last
            size == proxy.size - last + first - 1
            view == IF proxy.attached THEN Deleted(proxy.view, first, last) ELSE proxy.view
            q == Cleared(proxy, size, view)
<1>1. /\ inbox # <<>> /\ head.kind = "deleted" /\ inbox' = Tail(inbox) /\ proxy' = q
      /\ Shuffles /\ UNCHANGED <<rows, exported, listened, synchronous>>
  BY DEF OnDeleted, Delivers, ViewOf, Cleared
<1>2. /\ proxy.known /\ head \in Messages /\ proxy \in Proxies
      /\ ~proxy.attached => proxy.view = <<>>
  <2>1. head.kind # "added"
    BY <1>1
  <2>. QED  BY <1>1, <2>1, HeadIs DEF Unrenewed, Stages
<1>3. first \in Nat /\ last \in Nat
  BY <1>1, <1>2 DEF Messages
<1>. HIDE DEF head, first, last
<1>4. ASSUME NEW h, NEW s \in Seq(Value), NEW t \in Seq(Value), proxy.attached,
             proxy.size = Len(s), Shows(h, proxy.view, s), Leads(s, head, t)
      PROVE  size = Len(t) /\ Shows(h, view, t)
  <2>1. first <= last /\ last < Len(s) /\ t = Deleted(s, first, last)
    BY <1>1, <1>4 DEF Leads, first, last
  <2>2. /\ Shows(h, Deleted(proxy.view, first, last), Deleted(s, first, last))
        /\ Len(Deleted(s, first, last)) = Len(s) - last + first - 1
    <3>1. ASSUME NEW f \in Nat, NEW l \in Nat, f <= l, l < Len(s)
          PROVE  /\ Shows(h, Deleted(proxy.view, f, l), Deleted(s, f, l))
                 /\ Len(Deleted(s, f, l)) = Len(s) - l + f - 1
      BY <1>4, <3>1, DeletedShows
    <3>. QED  BY <1>3, <2>1, <3>1
  <2>. QED  BY <1>4, <2>1, <2>2
<1>5. size \in Int
  BY <1>2, <1>3 DEF Proxies
<1>6. view \in Seq(Shown)
  <2>1. CASE ~proxy.attached
    BY <1>2, <2>1 DEF Proxies
  <2>2. CASE proxy.attached
    BY <1>1, <1>4, <2>2, SomeRows DEF head, Shows
  <2>. QED  BY <2>1, <2>2
<1>7. ~proxy.attached => view = <<>>
  BY <1>2
<1>. HIDE DEF size, view
<1>8. /\ q \in Proxies /\ q.known = proxy.known /\ q.size = size /\ q.cache = EmptyCache
      /\ q.asked = proxy.asked /\ q.placeholders = proxy.placeholders
      /\ q.requests = proxy.requests /\ q.attached = proxy.attached /\ q.view = view
  <2>1. proxy \in Proxies
    BY <1>2
  <2>. QED  BY <1>5, <1>6, <2>1, ClearedIs
<1>. HIDE DEF q
<1>9. ASSUME NEW s \in Seq(Value), NEW t \in Seq(Value), proxy.attached,
             proxy.size = Len(s), Shows(history, proxy.view, s), Leads(s, head, t)
      PROVE  q.size = Len(t) /\ Shows(history', q.view, t)
  BY <1>1, <1>4, <1>8, <1>9, ShowsOn, ShufflesIs
<1>10. Clears(head) /\ head.kind \notin {"inserted", "reset"}
  BY <1>1 DEF Clears
<1>. QED  BY <1>1, <1>7, <1>8, <1>9, <1>10, ClearedKeeps DEF head

LEMMA OnMovedKeeps ==
  ASSUME Unrenewed, OnMoved
  PROVE  Unrenewed'
<1>. DEFINE head == Head(inbox)
            first == head.first
            destination == head.destination
            view == IF proxy.attached THEN Moved(proxy.view, first, destination) ELSE proxy.view
            size == proxy.size
            q == Cleared(proxy, size, view)
<1>1. /\ inbox # <<>> /\ head.kind = "moved" /\ inbox' = Tail(inbox)
      /\ proxy' = [proxy EXCEPT !.cache = EmptyCache, !.view = view]
      /\ Shuffles /\ UNCHANGED <<rows, exported, listened, synchronous>>
  BY DEF OnMoved, Delivers, ViewOf
<1>2. /\ proxy.known /\ head \in Messages /\ proxy \in Proxies
      /\ ~proxy.attached => proxy.view = <<>>
  <2>1. head.kind # "added"
    BY <1>1
  <2>. QED  BY <1>1, <2>1, HeadIs DEF Unrenewed, Stages
<1>3. first \in Nat /\ destination \in Nat
  BY <1>1, <1>2 DEF Messages
<1>. HIDE DEF head, first, destination
<1>4. ASSUME NEW h, NEW s \in Seq(Value), NEW t \in Seq(Value), proxy.attached,
             proxy.size = Len(s), Shows(h, proxy.view, s), Leads(s, head, t)
      PROVE  size = Len(t) /\ Shows(h, view, t)
  <2>1. first < Len(s) /\ destination <= Len(s) /\ t = Moved(s, first, destination)
    BY <1>1, <1>4 DEF Leads, first, destination
  <2>2. /\ Shows(h, Moved(proxy.view, first, destination), Moved(s, first, destination))
        /\ Len(Moved(s, first, destination)) = Len(s)
    BY <1>3, <1>4, <2>1, MovedShows
  <2>. QED  BY <1>4, <2>1, <2>2
<1>5. size \in Int
  BY <1>2 DEF Proxies
<1>6. view \in Seq(Shown)
  <2>1. CASE ~proxy.attached
    BY <1>2, <2>1 DEF Proxies
  <2>2. CASE proxy.attached
    BY <1>1, <1>4, <2>2, SomeRows DEF head, Shows
  <2>. QED  BY <2>1, <2>2
<1>7. ~proxy.attached => view = <<>>
  BY <1>2
<1>8. proxy' = q
  <2>. HIDE DEF view
  <2>. QED  BY <1>1, <1>2 DEF Proxies, Cleared
<1>. HIDE DEF size, view
<1>9. /\ q \in Proxies /\ q.known = proxy.known /\ q.size = size /\ q.cache = EmptyCache
      /\ q.asked = proxy.asked /\ q.placeholders = proxy.placeholders
      /\ q.requests = proxy.requests /\ q.attached = proxy.attached /\ q.view = view
  <2>1. proxy \in Proxies
    BY <1>2
  <2>. QED  BY <1>5, <1>6, <2>1, ClearedIs
<1>. HIDE DEF q
<1>10. ASSUME NEW s \in Seq(Value), NEW t \in Seq(Value), proxy.attached,
              proxy.size = Len(s), Shows(history, proxy.view, s), Leads(s, head, t)
       PROVE  q.size = Len(t) /\ Shows(history', q.view, t)
  BY <1>1, <1>4, <1>9, <1>10, ShowsOn, ShufflesIs
<1>11. Clears(head) /\ head.kind \notin {"inserted", "reset"}
  BY <1>1 DEF Clears
<1>. QED  BY <1>1, <1>7, <1>8, <1>9, <1>10, <1>11, ClearedKeeps DEF head

LEMMA OnResetKeeps ==
  ASSUME Unrenewed, OnReset
  PROVE  Unrenewed'
<1>. DEFINE head == Head(inbox)
            size == head.size
            p == [proxy EXCEPT !.size = size]
            c == Clear(p)
            q == IF c.attached THEN Reset(c, c.size) ELSE c
<1>1. /\ inbox # <<>> /\ head.kind = "reset" /\ inbox' = Tail(inbox) /\ proxy' = q
      /\ UNCHANGED <<rows, exported, listened, synchronous>>
  BY DEF OnReset, Delivers
<1>2. /\ proxy.known /\ head \in Messages /\ proxy \in Proxies
      /\ ~proxy.attached => proxy.view = <<>>
  <2>1. head.kind # "added"
    BY <1>1
  <2>. QED  BY <1>1, <2>1, HeadIs DEF Unrenewed, Stages
<1>3. size \in Nat
  BY <1>1, <1>2 DEF Messages
<1>. HIDE DEF head, size
<1>4. /\ p \in Proxies /\ p.known = proxy.known /\ p.size = size
      /\ p.requests = proxy.requests /\ p.attached = proxy.attached /\ p.view = proxy.view
  <2>1. proxy \in Proxies /\ size \in Int
    BY <1>2, <1>3
  <2>. QED  BY <2>1 DEF Proxies
<1>. HIDE DEF p
<1>5. /\ c \in Proxies /\ c.known = p.known /\ c.size = p.size /\ c.cache = EmptyCache
      /\ c.asked = {} /\ c.placeholders = {} /\ c.requests = p.requests
      /\ c.attached = p.attached /\ c.view = p.view
  BY <1>4, ClearIs
<1>. HIDE DEF c
<1>6. /\ q \in Proxies /\ q.known = proxy.known /\ q.size = size /\ q.cache = EmptyCache
      /\ q.asked = {} /\ q.placeholders = {} /\ q.requests = proxy.requests
      /\ q.attached = proxy.attached
      /\ proxy.attached => Len(q.view) = size /\ \A n \in 1 .. size : q.view[n] = Unread
      /\ ~proxy.attached => q.view = <<>>
  <2>1. CASE ~proxy.attached
    BY <1>2, <1>4, <1>5, <2>1
  <2>2. CASE proxy.attached
    <3>1. q = Reset(c, size) /\ c.attached = TRUE
      BY <1>2, <1>4, <1>5, <2>2 DEF Proxies
    <3>2. /\ q \in Proxies /\ q.known = c.known /\ q.size = size /\ q.cache = c.cache
          /\ q.asked = c.asked /\ q.placeholders = c.placeholders
          /\ q.requests = c.requests /\ q.attached
          /\ Len(q.view) = size /\ \A n \in 1 .. size : q.view[n] = Unread
      <4>. HIDE DEF q
      <4>. QED  BY <1>3, <1>5, <3>1, ResetIs
    <3>3. q.attached = TRUE /\ proxy.attached = TRUE
      BY <1>2, <2>2, <3>2 DEF Proxies
    <3>. HIDE DEF q
    <3>. QED  BY <1>4, <1>5, <3>2, <3>3
  <2>. QED  BY <2>1, <2>2
<1>. HIDE DEF q
<1>7. ASSUME NEW s \in Seq(Value), NEW t \in Seq(Value), proxy.attached, Leads(s, head, t)
      PROVE  q.size = Len(t) /\ Shows(history', q.view, t)
  <2>1. size = Len(t)
    BY <1>1, <1>7 DEF Leads, size
  <2>2. q.view \in Seq(Shown)
    BY <1>6 DEF Proxies
  <2>. QED  BY <1>6, <1>7, <2>1, <2>2 DEF Shows
<1>8. Clears(head)
  BY <1>1 DEF Clears
<1>. QED  BY <1>1, <1>6, <1>7, <1>8, ClearedKeeps DEF head

\* The service appears; a synchronous proxy reads the properties at once.
LEMMA OnAddedKeeps ==
  ASSUME Unrenewed, OnAdded
  PROVE  Unrenewed'
<1>1. /\ inbox # <<>> /\ Head(inbox).kind = "added" /\ inbox' = Tail(inbox)
      /\ UNCHANGED <<rows, exported, synchronous, history>>
  BY DEF OnAdded, Delivers
<1>2. /\ ~proxy.known /\ proxy = InitialProxy /\ inbox = <<AddedMessage>> /\ exported
      /\ rows \in Seq(Value) /\ Len(rows) \in Nat /\ listened \in BOOLEAN
      /\ synchronous \in BOOLEAN
  <2>1. Head(inbox) = inbox[1] /\ 1 \in 1 .. Len(inbox)
    BY <1>1, QueueTail DEF Unrenewed
  <2>. QED  BY <1>1, <2>1, LenProperties DEF Unrenewed, Stages
<1>3. inbox' = <<>>
  BY <1>1, <1>2
<1>. DEFINE p == [proxy EXCEPT !.known = TRUE]
<1>4. /\ p \in Proxies /\ p.known = TRUE /\ p.size = 0 /\ p.cache = EmptyCache /\ p.asked = {}
      /\ p.placeholders = {} /\ p.requests = <<>> /\ p.attached = FALSE /\ p.view = <<>>
  <2>1. /\ proxy \in Proxies /\ proxy.size = 0 /\ proxy.cache = EmptyCache /\ proxy.asked = {}
        /\ proxy.placeholders = {} /\ proxy.requests = <<>> /\ proxy.attached = FALSE
        /\ proxy.view = <<>>
    BY <1>2, InitialProxyIs DEF InitialProxy
  <2>. QED  BY <2>1 DEF Proxies
<1>5. DOMAIN EmptyCache.items = {} /\ <<>> \in {<<>>, <<AddedMessage>>}
  BY CacheEmpty
<1>6. CASE synchronous
  <2>. DEFINE q == Reset(p, Len(rows))
  <2>1. proxy' = q /\ listened'
    BY <1>2, <1>6 DEF OnAdded
  <2>. HIDE DEF p
  <2>2. /\ q \in Proxies /\ q.known = p.known /\ q.size = Len(rows) /\ q.cache = p.cache
        /\ q.asked = p.asked /\ q.placeholders = p.placeholders
        /\ q.requests = p.requests /\ q.attached
        /\ Len(q.view) = Len(rows) /\ \A n \in 1 .. Len(rows) : q.view[n] = Unread
    BY <1>2, <1>4, ResetIs
  <2>. HIDE DEF q
  <2>3. /\ <<>> \in Seq(Messages)
        /\ \E m : Linked(m, <<>>, rows) /\ Told(q, <<>>, history, m[0])
        /\ CacheOK(q, <<>>, rows) /\ BringsOK(<<>>, rows) /\ AskedOK(q, <<>>, rows)
    BY <1>2, <1>4, <1>5, <2>2, Fresh
  <2>4. Stages'
    <3>1. /\ proxy'.known /\ proxy'.attached /\ proxy'.placeholders = {}
      BY <1>4, <2>1, <2>2
    <3>. QED  BY <1>1, <1>2, <1>3, <2>1, <3>1 DEF Stages
  <2>. QED  BY <1>1, <1>2, <1>3, <2>1, <2>2, <2>3, <2>4 DEF Unrenewed
<1>7. CASE ~synchronous
  <2>. DEFINE q == [proxy EXCEPT !.known = TRUE, !.requests = Append(@, [kind |-> "properties"])]
  <2>1. proxy' = q /\ listened' = listened
    BY <1>2, <1>7 DEF OnAdded
  <2>2. /\ Append(<<>>, [kind |-> "properties"]) = <<PropertiesRequest>>
        /\ PropertiesRequest \in Requests
    BY DEF PropertiesRequest, Requests
  <2>3. proxy.requests = <<>>
    BY <1>2, InitialProxyIs
  <2>4. q = [p EXCEPT !.requests = <<PropertiesRequest>>]
    BY <1>2, <2>2, <2>3, InitialProxyIs DEF Proxies
  <2>. HIDE DEF p, q
  <2>5. /\ q \in Proxies /\ q.known = TRUE /\ q.size = 0 /\ q.cache = EmptyCache /\ q.asked = {}
        /\ q.placeholders = {} /\ q.requests = <<PropertiesRequest>> /\ q.attached = FALSE
        /\ q.view = <<>>
    BY <1>4, <2>2, <2>4, OneItem DEF Proxies
  <2>6. \A n \in 1 .. Len(q.view) : q.view[n] = Unread
    BY <2>5
  <2>7. /\ <<>> \in Seq(Messages)
        /\ \E m : Linked(m, <<>>, rows) /\ Told(q, <<>>, history, m[0])
        /\ CacheOK(q, <<>>, rows) /\ BringsOK(<<>>, rows) /\ AskedOK(q, <<>>, rows)
    BY <1>2, <1>5, <2>5, <2>6, Fresh
  <2>8. Stages'
    <3>1. \A k \in 1 .. Len(inbox') : FALSE
      BY <1>3
    <3>. QED  BY <1>1, <1>2, <1>3, <1>7, <2>1, <2>5, <3>1 DEF Stages
  <2>. QED  BY <1>1, <1>2, <1>3, <2>1, <2>5, <2>7, <2>8 DEF Unrenewed
<1>. QED  BY <1>6, <1>7

\* Nothing tells a client of a withdrawal that did not happen.
LEMMA OnRemovedNever ==
  ASSUME Unrenewed, OnRemoved
  PROVE  FALSE
<1>1. inbox # <<>> /\ Head(inbox).kind = "removed"
  BY DEF OnRemoved, Delivers
<1>2. Head(inbox) \in Messages
  BY <1>1, QueueTail DEF Unrenewed
<1>. QED  BY <1>1, <1>2 DEF Messages

LEMMA ShowKeeps ==
  ASSUME Unrenewed, NEW row \in Nat, Show(row)
  PROVE  Unrenewed'
<1>. DEFINE q == ReadRow(proxy, row)
<1>1. /\ proxy.attached /\ row < Len(proxy.view) /\ row < proxy.size /\ proxy' = q
      /\ UNCHANGED <<rows, exported, listened, inbox, synchronous>>
      /\ "overtaken" \notin history' =>
           /\ "overtaken" \notin history
           /\ synchronous => \A n \in DOMAIN inbox : inbox[n].kind \notin Structural
  BY DEF Show
<1>2. /\ proxy \in Proxies /\ inbox \in Seq(Messages) /\ rows \in Seq(Value)
      /\ synchronous \in BOOLEAN /\ CacheOK(proxy, inbox, rows) /\ BringsOK(inbox, rows)
      /\ AskedOK(proxy, inbox, rows)
  BY DEF Unrenewed
<1>3. /\ proxy.known /\ exported /\ listened
      /\ \A k \in 1 .. Len(inbox) : inbox[k].kind # "added"
      /\ synchronous => proxy.placeholders = {}
  BY <1>1, InitialProxyIs DEF Unrenewed, Stages
<1>4. PICK m : Linked(m, inbox, rows) /\ Told(proxy, inbox, history, m[0])
  BY DEF Unrenewed
<1>5. proxy.size = Len(m[0]) /\ Len(proxy.view) = Len(m[0]) /\ proxy.size \in Nat
  <2>1. proxy.size = Len(m[0]) /\ Len(proxy.view) = Len(m[0])
    BY <1>1, <1>4 DEF Told
  <2>2. proxy.view \in Seq(Shown)
    BY <1>2 DEF Proxies
  <2>. QED  BY <2>1, <2>2, LenProperties
<1>6. Reads(proxy, row, q)
  <2>1. row \in 0 .. proxy.size - 1
    BY <1>1, <1>5
  <2>. QED  BY <1>1, <1>2, <1>5, <2>1, ReadRowReads
<1>. HIDE DEF q
<1>7. /\ q \in Proxies /\ q.known = proxy.known /\ q.size = proxy.size
      /\ q.attached = proxy.attached
      /\ \A i \in DOMAIN q.cache.items :
           \/ i \in DOMAIN proxy.cache.items /\ q.cache.items[i] = proxy.cache.items[i]
           \/ synchronous /\ Present(rows, i, q.cache.items[i])
      /\ synchronous => q.placeholders = proxy.placeholders
      /\ \A i : Requested(proxy.requests, i) => Requested(q.requests, i)
      /\ \A i \in q.asked : i \in proxy.asked \/ Requested(q.requests, i)
      /\ Len(q.view) = Len(proxy.view)
      /\ \A n \in 1 .. Len(proxy.view) \ {row + 1} : q.view[n] = proxy.view[n]
      /\ \/ q.view[row + 1] = Placeholder
         \/ row \in DOMAIN q.cache.items /\ q.view[row + 1] = q.cache.items[row]
  BY <1>6 DEF Reads, Obtains
<1>8. CacheOK(q, inbox, rows)
  BY <1>2, <1>7 DEF CacheOK
<1>9. AskedOK(q, inbox, rows)
  BY <1>2, <1>7 DEF AskedOK
<1>10. Told(q, inbox, history', m[0])
  <2>1. ASSUME "overtaken" \notin history'
        PROVE  /\ \A n \in 1 .. Len(q.view) :
                    q.view[n] \in {Placeholder, Unread, m[0][n]} \/ ChangePending(inbox, n - 1)
               /\ \A i \in DOMAIN q.cache.items :
                    i < Len(m[0]) => q.cache.items[i] = m[0][i + 1] \/ ChangePending(inbox, i)
    <3>1. /\ \A n \in 1 .. Len(proxy.view) :
               proxy.view[n] \in {Placeholder, Unread, m[0][n]} \/ ChangePending(inbox, n - 1)
          /\ \A i \in DOMAIN proxy.cache.items :
               i < Len(m[0]) => proxy.cache.items[i] = m[0][i + 1] \/ ChangePending(inbox, i)
      BY <1>1, <1>4, <2>1 DEF Told
    <3>2. ASSUME NEW i \in DOMAIN q.cache.items, i < Len(m[0])
          PROVE  q.cache.items[i] = m[0][i + 1] \/ ChangePending(inbox, i)
      <4>1. CASE i \in DOMAIN proxy.cache.items /\ q.cache.items[i] = proxy.cache.items[i]
        BY <3>1, <3>2, <4>1
      <4>2. CASE synchronous /\ Present(rows, i, q.cache.items[i])
        <5>1. \A k \in 1 .. Len(inbox) : ~Clears(inbox[k])
          <6>1. \A k \in 1 .. Len(inbox) : k \in DOMAIN inbox
            BY <1>2
          <6>. QED  BY <1>1, <2>1, <4>2, <6>1 DEF Structural, Clears
        <5>2. q.cache.items[i] = rows[i + 1] /\ Present(rows, i, rows[i + 1])
          BY <4>2 DEF Present
        <5>. QED  BY <1>2, <1>4, <5>1, <5>2, Ahead
      <4>. QED  BY <1>7, <4>1, <4>2
    <3>3. ASSUME NEW n \in 1 .. Len(q.view)
          PROVE  q.view[n] \in {Placeholder, Unread, m[0][n]} \/ ChangePending(inbox, n - 1)
      <4>1. CASE n = row + 1
        <5>1. row < Len(m[0]) /\ n - 1 = row
          BY <1>1, <1>5, <4>1
        <5>. QED  BY <1>7, <3>2, <4>1, <5>1
      <4>2. CASE n # row + 1
        BY <1>7, <3>1, <4>2
      <4>. QED  BY <4>1, <4>2
    <3>. QED  BY <3>2, <3>3
  <2>. QED  BY <1>5, <1>7, <2>1 DEF Told
<1>11. Stages'
  BY <1>1, <1>3, <1>7 DEF Stages
<1>. QED  BY <1>1, <1>2, <1>3, <1>4, <1>7, <1>8, <1>9, <1>10, <1>11 DEF Unrenewed

LEMMA HideKeeps ==
  ASSUME Unrenewed, NEW row \in Nat, Hide(row)
  PROVE  Unrenewed'
<1>. DEFINE n == row + 1
            view == [proxy.view EXCEPT ![n] = Unread]
            q == [proxy EXCEPT !.view = view]
<1>1. /\ row < Len(proxy.view) /\ proxy' = [proxy EXCEPT !.view[row + 1] = Unread]
      /\ UNCHANGED <<rows, exported, listened, inbox, synchronous, history>>
  BY DEF Hide
<1>2. /\ proxy \in Proxies /\ inbox \in Seq(Messages) /\ CacheOK(proxy, inbox, rows)
      /\ AskedOK(proxy, inbox, rows) /\ proxy.view \in Seq(Shown) /\ Len(proxy.view) \in Nat
  BY LenProperties DEF Unrenewed, Proxies
<1>3. proxy' = q
  BY <1>1, <1>2 DEF Proxies
<1>4. n \in 1 .. Len(proxy.view) /\ Unread \in Shown
  BY <1>1, <1>2 DEF Shown
<1>. HIDE DEF n
<1>5. /\ view \in Seq(Shown) /\ Len(view) = Len(proxy.view)
      /\ \A k \in 1 .. Len(proxy.view) : view[k] = IF k = n THEN Unread ELSE proxy.view[k]
  BY <1>2, <1>4, ExceptSeq
<1>. HIDE DEF view
<1>6. /\ q \in Proxies /\ q.known = proxy.known /\ q.size = proxy.size /\ q.cache = proxy.cache
      /\ q.asked = proxy.asked /\ q.placeholders = proxy.placeholders
      /\ q.requests = proxy.requests /\ q.attached = proxy.attached /\ q.view = view
  BY <1>2, <1>5 DEF Proxies
<1>. HIDE DEF q
<1>7. CacheOK(q, inbox, rows) /\ AskedOK(q, inbox, rows)
  BY <1>2, <1>6 DEF CacheOK, AskedOK
<1>8. \E m : Linked(m, inbox, rows) /\ Told(q, inbox, history, m[0])
  <2>1. PICK m : Linked(m, inbox, rows) /\ Told(proxy, inbox, history, m[0])
    BY DEF Unrenewed
  <2>2. Told(q, inbox, history, m[0])
    BY <1>5, <1>6, <2>1 DEF Told
  <2>. QED  BY <2>1, <2>2
<1>9. proxy.known /\ proxy.attached
  <2>1. Len(<<>>) = 0
    OBVIOUS
  <2>. QED  BY <1>1, <2>1, InitialProxyIs DEF Unrenewed, Stages
<1>10. Stages'
  BY <1>1, <1>3, <1>6, <1>9 DEF Unrenewed, Stages
<1>. QED  BY <1>1, <1>3, <1>6, <1>7, <1>8, <1>10 DEF Unrenewed

-----------------------------------------------------------------------------
(***************************************************************************)
(* The theorems.                                                           *)
(***************************************************************************)
LEMMA RNext == RInv /\ [Next]_vars => RInv'
<1>. SUFFICES ASSUME RInv, [Next]_vars
              PROVE  RInv'
  OBVIOUS
<1>1. CASE "renewed" \in history
  <2>1. "renewed" \in history'
    <3>1. CASE ServiceStep
      BY <1>1, <3>1 DEF ServiceStep, ChangeRow, InsertRow, DeleteRows, MoveRow, ResetRows,
                        Changes, Export, Withdraw
    <3>2. CASE HandleStep
      BY <1>1, <3>2 DEF HandleStep, HandleRequest, RefuseRequest
    <3>3. CASE DeliverStep
      BY <1>1, <3>3 DEF DeliverStep, OnAdded, OnRemoved, OnSnapshot, OnAnswer, OnChanged,
                        OnInserted, OnDeleted, OnMoved, OnReset, Shuffles
    <3>4. CASE ViewStep
      BY <1>1, <3>4 DEF ViewStep, Show, Hide
    <3>5. CASE UNCHANGED vars
      BY <1>1, <3>5 DEF vars
    <3>. QED  BY <3>1, <3>2, <3>3, <3>4, <3>5 DEF Next
  <2>. QED  BY <2>1 DEF RInv
<1>2. CASE Unrenewed
  <2>1. CASE ServiceStep
    BY <1>2, <2>1, ServiceStepKeeps
  <2>2. CASE HandleStep
    BY <1>2, <2>2, HandleRequestKeeps, RefuseRequestKeeps DEF HandleStep, RInv
  <2>3. CASE DeliverStep
    <3>1. Unrenewed'
      BY <1>2, <2>3, OnAddedKeeps, OnRemovedNever, OnSnapshotKeeps, OnAnswerKeeps, OnChangedKeeps,
         OnInsertedKeeps, OnDeletedKeeps, OnMovedKeeps, OnResetKeeps DEF DeliverStep
    <3>. QED  BY <3>1 DEF RInv
  <2>4. CASE ViewStep
    <3>1. PICK row \in Row : Show(row) \/ Hide(row)
      BY <2>4 DEF ViewStep
    <3>2. row \in Nat
      BY ConstantsAssumption DEF Row
    <3>3. Unrenewed'
      BY <1>2, <3>1, <3>2, ShowKeeps, HideKeeps
    <3>. QED  BY <3>3 DEF RInv
  <2>5. CASE UNCHANGED vars
    <3>1. Unrenewed'
      BY <1>2, <2>5 DEF vars, Unrenewed, Stages
    <3>. QED  BY <3>1 DEF RInv
  <2>. QED  BY <2>1, <2>2, <2>3, <2>4, <2>5 DEF Next
<1>. QED  BY <1>1, <1>2 DEF RInv

\* Until the service is withdrawn, the proxy and what waits for it are in step
\* with the service's model, whatever its size and the capacity of the cache.
THEOREM ProxyInStep == Spec => []RInv
BY RInit, RNext, PTL DEF Spec

\* A proxy that has received everything.
LEMMA Followed ==
  ASSUME RInv, Following, "renewed" \notin history
  PROVE  /\ Unrenewed /\ rows \in Seq(Value) /\ proxy \in Proxies /\ inbox = <<>>
         /\ Told(proxy, inbox, history, rows)
         /\ \A i : ~Outdated(inbox, i, 0) /\ ~ChangePending(inbox, i)
<1>1. Unrenewed /\ inbox = <<>> /\ Len(inbox) = 0
  BY DEF RInv, Following
<1>2. Told(proxy, inbox, history, rows)
  <2>1. PICK m : Linked(m, inbox, rows) /\ Told(proxy, inbox, history, m[0])
    BY <1>1 DEF Unrenewed
  <2>. QED  BY <1>1, <2>1 DEF Linked
<1>3. \A i : ~Outdated(inbox, i, 0) /\ ~ChangePending(inbox, i)
  BY <1>1 DEF Outdated, ChangePending
<1>. QED  BY <1>1, <1>2, <1>3 DEF Unrenewed

\* Once everything is delivered the view has the rows of the service's model
\* (the signals of IPCServiceAdapter for a model, and the slots of
\* IPCProxyModelProperty), unless a blocking call overtook a queued change.
THEOREM ViewAgrees == Spec => []RowsAgree
<1>1. RInv => RowsAgree
  <2>. SUFFICES ASSUME RInv, Following, history \intersect {"renewed", "overtaken"} = {}
                PROVE  /\ Len(proxy.view) = Len(rows) /\ proxy.size = Len(rows)
                       /\ \A n \in DOMAIN rows : proxy.view[n] \in {rows[n], Placeholder, Unread}
    BY DEF RowsAgree
  <2>1. "renewed" \notin history /\ "overtaken" \notin history /\ proxy.attached
    BY DEF Following
  <2>2. /\ rows \in Seq(Value) /\ Told(proxy, inbox, history, rows)
        /\ \A i : ~ChangePending(inbox, i)
    BY <2>1, Followed
  <2>3. \A n \in DOMAIN rows : n \in 1 .. Len(rows)
    BY <2>2
  <2>. QED  BY <2>1, <2>2, <2>3 DEF Told
<1>. QED  BY <1>1, ProxyInStep, PTL

\* The proxy's cache of rows is never behind the service's model once
\* everything is delivered, also when blocking calls were overtaking.
THEOREM CacheStaysCurrent == Spec => []CacheIsCurrent
<1>1. RInv => CacheIsCurrent
  <2>. SUFFICES ASSUME RInv, Following, "renewed" \notin history, NEW i \in DOMAIN proxy.cache.items
                PROVE  i < Len(rows) /\ Lookup(proxy.cache, i) = rows[i + 1]
    BY DEF CacheIsCurrent
  <2>1. Unrenewed /\ ~Outdated(inbox, i, 0)
    BY Followed
  <2>2. Present(rows, i, proxy.cache.items[i])
    BY <2>1 DEF Unrenewed, CacheOK
  <2>. QED  BY <2>2 DEF Present, Lookup
<1>. QED  BY <1>1, ProxyInStep, PTL

\* m_itemsRequestedFromServer keeps no row whose answer is not under way:
\* such a row would never be asked for again.
THEOREM RequestsAreAnswered == Spec => []RequestsAnswered
<1>1. RInv => RequestsAnswered
  <2>. SUFFICES ASSUME RInv, Following, "renewed" \notin history, NEW i \in proxy.asked
                PROVE  i >= Len(rows)
    BY DEF RequestsAnswered
  <2>1. Unrenewed /\ inbox = <<>> /\ Len(inbox) = 0
    BY Followed
  <2>2. proxy.requests = <<>> /\ Len(proxy.requests) = 0
    BY DEF Following
  <2>3. ~Requested(proxy.requests, i)
    BY <2>2 DEF Requested
  <2>. QED  BY <2>1, <2>3 DEF Unrenewed, AskedOK
<1>. QED  BY <1>1, ProxyInStep, PTL
=============================================================================
