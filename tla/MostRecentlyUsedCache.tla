----------------------- MODULE MostRecentlyUsedCache -----------------------
(***************************************************************************)
(* facelift::MostRecentlyUsedCache: a map of bounded size that evicts the  *)
(* key used least recently.  The code keeps a list of nodes, most recently *)
(* used first, and an index from keys to nodes; every operation has to     *)
(* change both alike.                                                      *)
(***************************************************************************)
EXTENDS Integers, SequencesExt

CONSTANT Capacity

ASSUME CapacityAssumption == Capacity \in Nat \ {0}

EmptyCache == [recent |-> <<>>, items |-> <<>>]

Exists(cache, key) == key \in DOMAIN cache.items

Lookup(cache, key) == cache.items[key]

Without(recent, key) ==
  LET k == CHOOSE n \in DOMAIN recent : recent[n] = key IN RemoveAt(recent, k)

Drop(items, key) == [k \in DOMAIN items \ {key} |-> items[k]]

\* get() logs the use.  The key must exist.
Touch(cache, key) == [cache EXCEPT !.recent = <<key>> \o Without(@, key)]

\* The eviction forgets the list's node but not the index's.
MutantEvict(cache) ==
  IF Len(cache.recent) > Capacity THEN [cache EXCEPT !.recent = Front(@)] ELSE cache

Evict(cache) ==
  IF Len(cache.recent) > Capacity
  THEN [recent |-> Front(cache.recent), items |-> Drop(cache.items, Last(cache.recent))]
  ELSE cache

Insert(cache, key, item) ==
  Evict([recent |-> <<key>> \o
           (IF Exists(cache, key) THEN Without(cache.recent, key) ELSE cache.recent),
         items |-> [k \in DOMAIN cache.items \union {key} |->
                      IF k = key THEN item ELSE cache.items[k]]])

\* List and index hold the same keys, each once, and no more than fit.
WellFormed(cache) ==
  /\ Len(cache.recent) <= Capacity
  /\ IsInjective(cache.recent)
  /\ ToSet(cache.recent) = DOMAIN cache.items
=============================================================================
