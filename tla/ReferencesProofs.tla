--------------------------- MODULE ReferencesProofs ---------------------------
(***************************************************************************)
(* What module References promises, for any clients and addresses and      *)
(* whatever its bounds are.                                                *)
(*                                                                         *)
(* Two things have to be right.  In the server, addresses, objects and     *)
(* paths must correspond: an object that is gone leaves no adapter that    *)
(* answers for its address, and the handler of the property knows the      *)
(* adapter of the very object the property points to.  And the last        *)
(* message on its way to a client that carries a path must carry the       *)
(* right one.                                                              *)
(***************************************************************************)
EXTENDS References, FiniteSetTheorems, SequenceTheorems, TLAPS

-----------------------------------------------------------------------------
(***************************************************************************)
(* The inductive invariant: the server.                                    *)
(***************************************************************************)
Server ==
  [heap : [Address -> Object \union {NoObject}], created : 0 .. MaxObjects,
   value : Address \union {Null}, previous : Address \union {Null},
   pointer : Object \union {NoObject}, valueChanged : BOOLEAN,
   connected : BOOLEAN, service : Object \union {NoObject},
   adapter : Path \union {NoPath}, subs : SUBSET Adapter, doomed : SUBSET Adapter,
   previousPath : Path \union {NoPath}, nextPath : 1 .. MaxObjects + 1, late : BOOLEAN]

Alive(s, object) == \E a \in Address : s.heap[a] = object

\* An object has one address, and serial numbers are given once.
HeapInv(s) ==
  /\ \A a, b \in Address : s.heap[a] = s.heap[b] /\ s.heap[a] # NoObject => a = b
  /\ \A a \in Address : s.heap[a] <= s.created

\* Adapters that answer stand for objects that live, the others for objects
\* that are gone; paths are not used again.
AdaptersInv(s) ==
  /\ \A x \in s.subs : Alive(s, x.object)
  /\ \A x \in s.doomed : ~Alive(s, x.object) /\ x.object <= s.created
  /\ \A x \in s.subs \union s.doomed : x.path < s.nextPath
  /\ \A x, y \in s.subs \union s.doomed : x.path = y.path \/ x.object = y.object => x = y

\* Objects without an adapter.
Bare(s) == {object \in 1 .. s.created : Alive(s, object) /\ \A x \in s.subs : x.object # object}

\* There are as many paths as objects.
PathsInv(s) == Cardinality(Bare(s)) + s.nextPath <= s.created + 1

Structure(s) == s \in Server /\ HeapInv(s) /\ AdaptersInv(s) /\ PathsInv(s)

\* The object the property points to.
Target(s) == IF s.value = Null THEN NoObject ELSE s.heap[s.value]

Pointing(s) == s.value # Null => s.heap[s.value] # NoObject

\* ServiceProperty has told its listeners what it has.
SettledInv(s) ==
  /\ s.previous = s.value /\ ~s.valueChanged
  /\ s.pointer = Target(s)

\* The property handler knows the adapter of the property's object.
HandlerKnows(s) ==
  /\ s.service = Target(s)
  /\ s.late \/ s.adapter \in Current(s)
  /\ s.value # Null => s.adapter \in Current(s)

HandlerIdle(s) == s.service = NoObject /\ s.adapter = NoPath /\ ~s.late

HandlerInv(s) == IF s.connected THEN HandlerKnows(s) ELSE HandlerIdle(s)

ServerInv(s) == Structure(s) /\ Pointing(s) /\ SettledInv(s) /\ HandlerInv(s)

-----------------------------------------------------------------------------
(***************************************************************************)
(* The clients.                                                            *)
(***************************************************************************)
\* Messages a proxy takes its reference from.
Decides(message) ==
  message.kind = "snapshot" \/ (message.kind = "signal" /\ message.changed)

\* A proxy with this reference has "path" when it has handled the queue.
Ends(queue, reference, path) ==
  \/ \E n \in 1 .. Len(queue) :
       /\ Decides(queue[n]) /\ queue[n].path = path
       /\ \A k \in n + 1 .. Len(queue) : ~Decides(queue[k])
  \/ /\ \A n \in 1 .. Len(queue) : ~Decides(queue[n])
     /\ reference = path

Has(queue, kind) == \E n \in 1 .. Len(queue) : queue[n].kind = kind

\* The server has answered the proxy.
Answered(c) == proxies[c].complete \/ Has(inbox[c], "snapshot")

EndsCurrent(c) == \E path \in Current(server) : Ends(inbox[c], proxies[c].reference, path)

LinkInv(c) ==
  /\ Has(requests[c], "properties") => proxies[c].connected
  /\ Answered(c) => server.connected /\ proxies[c].connected

\* A proxy without a snapshot since the last change has the path sent last.
LastSentInv(c) ==
  Answered(c) => proxies[c].joined \/ Ends(inbox[c], proxies[c].reference, server.previousPath)

TruthInv(c) ==
  Answered(c) =>
    \/ server.late
    \/ EndsCurrent(c)
    \/ proxies[c].joined /\ server.previousPath \in Current(server)

ClientInv(c) == LinkInv(c) /\ LastSentInv(c) /\ TruthInv(c)

QueuesType ==
  /\ requests \in [Client -> Seq(Request)] /\ inbox \in [Client -> Seq(Message)]
  /\ proxies \in [Client -> ProxyState]

IInv == ServerInv(server) /\ QueuesType /\ \A c \in Client : ClientInv(c)

-----------------------------------------------------------------------------
(***************************************************************************)
(* Pointers and adapters.                                                  *)
(***************************************************************************)
\* The parts of a server record that SMT needs to see one at a time.
LEMMA ServerParts ==
  ASSUME NEW s \in Server
  PROVE  /\ s.heap \in [Address -> Object \union {NoObject}]
         /\ s.created \in 0 .. MaxObjects
         /\ s.value \in Address \union {Null} /\ s.previous \in Address \union {Null}
         /\ s.pointer \in Object \union {NoObject} /\ s.service \in Object \union {NoObject}
         /\ s.adapter \in Path \union {NoPath} /\ s.previousPath \in Path \union {NoPath}
         /\ s.subs \subseteq Adapter /\ s.doomed \subseteq Adapter
         /\ s.nextPath \in 1 .. MaxObjects + 1
         /\ s.connected \in BOOLEAN /\ s.late \in BOOLEAN /\ s.valueChanged \in BOOLEAN
BY DEF Server

LEMMA AdapterParts ==
  ASSUME NEW x \in Adapter
  PROVE  x.path \in Path /\ x.object \in Object /\ x = [path |-> x.path, object |-> x.object]
BY DEF Adapter

\* The pointer of a QPointer is null or the one address of its object.
LEMMA PointerIs ==
  ASSUME NEW s, Structure(s), NEW object \in Object \union {NoObject},
         object = NoObject \/ Alive(s, object),
         NEW v \in Address \union {Null}, v # Null => s.heap[v] # NoObject
  PROVE  Pointer(s, object) = v <=> object = IF v = Null THEN NoObject ELSE s.heap[v]
<1>1. CASE object = NoObject
  BY <1>1 DEF Pointer
<1>2. CASE object # NoObject
  <2>1. PICK a \in Address : s.heap[a] = object
    BY <1>2 DEF Alive
  <2>2. \A b \in Address : s.heap[b] = object => b = a
    BY <1>2, <2>1 DEF Structure, HeapInv
  <2>3. Pointer(s, object) \in Address /\ s.heap[Pointer(s, object)] = object
    BY <1>2, <2>1 DEF Pointer
  <2>4. Null \notin Address
    BY ConstantsAssumption
  <2>. QED  BY <1>2, <2>2, <2>3, <2>4
<1>. QED  BY <1>1, <1>2

LEMMA CurrentIs ==
  ASSUME NEW s, Structure(s), s.value # Null, NEW x \in s.subs, x.object = s.heap[s.value]
  PROVE  Current(s) = {x.path}
<1>1. \A y \in s.subs : y.object = x.object => y = x
  BY DEF Structure, AdaptersInv
<1>2. {y \in s.subs : y.object = s.heap[s.value]} = {x}
  BY <1>1
<1>3. Current(s) = {y.path : y \in {x}}
  BY <1>2 DEF Current
<1>. QED  BY <1>3

LEMMA BareFinite ==
  ASSUME NEW s, s \in Server
  PROVE  IsFiniteSet(Bare(s)) /\ Cardinality(Bare(s)) \in Nat
<1>1. 0 \in Int /\ s.created \in Int /\ 1 \in Int
  BY ServerParts, ConstantsAssumption
<1>2. IsFiniteSet(1 .. s.created)
  BY <1>1, FS_Interval
<1>3. Bare(s) \in SUBSET (1 .. s.created)
  BY DEF Bare
<1>. QED  BY <1>2, <1>3, FS_Subset, FS_CardinalityType

\* Everything in the server but its handler and its adapters.
SameProperty(s, t) ==
  /\ t.heap = s.heap /\ t.created = s.created
  /\ t.value = s.value /\ t.previous = s.previous
  /\ t.pointer = s.pointer /\ t.valueChanged = s.valueChanged
  /\ t.connected = s.connected /\ t.doomed = s.doomed
  /\ t.previousPath = s.previousPath /\ t.late = s.late

\* An object gets its adapter once, and there is a path for it.
LEMMA GetOrCreateProperties ==
  ASSUME NEW s, Structure(s), NEW a \in Address, s.heap[a] # NoObject,
         NEW t, t = GetOrCreateAdapter(s, a)
  PROVE  /\ Structure(t)
         /\ SameProperty(s, t) /\ t.service = s.service /\ t.adapter = s.adapter
         /\ s.subs \subseteq t.subs
         /\ \A x \in t.subs \ s.subs : x.object = s.heap[a]
         /\ \E x \in t.subs : x.object = t.heap[a] /\ x.path = PathOf(t, a)
<1>. DEFINE new == [path |-> s.nextPath, object |-> s.heap[a]]
<1>0. /\ s \in Server /\ HeapInv(s) /\ AdaptersInv(s) /\ PathsInv(s)
      /\ s.heap[a] \in Object /\ s.created \in Nat /\ s.nextPath \in Nat
      /\ s.subs \subseteq Adapter
  BY ServerParts, ConstantsAssumption DEF Structure, Object
<1>1. CASE \E x \in s.subs : x.object = s.heap[a]
  <2>1. t = s
    BY <1>1 DEF GetOrCreateAdapter
  <2>2. SameProperty(s, t) /\ t.service = s.service /\ t.adapter = s.adapter
    BY <2>1 DEF SameProperty
  <2>3. \E x \in t.subs : x.object = t.heap[a] /\ x.path = PathOf(t, a)
    BY <2>1, <1>1 DEF PathOf
  <2>. QED  BY <2>1, <2>2, <2>3
<1>2. CASE ~\E x \in s.subs : x.object = s.heap[a]
  <2>1. t = [s EXCEPT !.subs = @ \union {new}, !.nextPath = @ + 1]
    BY <1>2 DEF GetOrCreateAdapter
  <2>2. /\ t.subs = s.subs \union {new} /\ t.nextPath = s.nextPath + 1
        /\ t.heap = s.heap /\ t.created = s.created /\ t.doomed = s.doomed
    BY <2>1, <1>0 DEF Server
  <2>3. s.heap[a] \in Bare(s)
    <3>1. s.heap[a] \in 1 .. s.created
      BY <1>0, ConstantsAssumption DEF HeapInv, Object, NoObject
    <3>. QED  BY <3>1, <1>2 DEF Bare, Alive
  <2>11. new.path = s.nextPath /\ new.object = s.heap[a]
    OBVIOUS
  <2>4. Bare(t) = Bare(s) \ {s.heap[a]}
    <3>. HIDE DEF new
    <3>1. \A object : Alive(t, object) <=> Alive(s, object)
      BY <2>2 DEF Alive
    <3>2. \A object : (\A x \in t.subs : x.object # object) <=>
            (\A x \in s.subs : x.object # object) /\ object # s.heap[a]
      BY <2>2, <2>11
    <3>. QED  BY <2>2, <3>1, <3>2 DEF Bare
  <2>5. /\ Cardinality(Bare(t)) = Cardinality(Bare(s)) - 1
        /\ Cardinality(Bare(t)) \in Nat /\ Cardinality(Bare(s)) \in Nat
    <3>1. IsFiniteSet(Bare(s)) /\ Cardinality(Bare(s)) \in Nat
      BY <1>0, BareFinite
    <3>2. /\ IsFiniteSet(Bare(s) \ {s.heap[a]})
          /\ Cardinality(Bare(s) \ {s.heap[a]}) = Cardinality(Bare(s)) - 1
      BY <2>3, <3>1, FS_RemoveElement
    <3>. QED  BY <2>4, <3>1, <3>2, FS_CardinalityType
  <2>6. PathsInv(t)
    BY <1>0, <2>2, <2>5 DEF PathsInv
  <2>7. t.nextPath \in 1 .. MaxObjects + 1 /\ s.nextPath \in Path
    BY <1>0, <2>2, <2>5, <2>6, ServerParts, ConstantsAssumption DEF PathsInv, Path
  <2>8. new \in Adapter
    BY <1>0, <2>7 DEF Adapter
  <2>9. t \in Server
    <3>. HIDE DEF new
    <3>. DEFINE u == [s EXCEPT !.subs = @ \union {new}]
    <3>1. u \in Server /\ u.nextPath = s.nextPath
      BY <1>0, <2>8 DEF Server
    <3>2. t = [u EXCEPT !.nextPath = s.nextPath + 1]
      BY <1>0, <2>1 DEF Server
    <3>. HIDE DEF u
    <3>3. s.nextPath + 1 \in 1 .. MaxObjects + 1
      BY <2>2, <2>7
    <3>. QED  BY <3>1, <3>2, <3>3 DEF Server
  <2>10. HeapInv(t)
    BY <1>0, <2>2 DEF HeapInv
  <2>. HIDE DEF new
  <2>12. AdaptersInv(t)
    <3>1. \A x \in t.subs : Alive(t, x.object)
      BY <1>0, <2>2, <2>11 DEF AdaptersInv, Alive
    <3>2. \A x \in t.doomed : ~Alive(t, x.object) /\ x.object <= t.created
      BY <1>0, <2>2 DEF AdaptersInv, Alive
    <3>3. \A x \in s.subs \union s.doomed : x.path \in Int /\ x.path < s.nextPath
      BY <1>0, ServerParts, AdapterParts DEF AdaptersInv, Path
    <3>4. \A x \in t.subs \union t.doomed : x.path < t.nextPath
      BY <1>0, <2>2, <2>11, <3>3
    <3>5. \A x \in s.subs \union s.doomed : x.path # new.path /\ x.object # new.object
      <4>1. \A x \in s.subs \union s.doomed : x.path # s.nextPath
        BY <1>0, <3>3
      <4>2. \A x \in s.doomed : x.object # s.heap[a]
        BY <1>0 DEF AdaptersInv, Alive
      <4>. QED  BY <1>2, <2>11, <4>1, <4>2
    <3>6. \A x, y \in t.subs \union t.doomed : x.path = y.path \/ x.object = y.object => x = y
      BY <1>0, <2>2, <3>5 DEF AdaptersInv
    <3>. QED  BY <3>1, <3>2, <3>4, <3>6 DEF AdaptersInv
  <2>13. \E x \in t.subs : x.object = t.heap[a]
    BY <2>2, <2>11
  <2>14. \E x \in t.subs : x.object = t.heap[a] /\ x.path = PathOf(t, a)
    BY <2>13 DEF PathOf
  <2>15. SameProperty(s, t) /\ t.service = s.service /\ t.adapter = s.adapter
    BY <1>0, <2>1 DEF Server, SameProperty
  <2>. QED  BY <2>2, <2>6, <2>9, <2>10, <2>11, <2>12, <2>14, <2>15 DEF Structure
<1>. QED  BY <1>1, <1>2

\* What the handler has to know before update(), so that it is right after it:
\* it overlooks a property that is cleared when its object is gone already.
Linked(s) ==
  /\ s.service # NoObject => Alive(s, s.service)
  /\ s.service # NoObject /\ s.service = Target(s) => s.adapter \in Current(s)
  /\ s.service = NoObject /\ s.value = Null => s.late \/ s.adapter = NoPath

SetHandler(s, object, path) == [s EXCEPT !.service = object, !.adapter = path]

LEMMA HandlerSet ==
  ASSUME NEW s \in Server, NEW object \in Object \union {NoObject},
         NEW path \in Path \union {NoPath},
         NEW t, t = SetHandler(s, object, path)
  PROVE  /\ t \in Server /\ SameProperty(s, t)
         /\ t.subs = s.subs /\ t.nextPath = s.nextPath
         /\ t.service = object /\ t.adapter = path
<1>. DEFINE u == [s EXCEPT !.service = object]
<1>1. /\ u \in Server /\ u.service = object
      /\ SameProperty(s, u) /\ u.subs = s.subs /\ u.nextPath = s.nextPath
  BY DEF Server, SameProperty
<1>2. t = [u EXCEPT !.adapter = path]
  BY DEF Server, SetHandler
<1>. HIDE DEF u
<1>. QED  BY <1>1, <1>2 DEF Server, SameProperty

\* The adapters stay as they are when nothing they stand for changes.
LEMMA StructureKept ==
  ASSUME NEW s, Structure(s), NEW t \in Server,
         t.heap = s.heap, t.created = s.created, t.subs = s.subs,
         t.doomed \subseteq s.doomed, t.nextPath = s.nextPath
  PROVE  Structure(t)
<1>1. HeapInv(t)
  BY DEF Structure, HeapInv
<1>2. AdaptersInv(t)
  BY DEF Structure, AdaptersInv, Alive
<1>3. Bare(t) = Bare(s)
  BY DEF Bare, Alive
<1>. QED  BY <1>1, <1>2, <1>3 DEF Structure, PathsInv

LEMMA UpdateProperties ==
  ASSUME NEW s, Structure(s), Pointing(s), Linked(s), NEW t, t = Update(s)
  PROVE  Structure(t) /\ SameProperty(s, t) /\ HandlerKnows(t)
<1>0. s \in Server /\ s.value \in Address \union {Null} /\ s.service \in Object \union {NoObject}
  BY ServerParts DEF Structure
<1>1. Pointer(s, s.service) = s.value <=> s.service = Target(s)
  BY <1>0, PointerIs DEF Pointing, Linked, Target
<1>2. CASE s.service = Target(s)
  <2>1. t = s
    BY <1>1, <1>2 DEF Update
  <2>2. s.value # Null => s.adapter \in Current(s)
    BY <1>2 DEF Linked, Pointing, Target
  <2>3. s.value = Null => s.late \/ s.adapter \in Current(s)
    BY <1>2 DEF Linked, Target, Current
  <2>. QED  BY <2>1, <2>2, <2>3, <1>2 DEF HandlerKnows, SameProperty
<1>3. CASE s.service # Target(s) /\ s.value = Null
  <2>1. t = SetHandler(s, NoObject, NoPath)
    BY <1>1, <1>3 DEF Update, SetHandler
  <2>2. /\ t \in Server /\ SameProperty(s, t)
        /\ t.subs = s.subs /\ t.nextPath = s.nextPath
        /\ t.service = NoObject /\ t.adapter = NoPath
    BY <1>0, <2>1, HandlerSet
  <2>3. Structure(t)
    BY <2>2, StructureKept DEF SameProperty
  <2>4. HandlerKnows(t)
    BY <1>3, <2>2 DEF HandlerKnows, SameProperty, Target, Current
  <2>. QED  BY <2>2, <2>3, <2>4
<1>4. CASE s.service # Target(s) /\ s.value # Null
  <2>. DEFINE u == GetOrCreateAdapter(s, s.value)
  <2>1. t = SetHandler(u, s.heap[s.value], PathOf(u, s.value))
    BY <1>1, <1>4 DEF Update, SetHandler
  <2>2. s.value \in Address /\ s.heap[s.value] # NoObject /\ s.heap[s.value] \in Object
    BY <1>0, <1>4, ServerParts DEF Pointing
  <2>3. /\ Structure(u) /\ SameProperty(s, u)
        /\ \E x \in u.subs : x.object = u.heap[s.value] /\ x.path = PathOf(u, s.value)
    BY <2>2, GetOrCreateProperties
  <2>. HIDE DEF u
  <2>4. PICK x \in u.subs : x.object = u.heap[s.value] /\ x.path = PathOf(u, s.value)
    BY <2>3
  <2>5. u \in Server /\ x.path \in Path
    BY <2>3, <2>4, ServerParts, AdapterParts DEF Structure
  <2>7. /\ t \in Server /\ SameProperty(u, t)
        /\ t.subs = u.subs /\ t.nextPath = u.nextPath
        /\ t.service = s.heap[s.value] /\ t.adapter = x.path
    BY <2>1, <2>2, <2>4, <2>5, HandlerSet
  <2>8. SameProperty(s, t)
    BY <2>3, <2>7 DEF SameProperty
  <2>9. Structure(t)
    BY <2>3, <2>7, StructureKept DEF SameProperty
  <2>10. Current(t) = {x.path}
    BY <1>4, <2>3, <2>4, <2>7, <2>8, <2>9, CurrentIs DEF SameProperty
  <2>11. HandlerKnows(t)
    BY <1>4, <2>7, <2>8, <2>10 DEF HandlerKnows, SameProperty, Target
  <2>. QED  BY <2>8, <2>9, <2>11
<1>. QED  BY <1>2, <1>3, <1>4

-----------------------------------------------------------------------------
(***************************************************************************)
(* Objects come and go.                                                    *)
(***************************************************************************)
\* Everything in the server but its objects and their adapters.
SameLinks(s, t) ==
  /\ t.value = s.value /\ t.previous = s.previous /\ t.valueChanged = s.valueChanged
  /\ t.connected = s.connected /\ t.adapter = s.adapter
  /\ t.previousPath = s.previousPath /\ t.late = s.late

LEMMA DestroyedProperties ==
  ASSUME NEW s, Structure(s), NEW a \in Address, s.heap[a] # NoObject,
         NEW t, t = Destroyed(s, a)
  PROVE  /\ Structure(t) /\ SameLinks(s, t)
         /\ t.heap = [s.heap EXCEPT ![a] = NoObject] /\ t.created = s.created
         /\ t.subs = {x \in s.subs : x.object # s.heap[a]}
         /\ t.pointer = IF s.pointer = s.heap[a] THEN NoObject ELSE s.pointer
         /\ t.service = IF s.service = s.heap[a] THEN NoObject ELSE s.service
<1>. DEFINE gone == {x \in s.subs : x.object = s.heap[a]}
            QPointerTo(object) == IF object = s.heap[a] THEN NoObject ELSE object
            u == [s EXCEPT !.heap[a] = NoObject]
            v == [u EXCEPT !.subs = @ \ gone]
            w == [v EXCEPT !.doomed = @ \union gone]
            z == [w EXCEPT !.pointer = QPointerTo(s.pointer)]
<1>0. s \in Server
  BY DEF Structure
<1>1. /\ gone \subseteq Adapter
      /\ QPointerTo(s.pointer) \in Object \union {NoObject}
      /\ QPointerTo(s.service) \in Object \union {NoObject}
  BY <1>0, ServerParts
<1>2. t = [z EXCEPT !.service = QPointerTo(s.service)]
  BY <1>0 DEF Destroyed, Server
<1>. HIDE DEF gone, QPointerTo
<1>3. /\ u \in Server /\ SameLinks(s, u) /\ u.heap = [s.heap EXCEPT ![a] = NoObject]
      /\ u.created = s.created /\ u.subs = s.subs /\ u.doomed = s.doomed
      /\ u.nextPath = s.nextPath /\ u.service = s.service /\ u.pointer = s.pointer
  BY <1>0 DEF Server, SameLinks
<1>. HIDE DEF u
<1>4. /\ v \in Server /\ SameLinks(u, v) /\ v.heap = u.heap
      /\ v.created = u.created /\ v.subs = u.subs \ gone /\ v.doomed = u.doomed
      /\ v.nextPath = u.nextPath /\ v.service = u.service /\ v.pointer = u.pointer
  BY <1>3 DEF Server, SameLinks
<1>. HIDE DEF v
<1>5. /\ w \in Server /\ SameLinks(v, w) /\ w.heap = v.heap
      /\ w.created = v.created /\ w.subs = v.subs /\ w.doomed = v.doomed \union gone
      /\ w.nextPath = v.nextPath /\ w.service = v.service /\ w.pointer = v.pointer
  BY <1>1, <1>4 DEF Server, SameLinks
<1>. HIDE DEF w
<1>6. /\ z \in Server /\ SameLinks(w, z) /\ z.heap = w.heap
      /\ z.created = w.created /\ z.subs = w.subs /\ z.doomed = w.doomed
      /\ z.nextPath = w.nextPath /\ z.service = w.service /\ z.pointer = QPointerTo(s.pointer)
  BY <1>1, <1>5 DEF Server, SameLinks
<1>. HIDE DEF z
<1>7. /\ t \in Server /\ SameLinks(z, t) /\ t.heap = z.heap
      /\ t.created = z.created /\ t.subs = z.subs /\ t.doomed = z.doomed
      /\ t.nextPath = z.nextPath /\ t.pointer = z.pointer
      /\ t.service = QPointerTo(s.service)
  BY <1>1, <1>2, <1>6 DEF Server, SameLinks
<1>8. /\ t.heap = [s.heap EXCEPT ![a] = NoObject] /\ t.created = s.created
      /\ t.subs = s.subs \ gone /\ t.doomed = s.doomed \union gone
      /\ t.nextPath = s.nextPath
      /\ SameLinks(s, t)
  BY <1>3, <1>4, <1>5, <1>6, <1>7 DEF SameLinks
<1>9. t.subs = {x \in s.subs : x.object # s.heap[a]}
  BY <1>8 DEF gone
<1>10. s.heap \in [Address -> Object \union {NoObject}] /\ s.created \in Nat
  BY <1>0, ServerParts, ConstantsAssumption
<1>11. /\ \A b \in Address : t.heap[b] = IF b = a THEN NoObject ELSE s.heap[b]
       /\ \A b \in Address : s.heap[b] = s.heap[a] => b = a
  BY <1>8, <1>10 DEF Structure, HeapInv
<1>12. HeapInv(t)
  BY <1>8, <1>10, <1>11 DEF Structure, HeapInv, NoObject
<1>13. \A object \in Object : Alive(t, object) <=> Alive(s, object) /\ object # s.heap[a]
  BY <1>11 DEF Alive, Object, NoObject
<1>14. AdaptersInv(t)
  <2>1. \A x \in s.subs \union s.doomed : x.object \in Object
    BY <1>0, ServerParts, AdapterParts
  <2>2. \A x \in t.subs : Alive(t, x.object)
    BY <1>9, <1>13, <2>1 DEF Structure, AdaptersInv
  <2>3. \A x \in t.doomed : ~Alive(t, x.object) /\ x.object <= t.created
    <3>1. \A x \in gone : x.object = s.heap[a] /\ x \in s.subs /\ s.heap[a] <= s.created
      BY DEF gone, Structure, HeapInv
    <3>. QED  BY <1>8, <1>13, <2>1, <3>1 DEF Structure, AdaptersInv
  <2>4. t.subs \union t.doomed = s.subs \union s.doomed
    BY <1>8 DEF gone
  <2>. QED  BY <1>8, <2>2, <2>3, <2>4 DEF Structure, AdaptersInv
<1>15. PathsInv(t)
  <2>1. \A x \in s.subs : x.object \in Object
    BY <1>0, ServerParts, AdapterParts
  <2>2. \A object \in 1 .. s.created : object \in Object
    BY <1>0, ServerParts, ConstantsAssumption DEF Object
  <2>3. Bare(t) \in SUBSET Bare(s)
    BY <1>8, <1>9, <1>13, <2>2 DEF Bare
  <2>4. /\ Cardinality(Bare(t)) <= Cardinality(Bare(s))
        /\ Cardinality(Bare(t)) \in Nat /\ Cardinality(Bare(s)) \in Nat
    BY <1>0, <1>7, <2>3, BareFinite, FS_Subset
  <2>5. s.nextPath \in Nat
    BY <1>0, ServerParts, ConstantsAssumption
  <2>. QED  BY <1>8, <1>10, <2>4, <2>5 DEF Structure, PathsInv
<1>. QED  BY <1>3, <1>4, <1>5, <1>6, <1>7, <1>8, <1>9, <1>12, <1>14, <1>15
          DEF Structure, QPointerTo

LEMMA AllocatedProperties ==
  ASSUME NEW s, Structure(s), NEW a \in Address, s.heap[a] = NoObject, s.created < MaxObjects,
         NEW t, t = Allocated(s, a)
  PROVE  /\ Structure(t) /\ SameLinks(s, t)
         /\ t.heap = [s.heap EXCEPT ![a] = s.created + 1]
         /\ t.subs = s.subs /\ t.pointer = s.pointer /\ t.service = s.service
<1>. DEFINE u == [s EXCEPT !.heap[a] = s.created + 1]
<1>0. s \in Server
  BY DEF Structure
<1>1. /\ s.created \in Nat /\ s.created + 1 \in Object /\ s.created + 1 \in 0 .. MaxObjects
      /\ s.created + 1 # NoObject
      /\ s.heap \in [Address -> Object \union {NoObject}]
  BY <1>0, ServerParts, ConstantsAssumption DEF Object, NoObject
<1>2. t = [u EXCEPT !.created = s.created + 1]
  BY <1>0 DEF Allocated, Server
<1>3. /\ u \in Server /\ SameLinks(s, u) /\ u.heap = [s.heap EXCEPT ![a] = s.created + 1]
      /\ u.created = s.created /\ u.subs = s.subs /\ u.doomed = s.doomed
      /\ u.nextPath = s.nextPath /\ u.service = s.service /\ u.pointer = s.pointer
  BY <1>0, <1>1 DEF Server, SameLinks
<1>. HIDE DEF u
<1>4. /\ t \in Server /\ SameLinks(u, t) /\ t.heap = u.heap
      /\ t.created = s.created + 1 /\ t.subs = u.subs /\ t.doomed = u.doomed
      /\ t.nextPath = u.nextPath /\ t.service = u.service /\ t.pointer = u.pointer
  BY <1>1, <1>2, <1>3 DEF Server, SameLinks
<1>5. /\ \A b \in Address : t.heap[b] = IF b = a THEN s.created + 1 ELSE s.heap[b]
      /\ \A b \in Address : s.heap[b] \in Int /\ s.heap[b] <= s.created
  BY <1>1, <1>3, <1>4 DEF Structure, HeapInv, Object, NoObject
<1>6. HeapInv(t)
  BY <1>1, <1>4, <1>5 DEF Structure, HeapInv
<1>7. \A object \in Object :
        Alive(t, object) <=> Alive(s, object) \/ object = s.created + 1
  BY <1>5 DEF Alive, Object, NoObject
<1>8. \A x \in s.subs \union s.doomed :
        x.object \in Object /\ x.object \in Int /\ x.object <= s.created
  <2>1. \A x \in s.subs \union s.doomed : x.object \in Object
    BY <1>0, ServerParts, AdapterParts
  <2>2. \A x \in s.subs : x.object <= s.created
    BY <1>5 DEF Structure, AdaptersInv, Alive
  <2>3. \A x \in s.doomed : x.object <= s.created
    BY DEF Structure, AdaptersInv
  <2>. QED  BY <2>1, <2>2, <2>3 DEF Object
<1>9. AdaptersInv(t)
  <2>1. \A x \in t.subs : Alive(t, x.object)
    BY <1>3, <1>4, <1>7, <1>8 DEF Structure, AdaptersInv
  <2>2. \A x \in t.doomed : ~Alive(t, x.object) /\ x.object <= t.created
    <3>1. \A x \in s.doomed : ~Alive(s, x.object) /\ x.object # s.created + 1
      BY <1>1, <1>8 DEF Structure, AdaptersInv
    <3>2. \A x \in s.doomed : x.object <= s.created + 1
      BY <1>1, <1>8
    <3>. QED  BY <1>3, <1>4, <1>7, <1>8, <3>1, <3>2
  <2>. QED  BY <1>3, <1>4, <2>1, <2>2 DEF Structure, AdaptersInv
<1>10. PathsInv(t)
  <2>1. \A object \in 1 .. s.created + 1 : object \in Object
    <3>1. MaxObjects \in Nat /\ s.created + 1 \in Nat /\ s.created + 1 <= MaxObjects
      BY <1>1, ConstantsAssumption
    <3>. QED  BY <3>1 DEF Object
  <2>2. \A object \in 1 .. s.created + 1 :
          object = s.created + 1 \/ object \in 1 .. s.created
    BY <1>1
  <2>3. Bare(t) = Bare(s) \union {s.created + 1}
    <3>1. \A object \in Bare(t) : object \in Bare(s) \union {s.created + 1}
      BY <1>3, <1>4, <1>7, <2>1, <2>2 DEF Bare
    <3>2. \A object \in Bare(s) : object \in Bare(t)
      BY <1>1, <1>3, <1>4, <1>7, <2>1 DEF Bare
    <3>3. s.created + 1 \in Bare(t)
      BY <1>1, <1>3, <1>4, <1>7, <1>8 DEF Bare
    <3>. QED  BY <3>1, <3>2, <3>3
  <2>4. IsFiniteSet(Bare(s)) /\ Cardinality(Bare(s)) \in Nat /\ s.created + 1 \notin Bare(s)
    BY <1>0, <1>1, BareFinite DEF Bare
  <2>5. Cardinality(Bare(t)) = Cardinality(Bare(s)) + 1
    BY <2>3, <2>4, FS_AddElement
  <2>6. s.nextPath \in Nat
    BY <1>0, ServerParts, ConstantsAssumption
  <2>. QED  BY <1>1, <1>3, <1>4, <2>4, <2>5, <2>6 DEF Structure, PathsInv
<1>. QED  BY <1>3, <1>4, <1>6, <1>9, <1>10 DEF Structure, SameLinks

-----------------------------------------------------------------------------
(***************************************************************************)
(* The property gets a value.                                              *)
(***************************************************************************)
\* Everything in the server but the property.
SameRest(s, t) ==
  /\ t.heap = s.heap /\ t.created = s.created
  /\ t.connected = s.connected /\ t.service = s.service /\ t.adapter = s.adapter
  /\ t.subs = s.subs /\ t.doomed = s.doomed
  /\ t.previousPath = s.previousPath /\ t.nextPath = s.nextPath /\ t.late = s.late

SetPointer(s, v, valueChanged, object) ==
  [s EXCEPT !.value = v, !.valueChanged = valueChanged, !.pointer = object]

LEMMA PointerSet ==
  ASSUME NEW s \in Server, NEW v \in Address \union {Null}, NEW valueChanged \in BOOLEAN,
         NEW object \in Object \union {NoObject},
         NEW t, t = SetPointer(s, v, valueChanged, object)
  PROVE  /\ t \in Server /\ SameRest(s, t) /\ t.previous = s.previous
         /\ t.value = v /\ t.valueChanged = valueChanged /\ t.pointer = object
<1>. DEFINE u == [s EXCEPT !.value = v]
            w == [u EXCEPT !.valueChanged = valueChanged]
<1>1. t = [w EXCEPT !.pointer = object]
  BY DEF Server, SetPointer
<1>2. u \in Server /\ SameRest(s, u) /\ u.previous = s.previous /\ u.value = v
  BY DEF Server, SameRest
<1>. HIDE DEF u
<1>3. /\ w \in Server /\ SameRest(u, w) /\ w.previous = u.previous /\ w.value = u.value
      /\ w.valueChanged = valueChanged
  BY <1>2 DEF Server, SameRest
<1>. HIDE DEF w
<1>4. /\ t \in Server /\ SameRest(w, t) /\ t.previous = w.previous /\ t.value = w.value
      /\ t.valueChanged = w.valueChanged /\ t.pointer = object
  BY <1>1, <1>3 DEF Server, SameRest
<1>. QED  BY <1>2, <1>3, <1>4 DEF SameRest

Note(s, v) == [s EXCEPT !.previous = v, !.valueChanged = FALSE]

LEMMA Noted ==
  ASSUME NEW s \in Server, NEW v \in Address \union {Null}, NEW t, t = Note(s, v)
  PROVE  /\ t \in Server /\ SameRest(s, t)
         /\ t.previous = v /\ ~t.valueChanged
         /\ t.value = s.value /\ t.pointer = s.pointer
<1>. DEFINE u == [s EXCEPT !.previous = v]
<1>1. t = [u EXCEPT !.valueChanged = FALSE]
  BY DEF Server, Note
<1>2. u \in Server /\ SameRest(s, u) /\ u.previous = v /\ u.value = s.value /\ u.pointer = s.pointer
  BY DEF Server, SameRest
<1>. HIDE DEF u
<1>3. /\ t \in Server /\ SameRest(u, t) /\ t.previous = u.previous
      /\ t.value = u.value /\ t.pointer = u.pointer
  BY <1>1, <1>2 DEF Server, SameRest
<1>4. t.valueChanged = FALSE
  BY <1>1, <1>2 DEF Server
<1>. QED  BY <1>2, <1>3, <1>4 DEF SameRest

\* The signal is left out only when the property pointed to this very object
\* before.
LEMMA SetValueProperties ==
  ASSUME NEW s, Structure(s), s.pointer = NoObject \/ Alive(s, s.pointer), ~s.valueChanged,
         NEW v \in Address \union {Null}, v # Null => s.heap[v] # NoObject,
         SetValue(s, v)
  PROVE  \E t : /\ Structure(t) /\ Pointing(t) /\ SettledInv(t) /\ SameRest(s, t)
                /\ t.value = v
                /\ \/ SendSignal(t)
                   \/ /\ server' = t /\ UNCHANGED <<inbox, proxies>>
                      /\ s.previous = v /\ s.pointer = Target(t)
<1>. DEFINE target == IF v = Null THEN NoObject ELSE s.heap[v]
            new == Pointer(s, s.pointer) # v
            t == SetPointer(s, v, s.valueChanged \/ new,
                            IF ~new THEN s.pointer ELSE IF v = Null THEN NoObject ELSE s.heap[v])
<1>1. s \in Server /\ s.pointer \in Object \union {NoObject}
  BY ServerParts DEF Structure
<1>2. new <=> s.pointer # target
  BY <1>1, PointerIs
<1>3. target \in Object \union {NoObject}
  BY <1>1, ServerParts
<1>4. t = SetPointer(s, v, new, target)
  BY <1>2
<1>5. IF t.previous # v \/ t.valueChanged THEN SendSignal(Note(t, v))
      ELSE server' = t /\ UNCHANGED <<inbox, proxies>>
  BY DEF SetValue, SetPointer, Note
<1>6. new \in BOOLEAN
  OBVIOUS
<1>. HIDE DEF new, t
<1>7. /\ t \in Server /\ SameRest(s, t) /\ t.previous = s.previous
      /\ t.value = v /\ t.valueChanged = new /\ t.pointer = target
  BY <1>1, <1>3, <1>4, <1>6, PointerSet
<1>8. CASE t.previous # v \/ t.valueChanged
  <2>. DEFINE u == Note(t, v)
  <2>1. SendSignal(u)
    BY <1>5, <1>8
  <2>. HIDE DEF u
  <2>2. /\ u \in Server /\ SameRest(t, u) /\ u.previous = v /\ ~u.valueChanged
        /\ u.value = v /\ u.pointer = target
    BY <1>7, Noted DEF u
  <2>3. SameRest(s, u)
    BY <1>7, <2>2 DEF SameRest
  <2>4. Structure(u)
    BY <2>2, <2>3, StructureKept DEF SameRest
  <2>5. Pointing(u) /\ SettledInv(u)
    BY <2>2, <2>3 DEF Pointing, SettledInv, Target, SameRest
  <2>6. \/ SendSignal(u)
        \/ server' = u /\ UNCHANGED <<inbox, proxies>> /\ s.previous = v /\ s.pointer = Target(u)
    BY <2>1
  <2>. WITNESS u
  <2>. QED  BY <2>2, <2>3, <2>4, <2>5, <2>6
<1>9. CASE ~(t.previous # v \/ t.valueChanged)
  <2>1. server' = t /\ UNCHANGED <<inbox, proxies>>
    BY <1>5, <1>9
  <2>2. Structure(t)
    BY <1>7, StructureKept DEF SameRest
  <2>3. Pointing(t) /\ SettledInv(t) /\ Target(t) = target
    BY <1>7, <1>9 DEF Pointing, SettledInv, Target, SameRest
  <2>4. s.previous = v /\ s.pointer = Target(t)
    BY <1>2, <1>7, <1>9, <2>3
  <2>. QED  BY <1>7, <2>1, <2>2, <2>3, <2>4
<1>. QED  BY <1>8, <1>9

\* Each client that listens is told the path, and whether it is another one
\* than the last that was sent.
Told(path, changed) ==
  /\ inbox' = [c \in Client |->
       IF Subscribed(c) THEN Append(inbox[c], [kind |-> "signal", changed |-> changed, path |-> path])
       ELSE inbox[c]]
  /\ proxies' = [c \in Client |->
       [proxies[c] EXCEPT !.joined = @ /\ ~(changed /\ Subscribed(c))]]

LEMMA SendSignalProperties ==
  ASSUME NEW s, Structure(s), Pointing(s), SettledInv(s),
         IF s.connected THEN Linked(s) ELSE HandlerIdle(s),
         SendSignal(s)
  PROVE  /\ ServerInv(server') /\ server'.connected = s.connected
         /\ ~s.connected => server' = s /\ UNCHANGED <<inbox, proxies>>
         /\ s.connected => /\ server'.previousPath = server'.adapter
                           /\ Told(server'.adapter, server'.adapter # s.previousPath)
<1>1. CASE ~s.connected
  BY <1>1 DEF SendSignal, ServerInv, HandlerInv
<1>2. CASE s.connected
  <2>. DEFINE t == Update(s)
              late == t.late /\ ~(t.adapter # t.previousPath /\ t.adapter \in Current(t))
  <2>1. Structure(t) /\ SameProperty(s, t) /\ HandlerKnows(t)
    BY <1>2, UpdateProperties
  <2>2. /\ server' = [t EXCEPT !.previousPath = t.adapter, !.late = late]
        /\ Told(t.adapter, t.adapter # t.previousPath)
    BY <1>2 DEF SendSignal, Told
  <2>. HIDE DEF t
  <2>3. t \in Server /\ t.adapter \in Path \union {NoPath} /\ t.late \in BOOLEAN
    BY <2>1, ServerParts DEF Structure
  <2>4. late \in BOOLEAN /\ (~late => ~t.late \/ t.adapter \in Current(t))
    BY <2>3
  <2>. HIDE DEF late
  <2>. DEFINE u == [t EXCEPT !.previousPath = t.adapter]
  <2>5. /\ u \in Server /\ u.heap = t.heap /\ u.created = t.created
        /\ u.subs = t.subs /\ u.doomed = t.doomed /\ u.nextPath = t.nextPath
        /\ u.value = t.value /\ u.previous = t.previous /\ u.pointer = t.pointer
        /\ u.valueChanged = t.valueChanged /\ u.connected = t.connected
        /\ u.service = t.service /\ u.adapter = t.adapter /\ u.previousPath = t.adapter
    BY <2>3 DEF Server
  <2>6. server' = [u EXCEPT !.late = late]
    BY <2>2, <2>3 DEF Server
  <2>. HIDE DEF u
  <2>7. /\ server' \in Server
        /\ server'.heap = t.heap /\ server'.created = t.created
        /\ server'.subs = t.subs /\ server'.doomed = t.doomed /\ server'.nextPath = t.nextPath
    BY <2>4, <2>5, <2>6 DEF Server
  <2>8. /\ server'.value = t.value /\ server'.previous = t.previous
        /\ server'.pointer = t.pointer /\ server'.valueChanged = t.valueChanged
        /\ server'.connected = t.connected /\ server'.service = t.service
        /\ server'.adapter = t.adapter /\ server'.previousPath = t.adapter
        /\ server'.late = late
    BY <2>4, <2>5, <2>6 DEF Server
  <2>9. Structure(server')
    BY <2>1, <2>7, StructureKept
  <2>10. Current(server') = Current(t) /\ Target(server') = Target(t)
    BY <2>7, <2>8 DEF Current, Target
  <2>11. HandlerKnows(server')
    BY <2>1, <2>4, <2>8, <2>10 DEF HandlerKnows
  <2>12. Pointing(server') /\ SettledInv(server')
    BY <2>1, <2>7, <2>8 DEF Pointing, SettledInv, SameProperty, Target
  <2>13. server'.connected
    BY <1>2, <2>1, <2>8 DEF SameProperty
  <2>. QED  BY <1>2, <2>1, <2>2, <2>8, <2>9, <2>11, <2>12, <2>13
            DEF ServerInv, HandlerInv, SameProperty
<1>. QED  BY <1>1, <1>2

-----------------------------------------------------------------------------
(***************************************************************************)
(* What a step does to the server, as far as clients see it.               *)
(***************************************************************************)
\* Nothing a client should know has changed.
SameTruth ==
  /\ server'.connected = server.connected
  /\ server'.previousPath = server.previousPath /\ server'.late = server.late
  /\ server.connected => Current(server') = Current(server)

\* The property's signal was sent.
Signalled ==
  /\ server.connected /\ server'.connected
  /\ server'.previousPath = server'.adapter
  /\ Told(server'.adapter, server'.adapter # server.previousPath)

Unheard == SameTruth /\ UNCHANGED <<inbox, proxies>>

\* What does not touch the object of the property keeps the handler right.
LEMMA LinksKept ==
  ASSUME NEW s, ServerInv(s), NEW t, Structure(t), SameLinks(s, t),
         t.pointer = s.pointer, t.service = s.service,
         s.value # Null => t.heap[s.value] = s.heap[s.value],
         s.connected /\ s.value # Null =>
           {x \in t.subs : x.object = s.heap[s.value]} = {x \in s.subs : x.object = s.heap[s.value]}
  PROVE  ServerInv(t) /\ (s.connected => Current(t) = Current(s))
<1>1. Target(t) = Target(s)
  BY DEF Target, SameLinks
<1>2. Pointing(t) /\ SettledInv(t)
  BY <1>1 DEF ServerInv, Pointing, SettledInv, SameLinks
<1>3. s.connected => Current(t) = Current(s)
  BY DEF Current, SameLinks
<1>4. HandlerInv(t)
  BY <1>1, <1>3 DEF ServerInv, HandlerInv, HandlerKnows, HandlerIdle, SameLinks
<1>. QED  BY <1>2, <1>3, <1>4 DEF ServerInv

LEMMA CreateStep ==
  ASSUME ServerInv(server), NEW a \in Address, CreateObject(a)
  PROVE  ServerInv(server') /\ SameTruth
<1>1. /\ Structure(server) /\ Pointing(server)
      /\ server.heap[a] = NoObject /\ server.created < MaxObjects
      /\ server' = Allocated(server, a)
  BY DEF ServerInv, CreateObject
<1>2. /\ Structure(server') /\ SameLinks(server, server')
      /\ server'.heap = [server.heap EXCEPT ![a] = server.created + 1]
      /\ server'.subs = server.subs /\ server'.pointer = server.pointer
      /\ server'.service = server.service
  BY <1>1, AllocatedProperties
<1>3. server.value # Null => server'.heap[server.value] = server.heap[server.value]
  <2>1. server.heap \in [Address -> Object \union {NoObject}] /\ server.value \in Address \union {Null}
    BY <1>1, ServerParts DEF Structure
  <2>. QED  BY <1>1, <1>2, <2>1 DEF Pointing
<1>4. ServerInv(server') /\ (server.connected => Current(server') = Current(server))
  BY <1>2, <1>3, LinksKept
<1>. QED  BY <1>2, <1>4 DEF SameTruth, SameLinks

LEMMA DestroyStep ==
  ASSUME ServerInv(server), NEW a \in Address, DestroyObject(a)
  PROVE  ServerInv(server') /\ SameTruth
<1>1. /\ Structure(server) /\ Pointing(server) /\ HandlerInv(server) /\ SettledInv(server)
      /\ server.heap[a] # NoObject /\ server.value # a
      /\ server' = Destroyed(server, a)
  BY DEF ServerInv, DestroyObject
<1>2. /\ Structure(server') /\ SameLinks(server, server')
      /\ server'.heap = [server.heap EXCEPT ![a] = NoObject]
      /\ server'.subs = {x \in server.subs : x.object # server.heap[a]}
      /\ server'.pointer = IF server.pointer = server.heap[a] THEN NoObject ELSE server.pointer
      /\ server'.service = IF server.service = server.heap[a] THEN NoObject ELSE server.service
  BY <1>1, DestroyedProperties
<1>3. /\ server.heap \in [Address -> Object \union {NoObject}]
      /\ server.value \in Address \union {Null}
  BY <1>1, ServerParts DEF Structure
<1>4. Target(server) # server.heap[a]
  BY <1>1, <1>3 DEF Target, Structure, HeapInv
<1>5. server'.pointer = server.pointer
  BY <1>1, <1>2, <1>4 DEF SettledInv
<1>6. server'.service = server.service
  BY <1>1, <1>2, <1>4 DEF HandlerInv, HandlerKnows, HandlerIdle
<1>7. server.value # Null =>
        /\ server'.heap[server.value] = server.heap[server.value]
        /\ {x \in server'.subs : x.object = server.heap[server.value]} =
             {x \in server.subs : x.object = server.heap[server.value]}
  BY <1>1, <1>2, <1>3, <1>4 DEF Target
<1>8. ServerInv(server') /\ (server.connected => Current(server') = Current(server))
  BY <1>2, <1>5, <1>6, <1>7, LinksKept
<1>. QED  BY <1>2, <1>8 DEF SameTruth, SameLinks

LEMMA DeleteLaterStep ==
  ASSUME ServerInv(server), DeleteLater
  PROVE  ServerInv(server') /\ SameTruth
<1>. DEFINE left(x) == server.doomed \ {x}
            adapter(x) == IF server.adapter = x.path THEN NoPath ELSE server.adapter
<1>1. PICK x \in server.doomed :
        server' = [server EXCEPT !.doomed = left(x), !.adapter = adapter(x)]
  BY DEF DeleteLater
<1>2. /\ Structure(server) /\ server \in Server /\ Pointing(server)
      /\ SettledInv(server) /\ HandlerInv(server)
  BY DEF ServerInv, Structure
<1>3. left(x) \subseteq Adapter /\ left(x) \subseteq server.doomed
      /\ adapter(x) \in Path \union {NoPath}
  BY <1>2, ServerParts
<1>4. adapter(x) = server.adapter \/ (adapter(x) = NoPath /\ server.adapter = x.path)
  OBVIOUS
<1>. HIDE DEF left, adapter
<1>. DEFINE u == [server EXCEPT !.doomed = left(x)]
<1>5. server' = [u EXCEPT !.adapter = adapter(x)]
  BY <1>1, <1>2 DEF Server
<1>6. /\ u \in Server /\ SameLinks(server, u) /\ u.heap = server.heap /\ u.created = server.created
      /\ u.subs = server.subs /\ u.doomed = left(x) /\ u.nextPath = server.nextPath
      /\ u.pointer = server.pointer /\ u.service = server.service
  BY <1>2, <1>3 DEF Server, SameLinks
<1>. HIDE DEF u
<1>7. /\ server' \in Server /\ server'.heap = u.heap /\ server'.created = u.created
      /\ server'.subs = u.subs /\ server'.doomed = u.doomed /\ server'.nextPath = u.nextPath
      /\ server'.pointer = u.pointer /\ server'.service = u.service
      /\ server'.value = u.value /\ server'.previous = u.previous
      /\ server'.valueChanged = u.valueChanged /\ server'.connected = u.connected
      /\ server'.previousPath = u.previousPath /\ server'.late = u.late
      /\ server'.adapter = adapter(x)
  BY <1>3, <1>5, <1>6 DEF Server
<1>8. Structure(server')
  BY <1>2, <1>3, <1>6, <1>7, StructureKept
<1>9. /\ Target(server') = Target(server) /\ Current(server') = Current(server)
  BY <1>6, <1>7 DEF Target, Current, SameLinks
<1>10. Pointing(server') /\ SettledInv(server')
  BY <1>2, <1>6, <1>7, <1>9 DEF Pointing, SettledInv, SameLinks
<1>11. server.connected /\ server.value # Null => adapter(x) = server.adapter
  <2>1. \A y \in server.subs : y.path # x.path
    <3>1. \A y \in server.subs : y # x
      BY <1>2 DEF Structure, AdaptersInv
    <3>. QED  BY <1>2, <3>1 DEF Structure, AdaptersInv
  <2>2. server.value # Null => x.path \notin Current(server)
    BY <2>1 DEF Current
  <2>. QED  BY <1>2, <1>4, <2>2 DEF HandlerInv, HandlerKnows
<1>12. server.connected /\ server.value = Null => server'.late \/ adapter(x) \in Current(server)
  BY <1>2, <1>4, <1>6, <1>7 DEF HandlerInv, HandlerKnows, Current, SameLinks
<1>13. HandlerInv(server')
  <2>1. CASE server.connected
    BY <1>2, <1>6, <1>7, <1>9, <1>11, <1>12, <2>1 DEF HandlerInv, HandlerKnows, SameLinks
  <2>2. CASE ~server.connected
    BY <1>2, <1>4, <1>6, <1>7, <2>2 DEF HandlerInv, HandlerIdle, SameLinks
  <2>. QED  BY <2>1, <2>2
<1>. QED  BY <1>6, <1>7, <1>8, <1>9, <1>10, <1>13 DEF ServerInv, SameTruth, SameLinks

\* The signal, if there is one, tells the clients all there is to know.
LEMMA SignalStep ==
  ASSUME ServerInv(server),
         NEW s, Structure(s), Pointing(s), SettledInv(s),
         s.connected = server.connected, s.previousPath = server.previousPath,
         IF s.connected THEN Linked(s) ELSE HandlerIdle(s),
         SendSignal(s)
  PROVE  ServerInv(server') /\ (Signalled \/ Unheard)
<1>1. /\ ServerInv(server') /\ server'.connected = s.connected
      /\ ~s.connected => server' = s /\ UNCHANGED <<inbox, proxies>>
      /\ s.connected => /\ server'.previousPath = server'.adapter
                        /\ Told(server'.adapter, server'.adapter # s.previousPath)
  BY SendSignalProperties
<1>2. CASE s.connected
  BY <1>1, <1>2 DEF Signalled
<1>3. CASE ~s.connected
  <2>1. server' = s /\ UNCHANGED <<inbox, proxies>>
    BY <1>1, <1>3
  <2>2. HandlerIdle(s) /\ HandlerIdle(server)
    BY <1>3 DEF ServerInv, HandlerInv
  <2>3. server.late \in BOOLEAN /\ s.late \in BOOLEAN
    BY ServerParts DEF ServerInv, Structure
  <2>4. server'.late = server.late
    BY <2>1, <2>2, <2>3 DEF HandlerIdle
  <2>. QED  BY <1>1, <1>3, <2>1, <2>4 DEF Unheard, SameTruth
<1>. QED  BY <1>2, <1>3

LEMMA SetPropertyStep ==
  ASSUME ServerInv(server), NEW v \in Address \union {Null}, SetProperty(v)
  PROVE  ServerInv(server') /\ (Signalled \/ Unheard)
<1>1. /\ Structure(server) /\ Pointing(server) /\ SettledInv(server) /\ HandlerInv(server)
      /\ server \in Server
      /\ SetValue(server, v) /\ (v # Null => server.heap[v] # NoObject)
  BY DEF SetProperty, ServerInv, Structure
<1>2. /\ server.pointer = NoObject \/ Alive(server, server.pointer)
      /\ ~server.valueChanged
      /\ server.value \in Address \union {Null}
  BY <1>1, ServerParts DEF SettledInv, Target, Alive
<1>3. PICK t : /\ Structure(t) /\ Pointing(t) /\ SettledInv(t) /\ SameRest(server, t)
               /\ t.value = v
               /\ \/ SendSignal(t)
                  \/ /\ server' = t /\ UNCHANGED <<inbox, proxies>>
                     /\ server.previous = v /\ server.pointer = Target(t)
  BY <1>1, <1>2, SetValueProperties
<1>4. Current(t) = IF v = Null THEN {NoPath}
                   ELSE {x.path : x \in {y \in server.subs : y.object = server.heap[v]}}
  BY <1>3 DEF Current, SameRest
<1>5. CASE SendSignal(t)
  <2>1. CASE server.connected
    <3>1. HandlerKnows(server)
      BY <1>1, <2>1 DEF HandlerInv
    <3>2. t.service # NoObject => Alive(t, t.service)
      BY <1>1, <1>2, <1>3, <3>1 DEF HandlerKnows, Target, Alive, SameRest
    <3>3. ASSUME t.service # NoObject, t.service = Target(t)
          PROVE  t.adapter \in Current(t)
      <4>1. v # Null /\ server.value # Null /\ server.heap[v] = server.heap[server.value]
        BY <1>3, <3>1, <3>3 DEF HandlerKnows, Target, SameRest
      <4>2. v = server.value
        BY <1>1, <1>2, <4>1 DEF Structure, HeapInv, Pointing
      <4>. QED  BY <1>3, <1>4, <3>1, <4>1, <4>2 DEF HandlerKnows, SameRest, Current
    <3>4. ASSUME t.service = NoObject, t.value = Null
          PROVE  t.late \/ t.adapter = NoPath
      <4>1. server.value = Null
        BY <1>1, <1>3, <3>1, <3>4 DEF HandlerKnows, Target, SameRest, Pointing
      <4>. QED  BY <1>3, <3>1, <4>1 DEF HandlerKnows, SameRest, Current
    <3>5. Linked(t)
      BY <3>2, <3>3, <3>4 DEF Linked
    <3>. QED  BY <1>3, <1>5, <2>1, <3>5, SignalStep DEF SameRest
  <2>2. CASE ~server.connected
    <3>1. HandlerIdle(t)
      BY <1>1, <1>3, <2>2 DEF HandlerInv, HandlerIdle, SameRest
    <3>. QED  BY <1>3, <1>5, <2>2, <3>1, SignalStep DEF SameRest
  <2>. QED  BY <2>1, <2>2
<1>6. CASE server' = t /\ UNCHANGED <<inbox, proxies>> /\ server.previous = v
  <2>1. server.value = v
    BY <1>1, <1>6 DEF SettledInv
  <2>2. /\ Target(t) = Target(server) /\ Current(t) = Current(server)
    BY <1>3, <1>4, <2>1 DEF Target, Current, SameRest
  <2>3. HandlerInv(t)
    BY <1>1, <1>3, <2>1, <2>2 DEF HandlerInv, HandlerKnows, HandlerIdle, SameRest
  <2>. QED  BY <1>3, <1>6, <2>2, <2>3 DEF ServerInv, Unheard, SameTruth, SameRest
<1>. QED  BY <1>3, <1>5, <1>6

\* The property's object is gone before the property is set.
LEMMA ReplaceStep ==
  ASSUME ServerInv(server), NEW a \in Address, NEW v \in Address \union {Null},
         ReplaceObject(a, v)
  PROVE  ServerInv(server') /\ (Signalled \/ Unheard)
<1>. DEFINE s == Destroyed(server, a)
<1>1. /\ Structure(server) /\ Pointing(server) /\ SettledInv(server) /\ HandlerInv(server)
      /\ server.heap[a] # NoObject /\ server.value = a /\ Null \notin Address
  BY ConstantsAssumption DEF ReplaceObject, ServerInv
<1>2. /\ Structure(s) /\ SameLinks(server, s)
      /\ s.heap = [server.heap EXCEPT ![a] = NoObject]
      /\ s.pointer = IF server.pointer = server.heap[a] THEN NoObject ELSE server.pointer
      /\ s.service = IF server.service = server.heap[a] THEN NoObject ELSE server.service
  BY <1>1, DestroyedProperties
<1>3. \/ v = Null /\ SetValue([s EXCEPT !.late = s.connected], v)
      \/ v \in Address \ {a} /\ s.heap[v] # NoObject /\ SetValue(s, v)
      \/ v = a /\ s.created < MaxObjects /\ SetValue(Allocated(s, a), v)
  BY DEF ReplaceObject
<1>. HIDE DEF s
<1>4. /\ s.pointer = NoObject
      /\ s.connected => s.service = NoObject
      /\ ~s.connected => HandlerIdle(s)
      /\ s.previous = a /\ ~s.valueChanged /\ s.value = a
  <2>1. Target(server) = server.heap[a]
    BY <1>1 DEF Target
  <2>2. s.pointer = NoObject /\ s.previous = a /\ ~s.valueChanged /\ s.value = a
    BY <1>1, <1>2, <2>1 DEF SettledInv, SameLinks
  <2>3. s.connected => s.service = NoObject
    BY <1>1, <1>2, <2>1 DEF HandlerInv, HandlerKnows, SameLinks
  <2>4. ~s.connected => HandlerIdle(s)
    BY <1>1, <1>2 DEF HandlerInv, HandlerIdle, SameLinks
  <2>. QED  BY <2>2, <2>3, <2>4
<1>5. ASSUME NEW u, Structure(u), SameLinks(server, u),
             u.pointer = NoObject, u.service = s.service,
             v # Null, u.heap[v] # NoObject, SetValue(u, v)
      PROVE  ServerInv(server') /\ (Signalled \/ Unheard)
  <2>1. PICK t : /\ Structure(t) /\ Pointing(t) /\ SettledInv(t) /\ SameRest(u, t)
                 /\ t.value = v
                 /\ \/ SendSignal(t)
                    \/ /\ server' = t /\ UNCHANGED <<inbox, proxies>>
                       /\ u.previous = v /\ u.pointer = Target(t)
    BY <1>2, <1>4, <1>5, SetValueProperties DEF SameLinks
  <2>2. SendSignal(t)
    BY <1>5, <2>1 DEF Target, Pointing
  <2>3. CASE server.connected
    <3>1. Linked(t)
      BY <1>2, <1>4, <1>5, <2>1, <2>3 DEF Linked, SameRest, SameLinks
    <3>. QED  BY <1>5, <2>1, <2>2, <2>3, <3>1, SignalStep DEF SameRest, SameLinks
  <2>4. CASE ~server.connected
    <3>1. HandlerIdle(t)
      BY <1>2, <1>4, <1>5, <2>1, <2>4 DEF HandlerIdle, SameRest, SameLinks
    <3>. QED  BY <1>5, <2>1, <2>2, <2>4, <3>1, SignalStep DEF SameRest, SameLinks
  <2>. QED  BY <2>3, <2>4
<1>6. CASE v = Null /\ SetValue([s EXCEPT !.late = s.connected], v)
  <2>. DEFINE u == [s EXCEPT !.late = s.connected]
  <2>1. SetValue(u, v)
    BY <1>6
  <2>2. s \in Server /\ s.connected \in BOOLEAN
    BY <1>2, ServerParts DEF Structure
  <2>3. /\ u \in Server /\ u.heap = s.heap /\ u.created = s.created
        /\ u.subs = s.subs /\ u.doomed = s.doomed /\ u.nextPath = s.nextPath
        /\ u.pointer = s.pointer /\ u.service = s.service /\ u.previous = s.previous
        /\ u.connected = s.connected /\ u.previousPath = s.previousPath /\ u.adapter = s.adapter
        /\ u.valueChanged = s.valueChanged
    BY <2>2 DEF Server
  <2>4. u.late = s.connected
    BY <2>2 DEF Server
  <2>. HIDE DEF u
  <2>5. Structure(u)
    BY <1>2, <2>3, StructureKept
  <2>6. PICK t : /\ Structure(t) /\ Pointing(t) /\ SettledInv(t) /\ SameRest(u, t)
                 /\ t.value = v
                 /\ \/ SendSignal(t)
                    \/ /\ server' = t /\ UNCHANGED <<inbox, proxies>>
                       /\ u.previous = v /\ u.pointer = Target(t)
    BY <1>4, <1>6, <2>1, <2>3, <2>5, SetValueProperties
  <2>7. SendSignal(t)
    BY <1>1, <1>4, <1>6, <2>3, <2>6
  <2>8. CASE server.connected
    <3>1. t.late
      BY <1>2, <2>4, <2>6, <2>8 DEF SameRest, SameLinks
    <3>2. Linked(t)
      BY <1>2, <1>4, <2>3, <2>6, <2>8, <3>1 DEF Linked, SameRest, SameLinks
    <3>. QED  BY <1>2, <2>3, <2>6, <2>7, <2>8, <3>2, SignalStep DEF SameRest, SameLinks
  <2>9. CASE ~server.connected
    <3>1. ~t.late
      BY <1>2, <2>4, <2>6, <2>9 DEF SameRest, SameLinks
    <3>2. HandlerIdle(t)
      BY <1>2, <1>4, <2>3, <2>6, <2>9, <3>1 DEF HandlerIdle, SameRest, SameLinks
    <3>. QED  BY <1>2, <2>3, <2>6, <2>7, <2>9, <3>2, SignalStep DEF SameRest, SameLinks
  <2>. QED  BY <2>8, <2>9
<1>7. CASE v \in Address \ {a} /\ s.heap[v] # NoObject /\ SetValue(s, v)
  BY <1>1, <1>2, <1>4, <1>5, <1>7
<1>8. CASE v = a /\ s.created < MaxObjects /\ SetValue(Allocated(s, a), v)
  <2>. DEFINE u == Allocated(s, a)
  <2>1. server.heap \in [Address -> Object \union {NoObject}] /\ s.created \in Nat
    BY <1>1, <1>2, ServerParts, ConstantsAssumption DEF Structure
  <2>2. s.heap[a] = NoObject
    BY <1>2, <2>1
  <2>4. SetValue(u, v) /\ u = Allocated(s, a)
    BY <1>8
  <2>. HIDE DEF u
  <2>7. s.created < MaxObjects /\ Structure(s)
    BY <1>2, <1>8
  <2>3. /\ Structure(u) /\ SameLinks(s, u)
        /\ u.heap = [s.heap EXCEPT ![a] = s.created + 1]
        /\ u.pointer = s.pointer /\ u.service = s.service
    BY <2>2, <2>4, <2>7, AllocatedProperties
  <2>5. u.heap[v] # NoObject
    BY <1>2, <1>8, <2>1, <2>3 DEF NoObject
  <2>6. SameLinks(server, u)
    BY <1>2, <2>3 DEF SameLinks
  <2>. QED  BY <1>1, <1>4, <1>5, <1>8, <2>3, <2>4, <2>5, <2>6
<1>. QED  BY <1>3, <1>6, <1>7, <1>8

\* The first client to ask connects the signals; each gets what the handler knows.
Replied(c) ==
  /\ server'.connected /\ server'.previousPath = server.previousPath
  /\ server'.late = server.late
  /\ server.connected => server' = server
  /\ Send(c, [kind |-> "snapshot", path |-> server'.adapter])
  /\ proxies' = [proxies EXCEPT ![c].joined = TRUE]

LEMMA PropertiesStep ==
  ASSUME ServerInv(server), NEW c \in Client, HandleProperties(c)
  PROVE  ServerInv(server') /\ Replied(c)
<1>. DEFINE t == Update(server)
            s == IF server.connected THEN server ELSE [t EXCEPT !.connected = TRUE]
<1>1. /\ server' = s /\ Send(c, [kind |-> "snapshot", path |-> s.adapter])
      /\ proxies' = [proxies EXCEPT ![c].joined = TRUE]
  BY DEF HandleProperties
<1>2. CASE server.connected
  <2>1. server' = server
    BY <1>1, <1>2
  <2>. QED  BY <1>1, <1>2, <2>1 DEF Replied
<1>3. CASE ~server.connected
  <2>1. /\ Structure(server) /\ Pointing(server) /\ SettledInv(server) /\ HandlerIdle(server)
    BY <1>3 DEF ServerInv, HandlerInv
  <2>2. Linked(server)
    BY <2>1 DEF Linked, HandlerIdle
  <2>3. Structure(t) /\ SameProperty(server, t) /\ HandlerKnows(t)
    BY <2>1, <2>2, UpdateProperties
  <2>4. s = [t EXCEPT !.connected = TRUE]
    BY <1>3
  <2>. HIDE DEF t, s
  <2>5. t \in Server
    BY <2>3 DEF Structure
  <2>6. /\ s \in Server /\ s.heap = t.heap /\ s.created = t.created
        /\ s.subs = t.subs /\ s.doomed = t.doomed /\ s.nextPath = t.nextPath
        /\ s.value = t.value /\ s.previous = t.previous /\ s.pointer = t.pointer
        /\ s.valueChanged = t.valueChanged /\ s.service = t.service /\ s.adapter = t.adapter
        /\ s.previousPath = t.previousPath /\ s.late = t.late
    BY <2>4, <2>5 DEF Server
  <2>7. s.connected = TRUE
    BY <2>4, <2>5 DEF Server
  <2>8. Structure(s)
    BY <2>3, <2>6, StructureKept
  <2>9. Pointing(s) /\ SettledInv(s)
    BY <2>1, <2>3, <2>6 DEF Pointing, SettledInv, SameProperty, Target
  <2>10. HandlerKnows(s)
    BY <2>3, <2>6 DEF HandlerKnows, Target, Current
  <2>11. s.previousPath = server.previousPath /\ s.late = server.late
    BY <2>3, <2>6 DEF SameProperty
  <2>. QED  BY <1>1, <1>3, <2>7, <2>8, <2>9, <2>10, <2>11
            DEF ServerInv, HandlerInv, Replied
<1>. QED  BY <1>2, <1>3

LEMMA CallStep ==
  ASSUME ServerInv(server), NEW c \in Client, HandleCall(c)
  PROVE  /\ ServerInv(server') /\ SameTruth
         /\ \/ UNCHANGED inbox
            \/ \E path \in Path : Send(c, [kind |-> "reply", path |-> path])
<1>1. CASE UNCHANGED <<server, inbox>>
  BY <1>1 DEF SameTruth
<1>2. ASSUME NEW a \in Address, server.heap[a] # NoObject,
             server' = GetOrCreateAdapter(server, a),
             Send(c, [kind |-> "reply", path |-> PathOf(GetOrCreateAdapter(server, a), a)])
      PROVE  /\ ServerInv(server') /\ SameTruth
             /\ \E path \in Path : Send(c, [kind |-> "reply", path |-> path])
  <2>1. Structure(server) /\ Pointing(server) /\ HandlerInv(server) /\ SettledInv(server)
    BY DEF ServerInv
  <2>2. /\ Structure(server') /\ SameProperty(server, server')
        /\ server'.service = server.service /\ server'.adapter = server.adapter
        /\ server.subs \subseteq server'.subs
        /\ \A x \in server'.subs \ server.subs : x.object = server.heap[a]
        /\ \E x \in server'.subs : x.object = server'.heap[a] /\ x.path = PathOf(server', a)
    BY <1>2, <2>1, GetOrCreateProperties
  <2>3. PathOf(server', a) \in Path
    BY <2>2, ServerParts, AdapterParts DEF Structure
  <2>4. ASSUME server.connected, server.value # Null
        PROVE  {x \in server'.subs : x.object = server.heap[server.value]} =
                 {x \in server.subs : x.object = server.heap[server.value]}
    <3>1. PICK y \in server.subs : y.object = server.heap[server.value]
      BY <2>1, <2>4 DEF HandlerInv, HandlerKnows, Current
    <3>2. \A x \in server'.subs : x.object = y.object => x = y
      BY <2>2, <3>1 DEF Structure, AdaptersInv
    <3>. QED  BY <2>2, <3>1, <3>2
  <2>5. /\ SameLinks(server, server') /\ server'.heap = server.heap
        /\ server'.pointer = server.pointer
    BY <2>2 DEF SameProperty, SameLinks
  <2>6. ServerInv(server') /\ (server.connected => Current(server') = Current(server))
    BY <2>2, <2>4, <2>5, LinksKept
  <2>7. Send(c, [kind |-> "reply", path |-> PathOf(server', a)])
    BY <1>2
  <2>. QED  BY <2>3, <2>5, <2>6, <2>7 DEF SameTruth, SameLinks
<1>. QED  BY <1>1, <1>2 DEF HandleCall

-----------------------------------------------------------------------------
(***************************************************************************)
(* Messages on their way.                                                  *)
(***************************************************************************)
LEMMA MessageParts ==
  ASSUME NEW m \in Message
  PROVE  /\ m.kind \in {"snapshot", "signal", "reply", "sub"}
         /\ m.path \in Path \union {NoPath}
         /\ m.kind = "signal" => m.changed \in BOOLEAN
         /\ m.kind \in {"reply", "sub"} => m.path \in Path
BY DEF Message

LEMMA MessageTypes ==
  ASSUME NEW path \in Path \union {NoPath}
  PROVE  /\ [kind |-> "snapshot", path |-> path] \in Message
         /\ \A changed \in BOOLEAN :
              [kind |-> "signal", changed |-> changed, path |-> path] \in Message
         /\ path \in Path => /\ [kind |-> "reply", path |-> path] \in Message
                             /\ [kind |-> "sub", path |-> path] \in Message
BY DEF Message

LEMMA RequestTypes ==
  /\ [kind |-> "properties"] \in Request /\ [kind |-> "call"] \in Request
  /\ \A path \in Path : [kind |-> "sub", path |-> path] \in Request
  /\ \A r \in Request : r.kind = "sub" => r.path \in Path
BY DEF Request

LEMMA HasAppend ==
  ASSUME NEW S, NEW queue \in Seq(S), NEW m \in S, NEW kind, Has(Append(queue, m), kind)
  PROVE  Has(queue, kind) \/ m.kind = kind
BY LenProperties, AppendProperties DEF Has

LEMMA HasTail ==
  ASSUME NEW S, NEW queue \in Seq(S), queue # <<>>, NEW kind
  PROVE  /\ Has(Tail(queue), kind) => Has(queue, kind)
         /\ Head(queue).kind = kind => Has(queue, kind)
<1>1. /\ Len(queue) \in Nat /\ Len(queue) >= 1
      /\ Len(Tail(queue)) = Len(queue) - 1
      /\ \A n \in 1 .. Len(queue) - 1 : Tail(queue)[n] = queue[n + 1]
      /\ Head(queue) = queue[1]
  BY LenProperties, HeadTailProperties, EmptySeq
<1>2. \A n \in 1 .. Len(queue) - 1 : n + 1 \in 1 .. Len(queue)
  BY <1>1
<1>. QED  BY <1>1, <1>2 DEF Has

\* The last message that decides is what a proxy ends with.
LEMMA EndsAppend ==
  ASSUME NEW queue \in Seq(Message), NEW m \in Message, NEW reference
  PROVE  /\ Decides(m) => Ends(Append(queue, m), reference, m.path)
         /\ ~Decides(m) => \A path : Ends(queue, reference, path) =>
                                       Ends(Append(queue, m), reference, path)
<1>. DEFINE longer == Append(queue, m)
<1>1. /\ Len(queue) \in Nat /\ Len(longer) = Len(queue) + 1
      /\ longer[Len(queue) + 1] = m
      /\ \A n \in 1 .. Len(queue) : longer[n] = queue[n]
  BY LenProperties, AppendProperties
<1>. HIDE DEF longer
<1>2. ASSUME Decides(m)
      PROVE  Ends(longer, reference, m.path)
  BY <1>1, <1>2 DEF Ends
<1>3. ASSUME ~Decides(m), NEW path, Ends(queue, reference, path)
      PROVE  Ends(longer, reference, path)
  <2>1. \A n \in 1 .. Len(longer) : n \in 1 .. Len(queue) \/ n = Len(queue) + 1
    BY <1>1
  <2>2. ASSUME NEW n \in 1 .. Len(queue), Decides(queue[n]), queue[n].path = path,
               \A k \in n + 1 .. Len(queue) : ~Decides(queue[k])
        PROVE  Ends(longer, reference, path)
    <3>1. n \in 1 .. Len(longer) /\ Decides(longer[n]) /\ longer[n].path = path
      BY <1>1, <2>2
    <3>2. ASSUME NEW k \in n + 1 .. Len(longer)
          PROVE  ~Decides(longer[k])
      <4>1. k = Len(queue) + 1 \/ (k \in n + 1 .. Len(queue) /\ k \in 1 .. Len(queue))
        BY <1>1
      <4>. QED  BY <1>1, <1>3, <2>2, <4>1
    <3>. QED  BY <3>1, <3>2 DEF Ends
  <2>3. ASSUME \A n \in 1 .. Len(queue) : ~Decides(queue[n]), reference = path
        PROVE  Ends(longer, reference, path)
    BY <1>1, <1>3, <2>1, <2>3 DEF Ends
  <2>. QED  BY <1>3, <2>2, <2>3 DEF Ends
<1>. QED  BY <1>2, <1>3 DEF longer

LEMMA EndsTail ==
  ASSUME NEW queue \in Seq(Message), queue # <<>>, NEW reference, NEW path,
         Ends(queue, reference, path)
  PROVE  Ends(Tail(queue), IF Decides(Head(queue)) THEN Head(queue).path ELSE reference, path)
<1>. DEFINE rest == Tail(queue)
            base == IF Decides(Head(queue)) THEN Head(queue).path ELSE reference
<1>1. /\ Len(queue) \in Nat /\ Len(queue) >= 1
      /\ Len(rest) = Len(queue) - 1
      /\ \A n \in 1 .. Len(queue) - 1 : rest[n] = queue[n + 1]
      /\ Head(queue) = queue[1]
  BY LenProperties, HeadTailProperties, EmptySeq
<1>. HIDE DEF rest
<1>2. \A n \in 1 .. Len(rest) : n + 1 \in 2 .. Len(queue) /\ rest[n] = queue[n + 1]
  BY <1>1
<1>3. ASSUME NEW n \in 1 .. Len(queue), Decides(queue[n]), queue[n].path = path,
             \A k \in n + 1 .. Len(queue) : ~Decides(queue[k])
      PROVE  Ends(rest, base, path)
  <2>1. CASE n = 1
    <3>1. base = path
      BY <1>1, <1>3, <2>1
    <3>2. \A k \in 1 .. Len(rest) : ~Decides(rest[k])
      BY <1>1, <1>2, <1>3, <2>1
    <3>. HIDE DEF base
    <3>. QED  BY <3>1, <3>2 DEF Ends
  <2>2. CASE n # 1
    <3>1. n - 1 \in 1 .. Len(rest) /\ (n - 1) + 1 = n
      BY <1>1, <2>2
    <3>2. rest[n - 1] = queue[n]
      BY <1>2, <3>1
    <3>3. ASSUME NEW k \in (n - 1) + 1 .. Len(rest)
          PROVE  ~Decides(rest[k])
      <4>1. k \in 1 .. Len(rest) /\ k + 1 \in n + 1 .. Len(queue)
        BY <1>1, <3>1
      <4>. QED  BY <1>2, <1>3, <4>1
    <3>. QED  BY <1>3, <3>1, <3>2, <3>3 DEF Ends
  <2>. QED  BY <2>1, <2>2
<1>4. ASSUME \A n \in 1 .. Len(queue) : ~Decides(queue[n]), reference = path
      PROVE  Ends(rest, base, path)
  <2>1. base = path
    BY <1>1, <1>4
  <2>2. \A k \in 1 .. Len(rest) : ~Decides(rest[k])
    BY <1>1, <1>2, <1>4
  <2>. HIDE DEF base
  <2>. QED  BY <2>1, <2>2 DEF Ends
<1>. QED  BY <1>3, <1>4 DEF Ends, rest

LEMMA EndsNow ==
  ASSUME NEW queue, queue = <<>>, NEW reference, NEW path, Ends(queue, reference, path)
  PROVE  reference = path
BY DEF Ends

-----------------------------------------------------------------------------
(***************************************************************************)
(* What a step does to one client.                                         *)
(***************************************************************************)
LEMMA QueueTypes ==
  ASSUME QueuesType, NEW c \in Client
  PROVE  /\ requests[c] \in Seq(Request) /\ inbox[c] \in Seq(Message)
         /\ proxies[c] \in ProxyState
BY DEF QueuesType

\* For a client that was answered, the truth is what it was.
Kept ==
  server.connected =>
    /\ server'.connected /\ server'.previousPath = server.previousPath
    /\ server'.late = server.late /\ Current(server') = Current(server)

LEMMA KeptSteps == SameTruth \/ UNCHANGED server => Kept
BY DEF SameTruth, Kept

\* A proxy has what it had, and was sent nothing it takes its reference from.
Untouched(c) ==
  /\ proxies'[c].complete = proxies[c].complete
  /\ proxies'[c].reference = proxies[c].reference
  /\ proxies'[c].joined = proxies[c].joined
  /\ proxies[c].connected => proxies'[c].connected
  /\ \/ inbox'[c] = inbox[c]
     \/ \E m \in Message : /\ m.kind \in {"reply", "sub"}
                           /\ inbox'[c] = Append(inbox[c], m)

AsksRight(c) == Has(requests'[c], "properties") => proxies'[c].connected

LEMMA UntouchedKept ==
  ASSUME NEW c \in Client, QueuesType, ClientInv(c), Kept, Untouched(c), AsksRight(c)
  PROVE  ClientInv(c)'
<1>1. inbox[c] \in Seq(Message)
  BY QueueTypes
<1>2. /\ Has(inbox'[c], "snapshot") => Has(inbox[c], "snapshot")
      /\ \A path : Ends(inbox[c], proxies[c].reference, path) =>
                     Ends(inbox'[c], proxies[c].reference, path)
  <2>1. ASSUME NEW m \in Message, m.kind \in {"reply", "sub"},
               inbox'[c] = Append(inbox[c], m)
        PROVE  /\ Has(inbox'[c], "snapshot") => Has(inbox[c], "snapshot")
               /\ \A path : Ends(inbox[c], proxies[c].reference, path) =>
                              Ends(inbox'[c], proxies[c].reference, path)
    <3>1. ~Decides(m) /\ m.kind # "snapshot"
      BY <2>1 DEF Decides
    <3>. QED  BY <1>1, <2>1, <3>1, HasAppend, EndsAppend
  <2>. QED  BY <2>1 DEF Untouched
<1>3. Answered(c)' => Answered(c)
  BY <1>2 DEF Answered, Untouched
<1>4. Answered(c) => server.connected /\ proxies[c].connected
  BY DEF ClientInv, LinkInv
<1>5. LinkInv(c)'
  BY <1>3, <1>4 DEF LinkInv, Kept, Untouched, AsksRight
<1>6. LastSentInv(c)'
  BY <1>2, <1>3, <1>4 DEF ClientInv, LastSentInv, Kept, Untouched
<1>7. TruthInv(c)'
  BY <1>2, <1>3, <1>4 DEF ClientInv, TruthInv, EndsCurrent, Kept, Untouched
<1>. QED  BY <1>5, <1>6, <1>7 DEF ClientInv

\* Delivering a message that decides makes the proxy's reference what it says.
LEMMA DeliveredKept ==
  ASSUME NEW c \in Client, QueuesType, ClientInv(c), UNCHANGED server,
         inbox[c] # <<>>, inbox'[c] = Tail(inbox[c]),
         proxies'[c].complete = (proxies[c].complete \/ Head(inbox[c]).kind = "snapshot"),
         proxies'[c].joined = proxies[c].joined,
         proxies'[c].connected = proxies[c].connected,
         proxies'[c].reference =
           IF Decides(Head(inbox[c])) THEN Head(inbox[c]).path ELSE proxies[c].reference,
         AsksRight(c)
  PROVE  ClientInv(c)'
<1>1. inbox[c] \in Seq(Message)
  BY QueueTypes
<1>2. /\ Has(inbox'[c], "snapshot") => Has(inbox[c], "snapshot")
      /\ Head(inbox[c]).kind = "snapshot" => Has(inbox[c], "snapshot")
      /\ \A path : Ends(inbox[c], proxies[c].reference, path) =>
                     Ends(inbox'[c], proxies'[c].reference, path)
  BY <1>1, HasTail, EndsTail
<1>3. Answered(c)' => Answered(c)
  BY <1>2 DEF Answered
<1>4. LinkInv(c)'
  BY <1>3 DEF ClientInv, LinkInv, AsksRight
<1>5. LastSentInv(c)'
  BY <1>2, <1>3 DEF ClientInv, LastSentInv
<1>6. TruthInv(c)'
  BY <1>2, <1>3 DEF ClientInv, TruthInv, EndsCurrent
<1>. QED  BY <1>4, <1>5, <1>6 DEF ClientInv

LEMMA TruthSent ==
  ASSUME ServerInv(server'), server'.connected
  PROVE  server'.late \/ server'.adapter \in Current(server')
BY DEF ServerInv, HandlerInv, HandlerKnows

\* A signal that says nothing new finds what was sent last in its place.
LEMMA SignalledKept ==
  ASSUME NEW c \in Client, QueuesType, ClientInv(c),
         ServerInv(server'), Signalled, UNCHANGED requests
  PROVE  ClientInv(c)'
<1>. DEFINE path == server'.adapter
            changed == path # server.previousPath
            m == [kind |-> "signal", changed |-> changed, path |-> path]
<1>0. /\ inbox[c] \in Seq(Message) /\ proxies[c] \in ProxyState
      /\ path \in Path \union {NoPath} /\ changed \in BOOLEAN
  BY QueueTypes, ServerParts DEF ServerInv, Structure
<1>1. /\ server'.connected /\ server'.previousPath = path
      /\ inbox'[c] = IF Subscribed(c) THEN Append(inbox[c], m) ELSE inbox[c]
      /\ proxies'[c] = [proxies[c] EXCEPT !.joined = @ /\ ~(changed /\ Subscribed(c))]
  BY DEF Signalled, Told
<1>2. m \in Message /\ m.kind = "signal" /\ m.path = path /\ m.changed = changed
  BY <1>0, MessageTypes
<1>3. server'.late \/ path \in Current(server')
  BY <1>1, TruthSent
<1>. HIDE DEF m, changed, path
<1>4. /\ proxies'[c].complete = proxies[c].complete
      /\ proxies'[c].reference = proxies[c].reference
      /\ proxies'[c].connected = proxies[c].connected
      /\ proxies'[c].joined = (proxies[c].joined /\ ~(changed /\ Subscribed(c)))
  BY <1>0, <1>1 DEF ProxyState
<1>5. CASE ~Subscribed(c)
  <2>1. ~Answered(c)
    BY <1>5 DEF ClientInv, LinkInv, Subscribed
  <2>2. ~Answered(c)'
    BY <1>1, <1>4, <1>5, <2>1 DEF Answered
  <2>. QED  BY <1>4, <2>2 DEF ClientInv, LinkInv, LastSentInv, TruthInv
<1>6. CASE Subscribed(c)
  <2>1. inbox'[c] = Append(inbox[c], m) /\ proxies[c].connected
    BY <1>1, <1>6 DEF Subscribed
  <2>2. Answered(c)' => Answered(c)
    BY <1>0, <1>2, <1>4, <2>1, HasAppend DEF Answered
  <2>3. LinkInv(c)'
    BY <1>1, <1>4, <2>1 DEF LinkInv
  <2>4. CASE changed
    <3>1. Decides(m)
      BY <1>2, <2>4 DEF Decides
    <3>2. Ends(inbox'[c], proxies'[c].reference, path)
      BY <1>0, <1>2, <2>1, <3>1, EndsAppend
    <3>3. LastSentInv(c)'
      BY <1>1, <3>2 DEF LastSentInv
    <3>4. TruthInv(c)'
      BY <1>3, <3>2 DEF TruthInv, EndsCurrent
    <3>. QED  BY <2>3, <3>3, <3>4 DEF ClientInv
  <2>5. CASE ~changed
    <3>1. ~Decides(m)
      BY <1>2, <2>5 DEF Decides
    <3>2. \A p : Ends(inbox[c], proxies[c].reference, p) => Ends(inbox'[c], proxies'[c].reference, p)
      BY <1>0, <1>2, <1>4, <2>1, <3>1, EndsAppend
    <3>3. server'.previousPath = server.previousPath /\ proxies'[c].joined = proxies[c].joined
      BY <1>0, <1>1, <1>4, <2>5 DEF changed, ProxyState
    <3>4. LastSentInv(c)'
      BY <2>2, <3>2, <3>3 DEF ClientInv, LastSentInv
    <3>5. TruthInv(c)'
      BY <1>1, <1>3, <3>4 DEF LastSentInv, TruthInv, EndsCurrent
    <3>. QED  BY <2>3, <3>4, <3>5 DEF ClientInv
  <2>. QED  BY <2>4, <2>5
<1>. QED  BY <1>5, <1>6

\* A snapshot is the truth.
LEMMA RepliedKept ==
  ASSUME NEW c \in Client, NEW d \in Client, QueuesType, ClientInv(d),
         ServerInv(server'), Replied(c), proxies[c].connected, AsksRight(d)
  PROVE  ClientInv(d)'
<1>. DEFINE path == server'.adapter
            m == [kind |-> "snapshot", path |-> path]
<1>0. /\ inbox[d] \in Seq(Message) /\ proxies[d] \in ProxyState
      /\ inbox[c] \in Seq(Message) /\ inbox \in [Client -> Seq(Message)]
      /\ proxies \in [Client -> ProxyState]
      /\ path \in Path \union {NoPath}
  BY QueueTypes, ServerParts DEF ServerInv, Structure, QueuesType
<1>1. /\ server'.connected
      /\ inbox' = [inbox EXCEPT ![c] = Append(@, m)]
      /\ proxies' = [proxies EXCEPT ![c].joined = TRUE]
  BY DEF Replied, Send
<1>2. m \in Message /\ m.kind = "snapshot" /\ m.path = path /\ Decides(m)
  BY <1>0, MessageTypes DEF Decides
<1>3. server'.late \/ path \in Current(server')
  BY <1>1, TruthSent
<1>. HIDE DEF m, path
<1>4. CASE d = c
  <2>1. /\ inbox'[d] = Append(inbox[d], m)
        /\ proxies'[d].joined = TRUE
        /\ proxies'[d].connected = proxies[d].connected
    BY <1>0, <1>1, <1>4 DEF ProxyState
  <2>2. Ends(inbox'[d], proxies'[d].reference, path)
    BY <1>0, <1>2, <2>1, EndsAppend
  <2>3. LinkInv(d)'
    BY <1>1, <1>4, <2>1 DEF LinkInv, AsksRight
  <2>4. LastSentInv(d)'
    BY <2>1 DEF LastSentInv
  <2>5. TruthInv(d)'
    BY <1>3, <2>2 DEF TruthInv, EndsCurrent
  <2>. QED  BY <2>3, <2>4, <2>5 DEF ClientInv
<1>5. CASE d # c
  <2>1. inbox'[d] = inbox[d] /\ proxies'[d] = proxies[d]
    BY <1>0, <1>1, <1>5
  <2>2. Kept
    BY DEF Replied, Kept
  <2>3. Untouched(d)
    BY <2>1 DEF Untouched
  <2>. QED  BY <2>2, <2>3, UntouchedKept
<1>. QED  BY <1>4, <1>5

-----------------------------------------------------------------------------
(***************************************************************************)
(* The queues, action by action.                                           *)
(***************************************************************************)
RequestsKept ==
  /\ requests' \in [Client -> Seq(Request)]
  /\ \A d \in Client : Has(requests'[d], "properties") => Has(requests[d], "properties")

LEMMA RequestReceived ==
  ASSUME QueuesType, NEW c \in Client, NEW kind, Receives(c, kind)
  PROVE  RequestsKept /\ Has(requests[c], kind) /\ Head(requests[c]) \in Request
<1>1. /\ requests \in [Client -> Seq(Request)] /\ requests[c] \in Seq(Request)
      /\ requests[c] # <<>> /\ Head(requests[c]).kind = kind
      /\ requests' = [requests EXCEPT ![c] = Tail(@)]
  BY DEF QueuesType, Receives
<1>2. Tail(requests[c]) \in Seq(Request) /\ Head(requests[c]) \in Request
  BY <1>1, HeadTailProperties
<1>3. /\ Has(Tail(requests[c]), "properties") => Has(requests[c], "properties")
      /\ Has(requests[c], kind)
  BY <1>1, HasTail
<1>. QED  BY <1>1, <1>2, <1>3 DEF RequestsKept

LEMMA RequestSent ==
  ASSUME QueuesType, NEW c \in Client, NEW r \in Request,
         requests' = [requests EXCEPT ![c] = Append(@, r)]
  PROVE  /\ requests' \in [Client -> Seq(Request)]
         /\ \A d \in Client : Has(requests'[d], "properties") =>
              Has(requests[d], "properties") \/ (d = c /\ r.kind = "properties")
<1>1. requests \in [Client -> Seq(Request)] /\ requests[c] \in Seq(Request)
  BY DEF QueuesType
<1>2. Append(requests[c], r) \in Seq(Request)
  BY <1>1, AppendProperties
<1>3. Has(Append(requests[c], r), "properties") =>
        Has(requests[c], "properties") \/ r.kind = "properties"
  BY <1>1, HasAppend
<1>. QED  BY <1>1, <1>2, <1>3

LEMMA RequestsSame ==
  ASSUME QueuesType, UNCHANGED requests
  PROVE  RequestsKept
BY DEF QueuesType, RequestsKept

LEMMA MessageSent ==
  ASSUME QueuesType, NEW c \in Client, NEW m \in Message, Send(c, m)
  PROVE  /\ inbox' \in [Client -> Seq(Message)]
         /\ inbox'[c] = Append(inbox[c], m)
         /\ \A d \in Client \ {c} : inbox'[d] = inbox[d]
<1>1. inbox \in [Client -> Seq(Message)] /\ inbox[c] \in Seq(Message)
  BY DEF QueuesType
<1>2. Append(inbox[c], m) \in Seq(Message)
  BY <1>1, AppendProperties
<1>. QED  BY <1>1, <1>2 DEF Send

LEMMA MessageDelivered ==
  ASSUME QueuesType, NEW c \in Client, NEW kind, Delivers(c, kind)
  PROVE  /\ inbox' \in [Client -> Seq(Message)]
         /\ inbox[c] # <<>> /\ inbox'[c] = Tail(inbox[c])
         /\ Head(inbox[c]) \in Message /\ Head(inbox[c]).kind = kind
         /\ \A d \in Client \ {c} : inbox'[d] = inbox[d]
<1>1. inbox \in [Client -> Seq(Message)] /\ inbox[c] \in Seq(Message)
  BY DEF QueuesType
<1>2. inbox[c] # <<>> /\ Head(inbox[c]).kind = kind /\ inbox' = [inbox EXCEPT ![c] = Tail(@)]
  BY DEF Delivers
<1>3. Tail(inbox[c]) \in Seq(Message) /\ Head(inbox[c]) \in Message
  BY <1>1, <1>2, HeadTailProperties
<1>. QED  BY <1>1, <1>2, <1>3

\* The sub-proxy of a path changes nothing else in the proxy.
LEMMA SubProxyMade ==
  ASSUME QueuesType, NEW c \in Client, NEW p \in ProxyState, NEW path \in Path \union {NoPath},
         GetOrCreateSubProxy(c, p, path)
  PROVE  /\ RequestsKept
         /\ proxies' \in [Client -> ProxyState]
         /\ proxies'[c].complete = p.complete /\ proxies'[c].reference = p.reference
         /\ proxies'[c].joined = p.joined /\ proxies'[c].connected = p.connected
         /\ \A d \in Client \ {c} : proxies'[d] = proxies[d]
<1>1. proxies \in [Client -> ProxyState]
  BY DEF QueuesType
<1>2. ASSUME NEW more \in SUBSET Path,
             proxies' = [proxies EXCEPT ![c] = [p EXCEPT !.subs = @ \union more]]
      PROVE  /\ proxies' \in [Client -> ProxyState]
             /\ proxies'[c].complete = p.complete /\ proxies'[c].reference = p.reference
             /\ proxies'[c].joined = p.joined /\ proxies'[c].connected = p.connected
             /\ \A d \in Client \ {c} : proxies'[d] = proxies[d]
  <2>. DEFINE q == [p EXCEPT !.subs = @ \union more]
  <2>1. /\ q \in ProxyState /\ q.complete = p.complete /\ q.reference = p.reference
        /\ q.joined = p.joined /\ q.connected = p.connected
    BY DEF ProxyState
  <2>2. proxies' = [proxies EXCEPT ![c] = q]
    BY <1>2
  <2>. HIDE DEF q
  <2>. QED  BY <1>1, <2>1, <2>2
<1>3. CASE path \notin {NoPath} \union p.subs /\ path \in p.replica
  <2>. DEFINE r == [kind |-> "sub", path |-> path]
  <2>1. /\ proxies' = [proxies EXCEPT ![c] = [p EXCEPT !.subs = @ \union {path}]]
        /\ requests' = [requests EXCEPT ![c] = Append(@, r)]
    BY <1>3 DEF GetOrCreateSubProxy
  <2>2. {path} \in SUBSET Path /\ r \in Request /\ r.kind # "properties"
    BY <1>3, RequestTypes
  <2>. HIDE DEF r
  <2>3. RequestsKept
    BY <2>1, <2>2, RequestSent DEF RequestsKept
  <2>. QED  BY <1>2, <2>1, <2>2, <2>3
<1>4. CASE ~(path \notin {NoPath} \union p.subs /\ path \in p.replica)
  <2>1. /\ proxies' = [proxies EXCEPT ![c] = [p EXCEPT !.subs = @ \union ({path} \ {NoPath})]]
        /\ UNCHANGED requests
    BY <1>4 DEF GetOrCreateSubProxy
  <2>2. {path} \ {NoPath} \in SUBSET Path
    OBVIOUS
  <2>. QED  BY <1>2, <2>1, <2>2, RequestsSame
<1>. QED  BY <1>3, <1>4

LEMMA AsksRightKept ==
  ASSUME NEW d \in Client, ClientInv(d), RequestsKept,
         proxies[d].connected => proxies'[d].connected
  PROVE  AsksRight(d)
BY DEF ClientInv, LinkInv, RequestsKept, AsksRight

\* Steps that change only the server and what its property's signal tells.
LEMMA ServerStep ==
  ASSUME IInv, ServerInv(server'), Signalled \/ Unheard, UNCHANGED requests
  PROVE  IInv'
<1>1. QueuesType /\ \A d \in Client : ClientInv(d)
  BY DEF IInv
<1>2. CASE Unheard
  <2>1. QueuesType'
    BY <1>1, <1>2 DEF QueuesType, Unheard
  <2>2. ASSUME NEW d \in Client
        PROVE  ClientInv(d)'
    <3>1. Untouched(d) /\ Kept
      BY <1>2, KeptSteps DEF Untouched, Unheard
    <3>2. AsksRight(d)
      BY <1>1, <1>2, RequestsSame, AsksRightKept DEF Unheard
    <3>. QED  BY <1>1, <3>1, <3>2, UntouchedKept
  <2>. QED  BY <2>1, <2>2 DEF IInv
<1>3. CASE Signalled
  <2>. DEFINE path == server'.adapter
              changed == path # server.previousPath
              m == [kind |-> "signal", changed |-> changed, path |-> path]
  <2>1. path \in Path \union {NoPath}
    BY ServerParts DEF ServerInv, Structure
  <2>2. m \in Message
    BY <2>1, MessageTypes
  <2>3. /\ inbox' = [c \in Client |-> IF Subscribed(c) THEN Append(inbox[c], m) ELSE inbox[c]]
        /\ proxies' = [c \in Client |-> [proxies[c] EXCEPT !.joined = @ /\ ~(changed /\ Subscribed(c))]]
    BY <1>3 DEF Signalled, Told
  <2>. HIDE DEF m, changed
  <2>4. inbox' \in [Client -> Seq(Message)]
    BY <1>1, <2>2, <2>3, AppendProperties DEF QueuesType
  <2>5. proxies' \in [Client -> ProxyState]
    <3>1. \A c \in Client : [proxies[c] EXCEPT !.joined = @ /\ ~(changed /\ Subscribed(c))] \in ProxyState
      BY <1>1 DEF QueuesType, ProxyState
    <3>. QED  BY <2>3, <3>1
  <2>6. QueuesType'
    BY <1>1, <2>4, <2>5 DEF QueuesType
  <2>7. \A d \in Client : ClientInv(d)'
    BY <1>1, <1>3, SignalledKept
  <2>. QED  BY <2>6, <2>7 DEF IInv
<1>. QED  BY <1>2, <1>3

\* Steps of a client that leave its inbox alone.
LEMMA ClientOnly ==
  ASSUME IInv, NEW c \in Client, UNCHANGED <<server, inbox>>, RequestsKept,
         NEW q \in ProxyState, proxies' = [proxies EXCEPT ![c] = q],
         q.complete = proxies[c].complete, q.reference = proxies[c].reference,
         q.joined = proxies[c].joined, q.connected = proxies[c].connected
  PROVE  IInv'
<1>1. QueuesType /\ \A d \in Client : ClientInv(d)
  BY DEF IInv
<1>2. QueuesType'
  BY <1>1 DEF QueuesType, RequestsKept
<1>3. ASSUME NEW d \in Client
      PROVE  ClientInv(d)'
  <2>1. Untouched(d) /\ (proxies[d].connected => proxies'[d].connected)
    BY <1>1 DEF QueuesType, Untouched
  <2>2. AsksRight(d)
    BY <1>1, <2>1, AsksRightKept
  <2>. QED  BY <1>1, <2>1, <2>2, KeptSteps, UntouchedKept
<1>. QED  BY <1>2, <1>3 DEF IInv

LEMMA ConnectStep ==
  ASSUME IInv, NEW c \in Client, Connect(c)
  PROVE  IInv'
<1>. DEFINE q == [proxies[c] EXCEPT !.connected = TRUE]
            r == [kind |-> "properties"]
<1>1. QueuesType /\ \A d \in Client : ClientInv(d)
  BY DEF IInv
<1>2. /\ proxies' = [proxies EXCEPT ![c].connected = TRUE]
      /\ requests' = [requests EXCEPT ![c] = Append(@, r)]
      /\ UNCHANGED <<server, inbox>>
  BY DEF Connect
<1>3. r \in Request
  BY RequestTypes
<1>4. /\ q \in ProxyState /\ q.complete = proxies[c].complete
      /\ q.reference = proxies[c].reference
      /\ q.joined = proxies[c].joined /\ q.connected
  BY <1>1 DEF QueuesType, ProxyState
<1>5. proxies' = [proxies EXCEPT ![c] = q]
  BY <1>2
<1>. HIDE DEF q, r
<1>6. /\ requests' \in [Client -> Seq(Request)]
      /\ \A d \in Client : Has(requests'[d], "properties") => Has(requests[d], "properties") \/ d = c
  BY <1>1, <1>2, <1>3, RequestSent
<1>7. QueuesType'
  BY <1>1, <1>2, <1>4, <1>5, <1>6 DEF QueuesType
<1>8. ASSUME NEW d \in Client
      PROVE  ClientInv(d)'
  <2>1. Untouched(d)
    BY <1>1, <1>2, <1>4, <1>5 DEF QueuesType, Untouched
  <2>2. AsksRight(d)
    BY <1>1, <1>4, <1>5, <1>6 DEF QueuesType, ClientInv, LinkInv, AsksRight
  <2>. QED  BY <1>1, <1>2, <2>1, <2>2, KeptSteps, UntouchedKept
<1>. QED  BY <1>2, <1>7, <1>8 DEF IInv

LEMMA CallOperationStep ==
  ASSUME IInv, NEW c \in Client, CallOperation(c)
  PROVE  IInv'
<1>. DEFINE r == [kind |-> "call"]
<1>1. QueuesType /\ proxies[c] \in ProxyState /\ proxies \in [Client -> ProxyState]
  BY DEF IInv, QueuesType
<1>2. /\ requests' = [requests EXCEPT ![c] = Append(@, r)]
      /\ UNCHANGED <<server, inbox, proxies>>
  BY DEF CallOperation
<1>3. r \in Request /\ r.kind # "properties"
  BY RequestTypes
<1>. HIDE DEF r
<1>4. RequestsKept
  BY <1>1, <1>2, <1>3, RequestSent DEF RequestsKept
<1>5. proxies' = [proxies EXCEPT ![c] = proxies[c]]
  BY <1>1, <1>2
<1>. QED  BY <1>1, <1>2, <1>4, <1>5, ClientOnly

LEMMA AddedStep ==
  ASSUME IInv, NEW c \in Client, OnAdded(c)
  PROVE  IInv'
<1>. DEFINE path == proxies[c].known + 1
            r == [kind |-> "sub", path |-> path]
            u == [proxies[c] EXCEPT !.known = path]
            q == [u EXCEPT !.replica = @ \union {path}]
<1>1. /\ QueuesType /\ proxies[c] \in ProxyState /\ proxies \in [Client -> ProxyState]
      /\ server.nextPath \in 1 .. MaxObjects + 1
  BY ServerParts DEF IInv, QueuesType, ServerInv, Structure
<1>2. /\ path < server.nextPath
      /\ proxies' = [proxies EXCEPT ![c].known = path, ![c].replica = @ \union {path}]
      /\ requests' = IF path \in proxies[c].subs
                     THEN [requests EXCEPT ![c] = Append(@, r)] ELSE requests
      /\ UNCHANGED <<server, inbox>>
  BY DEF OnAdded
<1>3. proxies[c].known \in Path \union {NoPath}
  BY <1>1 DEF ProxyState
<1>4. path \in Path
  <2>1. proxies[c].known \in Nat
    BY <1>3, ConstantsAssumption DEF Path, NoPath
  <2>. QED  BY <1>1, <1>2, <2>1, ConstantsAssumption DEF Path
<1>5. r \in Request /\ r.kind # "properties"
  BY <1>4, RequestTypes
<1>6. proxies' = [proxies EXCEPT ![c] = q]
  BY <1>1, <1>2
<1>. HIDE DEF path, r, q
<1>7. RequestsKept
  BY <1>1, <1>2, <1>5, RequestSent, RequestsSame DEF RequestsKept
<1>8. /\ u \in ProxyState /\ u.complete = proxies[c].complete
      /\ u.reference = proxies[c].reference /\ u.joined = proxies[c].joined
      /\ u.connected = proxies[c].connected
  BY <1>1, <1>4 DEF ProxyState
<1>. HIDE DEF u
<1>9. /\ q \in ProxyState /\ q.complete = u.complete /\ q.reference = u.reference
      /\ q.joined = u.joined /\ q.connected = u.connected
  BY <1>4, <1>8 DEF ProxyState, q
<1>. QED  BY <1>2, <1>6, <1>7, <1>8, <1>9, ClientOnly

LEMMA RemovedStep ==
  ASSUME IInv, NEW c \in Client, OnRemoved(c)
  PROVE  IInv'
<1>1. QueuesType /\ proxies[c] \in ProxyState /\ proxies \in [Client -> ProxyState]
  BY DEF IInv, QueuesType
<1>2. PICK path :
        proxies' = [proxies EXCEPT ![c].replica = @ \ {path}, ![c].available = @ \ {path}]
  BY DEF OnRemoved
<1>. DEFINE u == [proxies[c] EXCEPT !.replica = @ \ {path}]
            q == [u EXCEPT !.available = @ \ {path}]
<1>3. UNCHANGED <<server, requests, inbox>>
  BY DEF OnRemoved
<1>4. proxies' = [proxies EXCEPT ![c] = q]
  BY <1>1, <1>2
<1>. HIDE DEF q
<1>5. /\ u \in ProxyState /\ u.complete = proxies[c].complete
      /\ u.reference = proxies[c].reference /\ u.joined = proxies[c].joined
      /\ u.connected = proxies[c].connected
  BY <1>1 DEF ProxyState
<1>. HIDE DEF u
<1>6. /\ q \in ProxyState /\ q.complete = u.complete /\ q.reference = u.reference
      /\ q.joined = u.joined /\ q.connected = u.connected
  BY <1>5 DEF ProxyState, q
<1>. QED  BY <1>1, <1>3, <1>4, <1>5, <1>6, RequestsSame, ClientOnly

-----------------------------------------------------------------------------
LEMMA HandlePropertiesStep ==
  ASSUME IInv, NEW c \in Client, HandleProperties(c)
  PROVE  IInv'
<1>1. QueuesType /\ ServerInv(server) /\ \A d \in Client : ClientInv(d)
  BY DEF IInv
<1>2. ServerInv(server') /\ Replied(c)
  BY <1>1, PropertiesStep
<1>3. Receives(c, "properties")
  BY DEF HandleProperties
<1>4. RequestsKept /\ proxies[c].connected
  BY <1>1, <1>3, RequestReceived DEF ClientInv, LinkInv
<1>5. server'.adapter \in Path \union {NoPath}
  BY <1>2, ServerParts DEF ServerInv, Structure
<1>6. /\ inbox' \in [Client -> Seq(Message)]
      /\ proxies' \in [Client -> ProxyState]
      /\ \A d \in Client : proxies'[d].connected = proxies[d].connected
  <2>1. [kind |-> "snapshot", path |-> server'.adapter] \in Message
    BY <1>5, MessageTypes
  <2>2. inbox' \in [Client -> Seq(Message)]
    BY <1>1, <1>2, <2>1, MessageSent DEF Replied
  <2>3. /\ proxies' \in [Client -> ProxyState]
        /\ \A d \in Client : proxies'[d].connected = proxies[d].connected
    <3>1. proxies \in [Client -> ProxyState] /\ proxies[c] \in ProxyState
      BY <1>1 DEF QueuesType
    <3>2. proxies' = [proxies EXCEPT ![c].joined = TRUE]
      BY <1>2 DEF Replied
    <3>. QED  BY <3>1, <3>2 DEF ProxyState
  <2>. QED  BY <2>2, <2>3
<1>7. \A d \in Client : AsksRight(d)
  BY <1>1, <1>4, <1>6, AsksRightKept
<1>8. \A d \in Client : ClientInv(d)'
  BY <1>1, <1>2, <1>4, <1>7, RepliedKept
<1>. QED  BY <1>2, <1>4, <1>6, <1>8 DEF IInv, QueuesType, RequestsKept

\* Answers to calls carry no reference.
LEMMA AnswerSent ==
  ASSUME IInv, NEW c \in Client, ServerInv(server'), Kept, UNCHANGED proxies, RequestsKept,
         \/ UNCHANGED inbox
         \/ \E m \in Message : m.kind \in {"reply", "sub"} /\ Send(c, m)
  PROVE  IInv'
<1>1. QueuesType /\ \A d \in Client : ClientInv(d)
  BY DEF IInv
<1>2. /\ inbox' \in [Client -> Seq(Message)]
      /\ \A d \in Client : \/ inbox'[d] = inbox[d]
                           \/ \E m \in Message : /\ m.kind \in {"reply", "sub"}
                                                 /\ inbox'[d] = Append(inbox[d], m)
  <2>1. CASE UNCHANGED inbox
    BY <1>1, <2>1 DEF QueuesType
  <2>2. ASSUME NEW m \in Message, m.kind \in {"reply", "sub"}, Send(c, m)
        PROVE  /\ inbox' \in [Client -> Seq(Message)]
               /\ inbox'[c] = Append(inbox[c], m)
               /\ \A d \in Client \ {c} : inbox'[d] = inbox[d]
    BY <1>1, <2>2, MessageSent
  <2>. QED  BY <2>1, <2>2
<1>3. ASSUME NEW d \in Client
      PROVE  ClientInv(d)'
  <2>1. Untouched(d)
    BY <1>2 DEF Untouched
  <2>2. AsksRight(d)
    BY <1>1, AsksRightKept
  <2>. QED  BY <1>1, <2>1, <2>2, UntouchedKept
<1>. QED  BY <1>1, <1>2, <1>3 DEF IInv, QueuesType, RequestsKept

LEMMA HandleCallStep ==
  ASSUME IInv, NEW c \in Client, HandleCall(c)
  PROVE  IInv'
<1>1. QueuesType /\ ServerInv(server)
  BY DEF IInv
<1>2. /\ ServerInv(server') /\ SameTruth
      /\ \/ UNCHANGED inbox
         \/ \E path \in Path : Send(c, [kind |-> "reply", path |-> path])
  BY <1>1, CallStep
<1>3. Receives(c, "call") /\ UNCHANGED proxies
  BY DEF HandleCall
<1>4. RequestsKept
  BY <1>1, <1>3, RequestReceived
<1>5. \/ UNCHANGED inbox
      \/ \E m \in Message : m.kind \in {"reply", "sub"} /\ Send(c, m)
  BY <1>2, MessageTypes
<1>. QED  BY <1>2, <1>3, <1>4, <1>5, KeptSteps, AnswerSent

LEMMA HandleSubStep ==
  ASSUME IInv, NEW c \in Client, HandleSub(c)
  PROVE  IInv'
<1>. DEFINE path == Head(requests[c]).path
<1>1. QueuesType /\ ServerInv(server)
  BY DEF IInv
<1>2. /\ Receives(c, "sub") /\ UNCHANGED <<server, proxies>>
      /\ Send(c, [kind |-> "sub", path |-> path]) \/ UNCHANGED inbox
  BY DEF HandleSub
<1>3. RequestsKept /\ Head(requests[c]) \in Request /\ Head(requests[c]).kind = "sub"
  BY <1>1, <1>2, RequestReceived DEF Receives
<1>4. path \in Path
  BY <1>3, RequestTypes
<1>5. \/ UNCHANGED inbox
      \/ \E m \in Message : m.kind \in {"reply", "sub"} /\ Send(c, m)
  BY <1>2, <1>4, MessageTypes
<1>. QED  BY <1>1, <1>2, <1>3, <1>5, KeptSteps, AnswerSent

-----------------------------------------------------------------------------
\* The proxy takes its reference from messages that decide.
LEMMA Delivered ==
  ASSUME IInv, NEW c \in Client, NEW kind, Delivers(c, kind), UNCHANGED server, RequestsKept,
         proxies' \in [Client -> ProxyState],
         \A d \in Client \ {c} : proxies'[d] = proxies[d],
         proxies'[c].complete = (proxies[c].complete \/ kind = "snapshot"),
         proxies'[c].joined = proxies[c].joined,
         proxies'[c].connected = proxies[c].connected,
         proxies'[c].reference =
           IF Decides(Head(inbox[c])) THEN Head(inbox[c]).path ELSE proxies[c].reference
  PROVE  IInv'
<1>1. QueuesType /\ \A d \in Client : ClientInv(d)
  BY DEF IInv
<1>2. /\ inbox' \in [Client -> Seq(Message)]
      /\ inbox[c] # <<>> /\ inbox'[c] = Tail(inbox[c])
      /\ Head(inbox[c]).kind = kind
      /\ \A d \in Client \ {c} : inbox'[d] = inbox[d]
  BY <1>1, MessageDelivered
<1>3. ASSUME NEW d \in Client
      PROVE  ClientInv(d)'
  <2>1. CASE d = c
    <3>1. AsksRight(c)
      BY <1>1, AsksRightKept
    <3>2. proxies'[c].complete = (proxies[c].complete \/ Head(inbox[c]).kind = "snapshot")
      BY <1>2
    <3>. QED  BY <1>1, <1>2, <2>1, <3>1, <3>2, DeliveredKept
  <2>2. CASE d # c
    <3>1. inbox'[d] = inbox[d] /\ proxies'[d] = proxies[d]
      BY <1>2, <2>2
    <3>2. Untouched(d) /\ Kept
      BY <3>1, KeptSteps DEF Untouched
    <3>3. AsksRight(d)
      BY <1>1, <3>1, AsksRightKept
    <3>. QED  BY <1>1, <3>2, <3>3, UntouchedKept
  <2>. QED  BY <2>1, <2>2
<1>. QED  BY <1>1, <1>2, <1>3 DEF IInv, QueuesType, RequestsKept

LEMMA SnapshotStep ==
  ASSUME IInv, NEW c \in Client, OnSnapshot(c)
  PROVE  IInv'
<1>. DEFINE path == Head(inbox[c]).path
            u == [proxies[c] EXCEPT !.complete = TRUE]
            p == [u EXCEPT !.reference = path]
<1>1. QueuesType /\ proxies[c] \in ProxyState
  BY DEF IInv, QueuesType
<1>2. Delivers(c, "snapshot") /\ UNCHANGED server
  BY DEF OnSnapshot
<1>3. Head(inbox[c]) \in Message /\ Head(inbox[c]).kind = "snapshot"
  BY <1>1, <1>2, MessageDelivered
<1>4. path \in Path \union {NoPath} /\ Decides(Head(inbox[c]))
  BY <1>3, MessageParts DEF Decides
<1>5. GetOrCreateSubProxy(c, p, path)
  BY DEF OnSnapshot
<1>. HIDE DEF path, p
<1>6. /\ u \in ProxyState /\ u.complete = TRUE /\ u.joined = proxies[c].joined
      /\ u.connected = proxies[c].connected
  BY <1>1 DEF ProxyState
<1>. HIDE DEF u
<1>7. /\ p \in ProxyState /\ p.complete = u.complete /\ p.joined = u.joined
      /\ p.connected = u.connected /\ p.reference = path
  BY <1>4, <1>6 DEF ProxyState, p
<1>8. /\ RequestsKept
      /\ proxies' \in [Client -> ProxyState]
      /\ proxies'[c].complete = p.complete /\ proxies'[c].reference = p.reference
      /\ proxies'[c].joined = p.joined /\ proxies'[c].connected = p.connected
      /\ \A d \in Client \ {c} : proxies'[d] = proxies[d]
  BY <1>1, <1>4, <1>5, <1>7, SubProxyMade
<1>9. proxies'[c].reference =
        IF Decides(Head(inbox[c])) THEN Head(inbox[c]).path ELSE proxies[c].reference
  BY <1>4, <1>7, <1>8 DEF path
<1>10. proxies'[c].complete = (proxies[c].complete \/ "snapshot" = "snapshot")
  BY <1>6, <1>7, <1>8
<1>11. proxies'[c].joined = proxies[c].joined /\ proxies'[c].connected = proxies[c].connected
  BY <1>6, <1>7, <1>8
<1>. QED  BY <1>2, <1>8, <1>9, <1>10, <1>11, Delivered

LEMMA SignalDeliveredStep ==
  ASSUME IInv, NEW c \in Client, OnSignal(c)
  PROVE  IInv'
<1>. DEFINE path == Head(inbox[c]).path
            p == [proxies[c] EXCEPT !.reference = path]
<1>1. /\ QueuesType /\ proxies[c] \in ProxyState /\ proxies \in [Client -> ProxyState]
  BY DEF IInv, QueuesType
<1>2. Delivers(c, "signal") /\ UNCHANGED server
  BY DEF OnSignal
<1>3. Head(inbox[c]) \in Message /\ Head(inbox[c]).kind = "signal"
  BY <1>1, <1>2, MessageDelivered
<1>4. /\ path \in Path \union {NoPath}
      /\ Decides(Head(inbox[c])) <=> Head(inbox[c]).changed
  BY <1>3, MessageParts DEF Decides
<1>5. proxies[c].complete \in BOOLEAN
  BY <1>1 DEF ProxyState
<1>6. CASE Head(inbox[c]).changed
  <2>1. GetOrCreateSubProxy(c, p, path)
    BY <1>6 DEF OnSignal
  <2>2. /\ p \in ProxyState /\ p.complete = proxies[c].complete
        /\ p.joined = proxies[c].joined
        /\ p.connected = proxies[c].connected /\ p.reference = path
    BY <1>1, <1>4 DEF ProxyState
  <2>. HIDE DEF path, p
  <2>3. /\ RequestsKept
        /\ proxies' \in [Client -> ProxyState]
        /\ proxies'[c].complete = p.complete /\ proxies'[c].reference = p.reference
        /\ proxies'[c].joined = p.joined /\ proxies'[c].connected = p.connected
        /\ \A d \in Client \ {c} : proxies'[d] = proxies[d]
    BY <1>1, <1>4, <2>1, <2>2, SubProxyMade
  <2>4. proxies'[c].reference =
          IF Decides(Head(inbox[c])) THEN Head(inbox[c]).path ELSE proxies[c].reference
    BY <1>4, <1>6, <2>2, <2>3 DEF path
  <2>5. proxies'[c].complete = (proxies[c].complete \/ "signal" = "snapshot")
    BY <1>5, <2>2, <2>3
  <2>6. proxies'[c].joined = proxies[c].joined /\ proxies'[c].connected = proxies[c].connected
    BY <2>2, <2>3
  <2>. QED  BY <1>2, <2>3, <2>4, <2>5, <2>6, Delivered
<1>7. CASE ~Head(inbox[c]).changed
  <2>1. UNCHANGED <<proxies, requests>>
    BY <1>7 DEF OnSignal
  <2>2. proxies'[c].complete = (proxies[c].complete \/ "signal" = "snapshot")
    BY <1>5, <2>1
  <2>3. proxies'[c].reference =
          IF Decides(Head(inbox[c])) THEN Head(inbox[c]).path ELSE proxies[c].reference
    BY <1>4, <1>7, <2>1
  <2>4. RequestsKept
    BY <1>1, <2>1, RequestsSame
  <2>. QED  BY <1>1, <1>2, <2>1, <2>2, <2>3, <2>4, Delivered
<1>. QED  BY <1>6, <1>7

LEMMA ReplyStep ==
  ASSUME IInv, NEW c \in Client, OnReply(c)
  PROVE  IInv'
<1>. DEFINE path == Head(inbox[c]).path
<1>1. /\ QueuesType /\ proxies[c] \in ProxyState
  BY DEF IInv, QueuesType
<1>2. Delivers(c, "reply") /\ UNCHANGED server /\ GetOrCreateSubProxy(c, proxies[c], path)
  BY DEF OnReply
<1>3. Head(inbox[c]) \in Message /\ Head(inbox[c]).kind = "reply"
  BY <1>1, <1>2, MessageDelivered
<1>4. path \in Path \union {NoPath} /\ ~Decides(Head(inbox[c]))
  BY <1>3, MessageParts DEF Decides
<1>. HIDE DEF path
<1>5. /\ RequestsKept
      /\ proxies' \in [Client -> ProxyState]
      /\ proxies'[c].complete = proxies[c].complete
      /\ proxies'[c].reference = proxies[c].reference
      /\ proxies'[c].joined = proxies[c].joined /\ proxies'[c].connected = proxies[c].connected
      /\ \A d \in Client \ {c} : proxies'[d] = proxies[d]
  BY <1>1, <1>2, <1>4, SubProxyMade
<1>6. proxies'[c].complete = (proxies[c].complete \/ "reply" = "snapshot")
  BY <1>1, <1>5 DEF ProxyState
<1>7. proxies'[c].reference =
        IF Decides(Head(inbox[c])) THEN Head(inbox[c]).path ELSE proxies[c].reference
  BY <1>4, <1>5
<1>. QED  BY <1>2, <1>5, <1>6, <1>7, Delivered

LEMMA SubStep ==
  ASSUME IInv, NEW c \in Client, OnSub(c)
  PROVE  IInv'
<1>. DEFINE path == Head(inbox[c]).path
            p == [proxies[c] EXCEPT !.available = @ \union {path}]
<1>1. /\ QueuesType /\ proxies[c] \in ProxyState /\ proxies \in [Client -> ProxyState]
  BY DEF IInv, QueuesType
<1>2. /\ Delivers(c, "sub") /\ UNCHANGED <<server, requests>>
      /\ proxies' = [proxies EXCEPT ![c] = p]
  BY DEF OnSub
<1>3. Head(inbox[c]) \in Message /\ Head(inbox[c]).kind = "sub"
  BY <1>1, <1>2, MessageDelivered
<1>4. path \in Path /\ ~Decides(Head(inbox[c]))
  BY <1>3, MessageParts DEF Decides
<1>. HIDE DEF path
<1>5. /\ p \in ProxyState /\ p.complete = proxies[c].complete
      /\ p.reference = proxies[c].reference
      /\ p.joined = proxies[c].joined /\ p.connected = proxies[c].connected
  BY <1>1, <1>4 DEF ProxyState
<1>. HIDE DEF p
<1>6. /\ proxies' \in [Client -> ProxyState] /\ proxies'[c] = p
      /\ \A d \in Client \ {c} : proxies'[d] = proxies[d]
  BY <1>1, <1>2, <1>5
<1>7. proxies'[c].complete = (proxies[c].complete \/ "sub" = "snapshot")
  BY <1>1, <1>5, <1>6 DEF ProxyState
<1>8. proxies'[c].reference =
        IF Decides(Head(inbox[c])) THEN Head(inbox[c]).path ELSE proxies[c].reference
  BY <1>4, <1>5, <1>6
<1>9. proxies'[c].joined = proxies[c].joined /\ proxies'[c].connected = proxies[c].connected
  BY <1>5, <1>6
<1>10. RequestsKept
  BY <1>1, <1>2, RequestsSame
<1>. QED  BY <1>2, <1>6, <1>7, <1>8, <1>9, <1>10, Delivered

-----------------------------------------------------------------------------
(***************************************************************************)
(* The theorems.                                                           *)
(***************************************************************************)
LEMMA ServerInit == Init => ServerInv(server)
<1>. SUFFICES ASSUME Init PROVE ServerInv(server)
  OBVIOUS
<1>1. /\ \A a \in Address : server.heap[a] = NoObject
      /\ server.heap = [a \in Address |-> NoObject] /\ server.created = 0
      /\ server.value = Null /\ server.previous = Null /\ server.pointer = NoObject
      /\ server.subs = {} /\ server.doomed = {} /\ server.nextPath = 1
      /\ server.service = NoObject /\ server.adapter = NoPath
  BY DEF Init
<1>2. server.valueChanged = FALSE /\ server.connected = FALSE /\ server.late = FALSE
  BY DEF Init
<1>3. server \in Server
  BY ConstantsAssumption DEF Init, Server
<1>4. HeapInv(server) /\ AdaptersInv(server)
  BY <1>1 DEF HeapInv, AdaptersInv, NoObject
<1>5. Bare(server) = {}
  BY <1>1 DEF Bare
<1>6. Cardinality(Bare(server)) = 0
  BY <1>5, FS_EmptySet
<1>7. PathsInv(server)
  BY <1>1, <1>6 DEF PathsInv
<1>8. SettledInv(server)
  BY <1>1, <1>2 DEF SettledInv, Target
<1>9. HandlerInv(server)
  BY <1>1, <1>2 DEF HandlerInv, HandlerIdle
<1>. QED  BY <1>1, <1>3, <1>4, <1>7, <1>8, <1>9 DEF ServerInv, Structure, Pointing

LEMMA InvariantInit == Init => IInv
<1>. SUFFICES ASSUME Init PROVE IInv
  OBVIOUS
<1>1. ServerInv(server)
  BY ServerInit
<1>2. /\ requests = [c \in Client |-> <<>>] /\ inbox = [c \in Client |-> <<>>]
  BY DEF Init
<1>3. <<>> \in Seq(Request) /\ <<>> \in Seq(Message)
  BY EmptySeq
<1>4. /\ proxies \in [Client -> ProxyState]
      /\ \A c \in Client : proxies[c].complete = FALSE
  BY DEF Init, ProxyState
<1>5. QueuesType
  BY <1>2, <1>3, <1>4 DEF QueuesType
<1>6. ASSUME NEW c \in Client
      PROVE  ClientInv(c)
  <2>1. requests[c] = <<>> /\ inbox[c] = <<>>
    BY <1>2
  <2>2. ~Has(requests[c], "properties") /\ ~Has(inbox[c], "snapshot")
    BY <2>1, EmptySeq DEF Has
  <2>3. ~Answered(c)
    BY <1>4, <2>2 DEF Answered
  <2>. QED  BY <2>2, <2>3 DEF ClientInv, LinkInv, LastSentInv, TruthInv
<1>. QED  BY <1>1, <1>5, <1>6 DEF IInv

\* Steps of objects that no message tells of.
LEMMA SilentStep ==
  ASSUME IInv, ServerInv(server'), SameTruth, UNCHANGED <<requests, inbox, proxies>>
  PROVE  IInv'
<1>1. Unheard
  BY DEF Unheard
<1>. QED  BY <1>1, ServerStep

LEMMA InvariantStep == IInv /\ [Next]_vars => IInv'
<1>. SUFFICES ASSUME IInv, [Next]_vars PROVE IInv'
  OBVIOUS
<1>0. ServerInv(server)
  BY DEF IInv
<1>1. ASSUME NEW a \in Address, CreateObject(a)
      PROVE  IInv'
  <2>1. ServerInv(server') /\ SameTruth
    BY <1>0, <1>1, CreateStep
  <2>. QED  BY <1>1, <2>1, SilentStep DEF CreateObject
<1>2. ASSUME NEW a \in Address, DestroyObject(a)
      PROVE  IInv'
  <2>1. ServerInv(server') /\ SameTruth
    BY <1>0, <1>2, DestroyStep
  <2>. QED  BY <1>2, <2>1, SilentStep DEF DestroyObject
<1>3. ASSUME NEW v \in Address \union {Null}, SetProperty(v)
      PROVE  IInv'
  <2>1. ServerInv(server') /\ (Signalled \/ Unheard)
    BY <1>0, <1>3, SetPropertyStep
  <2>. QED  BY <1>3, <2>1, ServerStep DEF SetProperty
<1>4. ASSUME NEW v \in Address \union {Null}, NEW a \in Address, ReplaceObject(a, v)
      PROVE  IInv'
  <2>1. ServerInv(server') /\ (Signalled \/ Unheard)
    BY <1>0, <1>4, ReplaceStep
  <2>. QED  BY <1>4, <2>1, ServerStep DEF ReplaceObject
<1>5. CASE DeleteLater
  <2>1. ServerInv(server') /\ SameTruth
    BY <1>0, <1>5, DeleteLaterStep
  <2>. QED  BY <1>5, <2>1, SilentStep DEF DeleteLater
<1>6. ASSUME NEW c \in Client, Connect(c) \/ CallOperation(c)
      PROVE  IInv'
  BY <1>6, ConnectStep, CallOperationStep
<1>7. ASSUME NEW c \in Client, HandleStep(c)
      PROVE  IInv'
  BY <1>7, HandlePropertiesStep, HandleCallStep, HandleSubStep DEF HandleStep
<1>8. ASSUME NEW c \in Client, DeliverStep(c)
      PROVE  IInv'
  BY <1>8, SnapshotStep, SignalDeliveredStep, ReplyStep, SubStep DEF DeliverStep
<1>9. ASSUME NEW c \in Client, OnAdded(c) \/ OnRemoved(c)
      PROVE  IInv'
  BY <1>9, AddedStep, RemovedStep
<1>10. CASE UNCHANGED vars
  <2>1. UNCHANGED <<server, requests, inbox, proxies>>
    BY <1>10 DEF vars
  <2>2. SameTruth /\ ServerInv(server')
    BY <1>0, <2>1 DEF SameTruth
  <2>. QED  BY <2>1, <2>2, SilentStep
<1>. QED
  BY <1>1, <1>2, <1>3, <1>4, <1>5, <1>6, <1>7, <1>8, <1>9, <1>10 DEF Next, ApplicationStep

\* The server's adapters, its handler and the messages on their way fit
\* together, whatever objects come, go and take over each other's address.
THEOREM Invariance == Spec => []IInv
BY InvariantInit, InvariantStep, PTL DEF Spec

LEMMA TypeEnough == IInv => TypeOK
<1>. SUFFICES ASSUME IInv PROVE TypeOK
  OBVIOUS
<1>1. server \in Server /\ AdaptersInv(server) /\ QueuesType
  BY DEF IInv, ServerInv, Structure
<1>2. \A x \in server.subs : \E a \in Address : server.heap[a] = x.object
  BY <1>1 DEF AdaptersInv, Alive
<1>3. \A x, y \in server.subs \union server.doomed :
        x.path = y.path \/ x.object = y.object => x = y
  BY <1>1 DEF AdaptersInv
<1>. QED  BY <1>1, <1>2, <1>3, ServerParts DEF TypeOK, QueuesType

\* Types, and the adapters of the server: generateObjectPath() never gives a
\* path twice, getOrCreateAdapter() never makes a second adapter of an object,
\* and an adapter that still answers is the adapter of an object that lives.
\* There are never more paths than objects, as a path is taken for one only.
THEOREM TypeCorrect == Spec => []TypeOK
BY Invariance, TypeEnough, PTL

LEMMA ReferencesEnough == IInv => ReferencesAgree
<1>. SUFFICES ASSUME IInv, NEW c \in Client, proxies[c].complete, inbox[c] = <<>>
              PROVE  \/ proxies[c].reference \in Current(server)
                     \/ server.late
                     \/ proxies[c].joined /\ server.previousPath \in Current(server)
  BY DEF ReferencesAgree
<1>1. TruthInv(c) /\ Answered(c)
  BY DEF IInv, ClientInv, Answered
<1>2. CASE EndsCurrent(c)
  <2>1. PICK path \in Current(server) : Ends(inbox[c], proxies[c].reference, path)
    BY <1>2 DEF EndsCurrent
  <2>. QED  BY <2>1, EndsNow
<1>. QED  BY <1>1, <1>2 DEF TruthInv

\* A client that has handled all that was sent to it refers to the very object
\* the property points to: the handler's update() compares objects, not
\* addresses, and the path that is sent last is the one of that object, with
\* the two exceptions ReferencesAgree names.
THEOREM ReferencesCorrect == Spec => []ReferencesAgree
BY Invariance, ReferencesEnough, PTL

=============================================================================
