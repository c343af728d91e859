---------------------------- MODULE QmlStructures ----------------------------
(***************************************************************************)
(* A service implemented in QML with a property of a structure type and    *)
(* one that is a list of structures.  QML gives either of them gadgets,    *)
(* which are values, or wrappers, which are objects whose fields QML goes  *)
(* on changing: the service's values have to follow the wrappers that are  *)
(* assigned, and no others.                                                *)
(*                                                                         *)
(* Slots are called at once, so an operator gives the state after a call   *)
(* and all it leads to.  Their last argument, tell, gives the state after  *)
(* QML was told of a change of a property: its handlers read (Read), and   *)
(* may react as well (Hear).                                               *)
(***************************************************************************)
EXTENDS Integers, SequencesExt

CONSTANTS
  Wrapper,      \* the wrapper objects of QML
  NoWrapper,
  Value,        \* of a field
  Default,      \* a field nobody has set
  Fields,       \* number of fields of the structure
  Gadget,       \* bound: the gadgets that are passed
  MaxLength     \* bound: length of a list

ASSUME ConstantsAssumption ==
  /\ NoWrapper \notin Wrapper
  /\ Default \in Value
  /\ Fields \in Nat \ {0} /\ MaxLength \in Nat
  /\ Gadget \subseteq [1 .. Fields -> Value]

VARIABLE qml

-----------------------------------------------------------------------------
Struct == [1 .. Fields -> Value]

\* What a QVariant of QML holds.
Variant == [kind : {"gadget"}, value : Gadget] \union [kind : {"wrapper"}, wrapper : Wrapper]

\* What a handler in QML does when it hears of a change.
Reaction ==
  [kind : {"field"}, wrapper : Wrapper, field : 1 .. Fields, value : Value]
    \union [kind : {"assign"}, variant : Variant]
    \union [kind : {"none"}]

None == [kind |-> "none"]

Property == {"struct", "list"}

State ==
  [alive : SUBSET Wrapper,
   fields : [Wrapper -> Struct],
   slots : [Wrapper -> Seq(Property)],           \* connections of anyFieldChanged, in order
   pointer : Wrapper \union {NoWrapper},         \* the structure's QObjectWrapperPointer
   value : Struct,                               \* the service's structure property
   read : Struct,                                \* what QML read when it last heard of it
   assigned : Seq(Variant),                      \* m_assignedVariantList
   elements : Seq(Struct),                       \* the service's list property
   elementsRead : Seq(Struct),
   reaction : Reaction,                          \* what QML does when it hears next
   undefined : BOOLEAN,                          \* a destroyed wrapper was read
   unheard : BOOLEAN,                            \* history: see StructureFollows
   foreign : SUBSET Property]                    \* history: properties a client has set

TypeOK ==
  /\ qml \in State /\ qml.reaction = None
  /\ \A w \in Wrapper : ToSet(qml.slots[w]) \subseteq
       (IF w = qml.pointer THEN {"struct"} ELSE {})
         \union (IF [kind |-> "wrapper", wrapper |-> w] \in ToSet(qml.assigned) THEN {"list"} ELSE {})

Initial == [f \in 1 .. Fields |-> Default]

Init ==
  qml = [alive |-> Wrapper, fields |-> [w \in Wrapper |-> Initial],
         slots |-> [w \in Wrapper |-> <<>>], pointer |-> NoWrapper,
         value |-> Initial, read |-> Initial,
         assigned |-> <<>>, elements |-> <<>>, elementsRead |-> <<>>, reaction |-> None,
         undefined |-> FALSE, unheard |-> FALSE, foreign |-> {}]

-----------------------------------------------------------------------------
(***************************************************************************)
(* The structure property.                                                 *)
(***************************************************************************)
\* The getter in QML: the wrapper if there is one.
Shown(s) == IF s.pointer = NoWrapper THEN s.value ELSE s.fields[s.pointer]

\* The connections of one wrapper, and of all, without those of one kind.
Others(connections, kind) ==
  LET kept[n \in 0 .. Len(connections)] ==
        IF n = 0 THEN <<>>
        ELSE IF connections[n] = kind THEN kept[n - 1]
        ELSE Append(kept[n - 1], connections[n])
  IN  kept[Len(connections)]

Without(slots, kind) == [w \in Wrapper |-> Others(slots[w], kind)]

SetValue(s, v, tell) ==
  IF s.value = v THEN s ELSE tell.struct[[s EXCEPT !.value = v]]

\* The service's structure is set from QML.
Own(s) == [s EXCEPT !.unheard = FALSE, !.foreign = @ \ {"struct"}]

\* The property takes over the fields of its wrapper.
Sync(s, tell) ==
  IF s.pointer = NoWrapper \/ s.fields[s.pointer] = s.value THEN s
  ELSE SetValue(Own(s), s.fields[s.pointer], tell)

\* The old wrapper stays connected.
MutantReset(s, w) == [s EXCEPT !.pointer = w]

\* QObjectWrapperPointer::reset() and clear().
Reset(s, w) == [s EXCEPT !.slots = Without(@, "struct"), !.pointer = w]

\* QML does not hear when the wrapper is gone.
MutantSetGadget(s, g, tell) == Own(Reset(SetValue(s, g, tell), NoWrapper))

\* The service's signal comes while the wrapper is still there.
SetGadget(s, g, tell) ==
  tell.struct[Own(Reset(SetValue(s, g, tell), NoWrapper))]

\* A wrapper that is connected for the list already is not connected.
MutantConnect(s) ==
  IF s.pointer = NoWrapper \/ "list" \in ToSet(s.slots[s.pointer]) THEN s
  ELSE [s EXCEPT !.slots[s.pointer] = Append(@, "struct"),
                 !.unheard = s.fields[s.pointer] # s.value]

\* QObjectWrapperPointer::addConnection(), if there is a wrapper.
Connect(s) ==
  IF s.pointer = NoWrapper THEN s
  ELSE [s EXCEPT !.slots[s.pointer] = Append(@, "struct"),
                 !.unheard = s.fields[s.pointer] # s.value]

\* The fields are taken over, and signalled, before the connection is made.
SetWrapper(s, w, tell) ==
  IF s.pointer = w THEN s
  ELSE tell.struct[Connect(Sync(Reset(s, w), tell))]

Assign(s, variant, tell) ==
  IF variant.kind = "gadget" THEN SetGadget(s, variant.value, tell)
  ELSE SetWrapper(s, variant.wrapper, tell)

-----------------------------------------------------------------------------
(***************************************************************************)
(* The list property: TQMLImplListProperty.                                *)
(***************************************************************************)
\* TypeHandler::fromVariant().
Content(s, variant) ==
  IF variant.kind = "gadget" THEN variant.value ELSE s.fields[variant.wrapper]

Count(s, w) ==
  Cardinality({n \in DOMAIN s.assigned : s.assigned[n] = [kind |-> "wrapper", wrapper |-> w]})

\* The connections stay those of the first list.
MutantWatch(s) ==
  IF \E w \in Wrapper : "list" \in ToSet(s.slots[w]) THEN s.slots
  ELSE [w \in Wrapper |->
          s.slots[w] \o (IF w \in s.alive THEN [n \in 1 .. Count(s, w) |-> "list"] ELSE <<>>)]

\* clearConnections(), then a connection for each wrapper in the list.
Watch(s) ==
  LET cleared == Without(s.slots, "list")
  IN  [w \in Wrapper |->
        cleared[w] \o (IF w \in s.alive THEN [n \in 1 .. Count(s, w) |-> "list"] ELSE <<>>)]

\* refreshList().  The wrappers of the list that were destroyed are read too,
\* and from there on the program may do anything: the model ends.
Refresh(s, tell) ==
  LET elements == [n \in DOMAIN s.assigned |-> Content(s, s.assigned[n])]
      t == [s EXCEPT !.slots = Watch(s), !.foreign = @ \ {"list"},
                    !.undefined = @ \/ \E w \in Wrapper \ s.alive : Count(s, w) > 0]
  IN  IF t.elements = elements THEN t ELSE tell.list[[t EXCEPT !.elements = elements]]

-----------------------------------------------------------------------------
(***************************************************************************)
(* The fields of a wrapper.                                                *)
(***************************************************************************)
\* A slot that was disconnected on the way is not called.
CallSlot(s, w, slot, tell) ==
  IF slot \notin ToSet(s.slots[w]) THEN s
  ELSE IF slot = "struct" THEN Sync(s, tell) ELSE Refresh(s, tell)

AnyFieldChanged(s, w, tell) ==
  LET after[n \in 0 .. Len(s.slots[w])] ==
        IF n = 0 THEN s ELSE CallSlot(after[n - 1], w, s.slots[w][n], tell)
  IN  after[Len(s.slots[w])]

SetField(s, w, f, v, tell) ==
  IF s.fields[w][f] = v THEN s
  ELSE AnyFieldChanged([s EXCEPT !.fields[w][f] = v], w, tell)

-----------------------------------------------------------------------------
(***************************************************************************)
(* The handlers of QML: they read, and the first one reacts.               *)
(***************************************************************************)
Read ==
  [struct |-> [s \in State |-> [s EXCEPT !.read = Shown(s)]],
   list |-> [s \in State |-> [s EXCEPT !.elementsRead = s.elements]]]

React(s) ==
  LET r == s.reaction
      t == [s EXCEPT !.reaction = None]
  IN  CASE r.kind = "none" -> s
        [] r.kind = "field" /\ r.wrapper \in s.alive ->
             SetField(t, r.wrapper, r.field, r.value, Read)
        [] r.kind = "assign" /\ (r.variant.kind = "wrapper" => r.variant.wrapper \in s.alive) ->
             Assign(t, r.variant, Read)
        [] OTHER -> t

Hear ==
  [struct |-> [s \in State |-> React(Read.struct[s])],
   list |-> [s \in State |-> React(Read.list[s])]]

\* Field by field, each with its signal.
AssignFromGadget(s, w, g) ==
  LET after[n \in 0 .. Fields] ==
        IF n = 0 THEN s ELSE SetField(after[n - 1], w, n, g[n], Hear)
  IN  after[Fields]

-----------------------------------------------------------------------------
Usable(variant) == variant.kind = "wrapper" => variant.wrapper \in qml.alive

Reacting(s, r) == [s EXCEPT !.reaction = r]

Done(s) == [s EXCEPT !.reaction = None]

SetStructure(variant, r) ==
  /\ Usable(variant)
  /\ qml' = Done(Assign(Reacting(qml, r), variant, Hear))

SetElements(variants, r) ==
  /\ \A n \in DOMAIN variants : Usable(variants[n])
  /\ qml' = Done(Refresh([Reacting(qml, r) EXCEPT !.assigned = variants], Hear))

ChangeField(w, f, v, r) ==
  /\ w \in qml.alive
  /\ qml' = Done(SetField(Reacting(qml, r), w, f, v, Hear))

SetSerialized(w, g, r) ==
  /\ w \in qml.alive
  /\ qml' = Done(AssignFromGadget(Reacting(qml, r), w, g))

\* Connections and QPointers go with the object, its address in the list stays.
DestroyWrapper(w) ==
  /\ w \in qml.alive
  /\ qml' = [qml EXCEPT !.alive = @ \ {w}, !.slots[w] = <<>>,
                        !.pointer = IF @ = w THEN NoWrapper ELSE @]

\* A client of the service uses a setter that QML does not implement.
SetByClient(g, r) ==
  qml' = Done(SetValue([Reacting(qml, r) EXCEPT !.foreign = @ \union {"struct"}], g, Hear))

SetElementsByClient(elements, r) ==
  /\ elements # qml.elements
  /\ qml' = Done(Hear.list[[Reacting(qml, r) EXCEPT
                              !.elements = elements, !.foreign = @ \union {"list"}]])

Next ==
  /\ ~qml.undefined
  /\ \/ \E r \in Reaction :
          \/ \E v \in Variant : SetStructure(v, r)
          \/ \E n \in 0 .. MaxLength : \E vs \in [1 .. n -> Variant] : SetElements(vs, r)
          \/ \E w \in Wrapper, f \in 1 .. Fields, v \in Value : ChangeField(w, f, v, r)
          \/ \E w \in Wrapper, g \in Gadget : SetSerialized(w, g, r)
          \/ \E g \in Gadget : SetByClient(g, r)
          \/ \E n \in 0 .. MaxLength : \E es \in [1 .. n -> Gadget] : SetElementsByClient(es, r)
     \/ \E w \in Wrapper : DestroyWrapper(w)

Spec == Init /\ [][Next]_qml

-----------------------------------------------------------------------------
(***************************************************************************)
(* Correctness.                                                            *)
(***************************************************************************)
\* The service's structure is what its wrapper holds, whatever handlers did
\* while it was assigned or changed.  Excepted are fields a handler changed
\* before the wrapper was connected, and structures a client has set.
StructureFollows ==
  qml.pointer # NoWrapper =>
    \/ qml.value = qml.fields[qml.pointer]
    \/ qml.unheard \/ "struct" \in qml.foreign

\* The service's list holds the gadgets and the present fields of the
\* wrappers that are in it, unless a client has set it.
ElementsFollow ==
  "list" \notin qml.foreign /\ ~qml.undefined =>
    /\ Len(qml.elements) = Len(qml.assigned)
    /\ \A n \in DOMAIN qml.elements : qml.elements[n] = Content(qml, qml.assigned[n])

\* What QML has read when it was told last is what it would read now.
HandlersCurrent ==
  /\ qml.read = Shown(qml) \/ qml.unheard \/ "struct" \in qml.foreign
  /\ qml.elementsRead = qml.elements
=============================================================================
