------------------------------ MODULE Bindings ------------------------------
(***************************************************************************)
(* The properties of a service object (facelift::Property), in one thread: *)
(* a property keeps a value and emits a signal when it changes; a bound    *)
(* property is reevaluated when the signal of one of its inputs is         *)
(* emitted.  Slots run inside the emission and may change properties, so   *)
(* that emissions nest; the stack of the thread is explicit.               *)
(***************************************************************************)
EXTENDS Integers, SequencesExt

CONSTANTS
  Property,
  Inputs,      \* the properties each getter reads, and is triggered by
  Result,      \* what each getter makes of the values of its inputs
  Flagged,     \* properties with a ready flag
  MaxValue,    \* bound: values are 0 .. MaxValue
  Reactions,   \* what an application's listener may do
  MaxDepth     \* bound: the thread's stack overflows beyond this many frames

Value == 0 .. MaxValue

ASSUME ConstantsAssumption ==
  /\ Inputs \in [Property -> SUBSET Property]
  /\ Flagged \subseteq Property
  /\ MaxValue \in Nat /\ MaxDepth \in Nat
  /\ \A p \in Property : Result[p] \in [[Inputs[p] -> Value] -> Value]

VARIABLES
  object,    \* the properties and the stack
  reaction   \* what the application's listener does, in this behaviour

vars == <<object, reaction>>

-----------------------------------------------------------------------------
Bindable == {p \in Property : Inputs[p] # {}}

\* A slot connected to a changed signal: reevaluate() of a bound property, or
\* a listener of the application.
Slot == [slot : {"reevaluate"}, property : Bindable] \union [slot : {"listener"}]
Reevaluation(p) == [slot |-> "reevaluate", property |-> p]
Listener == [slot |-> "listener"]

Frame ==
  \* an emission of the changed signal: the slots yet to run
  [kind : {"changed"}, property : Property, todo : Seq(Slot)]
    \* an emission of readyFlagsChanged
    \union [kind : {"ready"}, property : Flagged]
    \* doTriggerChangeSignal() after setReady(true); addTrigger() after bind()
    \union [kind : {"notify", "connect"}, property : Property]

Operation ==
  [kind : {"set"}, property : Property, value : Value]
    \union [kind : {"bind"}, property : Bindable]

ASSUME ReactionsAssumption ==
  \A r \in Reactions :
    r.on \in {"changed", "ready"} /\ r.property \in Property /\ r.operation \in Operation

TypeOK ==
  /\ reaction \in Reactions
  /\ object.value \in [Property -> Value]
  /\ object.previous \in [Property -> Value]
  /\ object.bound \subseteq Bindable
  /\ object.ready \in [Property -> BOOLEAN]
  /\ object.connections \in [Property -> Seq(Slot)]
  /\ object.stack \in Seq(Frame)
  /\ object.seen \in [Property -> Value]
  /\ object.seenReady \in [Flagged -> BOOLEAN]
  /\ object.stale \subseteq Bindable /\ object.reverted \subseteq Bindable
  /\ object.undone \subseteq Bindable
  /\ object.failed \in BOOLEAN

Init ==
  /\ reaction \in Reactions
  /\ object =
       [value |-> [p \in Property |-> 0],
        previous |-> [p \in Property |-> 0],     \* value when last signalled
        bound |-> {},                            \* those with a getter function
        ready |-> [p \in Property |-> TRUE],
        connections |-> [p \in Property |-> <<>>],
        stack |-> <<>>,                          \* innermost frame first
        seen |-> [p \in Property |-> 0],         \* what listeners last read
        seenReady |-> [p \in Flagged |-> TRUE],
        failed |-> FALSE,                        \* Q_ASSERT(m_getterFunction)
        stale |-> {},   \* history: bound, and changed behind the binding's back
        reverted |-> {},  \* history: bound to an input that changed and changed
                          \* back before its signal was emitted
        undone |-> {}]  \* history: set between bind() and addTrigger()

-----------------------------------------------------------------------------
(***************************************************************************)
(* Operations of a property.  Each gives the object after the call up to   *)
(* the next slot that runs; what is left of the call goes on the stack.    *)
(***************************************************************************)
Idle(o) == o.stack = <<>> /\ ~o.failed

Push(o, frame) == [o EXCEPT !.stack = <<frame>> \o @]

Getter(o, p) == Result[p][[q \in Inputs[p] |-> o.value[q]]]

Signalling(o, p) ==
  \E n \in DOMAIN o.stack : o.stack[n].kind = "changed" /\ o.stack[n].property = p

\* A signal emitted inside its own emission is left out.
MutantEmit(o, p) ==
  LET noted == [o EXCEPT !.previous[p] = o.value[p]]
  IN  IF Signalling(o, p) THEN noted
      ELSE Push(noted, [kind |-> "changed", property |-> p, todo |-> o.connections[p]])

\* Slots connected during an emission are not part of it.
Emit(o, p) ==
  Push([o EXCEPT !.previous[p] = o.value[p]],
       [kind |-> "changed", property |-> p, todo |-> o.connections[p]])

\* The property is clean only when its listeners have returned.
MutantNotify(o, p) ==
  IF o.value[p] # o.previous[p]
  THEN [Emit(o, p) EXCEPT !.previous[p] = o.previous[p]] ELSE o

Notify(o, p) == IF o.value[p] # o.previous[p] THEN Emit(o, p) ELSE o

\* The service may have no signal for its ready flags.
MutantSetReady(o, p, ready) ==
  IF o.ready[p] # ready
  THEN Push([o EXCEPT !.ready[p] = ready], [kind |-> "ready", property |-> p])
  ELSE o

SetReady(o, p, ready) ==
  IF p \in Flagged /\ o.ready[p] # ready
  THEN Push([o EXCEPT !.ready[p] = ready], [kind |-> "ready", property |-> p])
  ELSE o

TriggerValueChangedSignal(o, p) ==
  IF p \in Flagged /\ ~o.ready[p]
  THEN SetReady(Push(o, [kind |-> "notify", property |-> p]), p, TRUE)
  ELSE Notify(o, p)

\* The connections stay.
MutantBreakBinding(o, p) ==
  [o EXCEPT !.bound = @ \ {p}, !.stale = @ \ {p}, !.reverted = @ \ {p}]

\* What is left of "slots" when this one is disconnected.
Without(slots, slot) ==
  LET kept[n \in 0 .. Len(slots)] ==
        IF n = 0 THEN <<>>
        ELSE IF slots[n] = slot THEN kept[n - 1] ELSE Append(kept[n - 1], slots[n])
  IN  kept[Len(slots)]

Skipping(stack, slot) ==
  [n \in DOMAIN stack |->
     IF stack[n].kind = "changed"
     THEN [stack[n] EXCEPT !.todo = Without(stack[n].todo, slot)] ELSE stack[n]]

\* Disconnected slots do not run, not even in emissions under way.
BreakBinding(o, p) ==
  IF p \notin o.bound THEN o
  ELSE [o EXCEPT
          !.bound = @ \ {p}, !.undone = @ \ {p},
          !.stale = @ \ {p}, !.reverted = @ \ {p},
          !.connections = [q \in Property |-> Without(@[q], Reevaluation(p))],
          !.stack = Skipping(@, Reevaluation(p))]

BeingBound(o, p) ==
  \E n \in DOMAIN o.stack : o.stack[n].kind = "connect" /\ o.stack[n].property = p

\* m_value gets a new value.  When that is the one last signalled, and the
\* change before it was not signalled yet, then nobody is told.
Assign(o, p, v) ==
  LET assigned == [o EXCEPT !.value[p] = v]
      misled == {q \in o.bound : p \in Inputs[q] /\ assigned.value[q] # Getter(assigned, q)}
  IN  IF o.value[p] # o.previous[p] /\ v = o.previous[p]
      THEN [assigned EXCEPT !.reverted = @ \union misled] ELSE assigned

SetValue(o, p, v) ==
  LET broken == [BreakBinding(o, p) EXCEPT
                   !.undone = IF BeingBound(o, p) THEN @ \union {p} ELSE @]
  IN  TriggerValueChangedSignal(Assign(broken, p, v), p)

Evaluated(o, p) ==
  Assign([o EXCEPT !.stale = @ \ {p}, !.reverted = @ \ {p}], p, Getter(o, p))

\* An old value stays until an input changes.
MutantReevaluate(o, p) ==
  IF p \in o.bound THEN Evaluated(o, p) ELSE [o EXCEPT !.failed = TRUE]

Reevaluate(o, p) ==
  IF p \in o.bound THEN TriggerValueChangedSignal(Evaluated(o, p), p)
  ELSE [o EXCEPT !.failed = TRUE]

\* bind(getter).addTrigger(...)...
Bind(o, p) ==
  Reevaluate(Push([BreakBinding(o, p) EXCEPT !.bound = @ \union {p}],
                  [kind |-> "connect", property |-> p]), p)

AddTriggers(o, p) ==
  [o EXCEPT !.connections = [q \in Property |->
               IF q \in Inputs[p] THEN Append(@[q], Reevaluation(p)) ELSE @[q]],
            !.stale = IF p \in o.bound /\ o.value[p] # Getter(o, p) THEN @ \union {p} ELSE @]

Do(o, operation) ==
  IF operation.kind = "set" THEN SetValue(o, operation.property, operation.value)
  ELSE Bind(o, operation.property)

-----------------------------------------------------------------------------
(***************************************************************************)
(* The application, between emissions.                                     *)
(***************************************************************************)
Set(p, v) == Idle(object) /\ object' = SetValue(object, p, v) /\ UNCHANGED reaction

BindProperty(p) == Idle(object) /\ object' = Bind(object, p) /\ UNCHANGED reaction

\* operator++ leaves a binding as it is.
Increment(p) ==
  /\ Idle(object) /\ object.value[p] < MaxValue
  /\ LET noted == [object EXCEPT !.stale = IF p \in object.bound THEN @ \union {p} ELSE @]
     IN  object' = TriggerValueChangedSignal(Assign(noted, p, object.value[p] + 1), p)
  /\ UNCHANGED reaction

SetNotReady(p) ==
  /\ Idle(object)
  /\ object' = SetReady(object, p, FALSE)
  /\ UNCHANGED reaction

Listen(p) ==
  /\ Idle(object) /\ Listener \notin ToSet(object.connections[p])
  /\ object' = [object EXCEPT !.connections[p] = Append(@, Listener), !.seen[p] = object.value[p]]
  /\ UNCHANGED reaction

-----------------------------------------------------------------------------
(***************************************************************************)
(* The innermost frame goes on.                                            *)
(***************************************************************************)
Top == Head(object.stack)

Running(kind) == ~object.failed /\ object.stack # <<>> /\ Top.kind = kind

Popped == [object EXCEPT !.stack = Tail(@)]

React(o, on, p) ==
  IF reaction.on = on /\ reaction.property = p THEN Do(o, reaction.operation) ELSE o

\* The next slot of an emission runs.
RunSlot ==
  /\ Running("changed") /\ Top.todo # <<>> /\ Len(object.stack) <= MaxDepth
  /\ LET o == [object EXCEPT !.stack[1].todo = Tail(@)]
         slot == Head(Top.todo)
     IN  object' = IF slot = Listener
                   THEN React([o EXCEPT !.seen[Top.property] = o.value[Top.property]],
                              "changed", Top.property)
                   ELSE Reevaluate(o, slot.property)
  /\ UNCHANGED reaction

EndEmission ==
  /\ Running("changed") /\ Top.todo = <<>>
  /\ object' = Popped
  /\ UNCHANGED reaction

RunReadySlot ==
  /\ Running("ready")
  /\ object' = React([Popped EXCEPT !.seenReady[Top.property] = object.ready[Top.property]],
                     "ready", Top.property)
  /\ UNCHANGED reaction

NotifyAfterReady ==
  /\ Running("notify")
  /\ object' = Notify(Popped, Top.property)
  /\ UNCHANGED reaction

ConnectTriggers ==
  /\ Running("connect")
  /\ object' = AddTriggers(Popped, Top.property)
  /\ UNCHANGED reaction

ApplicationStep ==
  \E p \in Property :
    \/ \E v \in Value : Set(p, v)
    \/ p \in Bindable /\ BindProperty(p)
    \/ Increment(p) \/ SetNotReady(p) \/ Listen(p)

StackStep == RunSlot \/ EndEmission \/ RunReadySlot \/ NotifyAfterReady \/ ConnectTriggers

Next == ApplicationStep \/ StackStep

Spec == Init /\ [][Next]_vars

\* The thread goes on with what it has begun.
FairSpec == Spec /\ WF_vars(StackStep)

-----------------------------------------------------------------------------
(***************************************************************************)
(* Correctness.                                                            *)
(***************************************************************************)
\* "whenever the property is notified (the value change triggered), the
\* property will call a specified getter function" (page-properties.h): when
\* a change and all it causes is over, bound properties have the values of
\* their getters, however slots were ordered and changes nested.  Excepted
\* are ++ on a bound property, inputs that listeners change while bind()
\* evaluates for the first time, and inputs that change and change back
\* while the listeners of the ready flag run.
BindingsHold ==
  Idle(object) => \A p \in object.bound \ (object.stale \union object.reverted) :
                    object.value[p] = Getter(object, p)

\* Listeners have read the present value, also if it changed again while
\* they were told.
ListenersCurrent ==
  Idle(object) =>
    /\ \A p \in Property :
         Listener \in ToSet(object.connections[p]) => object.seen[p] = object.value[p]
    /\ \A p \in Flagged : object.seenReady[p] = object.ready[p]

\* reevaluate() finds a getter, unless a listener set the property after
\* bind() and before addTrigger().
GetterPresent ==
  \A p, q \in Property :
    Reevaluation(p) \in ToSet(object.connections[q]) => p \in object.bound \union object.undone

\* Rebinding does not pile up connections: a slot is connected twice only when
\* a listener has bound the property during the first evaluation of bind().
ConnectedOnce ==
  \A p \in Property, s \in Slot :
    Cardinality({n \in DOMAIN object.connections[p] : object.connections[p][n] = s})
      <= IF s = Listener THEN 1 ELSE 2

\* A change comes to an end and does not nest without bound, although
\* listeners and bindings make changes of their own; and it leaves no more
\* slots to run for the next one than were bound.
Settles ==
  /\ object.stack # <<>> ~> object.stack = <<>> \/ object.failed
  /\ []ConnectedOnce
=============================================================================
