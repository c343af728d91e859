--------------------------- MODULE BindingsProofs ---------------------------
(***************************************************************************)
(* Bindings and listeners are up to date when a change is over, for any    *)
(* properties, graphs of bindings, getters and reactions of listeners.     *)
(*                                                                         *)
(* The invariant says what is still owed while emissions nest: for each    *)
(* property whose value, listener or binding is behind, the frame of the   *)
(* stack that will repair it.                                              *)
(***************************************************************************)
EXTENDS Bindings, SequenceTheorems, WellFoundedInduction, TLAPS

-----------------------------------------------------------------------------
(***************************************************************************)
(* The invariant, about an object.                                         *)
(***************************************************************************)
Object ==
  [value : [Property -> Value], previous : [Property -> Value], bound : SUBSET Bindable,
   ready : [Property -> BOOLEAN], connections : [Property -> Seq(Slot)], stack : Seq(Frame),
   seen : [Property -> Value], seenReady : [Flagged -> BOOLEAN], failed : BOOLEAN,
   stale : SUBSET Bindable, reverted : SUBSET Bindable, undone : SUBSET Bindable]

\* A frame of this kind, about this property, is at position n.
At(stack, n, kind, p) == n \in 1 .. Len(stack) /\ stack[n].kind = kind /\ stack[n].property = p

OnStack(stack, kind, p) == \E n \in 1 .. Len(stack) : At(stack, n, kind, p)

\* An emission of p's signal under way will run the slot.
Pending(stack, p, slot) ==
  \E n \in 1 .. Len(stack) : At(stack, n, "changed", p) /\ slot \in ToSet(stack[n].todo)

Dirty(o, p) == o.value[p] # o.previous[p]

\* All emissions of p's signal are below a notification of p.
NotifyFirst(stack, p) ==
  \A n \in 1 .. Len(stack) : At(stack, n, "changed", p) => \E m \in 1 .. n : At(stack, m, "notify", p)

\* p is clean, or its signal waits for the listeners of the ready flag.  No
\* emission of it is nearer to the top.
Notifies(o, p) ==
  Dirty(o, p) => OnStack(o.stack, "notify", p) /\ NotifyFirst(o.stack, p)

\* Listeners have read what was signalled last, or are about to read.
Heard(o, p) ==
  /\ Listener \in ToSet(o.connections[p]) =>
       o.seen[p] = o.previous[p] \/ Pending(o.stack, p, Listener)
  /\ p \in Flagged => o.seenReady[p] = o.ready[p] \/ OnStack(o.stack, "ready", p)

\* Only properties with a getter are reevaluated; all others are excepted.
HasGetter(o, p) ==
  OnStack(o.stack, "connect", p) \/ (\E q \in Property : Reevaluation(p) \in ToSet(o.connections[q]))
    => p \in o.bound \union o.undone

Connected(o, p) == \A q \in Inputs[p] : Reevaluation(p) \in ToSet(o.connections[q])

\* p has the getter's value, or an input with a signal to come.
Follows(o, p) ==
  \/ p \in o.stale \union o.reverted
  \/ o.value[p] = Getter(o, p)
  \/ \E q \in Inputs[p] : Dirty(o, q) \/ Pending(o.stack, q, Reevaluation(p))

\* If p is bound, it is to be connected, or it is connected and follows.
Holds(o, p) ==
  p \in o.bound => OnStack(o.stack, "connect", p) \/ (Connected(o, p) /\ Follows(o, p))

\* x may have a value of which nobody is told.
AllBut(o, x) ==
  /\ o \in Object
  /\ \A p \in Property : Heard(o, p) /\ HasGetter(o, p) /\ Holds(o, p)
  /\ \A p \in Property \ {x} : Notifies(o, p)

ObjectInv(o) ==
  /\ o \in Object
  /\ \A p \in Property : Heard(o, p) /\ HasGetter(o, p) /\ Holds(o, p) /\ Notifies(o, p)

BInv ==
  /\ reaction \in Reactions /\ object \in Object
  /\ \A p \in Property : HasGetter(object, p)
  /\ object.failed \/ ObjectInv(object)

-----------------------------------------------------------------------------
(***************************************************************************)
(* Slots.                                                                  *)
(***************************************************************************)
LEMMA LeastNatural ==
  ASSUME NEW T, T \subseteq Nat, T # {}
  PROVE  \E n \in T : \A m \in T : n <= m
<1>. DEFINE R == OpToRel(<, Nat)
<1>1. IsWellFoundedOn(R, Nat)
  BY NatLessThanWellFounded, Zenon
<1>2. \A m, n \in Nat : m < n => <<m, n>> \in R
  BY DEF OpToRel
<1>. HIDE DEF R
<1>3. PICK n \in T : \A m \in T : ~(<<m, n>> \in R)
  BY <1>1, WFMin
<1>4. ASSUME NEW m \in T
      PROVE  n <= m
  <2>1. m \in Nat /\ n \in Nat
    OBVIOUS
  <2>2. ~(m < n)
    BY <1>2, <1>3, <2>1
  <2>. QED  BY <2>1, <2>2
<1>. QED  BY <1>4

LEMMA ToSetIs ==
  ASSUME NEW S, NEW s \in Seq(S)
  PROVE  ToSet(s) = {s[n] : n \in 1 .. Len(s)} /\ ToSet(s) \subseteq S
BY LenProperties DEF ToSet

LEMMA ToSetAppend ==
  ASSUME NEW S, NEW s \in Seq(S), NEW e \in S
  PROVE  ToSet(Append(s, e)) = ToSet(s) \union {e}
<1>. DEFINE t == Append(s, e)
<1>1. /\ t \in Seq(S) /\ Len(t) = Len(s) + 1 /\ Len(s) \in Nat
      /\ \A n \in 1 .. Len(s) : t[n] = s[n]
      /\ t[Len(s) + 1] = e
  BY AppendProperties, LenProperties
<1>. HIDE DEF t
<1>2. ToSet(t) = {t[n] : n \in 1 .. Len(s) + 1} /\ ToSet(s) = {s[n] : n \in 1 .. Len(s)}
  BY <1>1, ToSetIs
<1>3. 1 .. Len(s) + 1 = (1 .. Len(s)) \union {Len(s) + 1}
  BY <1>1
<1>4. ToSet(t) = ToSet(s) \union {e}
  BY <1>1, <1>2, <1>3
<1>. QED  BY <1>4 DEF t

LEMMA ToSetTail ==
  ASSUME NEW S, NEW s \in Seq(S), s # <<>>
  PROVE  ToSet(Tail(s)) \subseteq ToSet(s) /\ ToSet(s) = ToSet(Tail(s)) \union {Head(s)}
<1>. DEFINE t == Tail(s)
<1>1. /\ t \in Seq(S) /\ Len(t) = Len(s) - 1 /\ Len(s) \in Nat /\ Len(s) > 0 /\ Head(s) = s[1]
      /\ \A n \in 1 .. Len(t) : t[n] = s[n + 1]
  BY HeadTailProperties, LenProperties, EmptySeq
<1>. HIDE DEF t
<1>2. ToSet(t) = {t[n] : n \in 1 .. Len(s) - 1} /\ ToSet(s) = {s[n] : n \in 1 .. Len(s)}
  BY <1>1, ToSetIs
<1>3. ASSUME NEW n \in 1 .. Len(s)
      PROVE  s[n] \in ToSet(t) \union {s[1]}
  <2>1. CASE n = 1
    BY <2>1
  <2>2. CASE n # 1
    <3>1. n - 1 \in 1 .. Len(s) - 1 /\ t[n - 1] = s[n]
      BY <1>1, <2>2
    <3>. QED  BY <1>2, <3>1
  <2>. QED  BY <2>1, <2>2
<1>4. ASSUME NEW n \in 1 .. Len(s) - 1
      PROVE  t[n] \in ToSet(s)
  <2>1. n + 1 \in 1 .. Len(s) /\ t[n] = s[n + 1]
    BY <1>1
  <2>. QED  BY <1>2, <2>1
<1>5. s[1] \in ToSet(s)
  BY <1>1, <1>2
<1>6. ToSet(t) \subseteq ToSet(s) /\ ToSet(s) = ToSet(t) \union {Head(s)}
  BY <1>1, <1>2, <1>3, <1>4, <1>5
<1>. QED  BY <1>6 DEF t

LEMMA SlotFacts ==
  /\ Listener \in Slot
  /\ \A p \in Bindable : Reevaluation(p) \in Slot /\ Reevaluation(p).property = p
  /\ \A p \in Property : Reevaluation(p) # Listener
  /\ \A p, q \in Property : Reevaluation(p) = Reevaluation(q) => p = q
  /\ \A slot \in Slot : slot # Listener =>
       slot.property \in Bindable /\ slot = Reevaluation(slot.property)
<1>1. Listener \in Slot
  BY DEF Listener, Slot
<1>2. \A p : Reevaluation(p).property = p /\ Reevaluation(p).slot = "reevaluate"
  BY DEF Reevaluation
<1>3. Listener.slot = "listener"
  BY DEF Listener
<1>4. \A p \in Bindable : Reevaluation(p) \in Slot
  BY DEF Reevaluation, Slot
<1>5. \A slot \in Slot : slot # Listener =>
        slot.property \in Bindable /\ slot = Reevaluation(slot.property)
  BY DEF Reevaluation, Slot, Listener
<1>6. \A p \in Property : Reevaluation(p) # Listener
  BY <1>2, <1>3
<1>7. \A p, q \in Property : Reevaluation(p) = Reevaluation(q) => p = q
  BY <1>2
<1>. QED  BY <1>1, <1>2, <1>4, <1>5, <1>6, <1>7

\* Without removes the slot, and nothing else.
LEMMA WithoutIs ==
  ASSUME NEW s \in Seq(Slot), NEW slot
  PROVE  Without(s, slot) \in Seq(Slot) /\ ToSet(Without(s, slot)) = ToSet(s) \ {slot}
<1>. DEFINE Step(f, n) == IF n = 0 THEN <<>>
                          ELSE IF s[n] = slot THEN f[n - 1] ELSE Append(f[n - 1], s[n])
            Solves(f, m) == f = [n \in 0 .. m |-> Step(f, n)]
            Right(f, n) == f[n] \in Seq(Slot) /\ ToSet(f[n]) = {s[i] : i \in 1 .. n} \ {slot}
<1>1. Len(s) \in Nat /\ \A n \in 1 .. Len(s) : s[n] \in Slot
  BY LenProperties
<1>2. ASSUME NEW m \in 0 .. Len(s), NEW f, Solves(f, m), NEW n \in 0 .. m
      PROVE  Right(f, n)
  <2>. DEFINE T == {k \in 0 .. m : ~Right(f, k)}
  <2>1. \A k \in 0 .. m : f[k] = Step(f, k)
    <3>. HIDE DEF Step
    <3>. QED  BY <1>2
  <2>2. SUFFICES ASSUME T # {}
                 PROVE  FALSE
    OBVIOUS
  <2>3. PICK k \in T : \A j \in T : k <= j
    <3>1. T \subseteq Nat
      OBVIOUS
    <3>. HIDE DEF T
    <3>. QED  BY <2>2, <3>1, LeastNatural
  <2>4. k \in 0 .. m /\ ~Right(f, k) /\ m \in Nat /\ m <= Len(s)
    BY <1>1, <2>3
  <2>5. CASE k = 0
    <3>1. f[k] = <<>>
      BY <2>1, <2>4, <2>5
    <3>2. <<>> \in Seq(Slot) /\ ToSet(<<>>) = {}
      BY EmptySeq DEF ToSet
    <3>3. {s[i] : i \in 1 .. k} = {}
      BY <2>5
    <3>. QED  BY <2>4, <3>1, <3>2, <3>3
  <2>6. CASE k # 0
    <3>1. k - 1 \in 0 .. m /\ k \in 1 .. Len(s) /\ k - 1 \in Nat
      BY <2>4, <2>6, <1>1
    <3>2. k - 1 \notin T
      <4>1. ~(k <= k - 1)
        BY <3>1
      <4>. HIDE DEF T
      <4>. QED  BY <2>3, <4>1
    <3>3. Right(f, k - 1)
      BY <3>1, <3>2
    <3>4. {s[i] : i \in 1 .. k} = {s[i] : i \in 1 .. k - 1} \union {s[k]}
      <4>1. 1 .. k = (1 .. k - 1) \union {k}
        BY <3>1
      <4>. QED  BY <4>1
    <3>5. s[k] \in Slot
      BY <1>1, <3>1
    <3>6. CASE s[k] = slot
      <4>1. f[k] = f[k - 1]
        BY <2>1, <2>4, <2>6, <3>6
      <4>. QED  BY <2>4, <3>3, <3>4, <3>6, <4>1
    <3>7. CASE s[k] # slot
      <4>1. f[k] = Append(f[k - 1], s[k])
        BY <2>1, <2>4, <2>6, <3>7
      <4>2. f[k] \in Seq(Slot) /\ ToSet(f[k]) = ToSet(f[k - 1]) \union {s[k]}
        BY <3>3, <3>5, <4>1, AppendProperties, ToSetAppend
      <4>. QED  BY <2>4, <3>3, <3>4, <3>7, <4>2
    <3>. QED  BY <3>6, <3>7
  <2>. QED  BY <2>5, <2>6
<1>3. ASSUME NEW m \in 0 .. Len(s)
      PROVE  \E f : Solves(f, m)
  <2>. DEFINE T == {k \in 0 .. Len(s) : ~ \E f : Solves(f, k)}
  <2>1. SUFFICES ASSUME T # {}
                 PROVE  FALSE
    OBVIOUS
  <2>2. PICK k \in T : \A j \in T : k <= j
    <3>1. T \subseteq Nat
      BY <1>1
    <3>. HIDE DEF T
    <3>. QED  BY <2>1, <3>1, LeastNatural
  <2>3. k \in 0 .. Len(s) /\ ~ \E f : Solves(f, k)
    BY <2>2
  <2>4. CASE k = 0
    <3>. DEFINE g == [n \in 0 .. 0 |-> <<>>]
    <3>1. \A n \in 0 .. 0 : Step(g, n) = <<>>
      OBVIOUS
    <3>2. Solves(g, 0)
      <4>. HIDE DEF Step
      <4>. QED  BY <3>1
    <3>. QED  BY <2>3, <2>4, <3>2
  <2>5. CASE k # 0
    <3>1. k \in Nat /\ k - 1 \in 0 .. Len(s) /\ k - 1 \in Nat /\ k - 1 < k
      BY <2>3, <2>5, <1>1
    <3>2. k - 1 \notin T
      <4>1. ~(k <= k - 1)
        BY <3>1
      <4>. HIDE DEF T
      <4>. QED  BY <2>2, <4>1
    <3>3. PICK f : Solves(f, k - 1)
      BY <3>1, <3>2
    <3>. DEFINE g == [n \in 0 .. k |-> IF n = k THEN Step(f, k) ELSE f[n]]
    <3>4. \A n \in 0 .. k - 1 : f[n] = Step(f, n)
      <4>. HIDE DEF Step
      <4>. QED  BY <3>3
    <3>5. \A n \in 0 .. k : n # 0 => g[n - 1] = f[n - 1]
      BY <3>1
    <3>6. \A n \in 0 .. k : Step(g, n) = Step(f, n)
      <4>. HIDE DEF g
      <4>. QED  BY <3>5
    <3>7. \A n \in 0 .. k : g[n] = Step(g, n)
      <4>1. ASSUME NEW n \in 0 .. k
            PROVE  g[n] = Step(f, n)
        <5>1. n = k \/ n \in 0 .. k - 1
          BY <3>1
        <5>. HIDE DEF Step
        <5>. QED  BY <3>4, <5>1
      <4>. HIDE DEF g, Step
      <4>. QED  BY <3>6, <4>1
    <3>8. Solves(g, k)
      <4>1. g = [n \in 0 .. k |-> g[n]]
        OBVIOUS
      <4>. HIDE DEF g, Step
      <4>. QED  BY <3>7, <4>1
    <3>. QED  BY <2>3, <3>8
  <2>. QED  BY <2>4, <2>5
<1>. DEFINE kept == CHOOSE f : Solves(f, Len(s))
<1>4. Solves(kept, Len(s))
  <2>1. Len(s) \in 0 .. Len(s)
    BY <1>1
  <2>2. \E f : Solves(f, Len(s))
    BY <1>3, <2>1
  <2>. HIDE DEF Solves
  <2>. QED  BY <2>2
<1>5. Without(s, slot) = kept[Len(s)]
  BY DEF Without
<1>6. Right(kept, Len(s))
  <2>1. Len(s) \in 0 .. Len(s)
    BY <1>1
  <2>. HIDE DEF Solves, Right, kept
  <2>. QED  BY <1>2, <1>4, <2>1
<1>7. ToSet(s) = {s[i] : i \in 1 .. Len(s)}
  BY ToSetIs
<1>. HIDE DEF kept
<1>. QED  BY <1>5, <1>6, <1>7

-----------------------------------------------------------------------------
(***************************************************************************)
(* The stack.                                                              *)
(***************************************************************************)
\* The frame, as one of the stack's, is the emission of p's signal that is
\* to run the slot.
WillRun(frame, p, slot) ==
  frame.kind = "changed" /\ frame.property = p /\ slot \in ToSet(frame.todo)

Is(frame, kind, p) == frame.kind = kind /\ frame.property = p

LEMMA FrameFacts ==
  ASSUME NEW f \in Frame
  PROVE  /\ f.property \in Property
         /\ f.kind = "changed" => f.todo \in Seq(Slot)
         /\ f.kind = "ready" => f.property \in Flagged
  BY ConstantsAssumption DEF Frame

\* What a new innermost frame adds.
LEMMA PushStack ==
  ASSUME NEW s \in Seq(Frame), NEW f \in Frame, NEW t, t = <<f>> \o s
  PROVE  /\ t \in Seq(Frame) /\ t # <<>> /\ Head(t) = f /\ Tail(t) = s
         /\ \A kind, p : OnStack(t, kind, p) <=> Is(f, kind, p) \/ OnStack(s, kind, p)
         /\ \A p, slot : Pending(t, p, slot) <=> WillRun(f, p, slot) \/ Pending(s, p, slot)
         /\ \A p : Is(f, "notify", p) => NotifyFirst(t, p)
         /\ \A p : NotifyFirst(s, p) /\ ~Is(f, "changed", p) => NotifyFirst(t, p)
         /\ \A p : NotifyFirst(t, p) =>
                     ~Is(f, "changed", p) /\ (Is(f, "notify", p) \/ NotifyFirst(s, p))
<1>0. <<f>> \in Seq(Frame) /\ Len(<<f>>) = 1 /\ <<f>>[1] = f
  OBVIOUS
<1>1. /\ t \in Seq(Frame) /\ Len(t) = Len(s) + 1 /\ Len(s) \in Nat
      /\ t[1] = f /\ \A n \in 1 .. Len(s) : t[n + 1] = s[n]
  <2>1. /\ t \in Seq(Frame) /\ Len(t) = 1 + Len(s) /\ Len(s) \in Nat
        /\ \A i \in 1 .. 1 + Len(s) : t[i] = IF i <= 1 THEN <<f>>[i] ELSE s[i - 1]
    BY <1>0, ConcatProperties, LenProperties
  <2>2. ASSUME NEW n \in 1 .. Len(s)
        PROVE  t[n + 1] = s[n]
    <3>1. n + 1 \in 1 .. 1 + Len(s) /\ ~(n + 1 <= 1) /\ (n + 1) - 1 = n
      BY <2>1
    <3>. QED  BY <2>1, <3>1
  <2>3. t[1] = f
    BY <2>1, <1>0
  <2>. QED  BY <2>1, <2>2, <2>3
<1>2. t # <<>> /\ Head(t) = f /\ Tail(t) = s
  <2>1. t # <<>>
    BY <1>1, EmptySeq
  <2>2. Tail(t) \in Seq(Frame) /\ Len(Tail(t)) = Len(s)
        /\ \A i \in 1 .. Len(s) : Tail(t)[i] = s[i]
    BY <1>1, <2>1, HeadTailProperties
  <2>3. Tail(t) = s
    BY <2>2, SeqEqual
  <2>. QED  BY <1>1, <2>1, <2>3
<1>3. \A n : n \in 1 .. Len(t) <=> n = 1 \/ (n \in Int /\ n - 1 \in 1 .. Len(s))
  BY <1>1
<1>4. \A n \in 1 .. Len(s) : n + 1 \in 1 .. Len(t) /\ (n + 1) - 1 = n
  BY <1>1
<1>5. \A n, kind, p : At(t, n + 1, kind, p) /\ n \in 1 .. Len(s) <=> At(s, n, kind, p)
  BY <1>1, <1>4 DEF At
<1>6. \A kind, p : At(t, 1, kind, p) <=> Is(f, kind, p)
  BY <1>1, <1>3 DEF At, Is
<1>7. ASSUME NEW n \in 1 .. Len(t)
      PROVE  n = 1 \/ \E k \in 1 .. Len(s) : n = k + 1
  <2>1. n # 1 => n - 1 \in 1 .. Len(s) /\ n = (n - 1) + 1
    BY <1>1
  <2>. QED  BY <2>1
<1>8. ASSUME NEW kind, NEW p
      PROVE  OnStack(t, kind, p) <=> Is(f, kind, p) \/ OnStack(s, kind, p)
  <2>1. ASSUME OnStack(t, kind, p)
        PROVE  Is(f, kind, p) \/ OnStack(s, kind, p)
    <3>1. PICK n \in 1 .. Len(t) : At(t, n, kind, p)
      BY <2>1 DEF OnStack
    <3>. QED  BY <1>5, <1>6, <1>7, <3>1 DEF OnStack
  <2>2. ASSUME Is(f, kind, p) \/ OnStack(s, kind, p)
        PROVE  OnStack(t, kind, p)
    BY <1>3, <1>4, <1>5, <1>6, <2>2 DEF OnStack
  <2>. QED  BY <2>1, <2>2
<1>9. ASSUME NEW p, NEW slot
      PROVE  Pending(t, p, slot) <=> WillRun(f, p, slot) \/ Pending(s, p, slot)
  <2>1. ASSUME Pending(t, p, slot)
        PROVE  WillRun(f, p, slot) \/ Pending(s, p, slot)
    <3>1. PICK n \in 1 .. Len(t) : At(t, n, "changed", p) /\ slot \in ToSet(t[n].todo)
      BY <2>1 DEF Pending
    <3>2. CASE n = 1
      BY <1>1, <1>6, <3>1, <3>2 DEF Is, WillRun
    <3>3. CASE n # 1
      <4>1. PICK k \in 1 .. Len(s) : n = k + 1
        BY <1>7, <3>3
      <4>2. At(s, k, "changed", p) /\ slot \in ToSet(s[k].todo)
        BY <1>1, <1>5, <3>1, <4>1
      <4>. QED  BY <4>2 DEF Pending
    <3>. QED  BY <3>2, <3>3
  <2>2. ASSUME WillRun(f, p, slot)
        PROVE  Pending(t, p, slot)
    <3>1. 1 \in 1 .. Len(t) /\ At(t, 1, "changed", p) /\ slot \in ToSet(t[1].todo)
      BY <1>1, <1>6, <2>2 DEF Is, WillRun
    <3>. QED  BY <3>1 DEF Pending
  <2>3. ASSUME Pending(s, p, slot)
        PROVE  Pending(t, p, slot)
    <3>1. PICK k \in 1 .. Len(s) : At(s, k, "changed", p) /\ slot \in ToSet(s[k].todo)
      BY <2>3 DEF Pending
    <3>2. k + 1 \in 1 .. Len(t) /\ At(t, k + 1, "changed", p) /\ slot \in ToSet(t[k + 1].todo)
      BY <1>1, <1>4, <1>5, <3>1
    <3>. QED  BY <3>2 DEF Pending
  <2>. QED  BY <2>1, <2>2, <2>3
<1>10. ASSUME NEW p, Is(f, "notify", p)
       PROVE  NotifyFirst(t, p)
  <2>1. ASSUME NEW n \in 1 .. Len(t)
        PROVE  1 \in 1 .. n
    BY <1>1
  <2>. QED  BY <1>6, <1>10, <2>1 DEF NotifyFirst
<1>11. ASSUME NEW p, NotifyFirst(s, p), ~Is(f, "changed", p)
       PROVE  NotifyFirst(t, p)
  <2>1. SUFFICES ASSUME NEW n \in 1 .. Len(t), At(t, n, "changed", p)
                 PROVE  \E m \in 1 .. n : At(t, m, "notify", p)
    BY DEF NotifyFirst
  <2>2. PICK k \in 1 .. Len(s) : n = k + 1
    BY <1>6, <1>7, <1>11, <2>1
  <2>3. At(s, k, "changed", p)
    BY <1>5, <2>1, <2>2
  <2>4. PICK m \in 1 .. k : At(s, m, "notify", p)
    BY <1>11, <2>3 DEF NotifyFirst
  <2>5. m + 1 \in 1 .. n /\ At(t, m + 1, "notify", p)
    <3>1. m \in 1 .. Len(s) /\ m + 1 \in 1 .. n
      BY <1>1, <2>2, <2>4
    <3>. QED  BY <1>5, <2>4, <3>1
  <2>. QED  BY <2>5
<1>12. ASSUME NEW p, NotifyFirst(t, p)
       PROVE  ~Is(f, "changed", p) /\ (Is(f, "notify", p) \/ NotifyFirst(s, p))
  <2>1. ~Is(f, "changed", p)
    <3>1. SUFFICES ASSUME Is(f, "changed", p)
                   PROVE  FALSE
      OBVIOUS
    <3>2. 1 \in 1 .. Len(t) /\ At(t, 1, "changed", p)
      BY <1>1, <1>6, <3>1
    <3>3. PICK m \in 1 .. 1 : At(t, m, "notify", p)
      BY <1>12, <3>2 DEF NotifyFirst
    <3>4. Is(f, "notify", p)
      BY <1>6, <3>3
    <3>. QED  BY <3>1, <3>4 DEF Is
  <2>2. ASSUME ~Is(f, "notify", p)
        PROVE  NotifyFirst(s, p)
    <3>1. SUFFICES ASSUME NEW k \in 1 .. Len(s), At(s, k, "changed", p)
                   PROVE  \E m \in 1 .. k : At(s, m, "notify", p)
      BY DEF NotifyFirst
    <3>2. k + 1 \in 1 .. Len(t) /\ At(t, k + 1, "changed", p)
      BY <1>4, <1>5, <3>1
    <3>3. PICK m \in 1 .. k + 1 : At(t, m, "notify", p)
      BY <1>12, <3>2 DEF NotifyFirst
    <3>4. m # 1 /\ m \in 1 .. Len(t)
      BY <1>1, <1>6, <2>2, <3>2, <3>3
    <3>5. PICK j \in 1 .. Len(s) : m = j + 1
      BY <1>7, <3>4
    <3>6. j \in 1 .. k /\ At(s, j, "notify", p)
      <4>1. j \in 1 .. k
        BY <3>3, <3>5
      <4>. QED  BY <1>5, <3>3, <3>5, <4>1
    <3>. QED  BY <3>6
  <2>. QED  BY <2>1, <2>2
<1>. QED  BY <1>1, <1>2, <1>8, <1>9, <1>10, <1>11, <1>12

LEMMA StackIsPushed ==
  ASSUME NEW s \in Seq(Frame), s # <<>>
  PROVE  Head(s) \in Frame /\ Tail(s) \in Seq(Frame) /\ s = <<Head(s)>> \o Tail(s)
<1>. DEFINE t == <<Head(s)>> \o Tail(s)
<1>1. Head(s) \in Frame /\ Tail(s) \in Seq(Frame) /\ Head(s) = s[1]
      /\ Len(Tail(s)) = Len(s) - 1 /\ \A i \in 1 .. Len(s) - 1 : Tail(s)[i] = s[i + 1]
  BY HeadTailProperties
<1>2. Len(s) \in Nat /\ Len(s) > 0
  BY LenProperties, EmptySeq
<1>3. /\ t \in Seq(Frame) /\ Len(t) = 1 + (Len(s) - 1)
      /\ \A i \in 1 .. 1 + (Len(s) - 1) : t[i] = IF i <= 1 THEN s[1] ELSE Tail(s)[i - 1]
  <2>1. <<Head(s)>> \in Seq(Frame) /\ Len(<<Head(s)>>) = 1 /\ <<Head(s)>>[1] = s[1]
    BY <1>1
  <2>2. /\ t \in Seq(Frame) /\ Len(t) = 1 + (Len(s) - 1)
        /\ \A i \in 1 .. 1 + (Len(s) - 1) : t[i] = IF i <= 1 THEN <<Head(s)>>[i] ELSE Tail(s)[i - 1]
    BY <1>1, <2>1, ConcatProperties
  <2>3. \A i \in 1 .. 1 + (Len(s) - 1) : i <= 1 => i = 1
    BY <1>2
  <2>. HIDE DEF t
  <2>. QED  BY <2>1, <2>2, <2>3
<1>. HIDE DEF t
<1>4. ASSUME NEW i \in 1 .. Len(s)
      PROVE  s[i] = t[i]
  <2>1. CASE i = 1
    BY <1>2, <1>3, <2>1
  <2>2. CASE i # 1
    <3>1. i - 1 \in 1 .. Len(s) - 1 /\ (i - 1) + 1 = i /\ ~(i <= 1) /\ i \in 1 .. 1 + (Len(s) - 1)
      BY <1>2, <2>2
    <3>. QED  BY <1>1, <1>3, <3>1
  <2>. QED  BY <2>1, <2>2
<1>5. Len(s) = Len(t)
  BY <1>2, <1>3
<1>6. s = t
  BY <1>3, <1>4, <1>5, SeqEqual
<1>. QED  BY <1>1, <1>6 DEF t

-----------------------------------------------------------------------------
(***************************************************************************)
(* Signals.                                                                *)
(***************************************************************************)
LEMMA ObjectFields ==
  ASSUME NEW o \in Object
  PROVE  /\ o.value \in [Property -> Value] /\ o.previous \in [Property -> Value]
         /\ o.bound \subseteq Bindable /\ o.ready \in [Property -> BOOLEAN]
         /\ o.connections \in [Property -> Seq(Slot)] /\ o.stack \in Seq(Frame)
         /\ o.seen \in [Property -> Value] /\ o.seenReady \in [Flagged -> BOOLEAN]
         /\ o.failed \in BOOLEAN /\ o.stale \subseteq Bindable /\ o.reverted \subseteq Bindable
         /\ o.undone \subseteq Bindable
  BY DEF Object

\* The object is the same but for the stack and the ready flags.
SameData(o, u) ==
  /\ u.value = o.value /\ u.bound = o.bound /\ u.connections = o.connections
  /\ u.stale = o.stale /\ u.reverted = o.reverted /\ u.undone = o.undone /\ u.failed = o.failed

LEMMA PushIs ==
  ASSUME NEW o \in Object, NEW f \in Frame
  PROVE  LET u == Push(o, f)
         IN  /\ u \in Object /\ SameData(o, u) /\ u.stack = <<f>> \o o.stack
             /\ u.previous = o.previous /\ u.seen = o.seen
             /\ u.ready = o.ready /\ u.seenReady = o.seenReady
<1>1. <<f>> \o o.stack \in Seq(Frame)
  BY PushStack, ObjectFields
<1>. DEFINE t == <<f>> \o o.stack
<1>. HIDE DEF t
<1>2. Push(o, f) = [o EXCEPT !.stack = t]
  BY DEF Push, t
<1>3. t \in Seq(Frame)
  BY <1>1 DEF t
<1>4. LET u == Push(o, f)
      IN  /\ u \in Object /\ SameData(o, u) /\ u.stack = t
          /\ u.previous = o.previous /\ u.seen = o.seen
          /\ u.ready = o.ready /\ u.seenReady = o.seenReady
  BY <1>2, <1>3 DEF Object, SameData
<1>. QED  BY <1>4 DEF t

\* What has a longer stack of emissions, and else is the same, holds.
LEMMA HoldsGrows ==
  ASSUME NEW o \in Object, NEW u \in Object, SameData(o, u), u.previous = o.previous,
         NEW p \in Property, Holds(o, p),
         OnStack(o.stack, "connect", p) => OnStack(u.stack, "connect", p),
         \A q \in Inputs[p] : Pending(o.stack, q, Reevaluation(p)) => Pending(u.stack, q, Reevaluation(p))
  PROVE  Holds(u, p)
BY DEF Holds, Follows, Connected, Getter, Dirty, SameData

\* A frame other than an emission, or a removed one, leaves what is owed.
LEMMA PushQuiet ==
  ASSUME NEW o \in Object, NEW f \in Frame, f.kind \in {"ready", "notify"}, NEW x \in Property
  PROVE  /\ AllBut(o, x) => AllBut(Push(o, f), x)
         /\ Notifies(o, x) => Notifies(Push(o, f), x)
         /\ Is(f, "notify", x) => Notifies(Push(o, f), x)
<1>. DEFINE u == Push(o, f)
<1>1. /\ u \in Object /\ SameData(o, u) /\ u.stack = <<f>> \o o.stack
      /\ u.previous = o.previous /\ u.seen = o.seen
      /\ u.ready = o.ready /\ u.seenReady = o.seenReady
  BY PushIs
<1>. HIDE DEF u
<1>2. /\ \A kind, p : OnStack(u.stack, kind, p) <=> Is(f, kind, p) \/ OnStack(o.stack, kind, p)
      /\ \A p, slot : Pending(o.stack, p, slot) => Pending(u.stack, p, slot)
      /\ \A p : Is(f, "notify", p) => NotifyFirst(u.stack, p)
      /\ \A p : NotifyFirst(o.stack, p) => NotifyFirst(u.stack, p)
  <2>1. \A p : ~Is(f, "changed", p)
    BY DEF Is
  <2>2. o.stack \in Seq(Frame)
    BY ObjectFields
  <2>. QED  BY <1>1, <2>1, <2>2, PushStack
<1>3. ASSUME NEW p \in Property, Notifies(o, p) \/ Is(f, "notify", p)
      PROVE  Notifies(u, p)
  BY <1>1, <1>2, <1>3 DEF Notifies, Dirty, SameData
<1>4. ASSUME AllBut(o, x)
      PROVE  AllBut(u, x)
  <2>1. ASSUME NEW p \in Property
        PROVE  Heard(u, p) /\ HasGetter(u, p) /\ Holds(u, p)
    <3>1. Heard(o, p) /\ HasGetter(o, p) /\ Holds(o, p)
      BY <1>4 DEF AllBut
    <3>2. Heard(u, p)
      BY <1>1, <1>2, <3>1 DEF Heard, SameData
    <3>3. HasGetter(u, p)
      <4>1. ~Is(f, "connect", p)
        BY DEF Is
      <4>. QED  BY <1>1, <1>2, <3>1, <4>1 DEF HasGetter, SameData
    <3>4. Holds(u, p)
      BY <1>1, <1>2, <3>1, HoldsGrows
    <3>. QED  BY <3>2, <3>3, <3>4
  <2>2. ASSUME NEW p \in Property \ {x}
        PROVE  Notifies(u, p)
    BY <1>3, <1>4, <2>2 DEF AllBut
  <2>. QED  BY <1>1, <2>1, <2>2 DEF AllBut
<1>. QED  BY <1>3, <1>4 DEF u

\* doTriggerChangeSignal(): those who are connected are told, or are to be.
LEMMA NotifyInv ==
  ASSUME NEW o, NEW x \in Property, AllBut(o, x)
  PROVE  ObjectInv(Notify(o, x))
<1>1. o \in Object
  BY DEF AllBut
<1>2. CASE ~Dirty(o, x)
  <2>1. Notify(o, x) = o /\ Notifies(o, x)
    BY <1>2 DEF Notify, Dirty, Notifies
  <2>. QED  BY <2>1 DEF AllBut, ObjectInv
<1>3. CASE Dirty(o, x)
  <2>. DEFINE f == [kind |-> "changed", property |-> x, todo |-> o.connections[x]]
              w == [o EXCEPT !.previous[x] = o.value[x]]
              u == Push(w, f)
  <2>1. Notify(o, x) = u
    BY <1>3 DEF Notify, Emit, Dirty
  <2>2. f \in Frame /\ Is(f, "changed", x) /\ f.todo = o.connections[x]
        /\ \A kind, p : Is(f, kind, p) => kind = "changed" /\ p = x
    BY <1>1, ObjectFields DEF Frame, Is
  <2>3. /\ w \in Object /\ SameData(o, w) /\ w.stack = o.stack /\ w.seen = o.seen
        /\ w.ready = o.ready /\ w.seenReady = o.seenReady
        /\ w.previous = [o.previous EXCEPT ![x] = o.value[x]]
    BY <1>1 DEF Object, SameData
  <2>. HIDE DEF f, w
  <2>4. /\ u \in Object /\ SameData(o, u) /\ u.stack = <<f>> \o o.stack /\ u.seen = o.seen
        /\ u.ready = o.ready /\ u.seenReady = o.seenReady
        /\ u.previous = [o.previous EXCEPT ![x] = o.value[x]]
    BY <2>2, <2>3, PushIs DEF SameData
  <2>. HIDE DEF u
  <2>5. /\ u.previous[x] = u.value[x]
        /\ \A p \in Property : p # x => u.previous[p] = o.previous[p]
    BY <1>1, <2>4, ObjectFields DEF SameData
  <2>6. /\ \A kind, p : OnStack(u.stack, kind, p) => OnStack(o.stack, kind, p) \/ kind = "changed"
        /\ \A kind, p : OnStack(o.stack, kind, p) => OnStack(u.stack, kind, p)
        /\ \A p, slot : Pending(o.stack, p, slot) => Pending(u.stack, p, slot)
        /\ \A slot : slot \in ToSet(o.connections[x]) => Pending(u.stack, x, slot)
        /\ \A p : NotifyFirst(o.stack, p) /\ p # x => NotifyFirst(u.stack, p)
    <3>1. \A slot : slot \in ToSet(o.connections[x]) => WillRun(f, x, slot)
      BY <2>2 DEF WillRun, Is
    <3>2. o.stack \in Seq(Frame)
      BY <1>1, ObjectFields
    <3>3. /\ \A kind, p : OnStack(u.stack, kind, p) <=> Is(f, kind, p) \/ OnStack(o.stack, kind, p)
          /\ \A p, slot : Pending(u.stack, p, slot) <=> WillRun(f, p, slot) \/ Pending(o.stack, p, slot)
          /\ \A p : NotifyFirst(o.stack, p) /\ ~Is(f, "changed", p) => NotifyFirst(u.stack, p)
      BY <2>2, <2>4, <3>2, PushStack
    <3>. QED  BY <2>2, <3>1, <3>3
  <2>7. ASSUME NEW p \in Property
        PROVE  Heard(u, p) /\ HasGetter(u, p) /\ Holds(u, p) /\ Notifies(u, p)
    <3>1. Heard(o, p) /\ HasGetter(o, p) /\ Holds(o, p) /\ (p # x => Notifies(o, p))
      BY DEF AllBut
    <3>2. Heard(u, p)
      BY <2>4, <2>5, <2>6, <3>1 DEF Heard, SameData
    <3>3. HasGetter(u, p)
      BY <2>4, <2>6, <3>1 DEF HasGetter, SameData
    <3>4. Notifies(u, p)
      BY <2>4, <2>5, <2>6, <3>1 DEF Notifies, Dirty, SameData
    <3>5. Holds(u, p)
      <4>1. CASE OnStack(o.stack, "connect", p) \/ p \notin o.bound
        BY <2>4, <2>6, <4>1 DEF Holds, SameData
      <4>2. CASE Connected(o, p) /\ Follows(o, p)
        <5>1. Connected(u, p)
          BY <2>4, <4>2 DEF Connected, SameData
        <5>2. CASE p \in o.stale \union o.reverted \/ o.value[p] = Getter(o, p)
          BY <2>4, <5>1, <5>2 DEF Holds, Follows, Getter, SameData
        <5>3. ASSUME NEW q \in Inputs[p], Dirty(o, q) \/ Pending(o.stack, q, Reevaluation(p))
              PROVE  Dirty(u, q) \/ Pending(u.stack, q, Reevaluation(p))
          <6>1. q \in Property
            BY ConstantsAssumption
          <6>2. CASE q = x
            BY <2>6, <4>2, <5>3, <6>2 DEF Connected
          <6>3. CASE q # x
            BY <2>4, <2>5, <2>6, <5>3, <6>1, <6>3 DEF Dirty, SameData
          <6>. QED  BY <6>2, <6>3
        <5>. QED  BY <4>2, <5>1, <5>2, <5>3 DEF Holds, Follows
      <4>. QED  BY <3>1, <4>1, <4>2 DEF Holds
    <3>. QED  BY <3>2, <3>3, <3>4, <3>5
  <2>. QED  BY <2>1, <2>4, <2>7 DEF ObjectInv
<1>. QED  BY <1>2, <1>3

LEMMA AllAndOne ==
  ASSUME NEW o, NEW x \in Property
  PROVE  ObjectInv(o) <=> (AllBut(o, x) /\ Notifies(o, x))
BY DEF ObjectInv, AllBut

\* A new ready flag is signalled.
LEMMA SetReadyInv ==
  ASSUME NEW o, NEW x \in Property, NEW y \in Property, NEW ready \in BOOLEAN, AllBut(o, x)
  PROVE  LET u == SetReady(o, y, ready)
         IN  AllBut(u, x) /\ (Notifies(o, x) => Notifies(u, x)) /\ SameData(o, u)
<1>. DEFINE u == SetReady(o, y, ready)
<1>1. o \in Object
  BY DEF AllBut
<1>2. CASE ~(y \in Flagged /\ o.ready[y] # ready)
  <2>1. u = o
    BY <1>2 DEF SetReady
  <2>. QED  BY <2>1 DEF SameData
<1>3. CASE y \in Flagged /\ o.ready[y] # ready
  <2>. DEFINE f == [kind |-> "ready", property |-> y]
              w == [o EXCEPT !.ready[y] = ready]
  <2>1. u = Push(w, f)
    BY <1>3 DEF SetReady
  <2>2. f \in Frame /\ Is(f, "ready", y) /\ f.kind = "ready"
        /\ \A p : ~Is(f, "connect", p) /\ ~Is(f, "changed", p)
    BY <1>3 DEF Frame, Is
  <2>3. /\ w \in Object /\ SameData(o, w) /\ w.stack = o.stack /\ w.seen = o.seen
        /\ w.previous = o.previous /\ w.seenReady = o.seenReady
        /\ w.ready = [o.ready EXCEPT ![y] = ready]
    BY <1>1 DEF Object, SameData
  <2>. HIDE DEF f, w, u
  <2>4. /\ u \in Object /\ SameData(o, u) /\ u.stack = <<f>> \o o.stack /\ u.seen = o.seen
        /\ u.previous = o.previous /\ u.seenReady = o.seenReady
        /\ u.ready = [o.ready EXCEPT ![y] = ready]
    BY <2>1, <2>2, <2>3, PushIs DEF SameData
  <2>5. /\ \A kind, p : OnStack(u.stack, kind, p) <=> Is(f, kind, p) \/ OnStack(o.stack, kind, p)
        /\ \A p, slot : Pending(o.stack, p, slot) => Pending(u.stack, p, slot)
        /\ \A p : NotifyFirst(o.stack, p) => NotifyFirst(u.stack, p)
    <3>1. o.stack \in Seq(Frame)
      BY <1>1, ObjectFields
    <3>. QED  BY <2>2, <2>4, <3>1, PushStack
  <2>6. ASSUME NEW p \in Property
        PROVE  Heard(u, p) /\ HasGetter(u, p) /\ Holds(u, p) /\ (Notifies(o, p) => Notifies(u, p))
    <3>1. Heard(o, p) /\ HasGetter(o, p) /\ Holds(o, p)
      BY DEF AllBut
    <3>2. Heard(u, p)
      <4>1. p # y => u.ready[p] = o.ready[p]
        BY <1>1, <2>4, ObjectFields
      <4>. QED  BY <2>2, <2>4, <2>5, <3>1, <4>1 DEF Heard, SameData
    <3>3. HasGetter(u, p)
      BY <2>2, <2>4, <2>5, <3>1 DEF HasGetter, SameData
    <3>4. Holds(u, p)
      BY <1>1, <2>4, <2>5, <3>1, HoldsGrows
    <3>5. Notifies(o, p) => Notifies(u, p)
      BY <2>4, <2>5 DEF Notifies, Dirty, SameData
    <3>. QED  BY <3>2, <3>3, <3>4, <3>5
  <2>7. \A p \in Property \ {x} : Notifies(o, p)
    BY DEF AllBut
  <2>8. AllBut(u, x)
    BY <2>4, <2>6, <2>7 DEF AllBut
  <2>9. Notifies(o, x) => Notifies(u, x)
    BY <2>6
  <2>10. SameData(o, u)
    BY <2>4
  <2>. QED  BY <2>8, <2>9, <2>10 DEF u
<1>. HIDE DEF u
<1>. QED  BY <1>2, <1>3 DEF u

\* triggerValueChangedSignal() makes up for what a new value owes.
LEMMA TriggerInv ==
  ASSUME NEW o, NEW x \in Property, AllBut(o, x)
  PROVE  ObjectInv(TriggerValueChangedSignal(o, x))
<1>1. o \in Object
  BY DEF AllBut
<1>2. CASE x \in Flagged /\ ~o.ready[x]
  <2>. DEFINE f == [kind |-> "notify", property |-> x]
              w == Push(o, f)
  <2>1. f \in Frame /\ f.kind \in {"ready", "notify"} /\ Is(f, "notify", x)
    BY DEF Frame, Is
  <2>. HIDE DEF f
  <2>2. AllBut(w, x) /\ Notifies(w, x)
    BY <1>1, <2>1, PushQuiet
  <2>. HIDE DEF w
  <2>3. AllBut(SetReady(w, x, TRUE), x) /\ Notifies(SetReady(w, x, TRUE), x)
    BY <2>2, SetReadyInv
  <2>4. TriggerValueChangedSignal(o, x) = SetReady(w, x, TRUE)
    BY <1>2 DEF TriggerValueChangedSignal, w, f
  <2>. QED  BY <2>3, <2>4, AllAndOne
<1>3. CASE ~(x \in Flagged /\ ~o.ready[x])
  <2>1. TriggerValueChangedSignal(o, x) = Notify(o, x)
    BY <1>3 DEF TriggerValueChangedSignal
  <2>. QED  BY <2>1, NotifyInv
<1>. QED  BY <1>2, <1>3

-----------------------------------------------------------------------------
(***************************************************************************)
(* New values.                                                             *)
(***************************************************************************)
\* Only the values of its inputs matter to a getter.
LEMMA GetterDepends ==
  ASSUME NEW o, NEW u, NEW p \in Property, \A q \in Inputs[p] : u.value[q] = o.value[q]
  PROVE  Getter(u, p) = Getter(o, p)
BY DEF Getter

LEMMA GetterIsValue ==
  ASSUME NEW o \in Object, NEW p \in Property
  PROVE  Getter(o, p) \in Value
<1>1. [q \in Inputs[p] |-> o.value[q]] \in [Inputs[p] -> Value]
  BY ConstantsAssumption, ObjectFields
<1>. QED  BY <1>1, ConstantsAssumption DEF Getter

\* The properties whose getter has another result now.
Misled(o, x) == {q \in o.bound : x \in Inputs[q] /\ o.value[q] # Getter(o, q)}

LEMMA AssignIs ==
  ASSUME NEW o \in Object, NEW x \in Property, NEW v \in Value
  PROVE  LET u == Assign(o, x, v)
         IN  /\ u \in Object /\ u.value = [o.value EXCEPT ![x] = v]
             /\ u.previous = o.previous /\ u.bound = o.bound /\ u.ready = o.ready
             /\ u.connections = o.connections /\ u.stack = o.stack /\ u.seen = o.seen
             /\ u.seenReady = o.seenReady /\ u.stale = o.stale /\ u.undone = o.undone
             /\ u.failed = o.failed /\ o.reverted \subseteq u.reverted
             /\ Dirty(o, x) /\ v = o.previous[x] => Misled(u, x) \subseteq u.reverted
<1>. DEFINE a == [o EXCEPT !.value[x] = v]
            misled == {q \in o.bound : x \in Inputs[q] /\ a.value[q] # Getter(a, q)}
<1>1. /\ a \in Object /\ a.value = [o.value EXCEPT ![x] = v]
      /\ a.previous = o.previous /\ a.bound = o.bound /\ a.ready = o.ready
      /\ a.connections = o.connections /\ a.stack = o.stack /\ a.seen = o.seen
      /\ a.seenReady = o.seenReady /\ a.stale = o.stale /\ a.undone = o.undone
      /\ a.failed = o.failed /\ a.reverted = o.reverted
  BY DEF Object
<1>2. CASE Dirty(o, x) /\ v = o.previous[x]
  <2>. DEFINE u == [a EXCEPT !.reverted = @ \union misled]
  <2>1. Assign(o, x, v) = u
    BY <1>2 DEF Assign, Dirty
  <2>2. misled \subseteq Bindable
    BY ObjectFields
  <2>. HIDE DEF a, misled
  <2>3. /\ u \in Object /\ u.value = a.value
        /\ u.previous = a.previous /\ u.bound = a.bound /\ u.ready = a.ready
        /\ u.connections = a.connections /\ u.stack = a.stack /\ u.seen = a.seen
        /\ u.seenReady = a.seenReady /\ u.stale = a.stale /\ u.undone = a.undone
        /\ u.failed = a.failed /\ u.reverted = a.reverted \union misled
    BY <1>1, <2>2 DEF Object
  <2>. HIDE DEF u
  <2>4. Misled(u, x) = misled
    BY <1>1, <2>3 DEF Misled, misled, Getter
  <2>. QED  BY <1>1, <2>1, <2>3, <2>4
<1>3. CASE ~(Dirty(o, x) /\ v = o.previous[x])
  <2>1. Assign(o, x, v) = a
    BY <1>3 DEF Assign, Dirty
  <2>. HIDE DEF a
  <2>. QED  BY <1>1, <1>3, <2>1
<1>. QED  BY <1>2, <1>3

\* The property either may be left as it is, or gets its getter's value.
Allowed(o, x, v) ==
  x \in o.bound => \/ OnStack(o.stack, "connect", x)
                   \/ Connected(o, x) /\ (x \in o.stale \union o.reverted \/ v = Getter(o, x))

\* All hold but one.
HoldsBut(o, x) ==
  /\ o \in Object
  /\ \A p \in Property : Heard(o, p) /\ HasGetter(o, p) /\ Notifies(o, p)
  /\ \A p \in Property \ {x} : Holds(o, p)

\* A new value: those that depend on it are misled, or will be told.
LEMMA AssignInv ==
  ASSUME NEW o, NEW x \in Property, NEW v \in Value, HoldsBut(o, x), Allowed(o, x, v)
  PROVE  AllBut(Assign(o, x, v), x)
<1>. DEFINE u == Assign(o, x, v)
<1>1. o \in Object
  BY DEF HoldsBut
<1>2. /\ u \in Object /\ u.value = [o.value EXCEPT ![x] = v]
      /\ u.previous = o.previous /\ u.bound = o.bound /\ u.ready = o.ready
      /\ u.connections = o.connections /\ u.stack = o.stack /\ u.seen = o.seen
      /\ u.seenReady = o.seenReady /\ u.stale = o.stale /\ u.undone = o.undone
      /\ u.failed = o.failed /\ o.reverted \subseteq u.reverted
      /\ Dirty(o, x) /\ v = o.previous[x] => Misled(u, x) \subseteq u.reverted
  BY <1>1, AssignIs
<1>. HIDE DEF u
<1>3. u.value[x] = v /\ \A q \in Property : q # x => u.value[q] = o.value[q]
  BY <1>1, <1>2, ObjectFields
<1>4. ASSUME NEW p \in Property
      PROVE  Heard(u, p) /\ HasGetter(u, p) /\ (p # x => Notifies(u, p))
  <2>1. Heard(o, p) /\ HasGetter(o, p) /\ Notifies(o, p)
    BY DEF HoldsBut
  <2>2. Heard(u, p)
    BY <1>2, <2>1 DEF Heard
  <2>3. HasGetter(u, p)
    BY <1>2, <2>1 DEF HasGetter
  <2>4. p # x => Notifies(u, p)
    BY <1>2, <1>3, <2>1 DEF Notifies, Dirty
  <2>. QED  BY <2>2, <2>3, <2>4
<1>5. ASSUME NEW p \in Property, p \in o.bound, ~OnStack(o.stack, "connect", p)
      PROVE  Connected(u, p) /\ Follows(u, p)
  <2>1. Connected(o, p)
    BY <1>5 DEF HoldsBut, Holds, Allowed
  <2>2. Connected(u, p)
    BY <1>2, <2>1 DEF Connected
  <2>3. Inputs[p] \subseteq Property
    BY ConstantsAssumption
  <2>4. ASSUME x \in Inputs[p], Dirty(u, x) \/ Dirty(o, x)
        PROVE  Follows(u, p)
    <3>1. CASE Dirty(u, x)
      BY <2>4, <3>1 DEF Follows
    <3>2. CASE ~Dirty(u, x)
      <4>1. v = o.previous[x]
        BY <1>2, <1>3, <3>2 DEF Dirty
      <4>2. Misled(u, x) \subseteq u.reverted
        BY <1>2, <2>4, <3>2, <4>1
      <4>3. p \in Misled(u, x) \/ u.value[p] = Getter(u, p)
        BY <1>2, <1>5, <2>4 DEF Misled
      <4>. QED  BY <4>2, <4>3 DEF Follows
    <3>. QED  BY <3>1, <3>2
  <2>5. ASSUME x \notin Inputs[p] \/ ~(Dirty(u, x) \/ Dirty(o, x))
        PROVE  Getter(u, p) = Getter(o, p) /\ (u.value[x] = o.value[x] \/ x \notin Inputs[p])
    <3>1. CASE x \notin Inputs[p]
      <4>1. \A q \in Inputs[p] : u.value[q] = o.value[q]
        BY <1>3, <2>3, <3>1
      <4>. QED  BY <3>1, <4>1, GetterDepends
    <3>2. CASE ~(Dirty(u, x) \/ Dirty(o, x))
      <4>1. u.value[x] = o.value[x]
        BY <1>2, <3>2 DEF Dirty
      <4>2. \A q \in Inputs[p] : u.value[q] = o.value[q]
        BY <1>3, <2>3, <4>1
      <4>. QED  BY <4>1, <4>2, GetterDepends
    <3>. QED  BY <2>5, <3>1, <3>2
  <2>6. ASSUME x \notin Inputs[p] \/ ~(Dirty(u, x) \/ Dirty(o, x))
        PROVE  Follows(u, p)
    <3>1. CASE p = x
      <4>1. x \in o.stale \union o.reverted \/ v = Getter(o, x)
        BY <1>5, <3>1 DEF Allowed
      <4>. QED  BY <1>2, <1>3, <2>5, <2>6, <3>1, <4>1 DEF Follows
    <3>2. CASE p # x
      <4>1. Follows(o, p)
        BY <1>5, <3>2 DEF HoldsBut, Holds
      <4>2. CASE p \in o.stale \union o.reverted
        BY <1>2, <4>2 DEF Follows
      <4>3. CASE o.value[p] = Getter(o, p)
        BY <1>3, <2>5, <2>6, <3>2, <4>3 DEF Follows
      <4>4. ASSUME NEW q \in Inputs[p], Dirty(o, q) \/ Pending(o.stack, q, Reevaluation(p))
            PROVE  Dirty(u, q) \/ Pending(u.stack, q, Reevaluation(p))
        <5>1. CASE Dirty(o, q)
          <6>1. q # x
            BY <2>6, <4>4, <5>1
          <6>. QED  BY <1>2, <1>3, <2>3, <5>1, <6>1 DEF Dirty
        <5>2. CASE Pending(o.stack, q, Reevaluation(p))
          BY <1>2, <5>2
        <5>. QED  BY <4>4, <5>1, <5>2
      <4>. QED  BY <4>1, <4>2, <4>3, <4>4 DEF Follows
    <3>. QED  BY <3>1, <3>2
  <2>. QED  BY <2>2, <2>4, <2>6
<1>6. \A p \in Property : Holds(u, p)
  BY <1>2, <1>5 DEF Holds
<1>7. AllBut(u, x)
  BY <1>2, <1>4, <1>6 DEF AllBut
<1>. QED  BY <1>7 DEF u

\* reevaluate() makes a property follow that is, or is to be, connected.
LEMMA EvaluateInv ==
  ASSUME NEW o, NEW x \in Property, HoldsBut(o, x), x \in o.bound,
         OnStack(o.stack, "connect", x) \/ Connected(o, x)
  PROVE  ObjectInv(Reevaluate(o, x))
<1>. DEFINE v == Getter(o, x)
            w == [o EXCEPT !.stale = @ \ {x}, !.reverted = @ \ {x}]
<1>1. o \in Object
  BY DEF HoldsBut
<1>2. v \in Value
  BY <1>1, GetterIsValue
<1>3. /\ w \in Object /\ w.value = o.value
      /\ w.previous = o.previous /\ w.bound = o.bound /\ w.ready = o.ready
      /\ w.connections = o.connections /\ w.stack = o.stack /\ w.seen = o.seen
      /\ w.seenReady = o.seenReady /\ w.stale = o.stale \ {x} /\ w.undone = o.undone
      /\ w.failed = o.failed /\ w.reverted = o.reverted \ {x}
  BY <1>1 DEF Object
<1>4. Reevaluate(o, x) = TriggerValueChangedSignal(Assign(w, x, v), x)
  BY DEF Reevaluate, Evaluated
<1>. HIDE DEF w
<1>5. Getter(w, x) = v
  BY <1>3 DEF Getter
<1>6. HoldsBut(w, x)
  <2>1. ASSUME NEW p \in Property
        PROVE  Heard(w, p) /\ HasGetter(w, p) /\ Notifies(w, p)
    <3>1. Heard(o, p) /\ HasGetter(o, p) /\ Notifies(o, p)
      BY DEF HoldsBut
    <3>. QED  BY <1>3, <3>1 DEF Heard, HasGetter, Notifies, Dirty
  <2>2. ASSUME NEW p \in Property \ {x}
        PROVE  Holds(w, p)
    <3>1. Holds(o, p)
      BY DEF HoldsBut
    <3>. QED  BY <1>3, <2>2, <3>1 DEF Holds, Connected, Follows, Getter, Dirty
  <2>. QED  BY <1>3, <2>1, <2>2 DEF HoldsBut
<1>7. Allowed(w, x, v)
  BY <1>3, <1>5 DEF Allowed, Connected
<1>. HIDE DEF v
<1>8. AllBut(Assign(w, x, v), x)
  BY <1>2, <1>6, <1>7, AssignInv
<1>. QED  BY <1>4, <1>8, TriggerInv

-----------------------------------------------------------------------------
(***************************************************************************)
(* Operations.                                                             *)
(***************************************************************************)
\* A slot is disconnected from the emissions under way.
LEMMA FilterStack ==
  ASSUME NEW s \in Seq(Frame), NEW r, NEW t, t = Skipping(s, r)
  PROVE  /\ t \in Seq(Frame)
         /\ \A kind, p : OnStack(t, kind, p) <=> OnStack(s, kind, p)
         /\ \A p : NotifyFirst(t, p) <=> NotifyFirst(s, p)
         /\ \A p, slot : Pending(s, p, slot) /\ slot # r => Pending(t, p, slot)
<1>1. Len(s) \in Nat /\ DOMAIN s = 1 .. Len(s) /\ \A n \in 1 .. Len(s) : s[n] \in Frame
  BY LenProperties
<1>2. ASSUME NEW n \in 1 .. Len(s)
      PROVE  /\ t[n] \in Frame /\ t[n].kind = s[n].kind /\ t[n].property = s[n].property
             /\ s[n].kind = "changed" => ToSet(t[n].todo) = ToSet(s[n].todo) \ {r}
  <2>1. s[n] \in Frame
    BY <1>1
  <2>2. CASE s[n].kind # "changed"
    <3>1. t[n] = s[n]
      BY <1>1, <2>2 DEF Skipping
    <3>. QED  BY <2>1, <2>2, <3>1
  <2>3. CASE s[n].kind = "changed"
    <3>1. t[n] = [s[n] EXCEPT !.todo = Without(s[n].todo, r)]
      BY <1>1, <2>3 DEF Skipping
    <3>2. s[n].todo \in Seq(Slot)
      BY <2>1, <2>3, FrameFacts
    <3>3. Without(s[n].todo, r) \in Seq(Slot) /\ ToSet(Without(s[n].todo, r)) = ToSet(s[n].todo) \ {r}
      BY <3>2, WithoutIs
    <3>4. s[n] \in [kind : {"changed"}, property : Property, todo : Seq(Slot)]
      BY <2>1, <2>3 DEF Frame
    <3>5. /\ t[n] \in [kind : {"changed"}, property : Property, todo : Seq(Slot)]
          /\ t[n].kind = s[n].kind /\ t[n].property = s[n].property
          /\ t[n].todo = Without(s[n].todo, r)
      BY <3>1, <3>3, <3>4
    <3>. QED  BY <3>3, <3>5 DEF Frame
  <2>. QED  BY <2>2, <2>3
<1>3. t \in Seq(Frame) /\ Len(t) = Len(s)
  <2>. DEFINE e(n) == IF s[n].kind = "changed"
                      THEN [s[n] EXCEPT !.todo = Without(s[n].todo, r)] ELSE s[n]
  <2>0. t = [n \in 1 .. Len(s) |-> e(n)]
    <3>1. t = [n \in DOMAIN s |-> e(n)]
      BY DEF Skipping
    <3>. HIDE DEF e
    <3>. QED  BY <1>1, <3>1
  <2>. HIDE DEF e
  <2>2. \A n \in 1 .. Len(s) : t[n] = e(n)
    BY <2>0
  <2>3. \A n \in 1 .. Len(s) : e(n) \in Frame
    BY <1>2, <2>2
  <2>4. t \in [1 .. Len(s) -> Frame]
    BY <2>0, <2>3
  <2>5. t \in Seq(Frame)
    BY <1>1, <2>4
  <2>6. DOMAIN t = 1 .. Len(t) /\ DOMAIN t = 1 .. Len(s) /\ Len(t) \in Nat
    BY <2>4, <2>5, LenProperties
  <2>7. Len(t) = Len(s)
    <3>1. Len(t) \in 1 .. Len(t) => Len(t) \in 1 .. Len(s)
      BY <2>6
    <3>2. Len(s) \in 1 .. Len(s) => Len(s) \in 1 .. Len(t)
      BY <2>6
    <3>3. Len(t) \in Nat /\ Len(s) \in Nat
      BY <1>1, <2>6
    <3>. QED  BY <3>1, <3>2, <3>3
  <2>. QED  BY <2>5, <2>7
<1>4. \A n, kind, p : At(t, n, kind, p) <=> At(s, n, kind, p)
  BY <1>2, <1>3 DEF At
<1>5. \A kind, p : OnStack(t, kind, p) <=> OnStack(s, kind, p)
  BY <1>3, <1>4 DEF OnStack
<1>6. \A p : NotifyFirst(t, p) <=> NotifyFirst(s, p)
  BY <1>3, <1>4 DEF NotifyFirst
<1>7. ASSUME NEW p, NEW slot, Pending(s, p, slot), slot # r
      PROVE  Pending(t, p, slot)
  <2>1. PICK n \in 1 .. Len(s) : At(s, n, "changed", p) /\ slot \in ToSet(s[n].todo)
    BY <1>7 DEF Pending
  <2>2. At(t, n, "changed", p) /\ slot \in ToSet(t[n].todo) /\ n \in 1 .. Len(t)
    BY <1>2, <1>3, <1>4, <1>7, <2>1 DEF At
  <2>. QED  BY <2>2 DEF Pending
<1>. QED  BY <1>3, <1>5, <1>6, <1>7

\* x has no binding.  Where it is in the middle of being bound, it is not
\* recorded yet that it will be connected without a getter.
Broken(o, x) ==
  /\ o \in Object /\ x \notin o.bound
  /\ \A p \in Property : Heard(o, p) /\ Holds(o, p) /\ Notifies(o, p)
  /\ \A p \in Property \ {x} : HasGetter(o, p)
  /\ (\E q \in Property : Reevaluation(x) \in ToSet(o.connections[q])) => x \in o.undone

LEMMA BreakInv ==
  ASSUME NEW o, NEW x \in Property, ObjectInv(o)
  PROVE  LET u == BreakBinding(o, x)
         IN  /\ Broken(u, x) /\ u.value = o.value
             /\ \A kind, p : OnStack(u.stack, kind, p) <=> OnStack(o.stack, kind, p)
<1>. DEFINE u == BreakBinding(o, x)
            r == Reevaluation(x)
<1>1. o \in Object
  BY DEF ObjectInv
<1>2. CASE x \notin o.bound
  <2>1. u = o
    BY <1>2 DEF BreakBinding
  <2>2. (\E q \in Property : Reevaluation(x) \in ToSet(o.connections[q])) => x \in o.undone
    BY <1>2 DEF ObjectInv, HasGetter
  <2>3. Broken(o, x)
    BY <1>1, <1>2, <2>2 DEF ObjectInv, Broken
  <2>. QED  BY <2>1, <2>3
<1>3. CASE x \in o.bound
  <2>. DEFINE t == Skipping(o.stack, r)
              c == [q \in Property |-> Without(o.connections[q], r)]
  <2>1. u = [o EXCEPT !.bound = @ \ {x}, !.undone = @ \ {x},
                      !.stale = @ \ {x}, !.reverted = @ \ {x},
                      !.connections = c, !.stack = t]
    BY <1>3 DEF BreakBinding
  <2>2. /\ t \in Seq(Frame)
        /\ \A kind, p : OnStack(t, kind, p) <=> OnStack(o.stack, kind, p)
        /\ \A p : NotifyFirst(t, p) <=> NotifyFirst(o.stack, p)
        /\ \A p, slot : Pending(o.stack, p, slot) /\ slot # r => Pending(t, p, slot)
    <3>1. o.stack \in Seq(Frame)
      BY <1>1, ObjectFields
    <3>2. t = Skipping(o.stack, r)
      OBVIOUS
    <3>. HIDE DEF r, t
    <3>. QED  BY <3>1, <3>2, FilterStack
  <2>3. /\ c \in [Property -> Seq(Slot)]
        /\ \A q \in Property : ToSet(c[q]) = ToSet(o.connections[q]) \ {r}
    <3>1. ASSUME NEW q \in Property
          PROVE  Without(o.connections[q], r) \in Seq(Slot)
                 /\ ToSet(Without(o.connections[q], r)) = ToSet(o.connections[q]) \ {r}
      <4>1. o.connections[q] \in Seq(Slot)
        BY <1>1, ObjectFields
      <4>. HIDE DEF r
      <4>. QED  BY <4>1, WithoutIs
    <3>. HIDE DEF r
    <3>. QED  BY <3>1
  <2>. HIDE DEF t, c
  <2>4. /\ u \in Object /\ u.value = o.value /\ u.previous = o.previous /\ u.ready = o.ready
        /\ u.seen = o.seen /\ u.seenReady = o.seenReady /\ u.connections = c /\ u.stack = t
        /\ u.bound = o.bound \ {x} /\ u.undone = o.undone \ {x}
        /\ u.stale = o.stale \ {x} /\ u.reverted = o.reverted \ {x}
    <3>. HIDE DEF u, r
    <3>1. /\ t \in Seq(Frame) /\ c \in [Property -> Seq(Slot)]
          /\ o.bound \subseteq Bindable /\ o.undone \subseteq Bindable
          /\ o.stale \subseteq Bindable /\ o.reverted \subseteq Bindable
      BY <1>1, <2>2, <2>3, ObjectFields
    <3>2. /\ u.value = o.value /\ u.previous = o.previous /\ u.ready = o.ready
          /\ u.seen = o.seen /\ u.seenReady = o.seenReady /\ u.connections = c /\ u.stack = t
          /\ u.bound = o.bound \ {x} /\ u.undone = o.undone \ {x}
          /\ u.stale = o.stale \ {x} /\ u.reverted = o.reverted \ {x}
      BY <1>1, <2>1 DEF Object
    <3>3. u \in Object
      BY <1>1, <2>1, <3>1 DEF Object
    <3>. QED  BY <3>2, <3>3
  <2>. HIDE DEF u
  <2>5. ASSUME NEW p \in Property
        PROVE  /\ Heard(u, p) /\ Holds(u, p) /\ Notifies(u, p)
               /\ p # x => HasGetter(u, p)
    <3>1. Heard(o, p) /\ HasGetter(o, p) /\ Holds(o, p) /\ Notifies(o, p)
      BY DEF ObjectInv
    <3>2. r # Listener /\ (p # x => Reevaluation(p) # r)
      BY SlotFacts
    <3>. HIDE DEF r
    <3>3. Heard(u, p)
      BY <2>2, <2>3, <2>4, <3>1, <3>2 DEF Heard
    <3>4. Notifies(u, p)
      BY <2>2, <2>4, <3>1 DEF Notifies, Dirty
    <3>5. p # x => HasGetter(u, p)
      BY <2>2, <2>3, <2>4, <3>1 DEF HasGetter
    <3>6. ASSUME p \in u.bound, Connected(o, p), Follows(o, p)
          PROVE  Connected(u, p) /\ Follows(u, p)
      <4>1. p # x
        BY <2>4, <3>6
      <4>2. Inputs[p] \subseteq Property
        BY ConstantsAssumption
      <4>3. Connected(u, p)
        BY <2>3, <2>4, <3>2, <3>6, <4>1, <4>2 DEF Connected
      <4>4. CASE p \in o.stale \union o.reverted
        BY <2>4, <4>1, <4>3, <4>4 DEF Follows
      <4>4a. CASE o.value[p] = Getter(o, p)
        BY <2>4, <4>3, <4>4a DEF Follows, Getter
      <4>5. ASSUME NEW q \in Inputs[p], Dirty(o, q) \/ Pending(o.stack, q, Reevaluation(p))
            PROVE  Dirty(u, q) \/ Pending(u.stack, q, Reevaluation(p))
        BY <2>2, <2>4, <3>2, <4>1, <4>5 DEF Dirty
      <4>. QED  BY <3>6, <4>3, <4>4, <4>4a, <4>5 DEF Follows
    <3>7. Holds(u, p)
      BY <2>2, <2>4, <3>1, <3>6 DEF Holds
    <3>. QED  BY <3>3, <3>4, <3>5, <3>7
  <2>6. \A q \in Property : Reevaluation(x) \notin ToSet(u.connections[q])
    BY <2>3, <2>4
  <2>7. Broken(u, x)
    BY <2>4, <2>5, <2>6 DEF Broken
  <2>8. \A kind, p : OnStack(u.stack, kind, p) <=> OnStack(o.stack, kind, p)
    BY <2>2, <2>4
  <2>. QED  BY <2>4, <2>7, <2>8 DEF u
<1>. QED  BY <1>2, <1>3

LEMMA BeingBoundIs ==
  ASSUME NEW o \in Object, NEW p
  PROVE  BeingBound(o, p) <=> OnStack(o.stack, "connect", p)
<1>1. DOMAIN o.stack = 1 .. Len(o.stack)
  BY ObjectFields, LenProperties
<1>. QED  BY <1>1 DEF BeingBound, OnStack, At

LEMMA SetValueInv ==
  ASSUME NEW o, NEW x \in Property, NEW v \in Value, ObjectInv(o)
  PROVE  ObjectInv(SetValue(o, x, v))
<1>. DEFINE b == BreakBinding(o, x)
            w == [b EXCEPT !.undone = IF BeingBound(o, x) THEN @ \union {x} ELSE @]
<1>1. o \in Object
  BY DEF ObjectInv
<1>2. Broken(b, x) /\ \A kind, p : OnStack(b.stack, kind, p) <=> OnStack(o.stack, kind, p)
  BY BreakInv
<1>3. SetValue(o, x, v) = TriggerValueChangedSignal(Assign(w, x, v), x)
  BY DEF SetValue
<1>4. x \in Bindable \/ ~BeingBound(o, x)
  <2>1. SUFFICES ASSUME BeingBound(o, x)
                 PROVE  x \in Bindable
    OBVIOUS
  <2>2. x \in o.bound \union o.undone
    BY <1>1, <2>1, BeingBoundIs DEF ObjectInv, HasGetter
  <2>. QED  BY <1>1, <2>2, ObjectFields
<1>. HIDE DEF b
<1>5. b \in Object
  BY <1>2 DEF Broken
<1>6. /\ w \in Object /\ w.value = b.value /\ w.previous = b.previous /\ w.bound = b.bound
      /\ w.ready = b.ready /\ w.connections = b.connections /\ w.stack = b.stack
      /\ w.seen = b.seen /\ w.seenReady = b.seenReady /\ w.stale = b.stale
      /\ w.reverted = b.reverted
      /\ w.undone = IF BeingBound(o, x) THEN b.undone \union {x} ELSE b.undone
  BY <1>4, <1>5 DEF Object
<1>. HIDE DEF w
<1>7. HoldsBut(w, x)
  <2>1. ASSUME NEW p \in Property
        PROVE  Heard(w, p) /\ HasGetter(w, p) /\ Notifies(w, p) /\ Holds(w, p)
    <3>1. Heard(b, p) /\ Notifies(b, p) /\ Holds(b, p) /\ (p # x => HasGetter(b, p))
      BY <1>2 DEF Broken
    <3>2. Heard(w, p) /\ Notifies(w, p)
      BY <1>6, <3>1 DEF Heard, Notifies, Dirty
    <3>3. Holds(w, p)
      BY <1>6, <3>1 DEF Dirty, Holds, Connected, Follows, Getter
    <3>4. HasGetter(w, p)
      <4>1. CASE p # x
        BY <1>6, <3>1, <4>1 DEF HasGetter
      <4>2. CASE p = x
        <5>1. OnStack(w.stack, "connect", x) => x \in w.undone
          BY <1>1, <1>2, <1>6, BeingBoundIs
        <5>2. (\E q \in Property : Reevaluation(x) \in ToSet(w.connections[q])) => x \in w.undone
          BY <1>2, <1>6 DEF Broken
        <5>. QED  BY <4>2, <5>1, <5>2 DEF HasGetter
      <4>. QED  BY <4>1, <4>2
    <3>. QED  BY <3>2, <3>3, <3>4
  <2>. QED  BY <1>6, <2>1 DEF HoldsBut
<1>8. Allowed(w, x, v)
  BY <1>2, <1>6 DEF Allowed, Broken
<1>9. AllBut(Assign(w, x, v), x)
  BY <1>7, <1>8, AssignInv
<1>. QED  BY <1>3, <1>9, TriggerInv

LEMMA BindInv ==
  ASSUME NEW o, NEW x \in Bindable, ObjectInv(o)
  PROVE  ObjectInv(Bind(o, x))
<1>. DEFINE b == BreakBinding(o, x)
            w == [b EXCEPT !.bound = @ \union {x}]
            f == [kind |-> "connect", property |-> x]
            u == Push(w, f)
<1>0. x \in Property
  BY DEF Bindable
<1>1. Broken(b, x)
  BY <1>0, BreakInv
<1>2. Bind(o, x) = Reevaluate(u, x)
  BY DEF Bind
<1>3. f \in Frame /\ Is(f, "connect", x) /\ (\A p : ~Is(f, "changed", p))
      /\ \A kind, p : Is(f, kind, p) => kind = "connect" /\ p = x
  BY <1>0 DEF Frame, Is
<1>4. b \in Object
  BY <1>1 DEF Broken
<1>. HIDE DEF b
<1>5. /\ w \in Object /\ w.value = b.value /\ w.previous = b.previous
      /\ w.ready = b.ready /\ w.connections = b.connections /\ w.stack = b.stack
      /\ w.seen = b.seen /\ w.seenReady = b.seenReady /\ w.stale = b.stale
      /\ w.reverted = b.reverted /\ w.undone = b.undone /\ w.bound = b.bound \union {x}
  BY <1>4 DEF Object
<1>. HIDE DEF w, f
<1>6. /\ u \in Object /\ u.value = b.value /\ u.previous = b.previous
      /\ u.ready = b.ready /\ u.connections = b.connections /\ u.stack = <<f>> \o b.stack
      /\ u.seen = b.seen /\ u.seenReady = b.seenReady /\ u.stale = b.stale
      /\ u.reverted = b.reverted /\ u.undone = b.undone /\ u.bound = b.bound \union {x}
  <2>1. f \in Frame /\ w \in Object
    BY <1>3, <1>5
  <2>2. u \in Object /\ SameData(w, u) /\ u.stack = <<f>> \o w.stack
    BY <2>1, PushIs
  <2>3. u.previous = w.previous /\ u.seen = w.seen /\ u.ready = w.ready /\ u.seenReady = w.seenReady
    BY <2>1, PushIs
  <2>. HIDE DEF u
  <2>. QED  BY <1>5, <2>2, <2>3 DEF SameData
<1>. HIDE DEF u
<1>7. /\ \A kind, p : OnStack(u.stack, kind, p) <=> Is(f, kind, p) \/ OnStack(b.stack, kind, p)
      /\ \A p, slot : Pending(b.stack, p, slot) => Pending(u.stack, p, slot)
      /\ \A p : NotifyFirst(b.stack, p) => NotifyFirst(u.stack, p)
  <2>1. b.stack \in Seq(Frame)
    BY <1>4, ObjectFields
  <2>. QED  BY <1>3, <1>6, <2>1, PushStack
<1>8. ASSUME NEW p \in Property
      PROVE  /\ Heard(u, p) /\ HasGetter(u, p) /\ Notifies(u, p)
             /\ p # x => Holds(u, p)
  <2>1. Heard(b, p) /\ Notifies(b, p) /\ Holds(b, p) /\ (p # x => HasGetter(b, p))
    BY <1>1 DEF Broken
  <2>2. Heard(u, p)
    BY <1>6, <1>7, <2>1 DEF Heard
  <2>3. Notifies(u, p)
    BY <1>6, <1>7, <2>1 DEF Notifies, Dirty
  <2>4. HasGetter(u, p)
    BY <1>3, <1>6, <1>7, <2>1 DEF HasGetter
  <2>5. p # x => Holds(u, p)
    <3>1. SUFFICES ASSUME p # x, p \in b.bound, ~OnStack(b.stack, "connect", p)
                   PROVE  Connected(u, p) /\ Follows(u, p)
      BY <1>6, <1>7 DEF Holds
    <3>2. Connected(b, p) /\ Follows(b, p)
      BY <2>1, <3>1 DEF Holds
    <3>3. Connected(u, p)
      BY <1>6, <3>2 DEF Connected
    <3>4. Follows(u, p)
      BY <1>6, <1>7, <3>2 DEF Follows, Getter, Dirty
    <3>. QED  BY <3>3, <3>4
  <2>. QED  BY <2>2, <2>3, <2>4, <2>5
<1>9. HoldsBut(u, x)
  BY <1>6, <1>8 DEF HoldsBut
<1>10. x \in u.bound /\ OnStack(u.stack, "connect", x)
  BY <1>3, <1>6, <1>7
<1>. QED  BY <1>0, <1>2, <1>9, <1>10, EvaluateInv

-----------------------------------------------------------------------------
(***************************************************************************)
(* The innermost frame goes on.                                            *)
(***************************************************************************)
Pop(o) == [o EXCEPT !.stack = Tail(@)]

\* What a finished frame leaves.
LEMMA PopInv ==
  ASSUME NEW o, ObjectInv(o), o.stack # <<>>, NEW u, u = Pop(o),
         NEW f, f = Head(o.stack)
  PROVE  /\ f \in Frame /\ u \in Object /\ SameData(o, u) /\ u.previous = o.previous
         /\ u.seen = o.seen /\ u.ready = o.ready /\ u.seenReady = o.seenReady
         /\ u.stack \in Seq(Frame) /\ o.stack = <<f>> \o u.stack
         /\ \A p \in Property :
              /\ HasGetter(u, p)
              /\ ~Is(f, "notify", p) => Notifies(u, p)
              /\ ~Is(f, "ready", p) /\ ~WillRun(f, p, Listener) => Heard(u, p)
              /\ ~Is(f, "connect", p) /\ (\A q \in Inputs[p] : ~WillRun(f, q, Reevaluation(p)))
                   => Holds(u, p)
<1>1. o \in Object
  BY DEF ObjectInv
<1>. DEFINE t == Tail(o.stack)
<1>2. f \in Frame /\ t \in Seq(Frame) /\ o.stack = <<f>> \o t
  BY <1>1, StackIsPushed, ObjectFields
<1>3. u = [o EXCEPT !.stack = t]
  BY DEF Pop
<1>. HIDE DEF t
<1>4. /\ u \in Object /\ SameData(o, u) /\ u.previous = o.previous
      /\ u.seen = o.seen /\ u.ready = o.ready /\ u.seenReady = o.seenReady
      /\ u.stack = t
  BY <1>1, <1>2, <1>3 DEF Object, SameData
<1>5. /\ \A kind, p : OnStack(o.stack, kind, p) <=> Is(f, kind, p) \/ OnStack(u.stack, kind, p)
      /\ \A p, slot : Pending(o.stack, p, slot) <=> WillRun(f, p, slot) \/ Pending(u.stack, p, slot)
      /\ \A p : NotifyFirst(o.stack, p) =>
                  ~Is(f, "changed", p) /\ (Is(f, "notify", p) \/ NotifyFirst(u.stack, p))
  BY <1>2, <1>4, PushStack
<1>6. ASSUME NEW p \in Property
      PROVE  /\ HasGetter(u, p)
             /\ ~Is(f, "notify", p) => Notifies(u, p)
             /\ ~Is(f, "ready", p) /\ ~WillRun(f, p, Listener) => Heard(u, p)
             /\ ~Is(f, "connect", p) /\ (\A q \in Inputs[p] : ~WillRun(f, q, Reevaluation(p)))
                  => Holds(u, p)
  <2>1. Heard(o, p) /\ HasGetter(o, p) /\ Notifies(o, p) /\ Holds(o, p)
    BY DEF ObjectInv
  <2>2. HasGetter(u, p)
    BY <1>4, <1>5, <2>1 DEF HasGetter, SameData
  <2>3. ~Is(f, "notify", p) => Notifies(u, p)
    BY <1>4, <1>5, <2>1 DEF Notifies, Dirty, SameData
  <2>4. ~Is(f, "ready", p) /\ ~WillRun(f, p, Listener) => Heard(u, p)
    BY <1>4, <1>5, <2>1 DEF Heard, SameData
  <2>5. ASSUME ~Is(f, "connect", p), \A q \in Inputs[p] : ~WillRun(f, q, Reevaluation(p))
        PROVE  Holds(u, p)
    <3>1. SUFFICES ASSUME p \in o.bound, ~OnStack(o.stack, "connect", p)
                   PROVE  Connected(u, p) /\ Follows(u, p)
      BY <1>4, <1>5, <2>5 DEF Holds, SameData
    <3>2. Connected(o, p) /\ Follows(o, p)
      BY <2>1, <3>1 DEF Holds
    <3>3. Connected(u, p)
      BY <1>4, <3>2 DEF Connected, SameData
    <3>4. Follows(u, p)
      BY <1>4, <1>5, <2>5, <3>2 DEF Follows, Getter, Dirty, SameData
    <3>. QED  BY <3>3, <3>4
  <2>. QED  BY <2>2, <2>3, <2>4, <2>5
<1>. QED  BY <1>2, <1>4, <1>6

\* addTrigger(): connected, and recorded if an input has changed meanwhile.
LEMMA ConnectInv ==
  ASSUME ObjectInv(object), ConnectTriggers
  PROVE  ObjectInv(object')
<1>. DEFINE o == Popped
            p == Top.property
            r == Reevaluation(p)
            c == [q \in Property |->
                    IF q \in Inputs[p] THEN Append(o.connections[q], r) ELSE o.connections[q]]
            s == IF p \in o.bound /\ o.value[p] # Getter(o, p) THEN o.stale \union {p} ELSE o.stale
            u == object'
<1>1. object.stack # <<>> /\ Top = Head(object.stack) /\ Top.kind = "connect"
      /\ o = Pop(object)
  BY DEF ConnectTriggers, Running, Top, Popped, Pop
<1>2. u = [o EXCEPT !.connections = c, !.stale = s]
  BY DEF ConnectTriggers, AddTriggers
<1>3. /\ Top \in Frame /\ o \in Object /\ SameData(object, o) /\ o.previous = object.previous
      /\ o.seen = object.seen /\ o.ready = object.ready /\ o.seenReady = object.seenReady
      /\ o.stack \in Seq(Frame) /\ object.stack = <<Top>> \o o.stack
      /\ \A y \in Property :
           /\ HasGetter(o, y)
           /\ ~Is(Top, "notify", y) => Notifies(o, y)
           /\ ~Is(Top, "ready", y) /\ ~WillRun(Top, y, Listener) => Heard(o, y)
           /\ ~Is(Top, "connect", y) /\ (\A q \in Inputs[y] : ~WillRun(Top, q, Reevaluation(y)))
                => Holds(o, y)
  <2>. HIDE DEF o
  <2>. QED  BY <1>1, PopInv
<1>4. /\ p \in Property /\ Is(Top, "connect", p)
      /\ \A y, slot : ~Is(Top, "notify", y) /\ ~Is(Top, "ready", y) /\ ~WillRun(Top, y, slot)
      /\ \A y : y # p => ~Is(Top, "connect", y)
  BY <1>1, <1>3, FrameFacts DEF Is, WillRun
<1>5. p \in o.bound \union o.undone
  <2>1. OnStack(object.stack, "connect", p)
    <3>. HIDE DEF o, p
    <3>1. /\ o.stack \in Seq(Frame) /\ Top \in Frame
          /\ object.stack = <<Top>> \o o.stack
      BY <1>3
    <3>2. \A kind, y : OnStack(object.stack, kind, y) <=> Is(Top, kind, y) \/ OnStack(o.stack, kind, y)
      BY <3>1, PushStack
    <3>. QED  BY <1>4, <3>2
  <2>2. p \in object.bound \union object.undone
    BY <1>4, <2>1 DEF ObjectInv, HasGetter
  <2>. QED  BY <1>3, <2>2 DEF SameData
<1>. HIDE DEF o, p
<1>6. p \in Bindable
  BY <1>3, <1>5, ObjectFields
<1>7. /\ c \in [Property -> Seq(Slot)]
      /\ \A q \in Property : ToSet(c[q]) =
           IF q \in Inputs[p] THEN ToSet(o.connections[q]) \union {r} ELSE ToSet(o.connections[q])
  <2>1. r \in Slot
    BY <1>6, SlotFacts
  <2>. HIDE DEF r
  <2>2. ASSUME NEW q \in Property
        PROVE  /\ o.connections[q] \in Seq(Slot) /\ Append(o.connections[q], r) \in Seq(Slot)
               /\ ToSet(Append(o.connections[q], r)) = ToSet(o.connections[q]) \union {r}
    <3>1. o.connections[q] \in Seq(Slot)
      BY <1>3, ObjectFields
    <3>. QED  BY <2>1, <3>1, AppendProperties, ToSetAppend
  <2>. QED  BY <2>2
<1>8. s \in SUBSET Bindable /\ s \subseteq o.stale \union {p} /\ o.stale \subseteq s
      /\ (p \in s \/ p \notin o.bound \/ o.value[p] = Getter(o, p))
  BY <1>3, <1>6, ObjectFields
<1>. HIDE DEF c, s
<1>9. /\ u \in Object /\ u.value = o.value /\ u.previous = o.previous /\ u.bound = o.bound
      /\ u.ready = o.ready /\ u.stack = o.stack /\ u.seen = o.seen /\ u.seenReady = o.seenReady
      /\ u.reverted = o.reverted /\ u.undone = o.undone
      /\ u.connections = c /\ u.stale = s
  BY <1>2, <1>3, <1>7, <1>8 DEF Object
<1>. HIDE DEF u
<1>10. r # Listener /\ \A y \in Property : y # p => Reevaluation(y) # r
  BY <1>4, SlotFacts
<1>. HIDE DEF r
<1>11. ASSUME NEW y \in Property
       PROVE  Heard(u, y) /\ HasGetter(u, y) /\ Notifies(u, y) /\ Holds(u, y)
  <2>1. Heard(o, y) /\ HasGetter(o, y) /\ Notifies(o, y) /\ (y # p => Holds(o, y))
    BY <1>3, <1>4
  <2>2. Heard(u, y)
    BY <1>7, <1>9, <1>10, <2>1 DEF Heard
  <2>3. Notifies(u, y)
    BY <1>9, <2>1 DEF Notifies, Dirty
  <2>4. HasGetter(u, y)
    BY <1>5, <1>7, <1>9, <1>10, <2>1 DEF HasGetter
  <2>5. CASE y = p
    <3>1. Inputs[p] \subseteq Property
      BY <1>4, ConstantsAssumption
    <3>2. Connected(u, p)
      BY <1>7, <1>9, <3>1 DEF Connected, r
    <3>3. p \in u.bound => Follows(u, p)
      BY <1>8, <1>9 DEF Follows, Getter
    <3>4. Holds(u, y)
      BY <2>5, <3>2, <3>3 DEF Holds
    <3>. QED  BY <2>2, <2>3, <2>4, <3>4
  <2>6. CASE y # p
    <3>1. Inputs[y] \subseteq Property
      BY ConstantsAssumption
    <3>2. Connected(o, y) => Connected(u, y)
      BY <1>7, <1>9, <3>1 DEF Connected
    <3>3. Follows(o, y) => Follows(u, y)
      BY <1>8, <1>9 DEF Follows, Getter, Dirty
    <3>4. Holds(u, y)
      BY <1>9, <2>1, <2>6, <3>2, <3>3 DEF Holds
    <3>. QED  BY <2>2, <2>3, <2>4, <3>4
  <2>. QED  BY <2>5, <2>6
<1>12. ObjectInv(u)
  BY <1>9, <1>11 DEF ObjectInv
<1>. QED  BY <1>12 DEF u

LEMMA DoInv ==
  ASSUME NEW o, ObjectInv(o), NEW operation \in Operation
  PROVE  ObjectInv(Do(o, operation))
<1>1. CASE operation.kind = "set"
  <2>1. operation.property \in Property /\ operation.value \in Value
    BY <1>1 DEF Operation
  <2>. QED  BY <1>1, <2>1, SetValueInv DEF Do
<1>2. CASE operation.kind # "set"
  <2>1. operation.property \in Bindable
    BY <1>2 DEF Operation
  <2>. QED  BY <1>2, <2>1, BindInv DEF Do
<1>. QED  BY <1>1, <1>2

LEMMA ReactInv ==
  ASSUME reaction \in Reactions, NEW o, ObjectInv(o), NEW on, NEW p
  PROVE  ObjectInv(React(o, on, p))
<1>1. reaction.operation \in Operation
  BY ReactionsAssumption
<1>. QED  BY <1>1, DoInv DEF React

LEMMA EndEmissionInv ==
  ASSUME ObjectInv(object), EndEmission
  PROVE  ObjectInv(object')
<1>. DEFINE u == object'
<1>1. object.stack # <<>> /\ Top = Head(object.stack) /\ Top.kind = "changed" /\ Top.todo = <<>>
      /\ u = Pop(object)
  BY DEF EndEmission, Running, Top, Popped, Pop
<1>. HIDE DEF u
<1>2. /\ u \in Object
      /\ \A p \in Property :
           /\ HasGetter(u, p)
           /\ ~Is(Top, "notify", p) => Notifies(u, p)
           /\ ~Is(Top, "ready", p) /\ ~WillRun(Top, p, Listener) => Heard(u, p)
           /\ ~Is(Top, "connect", p) /\ (\A q \in Inputs[p] : ~WillRun(Top, q, Reevaluation(p)))
                => Holds(u, p)
  BY <1>1, PopInv
<1>3. /\ \A p, slot : ~WillRun(Top, p, slot)
      /\ \A p : ~Is(Top, "notify", p) /\ ~Is(Top, "ready", p) /\ ~Is(Top, "connect", p)
  BY <1>1 DEF Is, WillRun, ToSet
<1>4. ObjectInv(u)
  BY <1>2, <1>3 DEF ObjectInv
<1>. QED  BY <1>4 DEF u

LEMMA NotifyAfterReadyInv ==
  ASSUME ObjectInv(object), NotifyAfterReady
  PROVE  ObjectInv(object')
<1>. DEFINE u == Popped
            x == Top.property
<1>1. object.stack # <<>> /\ Top = Head(object.stack) /\ Top.kind = "notify"
      /\ u = Pop(object)
  BY DEF NotifyAfterReady, Running, Top, Popped, Pop
<1>2. object' = Notify(u, x)
  BY DEF NotifyAfterReady
<1>. HIDE DEF u
<1>3. /\ u \in Object /\ Top \in Frame
      /\ \A p \in Property :
           /\ HasGetter(u, p)
           /\ ~Is(Top, "notify", p) => Notifies(u, p)
           /\ ~Is(Top, "ready", p) /\ ~WillRun(Top, p, Listener) => Heard(u, p)
           /\ ~Is(Top, "connect", p) /\ (\A q \in Inputs[p] : ~WillRun(Top, q, Reevaluation(p)))
                => Holds(u, p)
  BY <1>1, PopInv
<1>4. /\ \A p, slot : ~WillRun(Top, p, slot)
      /\ \A p : ~Is(Top, "ready", p) /\ ~Is(Top, "connect", p)
      /\ \A p : p # x => ~Is(Top, "notify", p)
  BY <1>1 DEF Is, WillRun
<1>5. x \in Property
  BY <1>3, FrameFacts
<1>. HIDE DEF x
<1>6. AllBut(u, x)
  BY <1>3, <1>4 DEF AllBut
<1>. QED  BY <1>2, <1>5, <1>6, NotifyInv

LEMMA RunReadySlotInv ==
  ASSUME reaction \in Reactions, ObjectInv(object), RunReadySlot
  PROVE  ObjectInv(object')
<1>. DEFINE u == Popped
            x == Top.property
            w == [u EXCEPT !.seenReady[x] = object.ready[x]]
<1>1. object.stack # <<>> /\ Top = Head(object.stack) /\ Top.kind = "ready"
      /\ u = Pop(object)
  BY DEF RunReadySlot, Running, Top, Popped, Pop
<1>2. object' = React(w, "ready", x)
  BY DEF RunReadySlot
<1>. HIDE DEF u
<1>3. /\ u \in Object /\ Top \in Frame /\ u.ready = object.ready
      /\ \A p \in Property :
           /\ HasGetter(u, p)
           /\ ~Is(Top, "notify", p) => Notifies(u, p)
           /\ ~Is(Top, "ready", p) /\ ~WillRun(Top, p, Listener) => Heard(u, p)
           /\ ~Is(Top, "connect", p) /\ (\A q \in Inputs[p] : ~WillRun(Top, q, Reevaluation(p)))
                => Holds(u, p)
  BY <1>1, PopInv
<1>4. /\ \A p, slot : ~WillRun(Top, p, slot)
      /\ \A p : ~Is(Top, "notify", p) /\ ~Is(Top, "connect", p)
      /\ \A p : p # x => ~Is(Top, "ready", p)
  BY <1>1 DEF Is, WillRun
<1>5. x \in Property /\ x \in Flagged
  BY <1>1, <1>3, FrameFacts
<1>6. object.ready[x] \in BOOLEAN
  BY <1>3, <1>5, ObjectFields
<1>. HIDE DEF x
<1>7. /\ w \in Object /\ w.value = u.value /\ w.previous = u.previous /\ w.bound = u.bound
      /\ w.ready = u.ready /\ w.stack = u.stack /\ w.seen = u.seen /\ w.stale = u.stale
      /\ w.reverted = u.reverted /\ w.undone = u.undone /\ w.connections = u.connections
      /\ w.seenReady = [u.seenReady EXCEPT ![x] = object.ready[x]]
  BY <1>3, <1>6 DEF Object
<1>. HIDE DEF w
<1>8. /\ w.seenReady[x] = w.ready[x]
      /\ \A p \in Flagged : p # x => w.seenReady[p] = u.seenReady[p]
  BY <1>3, <1>5, <1>7, ObjectFields
<1>9. ASSUME NEW p \in Property
      PROVE  Heard(w, p) /\ HasGetter(w, p) /\ Notifies(w, p) /\ Holds(w, p)
  <2>1. HasGetter(u, p) /\ Notifies(u, p) /\ Holds(u, p) /\ (p # x => Heard(u, p))
    BY <1>3, <1>4
  <2>2. HasGetter(w, p) /\ Notifies(w, p)
    BY <1>7, <2>1 DEF HasGetter, Notifies, Dirty
  <2>3. Holds(w, p)
    BY <1>7, <2>1 DEF Holds, Connected, Follows, Getter, Dirty
  <2>4. Listener \in ToSet(w.connections[p]) =>
          w.seen[p] = w.previous[p] \/ Pending(w.stack, p, Listener)
    <3>1. Heard(object, p)
      BY DEF ObjectInv
    <3>2. Pending(object.stack, p, Listener) => Pending(u.stack, p, Listener)
      <4>1. u.stack \in Seq(Frame) /\ object.stack = <<Top>> \o u.stack
        BY <1>1, PopInv
      <4>2. \A y, slot : Pending(object.stack, y, slot) <=> WillRun(Top, y, slot) \/ Pending(u.stack, y, slot)
        BY <1>3, <4>1, PushStack
      <4>. QED  BY <1>4, <4>2
    <3>3. SameData(object, u) /\ u.previous = object.previous /\ u.seen = object.seen
      BY <1>1, PopInv
    <3>. QED  BY <1>7, <3>1, <3>2, <3>3 DEF Heard, SameData
  <2>5. Heard(w, p)
    BY <1>7, <1>8, <2>1, <2>4 DEF Heard
  <2>. QED  BY <2>2, <2>3, <2>5
<1>10. ObjectInv(w)
  BY <1>7, <1>9 DEF ObjectInv
<1>. QED  BY <1>2, <1>10, ReactInv

OneLess(frame) == [frame EXCEPT !.todo = Tail(frame.todo)]

\* The innermost emission has one slot less to run.
Advanced(o) == [o EXCEPT !.stack[1].todo = Tail(@)]

LEMMA AdvanceIs ==
  ASSUME NEW o \in Object, o.stack # <<>>, NEW f, f = Head(o.stack), f.kind = "changed",
         f.todo # <<>>, NEW w, w = Advanced(o), NEW g, g = OneLess(f)
  PROVE  /\ f \in Frame /\ g \in Frame /\ g.kind = "changed" /\ g.property = f.property
         /\ f.todo \in Seq(Slot) /\ g.todo = Tail(f.todo)
         /\ w \in Object /\ SameData(o, w) /\ w.previous = o.previous /\ w.seen = o.seen
         /\ w.ready = o.ready /\ w.seenReady = o.seenReady
         /\ o.stack = <<f>> \o Tail(o.stack) /\ w.stack = <<g>> \o Tail(o.stack)
<1>. DEFINE s == o.stack
            t == [s EXCEPT ![1] = g]
            z == <<g>> \o Tail(s)
<1>1. s \in Seq(Frame) /\ f \in Frame /\ Tail(s) \in Seq(Frame) /\ s = <<f>> \o Tail(s)
  BY StackIsPushed, ObjectFields
<1>2. f \in [kind : {"changed"}, property : Property, todo : Seq(Slot)] /\ f.todo \in Seq(Slot)
  BY <1>1, FrameFacts DEF Frame
<1>3. Tail(f.todo) \in Seq(Slot)
  BY <1>2, HeadTailProperties
<1>4. /\ g \in [kind : {"changed"}, property : Property, todo : Seq(Slot)]
      /\ g.property = f.property /\ g.todo = Tail(f.todo) /\ g.kind = "changed"
  BY <1>2, <1>3 DEF OneLess
<1>5. g \in Frame
  BY <1>4 DEF Frame
<1>6. Len(s) \in Nat /\ Len(s) > 0 /\ s[1] = f /\ DOMAIN s = 1 .. Len(s)
  BY <1>1, LenProperties, EmptySeq, HeadTailProperties
<1>7. w = [o EXCEPT !.stack = t]
  BY <1>6 DEF Advanced, OneLess
<1>8. t = z
  <2>1. t \in Seq(Frame) /\ Len(t) = Len(s) /\ t[1] = g /\ \A i \in 2 .. Len(s) : t[i] = s[i]
    <3>1. 1 \in 1 .. Len(s)
      BY <1>6
    <3>2. t \in Seq(Frame) /\ Len(t) = Len(s)
          /\ \A i \in 1 .. Len(s) : t[i] = IF i = 1 THEN g ELSE s[i]
      BY <1>1, <1>5, <3>1, ExceptSeq
    <3>. HIDE DEF t, s
    <3>3. \A i \in 2 .. Len(s) : i \in 1 .. Len(s) /\ i # 1
      BY <1>6
    <3>. QED  BY <3>1, <3>2, <3>3
  <2>2. Len(Tail(s)) = Len(s) - 1 /\ \A i \in 1 .. Len(s) - 1 : Tail(s)[i] = s[i + 1]
    BY <1>1, HeadTailProperties
  <2>3. <<g>> \in Seq(Frame) /\ Len(<<g>>) = 1 /\ <<g>>[1] = g
    BY <1>5
  <2>4. /\ z \in Seq(Frame) /\ Len(z) = 1 + (Len(s) - 1)
        /\ \A i \in 1 .. 1 + (Len(s) - 1) : z[i] = IF i <= 1 THEN <<g>>[i] ELSE Tail(s)[i - 1]
    BY <1>1, <2>2, <2>3, ConcatProperties
  <2>. HIDE DEF t, s, z
  <2>5. ASSUME NEW i \in 1 .. Len(s)
        PROVE  t[i] = z[i]
    <3>1. CASE i = 1
      <4>1. 1 \in 1 .. 1 + (Len(s) - 1) /\ 1 <= 1
        BY <1>6
      <4>2. z[1] = <<g>>[1]
        BY <2>4, <4>1
      <4>. QED  BY <2>1, <2>3, <3>1, <4>2
    <3>2. CASE i # 1
      <4>1. i - 1 \in 1 .. Len(s) - 1 /\ (i - 1) + 1 = i /\ ~(i <= 1)
            /\ i \in 1 .. 1 + (Len(s) - 1) /\ i \in 2 .. Len(s)
        BY <1>6, <3>2
      <4>. QED  BY <2>1, <2>2, <2>4, <4>1
    <3>. QED  BY <3>1, <3>2
  <2>6. Len(t) = Len(z)
    BY <1>6, <2>1, <2>4
  <2>. QED  BY <2>1, <2>4, <2>5, <2>6, SeqEqual
<1>9. z \in Seq(Frame)
  BY <1>1, <1>5, PushStack
<1>. HIDE DEF t, z, s
<1>10. /\ w \in Object /\ SameData(o, w) /\ w.previous = o.previous /\ w.seen = o.seen
       /\ w.ready = o.ready /\ w.seenReady = o.seenReady /\ w.stack = z
  BY <1>7, <1>8, <1>9 DEF Object, SameData
<1>. QED  BY <1>1, <1>2, <1>4, <1>5, <1>10 DEF z, s

LEMMA RunSlotInv ==
  ASSUME reaction \in Reactions, ObjectInv(object), RunSlot
  PROVE  /\ object' \in Object
         /\ \A p \in Property : HasGetter(object', p)
         /\ object'.failed \/ ObjectInv(object')
<1>. DEFINE f == Top
            y == Top.property
            slot == Head(Top.todo)
            w == Advanced(object)
            g == OneLess(f)
            rest == Tail(object.stack)
            heard == [w EXCEPT !.seen[y] = w.value[y]]
<1>1. object.stack # <<>> /\ f = Head(object.stack) /\ f.kind = "changed" /\ f.todo # <<>>
  BY DEF RunSlot, Running, Top
<1>2. object' = IF slot = Listener THEN React(heard, "changed", y)
                ELSE Reevaluate(w, slot.property)
  BY DEF RunSlot, Advanced
<1>3. object \in Object
  BY DEF ObjectInv
<1>. HIDE DEF f, w
<1>4. /\ f \in Frame /\ g \in Frame /\ g.kind = "changed" /\ g.property = f.property
      /\ f.todo \in Seq(Slot) /\ g.todo = Tail(f.todo)
      /\ w \in Object /\ SameData(object, w) /\ w.previous = object.previous
      /\ w.seen = object.seen /\ w.ready = object.ready /\ w.seenReady = object.seenReady
      /\ object.stack = <<f>> \o rest /\ w.stack = <<g>> \o rest
  <2>1. w = Advanced(object)
    BY DEF w
  <2>. HIDE DEF g
  <2>2. g = OneLess(f)
    BY DEF g
  <2>. QED  BY <1>1, <1>3, <2>1, <2>2, AdvanceIs
<1>. HIDE DEF g
<1>5. rest \in Seq(Frame)
  BY <1>1, <1>3, StackIsPushed, ObjectFields
<1>6. y = f.property /\ slot = Head(f.todo) /\ y \in Property /\ slot \in Slot
  BY <1>1, <1>4, FrameFacts, HeadTailProperties DEF f
<1>. HIDE DEF rest, slot, y
<1>7. ToSet(f.todo) = ToSet(g.todo) \union {slot}
  BY <1>1, <1>4, <1>6, ToSetTail
<1>8. /\ \A kind, p : OnStack(object.stack, kind, p) <=> OnStack(w.stack, kind, p)
      /\ \A p, e : Pending(object.stack, p, e) /\ ~(p = y /\ e = slot) => Pending(w.stack, p, e)
      /\ \A p : NotifyFirst(object.stack, p) => NotifyFirst(w.stack, p) /\ p # y
  <2>1. /\ \A kind, p : OnStack(object.stack, kind, p) <=> Is(f, kind, p) \/ OnStack(rest, kind, p)
        /\ \A p, e : Pending(object.stack, p, e) <=> WillRun(f, p, e) \/ Pending(rest, p, e)
        /\ \A p : NotifyFirst(object.stack, p) =>
                    ~Is(f, "changed", p) /\ (Is(f, "notify", p) \/ NotifyFirst(rest, p))
    <3>1. f \in Frame /\ object.stack = <<f>> \o rest
      BY <1>4
    <3>. QED  BY <1>5, <3>1, PushStack
  <2>2. /\ \A kind, p : OnStack(w.stack, kind, p) <=> Is(g, kind, p) \/ OnStack(rest, kind, p)
        /\ \A p, e : Pending(w.stack, p, e) <=> WillRun(g, p, e) \/ Pending(rest, p, e)
        /\ \A p : NotifyFirst(rest, p) /\ ~Is(g, "changed", p) => NotifyFirst(w.stack, p)
    <3>1. g \in Frame /\ w.stack = <<g>> \o rest
      BY <1>4
    <3>. QED  BY <1>5, <3>1, PushStack
  <2>3. \A kind, p : Is(f, kind, p) <=> Is(g, kind, p)
    BY <1>1, <1>4 DEF Is
  <2>4. \A p, e : WillRun(f, p, e) /\ ~(p = y /\ e = slot) => WillRun(g, p, e)
    BY <1>1, <1>4, <1>6, <1>7 DEF WillRun
  <2>5. \A p : Is(f, "changed", p) <=> p = y
    BY <1>1, <1>6 DEF Is
  <2>6. \A p : ~Is(f, "notify", p)
    BY <1>1 DEF Is
  <2>. QED  BY <2>1, <2>2, <2>3, <2>4, <2>5, <2>6
<1>9. ASSUME NEW p \in Property
      PROVE  /\ HasGetter(w, p) /\ Notifies(w, p)
             /\ ~(p = y /\ slot = Listener) => Heard(w, p)
             /\ slot # Reevaluation(p) => Holds(w, p)
             /\ p \in w.bound => OnStack(w.stack, "connect", p) \/ Connected(w, p)
  <2>1. HasGetter(object, p) /\ Notifies(object, p) /\ Heard(object, p) /\ Holds(object, p)
    BY DEF ObjectInv
  <2>2. HasGetter(w, p)
    BY <1>4, <1>8, <2>1 DEF HasGetter, SameData
  <2>3. Notifies(w, p)
    BY <1>4, <1>8, <2>1 DEF Notifies, Dirty, SameData
  <2>4. ~(p = y /\ slot = Listener) => Heard(w, p)
    BY <1>4, <1>8, <2>1 DEF Heard, SameData
  <2>5. slot # Reevaluation(p) => Holds(w, p)
    BY <1>3, <1>4, <1>8, <2>1, HoldsGrows
  <2>6. p \in w.bound => OnStack(w.stack, "connect", p) \/ Connected(w, p)
    BY <1>4, <1>8, <2>1 DEF Holds, Connected, SameData
  <2>. QED  BY <2>2, <2>3, <2>4, <2>5, <2>6
<1>10. CASE slot = Listener
  <2>1. ~Dirty(w, y)
    BY <1>4, <1>6, <1>8 DEF ObjectInv, Notifies, Dirty, SameData
  <2>2. w.value[y] \in Value
    BY <1>4, <1>6, ObjectFields
  <2>3. /\ heard \in Object /\ heard.value = w.value /\ heard.previous = w.previous
        /\ heard.bound = w.bound /\ heard.ready = w.ready /\ heard.stack = w.stack
        /\ heard.seenReady = w.seenReady /\ heard.stale = w.stale
        /\ heard.reverted = w.reverted /\ heard.undone = w.undone
        /\ heard.connections = w.connections
        /\ heard.seen = [w.seen EXCEPT ![y] = w.value[y]]
    BY <1>4, <2>2 DEF Object
  <2>. HIDE DEF heard
  <2>4. /\ heard.seen[y] = w.value[y]
        /\ \A p \in Property : p # y => heard.seen[p] = w.seen[p]
    BY <1>4, <1>6, <2>3, ObjectFields
  <2>5. ASSUME NEW p \in Property
        PROVE  Heard(heard, p) /\ HasGetter(heard, p) /\ Notifies(heard, p) /\ Holds(heard, p)
    <3>1. HasGetter(w, p) /\ Notifies(w, p) /\ (p # y => Heard(w, p)) /\ Holds(w, p)
      BY <1>9, <1>10, SlotFacts
    <3>2. HasGetter(heard, p) /\ Notifies(heard, p)
      BY <2>3, <3>1 DEF HasGetter, Notifies, Dirty
    <3>3. Holds(heard, p)
      BY <2>3, <3>1 DEF Holds, Connected, Follows, Getter, Dirty
    <3>4. p \in Flagged => w.seenReady[p] = w.ready[p] \/ OnStack(w.stack, "ready", p)
      <4>1. Heard(object, p)
        BY DEF ObjectInv
      <4>. QED  BY <1>4, <1>8, <4>1 DEF Heard
    <3>5. Heard(heard, p)
      BY <2>1, <2>3, <2>4, <3>1, <3>4 DEF Heard, Dirty
    <3>. QED  BY <3>2, <3>3, <3>5
  <2>6. ObjectInv(heard)
    BY <2>3, <2>5 DEF ObjectInv
  <2>7. ObjectInv(React(heard, "changed", y))
    BY <2>6, ReactInv
  <2>. QED  BY <1>2, <1>10, <2>7 DEF ObjectInv
<1>11. CASE slot # Listener
  <2>. DEFINE x == slot.property
  <2>1. x \in Bindable /\ x \in Property /\ slot = Reevaluation(x)
    BY <1>6, <1>11, SlotFacts DEF Bindable
  <2>2. object' = Reevaluate(w, x)
    BY <1>2, <1>11
  <2>. HIDE DEF x
  <2>3. \A p \in Property : p # x => slot # Reevaluation(p)
    BY <2>1, SlotFacts
  <2>4. HoldsBut(w, x)
    BY <1>4, <1>9, <1>11, <2>3 DEF HoldsBut
  <2>5. CASE x \in w.bound
    <3>1. OnStack(w.stack, "connect", x) \/ Connected(w, x)
      BY <1>9, <2>1, <2>5
    <3>2. ObjectInv(object')
      BY <2>1, <2>2, <2>4, <2>5, <3>1, EvaluateInv
    <3>. QED  BY <3>2 DEF ObjectInv
  <2>6. CASE x \notin w.bound
    <3>1. object' = [w EXCEPT !.failed = TRUE]
      BY <2>2, <2>6 DEF Reevaluate
    <3>2. /\ object' \in Object /\ object'.failed
          /\ object'.connections = w.connections /\ object'.stack = w.stack
          /\ object'.bound = w.bound /\ object'.undone = w.undone
      BY <1>4, <3>1 DEF Object
    <3>3. \A p \in Property : HasGetter(object', p)
      BY <1>9, <3>2 DEF HasGetter
    <3>. QED  BY <3>2, <3>3
  <2>. QED  BY <2>5, <2>6
<1>. QED  BY <1>10, <1>11

-----------------------------------------------------------------------------
(***************************************************************************)
(* The application, and the theorems.                                      *)
(***************************************************************************)
LEMMA ObjectInvHoldsBut ==
  ASSUME NEW o, NEW x, ObjectInv(o)
  PROVE  HoldsBut(o, x)
BY DEF ObjectInv, HoldsBut

LEMMA IncrementInv ==
  ASSUME ObjectInv(object), NEW x \in Property, Increment(x)
  PROVE  ObjectInv(object')
<1>. DEFINE w == [object EXCEPT !.stale = IF x \in object.bound THEN @ \union {x} ELSE @]
            v == object.value[x] + 1
<1>1. object \in Object
  BY DEF ObjectInv
<1>2. object' = TriggerValueChangedSignal(Assign(w, x, v), x)
  BY DEF Increment
<1>3. v \in Value
  <2>1. object.value[x] \in Value /\ object.value[x] < MaxValue
    BY <1>1, ObjectFields DEF Increment
  <2>. QED  BY <2>1, ConstantsAssumption DEF Value
<1>4. object.bound \subseteq Bindable
  BY <1>1, ObjectFields
<1>5. /\ w \in Object /\ w.value = object.value /\ w.previous = object.previous
      /\ w.bound = object.bound /\ w.ready = object.ready
      /\ w.connections = object.connections /\ w.stack = object.stack
      /\ w.seen = object.seen /\ w.seenReady = object.seenReady
      /\ w.reverted = object.reverted /\ w.undone = object.undone
      /\ object.stale \subseteq w.stale /\ (x \in object.bound => x \in w.stale)
  BY <1>1, <1>4 DEF Object
<1>. HIDE DEF w, v
<1>6. ASSUME NEW p \in Property
      PROVE  Heard(w, p) /\ HasGetter(w, p) /\ Notifies(w, p) /\ Holds(w, p)
  <2>1. Heard(object, p) /\ HasGetter(object, p) /\ Notifies(object, p) /\ Holds(object, p)
    BY DEF ObjectInv
  <2>2. Heard(w, p) /\ HasGetter(w, p) /\ Notifies(w, p)
    BY <1>5, <2>1 DEF Heard, HasGetter, Notifies, Dirty
  <2>3. Holds(w, p)
    BY <1>5, <2>1 DEF Holds, Connected, Follows, Getter, Dirty
  <2>. QED  BY <2>2, <2>3
<1>7. HoldsBut(w, x)
  BY <1>5, <1>6 DEF HoldsBut
<1>8. Allowed(w, x, v)
  BY <1>5, <1>6 DEF Allowed, Holds
<1>. QED  BY <1>2, <1>3, <1>7, <1>8, AssignInv, TriggerInv

LEMMA SetNotReadyInv ==
  ASSUME ObjectInv(object), NEW x \in Property, SetNotReady(x)
  PROVE  ObjectInv(object')
<1>1. object' = SetReady(object, x, FALSE)
  BY DEF SetNotReady
<1>2. AllBut(object, x) /\ Notifies(object, x)
  BY AllAndOne
<1>3. AllBut(object', x) /\ Notifies(object', x)
  BY <1>1, <1>2, SetReadyInv
<1>. QED  BY <1>3, AllAndOne

LEMMA ListenInv ==
  ASSUME ObjectInv(object), NEW x \in Property, Listen(x)
  PROVE  ObjectInv(object')
<1>. DEFINE u == object'
            c == Append(object.connections[x], Listener)
<1>1. object \in Object /\ object.stack = <<>>
  BY DEF ObjectInv, Listen, Idle
<1>2. u = [object EXCEPT !.connections[x] = c, !.seen[x] = object.value[x]]
  BY DEF Listen
<1>3. object.connections[x] \in Seq(Slot) /\ object.value[x] \in Value
  BY <1>1, ObjectFields
<1>4. c \in Seq(Slot) /\ ToSet(c) = ToSet(object.connections[x]) \union {Listener}
  BY <1>3, SlotFacts, AppendProperties, ToSetAppend
<1>. HIDE DEF c
<1>5. /\ u \in Object /\ u.value = object.value /\ u.previous = object.previous
      /\ u.bound = object.bound /\ u.ready = object.ready /\ u.stack = object.stack
      /\ u.seenReady = object.seenReady /\ u.stale = object.stale
      /\ u.reverted = object.reverted /\ u.undone = object.undone
      /\ u.connections = [object.connections EXCEPT ![x] = c]
      /\ u.seen = [object.seen EXCEPT ![x] = object.value[x]]
  BY <1>1, <1>2, <1>3, <1>4 DEF Object
<1>. HIDE DEF u
<1>6. /\ u.connections[x] = c /\ u.seen[x] = object.value[x]
      /\ \A p \in Property : p # x =>
           u.connections[p] = object.connections[p] /\ u.seen[p] = object.seen[p]
  BY <1>1, <1>5, ObjectFields
<1>7. ~Dirty(object, x)
  <2>1. ~OnStack(object.stack, "notify", x)
    BY <1>1 DEF OnStack
  <2>. QED  BY <2>1 DEF ObjectInv, Notifies
<1>8. \A p, q \in Property :
        Reevaluation(p) \in ToSet(u.connections[q]) <=> Reevaluation(p) \in ToSet(object.connections[q])
  BY <1>4, <1>6, SlotFacts
<1>9. ASSUME NEW p \in Property
      PROVE  Heard(u, p) /\ HasGetter(u, p) /\ Notifies(u, p) /\ Holds(u, p)
  <2>1. Heard(object, p) /\ HasGetter(object, p) /\ Notifies(object, p) /\ Holds(object, p)
    BY DEF ObjectInv
  <2>2. Heard(u, p)
    BY <1>5, <1>6, <1>7, <2>1 DEF Heard, Dirty
  <2>3. HasGetter(u, p)
    BY <1>5, <1>8, <2>1 DEF HasGetter
  <2>4. Notifies(u, p)
    BY <1>5, <2>1 DEF Notifies, Dirty
  <2>5. Connected(object, p) => Connected(u, p)
    <3>1. Inputs[p] \subseteq Property
      BY ConstantsAssumption
    <3>. QED  BY <1>8, <3>1 DEF Connected
  <2>6. Holds(u, p)
    BY <1>5, <2>1, <2>5 DEF Holds, Follows, Getter, Dirty
  <2>. QED  BY <2>2, <2>3, <2>4, <2>6
<1>10. ObjectInv(u)
  BY <1>5, <1>9 DEF ObjectInv
<1>. QED  BY <1>10 DEF u

LEMMA BInvInit == Init => BInv
<1>. SUFFICES ASSUME Init
              PROVE  BInv
  OBVIOUS
<1>1. 0 \in Value
  BY ConstantsAssumption DEF Value
<1>2. /\ object.value = [p \in Property |-> 0] /\ object.previous = [p \in Property |-> 0]
      /\ object.bound = {} /\ object.ready = [p \in Property |-> TRUE]
      /\ object.connections = [p \in Property |-> <<>>] /\ object.stack = <<>>
      /\ object.seen = [p \in Property |-> 0] /\ object.seenReady = [p \in Flagged |-> TRUE]
  BY DEF Init
<1>3. <<>> \in Seq(Slot) /\ <<>> \in Seq(Frame) /\ ToSet(<<>>) = {} /\ Len(<<>>) = 0
  BY EmptySeq DEF ToSet
<1>4. object \in Object
  BY <1>1, <1>3 DEF Init, Object
<1>5. ASSUME NEW p \in Property
      PROVE  Heard(object, p) /\ HasGetter(object, p) /\ Notifies(object, p) /\ Holds(object, p)
  <2>1. \A kind, y : ~OnStack(object.stack, kind, y)
    BY <1>2, <1>3 DEF OnStack
  <2>2. \A q \in Property : ToSet(object.connections[q]) = {}
    BY <1>2, <1>3
  <2>3. Heard(object, p)
    BY <1>2, <2>2, ConstantsAssumption DEF Heard
  <2>4. HasGetter(object, p)
    BY <2>1, <2>2 DEF HasGetter
  <2>5. Notifies(object, p) /\ Holds(object, p)
    BY <1>2 DEF Notifies, Dirty, Holds
  <2>. QED  BY <2>3, <2>4, <2>5
<1>. QED  BY <1>4, <1>5 DEF BInv, ObjectInv, Init

LEMMA BInvStep == BInv /\ [Next]_vars => BInv'
<1>. SUFFICES ASSUME BInv, [Next]_vars
              PROVE  BInv'
  OBVIOUS
<1>1. SUFFICES ASSUME Next
               PROVE  BInv'
  BY DEF BInv, ObjectInv, vars, Object, AllBut
<1>2. reaction \in Reactions /\ reaction' \in Reactions /\ object \in Object
  BY <1>1 DEF BInv, Next, ApplicationStep, StackStep, Set, BindProperty, Increment, SetNotReady,
              Listen, RunSlot, EndEmission, RunReadySlot, NotifyAfterReady, ConnectTriggers
<1>3. ~object.failed
  BY <1>1 DEF Next, ApplicationStep, StackStep, Set, BindProperty, Increment, SetNotReady,
              Listen, RunSlot, EndEmission, RunReadySlot, NotifyAfterReady, ConnectTriggers,
              Idle, Running
<1>4. ObjectInv(object)
  BY <1>3 DEF BInv
<1>5. SUFFICES /\ object' \in Object
               /\ \A p \in Property : HasGetter(object', p)
               /\ object'.failed \/ ObjectInv(object')
  BY <1>2 DEF BInv, ObjectInv
<1>6. SUFFICES ASSUME ~RunSlot
               PROVE  ObjectInv(object')
  BY <1>2, <1>4, RunSlotInv DEF ObjectInv
<1>7. CASE StackStep
  BY <1>2, <1>4, <1>6, <1>7, EndEmissionInv, RunReadySlotInv, NotifyAfterReadyInv, ConnectInv
     DEF StackStep
<1>8. ASSUME NEW p \in Property, NEW v \in Value, Set(p, v)
      PROVE  ObjectInv(object')
  BY <1>4, <1>8, SetValueInv DEF Set
<1>9. ASSUME NEW p \in Bindable, BindProperty(p)
      PROVE  ObjectInv(object')
  BY <1>4, <1>9, BindInv DEF BindProperty
<1>10. ASSUME NEW p \in Property, Increment(p) \/ SetNotReady(p) \/ Listen(p)
       PROVE  ObjectInv(object')
  BY <1>4, <1>10, IncrementInv, SetNotReadyInv, ListenInv
<1>. QED  BY <1>1, <1>7, <1>8, <1>9, <1>10 DEF Next, ApplicationStep

\* Whatever is behind has the frame on the stack that will repair it.
THEOREM Invariance == Spec => []BInv
BY BInvInit, BInvStep, PTL DEF Spec

LEMMA IdleIs ==
  ASSUME BInv, Idle(object)
  PROVE  /\ object \in Object
         /\ \A p \in Property :
              /\ ~Dirty(object, p)
              /\ Listener \in ToSet(object.connections[p]) => object.seen[p] = object.previous[p]
              /\ p \in Flagged => object.seenReady[p] = object.ready[p]
              /\ p \in object.bound => Follows(object, p)
              /\ \A slot : ~Pending(object.stack, p, slot)
<1>1. ObjectInv(object) /\ object.stack = <<>>
  BY DEF BInv, Idle
<1>2. \A kind, p : ~OnStack(object.stack, kind, p)
  BY <1>1 DEF OnStack
<1>3. \A p, slot : ~Pending(object.stack, p, slot)
  BY <1>1 DEF Pending
<1>. QED  BY <1>1, <1>2, <1>3 DEF ObjectInv, Heard, Notifies, Holds

\* The types of values, connections and frames, whatever listeners do.
THEOREM TypeCorrect == Spec => []TypeOK
<1>1. BInv => TypeOK
  BY DEF BInv, TypeOK, Object
<1>. QED  BY <1>1, Invariance, PTL

\* When a change is over, every bound property has its getter's value, for
\* any graph of bindings, also a cyclic one, any getters and any order of
\* connections.
THEOREM BindingsCorrect == Spec => []BindingsHold
<1>1. BInv => BindingsHold
  <2>1. SUFFICES ASSUME BInv, Idle(object),
                        NEW p \in object.bound \ (object.stale \union object.reverted)
                 PROVE  object.value[p] = Getter(object, p)
    BY DEF BindingsHold
  <2>2. p \in Property
    BY <2>1, IdleIs, ObjectFields DEF Bindable
  <2>3. Follows(object, p) /\ Inputs[p] \subseteq Property
    BY <2>1, <2>2, IdleIs, ConstantsAssumption
  <2>. QED  BY <2>1, <2>3, IdleIs DEF Follows
<1>. QED  BY <1>1, Invariance, PTL

\* When a change is over, listeners have read the present values and flags.
THEOREM ListenersCorrect == Spec => []ListenersCurrent
<1>1. BInv => ListenersCurrent
  BY IdleIs, ConstantsAssumption DEF ListenersCurrent, Dirty
<1>. QED  BY <1>1, Invariance, PTL

\* reevaluate() runs for bound properties, and for those set in the middle
\* of bind().
THEOREM GettersCorrect == Spec => []GetterPresent
<1>1. BInv => GetterPresent
  BY DEF BInv, HasGetter, GetterPresent
<1>. QED  BY <1>1, Invariance, PTL
=============================================================================
