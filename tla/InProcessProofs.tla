--------------------------- MODULE InProcessProofs ---------------------------
(***************************************************************************)
(* Proofs about InProcess, for any front ends, values and calls, any       *)
(* number of exports and any length of the queues: every front end's       *)
(* listeners know its provider's state, no call is made without an         *)
(* adapter, and each front end ends up with the best provider and with the *)
(* service's value.                                                        *)
(*                                                                         *)
(* What a signal of a registry does is put together from what each slot    *)
(* does to its own front end, since a slot leaves the others as they are.  *)
(* A second invariant follows the registry's entries from the services to  *)
(* the binders, and a third one the values.                                *)
(***************************************************************************)
EXTENDS InProcess, SequenceTheorems, WellFoundedInduction, TLAPS

FrontStates ==
  [provider : BOOLEAN, wrapped : Provider \union {"gone"}, heard : State, local : State,
   dbus : State, started : BOOLEAN, enabled : BOOLEAN, available : BOOLEAN,
   server : Server \union {NoServer}, subscribed : SUBSET Server, outdated : BOOLEAN]

Processes ==
  [created : Seq(FrontEnd), manager : BOOLEAN, localEntry : BOOLEAN, exported : SUBSET Server,
   replica : Server \union {NoServer}, value : Value, sent : Value, receivers : Seq(FrontEnd),
   timers : Seq(Timer), requests : [Server -> Seq(FrontEnd)], fronts : [FrontEnd -> FrontStates],
   starved : SUBSET FrontEnd, overtaken : SUBSET FrontEnd, dropped : BOOLEAN,
   unaware : SUBSET FrontEnd]

\* What no slot changes.
Kept(p, q) ==
  /\ q.created = p.created /\ q.manager = p.manager /\ q.localEntry = p.localEntry
  /\ q.exported = p.exported /\ q.replica = p.replica /\ q.value = p.value /\ q.sent = p.sent
  /\ q.starved = p.starved /\ q.dropped = p.dropped

Receives(p, f) == f \in ToSet(p.receivers)

Reading(f) == [kind |-> "properties", front |-> f]

Pending(p, f) == Reading(f) \in ToSet(p.timers)

Asks(p, f, server) == f \in ToSet(p.requests[server])

SameLocal(p, q, f) ==
  /\ Receives(q, f) <=> Receives(p, f)
  /\ Pending(q, f) <=> Pending(p, f)

SameRequests(p, q, f) == \A server \in Server : Asks(q, f, server) <=> Asks(p, f, server)

\* Front end f is the same in both processes.
Same(p, q, f) ==
  /\ q.fronts[f] = p.fronts[f]
  /\ SameLocal(p, q, f) /\ SameRequests(p, q, f)
  /\ f \in q.unaware <=> f \in p.unaware
  /\ f \in q.overtaken <=> f \in p.overtaken

\* A step from p to q that is about front end f only.
Concerns(p, q, f) ==
  /\ q \in Processes /\ Kept(p, q) /\ (IsInjective(p.receivers) => IsInjective(q.receivers))
  /\ \A g \in FrontEnd \ {f} : Same(p, q, g)

\* Listeners of f know what its provider is like.
UpToDate(p, f) ==
  LET offered == Offered(p, f, p.fronts[f].wrapped)
  IN  /\ p.fronts[f].heard.value = offered.value
      /\ p.fronts[f].heard.ready = offered.ready \/ f \in p.unaware

-----------------------------------------------------------------------------
(***************************************************************************)
(* Records.                                                                *)
(***************************************************************************)
LEMMA ProcessFields ==
  ASSUME NEW p \in Processes
  PROVE  /\ p.created \in Seq(FrontEnd) /\ p.manager \in BOOLEAN /\ p.localEntry \in BOOLEAN
         /\ p.exported \subseteq Server /\ p.replica \in Server \union {NoServer}
         /\ p.value \in Value /\ p.sent \in Value /\ p.receivers \in Seq(FrontEnd)
         /\ p.timers \in Seq(Timer) /\ p.requests \in [Server -> Seq(FrontEnd)]
         /\ p.fronts \in [FrontEnd -> FrontStates] /\ p.starved \subseteq FrontEnd
         /\ p.overtaken \subseteq FrontEnd /\ p.dropped \in BOOLEAN /\ p.unaware \subseteq FrontEnd
BY DEF Processes

LEMMA FrontFields ==
  ASSUME NEW x \in FrontStates
  PROVE  /\ x.provider \in BOOLEAN /\ x.wrapped \in Provider \union {"gone"}
         /\ x.heard \in State /\ x.local \in State /\ x.dbus \in State
         /\ x.started \in BOOLEAN /\ x.enabled \in BOOLEAN /\ x.available \in BOOLEAN
         /\ x.server \in Server \union {NoServer} /\ x.subscribed \subseteq Server
         /\ x.outdated \in BOOLEAN
BY DEF FrontStates

LEMMA FrontOf ==
  ASSUME NEW p \in Processes, NEW f \in FrontEnd
  PROVE  p.fronts[f] \in FrontStates
BY ProcessFields

SetFront(p, f, x) == [p EXCEPT !.fronts[f] = x]

\* Everything but the front ends is the same.
SameRest(p, q) ==
  /\ Kept(p, q) /\ q.receivers = p.receivers /\ q.timers = p.timers /\ q.requests = p.requests

LEMMA SetFrontIs ==
  ASSUME NEW p \in Processes, NEW f \in FrontEnd, NEW x \in FrontStates
  PROVE  LET q == SetFront(p, f, x)
         IN  /\ q \in Processes /\ SameRest(p, q)
             /\ q.unaware = p.unaware /\ q.overtaken = p.overtaken
             /\ q.fronts[f] = x
             /\ \A g \in FrontEnd \ {f} : q.fronts[g] = p.fronts[g]
<1>. DEFINE q == SetFront(p, f, x)
<1>1. q \in Processes
  BY DEF Processes, SetFront
<1>2. /\ SameRest(p, q) /\ q.unaware = p.unaware /\ q.overtaken = p.overtaken
      /\ q.fronts = [p.fronts EXCEPT ![f] = x]
  BY DEF Processes, SameRest, Kept, SetFront
<1>. HIDE DEF q
<1>3. q.fronts[f] = x /\ \A g \in FrontEnd \ {f} : q.fronts[g] = p.fronts[g]
  BY <1>2, ProcessFields
<1>. QED  BY <1>1, <1>2, <1>3 DEF q

LEMMA UnawareIs ==
  ASSUME NEW p \in Processes, NEW u \in SUBSET FrontEnd
  PROVE  LET q == [p EXCEPT !.unaware = u]
         IN  /\ q \in Processes /\ SameRest(p, q) /\ q.fronts = p.fronts /\ q.unaware = u
             /\ q.overtaken = p.overtaken
BY DEF Processes, SameRest, Kept

LEMMA OvertakenIs ==
  ASSUME NEW p \in Processes, NEW u \in SUBSET FrontEnd
  PROVE  LET q == [p EXCEPT !.overtaken = u]
         IN  /\ q \in Processes /\ SameRest(p, q) /\ q.fronts = p.fronts /\ q.unaware = p.unaware
             /\ q.overtaken = u
BY DEF Processes, SameRest, Kept

LEMMA OfferedIs ==
  ASSUME NEW p \in Processes, NEW f \in FrontEnd, NEW provider \in Provider \union {"gone"}
  PROVE  Offered(p, f, provider) \in State
<1>1. p.fronts[f].local \in State /\ p.fronts[f].dbus \in State /\ p.fronts[f].heard \in State
  BY FrontOf, FrontFields
<1>2. p.value \in Value /\ Default \in Value
  BY ProcessFields, ConstantsAssumption
<1>. QED  BY <1>1, <1>2 DEF Offered, State, NotReady, Provider

-----------------------------------------------------------------------------
(***************************************************************************)
(* Front ends that stay the same.                                          *)
(***************************************************************************)
LEMMA SameIsReflexive == \A p, f : Same(p, p, f)
BY DEF Same, SameLocal, SameRequests

LEMMA SameIsTransitive ==
  ASSUME NEW p, NEW q, NEW r, NEW f, Same(p, q, f), Same(q, r, f)
  PROVE  Same(p, r, f)
BY DEF Same, SameLocal, SameRequests

LEMMA SameIsSymmetric ==
  ASSUME NEW p, NEW q, NEW f, Same(p, q, f)
  PROVE  Same(q, p, f)
BY DEF Same, SameLocal, SameRequests

LEMMA KeptIsTransitive ==
  ASSUME NEW p, NEW q, NEW r, Kept(p, q), Kept(q, r)
  PROVE  Kept(p, r)
BY DEF Kept

LEMMA ConcernsIsTransitive ==
  ASSUME NEW p, NEW q, NEW r, NEW f, Concerns(p, q, f), Concerns(q, r, f)
  PROVE  Concerns(p, r, f)
<1>1. r \in Processes /\ Kept(p, r) /\ (IsInjective(p.receivers) => IsInjective(r.receivers))
  BY KeptIsTransitive DEF Concerns
<1>2. \A g \in FrontEnd \ {f} : Same(p, r, g)
  BY SameIsTransitive DEF Concerns
<1>. QED  BY <1>1, <1>2 DEF Concerns

LEMMA SameIsUpToDate ==
  ASSUME NEW p, NEW q, NEW f, Kept(p, q), Same(p, q, f)
  PROVE  UpToDate(q, f) <=> UpToDate(p, f)
BY DEF Kept, Same, UpToDate, Offered

\* A step that leaves everything else as it is.
LEMMA OneFront ==
  ASSUME NEW p \in Processes, NEW q \in Processes, NEW f \in FrontEnd, SameRest(p, q),
         \A g \in FrontEnd \ {f} : q.fronts[g] = p.fronts[g],
         \A g \in FrontEnd \ {f} : g \in q.unaware <=> g \in p.unaware,
         \A g \in FrontEnd \ {f} : g \in q.overtaken <=> g \in p.overtaken
  PROVE  Concerns(p, q, f) /\ SameLocal(p, q, f) /\ SameRequests(p, q, f)
<1>1. \A g : SameLocal(p, q, g) /\ SameRequests(p, q, g)
  BY DEF SameRest, SameLocal, SameRequests, Receives, Pending, Asks
<1>2. Kept(p, q) /\ (IsInjective(p.receivers) => IsInjective(q.receivers))
  BY DEF SameRest
<1>. QED  BY <1>1, <1>2 DEF Concerns, Same

-----------------------------------------------------------------------------
(***************************************************************************)
(* What the operators of a front end do to it.                             *)
(***************************************************************************)
\* Front x with other provider-related fields is y.
SameRole(x, y) ==
  /\ y.provider = x.provider /\ y.local = x.local /\ y.started = x.started

\* The D-Bus binder of the front end is as it was.
SameBinder(x, y) ==
  /\ y.server = x.server /\ y.available = x.available /\ y.outdated = x.outdated
  /\ y.subscribed = x.subscribed

\* What the D-Bus proxy of f has stored, and whether older updates will follow.
SameStore(p, q, f) ==
  q.fronts[f].dbus = p.fronts[f].dbus /\ (f \in q.overtaken <=> f \in p.overtaken)

LEMMA ForwardIs ==
  ASSUME NEW p \in Processes, NEW f \in FrontEnd, NEW provider \in {"service", "local", "dbus"}
  PROVE  LET q == Forward(p, f, provider)
             x == p.fronts[f]
             y == q.fronts[f]
         IN  /\ Concerns(p, q, f) /\ SameLocal(p, q, f) /\ SameRequests(p, q, f)
             /\ SameRest(p, q) /\ q.unaware = p.unaware /\ q.overtaken = p.overtaken
             /\ SameRole(x, y) /\ SameBinder(x, y)
             /\ y.enabled = x.enabled /\ y.wrapped = x.wrapped /\ y.dbus = x.dbus
             /\ UpToDate(p, f) \/ x.wrapped = provider => UpToDate(q, f)
<1>. DEFINE q == Forward(p, f, provider)
            x == p.fronts[f]
            h == Offered(p, f, provider)
            z == [x EXCEPT !.heard = h]
<1>1. x \in FrontStates /\ h \in State
  BY FrontOf, OfferedIs DEF Provider
<1>2. CASE x.wrapped = provider
  <2>1. q = SetFront(p, f, z)
    BY <1>2 DEF Forward, SetFront, Processes
  <2>2. z \in FrontStates
    BY <1>1 DEF FrontStates
  <2>3. /\ SameRole(x, z) /\ SameBinder(x, z) /\ z.enabled = x.enabled /\ z.wrapped = x.wrapped
        /\ z.dbus = x.dbus /\ z.heard = h
    BY <1>1 DEF FrontStates, SameRole, SameBinder
  <2>. HIDE DEF z, h
  <2>4. /\ q \in Processes /\ SameRest(p, q) /\ q.unaware = p.unaware
        /\ q.overtaken = p.overtaken /\ q.fronts[f] = z
        /\ \A g \in FrontEnd \ {f} : q.fronts[g] = p.fronts[g]
    BY <2>1, <2>2, SetFrontIs
  <2>. HIDE DEF q
  <2>5. Concerns(p, q, f) /\ SameLocal(p, q, f) /\ SameRequests(p, q, f)
    BY <2>4, OneFront
  <2>6. UpToDate(q, f)
    <3>1. Offered(q, f, provider) = Offered(p, f, provider)
      BY <2>3, <2>4 DEF Offered, SameRest, Kept, SameRole
    <3>. QED  BY <1>2, <2>3, <2>4, <3>1 DEF UpToDate, h
  <2>. QED  BY <2>3, <2>4, <2>5, <2>6 DEF q
<1>3. CASE x.wrapped # provider
  <2>1. q = p
    BY <1>3 DEF Forward
  <2>2. SameRest(p, p) /\ SameRole(x, x) /\ SameBinder(x, x)
    BY DEF SameRest, Kept, SameRole, SameBinder
  <2>. HIDE DEF q
  <2>3. Concerns(p, p, f) /\ SameLocal(p, p, f) /\ SameRequests(p, p, f)
    BY <2>2, OneFront
  <2>. QED  BY <1>3, <2>1, <2>2, <2>3 DEF q
<1>. QED  BY <1>2, <1>3

LEMMA WrapIs ==
  ASSUME NEW p \in Processes, NEW f \in FrontEnd, NEW provider \in Provider
  PROVE  LET q == Wrap(p, f, provider)
             x == p.fronts[f]
             y == q.fronts[f]
         IN  /\ Concerns(p, q, f) /\ SameLocal(p, q, f) /\ SameRequests(p, q, f)
             /\ SameRest(p, q)
             /\ SameRole(x, y) /\ SameBinder(x, y) /\ SameStore(p, q, f)
             /\ y.enabled = x.enabled /\ y.wrapped = provider
             /\ UpToDate(p, f) => UpToDate(q, f)
<1>. DEFINE q == Wrap(p, f, provider)
            x == p.fronts[f]
            old == Offered(p, f, x.wrapped)
            new == Offered(p, f, provider)
            h == [ready |-> IF new.ready # old.ready THEN new.ready ELSE x.heard.ready,
                  value |-> IF new.value # old.value THEN new.value ELSE x.heard.value]
            u == IF new.ready # old.ready THEN p.unaware \ {f} ELSE p.unaware
            z == [x EXCEPT !.wrapped = provider, !.heard = h]
            r == SetFront(p, f, z)
<1>1. x \in FrontStates /\ old \in State /\ new \in State /\ x.heard \in State
      /\ x.wrapped \in Provider \union {"gone"}
  <2>1. x \in FrontStates
    BY FrontOf
  <2>2. x.wrapped \in Provider \union {"gone"} /\ x.heard \in State
    BY <2>1, FrontFields
  <2>. QED  BY <2>1, <2>2, OfferedIs
<1>2. h \in State /\ h.ready = (IF new.ready # old.ready THEN new.ready ELSE x.heard.ready)
      /\ h.value = (IF new.value # old.value THEN new.value ELSE x.heard.value)
  <2>. HIDE DEF x, old, new
  <2>. QED  BY <1>1 DEF State
<1>3. u \in SUBSET FrontEnd /\ \A g \in FrontEnd \ {f} : g \in u <=> g \in p.unaware
  <2>. HIDE DEF old, new
  <2>. QED  BY ProcessFields
<1>4. q = [r EXCEPT !.unaware = u]
  <2>1. q = [p EXCEPT !.fronts[f].wrapped = provider, !.fronts[f].heard = h, !.unaware = u]
    BY DEF Wrap
  <2>. HIDE DEF h, u, q, x
  <2>2. q = [SetFront(p, f, [p.fronts[f] EXCEPT !.wrapped = provider, !.heard = h])
               EXCEPT !.unaware = u]
    BY <2>1 DEF SetFront, Processes, FrontStates
  <2>. QED  BY <2>2 DEF x
<1>5. z \in FrontStates /\ SameRole(x, z) /\ SameBinder(x, z) /\ z.enabled = x.enabled
      /\ z.wrapped = provider /\ z.dbus = x.dbus /\ z.heard = h
  <2>. HIDE DEF h, x
  <2>1. z \in FrontStates
    <3>1. [x EXCEPT !.wrapped = provider] \in FrontStates
      BY <1>1 DEF FrontStates
    <3>2. [[x EXCEPT !.wrapped = provider] EXCEPT !.heard = h] \in FrontStates
      BY <1>2, <3>1 DEF FrontStates
    <3>3. z = [[x EXCEPT !.wrapped = provider] EXCEPT !.heard = h]
      BY <1>1 DEF FrontStates
    <3>. QED  BY <3>2, <3>3
  <2>2. SameRole(x, z) /\ SameBinder(x, z) /\ z.enabled = x.enabled
        /\ z.wrapped = provider /\ z.dbus = x.dbus /\ z.heard = h
    BY <1>1 DEF FrontStates, SameRole, SameBinder
  <2>. QED  BY <2>1, <2>2
<1>. HIDE DEF z, u
<1>6. /\ r \in Processes /\ SameRest(p, r) /\ r.unaware = p.unaware /\ r.fronts[f] = z
      /\ r.overtaken = p.overtaken
      /\ \A g \in FrontEnd \ {f} : r.fronts[g] = p.fronts[g]
  BY <1>5, SetFrontIs
<1>. HIDE DEF r
<1>7. /\ q \in Processes /\ SameRest(r, q) /\ q.fronts = r.fronts /\ q.unaware = u
      /\ q.overtaken = r.overtaken
  BY <1>3, <1>4, <1>6, UnawareIs
<1>. HIDE DEF q
<1>8. /\ SameRest(p, q) /\ q.fronts[f] = z
      /\ \A g \in FrontEnd \ {f} : q.fronts[g] = p.fronts[g]
  BY <1>6, <1>7 DEF SameRest, Kept
<1>9. Concerns(p, q, f) /\ SameLocal(p, q, f) /\ SameRequests(p, q, f)
  BY <1>3, <1>6, <1>7, <1>8, OneFront
<1>10. ASSUME UpToDate(p, f)
       PROVE  UpToDate(q, f)
  <2>1. Offered(q, f, provider) = new
    BY <1>5, <1>8 DEF Offered, SameRest, Kept, SameRole, Provider
  <2>2. x.heard.value = old.value /\ (x.heard.ready = old.ready \/ f \in p.unaware)
    BY <1>10 DEF UpToDate
  <2>. HIDE DEF old, new, h
  <2>3. h.value = new.value /\ (h.ready = new.ready \/ f \in u)
    BY <1>2, <2>2 DEF u
  <2>. QED  BY <1>5, <1>7, <1>8, <2>1, <2>3 DEF UpToDate
<1>11. SameStore(p, q, f)
  BY <1>5, <1>6, <1>7, <1>8 DEF SameStore
<1>. QED  BY <1>5, <1>8, <1>9, <1>10, <1>11 DEF q

LEMMA AppendIs ==
  ASSUME NEW S, NEW s \in Seq(S), NEW e \in S
  PROVE  /\ Append(s, e) \in Seq(S)
         /\ ToSet(Append(s, e)) = ToSet(s) \union {e}
         /\ IsInjective(s) /\ e \notin ToSet(s) => IsInjective(Append(s, e))
<1>. DEFINE t == Append(s, e)
            N == Len(s)
<1>1. /\ t \in Seq(S) /\ Len(t) = N + 1 /\ N \in Nat /\ t[N + 1] = e
      /\ \A i \in 1 .. N : t[i] = s[i]
  BY AppendProperties, LenProperties
<1>2. DOMAIN t = 1 .. N + 1 /\ DOMAIN s = 1 .. N
  BY <1>1, LenProperties
<1>. HIDE DEF t, N
<1>3. \A i \in 1 .. N + 1 : i \in 1 .. N \/ i = N + 1
  BY <1>1
<1>4. 1 .. N \subseteq 1 .. N + 1 /\ N + 1 \in 1 .. N + 1
  BY <1>1
<1>5. ToSet(t) = ToSet(s) \union {e}
  BY <1>1, <1>2, <1>3, <1>4 DEF ToSet
<1>6. ASSUME IsInjective(s), e \notin ToSet(s)
      PROVE  IsInjective(t)
  BY <1>1, <1>2, <1>3, <1>4, <1>6 DEF ToSet, IsInjective
<1>. QED  BY <1>1, <1>5, <1>6 DEF t

SetLists(p, receivers, timers) == [p EXCEPT !.receivers = receivers, !.timers = timers]

LEMMA ListsAre ==
  ASSUME NEW p \in Processes, NEW a \in Seq(FrontEnd), NEW b \in Seq(Timer)
  PROVE  LET q == SetLists(p, a, b)
         IN  /\ q \in Processes /\ Kept(p, q) /\ q.fronts = p.fronts
             /\ q.receivers = a /\ q.timers = b /\ q.requests = p.requests
             /\ q.unaware = p.unaware /\ q.overtaken = p.overtaken
<1>1. [p EXCEPT !.receivers = a] \in Processes
  BY DEF Processes
<1>2. [[p EXCEPT !.receivers = a] EXCEPT !.timers = b] \in Processes
  BY <1>1 DEF Processes
<1>3. [[p EXCEPT !.receivers = a] EXCEPT !.timers = b] = SetLists(p, a, b)
  BY DEF Processes, SetLists
<1>. QED  BY <1>2, <1>3 DEF Processes, Kept, SetLists

\* A provider does not depend on the lists of the process.
LEMMA OfferDepends ==
  ASSUME NEW p, NEW q, NEW f, q.fronts = p.fronts, q.value = p.value, q.unaware = p.unaware
  PROVE  UpToDate(q, f) <=> UpToDate(p, f)
BY DEF UpToDate, Offered

LEMMA BindLocalIs ==
  ASSUME NEW p \in Processes, NEW f \in FrontEnd
  PROVE  LET q == BindLocal(p, f)
         IN  /\ Concerns(p, q, f) /\ q.fronts = p.fronts
             /\ SameRequests(p, q, f) /\ SameStore(p, q, f) /\ q.unaware = p.unaware
             /\ UpToDate(q, f) <=> UpToDate(p, f)
             /\ IF p.localEntry /\ ~Receives(p, f)
                THEN Receives(q, f) /\ Pending(q, f) ELSE q = p
<1>. DEFINE q == BindLocal(p, f)
            a == Append(p.receivers, f)
            b == Append(p.timers, Reading(f))
<1>1. CASE ~(p.localEntry /\ ~Receives(p, f))
  <2>1. q = p
    BY <1>1 DEF BindLocal, Receives
  <2>. HIDE DEF q
  <2>2. Concerns(p, p, f) /\ SameRequests(p, p, f)
    BY OneFront DEF SameRest, Kept
  <2>. QED  BY <1>1, <2>1, <2>2 DEF q, SameStore
<1>2. CASE p.localEntry /\ ~Receives(p, f)
  <2>1. q = SetLists(p, a, b)
    BY <1>2 DEF BindLocal, Receives, Reading, Processes, SetLists
  <2>2. /\ p.receivers \in Seq(FrontEnd) /\ p.timers \in Seq(Timer) /\ Reading(f) \in Timer
        /\ f \notin ToSet(p.receivers)
    BY <1>2, ProcessFields DEF Reading, Timer, Receives
  <2>3. /\ a \in Seq(FrontEnd) /\ ToSet(a) = ToSet(p.receivers) \union {f}
        /\ IsInjective(p.receivers) => IsInjective(a)
    BY <2>2, AppendIs
  <2>4. b \in Seq(Timer) /\ ToSet(b) = ToSet(p.timers) \union {Reading(f)}
    BY <2>2, AppendIs
  <2>. HIDE DEF a, b
  <2>5. /\ q \in Processes /\ Kept(p, q) /\ q.fronts = p.fronts
        /\ q.receivers = a /\ q.timers = b /\ q.requests = p.requests
        /\ q.unaware = p.unaware /\ q.overtaken = p.overtaken
    BY <2>1, <2>3, <2>4, ListsAre
  <2>. HIDE DEF q
  <2>6. Receives(q, f) /\ Pending(q, f) /\ SameRequests(p, q, f)
    BY <2>3, <2>4, <2>5 DEF Receives, Pending, SameRequests, Asks
  <2>7. ASSUME NEW g \in FrontEnd \ {f}
        PROVE  Same(p, q, g)
    <3>1. Reading(g) # Reading(f)
      BY DEF Reading
    <3>2. (g \in ToSet(a) <=> g \in ToSet(p.receivers))
          /\ (Reading(g) \in ToSet(b) <=> Reading(g) \in ToSet(p.timers))
      BY <2>3, <2>4, <3>1
    <3>. QED  BY <2>5, <3>2 DEF Same, SameLocal, SameRequests, Receives, Pending, Asks
  <2>8. Concerns(p, q, f)
    BY <2>3, <2>5, <2>7 DEF Concerns
  <2>9. UpToDate(q, f) <=> UpToDate(p, f)
    BY <2>5, OfferDepends DEF Kept
  <2>. QED  BY <1>2, <2>5, <2>6, <2>8, <2>9 DEF q, SameStore
<1>. QED  BY <1>1, <1>2

-----------------------------------------------------------------------------
(***************************************************************************)
(* The D-Bus binder.                                                       *)
(***************************************************************************)
\* From p to q the binder of f has been bound to the server of the replica.
Bound(p, q, f) ==
  LET x == p.fronts[f]
      y == q.fronts[f]
  IN  /\ y.server = p.replica /\ ~y.outdated
      /\ y.subscribed = x.subscribed \union {p.replica}
      /\ f \notin Asynchronous /\ p.replica \in p.exported =>
           y.dbus.value = p.value /\ (f \in q.overtaken <=> UpdateWaits(f))
      /\ y.available = (x.available \/ (f \notin Asynchronous /\ p.replica \in p.exported))
      /\ \A server \in Server :
           Asks(q, f, server) <=>
             Asks(p, f, server) \/ (f \in Asynchronous /\ server = p.replica)

\* Front x has become y, and its binder may be another.
SameFront(x, y) ==
  SameRole(x, y) /\ y.enabled = x.enabled /\ y.wrapped = x.wrapped

SetRequests(p, server, queue) == [p EXCEPT !.requests[server] = queue]

LEMMA RequestsAre ==
  ASSUME NEW p \in Processes, NEW server \in Server, NEW queue \in Seq(FrontEnd)
  PROVE  LET q == SetRequests(p, server, queue)
         IN  /\ q \in Processes /\ Kept(p, q) /\ q.fronts = p.fronts
             /\ q.receivers = p.receivers /\ q.timers = p.timers
             /\ q.unaware = p.unaware /\ q.overtaken = p.overtaken
             /\ q.requests[server] = queue
             /\ \A s \in Server \ {server} : q.requests[s] = p.requests[s]
<1>. DEFINE q == SetRequests(p, server, queue)
<1>1. q \in Processes
  BY DEF Processes, SetRequests
<1>2. /\ Kept(p, q) /\ q.fronts = p.fronts /\ q.receivers = p.receivers /\ q.timers = p.timers
      /\ q.unaware = p.unaware /\ q.overtaken = p.overtaken
      /\ q.requests = [p.requests EXCEPT ![server] = queue]
  BY DEF Processes, Kept, SetRequests
<1>. HIDE DEF q
<1>3. q.requests[server] = queue /\ \A s \in Server \ {server} : q.requests[s] = p.requests[s]
  BY <1>2, ProcessFields
<1>. QED  BY <1>1, <1>2, <1>3 DEF q

\* A front end asks one more server.
LEMMA AskIs ==
  ASSUME NEW p \in Processes, NEW f \in FrontEnd, NEW server \in Server
  PROVE  LET q == SetRequests(p, server, Append(p.requests[server], f))
         IN  /\ Concerns(p, q, f) /\ q.fronts = p.fronts /\ SameLocal(p, q, f)
             /\ q.unaware = p.unaware
             /\ \A s \in Server : Asks(q, f, s) <=> Asks(p, f, s) \/ s = server
<1>. DEFINE queue == Append(p.requests[server], f)
            q == SetRequests(p, server, queue)
<1>1. queue \in Seq(FrontEnd) /\ ToSet(queue) = ToSet(p.requests[server]) \union {f}
  <2>1. p.requests[server] \in Seq(FrontEnd)
    BY ProcessFields
  <2>. QED  BY <2>1, AppendIs
<1>. HIDE DEF queue
<1>2. /\ q \in Processes /\ Kept(p, q) /\ q.fronts = p.fronts
      /\ q.receivers = p.receivers /\ q.timers = p.timers /\ q.unaware = p.unaware
      /\ q.overtaken = p.overtaken /\ q.requests[server] = queue
      /\ \A s \in Server \ {server} : q.requests[s] = p.requests[s]
  BY <1>1, RequestsAre
<1>. HIDE DEF q
<1>3. \A g : SameLocal(p, q, g)
  BY <1>2 DEF SameLocal, Receives, Pending
<1>4. \A g : \A s \in Server : Asks(q, g, s) <=> Asks(p, g, s) \/ (s = server /\ g = f)
  BY <1>1, <1>2 DEF Asks
<1>5. Concerns(p, q, f)
  <2>1. \A g \in FrontEnd \ {f} : Same(p, q, g)
    BY <1>2, <1>3, <1>4 DEF Same, SameRequests
  <2>. QED  BY <1>2, <2>1 DEF Concerns
<1>. QED  BY <1>2, <1>3, <1>4, <1>5 DEF q, queue

LEMMA LinkIs ==
  ASSUME NEW p \in Processes, NEW f \in FrontEnd, p.replica \in Server
  PROVE  LET q == [p EXCEPT !.fronts[f].server = p.replica,
                            !.fronts[f].subscribed = @ \union {p.replica},
                            !.fronts[f].outdated = FALSE]
             x == p.fronts[f]
             y == q.fronts[f]
         IN  /\ Concerns(p, q, f) /\ SameLocal(p, q, f) /\ SameRequests(p, q, f)
             /\ SameRest(p, q) /\ q.unaware = p.unaware /\ q.overtaken = p.overtaken
             /\ SameFront(x, y) /\ y.server = p.replica /\ ~y.outdated
             /\ y.available = x.available /\ y.dbus = x.dbus
             /\ y.subscribed = x.subscribed \union {p.replica}
             /\ UpToDate(q, f) <=> UpToDate(p, f)
<1>. DEFINE q == [p EXCEPT !.fronts[f].server = p.replica,
                           !.fronts[f].subscribed = @ \union {p.replica},
                           !.fronts[f].outdated = FALSE]
            x == p.fronts[f]
            z == [x EXCEPT !.server = p.replica, !.subscribed = x.subscribed \union {p.replica},
                           !.outdated = FALSE]
<1>1. x \in FrontStates
  BY FrontOf
<1>2. q = SetFront(p, f, z)
  BY <1>1 DEF SetFront, Processes, FrontStates
<1>3. z \in FrontStates
  <2>. HIDE DEF x
  <2>. DEFINE a == [x EXCEPT !.server = p.replica]
              b == [a EXCEPT !.subscribed = x.subscribed \union {p.replica}]
  <2>1. a \in FrontStates
    BY <1>1 DEF FrontStates
  <2>2. x.subscribed \union {p.replica} \in SUBSET Server
    BY <1>1, FrontFields
  <2>. HIDE DEF a
  <2>3. b \in FrontStates
    BY <2>1, <2>2 DEF FrontStates
  <2>. HIDE DEF b
  <2>4. [b EXCEPT !.outdated = FALSE] \in FrontStates
    BY <2>3 DEF FrontStates
  <2>5. z = [b EXCEPT !.outdated = FALSE]
    BY <1>1 DEF FrontStates, a, b
  <2>. QED  BY <2>4, <2>5
<1>4. /\ SameFront(x, z) /\ z.server = p.replica /\ ~z.outdated /\ z.available = x.available
      /\ z.dbus = x.dbus /\ z.heard = x.heard
      /\ z.subscribed = x.subscribed \union {p.replica}
  BY <1>1 DEF FrontStates, SameFront, SameRole
<1>. HIDE DEF z, q
<1>5. /\ q \in Processes /\ SameRest(p, q) /\ q.unaware = p.unaware /\ q.overtaken = p.overtaken
      /\ q.fronts[f] = z /\ \A g \in FrontEnd \ {f} : q.fronts[g] = p.fronts[g]
  BY <1>2, <1>3, SetFrontIs
<1>6. Concerns(p, q, f) /\ SameLocal(p, q, f) /\ SameRequests(p, q, f)
  BY <1>5, OneFront
<1>7. UpToDate(q, f) <=> UpToDate(p, f)
  BY <1>4, <1>5 DEF UpToDate, Offered, SameRest, Kept, SameFront, SameRole
<1>. QED  BY <1>4, <1>5, <1>6, <1>7 DEF q

SetSnapshot(p, f, s, o) ==
  [p EXCEPT !.fronts[f].dbus = s, !.fronts[f].available = TRUE, !.overtaken = o]

\* A synchronous binder has got a snapshot.
LEMMA SnapshotIs ==
  ASSUME NEW p \in Processes, NEW f \in FrontEnd, NEW s \in State, NEW o \in SUBSET FrontEnd,
         o \ {f} = p.overtaken \ {f}
  PROVE  LET r == SetSnapshot(p, f, s, o)
             q == Forward(r, f, "dbus")
             x == p.fronts[f]
             y == q.fronts[f]
         IN  /\ Concerns(p, q, f) /\ SameLocal(p, q, f) /\ SameRequests(p, q, f)
             /\ SameRest(p, q) /\ q.unaware = p.unaware
             /\ SameFront(x, y) /\ y.available /\ y.server = x.server /\ y.outdated = x.outdated
             /\ y.subscribed = x.subscribed /\ y.dbus = s /\ q.overtaken = o
             /\ UpToDate(p, f) => UpToDate(q, f)
<1>. DEFINE r == SetSnapshot(p, f, s, o)
            q == Forward(r, f, "dbus")
            x == p.fronts[f]
            z == [x EXCEPT !.dbus = s, !.available = TRUE]
            t == SetFront(p, f, z)
            v == r.fronts[f]
            y == q.fronts[f]
<1>1. x \in FrontStates
  BY FrontOf
<1>2. r = [t EXCEPT !.overtaken = o]
  BY <1>1 DEF SetFront, SetSnapshot, Processes, FrontStates
<1>3. z \in FrontStates
  <2>. HIDE DEF x
  <2>. DEFINE a == [x EXCEPT !.dbus = s]
  <2>1. a \in FrontStates
    BY <1>1 DEF FrontStates
  <2>. HIDE DEF a
  <2>2. [a EXCEPT !.available = TRUE] \in FrontStates
    BY <2>1 DEF FrontStates
  <2>3. z = [a EXCEPT !.available = TRUE]
    BY <1>1 DEF FrontStates, a
  <2>. QED  BY <2>2, <2>3
<1>4. /\ SameFront(x, z) /\ z.server = x.server /\ z.outdated = x.outdated /\ z.available
      /\ z.heard = x.heard /\ z.subscribed = x.subscribed /\ z.dbus = s
  BY <1>1 DEF FrontStates, SameFront, SameRole
<1>. HIDE DEF z, t, r
<1>5. /\ t \in Processes /\ SameRest(p, t) /\ t.unaware = p.unaware
      /\ t.fronts[f] = z /\ \A g \in FrontEnd \ {f} : t.fronts[g] = p.fronts[g]
  <2>. HIDE DEF x
  <2>. QED  BY <1>3, SetFrontIs DEF t
<1>6. /\ r \in Processes /\ SameRest(t, r) /\ r.fronts = t.fronts /\ r.unaware = t.unaware
      /\ r.overtaken = o
  BY <1>2, <1>5, OvertakenIs
<1>7. /\ r \in Processes /\ SameRest(p, r) /\ r.unaware = p.unaware
      /\ v = z /\ \A g \in FrontEnd \ {f} : r.fronts[g] = p.fronts[g]
  BY <1>5, <1>6 DEF SameRest, Kept
<1>8. Concerns(p, r, f) /\ SameLocal(p, r, f) /\ SameRequests(p, r, f)
  BY <1>6, <1>7, OneFront
<1>9. /\ Concerns(r, q, f) /\ SameLocal(r, q, f) /\ SameRequests(r, q, f)
      /\ SameRest(r, q) /\ q.unaware = r.unaware /\ q.overtaken = r.overtaken
      /\ SameRole(v, y) /\ SameBinder(v, y) /\ y.enabled = v.enabled /\ y.wrapped = v.wrapped
      /\ y.dbus = v.dbus
      /\ UpToDate(r, f) \/ v.wrapped = "dbus" => UpToDate(q, f)
  BY <1>7, ForwardIs
<1>. HIDE DEF q, y, v
<1>10. Concerns(p, q, f)
  BY <1>8, <1>9, ConcernsIsTransitive
<1>11. SameRest(p, q) /\ SameLocal(p, q, f) /\ SameRequests(p, q, f)
  BY <1>7, <1>8, <1>9 DEF SameRest, Kept, SameLocal, SameRequests
<1>12. ASSUME UpToDate(p, f)
       PROVE  UpToDate(q, f)
  <2>1. CASE v.wrapped = "dbus"
    BY <1>9, <2>1
  <2>2. CASE v.wrapped # "dbus"
    <3>1. x.wrapped \in Provider \union {"gone"} /\ x.wrapped # "dbus" /\ z.wrapped = x.wrapped
          /\ z.local = x.local /\ z.heard = x.heard
      BY <1>1, <1>4, <1>7, <2>2, FrontFields DEF SameFront, SameRole, v
    <3>2. Offered(r, f, x.wrapped) = Offered(p, f, x.wrapped)
      BY <1>7, <3>1 DEF Offered, SameRest, Kept, Provider, v
    <3>3. UpToDate(r, f)
      BY <1>7, <1>12, <3>1, <3>2 DEF UpToDate, v
    <3>. QED  BY <1>9, <3>3
  <2>. QED  BY <2>1, <2>2
<1>13. /\ SameFront(x, y) /\ y.available /\ y.server = x.server /\ y.outdated = x.outdated
       /\ q.unaware = p.unaware /\ q.overtaken = o
       /\ y.subscribed = x.subscribed /\ y.dbus = s
  BY <1>4, <1>6, <1>7, <1>9 DEF SameFront, SameRole, SameBinder
<1>. QED  BY <1>10, <1>11, <1>12, <1>13 DEF q, r, y

LEMMA BindDBusIs ==
  ASSUME NEW p \in Processes, NEW f \in FrontEnd, p.replica \in Server
  PROVE  LET q == BindDBus(p, f)
         IN  /\ Concerns(p, q, f) /\ SameLocal(p, q, f)
             /\ SameFront(p.fronts[f], q.fronts[f])
             /\ Bound(p, q, f)
             /\ UpToDate(p, f) => UpToDate(q, f)
<1>. DEFINE q == BindDBus(p, f)
            b == [p EXCEPT !.fronts[f].server = p.replica,
                           !.fronts[f].subscribed = @ \union {p.replica},
                           !.fronts[f].outdated = FALSE]
            x == p.fronts[f]
            y == b.fronts[f]
            z == q.fronts[f]
<1>1. /\ Concerns(p, b, f) /\ SameLocal(p, b, f) /\ SameRequests(p, b, f)
      /\ SameRest(p, b) /\ b.unaware = p.unaware /\ b.overtaken = p.overtaken
      /\ SameFront(x, y) /\ y.server = p.replica /\ ~y.outdated
      /\ y.available = x.available /\ y.subscribed = x.subscribed \union {p.replica}
      /\ UpToDate(b, f) <=> UpToDate(p, f)
  BY LinkIs
<1>2. /\ b \in Processes /\ b.requests = p.requests
      /\ x.available \in BOOLEAN /\ p.exported \subseteq Server
  BY <1>1, FrontOf, FrontFields, ProcessFields DEF Concerns, SameRest
<1>3. CASE f \in Asynchronous
  <2>1. q = SetRequests(b, p.replica, Append(b.requests[p.replica], f))
    BY <1>3 DEF BindDBus, SetRequests
  <2>. HIDE DEF q, b, x, y
  <2>2. /\ Concerns(b, q, f) /\ q.fronts = b.fronts /\ SameLocal(b, q, f)
        /\ q.unaware = b.unaware
        /\ \A s \in Server : Asks(q, f, s) <=> Asks(b, f, s) \/ s = p.replica
    BY <1>2, <2>1, AskIs
  <2>3. Concerns(p, q, f) /\ SameLocal(p, q, f)
    BY <1>1, <2>2, ConcernsIsTransitive DEF SameLocal
  <2>4. UpToDate(q, f) <=> UpToDate(b, f)
    BY <2>2, OfferDepends DEF Concerns, Kept
  <2>5. z = y
    BY <2>2 DEF z, y
  <2>6. Bound(p, q, f)
    BY <1>1, <1>2, <1>3, <2>2, <2>5 DEF Bound, SameRequests, x
  <2>. QED  BY <1>1, <2>3, <2>4, <2>5, <2>6 DEF q, x
<1>4. CASE f \notin Asynchronous /\ p.replica \in p.exported
  <2>. DEFINE s == [ready |-> TRUE, value |-> p.value]
              o == IF UpdateWaits(f) THEN b.overtaken \union {f} ELSE b.overtaken \ {f}
              r == SetSnapshot(b, f, s, o)
  <2>1. q = Forward(r, f, "dbus")
    BY <1>4 DEF BindDBus, SetSnapshot
  <2>2. s \in State
    BY ProcessFields DEF State
  <2>3. o \in SUBSET FrontEnd /\ o \ {f} = b.overtaken \ {f}
    <3>. HIDE DEF b
    <3>. QED  BY <1>2, ProcessFields
  <2>. HIDE DEF q, b, x, y, o, s
  <2>4. /\ Concerns(b, q, f) /\ SameLocal(b, q, f) /\ SameRequests(b, q, f)
        /\ SameFront(y, z) /\ z.available /\ z.server = y.server /\ z.outdated = y.outdated
        /\ z.subscribed = y.subscribed /\ z.dbus = s /\ q.overtaken = o
        /\ UpToDate(b, f) => UpToDate(q, f)
    BY <1>2, <2>1, <2>2, <2>3, SnapshotIs DEF y, z
  <2>. HIDE DEF z, r
  <2>5. Concerns(p, q, f) /\ SameLocal(p, q, f)
    BY <1>1, <2>4, ConcernsIsTransitive DEF SameLocal
  <2>6. SameFront(x, z)
    BY <1>1, <2>4 DEF SameFront, SameRole
  <2>7. z.dbus.value = p.value /\ (f \in q.overtaken <=> UpdateWaits(f))
    BY <2>4 DEF o, s
  <2>8. Bound(p, q, f)
    BY <1>1, <1>2, <1>4, <2>4, <2>7 DEF Bound, SameRequests, x, z
  <2>. QED  BY <1>1, <2>4, <2>5, <2>6, <2>8 DEF q, x, z
<1>5. CASE f \notin Asynchronous /\ p.replica \notin p.exported
  <2>1. q = b
    BY <1>5 DEF BindDBus
  <2>. HIDE DEF q, b, x, y
  <2>2. z = y
    BY <2>1 DEF z, y
  <2>3. Bound(p, q, f)
    BY <1>1, <1>2, <1>5, <2>1, <2>2 DEF Bound, SameRequests, x
  <2>. QED  BY <1>1, <2>1, <2>2, <2>3 DEF q, x
<1>. QED  BY <1>3, <1>4, <1>5

-----------------------------------------------------------------------------
(***************************************************************************)
(* The provider of a front end.                                            *)
(***************************************************************************)
SameStates(x, y) ==
  y.wrapped = x.wrapped /\ y.heard = x.heard /\ y.local = x.local /\ y.dbus = x.dbus

LEMMA FrontChanges ==
  ASSUME NEW p \in Processes, NEW f \in FrontEnd, NEW z \in FrontStates,
         SameStates(p.fronts[f], z)
  PROVE  LET q == SetFront(p, f, z)
         IN  /\ Concerns(p, q, f) /\ SameLocal(p, q, f) /\ SameRequests(p, q, f)
             /\ SameRest(p, q) /\ q.unaware = p.unaware /\ q.fronts[f] = z
             /\ SameStore(p, q, f)
             /\ UpToDate(q, f) <=> UpToDate(p, f)
<1>. DEFINE q == SetFront(p, f, z)
<1>1. /\ q \in Processes /\ SameRest(p, q) /\ q.unaware = p.unaware
      /\ q.overtaken = p.overtaken /\ q.fronts[f] = z
      /\ \A g \in FrontEnd \ {f} : q.fronts[g] = p.fronts[g]
  BY SetFrontIs
<1>. HIDE DEF q
<1>2. Concerns(p, q, f) /\ SameLocal(p, q, f) /\ SameRequests(p, q, f)
  BY <1>1, OneFront
<1>3. UpToDate(q, f) <=> UpToDate(p, f)
  BY <1>1 DEF SameStates, UpToDate, Offered, SameRest, Kept
<1>4. SameStore(p, q, f)
  BY <1>1 DEF SameStates, SameStore
<1>. QED  BY <1>1, <1>2, <1>3, <1>4 DEF q

LEMMA EnableDBusIs ==
  ASSUME NEW p \in Processes, NEW f \in FrontEnd
  PROVE  LET q == EnableDBus(p, f)
             x == p.fronts[f]
             y == q.fronts[f]
         IN  /\ Concerns(p, q, f) /\ SameLocal(p, q, f)
             /\ y.provider = x.provider /\ y.local = x.local /\ y.wrapped = x.wrapped
             /\ y.enabled /\ y.started
             /\ IF ~x.started /\ p.replica # NoServer
                THEN Bound(p, q, f)
                ELSE SameBinder(x, y) /\ SameRequests(p, q, f) /\ SameStore(p, q, f)
             /\ UpToDate(p, f) => UpToDate(q, f)
<1>. DEFINE q == EnableDBus(p, f)
            x == p.fronts[f]
            y == q.fronts[f]
            z == [x EXCEPT !.enabled = TRUE, !.started = TRUE]
            e == SetFront(p, f, z)
<1>1. x \in FrontStates
  BY FrontOf
<1>2. q = IF ~x.started /\ p.replica # NoServer THEN BindDBus(e, f) ELSE e
  <2>1. e = [p EXCEPT !.fronts[f].enabled = TRUE, !.fronts[f].started = TRUE]
    BY <1>1 DEF SetFront, Processes, FrontStates
  <2>. HIDE DEF e
  <2>. QED  BY <2>1 DEF EnableDBus
<1>3. z \in FrontStates /\ z.enabled /\ z.started /\ z.provider = x.provider
      /\ SameStates(x, z) /\ SameBinder(x, z)
  <2>. HIDE DEF x
  <2>1. z \in FrontStates
    BY <1>1 DEF FrontStates
  <2>2. z.enabled /\ z.started /\ z.provider = x.provider /\ SameStates(x, z) /\ SameBinder(x, z)
    BY <1>1 DEF FrontStates, SameStates, SameBinder
  <2>. QED  BY <2>1, <2>2
<1>. HIDE DEF z, e, q
<1>4. /\ Concerns(p, e, f) /\ SameLocal(p, e, f) /\ SameRequests(p, e, f) /\ SameStore(p, e, f)
      /\ SameRest(p, e) /\ e.unaware = p.unaware /\ e.fronts[f] = z
      /\ UpToDate(e, f) <=> UpToDate(p, f)
  BY <1>3, FrontChanges DEF e
<1>. HIDE DEF x, y
<1>5. CASE ~(~x.started /\ p.replica # NoServer)
  <2>1. q = e /\ y = z
    BY <1>2, <1>4, <1>5 DEF y
  <2>. QED  BY <1>3, <1>4, <1>5, <2>1 DEF SameStates, x, y, q
<1>6. CASE ~x.started /\ p.replica # NoServer
  <2>1. q = BindDBus(e, f)
    BY <1>2, <1>6
  <2>2. e \in Processes /\ e.replica \in Server /\ e.replica = p.replica
        /\ e.exported = p.exported /\ e.value = p.value
    BY <1>4, <1>6, ProcessFields DEF Concerns, Kept
  <2>3. /\ Concerns(e, q, f) /\ SameLocal(e, q, f) /\ SameFront(z, y)
        /\ Bound(e, q, f)
        /\ UpToDate(e, f) => UpToDate(q, f)
    BY <1>4, <2>1, <2>2, BindDBusIs DEF y
  <2>4. Concerns(p, q, f) /\ SameLocal(p, q, f)
    BY <1>4, <2>3, ConcernsIsTransitive DEF SameLocal
  <2>5. Bound(p, q, f)
    <3>1. p.fronts[f] = x /\ q.fronts[f] = y /\ e.fronts[f] = z
      BY <1>4 DEF x, y
    <3>. QED  BY <1>3, <1>4, <2>2, <2>3, <3>1 DEF Bound, SameRequests, SameBinder
  <2>6. y.provider = x.provider /\ y.local = x.local /\ y.wrapped = x.wrapped
        /\ y.enabled /\ y.started
    BY <1>3, <2>3 DEF SameFront, SameRole, SameStates
  <2>7. UpToDate(p, f) => UpToDate(q, f)
    BY <1>4, <2>3
  <2>. QED  BY <1>6, <2>4, <2>5, <2>6, <2>7 DEF x, y, q
<1>. QED  BY <1>5, <1>6

\* From p to q the Local IPC proxy of f has kept its value, and if it has been
\* connected it will read the present one.
KeepsReading(p, q, f) ==
  /\ q.fronts[f].local = p.fronts[f].local
  /\ Pending(p, f) => Pending(q, f)
  /\ Receives(q, f) => Receives(p, f) \/ Pending(q, f)

\* The service and its Local IPC adapter are what they were.
SameService(p, q) ==
  q.value = p.value /\ q.sent = p.sent /\ q.starved = p.starved /\ q.dropped = p.dropped

LEMMA KeepsReadingIsTransitive ==
  ASSUME NEW p, NEW q, NEW r, NEW f, KeepsReading(p, q, f), KeepsReading(q, r, f)
  PROVE  KeepsReading(p, r, f)
BY DEF KeepsReading

LEMMA SameKeepsReading ==
  ASSUME NEW p, NEW q, NEW f
  PROVE  /\ Same(p, q, f) => KeepsReading(p, q, f)
         /\ SameLocal(p, q, f) /\ q.fronts[f].local = p.fronts[f].local => KeepsReading(p, q, f)
BY DEF Same, SameLocal, KeepsReading

\* The D-Bus proxy of f gets the updates of the server it is bound to.
Subscribed(p, f) ==
  LET x == p.fronts[f] IN x.server # NoServer => x.server \in x.subscribed

\* refreshProvider(): the front end has what is best for it in this process,
\* or what its D-Bus binder offers.
Refreshed(p, q, f) ==
  LET x == p.fronts[f]
      y == q.fronts[f]
  IN  /\ Concerns(p, q, f)
      /\ y.provider = x.provider /\ y.local = x.local
      /\ IF f \in Asynchronous /\ p.localEntry /\ ~Receives(p, f)
         THEN Receives(q, f) /\ Pending(q, f) ELSE SameLocal(p, q, f)
      /\ IF x.provider \/ Receives(q, f)
         THEN /\ ~y.enabled /\ y.started = x.started
              /\ y.wrapped = IF x.provider THEN "service" ELSE "local"
              /\ SameBinder(x, y) /\ SameRequests(p, q, f) /\ SameStore(p, q, f)
         ELSE /\ y.enabled /\ y.started
              /\ y.wrapped = IF y.available THEN "dbus" ELSE "default"
              /\ IF ~x.started /\ p.replica # NoServer
                 THEN Bound(p, q, f)
                 ELSE SameBinder(x, y) /\ SameRequests(p, q, f) /\ SameStore(p, q, f)

LEMMA RefreshedKeepsReading ==
  ASSUME NEW p, NEW q, NEW f, Refreshed(p, q, f)
  PROVE  KeepsReading(p, q, f)
<1>1. /\ q.fronts[f].local = p.fronts[f].local
      /\ (Receives(q, f) /\ Pending(q, f)) \/ SameLocal(p, q, f)
  BY Zenon DEF Refreshed
<1>. QED  BY <1>1 DEF SameLocal, KeepsReading

LEMMA RefreshProviderIs ==
  ASSUME NEW p \in Processes, NEW f \in FrontEnd
  PROVE  LET q == RefreshProvider(p, f)
         IN  Refreshed(p, q, f) /\ (UpToDate(p, f) => UpToDate(q, f))
<1>. DEFINE q == RefreshProvider(p, f)
            l == IF f \in Asynchronous THEN BindLocal(p, f) ELSE p
            inside == IF l.fronts[f].provider THEN "service"
                      ELSE IF f \in ToSet(l.receivers) THEN "local" ELSE "default"
            r == EnableDBus(l, f)
            x == p.fronts[f]
            y == q.fronts[f]
<1>1. /\ Concerns(p, l, f) /\ l.fronts = p.fronts
      /\ SameRequests(p, l, f) /\ SameStore(p, l, f) /\ l.unaware = p.unaware
      /\ UpToDate(l, f) <=> UpToDate(p, f)
      /\ IF f \in Asynchronous /\ p.localEntry /\ ~Receives(p, f)
         THEN Receives(l, f) /\ Pending(l, f) ELSE SameLocal(p, l, f)
  <2>1. CASE f \in Asynchronous
    <3>1. l = BindLocal(p, f)
      BY <2>1
    <3>. HIDE DEF l
    <3>2. /\ Concerns(p, l, f) /\ l.fronts = p.fronts
          /\ SameRequests(p, l, f) /\ SameStore(p, l, f) /\ l.unaware = p.unaware
          /\ UpToDate(l, f) <=> UpToDate(p, f)
          /\ IF p.localEntry /\ ~Receives(p, f) THEN Receives(l, f) /\ Pending(l, f) ELSE l = p
      BY <3>1, BindLocalIs
    <3>. QED  BY <2>1, <3>2 DEF SameLocal
  <2>2. CASE f \notin Asynchronous
    <3>1. l = p
      BY <2>2
    <3>. HIDE DEF l
    <3>2. Concerns(p, p, f) /\ SameLocal(p, p, f) /\ SameRequests(p, p, f)
      BY OneFront DEF SameRest, Kept
    <3>. QED  BY <2>2, <3>1, <3>2 DEF SameStore
  <2>. QED  BY <2>1, <2>2
<1>2. q = IF inside # "default"
          THEN Wrap([l EXCEPT !.fronts[f].enabled = FALSE], f, inside)
          ELSE Wrap(r, f, IF r.fronts[f].available THEN "dbus" ELSE "default")
  BY DEF RefreshProvider
<1>3. l \in Processes /\ l.fronts[f] = x /\ x \in FrontStates /\ x.provider \in BOOLEAN
      /\ l.replica = p.replica
  BY <1>1, FrontOf, FrontFields DEF Concerns, Kept
<1>4. inside = IF x.provider THEN "service" ELSE IF Receives(l, f) THEN "local" ELSE "default"
  <2>. HIDE DEF l, x
  <2>. QED  BY <1>3 DEF Receives
<1>. HIDE DEF l, inside, q, x, y
<1>5. CASE x.provider \/ Receives(l, f)
  <2>. DEFINE z == [x EXCEPT !.enabled = FALSE]
              d == SetFront(l, f, z)
  <2>1. q = Wrap(d, f, inside) /\ inside \in {"service", "local"}
    <3>1. d = [l EXCEPT !.fronts[f].enabled = FALSE]
      BY <1>3 DEF SetFront, Processes, FrontStates
    <3>. HIDE DEF d
    <3>. QED  BY <1>2, <1>4, <1>5, <3>1
  <2>2. z \in FrontStates /\ ~z.enabled /\ SameRole(x, z) /\ SameStates(x, z) /\ SameBinder(x, z)
    <3>1. z \in FrontStates
      BY <1>3 DEF FrontStates
    <3>2. ~z.enabled /\ SameRole(x, z) /\ SameStates(x, z) /\ SameBinder(x, z)
      BY <1>3 DEF FrontStates, SameRole, SameStates, SameBinder
    <3>. QED  BY <3>1, <3>2
  <2>. HIDE DEF z, d
  <2>3. /\ Concerns(l, d, f) /\ SameLocal(l, d, f) /\ SameRequests(l, d, f)
        /\ SameStore(l, d, f) /\ d.fronts[f] = z
        /\ UpToDate(d, f) <=> UpToDate(l, f)
    BY <1>3, <2>2, FrontChanges DEF d
  <2>4. /\ Concerns(d, q, f) /\ SameLocal(d, q, f) /\ SameRequests(d, q, f)
        /\ SameStore(d, q, f)
        /\ SameRole(z, y) /\ SameBinder(z, y) /\ y.enabled = z.enabled /\ y.wrapped = inside
        /\ UpToDate(d, f) => UpToDate(q, f)
    <3>1. d \in Processes /\ inside \in Provider
      BY <2>1, <2>3 DEF Concerns, Provider
    <3>. QED  BY <2>1, <2>3, <3>1, WrapIs DEF y
  <2>5. Concerns(p, q, f)
    BY <1>1, <2>3, <2>4, ConcernsIsTransitive
  <2>6. SameLocal(l, q, f) /\ SameRequests(p, q, f) /\ SameStore(p, q, f)
    BY <1>1, <2>3, <2>4 DEF SameLocal, SameRequests, SameStore
  <2>7. /\ y.provider = x.provider /\ y.local = x.local /\ ~y.enabled /\ y.started = x.started
        /\ SameBinder(x, y) /\ y.wrapped = IF x.provider THEN "service" ELSE "local"
    BY <1>4, <1>5, <2>2, <2>4 DEF SameRole, SameBinder
  <2>8. /\ IF f \in Asynchronous /\ p.localEntry /\ ~Receives(p, f)
           THEN Receives(q, f) /\ Pending(q, f) ELSE SameLocal(p, q, f)
        /\ x.provider \/ Receives(q, f)
    BY <1>1, <1>5, <2>6 DEF SameLocal
  <2>9. Refreshed(p, q, f)
    BY <2>5, <2>6, <2>7, <2>8 DEF Refreshed, x, y
  <2>. QED  BY <1>1, <2>3, <2>4, <2>9 DEF q
<1>6. CASE ~(x.provider \/ Receives(l, f))
  <2>. DEFINE provider == IF r.fronts[f].available THEN "dbus" ELSE "default"
              z == r.fronts[f]
  <2>1. q = Wrap(r, f, provider)
    BY <1>2, <1>4, <1>6
  <2>. HIDE DEF r
  <2>2. /\ Concerns(l, r, f) /\ SameLocal(l, r, f)
        /\ z.provider = x.provider /\ z.local = x.local
        /\ z.enabled /\ z.started
        /\ IF ~x.started /\ l.replica # NoServer
           THEN Bound(l, r, f)
           ELSE SameBinder(x, z) /\ SameRequests(l, r, f) /\ SameStore(l, r, f)
        /\ UpToDate(l, f) => UpToDate(r, f)
    BY <1>3, EnableDBusIs DEF r
  <2>. HIDE DEF provider, z
  <2>3. /\ Concerns(r, q, f) /\ SameLocal(r, q, f) /\ SameRequests(r, q, f)
        /\ SameStore(r, q, f)
        /\ SameRole(z, y) /\ SameBinder(z, y) /\ y.enabled = z.enabled /\ y.wrapped = provider
        /\ UpToDate(r, f) => UpToDate(q, f)
    <3>1. r \in Processes /\ provider \in Provider
      BY <2>2 DEF Concerns, Provider, provider
    <3>. QED  BY <2>1, <3>1, WrapIs DEF y, z
  <2>4. Concerns(p, q, f)
    BY <1>1, <2>2, <2>3, ConcernsIsTransitive
  <2>5. SameLocal(l, q, f)
    BY <2>2, <2>3 DEF SameLocal
  <2>6. /\ y.provider = x.provider /\ y.local = x.local /\ y.enabled /\ y.started
        /\ y.wrapped = IF y.available THEN "dbus" ELSE "default"
    BY <2>2, <2>3 DEF SameRole, SameBinder, provider, z
  <2>7. /\ IF f \in Asynchronous /\ p.localEntry /\ ~Receives(p, f)
           THEN Receives(q, f) /\ Pending(q, f) ELSE SameLocal(p, q, f)
        /\ ~(x.provider \/ Receives(q, f))
    BY <1>1, <1>6, <2>5 DEF SameLocal
  <2>8. IF ~x.started /\ p.replica # NoServer
        THEN Bound(p, q, f)
        ELSE SameBinder(x, y) /\ SameRequests(p, q, f) /\ SameStore(p, q, f)
    <3>1. CASE ~x.started /\ p.replica # NoServer
      <4>1. Bound(l, r, f)
        BY <1>3, <2>2, <3>1
      <4>2. Bound(p, q, f)
        BY <1>1, <1>3, <2>3, <4>1
           DEF Bound, SameBinder, SameRequests, SameStore, Concerns, Kept, x, y, z
      <4>. QED  BY <3>1, <4>2
    <3>2. CASE ~(~x.started /\ p.replica # NoServer)
      BY <1>1, <1>3, <2>2, <2>3, <3>2 DEF SameBinder, SameRequests, SameStore
    <3>. QED  BY <3>1, <3>2
  <2>9. Refreshed(p, q, f)
    BY <2>4, <2>6, <2>7, <2>8 DEF Refreshed, x, y
  <2>. QED  BY <1>1, <2>2, <2>3, <2>9 DEF q
<1>. QED  BY <1>5, <1>6

-----------------------------------------------------------------------------
(***************************************************************************)
(* Correct front ends.                                                     *)
(***************************************************************************)
Silent(p, f) ==
  ~Receives(p, f) /\ ~Pending(p, f) /\ \A server \in Server : ~Asks(p, f, server)

\* Without its snapshot a bound binder is not available, and an unbound one
\* is available only if it was disabled when the service went away.
BinderOK(p, f) ==
  LET x == p.fronts[f]
  IN  x.available /\ x.server = NoServer => f \in Asynchronous /\ x.outdated

\* Front end f may look for a provider.
Draft(p, f) ==
  /\ f \notin Asynchronous => Silent(p, f)
  /\ f \in Asynchronous => ~p.fronts[f].provider
  /\ BinderOK(p, f)

\* Front end f has a provider; object is what it wraps when it uses the
\* service object.
Shaped(p, f, object) ==
  LET x == p.fronts[f]
  IN  /\ Draft(p, f)
      /\ f \notin Asynchronous =>
           (x.enabled <=> ~x.provider) /\ (x.provider => x.wrapped = object)
      /\ f \in Asynchronous =>
           /\ ~x.enabled => x.wrapped = "local" /\ Receives(p, f)
           /\ x.enabled /\ Receives(p, f) => Pending(p, f)
      /\ x.enabled => x.started /\ x.wrapped = IF x.available THEN "dbus" ELSE "default"

FrontOK(p, f, object) == Shaped(p, f, object) /\ UpToDate(p, f)

\* What f has of the service in this process.
HasObject(p, f) == f \notin Asynchronous => p.fronts[f].provider = p.manager

HasAdapter(p, f) == f \in Asynchronous => (Receives(p, f) <=> p.localEntry)

LEMMA SameIsOK ==
  ASSUME NEW p, NEW q, NEW f, NEW object, Kept(p, q), Same(p, q, f)
  PROVE  /\ Draft(q, f) <=> Draft(p, f)
         /\ Shaped(q, f, object) <=> Shaped(p, f, object)
         /\ FrontOK(q, f, object) <=> FrontOK(p, f, object)
         /\ HasObject(q, f) <=> HasObject(p, f)
         /\ HasAdapter(q, f) <=> HasAdapter(p, f)
<1>1. UpToDate(q, f) <=> UpToDate(p, f)
  BY SameIsUpToDate
<1>2. Draft(q, f) <=> Draft(p, f)
  BY DEF Same, SameLocal, SameRequests, Draft, Silent, BinderOK
<1>3. Shaped(q, f, object) <=> Shaped(p, f, object)
  BY <1>2 DEF Same, SameLocal, Shaped
<1>4. /\ HasObject(q, f) <=> HasObject(p, f)
      /\ HasAdapter(q, f) <=> HasAdapter(p, f)
  BY DEF Kept, Same, SameLocal, HasObject, HasAdapter
<1>. QED  BY <1>1, <1>2, <1>3, <1>4 DEF FrontOK

LEMMA RefreshedOK ==
  ASSUME NEW p \in Processes, NEW q, NEW f \in FrontEnd, NEW object,
         Draft(p, f), Refreshed(p, q, f),
         p.fronts[f].provider => object = "service"
  PROVE  /\ Shaped(q, f, object)
         /\ HasObject(p, f) => HasObject(q, f)
         /\ HasAdapter(p, f) => HasAdapter(q, f)
<1>. DEFINE x == p.fronts[f]
            y == q.fronts[f]
<1>1. /\ y.provider = x.provider
      /\ IF f \in Asynchronous /\ p.localEntry /\ ~Receives(p, f)
         THEN Receives(q, f) /\ Pending(q, f) ELSE SameLocal(p, q, f)
      /\ Kept(p, q)
  BY DEF Refreshed, Concerns
<1>2. /\ x.provider \/ Receives(q, f) =>
           /\ ~y.enabled /\ y.wrapped = IF x.provider THEN "service" ELSE "local"
           /\ SameBinder(x, y) /\ SameRequests(p, q, f)
      /\ ~(x.provider \/ Receives(q, f)) =>
           /\ y.enabled /\ y.started
           /\ y.wrapped = IF y.available THEN "dbus" ELSE "default"
           /\ \/ Bound(p, q, f) /\ p.replica # NoServer
              \/ SameBinder(x, y) /\ SameRequests(p, q, f)
  BY Zenon DEF Refreshed
<1>3. Draft(q, f)
  <2>1. BinderOK(q, f)
    BY <1>2 DEF Draft, BinderOK, Bound, SameBinder
  <2>2. ASSUME f \notin Asynchronous
        PROVE  Silent(q, f)
    BY <1>1, <1>2, <2>2 DEF Draft, Silent, Bound, SameLocal, SameRequests
  <2>. QED  BY <1>1, <2>1, <2>2 DEF Draft
<1>4. Shaped(q, f, object)
  <2>1. f \notin Asynchronous => ~Receives(q, f)
    BY <1>3 DEF Draft, Silent
  <2>2. f \in Asynchronous => ~x.provider
    BY DEF Draft
  <2>. QED  BY <1>1, <1>2, <1>3, <2>1, <2>2 DEF Shaped
<1>5. /\ HasObject(p, f) => HasObject(q, f)
      /\ HasAdapter(p, f) => HasAdapter(q, f)
  BY <1>1 DEF HasObject, HasAdapter, Kept, SameLocal
<1>. QED  BY <1>4, <1>5

LEMMA RefreshProviderOK ==
  ASSUME NEW p \in Processes, NEW f \in FrontEnd, NEW object,
         Draft(p, f), UpToDate(p, f), p.fronts[f].provider => object = "service"
  PROVE  LET q == RefreshProvider(p, f)
         IN  /\ Refreshed(p, q, f) /\ FrontOK(q, f, object)
             /\ HasObject(p, f) => HasObject(q, f)
             /\ HasAdapter(p, f) => HasAdapter(q, f)
<1>. DEFINE q == RefreshProvider(p, f)
<1>1. Refreshed(p, q, f) /\ UpToDate(q, f)
  BY RefreshProviderIs
<1>. HIDE DEF q
<1>2. /\ Shaped(q, f, object)
      /\ HasObject(p, f) => HasObject(q, f)
      /\ HasAdapter(p, f) => HasAdapter(q, f)
  BY <1>1, RefreshedOK
<1>. QED  BY <1>1, <1>2 DEF q, FrontOK

-----------------------------------------------------------------------------
(***************************************************************************)
(* Slots.                                                                  *)
(***************************************************************************)
LEMMA DisconnectedIs ==
  ASSUME NEW Key, NEW s \in Seq(Key), NEW key \in ToSet(s), IsInjective(s)
  PROVE  /\ Disconnected(s, key) \in Seq(Key)
         /\ Len(Disconnected(s, key)) = Len(s) - 1
         /\ IsInjective(Disconnected(s, key))
         /\ ToSet(Disconnected(s, key)) = ToSet(s) \ {key}
<1>. DEFINE k == CHOOSE n \in DOMAIN s : s[n] = key
            t == Disconnected(s, key)
<1>1. Len(s) \in Nat /\ DOMAIN s = 1 .. Len(s)
  BY LenProperties
<1>2. k \in 1 .. Len(s) /\ s[k] = key
  BY <1>1 DEF ToSet
<1>3. t = SubSeq(s, 1, k - 1) \o SubSeq(s, k + 1, Len(s))
  BY DEF Disconnected, RemoveAt
<1>. HIDE DEF k, t
<1>4. /\ SubSeq(s, 1, k - 1) \in Seq(Key) /\ Len(SubSeq(s, 1, k - 1)) = k - 1
      /\ \A i \in 1 .. k - 1 : SubSeq(s, 1, k - 1)[i] = s[i]
  BY <1>1, <1>2, SubSeqProperties
<1>5. /\ SubSeq(s, k + 1, Len(s)) \in Seq(Key) /\ Len(SubSeq(s, k + 1, Len(s))) = Len(s) - k
      /\ \A i \in 1 .. Len(s) - k : SubSeq(s, k + 1, Len(s))[i] = s[i + k]
  <2>. DEFINE m == k + 1
              n == Len(s)
  <2>1. m \in Int /\ n \in Int /\ \A i \in m .. n : s[i] \in Key
    BY <1>1, <1>2
  <2>. HIDE DEF m, n
  <2>2. /\ SubSeq(s, m, n) \in Seq(Key)
        /\ Len(SubSeq(s, m, n)) = IF m <= n THEN n - m + 1 ELSE 0
        /\ \A i \in 1 .. n - m + 1 : SubSeq(s, m, n)[i] = s[m + i - 1]
    BY <2>1, SubSeqProperties
  <2>3. /\ n - m + 1 = Len(s) - k
        /\ (IF m <= n THEN n - m + 1 ELSE 0) = Len(s) - k
        /\ \A i \in 1 .. Len(s) - k : m + i - 1 = i + k
    <3>1. n - m + 1 = Len(s) - k
      BY <1>1, <1>2 DEF m, n
    <3>2. (IF m <= n THEN n - m + 1 ELSE 0) = Len(s) - k
      <4>1. CASE m <= n
        BY <3>1, <4>1
      <4>2. CASE ~(m <= n)
        <5>0. m = k + 1 /\ n = Len(s) /\ k \in Int /\ Len(s) \in Int /\ k <= Len(s)
          BY <1>1, <1>2 DEF m, n
        <5>1. Len(s) - k = 0
          BY <4>2, <5>0
        <5>. QED  BY <4>2, <5>1
      <4>. QED  BY <4>1, <4>2
    <3>3. ASSUME NEW i \in 1 .. Len(s) - k PROVE m + i - 1 = i + k
      BY <1>1, <1>2 DEF m, n
    <3>. QED  BY <3>1, <3>2, <3>3
  <2>4. /\ SubSeq(s, m, n) \in Seq(Key)
        /\ Len(SubSeq(s, m, n)) = Len(s) - k
        /\ \A i \in 1 .. Len(s) - k : SubSeq(s, m, n)[i] = s[i + k]
    BY <2>2, <2>3
  <2>. QED  BY <2>4 DEF m, n
<1>6. /\ t \in Seq(Key) /\ Len(t) = Len(s) - 1
      /\ \A i \in 1 .. k - 1 : t[i] = s[i]
      /\ \A i \in k .. Len(s) - 1 : t[i] = s[i + 1]
  <2>. DEFINE left == SubSeq(s, 1, k - 1)
              right == SubSeq(s, k + 1, Len(s))
  <2>. HIDE DEF left, right
  <2>1. /\ t = left \o right
        /\ left \in Seq(Key) /\ Len(left) = k - 1 /\ \A i \in 1 .. k - 1 : left[i] = s[i]
        /\ right \in Seq(Key) /\ Len(right) = Len(s) - k
        /\ \A i \in 1 .. Len(s) - k : right[i] = s[i + k]
    BY <1>3, <1>4, <1>5 DEF left, right
  <2>2. /\ t \in Seq(Key) /\ Len(t) = Len(s) - 1
        /\ \A i \in 1 .. Len(s) - 1 :
             t[i] = IF i <= k - 1 THEN left[i] ELSE right[i - (k - 1)]
    <3>1. Len(left) + Len(right) = Len(s) - 1
      BY <1>1, <1>2, <2>1
    <3>2. /\ left \o right \in Seq(Key) /\ Len(left \o right) = Len(left) + Len(right)
          /\ \A i \in 1 .. Len(left) + Len(right) :
               (left \o right)[i] = IF i <= Len(left) THEN left[i] ELSE right[i - Len(left)]
      BY <2>1, ConcatProperties
    <3>. QED  BY <2>1, <3>1, <3>2
  <2>3. ASSUME NEW i \in k .. Len(s) - 1 PROVE t[i] = s[i + 1]
    <3>1. i \in 1 .. Len(s) - 1 /\ ~(i <= k - 1) /\ i - (k - 1) \in 1 .. Len(s) - k
      BY <1>1, <1>2
    <3>2. (i - (k - 1)) + k = i + 1
      BY <1>1, <1>2
    <3>. QED  BY <2>1, <2>2, <3>1, <3>2
  <2>4. ASSUME NEW i \in 1 .. k - 1 PROVE t[i] = s[i]
    <3>1. i \in 1 .. Len(s) - 1 /\ i <= k - 1
      BY <1>1, <1>2
    <3>. QED  BY <2>1, <2>2, <3>1
  <2>. QED  BY <2>2, <2>3, <2>4
<1>7. DOMAIN t = 1 .. Len(s) - 1
  BY <1>6, LenProperties
<1>8. \A i \in 1 .. Len(s) - 1 :
        \E j \in 1 .. Len(s) \ {k} : t[i] = s[j] /\ j = (IF i < k THEN i ELSE i + 1)
  BY <1>1, <1>2, <1>6
<1>9. IsInjective(t)
  BY <1>1, <1>2, <1>7, <1>8 DEF IsInjective
<1>10. ToSet(t) = ToSet(s) \ {key}
  <2>1. ASSUME NEW i \in 1 .. Len(s) - 1 PROVE t[i] \in ToSet(s) \ {key}
    BY <1>1, <1>2, <1>8 DEF ToSet, IsInjective
  <2>2. ASSUME NEW j \in 1 .. Len(s), s[j] # key PROVE s[j] \in ToSet(t)
    <3>1. PICK i \in 1 .. Len(s) - 1 : t[i] = s[j]
      <4>1. CASE j < k
        <5>1. j \in 1 .. k - 1 /\ j \in 1 .. Len(s) - 1
          BY <1>1, <1>2, <4>1
        <5>. QED  BY <1>6, <5>1
      <4>2. CASE j > k
        <5>1. j - 1 \in k .. Len(s) - 1 /\ j - 1 \in 1 .. Len(s) - 1 /\ (j - 1) + 1 = j
          BY <1>1, <1>2, <4>2
        <5>. QED  BY <1>6, <5>1
      <4>3. j # k
        BY <1>2, <2>2
      <4>. QED  BY <1>1, <1>2, <4>1, <4>2, <4>3
    <3>. QED  BY <1>7, <3>1 DEF ToSet
  <2>. QED  BY <1>1, <1>7, <2>1, <2>2 DEF ToSet
<1>. QED  BY <1>6, <1>9, <1>10 DEF t


LEMMA ItselfConcerns ==
  ASSUME NEW p \in Processes, NEW f
  PROVE  Concerns(p, p, f) /\ Same(p, p, f)
<1>1. \A g : Same(p, p, g)
  BY SameIsReflexive
<1>. QED  BY <1>1 DEF Concerns, Kept

\* The D-Bus binder of f is what it was, or has been bound for the first time.
MayBind(p, q, f) ==
  LET x == p.fronts[f]
      y == q.fronts[f]
  IN  /\ \/ SameBinder(x, y) /\ SameRequests(p, q, f)
         \/ ~x.started /\ p.replica # NoServer /\ Bound(p, q, f) /\ y.enabled
      /\ y.started # x.started => y.enabled /\ y.started

LEMMA RefreshedMayBind ==
  ASSUME NEW p \in Processes, NEW q \in Processes, NEW f \in FrontEnd, Refreshed(p, q, f)
  PROVE  MayBind(p, q, f)
BY Zenon DEF Refreshed, MayBind

LEMMA MayBindSubscribes ==
  ASSUME NEW p, NEW q, NEW f, MayBind(p, q, f), Subscribed(p, f)
  PROVE  Subscribed(q, f)
BY DEF MayBind, SameBinder, Bound, Subscribed

Provided(p, f) == SetFront(p, f, [p.fronts[f] EXCEPT !.provider = p.manager])

LEMMA ProvidedIs ==
  ASSUME NEW p \in Processes, NEW f \in FrontEnd
  PROVE  LET q == Provided(p, f)
             x == p.fronts[f]
             y == q.fronts[f]
         IN  /\ Concerns(p, q, f) /\ SameLocal(p, q, f) /\ SameRequests(p, q, f)
             /\ y.provider = p.manager /\ SameBinder(x, y) /\ y.started = x.started
             /\ y.enabled = x.enabled
             /\ UpToDate(q, f) <=> UpToDate(p, f)
<1>. DEFINE q == Provided(p, f)
            x == p.fronts[f]
            z == [x EXCEPT !.provider = p.manager]
<1>1. x \in FrontStates /\ p.manager \in BOOLEAN
  BY FrontOf, ProcessFields
<1>. HIDE DEF x
<1>2. z \in FrontStates /\ SameStates(x, z)
  BY <1>1 DEF FrontStates, SameStates
<1>3. z.provider = p.manager /\ SameBinder(x, z) /\ z.started = x.started
      /\ z.enabled = x.enabled
  BY <1>1 DEF FrontStates, SameBinder
<1>4. q = SetFront(p, f, z)
  BY DEF Provided, x
<1>. HIDE DEF q, z
<1>5. /\ Concerns(p, q, f) /\ SameLocal(p, q, f) /\ SameRequests(p, q, f)
      /\ q.fronts[f] = z
      /\ UpToDate(q, f) <=> UpToDate(p, f)
  BY <1>2, <1>4, FrontChanges DEF x
<1>. QED  BY <1>3, <1>5 DEF q, x

LEMMA CheckLocalAdapterConcerns ==
  ASSUME NEW p \in Processes, NEW f \in FrontEnd
  PROVE  LET q == CheckLocalAdapter(p, f)
         IN  /\ Concerns(p, q, f)
             /\ IF f \notin Asynchronous /\ p.fronts[f].provider # p.manager
                THEN q = RefreshProvider(Provided(p, f), f) ELSE q = p
<1>. DEFINE q == CheckLocalAdapter(p, f)
            a == Provided(p, f)
<1>1. CASE f \notin Asynchronous /\ p.fronts[f].provider # p.manager
  <2>1. q = RefreshProvider(a, f)
    <3>1. a = [p EXCEPT !.fronts[f].provider = p.manager]
      BY FrontOf DEF Provided, SetFront, Processes, FrontStates
    <3>. HIDE DEF a
    <3>. QED  BY <1>1, <3>1 DEF CheckLocalAdapter
  <2>. HIDE DEF q, a
  <2>2. Concerns(p, a, f)
    BY ProvidedIs DEF a
  <2>3. Concerns(a, q, f)
    BY <2>1, <2>2, RefreshProviderIs DEF Concerns, Refreshed
  <2>4. Concerns(p, q, f)
    BY <2>2, <2>3, ConcernsIsTransitive
  <2>. QED  BY <1>1, <2>1, <2>4 DEF q, a
<1>2. CASE ~(f \notin Asynchronous /\ p.fronts[f].provider # p.manager)
  <2>1. q = p
    BY <1>2 DEF CheckLocalAdapter
  <2>. HIDE DEF q
  <2>. QED  BY <1>2, <2>1, ItselfConcerns DEF q
<1>. QED  BY <1>1, <1>2

\* checkLocalAdapter(): the object may be another one when the binder loses it.
LEMMA CheckLocalAdapterOK ==
  ASSUME NEW p \in Processes, NEW f \in FrontEnd, NEW object, NEW object2,
         FrontOK(p, f, object),
         p.manager => object = "service" /\ object2 = "service"
  PROVE  LET q == CheckLocalAdapter(p, f)
         IN  /\ FrontOK(q, f, object2) /\ HasObject(q, f)
             /\ HasAdapter(p, f) => HasAdapter(q, f)
             /\ MayBind(p, q, f)
             /\ f \in Asynchronous => q = p
<1>. DEFINE q == CheckLocalAdapter(p, f)
            a == Provided(p, f)
            x == p.fronts[f]
<1>1. CASE f \notin Asynchronous /\ x.provider # p.manager
  <2>1. q = RefreshProvider(a, f)
    BY <1>1, CheckLocalAdapterConcerns
  <2>2. /\ Concerns(p, a, f) /\ SameLocal(p, a, f) /\ SameRequests(p, a, f)
        /\ a.fronts[f].provider = p.manager /\ SameBinder(x, a.fronts[f])
        /\ a.fronts[f].started = x.started
        /\ UpToDate(a, f)
    BY ProvidedIs DEF FrontOK
  <2>. HIDE DEF a, q, x
  <2>3. a \in Processes /\ Kept(p, a)
    BY <2>2 DEF Concerns
  <2>4. Draft(a, f) /\ HasObject(a, f) /\ (a.fronts[f].provider => object2 = "service")
    <3>1. Draft(p, f)
      BY DEF FrontOK, Shaped
    <3>2. Draft(a, f)
      BY <1>1, <2>2, <3>1
         DEF Draft, Silent, BinderOK, SameLocal, SameRequests, SameBinder, x
    <3>3. HasObject(a, f)
      BY <1>1, <2>2, <2>3 DEF HasObject, Kept
    <3>. QED  BY <2>2, <3>2, <3>3
  <2>5. /\ Refreshed(a, q, f) /\ FrontOK(q, f, object2) /\ HasObject(q, f)
    BY <2>1, <2>2, <2>3, <2>4, RefreshProviderOK
  <2>6. q \in Processes
    BY <2>5 DEF Refreshed, Concerns
  <2>7. MayBind(a, q, f)
    BY <2>3, <2>5, <2>6, RefreshedMayBind
  <2>8. MayBind(p, q, f)
    BY <2>2, <2>3, <2>7
       DEF MayBind, SameBinder, SameRequests, Kept, Bound, x
  <2>. QED  BY <1>1, <2>5, <2>8 DEF q, HasAdapter
<1>2. CASE ~(f \notin Asynchronous /\ x.provider # p.manager)
  <2>1. q = p
    BY <1>2, CheckLocalAdapterConcerns
  <2>. HIDE DEF q
  <2>2. HasObject(p, f)
    BY <1>2 DEF HasObject
  <2>3. FrontOK(p, f, object2)
    BY <1>2, <2>2 DEF FrontOK, Shaped, Draft, HasObject
  <2>4. MayBind(p, p, f)
    BY DEF MayBind, SameBinder, SameRequests
  <2>. QED  BY <2>1, <2>2, <2>3, <2>4, <1>1 DEF q
<1>. QED  BY <1>1, <1>2

Unplugged(p, f) == SetLists(p, Disconnected(p.receivers, f), p.timers)

LEMMA UnpluggedIs ==
  ASSUME NEW p \in Processes, NEW f \in FrontEnd, Receives(p, f), IsInjective(p.receivers)
  PROVE  LET q == Unplugged(p, f)
         IN  /\ Concerns(p, q, f) /\ q.fronts = p.fronts /\ SameRequests(p, q, f)
             /\ ~Receives(q, f)
             /\ UpToDate(q, f) <=> UpToDate(p, f)
<1>. DEFINE q == Unplugged(p, f)
            a == Disconnected(p.receivers, f)
<1>1. a \in Seq(FrontEnd) /\ IsInjective(a) /\ ToSet(a) = ToSet(p.receivers) \ {f}
  BY ProcessFields, DisconnectedIs DEF Receives
<1>. HIDE DEF a
<1>2. /\ q \in Processes /\ Kept(p, q) /\ q.fronts = p.fronts
      /\ q.receivers = a /\ q.timers = p.timers /\ q.requests = p.requests
      /\ q.unaware = p.unaware /\ q.overtaken = p.overtaken
  BY <1>1, ProcessFields, ListsAre DEF Unplugged, a
<1>. HIDE DEF q
<1>3. \A g : SameRequests(p, q, g)
  BY <1>2 DEF SameRequests, Asks
<1>4. ~Receives(q, f) /\ \A g \in FrontEnd \ {f} : SameLocal(p, q, g)
  BY <1>1, <1>2 DEF SameLocal, Receives, Pending
<1>5. Concerns(p, q, f)
  BY <1>1, <1>2, <1>3, <1>4 DEF Concerns, Same
<1>6. UpToDate(q, f) <=> UpToDate(p, f)
  BY <1>2, OfferDepends DEF Kept
<1>. QED  BY <1>2, <1>3, <1>4, <1>5, <1>6 DEF q

LEMMA CheckServiceAvailabilityConcerns ==
  ASSUME NEW p \in Processes, NEW f \in FrontEnd, IsInjective(p.receivers)
  PROVE  LET q == CheckServiceAvailability(p, f)
         IN  /\ Concerns(p, q, f)
             /\ q = IF f \in Asynchronous /\ p.localEntry THEN BindLocal(p, f)
                    ELSE IF Receives(p, f) THEN RefreshProvider(Unplugged(p, f), f) ELSE p
<1>. DEFINE q == CheckServiceAvailability(p, f)
            a == Unplugged(p, f)
<1>1. q = IF f \in Asynchronous /\ p.localEntry THEN BindLocal(p, f)
          ELSE IF Receives(p, f) THEN RefreshProvider(a, f) ELSE p
  <2>1. a = [p EXCEPT !.receivers = Disconnected(@, f)]
    BY DEF Unplugged, SetLists, Processes
  <2>. HIDE DEF a
  <2>. QED  BY <2>1 DEF CheckServiceAvailability, Receives
<1>. HIDE DEF q, a
<1>2. CASE f \in Asynchronous /\ p.localEntry
  <2>1. q = BindLocal(p, f)
    BY <1>1, <1>2
  <2>. QED  BY <1>1, <2>1, BindLocalIs DEF q, a
<1>3. CASE ~(f \in Asynchronous /\ p.localEntry) /\ Receives(p, f)
  <2>1. q = RefreshProvider(a, f)
    BY <1>1, <1>3
  <2>2. Concerns(p, a, f)
    BY <1>3, UnpluggedIs DEF a
  <2>3. Concerns(a, q, f)
    BY <2>1, <2>2, RefreshProviderIs DEF Concerns, Refreshed
  <2>. QED  BY <1>1, <2>2, <2>3, ConcernsIsTransitive DEF q, a
<1>4. CASE ~(f \in Asynchronous /\ p.localEntry) /\ ~Receives(p, f)
  <2>1. q = p
    BY <1>1, <1>4
  <2>. QED  BY <1>1, <2>1, ItselfConcerns DEF q, a
<1>. QED  BY <1>2, <1>3, <1>4

\* checkServiceAvailability(): the binder connects to the adapter, or has
\* lost it and the front end takes another provider.
LEMMA CheckServiceAvailabilityOK ==
  ASSUME NEW p \in Processes, NEW f \in FrontEnd, NEW object, IsInjective(p.receivers),
         FrontOK(p, f, object)
  PROVE  LET q == CheckServiceAvailability(p, f)
         IN  /\ FrontOK(q, f, object) /\ HasAdapter(q, f)
             /\ HasObject(p, f) => HasObject(q, f)
             /\ MayBind(p, q, f)
             /\ p.localEntry \/ ~Receives(p, f) => q.fronts[f] = p.fronts[f]
             /\ f \notin Asynchronous => q = p
<1>. DEFINE q == CheckServiceAvailability(p, f)
            a == Unplugged(p, f)
<1>1. /\ Concerns(p, q, f)
      /\ q = IF f \in Asynchronous /\ p.localEntry THEN BindLocal(p, f)
             ELSE IF Receives(p, f) THEN RefreshProvider(a, f) ELSE p
  BY CheckServiceAvailabilityConcerns
<1>. HIDE DEF q, a
<1>2. f \notin Asynchronous => ~Receives(p, f)
  BY DEF FrontOK, Shaped, Draft, Silent
<1>3. CASE f \in Asynchronous /\ p.localEntry
  <2>1. q = BindLocal(p, f)
    BY <1>1, <1>3
  <2>2. /\ Concerns(p, q, f) /\ q.fronts = p.fronts /\ SameRequests(p, q, f)
        /\ UpToDate(q, f)
        /\ Receives(q, f) /\ ((Receives(p, f) /\ q = p) \/ Pending(q, f))
    BY <1>3, <2>1, BindLocalIs DEF FrontOK
  <2>3. Shaped(q, f, object)
    <3>1. Draft(q, f)
      BY <1>3, <2>2 DEF FrontOK, Shaped, Draft, BinderOK
    <3>. QED  BY <1>3, <2>2, <3>1 DEF FrontOK, Shaped
  <2>4. HasAdapter(q, f) /\ HasObject(q, f) /\ MayBind(p, q, f)
    BY <1>3, <2>2 DEF HasAdapter, HasObject, MayBind, Concerns, Kept, SameBinder
  <2>. QED  BY <1>3, <2>2, <2>3, <2>4 DEF q, FrontOK
<1>4. CASE ~(f \in Asynchronous /\ p.localEntry) /\ Receives(p, f)
  <2>1. q = RefreshProvider(a, f)
    BY <1>1, <1>4
  <2>2. /\ Concerns(p, a, f) /\ a.fronts = p.fronts /\ SameRequests(p, a, f)
        /\ ~Receives(a, f) /\ UpToDate(a, f)
    BY <1>4, UnpluggedIs DEF a, FrontOK
  <2>3. a \in Processes /\ Kept(p, a) /\ f \in Asynchronous /\ ~a.localEntry
    BY <1>2, <1>4, <2>2 DEF Concerns, Kept
  <2>4. Draft(a, f) /\ ~a.fronts[f].provider
    BY <2>2, <2>3 DEF FrontOK, Shaped, Draft, BinderOK
  <2>5. HasAdapter(a, f) /\ HasObject(a, f)
    BY <2>2, <2>3 DEF HasAdapter, HasObject
  <2>6. /\ Refreshed(a, q, f) /\ FrontOK(q, f, object) /\ HasObject(q, f)
        /\ HasAdapter(q, f)
    BY <2>1, <2>2, <2>3, <2>4, <2>5, RefreshProviderOK
  <2>7. MayBind(a, q, f)
    BY <1>1, <2>3, <2>6, RefreshedMayBind DEF Concerns
  <2>8. MayBind(p, q, f)
    BY <2>2, <2>3, <2>7 DEF MayBind, SameRequests, Kept, Bound
  <2>. QED  BY <1>4, <2>3, <2>6, <2>8 DEF q
<1>5. CASE ~(f \in Asynchronous /\ p.localEntry) /\ ~Receives(p, f)
  <2>1. q = p
    BY <1>1, <1>5
  <2>2. MayBind(p, p, f)
    BY DEF MayBind, SameBinder, SameRequests
  <2>. QED  BY <1>5, <2>1, <2>2 DEF q, HasAdapter
<1>. QED  BY <1>2, <1>3, <1>4, <1>5

Unlinked(p, f) ==
  LET x == p.fronts[f]
  IN  SetFront(p, f, [x EXCEPT !.available = FALSE, !.subscribed = x.subscribed \ {x.server},
                               !.outdated = FALSE])

LEMMA UnlinkedIs ==
  ASSUME NEW p \in Processes, NEW f \in FrontEnd
  PROVE  LET q == Unlinked(p, f)
             x == p.fronts[f]
             y == q.fronts[f]
         IN  /\ Concerns(p, q, f) /\ SameLocal(p, q, f) /\ SameRequests(p, q, f)
             /\ SameRole(x, y) /\ y.enabled = x.enabled /\ y.wrapped = x.wrapped
             /\ ~y.available /\ ~y.outdated /\ y.server = x.server
             /\ UpToDate(q, f) <=> UpToDate(p, f)
<1>. DEFINE q == Unlinked(p, f)
            x == p.fronts[f]
            s == x.subscribed \ {x.server}
            z == [x EXCEPT !.available = FALSE, !.subscribed = s, !.outdated = FALSE]
<1>1. x \in FrontStates /\ s \in SUBSET Server
  BY FrontOf, FrontFields
<1>2. q = SetFront(p, f, z)
  BY DEF Unlinked
<1>. HIDE DEF q, s, x
<1>3. z \in FrontStates
  <2>. DEFINE a == [x EXCEPT !.available = FALSE]
              b == [a EXCEPT !.subscribed = s]
  <2>1. a \in FrontStates
    BY <1>1 DEF FrontStates
  <2>. HIDE DEF a
  <2>2. b \in FrontStates
    BY <1>1, <2>1 DEF FrontStates
  <2>. HIDE DEF b
  <2>3. [b EXCEPT !.outdated = FALSE] \in FrontStates
    BY <2>2 DEF FrontStates
  <2>4. z = [b EXCEPT !.outdated = FALSE]
    BY <1>1 DEF FrontStates, a, b
  <2>. QED  BY <2>3, <2>4
<1>4. /\ SameRole(x, z) /\ z.enabled = x.enabled /\ z.wrapped = x.wrapped
      /\ ~z.available /\ ~z.outdated /\ z.server = x.server /\ SameStates(x, z)
  BY <1>1 DEF FrontStates, SameRole, SameStates
<1>. HIDE DEF z
<1>5. /\ Concerns(p, q, f) /\ SameLocal(p, q, f) /\ SameRequests(p, q, f)
      /\ q.fronts[f] = z
      /\ UpToDate(q, f) <=> UpToDate(p, f)
  BY <1>2, <1>3, <1>4, FrontChanges DEF x
<1>. QED  BY <1>4, <1>5 DEF q, x

\* A change of the binder that does not change its availability.
Marked(p, f, server, outdated) ==
  SetFront(p, f, [p.fronts[f] EXCEPT !.server = server, !.outdated = outdated])

LEMMA MarkedIs ==
  ASSUME NEW p \in Processes, NEW f \in FrontEnd,
         NEW server \in Server \union {NoServer}, NEW outdated \in BOOLEAN
  PROVE  LET q == Marked(p, f, server, outdated)
             x == p.fronts[f]
             y == q.fronts[f]
         IN  /\ Concerns(p, q, f) /\ SameLocal(p, q, f) /\ SameRequests(p, q, f)
             /\ SameRole(x, y) /\ y.enabled = x.enabled /\ y.wrapped = x.wrapped
             /\ y.available = x.available /\ y.outdated = outdated /\ y.server = server
             /\ y.subscribed = x.subscribed
             /\ UpToDate(q, f) <=> UpToDate(p, f)
<1>. DEFINE x == p.fronts[f]
            z == [x EXCEPT !.server = server, !.outdated = outdated]
            q == Marked(p, f, server, outdated)
<1>1. x \in FrontStates
  BY FrontOf
<1>. HIDE DEF x
<1>2. z \in FrontStates
  <2>. DEFINE a == [x EXCEPT !.server = server]
  <2>1. a \in FrontStates
    BY <1>1 DEF FrontStates
  <2>. HIDE DEF a
  <2>2. [a EXCEPT !.outdated = outdated] \in FrontStates
    BY <2>1 DEF FrontStates
  <2>3. z = [a EXCEPT !.outdated = outdated]
    BY <1>1 DEF FrontStates, a
  <2>. QED  BY <2>2, <2>3
<1>3. /\ SameRole(x, z) /\ z.enabled = x.enabled /\ z.wrapped = x.wrapped
      /\ z.available = x.available /\ z.outdated = outdated /\ z.server = server
      /\ z.subscribed = x.subscribed /\ SameStates(x, z)
  BY <1>1 DEF FrontStates, SameRole, SameStates
<1>4. q = SetFront(p, f, z)
  BY DEF Marked, x
<1>. HIDE DEF z, q
<1>5. /\ Concerns(p, q, f) /\ SameLocal(p, q, f) /\ SameRequests(p, q, f)
      /\ q.fronts[f] = z
      /\ UpToDate(q, f) <=> UpToDate(p, f)
  BY <1>2, <1>3, <1>4, FrontChanges DEF x
<1>. QED  BY <1>3, <1>5 DEF q, x

\* UnbindDBus(p, f) has the binder unlinked, perhaps another provider, and
\* no server.
LEMMA UnbindDBusIs ==
  ASSUME NEW p \in Processes, NEW f \in FrontEnd
  PROVE  LET a == Unlinked(p, f)
             r == IF p.fronts[f].available THEN RefreshProvider(a, f) ELSE a
         IN  /\ Concerns(p, r, f)
             /\ UnbindDBus(p, f) =
                  Marked(r, f, NoServer, r.fronts[f].outdated)
<1>. DEFINE a == Unlinked(p, f)
            r == IF p.fronts[f].available THEN RefreshProvider(a, f) ELSE a
            z == [r.fronts[f] EXCEPT !.server = NoServer, !.outdated = r.fronts[f].outdated]
<1>1. Concerns(p, a, f)
  BY UnlinkedIs
<1>2. a = [p EXCEPT !.fronts[f].available = FALSE,
                    !.fronts[f].subscribed = @ \ {p.fronts[f].server},
                    !.fronts[f].outdated = FALSE]
  BY FrontOf DEF Unlinked, SetFront, Processes, FrontStates
<1>. HIDE DEF a
<1>3. UnbindDBus(p, f) = [r EXCEPT !.fronts[f].server = NoServer]
  BY <1>2 DEF UnbindDBus
<1>4. Concerns(p, r, f)
  <2>1. CASE p.fronts[f].available
    <3>1. Concerns(a, RefreshProvider(a, f), f)
      BY <1>1, RefreshProviderIs DEF Concerns, Refreshed
    <3>. QED  BY <1>1, <2>1, <3>1, ConcernsIsTransitive
  <2>2. CASE ~p.fronts[f].available
    BY <1>1, <2>2
  <2>. QED  BY <2>1, <2>2
<1>. HIDE DEF r
<1>5. r \in Processes /\ r.fronts[f] \in FrontStates
  BY <1>4, FrontOf DEF Concerns
<1>6. [r EXCEPT !.fronts[f].server = NoServer] = SetFront(r, f, z)
  BY <1>5 DEF SetFront, Processes, FrontStates
<1>7. SetFront(r, f, z) = Marked(r, f, NoServer, r.fronts[f].outdated)
  BY DEF Marked
<1>. QED  BY <1>3, <1>4, <1>6, <1>7 DEF r, a

Outdated(p, f) == Marked(p, f, p.fronts[f].server, TRUE)

LEMMA CheckRegistryConcerns ==
  ASSUME NEW p \in Processes, NEW f \in FrontEnd
  PROVE  LET q == CheckRegistry(p, f)
             x == p.fronts[f]
             b == BindDBus(p, f)
         IN  /\ Concerns(p, q, f)
             /\ ~x.started => q = p
             /\ x.started /\ ~x.enabled => q = Outdated(p, f)
             /\ x.started /\ x.enabled /\ p.replica \notin {NoServer, x.server} =>
                  q = IF b.fronts[f].available # x.available THEN RefreshProvider(b, f) ELSE b
             /\ x.started /\ x.enabled /\ p.replica \in {NoServer, x.server} =>
                  q = IF p.replica # x.server THEN UnbindDBus(p, f) ELSE p
<1>. DEFINE q == CheckRegistry(p, f)
            x == p.fronts[f]
            b == BindDBus(p, f)
<1>1. x \in FrontStates /\ p.replica \in Server \union {NoServer}
  BY FrontOf, ProcessFields
<1>2. x.server \in Server \union {NoServer} /\ x.outdated \in BOOLEAN
      /\ x.started \in BOOLEAN /\ x.enabled \in BOOLEAN
  BY <1>1, FrontFields
<1>3. CASE ~x.started
  <2>1. q = p
    BY <1>3 DEF CheckRegistry
  <2>. HIDE DEF q
  <2>. QED  BY <1>3, <2>1, ItselfConcerns DEF q
<1>4. CASE x.started /\ ~x.enabled
  <2>1. q = [p EXCEPT !.fronts[f].outdated = TRUE]
    BY <1>4 DEF CheckRegistry
  <2>2. q = Outdated(p, f)
    BY <1>1, <2>1 DEF Outdated, Marked, SetFront, Processes, FrontStates
  <2>. HIDE DEF q, x, b
  <2>3. Concerns(p, q, f)
    BY <1>2, <2>2, MarkedIs DEF Outdated, x
  <2>. QED  BY <1>4, <2>2, <2>3 DEF q, x
<1>5. CASE x.started /\ x.enabled /\ p.replica \notin {NoServer, x.server}
  <2>1. q = IF b.fronts[f].available # x.available THEN RefreshProvider(b, f) ELSE b
    BY <1>5 DEF CheckRegistry
  <2>. HIDE DEF q, b, x
  <2>2. p.replica \in Server
    BY <1>1, <1>5
  <2>3. Concerns(p, b, f)
    BY <2>2, BindDBusIs DEF b
  <2>4. Concerns(b, RefreshProvider(b, f), f)
    BY <2>3, RefreshProviderIs DEF Concerns, Refreshed
  <2>5. Concerns(p, q, f)
    BY <2>1, <2>3, <2>4, ConcernsIsTransitive
  <2>. QED  BY <1>5, <2>1, <2>5 DEF q, x, b
<1>6. CASE x.started /\ x.enabled /\ p.replica \in {NoServer, x.server}
  <2>1. q = IF p.replica # x.server THEN UnbindDBus(p, f) ELSE p
    <3>. HIDE DEF x, b
    <3>1. CASE p.replica = x.server
      BY <1>6, <3>1 DEF CheckRegistry, x, NoServer
    <3>2. CASE p.replica # x.server
      BY <1>6, <3>2 DEF CheckRegistry, x, NoServer
    <3>. QED  BY <3>1, <3>2
  <2>. HIDE DEF q, b, x
  <2>2. Concerns(p, UnbindDBus(p, f), f)
    <3>. DEFINE r == IF p.fronts[f].available THEN RefreshProvider(Unlinked(p, f), f)
                     ELSE Unlinked(p, f)
                y == r.fronts[f]
                u == UnbindDBus(p, f)
    <3>1. /\ Concerns(p, r, f)
          /\ u = Marked(r, f, NoServer, y.outdated)
      BY UnbindDBusIs
    <3>. HIDE DEF r, u
    <3>2. r \in Processes /\ y.outdated \in BOOLEAN
      BY <3>1, FrontOf, FrontFields DEF Concerns
    <3>. HIDE DEF y
    <3>3. Concerns(r, u, f)
      BY <3>1, <3>2, MarkedIs DEF y
    <3>. QED  BY <3>1, <3>3, ConcernsIsTransitive DEF u
  <2>3. Concerns(p, q, f)
    BY <2>1, <2>2, ItselfConcerns
  <2>. QED  BY <1>6, <2>1, <2>3 DEF q, x, b
<1>. QED  BY <1>2, <1>3, <1>4, <1>5, <1>6

\* From p to q the binder of f has compared its server with the replica.
Checked(p, q, f) ==
  LET x == p.fronts[f]
      y == q.fronts[f]
  IN  /\ y.started = x.started
      /\ y.enabled => x.enabled
      /\ x.enabled => y.server = q.replica
      /\ ~x.enabled => /\ y.server = x.server /\ y.available = x.available
                       /\ ~y.enabled /\ (x.started => y.outdated)
      /\ x.available /\ y.server # NoServer => y.available
      /\ \A server \in Server : Asks(p, f, server) => Asks(q, f, server)
      /\ x.enabled /\ q.replica \notin {NoServer, x.server} =>
           IF f \in Asynchronous THEN Asks(q, f, q.replica)
           ELSE q.replica \in q.exported =>
                  y.available /\ y.dbus.value = q.value /\ (f \in q.overtaken <=> UpdateWaits(f))
      /\ Subscribed(p, f) => Subscribed(q, f)
      /\ KeepsReading(p, q, f)

\* What a slot has to leave right.
Stays(p, q, f, object) ==
  /\ FrontOK(q, f, object)
  /\ HasObject(p, f) => HasObject(q, f)
  /\ HasAdapter(p, f) => HasAdapter(q, f)

LEMMA OutdatedOK ==
  ASSUME NEW p \in Processes, NEW f \in FrontEnd, NEW object, FrontOK(p, f, object),
         p.fronts[f].started, ~p.fronts[f].enabled
  PROVE  Stays(p, Outdated(p, f), f, object) /\ Checked(p, Outdated(p, f), f)
<1>. DEFINE q == Outdated(p, f)
            x == p.fronts[f]
            y == q.fronts[f]
<1>1. x.server \in Server \union {NoServer}
  BY FrontOf, FrontFields
<1>2. /\ Concerns(p, q, f) /\ SameLocal(p, q, f) /\ SameRequests(p, q, f)
      /\ SameRole(x, y) /\ y.enabled = x.enabled /\ y.wrapped = x.wrapped
      /\ y.available = x.available /\ y.outdated /\ y.server = x.server
      /\ y.subscribed = x.subscribed
      /\ UpToDate(q, f) <=> UpToDate(p, f)
  <2>. DEFINE server == x.server
              outdated == TRUE
  <2>1. q = Marked(p, f, server, outdated)
    BY DEF Outdated
  <2>2. server \in Server \union {NoServer} /\ outdated \in BOOLEAN
    BY <1>1
  <2>. HIDE DEF q, server, outdated
  <2>3. /\ Concerns(p, q, f) /\ SameLocal(p, q, f) /\ SameRequests(p, q, f)
        /\ SameRole(x, y) /\ y.enabled = x.enabled /\ y.wrapped = x.wrapped
        /\ y.available = x.available /\ y.outdated = outdated /\ y.server = server
        /\ y.subscribed = x.subscribed
        /\ UpToDate(q, f) <=> UpToDate(p, f)
    BY <2>1, <2>2, MarkedIs
  <2>. QED  BY <2>3 DEF server, outdated
<1>. HIDE DEF q
<1>3. Draft(q, f)
  BY <1>2 DEF FrontOK, Shaped, Draft, Silent, BinderOK, SameLocal, SameRequests, SameRole
<1>4. FrontOK(q, f, object)
  BY <1>2, <1>3 DEF FrontOK, Shaped, SameLocal, SameRole
<1>5. Checked(p, q, f)
  <2>1. KeepsReading(p, q, f)
    BY <1>2, SameKeepsReading DEF SameRole
  <2>2. Subscribed(p, f) => Subscribed(q, f)
    BY <1>2 DEF Subscribed
  <2>. QED  BY <1>2, <2>1, <2>2 DEF Checked, SameRole, SameRequests
<1>6. Kept(p, q)
  BY <1>2 DEF Concerns
<1>. QED  BY <1>2, <1>4, <1>5, <1>6 DEF Stays, q, HasObject, HasAdapter, SameLocal, SameRole, Kept

LEMMA CheckRegistryBinds ==
  ASSUME NEW p \in Processes, NEW f \in FrontEnd, NEW object, FrontOK(p, f, object),
         p.fronts[f].enabled, p.replica \notin {NoServer, p.fronts[f].server}
  PROVE  LET b == BindDBus(p, f)
             q == IF b.fronts[f].available # p.fronts[f].available
                  THEN RefreshProvider(b, f) ELSE b
         IN  Stays(p, q, f, object) /\ Checked(p, q, f)
<1>. DEFINE b == BindDBus(p, f)
            q == IF b.fronts[f].available # p.fronts[f].available
                 THEN RefreshProvider(b, f) ELSE b
            x == p.fronts[f]
            y == b.fronts[f]
            z == q.fronts[f]
<1>1. p.replica \in Server /\ p.replica # NoServer
  BY ProcessFields
<1>2. /\ Concerns(p, b, f) /\ SameLocal(p, b, f) /\ SameFront(x, y) /\ Bound(p, b, f)
      /\ UpToDate(b, f)
  BY <1>1, BindDBusIs DEF FrontOK
<1>. HIDE DEF b
<1>3. b \in Processes /\ Kept(p, b)
  BY <1>2 DEF Concerns
<1>4. Draft(p, f) /\ x.started /\ ~x.provider
  BY DEF FrontOK, Shaped, Draft
<1>5. Draft(b, f)
  <2>1. f \notin Asynchronous => Silent(b, f)
    BY <1>2, <1>4 DEF Draft, Silent, SameLocal, Bound
  <2>2. ~y.provider /\ BinderOK(b, f)
    BY <1>1, <1>2, <1>4 DEF BinderOK, Bound, SameFront, SameRole
  <2>. QED  BY <2>1, <2>2 DEF Draft
<1>6. /\ ~y.provider /\ y.started /\ y.enabled /\ y.wrapped = x.wrapped
      /\ y.server = p.replica /\ (x.available => y.available)
      /\ \A server \in Server : Asks(p, f, server) => Asks(b, f, server)
      /\ IF f \in Asynchronous THEN Asks(b, f, p.replica)
         ELSE p.replica \in p.exported =>
                y.available /\ y.dbus.value = p.value /\ (f \in b.overtaken <=> UpdateWaits(f))
      /\ p.replica \in y.subscribed /\ KeepsReading(p, b, f)
  BY <1>1, <1>2, <1>4, SameKeepsReading DEF Bound, SameFront, SameRole
<1>7. /\ HasObject(p, f) => HasObject(b, f)
      /\ HasAdapter(p, f) => HasAdapter(b, f)
  BY <1>2, <1>3 DEF HasObject, HasAdapter, SameLocal, Kept, SameFront, SameRole
<1>8. CASE y.available # x.available
  <2>1. q = RefreshProvider(b, f)
    BY <1>8
  <2>. HIDE DEF q
  <2>2. /\ Refreshed(b, q, f) /\ FrontOK(q, f, object)
        /\ HasObject(b, f) => HasObject(q, f)
        /\ HasAdapter(b, f) => HasAdapter(q, f)
    BY <1>2, <1>3, <1>5, <1>6, <2>1, RefreshProviderOK
  <2>3. z.started /\ SameBinder(y, z) /\ SameRequests(b, q, f) /\ SameStore(b, q, f)
    BY <1>6, <2>2, Zenon DEF Refreshed
  <2>4. x.started = TRUE /\ z.started = TRUE
    <3>1. q \in Processes
      BY <2>2 DEF Refreshed, Concerns
    <3>2. x.started \in BOOLEAN /\ z.started \in BOOLEAN
      BY <3>1, FrontOf, FrontFields
    <3>. QED  BY <1>4, <2>3, <3>2
  <2>5. /\ z.server = y.server /\ z.available = y.available /\ z.dbus = y.dbus
        /\ f \in q.overtaken <=> f \in b.overtaken
        /\ \A server \in Server : Asks(q, f, server) <=> Asks(b, f, server)
    BY <2>3 DEF SameBinder, SameRequests, SameStore
  <2>6. p.replica \in Server
    BY <1>1
  <2>7. Checked(p, q, f)
    <3>. HIDE DEF x, y, z
    <3>1. x.enabled
      BY DEF x
    <3>2. q.replica = p.replica /\ q.exported = p.exported /\ q.value = p.value
      BY <1>3, <2>2 DEF Refreshed, Concerns, Kept
    <3>3. KeepsReading(p, q, f)
      BY <1>6, <2>2, RefreshedKeepsReading, KeepsReadingIsTransitive
    <3>4. Subscribed(q, f)
      BY <1>6, <2>3 DEF SameBinder, Subscribed, z
    <3>. QED  BY <1>6, <2>4, <2>5, <2>6, <3>1, <3>2, <3>3, <3>4 DEF Checked, x, z
  <2>. QED  BY <1>7, <2>2, <2>7 DEF Stays, q, b
<1>9. CASE y.available = x.available
  <2>1. q = b
    BY <1>9
  <2>. HIDE DEF q
  <2>2. Shaped(b, f, object)
    BY <1>2, <1>4, <1>5, <1>6, <1>9 DEF FrontOK, Shaped, SameLocal
  <2>3. Subscribed(b, f)
    BY <1>6 DEF Subscribed
  <2>4. Checked(p, b, f)
    BY <1>3, <1>4, <1>6, <2>3 DEF Checked, Kept
  <2>. QED  BY <1>2, <1>7, <2>1, <2>2, <2>4 DEF Stays, FrontOK, q, b
<1>. QED  BY <1>8, <1>9

LEMMA CheckRegistryUnbinds ==
  ASSUME NEW p \in Processes, NEW f \in FrontEnd, NEW object, FrontOK(p, f, object),
         p.fronts[f].enabled, p.replica = NoServer, p.fronts[f].server # NoServer
  PROVE  LET q == UnbindDBus(p, f)
         IN  Stays(p, q, f, object) /\ Checked(p, q, f)
<1>. DEFINE a == Unlinked(p, f)
            x == p.fronts[f]
            v == a.fronts[f]
            r == IF x.available THEN RefreshProvider(a, f) ELSE a
            y == r.fronts[f]
            q == UnbindDBus(p, f)
            z == q.fronts[f]
<1>1. /\ Concerns(p, a, f) /\ SameLocal(p, a, f) /\ SameRequests(p, a, f)
      /\ SameRole(x, v) /\ v.enabled = x.enabled /\ v.wrapped = x.wrapped
      /\ ~v.available /\ ~v.outdated /\ v.server = x.server
      /\ UpToDate(a, f)
  BY UnlinkedIs DEF FrontOK
<1>2. /\ Concerns(p, r, f)
      /\ q = Marked(r, f, NoServer, y.outdated)
  BY UnbindDBusIs
<1>. HIDE DEF a, q
<1>3. Draft(p, f) /\ x.started /\ ~x.provider
  BY DEF FrontOK, Shaped, Draft
<1>4. a \in Processes /\ Kept(p, a)
  BY <1>1 DEF Concerns
<1>5. /\ Stays(p, r, f, object) /\ y.started /\ ~y.available /\ SameRequests(p, r, f)
      /\ KeepsReading(p, r, f)
  <2>1. Draft(a, f) /\ ~v.provider
    BY <1>1, <1>3 DEF Draft, Silent, BinderOK, SameLocal, SameRequests, SameRole
  <2>2. /\ HasObject(p, f) => HasObject(a, f)
        /\ HasAdapter(p, f) => HasAdapter(a, f)
    BY <1>1, <1>4 DEF HasObject, HasAdapter, SameLocal, Kept, SameRole
  <2>5. KeepsReading(p, a, f)
    BY <1>1, SameKeepsReading DEF SameRole
  <2>3. CASE x.available
    <3>1. r = RefreshProvider(a, f)
      BY <2>3
    <3>. HIDE DEF r
    <3>2. /\ Refreshed(a, r, f) /\ FrontOK(r, f, object)
          /\ HasObject(a, f) => HasObject(r, f)
          /\ HasAdapter(a, f) => HasAdapter(r, f)
      BY <1>1, <1>4, <2>1, <3>1, RefreshProviderOK
    <3>3. v.started
      BY <1>1, <1>3 DEF SameRole
    <3>4. y.started /\ SameBinder(v, y) /\ SameRequests(a, r, f)
      BY <3>2, <3>3, Zenon DEF Refreshed
    <3>5. KeepsReading(p, r, f)
      BY <2>5, <3>2, RefreshedKeepsReading, KeepsReadingIsTransitive
    <3>. QED  BY <1>1, <2>2, <3>2, <3>4, <3>5 DEF Stays, SameBinder, SameRequests
  <2>4. CASE ~x.available
    <3>1. r = a
      BY <2>4
    <3>. HIDE DEF r
    <3>2. Shaped(a, f, object)
      BY <1>1, <1>3, <2>1, <2>4 DEF FrontOK, Shaped, SameLocal, SameRole
    <3>. QED  BY <1>1, <1>3, <2>2, <2>5, <3>1, <3>2 DEF Stays, FrontOK, SameRole
  <2>. QED  BY <2>3, <2>4
<1>. HIDE DEF r
<1>6. r \in Processes /\ Kept(p, r)
  BY <1>2 DEF Concerns
<1>7. /\ Concerns(r, q, f) /\ SameLocal(r, q, f) /\ SameRequests(r, q, f)
      /\ SameRole(y, z) /\ z.enabled = y.enabled /\ z.wrapped = y.wrapped
      /\ z.available = y.available /\ z.server = NoServer
      /\ UpToDate(q, f) <=> UpToDate(r, f)
  <2>. DEFINE server == NoServer
              outdated == y.outdated
  <2>1. q = Marked(r, f, server, outdated)
    BY <1>2
  <2>2. server \in Server \union {NoServer} /\ outdated \in BOOLEAN
    BY <1>6, FrontOf, FrontFields
  <2>. HIDE DEF server, outdated
  <2>3. /\ Concerns(r, q, f) /\ SameLocal(r, q, f) /\ SameRequests(r, q, f)
        /\ SameRole(y, z) /\ z.enabled = y.enabled /\ z.wrapped = y.wrapped
        /\ z.available = y.available /\ z.outdated = outdated /\ z.server = server
        /\ UpToDate(q, f) <=> UpToDate(r, f)
    BY <1>6, <2>1, <2>2, MarkedIs
  <2>. QED  BY <2>3 DEF server
<1>. HIDE DEF y, z, x
<1>8. Draft(q, f)
  BY <1>5, <1>7 DEF Stays, FrontOK, Shaped, Draft, Silent, BinderOK, SameLocal, SameRequests,
                    SameRole, y, z
<1>9. FrontOK(q, f, object)
  BY <1>5, <1>7, <1>8 DEF Stays, FrontOK, Shaped, SameLocal, SameRole, y, z
<1>10. Kept(r, q)
  BY <1>7 DEF Concerns
<1>11. Stays(p, q, f, object)
  BY <1>5, <1>7, <1>9, <1>10 DEF Stays, HasObject, HasAdapter, SameLocal, Kept, SameRole, y, z
<1>12. Checked(p, q, f)
  <2>1. KeepsReading(r, q, f)
    BY <1>7, SameKeepsReading DEF SameRole, y, z
  <2>2. KeepsReading(p, q, f)
    BY <1>5, <2>1, KeepsReadingIsTransitive
  <2>3. Subscribed(q, f)
    BY <1>7 DEF Subscribed, z
  <2>. QED  BY <1>3, <1>5, <1>6, <1>7, <1>10, <2>2, <2>3
            DEF Checked, SameRole, SameRequests, Kept, x, z
<1>. QED  BY <1>11, <1>12 DEF q

\* checkRegistry(): the binder follows the replica while it is enabled.
LEMMA CheckRegistryOK ==
  ASSUME NEW p \in Processes, NEW f \in FrontEnd, NEW object, FrontOK(p, f, object)
  PROVE  LET q == CheckRegistry(p, f)
         IN  Stays(p, q, f, object) /\ Checked(p, q, f)
<1>. DEFINE q == CheckRegistry(p, f)
            x == p.fronts[f]
            b == BindDBus(p, f)
<1>1. /\ ~x.started => q = p
      /\ x.started /\ ~x.enabled => q = Outdated(p, f)
      /\ x.started /\ x.enabled /\ p.replica \notin {NoServer, x.server} =>
           q = IF b.fronts[f].available # x.available THEN RefreshProvider(b, f) ELSE b
      /\ x.started /\ x.enabled /\ p.replica \in {NoServer, x.server} =>
           q = IF p.replica # x.server THEN UnbindDBus(p, f) ELSE p
  BY CheckRegistryConcerns
<1>. HIDE DEF q
<1>2. x.enabled => x.started
  BY DEF FrontOK, Shaped
<1>3. Stays(p, p, f, object) /\ KeepsReading(p, p, f)
  BY DEF Stays, KeepsReading
<1>4. CASE ~x.started
  <2>1. q = p
    BY <1>1, <1>4
  <2>. QED  BY <1>2, <1>3, <1>4, <2>1 DEF Checked, q
<1>5. CASE x.started /\ ~x.enabled
  BY <1>1, <1>5, OutdatedOK DEF q
<1>6. CASE x.enabled /\ p.replica \notin {NoServer, x.server}
  BY <1>1, <1>2, <1>6, CheckRegistryBinds DEF q
<1>7. CASE x.enabled /\ p.replica \in {NoServer, x.server} /\ p.replica # x.server
  BY <1>1, <1>2, <1>7, CheckRegistryUnbinds DEF q
<1>8. CASE x.enabled /\ p.replica = x.server
  <2>1. q = p
    BY <1>1, <1>2, <1>8
  <2>. QED  BY <1>3, <1>8, <2>1 DEF Checked, q
<1>. QED  BY <1>4, <1>5, <1>6, <1>7, <1>8

\* From p to q front end f has got values only.
Quiet(p, q, f) ==
  LET x == p.fronts[f]
      y == q.fronts[f]
  IN  /\ Kept(p, q) /\ SameLocal(p, q, f) /\ SameRequests(p, q, f)
      /\ SameBinder(x, y) /\ y.provider = x.provider /\ y.started = x.started
      /\ y.enabled = x.enabled /\ y.wrapped = x.wrapped

LEMMA QuietOK ==
  ASSUME NEW p, NEW q, NEW f, NEW object, Quiet(p, q, f)
  PROVE  /\ Draft(p, f) => Draft(q, f)
         /\ Shaped(p, f, object) => Shaped(q, f, object)
         /\ HasObject(p, f) => HasObject(q, f)
         /\ HasAdapter(p, f) => HasAdapter(q, f)
<1>1. Draft(p, f) => Draft(q, f)
  BY DEF Quiet, Draft, Silent, BinderOK, SameLocal, SameRequests, SameBinder
<1>2. Shaped(p, f, object) => Shaped(q, f, object)
  BY <1>1 DEF Quiet, Shaped, SameLocal, SameBinder
<1>. QED  BY <1>1, <1>2 DEF Quiet, Kept, HasObject, HasAdapter, SameLocal

LEMMA ForwardIsQuiet ==
  ASSUME NEW p \in Processes, NEW f \in FrontEnd, NEW provider \in {"service", "local", "dbus"}
  PROVE  LET q == Forward(p, f, provider)
         IN  /\ Concerns(p, q, f) /\ Quiet(p, q, f) /\ SameStore(p, q, f)
             /\ q.fronts[f].local = p.fronts[f].local
             /\ UpToDate(p, f) \/ p.fronts[f].wrapped = provider => UpToDate(q, f)
<1>. DEFINE q == Forward(p, f, provider)
            x == p.fronts[f]
            y == q.fronts[f]
<1>1. /\ Concerns(p, q, f) /\ SameLocal(p, q, f) /\ SameRequests(p, q, f)
      /\ SameRole(x, y) /\ SameBinder(x, y)
      /\ y.enabled = x.enabled /\ y.wrapped = x.wrapped /\ y.dbus = x.dbus
      /\ q.overtaken = p.overtaken
      /\ UpToDate(p, f) \/ x.wrapped = provider => UpToDate(q, f)
  BY ForwardIs
<1>. HIDE DEF q
<1>. QED  BY <1>1 DEF q, Quiet, SameRole, SameStore, Concerns

SetValue(p, f, v) == SetFront(p, f, [p.fronts[f] EXCEPT !.dbus = [@ EXCEPT !.value = v]])

LEMMA StoreUpdateIsQuiet ==
  ASSUME NEW p \in Processes, NEW f \in FrontEnd, NEW v \in Value
  PROVE  LET q == StoreUpdate(p, f, v)
         IN  /\ Concerns(p, q, f) /\ Quiet(p, q, f)
             /\ UpToDate(p, f) => UpToDate(q, f)
             /\ q.fronts[f].local = p.fronts[f].local /\ q.fronts[f].dbus.value = v
             /\ f \in q.overtaken <=> f \in p.overtaken
<1>. DEFINE q == StoreUpdate(p, f, v)
            a == SetValue(p, f, v)
            x == p.fronts[f]
            d == [x.dbus EXCEPT !.value = v]
            z == [x EXCEPT !.dbus = d]
            w == a.fronts[f]
<1>1. x \in FrontStates /\ x.dbus \in State
  BY FrontOf, FrontFields
<1>2. q = Forward(a, f, "dbus")
  <2>1. a = [p EXCEPT !.fronts[f].dbus.value = v]
    BY <1>1 DEF SetValue, SetFront, Processes, FrontStates
  <2>. HIDE DEF a
  <2>. QED  BY <2>1 DEF StoreUpdate
<1>3. d \in State
  BY <1>1 DEF State
<1>13. d.value = v
  BY <1>1 DEF State
<1>4. a = SetFront(p, f, z)
  BY DEF SetValue
<1>. HIDE DEF d, x, a, q
<1>5. z \in FrontStates
  BY <1>1, <1>3 DEF FrontStates
<1>6. /\ SameBinder(x, z) /\ z.provider = x.provider /\ z.started = x.started
      /\ z.enabled = x.enabled /\ z.wrapped = x.wrapped /\ z.heard = x.heard
      /\ z.local = x.local /\ z.dbus = d
  BY <1>1 DEF FrontStates, SameBinder
<1>. HIDE DEF z
<1>7. /\ a \in Processes /\ SameRest(p, a) /\ a.unaware = p.unaware
      /\ a.overtaken = p.overtaken /\ w = z /\ \A g \in FrontEnd \ {f} : a.fronts[g] = p.fronts[g]
  BY <1>4, <1>5, SetFrontIs
<1>8. Concerns(p, a, f) /\ SameLocal(p, a, f) /\ SameRequests(p, a, f)
  BY <1>7, OneFront
<1>9. /\ Concerns(a, q, f) /\ Quiet(a, q, f) /\ SameStore(a, q, f)
      /\ q.fronts[f].local = w.local
      /\ UpToDate(a, f) \/ w.wrapped = "dbus" => UpToDate(q, f)
  BY <1>2, <1>7, ForwardIsQuiet
<1>10. Concerns(p, q, f)
  BY <1>8, <1>9, ConcernsIsTransitive
<1>11. Quiet(p, q, f)
  BY <1>6, <1>7, <1>8, <1>9
     DEF Quiet, SameBinder, SameLocal, SameRequests, SameRest, Kept, x
<1>12. ASSUME UpToDate(p, f)
       PROVE  UpToDate(q, f)
  <2>1. CASE w.wrapped = "dbus"
    BY <1>9, <2>1
  <2>2. CASE w.wrapped # "dbus"
    <3>1. x.wrapped \in Provider \union {"gone"} /\ x.wrapped # "dbus" /\ w.wrapped = x.wrapped
      BY <1>1, <1>6, <1>7, <2>2, FrontFields
    <3>2. Offered(a, f, x.wrapped) = Offered(p, f, x.wrapped)
      BY <1>6, <1>7, <3>1 DEF Offered, SameRest, Kept, Provider, x
    <3>3. UpToDate(a, f)
      BY <1>6, <1>7, <1>12, <3>1, <3>2 DEF UpToDate, x
    <3>. QED  BY <1>9, <3>3
  <2>. QED  BY <2>1, <2>2
<1>14. /\ q.fronts[f].local = x.local /\ q.fronts[f].dbus.value = v
       /\ f \in q.overtaken <=> f \in p.overtaken
  BY <1>6, <1>7, <1>9, <1>13 DEF SameStore
<1>. QED  BY <1>10, <1>11, <1>12, <1>14 DEF q, x

-----------------------------------------------------------------------------
(***************************************************************************)
(* Signals.                                                                *)
(***************************************************************************)
Signals ==
  [kind : {"manager", "localEntry", "replica", "value"}]
    \union [kind : {"update"}, to : SUBSET FrontEnd, value : Value]

LEMMA SlotConcerns ==
  ASSUME NEW signal \in Signals, NEW p \in Processes, NEW f \in FrontEnd,
         IsInjective(p.receivers)
  PROVE  Concerns(p, Slot(signal, p, f), f)
<1>1. CASE signal.kind = "manager"
  <2>1. Slot(signal, p, f) = CheckLocalAdapter(p, f)
    BY <1>1 DEF Slot
  <2>. QED  BY <2>1, CheckLocalAdapterConcerns
<1>2. CASE signal.kind = "localEntry"
  <2>1. Slot(signal, p, f) = CheckServiceAvailability(p, f)
    BY <1>2 DEF Slot
  <2>. QED  BY <2>1, CheckServiceAvailabilityConcerns
<1>3. CASE signal.kind = "replica"
  <2>1. Slot(signal, p, f) = CheckRegistry(p, f)
    BY <1>3 DEF Slot
  <2>. QED  BY <2>1, CheckRegistryConcerns
<1>4. CASE signal.kind = "value"
  <2>1. Slot(signal, p, f) = Forward(p, f, "service")
    BY <1>4 DEF Slot
  <2>. QED  BY <2>1, ForwardIsQuiet
<1>5. CASE signal.kind = "update"
  <2>1. signal.value \in Value
    BY <1>5 DEF Signals
  <2>2. Slot(signal, p, f) = IF f \in signal.to THEN StoreUpdate(p, f, signal.value) ELSE p
    BY <1>5 DEF Slot
  <2>3. Concerns(p, StoreUpdate(p, f, signal.value), f)
    BY <2>1, StoreUpdateIsQuiet
  <2>. QED  BY <2>2, <2>3, ItselfConcerns
<1>. QED  BY <1>1, <1>2, <1>3, <1>4, <1>5 DEF Signals

\* From p to q the slot of f has run, in a process where f was as in p.
SlotRan(signal, p, q, f) ==
  \E r \in Processes :
    Kept(p, r) /\ IsInjective(r.receivers) /\ Same(p, r, f) /\ Same(Slot(signal, r, f), q, f)

\* The slots of the first n front ends have run.
Reaching(signal, p, n) ==
  {q \in Processes :
     /\ Kept(p, q) /\ IsInjective(q.receivers)
     /\ \A f \in FrontEnd : IF \E k \in 1 .. n : p.created[k] = f
                            THEN SlotRan(signal, p, q, f) ELSE Same(p, q, f)}

LEMMA ReachingStep ==
  ASSUME NEW signal \in Signals, NEW p \in Processes, IsInjective(p.created),
         NEW n \in 1 .. Len(p.created), NEW q \in Reaching(signal, p, n - 1)
  PROVE  Slot(signal, q, p.created[n]) \in Reaching(signal, p, n)
<1>. DEFINE f == p.created[n]
            r == Slot(signal, q, f)
            N == Len(p.created)
<1>1. /\ N \in Nat /\ DOMAIN p.created = 1 .. N /\ f \in FrontEnd
      /\ n \in Int /\ n - 1 \in Nat
  BY ProcessFields, LenProperties, ElementOfSeq
<1>2. /\ q \in Processes /\ Kept(p, q) /\ IsInjective(q.receivers)
      /\ \A g \in FrontEnd : IF \E k \in 1 .. n - 1 : p.created[k] = g
                             THEN SlotRan(signal, p, q, g) ELSE Same(p, q, g)
  BY DEF Reaching
<1>3. \A k \in 1 .. n - 1 : p.created[k] # f
  BY <1>1 DEF IsInjective
<1>. HIDE DEF r, f
<1>4. Concerns(q, r, f)
  BY <1>1, <1>2, SlotConcerns DEF r
<1>5. /\ r \in Processes /\ Kept(p, r) /\ IsInjective(r.receivers)
      /\ \A g \in FrontEnd \ {f} : Same(q, r, g)
  BY <1>2, <1>4, KeptIsTransitive DEF Concerns
<1>6. SlotRan(signal, p, r, f)
  <2>1. Same(p, q, f) /\ Same(r, r, f)
    BY <1>1, <1>2, <1>3, SameIsReflexive
  <2>. QED  BY <1>2, <2>1 DEF SlotRan, r
<1>7. ASSUME NEW g \in FrontEnd
      PROVE  IF \E k \in 1 .. n : p.created[k] = g THEN SlotRan(signal, p, r, g) ELSE Same(p, r, g)
  <2>1. CASE g = f
    <3>1. \E k \in 1 .. n : p.created[k] = g
      BY <1>1, <2>1 DEF f
    <3>. QED  BY <1>6, <2>1, <3>1
  <2>2. CASE g # f
    <3>1. (\E k \in 1 .. n : p.created[k] = g) <=> (\E k \in 1 .. n - 1 : p.created[k] = g)
      BY <1>1, <2>2 DEF f
    <3>2. Same(q, r, g)
      BY <1>5, <2>2
    <3>3. SlotRan(signal, p, q, g) => SlotRan(signal, p, r, g)
      BY <3>2, SameIsTransitive DEF SlotRan
    <3>4. Same(p, q, g) => Same(p, r, g)
      BY <3>2, SameIsTransitive
    <3>. QED  BY <1>2, <3>1, <3>3, <3>4
  <2>. QED  BY <2>1, <2>2
<1>. QED  BY <1>5, <1>7 DEF Reaching, r, f

-----------------------------------------------------------------------------
(***************************************************************************)
(* Counting.                                                               *)
(***************************************************************************)
LEMMA LeastNatural ==
  ASSUME NEW T, T \subseteq Nat, T # {}
  PROVE  \E n \in T : \A m \in T : n <= m
<1>. DEFINE R == OpToRel(<, Nat)
<1>1. IsWellFoundedOn(R, Nat)
  BY NatLessThanWellFounded, Zenon
<1>2. \A m, n \in Nat : m < n => <<m, n>> \in R
  BY DEF OpToRel
<1>. HIDE DEF R
<1>3. PICK n \in T : \A m \in T : ~(<<m, n>> \in R)
  BY <1>1, WFMin
<1>4. ASSUME NEW m \in T
      PROVE  n <= m
  <2>1. m \in Nat /\ n \in Nat
    OBVIOUS
  <2>2. ~(m < n)
    BY <1>2, <1>3, <2>1
  <2>. QED  BY <2>1, <2>2
<1>. QED  BY <1>4

LEMMA CountUp ==
  ASSUME NEW N \in Nat, NEW S, 0 \in S, \A n \in 1 .. N : n - 1 \in S => n \in S
  PROVE  \A n \in 0 .. N : n \in S
<1>. DEFINE T == {n \in 0 .. N : n \notin S}
<1>. SUFFICES ASSUME T # {}
              PROVE  FALSE
  OBVIOUS
<1>1. PICK n \in T : \A m \in T : n <= m
  <2>1. T \subseteq Nat
    OBVIOUS
  <2>. HIDE DEF T
  <2>. QED  BY <2>1, LeastNatural
<1>2. n \in 1 .. N /\ n - 1 \in 0 .. N
  OBVIOUS
<1>3. n - 1 \in S
  BY <1>1, <1>2
<1>. QED  BY <1>2, <1>3

Recursion(f, N, base, next) ==
  f = [n \in 0 .. N |-> IF n = 0 THEN base ELSE next[n][f[n - 1]]]

LEMMA RecursionSteps ==
  ASSUME NEW N \in Nat, NEW base, NEW next, NEW f, Recursion(f, N, base, next)
  PROVE  /\ f = [n \in 0 .. N |-> f[n]] /\ f[0] = base
         /\ \A n \in 1 .. N : n - 1 \in 0 .. N /\ f[n] = next[n][f[n - 1]]
<1>1. f = [n \in 0 .. N |-> IF n = 0 THEN base ELSE next[n][f[n - 1]]]
  BY DEF Recursion
<1>2. f = [n \in 0 .. N |-> f[n]]
  BY <1>1
<1>3. \A n \in 0 .. N : f[n] = IF n = 0 THEN base ELSE next[n][f[n - 1]]
  BY <1>1
<1>4. \A n \in 1 .. N : n \in 0 .. N /\ n # 0 /\ n - 1 \in 0 .. N
  OBVIOUS
<1>5. f[0] = base
  BY <1>3
<1>6. \A n \in 1 .. N : f[n] = next[n][f[n - 1]]
  BY <1>3, <1>4, Zenon
<1>. QED  BY <1>2, <1>4, <1>5, <1>6

\* A recursive function over 0 .. N whose step n leads from I[n - 1] into I[n]
\* is defined.
LEMMA Solution ==
  ASSUME NEW N \in Nat, NEW base, NEW next, NEW I, base \in I[0],
         \A n \in 1 .. N : \A x \in I[n - 1] : next[n][x] \in I[n]
  PROVE  \E f : Recursion(f, N, base, next) /\ \A n \in 0 .. N : f[n] \in I[n]
<1>. DEFINE Solves(f, M) ==
              /\ f = [n \in 0 .. M |-> IF n = 0 THEN base ELSE next[n][f[n - 1]]]
              /\ \A n \in 0 .. M : f[n] \in I[n]
            S == {M \in 0 .. N : \E f : Solves(f, M)}
<1>1. 0 \in S
  <2>. DEFINE f == [n \in 0 .. 0 |-> base]
  <2>1. f = [n \in 0 .. 0 |-> IF n = 0 THEN base ELSE next[n][f[n - 1]]]
    OBVIOUS
  <2>2. \A n \in 0 .. 0 : f[n] \in I[n]
    OBVIOUS
  <2>. HIDE DEF f
  <2>. QED  BY <2>1, <2>2
<1>2. ASSUME NEW M \in 1 .. N, M - 1 \in S
      PROVE  M \in S
  <2>1. PICK f : Solves(f, M - 1)
    BY <1>2
  <2>. DEFINE g == [n \in 0 .. M |-> IF n < M THEN f[n] ELSE next[M][f[M - 1]]]
  <2>2. \A n \in 0 .. M - 1 : g[n] = f[n]
    OBVIOUS
  <2>3. g[M] = next[M][f[M - 1]]
    OBVIOUS
  <2>4. \A n \in 1 .. M - 1 : f[n] = next[n][f[n - 1]]
    BY <2>1
  <2>5. f[0] = base
    BY <2>1
  <2>6. \A n \in 0 .. M : g[n] = IF n = 0 THEN base ELSE next[n][g[n - 1]]
    <3>. HIDE DEF g
    <3>. QED  BY <2>2, <2>3, <2>4, <2>5
  <2>7. g = [n \in 0 .. M |-> IF n = 0 THEN base ELSE next[n][g[n - 1]]]
    <3>1. g = [n \in 0 .. M |-> g[n]]
      OBVIOUS
    <3>. HIDE DEF g
    <3>. QED  BY <2>6, <3>1
  <2>8. \A n \in 0 .. M : g[n] \in I[n]
    <3>1. f[M - 1] \in I[M - 1]
      BY <2>1
    <3>. HIDE DEF g
    <3>2. g[M] \in I[M]
      BY <2>3, <3>1
    <3>. QED  BY <2>1, <2>2, <3>2
  <2>. HIDE DEF g
  <2>. QED  BY <2>7, <2>8
<1>3. N \in S
  <2>. HIDE DEF S
  <2>. QED  BY <1>1, <1>2, CountUp
<1>. QED  BY <1>3 DEF Recursion


-----------------------------------------------------------------------------
(***************************************************************************)
(* The process after a signal.                                             *)
(***************************************************************************)
LEMMA EmittedReaches ==
  ASSUME NEW signal \in Signals, NEW p \in Processes,
         IsInjective(p.created), IsInjective(p.receivers)
  PROVE  Emitted(signal, p) \in Reaching(signal, p, Len(p.created))
<1>. DEFINE N == Len(p.created)
            I == [n \in 0 .. N |-> Reaching(signal, p, n)]
            next == [n \in 1 .. N |-> [q \in I[n - 1] |-> Slot(signal, q, p.created[n])]]
<1>1. N \in Nat
  BY ProcessFields, LenProperties
<1>2. p \in I[0]
  <2>1. I[0] = Reaching(signal, p, 0)
    BY <1>1
  <2>2. \A f : ~\E k \in 1 .. 0 : p.created[k] = f
    OBVIOUS
  <2>3. Kept(p, p) /\ \A f : Same(p, p, f)
    BY SameIsReflexive DEF Kept
  <2>. QED  BY <2>1, <2>2, <2>3 DEF Reaching
<1>3. ASSUME NEW n \in 1 .. N, NEW q \in I[n - 1]
      PROVE  next[n][q] \in I[n] /\ next[n][q] = Slot(signal, q, p.created[n])
  <2>1. /\ n - 1 \in 0 .. N /\ n \in 0 .. N
        /\ I[n - 1] = Reaching(signal, p, n - 1) /\ I[n] = Reaching(signal, p, n)
    BY <1>1
  <2>2. next[n][q] = Slot(signal, q, p.created[n])
    BY <1>3
  <2>. QED  BY <2>1, <2>2, ReachingStep
<1>. HIDE DEF I, next
<1>4. PICK f : Recursion(f, N, p, next) /\ \A n \in 0 .. N : f[n] \in I[n]
  <2>. HIDE DEF N
  <2>1. \A n \in 1 .. N : \A x \in I[n - 1] : next[n][x] \in I[n]
    BY <1>3
  <2>. QED  BY <1>1, <1>2, <2>1, Solution
<1>. DEFINE Step(q, n) == Slot(signal, q, p.created[n])
            Is(g) == g = [n \in 0 .. N |-> IF n = 0 THEN p ELSE Step(g[n - 1], n)]
            after == CHOOSE g : Is(g)
<1>5. Emitted(signal, p) = after[N]
  BY DEF Emitted
<1>. HIDE DEF Step, N
<1>6. /\ f = [n \in 0 .. N |-> f[n]] /\ f[0] = p
      /\ \A n \in 1 .. N : n - 1 \in 0 .. N /\ f[n] = next[n][f[n - 1]]
  BY <1>1, <1>4, RecursionSteps
<1>7. \A n \in 1 .. N : f[n] = Step(f[n - 1], n)
  BY <1>3, <1>4, <1>6 DEF Step
<1>8. Is(f)
  <2>1. ASSUME NEW n \in 0 .. N
        PROVE  f[n] = IF n = 0 THEN p ELSE Step(f[n - 1], n)
    <3>1. CASE n = 0
      BY <1>6, <3>1
    <3>2. CASE n # 0
      <4>1. n \in 1 .. N
        BY <1>1, <3>2
      <4>. QED  BY <1>7, <3>2, <4>1
    <3>. QED  BY <3>1, <3>2
  <2>. QED  BY <1>6, <2>1
<1>9. Is(after)
  BY <1>8
<1>. HIDE DEF after
<1>10. after[N] = f[N]
  <2>. DEFINE S == {n \in 0 .. N : after[n] = f[n]}
  <2>1. 0 \in S
    BY <1>1, <1>8, <1>9
  <2>2. ASSUME NEW n \in 1 .. N, n - 1 \in S
        PROVE  n \in S
    BY <1>1, <1>7, <1>9, <2>2
  <2>. HIDE DEF S
  <2>3. \A n \in 0 .. N : n \in S
    BY <1>1, <2>1, <2>2, CountUp
  <2>. QED  BY <1>1, <2>3 DEF S
<1>11. N \in 0 .. N
  BY <1>1
<1>12. f[N] \in Reaching(signal, p, N)
  BY <1>4, <1>11 DEF I
<1>13. Emitted(signal, p) \in Reaching(signal, p, N)
  BY <1>5, <1>10, <1>12
<1>. QED  BY <1>13 DEF N

\* A signal runs the slot of every complete front end, each of which finds its
\* own front end as it was.
LEMMA EmittedIs ==
  ASSUME NEW signal \in Signals, NEW p \in Processes,
         IsInjective(p.created), IsInjective(p.receivers)
  PROVE  LET q == Emitted(signal, p)
         IN  /\ q \in Processes /\ Kept(p, q) /\ IsInjective(q.receivers)
             /\ \A f \in Created(p) : SlotRan(signal, p, q, f)
             /\ \A f \in FrontEnd \ Created(p) : Same(p, q, f)
<1>. DEFINE q == Emitted(signal, p)
            N == Len(p.created)
<1>1. q \in Reaching(signal, p, N)
  BY EmittedReaches
<1>2. p.created \in Seq(FrontEnd) /\ DOMAIN p.created = 1 .. N
  BY ProcessFields, LenProperties
<1>. HIDE DEF q, N
<1>3. \A f : f \in Created(p) <=> \E k \in 1 .. N : p.created[k] = f
  BY <1>2 DEF Created, ToSet
<1>4. Created(p) \subseteq FrontEnd
  <2>1. \A k \in 1 .. N : p.created[k] \in FrontEnd
    BY <1>2, ElementOfSeq DEF N
  <2>. QED  BY <1>3, <2>1
<1>. QED  BY <1>1, <1>3, <1>4 DEF Reaching, q

LEMMA SlotRanIs ==
  ASSUME NEW signal \in Signals, NEW p \in Processes, NEW q, NEW f \in FrontEnd,
         SlotRan(signal, p, q, f), Kept(p, q)
  PROVE  \E r \in Processes :
           /\ Kept(p, r) /\ IsInjective(r.receivers) /\ Same(p, r, f)
           /\ Slot(signal, r, f) \in Processes /\ Kept(Slot(signal, r, f), q)
           /\ Same(Slot(signal, r, f), q, f)
<1>1. PICK r \in Processes :
        Kept(p, r) /\ IsInjective(r.receivers) /\ Same(p, r, f) /\ Same(Slot(signal, r, f), q, f)
  BY DEF SlotRan
<1>. DEFINE s == Slot(signal, r, f)
<1>2. Concerns(r, s, f)
  BY <1>1, SlotConcerns
<1>. HIDE DEF s
<1>3. s \in Processes /\ Kept(s, q)
  BY <1>1, <1>2 DEF Concerns, Kept
<1>. QED  BY <1>1, <1>3 DEF s

LEMMA MayBindIsSame ==
  ASSUME NEW p, NEW r, NEW s, NEW q, NEW f,
         Kept(p, r), Same(p, r, f), Same(s, q, f), MayBind(r, s, f)
  PROVE  MayBind(p, q, f)
BY DEF Kept, Same, SameBinder, SameRequests, MayBind, Bound

LEMMA CheckedIsSame ==
  ASSUME NEW p, NEW r, NEW s \in Processes, NEW q, NEW f,
         Kept(s, q), Same(p, r, f), Same(s, q, f), Checked(r, s, f)
  PROVE  Checked(p, q, f)
<1>. DEFINE x == p.fronts[f]
            y == q.fronts[f]
<1>1. /\ r.fronts[f] = x /\ s.fronts[f] = y
      /\ s.replica = q.replica /\ s.exported = q.exported /\ s.value = q.value
      /\ f \in q.overtaken <=> f \in s.overtaken
      /\ \A server \in Server : Asks(r, f, server) <=> Asks(p, f, server)
      /\ \A server \in Server : Asks(q, f, server) <=> Asks(s, f, server)
      /\ Subscribed(r, f) <=> Subscribed(p, f)
      /\ Subscribed(q, f) <=> Subscribed(s, f)
  BY DEF Kept, Same, SameRequests, Subscribed
<1>2. s.replica \in Server \union {NoServer}
  BY ProcessFields
<1>3. KeepsReading(p, q, f)
  <2>1. KeepsReading(p, r, f) /\ KeepsReading(r, s, f) /\ KeepsReading(s, q, f)
    BY SameKeepsReading DEF Checked
  <2>. QED  BY <2>1, KeepsReadingIsTransitive
<1>. HIDE DEF x, y
<1>. QED  BY <1>1, <1>2, <1>3 DEF Checked, x, y

LEMMA QuietIsSame ==
  ASSUME NEW p, NEW r, NEW s, NEW q, NEW f,
         Kept(p, r), Kept(s, q), Same(p, r, f), Same(s, q, f), Quiet(r, s, f)
  PROVE  Quiet(p, q, f)
BY DEF Kept, Same, SameBinder, SameLocal, SameRequests, Quiet

\* Front ends do not depend on what the registries hold.
LEMMA SameProcess ==
  ASSUME NEW p, NEW q, NEW f, NEW object,
         q.fronts = p.fronts, q.receivers = p.receivers, q.timers = p.timers,
         q.requests = p.requests, q.unaware = p.unaware, q.overtaken = p.overtaken,
         q.value = p.value
  PROVE  /\ Same(p, q, f)
         /\ Draft(q, f) <=> Draft(p, f)
         /\ Shaped(q, f, object) <=> Shaped(p, f, object)
         /\ FrontOK(q, f, object) <=> FrontOK(p, f, object)
         /\ q.manager = p.manager => (HasObject(q, f) <=> HasObject(p, f))
         /\ q.localEntry = p.localEntry => (HasAdapter(q, f) <=> HasAdapter(p, f))
<1>1. Same(p, q, f)
  BY DEF Same, SameLocal, SameRequests, Receives, Pending, Asks
<1>2. UpToDate(q, f) <=> UpToDate(p, f)
  BY OfferDepends
<1>3. Draft(q, f) <=> Draft(p, f)
  BY <1>1 DEF Same, SameLocal, SameRequests, Draft, Silent, BinderOK
<1>4. Shaped(q, f, object) <=> Shaped(p, f, object)
  BY <1>1, <1>3 DEF Same, SameLocal, Shaped
<1>. QED  BY <1>1, <1>2, <1>3, <1>4 DEF FrontOK, HasObject, HasAdapter, Receives

LEMMA ElementsOf ==
  ASSUME NEW S, NEW s \in Seq(S), NEW e \in ToSet(s)
  PROVE  e \in S
<1>1. PICK n \in DOMAIN s : e = s[n]
  BY DEF ToSet
<1>2. n \in 1 .. Len(s)
  BY <1>1, LenProperties
<1>. QED  BY <1>1, <1>2, ElementOfSeq

\* What the slots need.
Base(p) == p \in Processes /\ IsInjective(p.created) /\ IsInjective(p.receivers)

LEMMA ManagerSlotOK ==
  ASSUME NEW p \in Processes, NEW q, NEW f \in FrontEnd, NEW object, NEW object2,
         SlotRan([kind |-> "manager"], p, q, f), Kept(p, q), FrontOK(p, f, object),
         p.manager => object = "service" /\ object2 = "service"
  PROVE  /\ FrontOK(q, f, object2) /\ HasObject(q, f)
         /\ HasAdapter(p, f) => HasAdapter(q, f)
         /\ MayBind(p, q, f)
         /\ f \in Asynchronous => Same(p, q, f)
<1>. DEFINE signal == [kind |-> "manager"]
<1>1. signal \in Signals
  BY DEF Signals
<1>2. PICK r \in Processes :
        /\ Kept(p, r) /\ IsInjective(r.receivers) /\ Same(p, r, f)
        /\ Slot(signal, r, f) \in Processes /\ Kept(Slot(signal, r, f), q)
        /\ Same(Slot(signal, r, f), q, f)
  <2>. HIDE DEF signal
  <2>. QED  BY <1>1, SlotRanIs DEF signal
<1>. DEFINE s == CheckLocalAdapter(r, f)
<1>3. s = Slot(signal, r, f)
  BY DEF Slot
<1>. HIDE DEF signal
<1>4. /\ FrontOK(r, f, object) /\ (r.manager => object = "service" /\ object2 = "service")
      /\ HasAdapter(p, f) => HasAdapter(r, f)
  BY <1>2, SameIsOK DEF Kept
<1>5. /\ FrontOK(s, f, object2) /\ HasObject(s, f)
      /\ HasAdapter(r, f) => HasAdapter(s, f)
      /\ MayBind(r, s, f)
      /\ f \in Asynchronous => s = r
  BY <1>4, CheckLocalAdapterOK
<1>. HIDE DEF s
<1>6. Kept(s, q) /\ Same(s, q, f)
  BY <1>2, <1>3
<1>7. /\ FrontOK(q, f, object2) /\ HasObject(q, f)
      /\ HasAdapter(p, f) => HasAdapter(q, f)
  BY <1>4, <1>5, <1>6, SameIsOK
<1>8. MayBind(p, q, f)
  BY <1>2, <1>5, <1>6, MayBindIsSame
<1>9. f \in Asynchronous => Same(p, q, f)
  BY <1>2, <1>5, <1>6, SameIsTransitive
<1>. QED  BY <1>7, <1>8, <1>9

LEMMA LocalEntrySlotOK ==
  ASSUME NEW p \in Processes, NEW q, NEW f \in FrontEnd, NEW object,
         SlotRan([kind |-> "localEntry"], p, q, f), Kept(p, q), FrontOK(p, f, object)
  PROVE  /\ FrontOK(q, f, object) /\ HasAdapter(q, f)
         /\ HasObject(p, f) => HasObject(q, f)
         /\ MayBind(p, q, f)
         /\ p.localEntry \/ ~Receives(p, f) => q.fronts[f] = p.fronts[f]
         /\ f \notin Asynchronous => Same(p, q, f)
<1>. DEFINE signal == [kind |-> "localEntry"]
<1>1. signal \in Signals
  BY DEF Signals
<1>2. PICK r \in Processes :
        /\ Kept(p, r) /\ IsInjective(r.receivers) /\ Same(p, r, f)
        /\ Slot(signal, r, f) \in Processes /\ Kept(Slot(signal, r, f), q)
        /\ Same(Slot(signal, r, f), q, f)
  <2>. HIDE DEF signal
  <2>. QED  BY <1>1, SlotRanIs DEF signal
<1>. DEFINE s == CheckServiceAvailability(r, f)
<1>3. s = Slot(signal, r, f)
  BY DEF Slot
<1>. HIDE DEF signal
<1>4. FrontOK(r, f, object) /\ (HasObject(p, f) => HasObject(r, f))
  BY <1>2, SameIsOK
<1>5. /\ FrontOK(s, f, object) /\ HasAdapter(s, f)
      /\ HasObject(r, f) => HasObject(s, f)
      /\ MayBind(r, s, f)
      /\ r.localEntry \/ ~Receives(r, f) => s.fronts[f] = r.fronts[f]
      /\ f \notin Asynchronous => s = r
  BY <1>2, <1>4, CheckServiceAvailabilityOK
<1>. HIDE DEF s
<1>6. Kept(s, q) /\ Same(s, q, f)
  BY <1>2, <1>3
<1>7. /\ FrontOK(q, f, object) /\ HasAdapter(q, f)
      /\ HasObject(p, f) => HasObject(q, f)
  BY <1>4, <1>5, <1>6, SameIsOK
<1>8. MayBind(p, q, f)
  BY <1>2, <1>5, <1>6, MayBindIsSame
<1>9. f \notin Asynchronous => Same(p, q, f)
  BY <1>2, <1>5, <1>6, SameIsTransitive
<1>10. p.localEntry \/ ~Receives(p, f) => q.fronts[f] = p.fronts[f]
  BY <1>2, <1>5, <1>6 DEF Kept, Same, SameLocal
<1>. QED  BY <1>7, <1>8, <1>9, <1>10

LEMMA ReplicaSlotOK ==
  ASSUME NEW p \in Processes, NEW q, NEW f \in FrontEnd, NEW object,
         SlotRan([kind |-> "replica"], p, q, f), Kept(p, q), FrontOK(p, f, object)
  PROVE  Stays(p, q, f, object) /\ Checked(p, q, f)
<1>. DEFINE signal == [kind |-> "replica"]
<1>1. signal \in Signals
  BY DEF Signals
<1>2. PICK r \in Processes :
        /\ Kept(p, r) /\ IsInjective(r.receivers) /\ Same(p, r, f)
        /\ Slot(signal, r, f) \in Processes /\ Kept(Slot(signal, r, f), q)
        /\ Same(Slot(signal, r, f), q, f)
  <2>. HIDE DEF signal
  <2>. QED  BY <1>1, SlotRanIs DEF signal
<1>. DEFINE s == CheckRegistry(r, f)
<1>3. s = Slot(signal, r, f)
  BY DEF Slot
<1>. HIDE DEF signal
<1>4. /\ FrontOK(r, f, object)
      /\ HasObject(p, f) => HasObject(r, f)
      /\ HasAdapter(p, f) => HasAdapter(r, f)
  BY <1>2, SameIsOK
<1>5. Stays(r, s, f, object) /\ Checked(r, s, f)
  BY <1>4, CheckRegistryOK
<1>. HIDE DEF s
<1>6. s \in Processes /\ Kept(s, q) /\ Same(s, q, f)
  BY <1>2, <1>3
<1>7. Stays(p, q, f, object)
  BY <1>4, <1>5, <1>6, SameIsOK DEF Stays
<1>8. Checked(p, q, f)
  BY <1>2, <1>5, <1>6, CheckedIsSame
<1>. QED  BY <1>7, <1>8

\* The proxies of f keep their values, but for what an update is about.
Stored(signal, p, q, f) ==
  /\ q.fronts[f].local = p.fronts[f].local
  /\ f \in q.overtaken <=> f \in p.overtaken
  /\ q.fronts[f].dbus.value = IF signal.kind = "update" /\ f \in signal.to THEN signal.value
                              ELSE p.fronts[f].dbus.value

\* A value: the front end's listeners know it afterwards.
LEMMA ValueSlotOK ==
  ASSUME NEW p \in Processes, NEW q, NEW f \in FrontEnd, NEW signal \in Signals,
         signal.kind \in {"value", "update"},
         SlotRan(signal, p, q, f), Kept(p, q)
  PROVE  /\ Quiet(p, q, f) /\ Stored(signal, p, q, f)
         /\ UpToDate(p, f) \/ (signal.kind = "value" /\ p.fronts[f].wrapped = "service") =>
              UpToDate(q, f)
<1>1. PICK r \in Processes :
        /\ Kept(p, r) /\ IsInjective(r.receivers) /\ Same(p, r, f)
        /\ Slot(signal, r, f) \in Processes /\ Kept(Slot(signal, r, f), q)
        /\ Same(Slot(signal, r, f), q, f)
  BY SlotRanIs
<1>. DEFINE s == Slot(signal, r, f)
<1>2. /\ Quiet(r, s, f) /\ Stored(signal, r, s, f)
      /\ UpToDate(r, f) \/ (signal.kind = "value" /\ r.fronts[f].wrapped = "service") =>
           UpToDate(s, f)
  <2>1. CASE signal.kind = "value"
    <3>1. s = Forward(r, f, "service")
      BY <2>1 DEF Slot
    <3>. QED  BY <2>1, <3>1, ForwardIsQuiet DEF Stored, SameStore
  <2>2. CASE signal.kind = "update" /\ f \in signal.to
    <3>1. s = StoreUpdate(r, f, signal.value)
      BY <2>2 DEF Slot
    <3>2. signal.value \in Value
      BY <2>2 DEF Signals
    <3>. QED  BY <2>2, <3>1, <3>2, StoreUpdateIsQuiet DEF Stored
  <2>3. CASE signal.kind = "update" /\ f \notin signal.to
    <3>1. s = r
      BY <2>3 DEF Slot
    <3>2. Quiet(r, r, f)
      BY DEF Quiet, Kept, SameLocal, SameRequests, SameBinder
    <3>. QED  BY <2>3, <3>1, <3>2 DEF Stored
  <2>. QED  BY <2>1, <2>2, <2>3
<1>. HIDE DEF s
<1>3. Kept(s, q) /\ Same(s, q, f)
  BY <1>1 DEF s
<1>4. Quiet(p, q, f)
  BY <1>1, <1>2, <1>3, QuietIsSame
<1>5. r.fronts[f] = p.fronts[f] /\ (UpToDate(r, f) <=> UpToDate(p, f))
      /\ (UpToDate(q, f) <=> UpToDate(s, f))
  BY <1>1, <1>3, SameIsUpToDate DEF Same
<1>6. Stored(signal, p, q, f)
  BY <1>1, <1>2, <1>3 DEF Same, Stored
<1>. QED  BY <1>2, <1>4, <1>5, <1>6

-----------------------------------------------------------------------------
(***************************************************************************)
(* The registries of the process and its service.                          *)
(***************************************************************************)
\* What the registries do not change.
Unregistered(p, q) ==
  /\ Base(q)
  /\ q.created = p.created /\ q.exported = p.exported /\ q.value = p.value /\ q.sent = p.sent
  /\ q.starved = p.starved /\ q.dropped = p.dropped
  /\ \A f \in FrontEnd \ Created(p) : Same(p, q, f)

LEMMA SetManagerIs ==
  ASSUME NEW p, NEW present \in BOOLEAN, NEW object, NEW object2, Base(p),
         \A f \in Created(p) : FrontOK(p, f, object),
         present => object = "service" /\ object2 = "service"
  PROVE  LET q == SetManager(p, present)
         IN  /\ Unregistered(p, q)
             /\ q.manager = present /\ q.localEntry = p.localEntry /\ q.replica = p.replica
             /\ \A f \in Created(p) :
                  /\ FrontOK(q, f, object2) /\ HasObject(q, f)
                  /\ HasAdapter(p, f) => HasAdapter(q, f)
                  /\ MayBind(p, q, f)
                  /\ f \in Asynchronous => Same(p, q, f)
<1>. DEFINE a == [p EXCEPT !.manager = present]
            signal == [kind |-> "manager"]
            q == SetManager(p, present)
<1>1. q = Emitted(signal, a)
  BY DEF SetManager
<1>2. p \in Processes
  BY DEF Base
<1>3. /\ a \in Processes /\ a.manager = present
      /\ a.created = p.created /\ a.exported = p.exported /\ a.value = p.value
      /\ a.sent = p.sent /\ a.starved = p.starved /\ a.dropped = p.dropped
      /\ a.localEntry = p.localEntry /\ a.replica = p.replica
      /\ a.fronts = p.fronts /\ a.receivers = p.receivers /\ a.timers = p.timers
      /\ a.requests = p.requests /\ a.unaware = p.unaware /\ a.overtaken = p.overtaken
  BY <1>2 DEF Processes
<1>4. signal \in Signals
  BY DEF Signals
<1>. HIDE DEF a, q
<1>5. Created(a) = Created(p) /\ IsInjective(a.created) /\ IsInjective(a.receivers)
  BY <1>3 DEF Created, Base
<1>6. /\ q \in Processes /\ Kept(a, q) /\ IsInjective(q.receivers)
      /\ \A f \in Created(a) : SlotRan(signal, a, q, f)
      /\ \A f \in FrontEnd \ Created(a) : Same(a, q, f)
  <2>. HIDE DEF signal
  <2>. QED  BY <1>1, <1>3, <1>4, <1>5, EmittedIs
<1>7. \A f : Same(p, a, f)
  BY <1>3, SameProcess
<1>8. ASSUME NEW f \in Created(p)
      PROVE  /\ FrontOK(q, f, object2) /\ HasObject(q, f)
             /\ HasAdapter(p, f) => HasAdapter(q, f)
             /\ MayBind(p, q, f)
             /\ f \in Asynchronous => Same(p, q, f)
  <2>1. FrontOK(a, f, object) /\ (HasAdapter(p, f) => HasAdapter(a, f))
    BY <1>3, SameProcess
  <2>2. f \in FrontEnd
    BY <1>2, ProcessFields, ElementsOf DEF Created
  <2>3. /\ FrontOK(q, f, object2) /\ HasObject(q, f)
        /\ HasAdapter(a, f) => HasAdapter(q, f)
        /\ MayBind(a, q, f)
        /\ f \in Asynchronous => Same(a, q, f)
    BY <1>3, <1>5, <1>6, <2>1, <2>2, ManagerSlotOK
  <2>4. MayBind(p, q, f)
    BY <1>3, <2>3 DEF MayBind, Bound, SameRequests, Asks
  <2>5. f \in Asynchronous => Same(p, q, f)
    BY <1>7, <2>3, SameIsTransitive
  <2>. QED  BY <2>1, <2>3, <2>4, <2>5
<1>9. \A f \in FrontEnd \ Created(p) : Same(p, q, f)
  BY <1>5, <1>6, <1>7, SameIsTransitive
<1>10. /\ Unregistered(p, q)
       /\ q.manager = present /\ q.localEntry = p.localEntry /\ q.replica = p.replica
  BY <1>3, <1>5, <1>6, <1>9 DEF Unregistered, Base, Kept
<1>. QED  BY <1>8, <1>10 DEF q

LEMMA SetLocalEntryIs ==
  ASSUME NEW p, NEW present \in BOOLEAN, NEW object, Base(p),
         \A f \in Created(p) : FrontOK(p, f, object)
  PROVE  LET q == SetLocalEntry(p, present)
         IN  /\ Unregistered(p, q)
             /\ q.manager = p.manager /\ q.localEntry = present /\ q.replica = p.replica
             /\ \A f \in Created(p) :
                  /\ FrontOK(q, f, object) /\ HasAdapter(q, f)
                  /\ HasObject(p, f) => HasObject(q, f)
                  /\ MayBind(p, q, f)
                  /\ present \/ ~Receives(p, f) => q.fronts[f] = p.fronts[f]
                  /\ f \notin Asynchronous => Same(p, q, f)
<1>. DEFINE a == [p EXCEPT !.localEntry = present]
            signal == [kind |-> "localEntry"]
            q == SetLocalEntry(p, present)
<1>1. q = Emitted(signal, a)
  BY DEF SetLocalEntry
<1>2. p \in Processes
  BY DEF Base
<1>3. /\ a \in Processes /\ a.localEntry = present
      /\ a.created = p.created /\ a.exported = p.exported /\ a.value = p.value
      /\ a.sent = p.sent /\ a.starved = p.starved /\ a.dropped = p.dropped
      /\ a.manager = p.manager /\ a.replica = p.replica
      /\ a.fronts = p.fronts /\ a.receivers = p.receivers /\ a.timers = p.timers
      /\ a.requests = p.requests /\ a.unaware = p.unaware /\ a.overtaken = p.overtaken
  BY <1>2 DEF Processes
<1>4. signal \in Signals
  BY DEF Signals
<1>. HIDE DEF a, q
<1>5. Created(a) = Created(p) /\ IsInjective(a.created) /\ IsInjective(a.receivers)
  BY <1>3 DEF Created, Base
<1>6. /\ q \in Processes /\ Kept(a, q) /\ IsInjective(q.receivers)
      /\ \A f \in Created(a) : SlotRan(signal, a, q, f)
      /\ \A f \in FrontEnd \ Created(a) : Same(a, q, f)
  <2>. HIDE DEF signal
  <2>. QED  BY <1>1, <1>3, <1>4, <1>5, EmittedIs
<1>7. \A f : Same(p, a, f)
  BY <1>3, SameProcess
<1>8. ASSUME NEW f \in Created(p)
      PROVE  /\ FrontOK(q, f, object) /\ HasAdapter(q, f)
             /\ HasObject(p, f) => HasObject(q, f)
             /\ MayBind(p, q, f)
             /\ present \/ ~Receives(p, f) => q.fronts[f] = p.fronts[f]
             /\ f \notin Asynchronous => Same(p, q, f)
  <2>1. FrontOK(a, f, object) /\ (HasObject(p, f) => HasObject(a, f))
    BY <1>3, SameProcess
  <2>2. f \in FrontEnd
    BY <1>2, ProcessFields, ElementsOf DEF Created
  <2>3. /\ FrontOK(q, f, object) /\ HasAdapter(q, f)
        /\ HasObject(a, f) => HasObject(q, f)
        /\ MayBind(a, q, f)
        /\ a.localEntry \/ ~Receives(a, f) => q.fronts[f] = a.fronts[f]
        /\ f \notin Asynchronous => Same(a, q, f)
    BY <1>3, <1>5, <1>6, <2>1, <2>2, LocalEntrySlotOK
  <2>4. MayBind(p, q, f)
    BY <1>3, <2>3 DEF MayBind, Bound, SameRequests, Asks
  <2>5. f \notin Asynchronous => Same(p, q, f)
    BY <1>7, <2>3, SameIsTransitive
  <2>6. present \/ ~Receives(p, f) => q.fronts[f] = p.fronts[f]
    BY <1>3, <2>3 DEF Receives
  <2>. QED  BY <2>1, <2>3, <2>4, <2>5, <2>6
<1>9. \A f \in FrontEnd \ Created(p) : Same(p, q, f)
  BY <1>5, <1>6, <1>7, SameIsTransitive
<1>10. /\ Unregistered(p, q)
       /\ q.manager = p.manager /\ q.localEntry = present /\ q.replica = p.replica
  BY <1>3, <1>5, <1>6, <1>9 DEF Unregistered, Base, Kept
<1>. QED  BY <1>8, <1>10 DEF q

LEMMA SetReplicaIs ==
  ASSUME NEW p, NEW server \in Server \union {NoServer}, NEW object, Base(p),
         \A f \in Created(p) : FrontOK(p, f, object)
  PROVE  LET q == SetReplica(p, server)
         IN  /\ Unregistered(p, q)
             /\ q.manager = p.manager /\ q.localEntry = p.localEntry /\ q.replica = server
             /\ \A f \in Created(p) : Stays(p, q, f, object) /\ Checked(p, q, f)
<1>. DEFINE a == [p EXCEPT !.replica = server]
            signal == [kind |-> "replica"]
            q == SetReplica(p, server)
<1>1. q = Emitted(signal, a)
  BY DEF SetReplica
<1>2. p \in Processes
  BY DEF Base
<1>3. /\ a \in Processes /\ a.replica = server
      /\ a.created = p.created /\ a.exported = p.exported /\ a.value = p.value
      /\ a.sent = p.sent /\ a.starved = p.starved /\ a.dropped = p.dropped
      /\ a.manager = p.manager /\ a.localEntry = p.localEntry
      /\ a.fronts = p.fronts /\ a.receivers = p.receivers /\ a.timers = p.timers
      /\ a.requests = p.requests /\ a.unaware = p.unaware /\ a.overtaken = p.overtaken
  BY <1>2 DEF Processes
<1>4. signal \in Signals
  BY DEF Signals
<1>. HIDE DEF a, q
<1>5. Created(a) = Created(p) /\ IsInjective(a.created) /\ IsInjective(a.receivers)
  BY <1>3 DEF Created, Base
<1>6. /\ q \in Processes /\ Kept(a, q) /\ IsInjective(q.receivers)
      /\ \A f \in Created(a) : SlotRan(signal, a, q, f)
      /\ \A f \in FrontEnd \ Created(a) : Same(a, q, f)
  <2>. HIDE DEF signal
  <2>. QED  BY <1>1, <1>3, <1>4, <1>5, EmittedIs
<1>7. \A f : Same(p, a, f)
  BY <1>3, SameProcess
<1>8. ASSUME NEW f \in Created(p)
      PROVE  Stays(p, q, f, object) /\ Checked(p, q, f)
  <2>1. /\ FrontOK(a, f, object)
        /\ HasObject(p, f) => HasObject(a, f)
        /\ HasAdapter(p, f) => HasAdapter(a, f)
    BY <1>3, SameProcess
  <2>2. f \in FrontEnd
    BY <1>2, ProcessFields, ElementsOf DEF Created
  <2>3. Stays(a, q, f, object) /\ Checked(a, q, f)
    BY <1>3, <1>5, <1>6, <2>1, <2>2, ReplicaSlotOK
  <2>4. Checked(p, q, f)
    BY <1>3, <2>3 DEF Checked, Asks, Subscribed, KeepsReading, Receives, Pending
  <2>. QED  BY <2>1, <2>3, <2>4 DEF Stays
<1>9. \A f \in FrontEnd \ Created(p) : Same(p, q, f)
  BY <1>5, <1>6, <1>7, SameIsTransitive
<1>10. /\ Unregistered(p, q)
       /\ q.manager = p.manager /\ q.localEntry = p.localEntry /\ q.replica = server
  BY <1>3, <1>5, <1>6, <1>9 DEF Unregistered, Base, Kept
<1>. QED  BY <1>8, <1>10 DEF q

NewFront ==
  [provider |-> FALSE, wrapped |-> "default", heard |-> NotReady, local |-> NotReady,
   dbus |-> NotReady, started |-> FALSE, enabled |-> TRUE, available |-> FALSE,
   server |-> NoServer, subscribed |-> {}, outdated |-> FALSE]

Unborn(p, f) == p.fronts[f] = NewFront /\ Silent(p, f)

\* The process is right, but for what its registries say of the service.
Complete(p, object) ==
  /\ Base(p) /\ p.starved \subseteq Asynchronous
  /\ \A f \in FrontEnd : IF f \in Created(p) THEN FrontOK(p, f, object) ELSE Unborn(p, f)

\* The process is right.
Right(p) ==
  /\ Complete(p, "service")
  /\ p.localEntry = p.manager /\ (p.manager <=> "here" \in p.exported)
  /\ p.exported \in {{}, {"here"}, {"elsewhere"}}
  /\ \A f \in Created(p) : HasObject(p, f) /\ HasAdapter(p, f)

LEMMA CreatedIs ==
  ASSUME NEW p, Base(p)
  PROVE  Created(p) \subseteq FrontEnd
BY ProcessFields, ElementsOf DEF Base, Created

LEMMA SameIsUnborn ==
  ASSUME NEW p, NEW q, NEW f, Same(p, q, f)
  PROVE  Unborn(q, f) <=> Unborn(p, f)
BY DEF Same, SameLocal, SameRequests, Unborn, Silent

LEMMA UnregisteredIsComplete ==
  ASSUME NEW p, NEW q, NEW object, NEW object2, Complete(p, object), Unregistered(p, q),
         \A f \in Created(p) : FrontOK(q, f, object2)
  PROVE  Complete(q, object2)
<1>1. Created(q) = Created(p)
  BY DEF Unregistered, Created
<1>2. \A f \in FrontEnd \ Created(p) : Unborn(q, f)
  BY SameIsUnborn DEF Unregistered, Complete
<1>. QED  BY <1>1, <1>2, CreatedIs DEF Complete, Unregistered

\* Without a service in the process no front end wraps its object.
LEMMA NoObject ==
  ASSUME NEW p, Right(p), "here" \notin p.exported, NEW f \in FrontEnd
  PROVE  /\ p.fronts[f].wrapped \in {"local", "dbus", "default"}
         /\ p.fronts[f].enabled /\ ~p.fronts[f].provider /\ ~Receives(p, f)
<1>. DEFINE x == p.fronts[f]
<1>1. p \in Processes /\ ~p.manager /\ ~p.localEntry
  BY DEF Right, Complete, Base
<1>2. CASE f \in Created(p)
  <2>1. FrontOK(p, f, "service") /\ HasObject(p, f) /\ HasAdapter(p, f)
    BY <1>2 DEF Right, Complete
  <2>2. x.provider \in BOOLEAN /\ p.manager \in BOOLEAN
    BY <1>1, FrontOf, FrontFields, ProcessFields
  <2>3. ~x.provider
    BY <1>1, <2>1, <2>2 DEF FrontOK, Shaped, Draft, HasObject
  <2>4. ~Receives(p, f)
    BY <1>1, <2>1 DEF FrontOK, Shaped, Draft, Silent, HasAdapter
  <2>5. x.enabled
    BY <2>1, <2>3, <2>4 DEF FrontOK, Shaped
  <2>. QED  BY <2>1, <2>3, <2>4, <2>5 DEF FrontOK, Shaped
<1>3. CASE f \notin Created(p)
  <2>1. Unborn(p, f)
    BY <1>3 DEF Right, Complete
  <2>2. NewFront.wrapped = "default" /\ NewFront.enabled /\ ~NewFront.provider
    BY DEF NewFront
  <2>. QED  BY <2>1, <2>2 DEF Unborn, Silent
<1>. QED  BY <1>2, <1>3

\* The service's value matters to those that wrap the service only.
LEMMA ValueMatters ==
  ASSUME NEW p, NEW q, NEW f, q.fronts = p.fronts, q.unaware = p.unaware,
         p.fronts[f].wrapped \in {"local", "dbus", "default", "gone"}
  PROVE  UpToDate(q, f) <=> UpToDate(p, f)
<1>1. Offered(q, f, p.fronts[f].wrapped) = Offered(p, f, p.fronts[f].wrapped)
  BY DEF Offered
<1>. QED  BY <1>1 DEF UpToDate

LEMMA SetReplicaIsRight ==
  ASSUME NEW p, NEW server \in Server \union {NoServer}, Right(p)
  PROVE  LET q == SetReplica(p, server)
         IN  /\ Right(q) /\ q.replica = server /\ q.exported = p.exported
             /\ Created(q) = Created(p) /\ SameService(p, q)
             /\ \A f \in Created(p) : Checked(p, q, f)
<1>. DEFINE q == SetReplica(p, server)
<1>1. Base(p) /\ \A f \in Created(p) : FrontOK(p, f, "service")
  BY CreatedIs DEF Right, Complete
<1>2. /\ Unregistered(p, q)
      /\ q.manager = p.manager /\ q.localEntry = p.localEntry /\ q.replica = server
      /\ \A f \in Created(p) : Stays(p, q, f, "service") /\ Checked(p, q, f)
  BY <1>1, SetReplicaIs
<1>. HIDE DEF q
<1>3. Complete(q, "service")
  BY <1>2, UnregisteredIsComplete DEF Right, Stays
<1>4. Created(q) = Created(p) /\ q.exported = p.exported
  BY <1>2 DEF Unregistered, Created
<1>5. Right(q)
  BY <1>2, <1>3, <1>4 DEF Right, Stays
<1>. QED  BY <1>2, <1>4, <1>5 DEF Unregistered, SameService, q

\* registerService(), in process and through Local IPC.
Renewed(p, v) == [p EXCEPT !.value = v, !.dropped = FALSE]

Registering(p, v) ==
  [[SetLocalEntry(SetManager(Renewed(p, v), TRUE), TRUE) EXCEPT !.sent = v]
     EXCEPT !.exported = @ \union {"here"}]

LEMMA RegisteringIs ==
  ASSUME NEW p, NEW v \in Value, Right(p), p.exported = {}
  PROVE  LET q == Registering(p, v)
         IN  /\ Right(q) /\ q.exported = {"here"} /\ q.replica = p.replica
             /\ Created(q) = Created(p) /\ q.sent = q.value
             /\ \A f \in Created(p) :
                  /\ Subscribed(p, f) => Subscribed(q, f)
                  /\ f \in Asynchronous => q.fronts[f] = p.fronts[f] /\ SameRequests(p, q, f)
                  /\ f \notin Asynchronous =>
                       ~q.fronts[f].enabled /\ q.fronts[f].server = p.fronts[f].server
<1>. DEFINE a == Renewed(p, v)
            b == SetManager(a, TRUE)
            c == SetLocalEntry(b, TRUE)
            d == [c EXCEPT !.sent = v]
            q == Registering(p, v)
<1>1. p \in Processes /\ ~p.manager /\ ~p.localEntry /\ "here" \notin p.exported
  BY DEF Right, Complete, Base
<1>2. /\ a \in Processes /\ a.fronts = p.fronts /\ a.unaware = p.unaware
      /\ a.overtaken = p.overtaken /\ a.created = p.created /\ a.receivers = p.receivers /\ a.timers = p.timers
      /\ a.requests = p.requests /\ a.starved = p.starved /\ a.manager = p.manager
      /\ a.localEntry = p.localEntry /\ a.replica = p.replica /\ a.exported = p.exported
      /\ a.value = v
  <2>1. [p EXCEPT !.value = v] \in Processes
    BY <1>1 DEF Processes
  <2>2. [[p EXCEPT !.value = v] EXCEPT !.dropped = FALSE] \in Processes
    BY <2>1 DEF Processes
  <2>3. a = [[p EXCEPT !.value = v] EXCEPT !.dropped = FALSE]
    BY <1>1 DEF Processes, Renewed
  <2>. QED  BY <1>1, <2>2, <2>3 DEF Processes, Renewed
<1>. HIDE DEF a
<1>3. \A f \in FrontEnd : UpToDate(a, f) <=> UpToDate(p, f)
  BY <1>1, <1>2, NoObject, ValueMatters
<1>4. \A f : SameLocal(p, a, f) /\ SameRequests(p, a, f) /\ Same(p, a, f)
  BY <1>2 DEF Same, SameLocal, SameRequests, Receives, Pending, Asks
<1>5. Created(a) = Created(p) /\ Base(a)
  BY <1>2 DEF Right, Complete, Base, Created
<1>6. \A f \in Created(p) : FrontOK(a, f, "service")
  <2>1. ASSUME NEW f \in Created(p)
        PROVE  FrontOK(a, f, "service")
    <3>1. f \in FrontEnd /\ FrontOK(p, f, "service")
      BY CreatedIs DEF Right, Complete
    <3>. QED  BY <1>2, <1>3, <1>4, <3>1
              DEF FrontOK, Shaped, Draft, Silent, BinderOK, SameLocal, SameRequests
  <2>. QED  BY <2>1
<1>7. Complete(a, "service")
  BY <1>2, <1>4, <1>5, <1>6, SameIsUnborn DEF Right, Complete
<1>8. /\ Unregistered(a, b) /\ b.manager = TRUE /\ b.replica = a.replica
      /\ \A f \in Created(a) :
           /\ FrontOK(b, f, "service") /\ HasObject(b, f) /\ MayBind(a, b, f)
           /\ f \in Asynchronous => Same(a, b, f)
  BY <1>5, <1>6, SetManagerIs
<1>. HIDE DEF b
<1>9. Complete(b, "service") /\ Created(b) = Created(p) /\ Base(b)
  BY <1>5, <1>7, <1>8, UnregisteredIsComplete DEF Unregistered, Created
<1>10. /\ Unregistered(b, c)
       /\ c.manager = b.manager /\ c.localEntry = TRUE /\ c.replica = b.replica
       /\ \A f \in Created(b) :
            /\ FrontOK(c, f, "service") /\ HasAdapter(c, f)
            /\ HasObject(b, f) => HasObject(c, f)
            /\ MayBind(b, c, f)
            /\ c.fronts[f] = b.fronts[f]
            /\ f \notin Asynchronous => Same(b, c, f)
  BY <1>5, <1>8, <1>9, SetLocalEntryIs
<1>. HIDE DEF c
<1>11. Complete(c, "service") /\ Created(c) = Created(p) /\ c.exported = {}
  BY <1>2, <1>8, <1>9, <1>10, UnregisteredIsComplete DEF Unregistered, Created
<1>12. /\ q \in Processes /\ q.fronts = c.fronts /\ q.unaware = c.unaware
       /\ q.overtaken = c.overtaken
       /\ q.created = c.created /\ q.receivers = c.receivers /\ q.timers = c.timers
       /\ q.requests = c.requests /\ q.starved = c.starved /\ q.manager = c.manager
       /\ q.localEntry = c.localEntry /\ q.replica = c.replica /\ q.value = c.value
       /\ q.exported = {"here"} /\ q.sent = v
  <2>1. c \in Processes
    BY <1>10 DEF Unregistered, Base
  <2>2. q = [d EXCEPT !.exported = c.exported \union {"here"}]
    BY <2>1 DEF Registering, Processes, c, b, a
  <2>3. /\ d \in Processes /\ d.fronts = c.fronts /\ d.unaware = c.unaware
        /\ d.overtaken = c.overtaken
        /\ d.created = c.created /\ d.receivers = c.receivers /\ d.timers = c.timers
        /\ d.requests = c.requests /\ d.starved = c.starved /\ d.manager = c.manager
        /\ d.localEntry = c.localEntry /\ d.replica = c.replica /\ d.value = c.value
        /\ d.sent = v
    BY <2>1 DEF Processes
  <2>. HIDE DEF d
  <2>4. {"here"} \in SUBSET Server /\ c.exported \union {"here"} = {"here"}
    BY <1>11 DEF Server
  <2>. QED  BY <2>2, <2>3, <2>4 DEF Processes
<1>. HIDE DEF q
<1>13. Created(q) = Created(p) /\ Base(q)
  BY <1>10, <1>11, <1>12 DEF Unregistered, Base, Created
<1>14. ASSUME NEW f
       PROVE  /\ Same(c, q, f) /\ (FrontOK(q, f, "service") <=> FrontOK(c, f, "service"))
              /\ HasObject(q, f) <=> HasObject(c, f)
              /\ HasAdapter(q, f) <=> HasAdapter(c, f)
  BY <1>12, SameProcess
<1>15. Complete(q, "service")
  BY <1>11, <1>12, <1>13, <1>14, SameIsUnborn DEF Complete
<1>16. Right(q)
  BY <1>5, <1>8, <1>9, <1>10, <1>12, <1>13, <1>14, <1>15 DEF Right
<1>17. ASSUME NEW f \in Created(p), f \in Asynchronous
       PROVE  q.fronts[f] = p.fronts[f] /\ SameRequests(p, q, f)
  <2>1. Same(p, a, f) /\ Same(a, b, f) /\ Same(c, q, f) /\ c.fronts[f] = b.fronts[f]
        /\ MayBind(b, c, f)
    BY <1>4, <1>5, <1>8, <1>9, <1>10, <1>14, <1>17
  <2>2. c.fronts[f].enabled \/ ~c.fronts[f].enabled
    OBVIOUS
  <2>3. b.fronts[f] = p.fronts[f] /\ p.fronts[f].enabled /\ p.fronts[f].started
    <3>1. FrontOK(p, f, "service") /\ f \in FrontEnd
      BY CreatedIs DEF Right, Complete
    <3>2. p.fronts[f].enabled
      BY <1>1, <3>1, NoObject
    <3>. QED  BY <2>1, <3>1, <3>2 DEF Same, FrontOK, Shaped
  <2>4. SameRequests(b, c, f)
    BY <2>1, <2>3 DEF MayBind
  <2>. QED  BY <2>1, <2>3, <2>4 DEF Same, SameRequests
<1>18. ASSUME NEW f \in Created(p), f \notin Asynchronous
       PROVE  ~q.fronts[f].enabled /\ q.fronts[f].server = p.fronts[f].server
  <2>1. /\ Same(p, a, f) /\ MayBind(a, b, f) /\ Same(c, q, f) /\ Same(b, c, f)
        /\ FrontOK(b, f, "service") /\ HasObject(b, f) /\ b.manager
    BY <1>4, <1>5, <1>8, <1>9, <1>10, <1>14, <1>18
  <2>2. ~b.fronts[f].enabled
    BY <1>18, <2>1 DEF FrontOK, Shaped, HasObject
  <2>3. b.fronts[f].server = a.fronts[f].server
    BY <2>1, <2>2 DEF MayBind, SameBinder
  <2>. QED  BY <2>1, <2>2, <2>3 DEF Same
<1>19. ASSUME NEW f \in Created(p), Subscribed(p, f)
       PROVE  Subscribed(q, f)
  <2>1. Same(p, a, f) /\ MayBind(a, b, f) /\ MayBind(b, c, f) /\ Same(c, q, f)
    BY <1>4, <1>5, <1>8, <1>9, <1>10, <1>14, <1>19
  <2>2. Subscribed(a, f)
    BY <1>19, <2>1 DEF Same, Subscribed
  <2>3. Subscribed(c, f)
    BY <2>1, <2>2, MayBindSubscribes
  <2>. QED  BY <2>1, <2>3 DEF Same, Subscribed
<1>20. q.sent = q.value
  BY <1>2, <1>8, <1>10, <1>12 DEF Unregistered
<1>. QED  BY <1>8, <1>2, <1>10, <1>12, <1>13, <1>16, <1>17, <1>18, <1>19, <1>20 DEF q

LEMMA WithoutDBusIs ==
  ASSUME NEW p, NEW object, Complete(p, object)
  PROVE  LET q == WithoutDBus(p)
         IN  /\ Complete(q, object) /\ Created(q) = Created(p)
             /\ q.manager = p.manager /\ q.localEntry = p.localEntry
             /\ q.exported = p.exported \ {"here"}
             /\ q.replica = IF master THEN NoServer ELSE p.replica
             /\ \A f \in Created(p) :
                  /\ HasObject(p, f) => HasObject(q, f)
                  /\ HasAdapter(p, f) => HasAdapter(q, f)
                  /\ Subscribed(p, f) => Subscribed(q, f)
                  /\ master => Checked(p, q, f)
<1>. DEFINE a == [p EXCEPT !.exported = @ \ {"here"}]
            q == WithoutDBus(p)
<1>1. q = IF master THEN SetReplica(a, NoServer) ELSE a
  BY DEF WithoutDBus
<1>2. p \in Processes /\ p.exported \subseteq Server
  BY ProcessFields DEF Complete, Base
<1>3. /\ a \in Processes /\ a.fronts = p.fronts /\ a.unaware = p.unaware
      /\ a.overtaken = p.overtaken /\ a.created = p.created /\ a.receivers = p.receivers /\ a.timers = p.timers
      /\ a.requests = p.requests /\ a.starved = p.starved /\ a.manager = p.manager
      /\ a.localEntry = p.localEntry /\ a.replica = p.replica /\ a.value = p.value
      /\ a.exported = p.exported \ {"here"}
  BY <1>2 DEF Processes
<1>. HIDE DEF a, q
<1>4. ASSUME NEW f
      PROVE  /\ Same(p, a, f) /\ (FrontOK(a, f, object) <=> FrontOK(p, f, object))
             /\ HasObject(a, f) <=> HasObject(p, f)
             /\ HasAdapter(a, f) <=> HasAdapter(p, f)
  BY <1>3, SameProcess
<1>5. Created(a) = Created(p) /\ Base(a)
  BY <1>3 DEF Complete, Base, Created
<1>6. Complete(a, object)
  BY <1>3, <1>4, <1>5, SameIsUnborn DEF Complete
<1>7. CASE ~master
  <2>1. q = a
    BY <1>1, <1>7
  <2>. QED  BY <1>3, <1>4, <1>5, <1>6, <1>7, <2>1 DEF Subscribed, q
<1>8. CASE master
  <2>1. q = SetReplica(a, NoServer)
    BY <1>1, <1>8
  <2>2. \A f \in Created(a) : FrontOK(a, f, object)
    BY <1>5, <1>6, CreatedIs DEF Complete
  <2>3. /\ Unregistered(a, q)
        /\ q.manager = a.manager /\ q.localEntry = a.localEntry /\ q.replica = NoServer
        /\ \A f \in Created(a) : Stays(a, q, f, object) /\ Checked(a, q, f)
    <3>1. NoServer \in Server \union {NoServer}
      OBVIOUS
    <3>. QED  BY <1>5, <2>1, <2>2, <3>1, SetReplicaIs
  <2>4. Complete(q, object)
    BY <1>6, <2>3, UnregisteredIsComplete DEF Stays
  <2>5. Created(q) = Created(p) /\ q.exported = p.exported \ {"here"}
    BY <1>3, <2>3 DEF Unregistered, Created
  <2>6. ASSUME NEW f \in Created(p)
        PROVE  /\ HasObject(p, f) => HasObject(q, f)
               /\ HasAdapter(p, f) => HasAdapter(q, f)
               /\ Checked(p, q, f)
    <3>1. Stays(a, q, f, object) /\ Checked(a, q, f)
      BY <1>5, <2>3
    <3>2. Checked(p, q, f)
      BY <1>3, <3>1 DEF Checked, Asks, Subscribed, KeepsReading, Receives, Pending
    <3>. QED  BY <1>4, <3>1, <3>2 DEF Stays
  <2>. QED  BY <1>3, <1>8, <2>3, <2>4, <2>5, <2>6 DEF Checked, q
<1>. QED  BY <1>7, <1>8

LEMMA DestroyedIs ==
  ASSUME NEW p, NEW object, Complete(p, object), ~p.localEntry,
         \A f \in Created(p) : HasAdapter(p, f)
  PROVE  LET q == Destroyed(p)
         IN  /\ Complete(q, object) /\ Created(q) = Created(p)
             /\ q.manager = p.manager /\ q.localEntry = p.localEntry
             /\ q.exported = p.exported /\ q.replica = p.replica /\ q.fronts = p.fronts
             /\ \A f \in Created(p) :
                  /\ HasObject(p, f) => HasObject(q, f)
                  /\ HasAdapter(q, f) /\ SameRequests(p, q, f)
<1>. DEFINE a == SetLists(p, <<>>, <<>>)
            q == Destroyed(p)
<1>1. p \in Processes
  BY DEF Complete, Base
<1>2. /\ a \in Processes /\ Kept(p, a) /\ a.fronts = p.fronts
      /\ a.receivers = <<>> /\ a.timers = <<>> /\ a.requests = p.requests
      /\ a.unaware = p.unaware
  <2>. DEFINE e == <<>>
  <2>1. e \in Seq(FrontEnd) /\ e \in Seq(Timer)
    OBVIOUS
  <2>. HIDE DEF e
  <2>2. LET l == SetLists(p, e, e)
        IN  /\ l \in Processes /\ Kept(p, l) /\ l.fronts = p.fronts
            /\ l.receivers = e /\ l.timers = e /\ l.requests = p.requests
            /\ l.unaware = p.unaware
    BY <1>1, <2>1, ListsAre
  <2>. QED  BY <2>2 DEF e
<1>3. q = [a EXCEPT !.dropped = FALSE]
  BY <1>1 DEF Destroyed, SetLists, Processes
<1>. HIDE DEF a
<1>4. /\ q \in Processes /\ q.fronts = p.fronts /\ q.unaware = p.unaware
      /\ q.created = p.created /\ q.receivers = <<>> /\ q.timers = <<>>
      /\ q.requests = p.requests /\ q.starved = p.starved /\ q.manager = p.manager
      /\ q.localEntry = p.localEntry /\ q.replica = p.replica /\ q.value = p.value
      /\ q.exported = p.exported
  BY <1>2, <1>3 DEF Processes, Kept
<1>. HIDE DEF q
<1>5. \A f : ~Receives(q, f) /\ ~Pending(q, f) /\ SameRequests(p, q, f)
  BY <1>4 DEF Receives, Pending, SameRequests, Asks, ToSet
<1>6. Created(q) = Created(p) /\ Base(q)
  BY <1>4 DEF Complete, Base, Created, IsInjective
<1>7. ASSUME NEW f \in Created(p)
      PROVE  /\ FrontOK(q, f, object) /\ HasAdapter(q, f)
             /\ HasObject(p, f) => HasObject(q, f)
  <2>1. FrontOK(p, f, object) /\ ~Receives(p, f)
    BY <1>7, CreatedIs DEF Complete, FrontOK, Shaped, Draft, Silent, HasAdapter
  <2>2. UpToDate(q, f)
    BY <1>4, <2>1, OfferDepends DEF FrontOK
  <2>3. Draft(q, f)
    BY <1>4, <1>5, <2>1 DEF FrontOK, Shaped, Draft, Silent, BinderOK, SameRequests
  <2>4. Shaped(q, f, object)
    BY <1>4, <1>5, <2>1, <2>3 DEF FrontOK, Shaped
  <2>. QED  BY <1>4, <1>5, <2>2, <2>4 DEF FrontOK, HasAdapter, HasObject
<1>8. ASSUME NEW f \in FrontEnd \ Created(p)
      PROVE  Unborn(q, f)
  BY <1>4, <1>5 DEF Complete, Unborn, Silent, SameRequests
<1>9. Complete(q, object)
  BY <1>4, <1>6, <1>7, <1>8 DEF Complete
<1>. QED  BY <1>4, <1>5, <1>6, <1>7, <1>9 DEF q

\* From p to q the service has been withdrawn by the holder of the registry.
Withdrawn(p, q, f) ==
  LET x == p.fronts[f]
      y == q.fronts[f]
  IN  y.server = NoServer \/ (y.server = x.server /\ (x.started => y.outdated))

LEMMA UnregisteringIs ==
  ASSUME NEW p, Right(p), "here" \in p.exported, master \in BOOLEAN
  PROVE  LET q == Destroyed(SetLocalEntry(WithoutDBus(SetManager(p, FALSE)), FALSE))
         IN  /\ Right(q) /\ q.exported = {} /\ Created(q) = Created(p)
             /\ q.replica = IF master THEN NoServer ELSE p.replica
             /\ master => \A f \in Created(p) : Withdrawn(p, q, f)
             /\ \A f \in Created(p) : Subscribed(p, f) => Subscribed(q, f)
<1>. DEFINE a == SetManager(p, FALSE)
            b == WithoutDBus(a)
            c == SetLocalEntry(b, FALSE)
            q == Destroyed(c)
<1>1. Complete(p, "service") /\ Base(p) /\ \A f \in Created(p) : FrontOK(p, f, "service")
  BY CreatedIs DEF Right, Complete
<1>2. /\ Unregistered(p, a)
      /\ a.manager = FALSE /\ a.localEntry = p.localEntry /\ a.replica = p.replica
      /\ \A f \in Created(p) :
           /\ FrontOK(a, f, "service") /\ HasObject(a, f) /\ MayBind(p, a, f)
           /\ HasAdapter(p, f) => HasAdapter(a, f)
           /\ f \in Asynchronous => Same(p, a, f)
  BY <1>1, SetManagerIs
<1>. HIDE DEF a
<1>3. Complete(a, "service") /\ Created(a) = Created(p)
  BY <1>1, <1>2, UnregisteredIsComplete DEF Unregistered, Created
<1>4. /\ Complete(b, "service") /\ Created(b) = Created(a)
      /\ b.manager = a.manager /\ b.localEntry = a.localEntry
      /\ b.exported = a.exported \ {"here"}
      /\ b.replica = IF master THEN NoServer ELSE a.replica
      /\ \A f \in Created(a) :
           /\ HasObject(a, f) => HasObject(b, f)
           /\ Subscribed(a, f) => Subscribed(b, f)
           /\ HasAdapter(a, f) => HasAdapter(b, f)
           /\ master => Checked(a, b, f)
  BY <1>3, WithoutDBusIs
<1>. HIDE DEF b
<1>5. /\ Unregistered(b, c)
      /\ c.manager = b.manager /\ c.localEntry = FALSE /\ c.replica = b.replica
      /\ \A f \in Created(b) :
           /\ FrontOK(c, f, "service") /\ HasAdapter(c, f)
           /\ HasObject(b, f) => HasObject(c, f)
           /\ MayBind(b, c, f)
  <2>1. Base(b) /\ \A f \in Created(b) : FrontOK(b, f, "service")
    BY <1>4, CreatedIs DEF Complete
  <2>. QED  BY <2>1, SetLocalEntryIs
<1>. HIDE DEF c
<1>6. Complete(c, "service") /\ Created(c) = Created(p)
  BY <1>3, <1>4, <1>5, UnregisteredIsComplete DEF Unregistered, Created
<1>7. /\ Complete(q, "service") /\ Created(q) = Created(c)
      /\ q.manager = c.manager /\ q.localEntry = c.localEntry
      /\ q.exported = c.exported /\ q.replica = c.replica /\ q.fronts = c.fronts
      /\ \A f \in Created(c) :
           /\ HasObject(c, f) => HasObject(q, f)
           /\ HasAdapter(q, f)
  <2>1. ~c.localEntry /\ \A f \in Created(c) : HasAdapter(c, f)
    BY <1>3, <1>4, <1>5, <1>6
  <2>. QED  BY <1>6, <2>1, DestroyedIs
<1>. HIDE DEF q
<1>8. q.exported = {}
  <2>1. p.exported = {"here"}
    BY DEF Right
  <2>. QED  BY <1>2, <1>4, <1>5, <1>7, <2>1 DEF Unregistered
<1>9. \A f \in Created(p) : HasObject(q, f) /\ HasAdapter(q, f)
  BY <1>2, <1>3, <1>4, <1>5, <1>6, <1>7
<1>10. Right(q)
  BY <1>2, <1>4, <1>5, <1>6, <1>7, <1>8, <1>9 DEF Right
<1>11. ASSUME master, NEW f \in Created(p)
       PROVE  Withdrawn(p, q, f)
  <2>1. Checked(a, b, f) /\ MayBind(b, c, f) /\ b.replica = NoServer
    BY <1>3, <1>4, <1>5, <1>11
  <2>2. c.fronts[f].server = b.fronts[f].server /\ c.fronts[f].outdated = b.fronts[f].outdated
    BY <2>1 DEF MayBind, SameBinder
  <2>3. a.fronts[f].enabled => b.fronts[f].server = NoServer
    BY <2>1 DEF Checked
  <2>4. ASSUME ~a.fronts[f].enabled
        PROVE  a.fronts[f] = p.fronts[f]
    <3>1. FrontOK(a, f, "service") /\ HasObject(a, f) /\ ~a.manager
      BY <1>2
    <3>2. f \in Asynchronous
      BY <2>4, <3>1 DEF FrontOK, Shaped, HasObject
    <3>. QED  BY <1>2, <3>2 DEF Same
  <2>5. ~a.fronts[f].enabled =>
          /\ b.fronts[f].server = p.fronts[f].server
          /\ p.fronts[f].started => b.fronts[f].outdated
    BY <2>1, <2>4 DEF Checked
  <2>. QED  BY <1>7, <2>2, <2>3, <2>5 DEF Withdrawn
<1>12. ASSUME NEW f \in Created(p), Subscribed(p, f)
       PROVE  Subscribed(q, f)
  <2>1. Subscribed(b, f)
    BY <1>2, <1>3, <1>4, <1>12, MayBindSubscribes
  <2>2. Subscribed(c, f)
    BY <1>3, <1>4, <1>5, <1>12, <2>1, MayBindSubscribes
  <2>. QED  BY <1>7, <2>2 DEF Subscribed
<1>. QED  BY <1>2, <1>4, <1>5, <1>6, <1>7, <1>8, <1>10, <1>11, <1>12 DEF q, c, b, a

\* The front ends that wrap the service object see a null pointer.
Orphan(x) == IF x.wrapped = "service" THEN [x EXCEPT !.wrapped = "gone"] ELSE x

Orphaned(p) ==
  [[p EXCEPT !.fronts = [f \in FrontEnd |-> Orphan(p.fronts[f])]]
     EXCEPT !.unaware = @ \union {f \in FrontEnd : p.fronts[f].wrapped = "service"}]

LEMMA OrphanIs ==
  ASSUME NEW x \in FrontStates
  PROVE  LET y == Orphan(x)
         IN  /\ y \in FrontStates /\ SameRole(x, y) /\ SameBinder(x, y)
             /\ y.enabled = x.enabled /\ y.heard = x.heard /\ y.dbus = x.dbus
             /\ y.wrapped = IF x.wrapped = "service" THEN "gone" ELSE x.wrapped
BY DEF FrontStates, Orphan, SameRole, SameBinder

LEMMA OrphanedIs ==
  ASSUME NEW p, Right(p), "here" \in p.exported
  PROVE  LET q == Orphaned(p)
         IN  /\ Complete(q, "gone") /\ Created(q) = Created(p)
             /\ q.manager = p.manager /\ q.localEntry = p.localEntry
             /\ q.exported = p.exported /\ q.replica = p.replica
             /\ \A f \in Created(p) :
                  /\ HasObject(q, f) /\ HasAdapter(q, f)
                  /\ LET x == p.fronts[f]
                         y == q.fronts[f]
                     IN  SameBinder(x, y) /\ y.started = x.started /\ y.enabled = x.enabled
<1>. DEFINE fronts == [f \in FrontEnd |-> Orphan(p.fronts[f])]
            used == {f \in FrontEnd : p.fronts[f].wrapped = "service"}
            unaware == p.unaware \union used
            a == [p EXCEPT !.fronts = fronts]
            q == Orphaned(p)
<1>1. p \in Processes /\ Complete(p, "service") /\ p.manager /\ p.localEntry
  BY DEF Right, Complete, Base
<1>2. fronts \in [FrontEnd -> FrontStates] /\ \A f \in FrontEnd : fronts[f] = Orphan(p.fronts[f])
  BY <1>1, FrontOf, OrphanIs
<1>3. unaware \in SUBSET FrontEnd
  BY <1>1, ProcessFields
<1>4. q = [a EXCEPT !.unaware = unaware]
  BY <1>1 DEF Orphaned, Processes
<1>. HIDE DEF fronts, unaware, q
<1>5. /\ q \in Processes /\ q.fronts = fronts /\ q.unaware = unaware
      /\ q.created = p.created /\ q.receivers = p.receivers /\ q.timers = p.timers
      /\ q.requests = p.requests /\ q.starved = p.starved /\ q.manager = p.manager
      /\ q.localEntry = p.localEntry /\ q.replica = p.replica /\ q.value = p.value
      /\ q.exported = p.exported
  <2>1. a \in Processes
    BY <1>1, <1>2 DEF Processes
  <2>2. /\ a.fronts = fronts
        /\ a.created = p.created /\ a.receivers = p.receivers /\ a.timers = p.timers
        /\ a.requests = p.requests /\ a.starved = p.starved /\ a.manager = p.manager
        /\ a.localEntry = p.localEntry /\ a.replica = p.replica /\ a.value = p.value
        /\ a.exported = p.exported
    BY <1>1 DEF Processes
  <2>. HIDE DEF a
  <2>. QED  BY <1>3, <1>4, <2>1, <2>2 DEF Processes
<1>6. \A f : SameLocal(p, q, f) /\ SameRequests(p, q, f)
  BY <1>5 DEF SameLocal, SameRequests, Receives, Pending, Asks
<1>7. Created(q) = Created(p) /\ Base(q)
  BY <1>1, <1>5 DEF Complete, Base, Created
<1>8. ASSUME NEW f \in FrontEnd
      PROVE  LET x == p.fronts[f]
                 y == q.fronts[f]
             IN  /\ SameRole(x, y) /\ SameBinder(x, y)
                 /\ y.enabled = x.enabled /\ y.heard = x.heard /\ y.dbus = x.dbus
                 /\ y.wrapped = IF x.wrapped = "service" THEN "gone" ELSE x.wrapped
  BY <1>1, <1>2, <1>5, FrontOf, OrphanIs
<1>9. ASSUME NEW f \in Created(p)
      PROVE  FrontOK(q, f, "gone") /\ HasObject(q, f) /\ HasAdapter(q, f)
  <2>. DEFINE x == p.fronts[f]
              y == q.fronts[f]
  <2>1. f \in FrontEnd
    BY <1>9, CreatedIs DEF Right, Complete
  <2>2. /\ SameRole(x, y) /\ SameBinder(x, y)
        /\ y.enabled = x.enabled /\ y.heard = x.heard /\ y.dbus = x.dbus
        /\ y.wrapped = IF x.wrapped = "service" THEN "gone" ELSE x.wrapped
    BY <1>8, <2>1
  <2>3. FrontOK(p, f, "service") /\ HasObject(p, f) /\ HasAdapter(p, f)
    BY <1>1, <1>9, <2>1 DEF Right, Complete
  <2>. HIDE DEF x, y
  <2>4. HasObject(q, f) /\ HasAdapter(q, f)
    BY <1>5, <1>6, <2>2, <2>3 DEF HasObject, HasAdapter, SameLocal, SameRole, x, y
  <2>5. Draft(q, f)
    BY <1>6, <2>2, <2>3 DEF FrontOK, Shaped, Draft, Silent, BinderOK, SameLocal, SameRequests,
                            SameRole, SameBinder, x, y
  <2>6. Shaped(q, f, "gone")
    <3>1. /\ f \notin Asynchronous =>
               (x.enabled <=> ~x.provider) /\ (x.provider => x.wrapped = "service")
          /\ f \in Asynchronous =>
               /\ ~x.enabled => x.wrapped = "local" /\ Receives(p, f)
               /\ x.enabled /\ Receives(p, f) => Pending(p, f)
          /\ x.enabled => x.started /\ x.wrapped = IF x.available THEN "dbus" ELSE "default"
      BY <2>3 DEF FrontOK, Shaped, x
    <3>. QED  BY <1>6, <2>2, <2>5, <3>1 DEF Shaped, SameLocal, SameRole, SameBinder, y
  <2>7. UpToDate(q, f)
    <3>0. x.heard \in State /\ x.wrapped \in Provider \union {"gone"}
      BY <1>1, <2>1, FrontOf, FrontFields DEF x
    <3>1. CASE x.wrapped = "service"
      <4>1. Offered(q, f, "gone") = [ready |-> FALSE, value |-> x.heard.value]
        BY <2>2 DEF Offered, x, y
      <4>2. f \in q.unaware
        BY <1>5, <2>1, <3>1 DEF unaware, x
      <4>. QED  BY <2>2, <3>1, <4>1, <4>2 DEF UpToDate, y
    <3>2. CASE x.wrapped # "service"
      <4>1. Offered(q, f, x.wrapped) = Offered(p, f, x.wrapped)
        BY <2>2, <3>0, <3>2 DEF Offered, Provider, SameRole, x, y
      <4>2. f \in p.unaware => f \in q.unaware
        BY <1>5 DEF unaware
      <4>. QED  BY <2>2, <2>3, <3>2, <4>1, <4>2 DEF FrontOK, UpToDate, x, y
    <3>. QED  BY <3>1, <3>2
  <2>. QED  BY <2>4, <2>6, <2>7 DEF FrontOK
<1>10. ASSUME NEW f \in FrontEnd \ Created(p)
       PROVE  Unborn(q, f)
  <2>1. Unborn(p, f)
    BY <1>1 DEF Complete
  <2>2. q.fronts[f] = NewFront
    <3>1. q.fronts[f] = Orphan(NewFront) /\ NewFront.wrapped = "default"
      BY <1>2, <1>5, <2>1 DEF Unborn, NewFront
    <3>. QED  BY <3>1 DEF Orphan
  <2>. QED  BY <1>6, <2>1, <2>2 DEF Unborn, Silent, SameLocal, SameRequests
<1>11. Complete(q, "gone")
  BY <1>1, <1>5, <1>7, <1>9, <1>10 DEF Complete
<1>12. Created(p) \subseteq FrontEnd
  BY <1>1, CreatedIs DEF Complete
<1>. QED  BY <1>5, <1>7, <1>8, <1>9, <1>11, <1>12 DEF q, SameRole

LEMMA DeletingIs ==
  ASSUME NEW p, Right(p), "here" \in p.exported, master \in BOOLEAN
  PROVE  LET q == SetManager(Destroyed(SetLocalEntry(WithoutDBus(Orphaned(p)), FALSE)), FALSE)
         IN  /\ Right(q) /\ q.exported = {} /\ Created(q) = Created(p)
             /\ q.replica = IF master THEN NoServer ELSE p.replica
             /\ master => \A f \in Created(p) : Withdrawn(p, q, f)
             /\ \A f \in Created(p) : Subscribed(p, f) => Subscribed(q, f)
<1>. DEFINE a == Orphaned(p)
            b == WithoutDBus(a)
            c == SetLocalEntry(b, FALSE)
            d == Destroyed(c)
            q == SetManager(d, FALSE)
<1>1. /\ Complete(a, "gone") /\ Created(a) = Created(p)
      /\ a.exported = p.exported /\ a.replica = p.replica
      /\ \A f \in Created(p) :
           /\ HasObject(a, f) /\ HasAdapter(a, f)
           /\ LET x == p.fronts[f]
                  y == a.fronts[f]
              IN  SameBinder(x, y) /\ y.started = x.started /\ y.enabled = x.enabled
  BY OrphanedIs
<1>. HIDE DEF a
<1>2. /\ Complete(b, "gone") /\ Created(b) = Created(a)
      /\ b.exported = a.exported \ {"here"}
      /\ b.replica = IF master THEN NoServer ELSE a.replica
      /\ \A f \in Created(a) : (master => Checked(a, b, f)) /\ (Subscribed(a, f) => Subscribed(b, f))
  BY <1>1, WithoutDBusIs
<1>. HIDE DEF b
<1>3. /\ Unregistered(b, c) /\ c.localEntry = FALSE /\ c.replica = b.replica
      /\ \A f \in Created(b) :
           FrontOK(c, f, "gone") /\ HasAdapter(c, f) /\ MayBind(b, c, f)
  <2>1. Base(b) /\ \A f \in Created(b) : FrontOK(b, f, "gone")
    BY <1>2, CreatedIs DEF Complete
  <2>. QED  BY <2>1, SetLocalEntryIs
<1>. HIDE DEF c
<1>4. Complete(c, "gone") /\ Created(c) = Created(p)
  BY <1>1, <1>2, <1>3, UnregisteredIsComplete DEF Unregistered, Created
<1>5. /\ Complete(d, "gone") /\ Created(d) = Created(c)
      /\ d.localEntry = c.localEntry
      /\ d.exported = c.exported /\ d.replica = c.replica /\ d.fronts = c.fronts
      /\ \A f \in Created(c) : HasAdapter(d, f)
  <2>1. ~c.localEntry /\ \A f \in Created(c) : HasAdapter(c, f)
    BY <1>1, <1>2, <1>3, <1>4
  <2>. QED  BY <1>4, <2>1, DestroyedIs
<1>. HIDE DEF d
<1>6. /\ Unregistered(d, q)
      /\ q.manager = FALSE /\ q.localEntry = d.localEntry /\ q.replica = d.replica
      /\ \A f \in Created(d) :
           /\ FrontOK(q, f, "service") /\ HasObject(q, f)
           /\ HasAdapter(d, f) => HasAdapter(q, f)
           /\ MayBind(d, q, f)
  <2>1. Base(d) /\ \A f \in Created(d) : FrontOK(d, f, "gone")
    BY <1>5, CreatedIs DEF Complete
  <2>. QED  BY <2>1, SetManagerIs
<1>. HIDE DEF q
<1>7. Complete(q, "service") /\ Created(q) = Created(p)
  BY <1>4, <1>5, <1>6, UnregisteredIsComplete DEF Unregistered, Created
<1>8. q.exported = {}
  <2>1. p.exported = {"here"}
    BY DEF Right
  <2>. QED  BY <1>1, <1>2, <1>3, <1>5, <1>6, <2>1 DEF Unregistered
<1>9. Right(q)
  BY <1>3, <1>4, <1>5, <1>6, <1>7, <1>8 DEF Right
<1>10. ASSUME master, NEW f \in Created(p)
       PROVE  Withdrawn(p, q, f)
  <2>1. /\ Checked(a, b, f) /\ MayBind(b, c, f) /\ b.replica = NoServer
        /\ MayBind(d, q, f) /\ d.replica = NoServer
    <3>1. b.replica = NoServer
      BY <1>2, <1>10
    <3>2. f \in Created(a) /\ f \in Created(b) /\ f \in Created(d)
      BY <1>1, <1>2, <1>4, <1>5, <1>10
    <3>3. Checked(a, b, f)
      BY <1>2, <1>10, <3>2
    <3>4. MayBind(b, c, f) /\ c.replica = b.replica
      BY <1>3, <3>2
    <3>5. MayBind(d, q, f) /\ d.replica = c.replica
      BY <1>5, <1>6, <3>2
    <3>. QED  BY <3>1, <3>3, <3>4, <3>5
  <2>2. c.fronts[f].server = b.fronts[f].server /\ c.fronts[f].outdated = b.fronts[f].outdated
    BY <2>1 DEF MayBind, SameBinder
  <2>3. q.fronts[f].server = c.fronts[f].server /\ q.fronts[f].outdated = c.fronts[f].outdated
    BY <1>5, <2>1 DEF MayBind, SameBinder
  <2>4. a.fronts[f].enabled => b.fronts[f].server = NoServer
    BY <2>1 DEF Checked
  <2>5. a.fronts[f].server = p.fronts[f].server /\ a.fronts[f].started = p.fronts[f].started
    BY <1>1 DEF SameBinder
  <2>6. ~a.fronts[f].enabled =>
          /\ b.fronts[f].server = p.fronts[f].server
          /\ p.fronts[f].started => b.fronts[f].outdated
    BY <2>1, <2>5 DEF Checked
  <2>. QED  BY <2>2, <2>3, <2>4, <2>6 DEF Withdrawn
<1>11. ASSUME NEW f \in Created(p), Subscribed(p, f)
       PROVE  Subscribed(q, f)
  <2>1. Subscribed(a, f)
    BY <1>1, <1>11 DEF SameBinder, Subscribed
  <2>2. Subscribed(c, f)
    BY <1>1, <1>2, <1>3, <1>11, <2>1, MayBindSubscribes
  <2>3. Subscribed(d, f) /\ f \in Created(d)
    BY <1>4, <1>5, <1>11, <2>2 DEF Subscribed
  <2>. QED  BY <1>6, <2>3, MayBindSubscribes
<1>. QED  BY <1>1, <1>2, <1>3, <1>5, <1>6, <1>7, <1>8, <1>9, <1>10, <1>11 DEF q, d, c, b, a

-----------------------------------------------------------------------------
(***************************************************************************)
(* Changes of values.                                                      *)
(***************************************************************************)
LEMMA EmitValueIs ==
  ASSUME NEW p, NEW signal \in Signals, signal.kind \in {"value", "update"}, Base(p)
  PROVE  LET q == Emitted(signal, p)
         IN  /\ Base(q) /\ Kept(p, q)
             /\ \A f \in Created(p) :
                  /\ Quiet(p, q, f) /\ Stored(signal, p, q, f)
                  /\ UpToDate(p, f) \/ (signal.kind = "value" /\ p.fronts[f].wrapped = "service") =>
                       UpToDate(q, f)
             /\ \A f \in FrontEnd \ Created(p) : Same(p, q, f)
<1>. DEFINE q == Emitted(signal, p)
<1>1. /\ q \in Processes /\ Kept(p, q) /\ IsInjective(q.receivers)
      /\ \A f \in Created(p) : SlotRan(signal, p, q, f)
      /\ \A f \in FrontEnd \ Created(p) : Same(p, q, f)
  BY EmittedIs DEF Base
<1>. HIDE DEF q
<1>2. Base(q)
  BY <1>1 DEF Base, Kept
<1>3. ASSUME NEW f \in Created(p)
      PROVE  /\ Quiet(p, q, f) /\ Stored(signal, p, q, f)
             /\ UpToDate(p, f) \/ (signal.kind = "value" /\ p.fronts[f].wrapped = "service") =>
                  UpToDate(q, f)
  <2>1. p \in Processes /\ f \in FrontEnd
    BY CreatedIs DEF Base
  <2>. QED  BY <1>1, <2>1, ValueSlotOK
<1>. QED  BY <1>1, <1>2, <1>3 DEF q

\* What the front ends have of the service, and the service of the process.
Housed(p) ==
  /\ Base(p) /\ p.starved \subseteq Asynchronous
  /\ p.localEntry = p.manager /\ (p.manager <=> "here" \in p.exported)
  /\ p.exported \in {{}, {"here"}, {"elsewhere"}}
  /\ \A f \in FrontEnd :
       IF f \in Created(p) THEN Shaped(p, f, "service") /\ HasObject(p, f) /\ HasAdapter(p, f)
       ELSE Unborn(p, f)

\* The front ends that wrap the service object may not have heard its value.
Unheard(p) ==
  /\ Housed(p)
  /\ \A f \in Created(p) : UpToDate(p, f) \/ p.fronts[f].wrapped = "service"

LEMMA RightIsHoused ==
  ASSUME NEW p
  PROVE  Right(p) <=> Housed(p) /\ \A f \in Created(p) : UpToDate(p, f)
<1>1. ASSUME Right(p)
      PROVE  Housed(p) /\ \A f \in Created(p) : UpToDate(p, f)
  BY <1>1, CreatedIs DEF Right, Complete, Housed, FrontOK
<1>2. ASSUME Housed(p), \A f \in Created(p) : UpToDate(p, f)
      PROVE  Right(p)
  BY <1>2, CreatedIs DEF Right, Complete, Housed, FrontOK
<1>. QED  BY <1>1, <1>2

\* The D-Bus binder of f is what it was.
SameLink(p, q, f) ==
  LET x == p.fronts[f]
      y == q.fronts[f]
  IN  SameBinder(x, y) /\ y.started = x.started /\ y.enabled = x.enabled /\ SameRequests(p, q, f)

\* Nothing but values has changed.
OnlyValues(p, q) ==
  /\ q.created = p.created /\ q.exported = p.exported /\ q.replica = p.replica
  /\ \A f \in FrontEnd : SameLink(p, q, f)

LEMMA OnlyValuesIsTransitive ==
  ASSUME NEW p, NEW q, NEW r, OnlyValues(p, q), OnlyValues(q, r)
  PROVE  OnlyValues(p, r)
<1>1. ASSUME NEW f \in FrontEnd
      PROVE  SameLink(p, r, f)
  <2>1. SameLink(p, q, f) /\ SameLink(q, r, f)
    BY DEF OnlyValues
  <2>. QED  BY <2>1 DEF SameLink, SameBinder, SameRequests
<1>. QED  BY <1>1 DEF OnlyValues

LEMMA QuietIsRight ==
  ASSUME NEW p, NEW q, Housed(p), Base(q), Kept(p, q),
         \A f \in Created(p) : Quiet(p, q, f),
         \A f \in FrontEnd \ Created(p) : Same(p, q, f)
  PROVE  /\ Housed(q) /\ OnlyValues(p, q)
         /\ (\A f \in Created(p) : UpToDate(q, f)) => Right(q)
<1>1. Created(q) = Created(p) /\ Created(p) \subseteq FrontEnd
  BY CreatedIs DEF Kept, Created, Housed
<1>2. ASSUME NEW f \in Created(p)
      PROVE  Shaped(q, f, "service") /\ HasObject(q, f) /\ HasAdapter(q, f)
  <2>1. Shaped(p, f, "service") /\ HasObject(p, f) /\ HasAdapter(p, f)
    BY <1>1 DEF Housed
  <2>. QED  BY <2>1, QuietOK
<1>3. \A f \in FrontEnd \ Created(p) : Unborn(q, f)
  BY SameIsUnborn DEF Housed
<1>4. Housed(q)
  BY <1>1, <1>2, <1>3 DEF Housed, Kept
<1>5. ASSUME NEW f \in FrontEnd
      PROVE  SameLink(p, q, f)
  <2>1. CASE f \in Created(p)
    <3>1. Quiet(p, q, f)
      BY <2>1
    <3>. QED  BY <3>1 DEF Quiet, SameLink
  <2>2. CASE f \notin Created(p)
    <3>1. Same(p, q, f)
      BY <2>2
    <3>. QED  BY <3>1 DEF Same, SameLink, SameBinder
  <2>. QED  BY <2>1, <2>2
<1>6. OnlyValues(p, q)
  BY <1>5 DEF OnlyValues, Kept
<1>. QED  BY <1>1, <1>4, <1>6, RightIsHoused

\* The Local IPC proxy of f is what it was.
SameProxy(p, q, f) == SameLocal(p, q, f) /\ q.fronts[f].local = p.fronts[f].local

LEMMA ToldIsRight ==
  ASSUME NEW p, Unheard(p)
  PROVE  /\ Right(ToldInProcess(p)) /\ OnlyValues(p, ToldInProcess(p))
         /\ Kept(p, ToldInProcess(p))
         /\ \A f \in Created(p) : SameProxy(p, ToldInProcess(p), f)
<1>. DEFINE signal == [kind |-> "value"]
            q == ToldInProcess(p)
<1>1. signal \in Signals /\ signal.kind = "value"
  BY DEF Signals
<1>2. q = Emitted(signal, p)
  BY DEF ToldInProcess
<1>. HIDE DEF signal, q
<1>3. /\ Base(q) /\ Kept(p, q)
      /\ \A f \in Created(p) :
           /\ Quiet(p, q, f) /\ Stored(signal, p, q, f)
           /\ UpToDate(p, f) \/ (signal.kind = "value" /\ p.fronts[f].wrapped = "service") =>
                UpToDate(q, f)
      /\ \A f \in FrontEnd \ Created(p) : Same(p, q, f)
  BY <1>1, <1>2, EmitValueIs DEF Unheard, Housed
<1>4. \A f \in Created(p) : UpToDate(q, f)
  BY <1>1, <1>3 DEF Unheard
<1>5. \A f \in Created(p) : SameProxy(p, q, f)
  BY <1>3 DEF Quiet, Stored, SameProxy
<1>. QED  BY <1>3, <1>4, <1>5, QuietIsRight DEF Unheard, q

\* An update from D-Bus.
LEMMA UpdateIsRight ==
  ASSUME NEW p, NEW signal \in Signals, signal.kind = "update", Right(p)
  PROVE  /\ Right(Emitted(signal, p)) /\ OnlyValues(p, Emitted(signal, p))
         /\ Kept(p, Emitted(signal, p))
         /\ \A f \in Created(p) :
              SameProxy(p, Emitted(signal, p), f) /\ Stored(signal, p, Emitted(signal, p), f)
<1>. DEFINE q == Emitted(signal, p)
<1>1. Housed(p) /\ \A f \in Created(p) : UpToDate(p, f)
  BY RightIsHoused
<1>2. /\ Base(q) /\ Kept(p, q)
      /\ \A f \in Created(p) :
           Quiet(p, q, f) /\ Stored(signal, p, q, f) /\ (UpToDate(p, f) => UpToDate(q, f))
      /\ \A f \in FrontEnd \ Created(p) : Same(p, q, f)
  BY <1>1, EmitValueIs DEF Housed
<1>. HIDE DEF q
<1>3. \A f \in Created(p) : SameProxy(p, q, f)
  BY <1>2 DEF Quiet, Stored, SameProxy
<1>. QED  BY <1>1, <1>2, <1>3, QuietIsRight DEF q

SetLocal(p, f, s) == SetFront(p, f, [p.fronts[f] EXCEPT !.local = s])

\* The Local IPC proxy of f has got values.
LEMMA LocalIsQuiet ==
  ASSUME NEW p \in Processes, NEW f \in FrontEnd, NEW s \in State
  PROVE  LET q == Forward(SetLocal(p, f, s), f, "local")
         IN  /\ Concerns(p, q, f) /\ Quiet(p, q, f) /\ SameRest(p, q)
             /\ UpToDate(p, f) => UpToDate(q, f)
             /\ q.fronts[f].local = s /\ SameStore(p, q, f)
<1>. DEFINE a == SetLocal(p, f, s)
            q == Forward(a, f, "local")
            x == p.fronts[f]
            z == [x EXCEPT !.local = s]
            w == a.fronts[f]
<1>1. x \in FrontStates
  BY FrontOf
<1>2. a = SetFront(p, f, z)
  BY DEF SetLocal
<1>. HIDE DEF x, a, q
<1>3. z \in FrontStates
  BY <1>1 DEF FrontStates
<1>4. /\ SameBinder(x, z) /\ z.provider = x.provider /\ z.started = x.started
      /\ z.enabled = x.enabled /\ z.wrapped = x.wrapped /\ z.heard = x.heard
      /\ z.dbus = x.dbus /\ z.local = s
  BY <1>1 DEF FrontStates, SameBinder
<1>. HIDE DEF z
<1>5. /\ a \in Processes /\ SameRest(p, a) /\ a.unaware = p.unaware
      /\ a.overtaken = p.overtaken /\ w = z /\ \A g \in FrontEnd \ {f} : a.fronts[g] = p.fronts[g]
  BY <1>2, <1>3, SetFrontIs
<1>6. Concerns(p, a, f) /\ SameLocal(p, a, f) /\ SameRequests(p, a, f)
  BY <1>5, OneFront
<1>7. /\ Concerns(a, q, f) /\ Quiet(a, q, f) /\ SameStore(a, q, f)
      /\ q.fronts[f].local = w.local
      /\ UpToDate(a, f) \/ w.wrapped = "local" => UpToDate(q, f)
  BY <1>5, ForwardIsQuiet DEF q
<1>8. SameRest(a, q)
  BY <1>5, ForwardIs DEF q
<1>9. Concerns(p, q, f)
  BY <1>6, <1>7, ConcernsIsTransitive
<1>10. Quiet(p, q, f)
  BY <1>4, <1>5, <1>6, <1>7
     DEF Quiet, SameBinder, SameLocal, SameRequests, SameRest, Kept, x
<1>11. SameRest(p, q)
  BY <1>5, <1>8 DEF SameRest, Kept
<1>12. ASSUME UpToDate(p, f)
       PROVE  UpToDate(q, f)
  <2>1. CASE w.wrapped = "local"
    BY <1>7, <2>1
  <2>2. CASE w.wrapped # "local"
    <3>1. x.wrapped \in Provider \union {"gone"} /\ x.wrapped # "local" /\ w.wrapped = x.wrapped
      BY <1>1, <1>4, <1>5, <2>2, FrontFields
    <3>2. Offered(a, f, x.wrapped) = Offered(p, f, x.wrapped)
      BY <1>4, <1>5, <3>1 DEF Offered, SameRest, Kept, Provider, x
    <3>3. UpToDate(a, f)
      BY <1>4, <1>5, <1>12, <3>1, <3>2 DEF UpToDate, x
    <3>. QED  BY <1>7, <3>3
  <2>. QED  BY <2>1, <2>2
<1>13. q.fronts[f].local = s /\ SameStore(p, q, f)
  BY <1>4, <1>5, <1>7 DEF SameStore, x
<1>. QED  BY <1>9, <1>10, <1>11, <1>12, <1>13 DEF q, a

\* The same front ends, with the same registries and another value.
SameFronts(p, q) ==
  /\ q.fronts = p.fronts /\ q.created = p.created /\ q.receivers = p.receivers
  /\ q.timers = p.timers /\ q.requests = p.requests /\ q.unaware = p.unaware
  /\ q.manager = p.manager /\ q.localEntry = p.localEntry
  /\ q.exported = p.exported /\ q.replica = p.replica

LEMMA SameFrontsAre ==
  ASSUME NEW p, NEW q \in Processes, Housed(p), SameFronts(p, q), q.starved \subseteq Asynchronous
  PROVE  Housed(q) /\ OnlyValues(p, q)
<1>1. Created(q) = Created(p) /\ Base(q)
  BY DEF SameFronts, Created, Housed, Base
<1>2. ASSUME NEW f
      PROVE  /\ SameLocal(p, q, f) /\ SameRequests(p, q, f) /\ q.fronts[f] = p.fronts[f]
             /\ Unborn(q, f) <=> Unborn(p, f)
             /\ Shaped(q, f, "service") <=> Shaped(p, f, "service")
             /\ HasObject(q, f) <=> HasObject(p, f)
             /\ HasAdapter(q, f) <=> HasAdapter(p, f)
  <2>1. SameLocal(p, q, f) /\ SameRequests(p, q, f) /\ q.fronts[f] = p.fronts[f]
    BY DEF SameFronts, SameLocal, SameRequests, Receives, Pending, Asks
  <2>2. Draft(q, f) <=> Draft(p, f)
    BY <2>1 DEF SameLocal, SameRequests, Draft, Silent, BinderOK
  <2>3. Shaped(q, f, "service") <=> Shaped(p, f, "service")
    BY <2>1, <2>2 DEF SameLocal, Shaped
  <2>4. Unborn(q, f) <=> Unborn(p, f)
    BY <2>1 DEF SameLocal, SameRequests, Unborn, Silent
  <2>. QED  BY <2>1, <2>3, <2>4 DEF SameFronts, HasObject, HasAdapter, Receives
<1>3. Housed(q)
  BY <1>1, <1>2 DEF Housed, SameFronts
<1>4. OnlyValues(p, q)
  BY <1>2 DEF OnlyValues, SameFronts, SameLink, SameBinder
<1>. QED  BY <1>3, <1>4

SetValueOf(p, v, overtaken, dropped) ==
  [p EXCEPT !.value = v, !.overtaken = overtaken, !.dropped = dropped]

LEMMA SetValueOfIs ==
  ASSUME NEW p, Unheard(p), NEW v \in Value, NEW o \in SUBSET FrontEnd, NEW d \in BOOLEAN
  PROVE  LET q == SetValueOf(p, v, o, d)
         IN  /\ Unheard(q) /\ OnlyValues(p, q) /\ q.value = v /\ q.sent = p.sent
             /\ SameFronts(p, q) /\ q.starved = p.starved
             /\ q.overtaken = o /\ q.dropped = d
             /\ Right(p) /\ "here" \notin p.exported => Right(q)
<1>. DEFINE q == SetValueOf(p, v, o, d)
<1>1. p \in Processes /\ Housed(p)
  BY DEF Unheard, Housed, Base
<1>2. /\ q \in Processes /\ SameFronts(p, q)
      /\ q.starved = p.starved /\ q.value = v /\ q.sent = p.sent
      /\ q.overtaken = o /\ q.dropped = d
  <2>1. [p EXCEPT !.value = v] \in Processes
    BY <1>1 DEF Processes
  <2>2. [[p EXCEPT !.value = v] EXCEPT !.overtaken = o] \in Processes
    BY <2>1 DEF Processes
  <2>3. [[[p EXCEPT !.value = v] EXCEPT !.overtaken = o] EXCEPT !.dropped = d] \in Processes
    BY <2>2 DEF Processes
  <2>4. q = [[[p EXCEPT !.value = v] EXCEPT !.overtaken = o] EXCEPT !.dropped = d]
    BY <1>1 DEF Processes, SetValueOf
  <2>. QED  BY <1>1, <2>3, <2>4 DEF Processes, SetValueOf, SameFronts
<1>. HIDE DEF q
<1>3. Housed(q) /\ OnlyValues(p, q) /\ Created(q) = Created(p)
  BY <1>1, <1>2, SameFrontsAre DEF Housed, SameFronts, Created
<1>4. ASSUME NEW f \in Created(p)
      PROVE  /\ UpToDate(q, f) \/ q.fronts[f].wrapped = "service"
             /\ Right(p) /\ "here" \notin p.exported => UpToDate(q, f)
  <2>1. f \in FrontEnd /\ p.fronts[f].wrapped \in Provider \union {"gone"}
    BY <1>1, CreatedIs, FrontOf, FrontFields DEF Housed
  <2>2. UpToDate(p, f) \/ p.fronts[f].wrapped = "service"
    BY DEF Unheard
  <2>3. CASE p.fronts[f].wrapped = "service"
    <3>1. ~(Right(p) /\ "here" \notin p.exported)
      BY <2>1, <2>3, NoObject
    <3>. QED  BY <1>2, <2>3, <3>1 DEF SameFronts
  <2>4. CASE p.fronts[f].wrapped # "service"
    <3>1. p.fronts[f].wrapped \in {"local", "dbus", "default", "gone"}
      BY <2>1, <2>4 DEF Provider
    <3>2. UpToDate(q, f) <=> UpToDate(p, f)
      BY <1>2, <3>1, ValueMatters DEF SameFronts
    <3>. QED  BY <2>2, <2>4, <3>2
  <2>. QED  BY <2>3, <2>4
<1>. QED  BY <1>2, <1>3, <1>4, RightIsHoused DEF Unheard, q, SameFronts

LEMMA ReceiversAre ==
  ASSUME NEW p, Housed(p)
  PROVE  /\ ToSet(p.receivers) \subseteq Asynchronous \intersect Created(p)
         /\ ToSet(p.receivers) \subseteq FrontEnd
<1>1. ASSUME NEW f \in ToSet(p.receivers)
      PROVE  f \in FrontEnd /\ f \in Created(p) /\ f \in Asynchronous
  <2>1. f \in FrontEnd /\ Receives(p, f)
    BY ProcessFields, ElementsOf DEF Housed, Base, Receives
  <2>2. f \in Created(p)
    BY <2>1 DEF Housed, Unborn, Silent
  <2>3. f \in Asynchronous
    BY <2>1, <2>2 DEF Housed, Shaped, Draft, Silent
  <2>. QED  BY <2>1, <2>2, <2>3
<1>. QED  BY <1>1

LEMMA HeadAndTail ==
  ASSUME NEW S, NEW s \in Seq(S), s # <<>>
  PROVE  /\ Head(s) \in ToSet(s) /\ Head(s) \in S /\ Tail(s) \in Seq(S)
         /\ ToSet(s) = {Head(s)} \union ToSet(Tail(s))
<1>. DEFINE N == Len(s)
            t == Tail(s)
<1>1. /\ N \in Nat /\ N >= 1 /\ Head(s) = s[1] /\ t \in Seq(S) /\ Len(t) = N - 1
      /\ \A i \in 1 .. N - 1 : t[i] = s[i + 1]
  BY HeadTailProperties, EmptySeq, LenProperties
<1>2. DOMAIN s = 1 .. N /\ DOMAIN t = 1 .. N - 1
  BY <1>1, LenProperties
<1>. HIDE DEF t, N
<1>3. 1 \in 1 .. N /\ Head(s) \in ToSet(s)
  BY <1>1, <1>2 DEF ToSet
<1>4. ASSUME NEW e \in ToSet(s)
      PROVE  e = Head(s) \/ e \in ToSet(t)
  <2>1. PICK i \in 1 .. N : e = s[i]
    BY <1>2 DEF ToSet
  <2>2. CASE i = 1
    BY <1>1, <2>1, <2>2
  <2>3. CASE i # 1
    <3>1. i - 1 \in 1 .. N - 1 /\ t[i - 1] = s[i]
      BY <1>1, <2>1, <2>3
    <3>. QED  BY <1>2, <2>1, <3>1 DEF ToSet
  <2>. QED  BY <2>2, <2>3
<1>5. ASSUME NEW e \in ToSet(t)
      PROVE  e \in ToSet(s)
  <2>1. PICK i \in 1 .. N - 1 : e = t[i]
    BY <1>2 DEF ToSet
  <2>2. i + 1 \in 1 .. N /\ t[i] = s[i + 1]
    BY <1>1, <2>1
  <2>. QED  BY <1>2, <2>1, <2>2 DEF ToSet
<1>6. Head(s) \in S
  BY <1>3, ElementsOf
<1>. QED  BY <1>1, <1>3, <1>4, <1>5, <1>6 DEF t

SetSent(p, v, starved) == [p EXCEPT !.sent = v, !.starved = starved]

LEMMA SetSentIs ==
  ASSUME NEW p, Unheard(p), NEW v \in Value, NEW s \in SUBSET Asynchronous
  PROVE  LET q == SetSent(p, v, s)
         IN  /\ Unheard(q) /\ OnlyValues(p, q) /\ SameFronts(p, q)
             /\ q.value = p.value /\ q.sent = v /\ q.starved = s /\ q.dropped = p.dropped
<1>. DEFINE q == SetSent(p, v, s)
<1>1. p \in Processes /\ Housed(p) /\ s \in SUBSET FrontEnd
  BY ConstantsAssumption DEF Unheard, Housed, Base
<1>2. /\ q \in Processes /\ SameFronts(p, q) /\ q.starved = s /\ q.value = p.value
      /\ q.sent = v /\ q.dropped = p.dropped
  <2>1. [p EXCEPT !.sent = v] \in Processes
    BY <1>1 DEF Processes
  <2>2. [[p EXCEPT !.sent = v] EXCEPT !.starved = s] \in Processes
    BY <1>1, <2>1 DEF Processes
  <2>3. q = [[p EXCEPT !.sent = v] EXCEPT !.starved = s]
    BY <1>1 DEF Processes, SetSent
  <2>. QED  BY <1>1, <2>2, <2>3 DEF Processes, SetSent, SameFronts
<1>. HIDE DEF q
<1>3. Housed(q) /\ OnlyValues(p, q) /\ Created(q) = Created(p)
  BY <1>1, <1>2, SameFrontsAre DEF SameFronts, Created
<1>4. \A f \in Created(p) : UpToDate(q, f) \/ q.fronts[f].wrapped = "service"
  BY <1>2, OfferDepends DEF Unheard, SameFronts
<1>. QED  BY <1>2, <1>3, <1>4 DEF Unheard, q, SameFronts

LEMMA SendSignalIs ==
  ASSUME NEW p, Unheard(p)
  PROVE  LET q == SendSignal(p)
         IN  /\ Unheard(q) /\ OnlyValues(p, q)
             /\ q.value = p.value /\ q.sent = p.value /\ q.dropped = p.dropped
             /\ p.starved \subseteq q.starved
             /\ \A f \in Created(p) :
                  /\ SameLocal(p, q, f)
                  /\ p.sent # p.value /\ Receives(p, f) =>
                       f \in q.starved \/ q.fronts[f].local.value = p.value
<1>. DEFINE first == Head(p.receivers)
            s == [p.fronts[first].local EXCEPT !.value = p.value]
            got == SetLocal(p, first, s)
            r == Forward(got, first, "local")
            starved == r.starved \union ToSet(Tail(p.receivers))
            q == SendSignal(p)
<1>1. p \in Processes /\ p.value \in Value /\ p.starved \subseteq Asynchronous /\ Housed(p)
  BY ProcessFields DEF Unheard, Housed, Base
<1>2. CASE p.sent = p.value \/ p.receivers = <<>>
  <2>1. q = [p EXCEPT !.sent = p.value]
    BY <1>2 DEF SendSignal
  <2>2. q = SetSent(p, p.value, p.starved)
    BY <1>1, <2>1 DEF SetSent, Processes
  <2>. HIDE DEF q
  <2>3. /\ Unheard(q) /\ OnlyValues(p, q) /\ SameFronts(p, q)
        /\ q.value = p.value /\ q.sent = p.value /\ q.starved = p.starved
        /\ q.dropped = p.dropped
    BY <1>1, <2>2, SetSentIs
  <2>4. \A f : SameLocal(p, q, f)
    BY <2>3 DEF SameFronts, SameLocal, Receives, Pending
  <2>5. p.sent # p.value => \A f : ~Receives(p, f)
    BY <1>2 DEF Receives, ToSet
  <2>. QED  BY <2>3, <2>4, <2>5 DEF q
<1>3. CASE ~(p.sent = p.value \/ p.receivers = <<>>)
  <2>1. /\ first \in ToSet(p.receivers) /\ first \in FrontEnd
        /\ ToSet(Tail(p.receivers)) \subseteq ToSet(p.receivers)
        /\ ToSet(p.receivers) = {first} \union ToSet(Tail(p.receivers))
    BY <1>1, <1>3, ProcessFields, HeadAndTail
  <2>2. /\ first \in Asynchronous /\ first \in Created(p)
        /\ ToSet(Tail(p.receivers)) \subseteq Asynchronous
    BY <1>1, <2>1, ReceiversAre
  <2>3. q = SetSent(r, p.value, starved)
    <3>1. got = [p EXCEPT !.fronts[first].local.value = p.value]
      <4>1. p.fronts[first] \in FrontStates
        BY <1>1, <2>1, FrontOf
      <4>. QED  BY <1>1, <4>1 DEF SetLocal, SetFront, Processes, FrontStates
    <3>. HIDE DEF got
    <3>. QED  BY <1>3, <3>1 DEF SendSignal, SetSent
  <2>4. s \in State
    <3>1. p.fronts[first].local \in State
      BY <1>1, <2>1, FrontOf, FrontFields
    <3>. QED  BY <1>1, <3>1 DEF State
  <2>13. s.value = p.value
    <3>1. p.fronts[first].local \in State
      BY <1>1, <2>1, FrontOf, FrontFields
    <3>. QED  BY <1>1, <3>1 DEF State
  <2>. HIDE DEF first, s, got, q
  <2>5. /\ Concerns(p, r, first) /\ Quiet(p, r, first) /\ SameRest(p, r)
        /\ UpToDate(p, first) => UpToDate(r, first)
        /\ r.fronts[first].local = s
    BY <1>1, <2>1, <2>4, LocalIsQuiet DEF got
  <2>. HIDE DEF r
  <2>6. Base(r) /\ Kept(p, r) /\ Created(r) = Created(p) /\ r.starved = p.starved
    BY <1>1, <2>5 DEF Concerns, Housed, Base, Kept, Created
  <2>7. \A f \in FrontEnd \ {first} : Same(p, r, f)
    BY <2>5 DEF Concerns
  <2>8. ASSUME NEW f \in Created(p)
        PROVE  Quiet(p, r, f) /\ (UpToDate(p, f) => UpToDate(r, f))
    <3>1. CASE f = first
      BY <2>5, <3>1
    <3>2. CASE f # first
      <4>1. Same(p, r, f)
        BY <1>1, <2>7, <3>2, CreatedIs DEF Housed
      <4>. QED  BY <2>6, <4>1, SameIsUpToDate DEF Same, Quiet, SameBinder
    <3>. QED  BY <3>1, <3>2
  <2>9. \A f \in FrontEnd \ Created(p) : Same(p, r, f)
    BY <2>2, <2>7
  <2>10. Housed(r) /\ OnlyValues(p, r)
    BY <1>1, <2>6, <2>8, <2>9, QuietIsRight
  <2>11. Unheard(r)
    BY <2>6, <2>8, <2>10 DEF Unheard, Quiet
  <2>12. starved \in SUBSET Asynchronous
    BY <1>1, <2>2, <2>6
  <2>14. p.starved \subseteq starved /\ ToSet(Tail(p.receivers)) \subseteq starved
    BY <2>6
  <2>. HIDE DEF starved
  <2>15. /\ Unheard(q) /\ OnlyValues(r, q) /\ SameFronts(r, q)
         /\ q.value = r.value /\ q.sent = p.value /\ q.starved = starved
         /\ q.dropped = r.dropped
    BY <1>1, <2>3, <2>11, <2>12, SetSentIs
  <2>16. ASSUME NEW f \in Created(p)
         PROVE  /\ SameLocal(p, q, f)
                /\ Receives(p, f) => f \in q.starved \/ q.fronts[f].local.value = p.value
    <3>1. SameLocal(p, r, f)
      BY <2>8, <2>16 DEF Quiet
    <3>2. SameLocal(p, q, f)
      BY <2>15, <3>1 DEF SameFronts, SameLocal, Receives, Pending
    <3>3. Receives(p, f) => f = first \/ f \in starved
      BY <2>1, <2>14 DEF Receives
    <3>4. q.fronts[first].local.value = p.value
      BY <2>5, <2>13, <2>15 DEF SameFronts
    <3>. QED  BY <2>15, <3>2, <3>3, <3>4
  <2>. QED  BY <2>6, <2>10, <2>14, <2>15, <2>16, OnlyValuesIsTransitive DEF Kept, q
<1>. QED  BY <1>2, <1>3

\* The service of another process comes or goes.
SetElsewhere(p, v, exported) == [p EXCEPT !.value = v, !.exported = exported]

LEMMA SetElsewhereIs ==
  ASSUME NEW p, Right(p), NEW v \in Value, "here" \notin p.exported,
         NEW e \in {{}, {"elsewhere"}}
  PROVE  LET q == SetElsewhere(p, v, e)
         IN  /\ Right(q) /\ q.exported = e /\ q.created = p.created /\ q.replica = p.replica
             /\ q.fronts = p.fronts /\ q.requests = p.requests
<1>. DEFINE q == SetElsewhere(p, v, e)
<1>1. p \in Processes /\ e \in SUBSET Server /\ Complete(p, "service")
  BY DEF Right, Complete, Base, Server
<1>2. /\ q \in Processes /\ q.fronts = p.fronts /\ q.unaware = p.unaware
      /\ q.created = p.created /\ q.receivers = p.receivers /\ q.timers = p.timers
      /\ q.overtaken = p.overtaken
      /\ q.requests = p.requests /\ q.starved = p.starved /\ q.manager = p.manager
      /\ q.localEntry = p.localEntry /\ q.replica = p.replica /\ q.exported = e
  <2>1. [p EXCEPT !.value = v] \in Processes
    BY <1>1 DEF Processes
  <2>2. [[p EXCEPT !.value = v] EXCEPT !.exported = e] \in Processes
    BY <1>1, <2>1 DEF Processes
  <2>3. q = [[p EXCEPT !.value = v] EXCEPT !.exported = e]
    BY <1>1 DEF Processes, SetElsewhere
  <2>. QED  BY <1>1, <2>2, <2>3 DEF Processes, SetElsewhere
<1>. HIDE DEF q
<1>3. Created(q) = Created(p) /\ Base(q)
  BY <1>1, <1>2 DEF Complete, Base, Created
<1>4. ASSUME NEW f
      PROVE  SameLocal(p, q, f) /\ SameRequests(p, q, f) /\ Same(p, q, f)
  BY <1>2 DEF Same, SameLocal, SameRequests, Receives, Pending, Asks
<1>5. ASSUME NEW f \in Created(p)
      PROVE  FrontOK(q, f, "service") /\ HasObject(q, f) /\ HasAdapter(q, f)
  <2>1. f \in FrontEnd /\ FrontOK(p, f, "service") /\ HasObject(p, f) /\ HasAdapter(p, f)
    BY <1>1, CreatedIs DEF Right, Complete
  <2>2. p.fronts[f].wrapped \in {"local", "dbus", "default", "gone"}
    BY <2>1, NoObject
  <2>3. UpToDate(q, f)
    BY <1>2, <2>1, <2>2, ValueMatters DEF FrontOK
  <2>4. Draft(q, f)
    BY <1>4, <2>1 DEF FrontOK, Shaped, Draft, Silent, BinderOK, Same, SameLocal, SameRequests
  <2>5. Shaped(q, f, "service")
    BY <1>4, <2>1, <2>4 DEF FrontOK, Shaped, Same, SameLocal
  <2>6. HasObject(q, f) /\ HasAdapter(q, f)
    BY <1>2, <1>4, <2>1 DEF HasObject, HasAdapter, SameLocal
  <2>. QED  BY <2>3, <2>5, <2>6 DEF FrontOK
<1>6. Complete(q, "service")
  BY <1>1, <1>2, <1>3, <1>4, <1>5, SameIsUnborn DEF Complete
<1>7. Right(q)
  <2>1. q.localEntry = q.manager /\ (q.manager <=> "here" \in q.exported)
    BY <1>2 DEF Right
  <2>. QED  BY <1>2, <1>3, <1>5, <1>6, <2>1 DEF Right
<1>. QED  BY <1>2, <1>7 DEF q

-----------------------------------------------------------------------------
(***************************************************************************)
(* Requests and timers.                                                    *)
(***************************************************************************)
LEMMA SameIsRight ==
  ASSUME NEW p, NEW q, Right(p), Base(q), Kept(p, q), \A f \in FrontEnd : Same(p, q, f)
  PROVE  Right(q) /\ OnlyValues(p, q)
<1>1. Housed(p) /\ \A f \in Created(p) : f \in FrontEnd /\ UpToDate(p, f)
  BY RightIsHoused, CreatedIs DEF Housed
<1>2. ASSUME NEW f \in Created(p)
      PROVE  Quiet(p, q, f) /\ UpToDate(q, f)
  <2>1. Same(p, q, f) /\ UpToDate(p, f)
    BY <1>1
  <2>. QED  BY <2>1, SameIsUpToDate DEF Same, Quiet, SameBinder
<1>. QED  BY <1>1, <1>2, QuietIsRight

\* A service has a request of one front end less.
LEMMA RequestTakenIs ==
  ASSUME NEW p, Right(p), NEW server \in Server, p.requests[server] # <<>>
  PROVE  LET q == SetRequests(p, server, Tail(p.requests[server]))
             f == Head(p.requests[server])
         IN  /\ Right(q) /\ Kept(p, q) /\ q.fronts = p.fronts
             /\ q.overtaken = p.overtaken
             /\ \A g : SameLocal(p, q, g)
             /\ f \in Asynchronous /\ f \in Created(p)
             /\ \A g \in FrontEnd, s \in Server :
                  Asks(p, g, s) => Asks(q, g, s) \/ (s = server /\ g = f)
<1>. DEFINE queue == p.requests[server]
            t == Tail(queue)
            q == SetRequests(p, server, t)
            f == Head(queue)
<1>1. p \in Processes /\ Complete(p, "service")
  BY DEF Right, Complete, Base
<1>2. queue \in Seq(FrontEnd) /\ queue # <<>>
  BY <1>1, ProcessFields
<1>3. t \in Seq(FrontEnd) /\ f \in ToSet(queue) /\ ToSet(queue) = {f} \union ToSet(t)
      /\ f \in FrontEnd
  <2>. HIDE DEF queue
  <2>. QED  BY <1>2, HeadAndTail
<1>4. Asks(p, f, server)
  BY <1>3 DEF Asks
<1>5. f \in Created(p)
  BY <1>1, <1>3, <1>4 DEF Complete, Unborn, Silent
<1>6. f \in Asynchronous
  BY <1>1, <1>3, <1>4, <1>5 DEF Complete, FrontOK, Shaped, Draft, Silent
<1>. HIDE DEF t, f
<1>7. /\ q \in Processes /\ Kept(p, q) /\ q.fronts = p.fronts
      /\ q.receivers = p.receivers /\ q.timers = p.timers /\ q.unaware = p.unaware
      /\ q.overtaken = p.overtaken
      /\ q.requests[server] = t
      /\ \A s \in Server \ {server} : q.requests[s] = p.requests[s]
  BY <1>1, <1>3, RequestsAre
<1>. HIDE DEF q
<1>8. ASSUME NEW g, NEW s \in Server
      PROVE  /\ Asks(q, g, s) => Asks(p, g, s)
             /\ Asks(p, g, s) => Asks(q, g, s) \/ (s = server /\ g = f)
  BY <1>3, <1>7 DEF Asks
<1>9. \A g : SameLocal(p, q, g)
  BY <1>7 DEF SameLocal, Receives, Pending
<1>10. Created(q) = Created(p) /\ Base(q)
  BY <1>1, <1>7 DEF Complete, Base, Created, Kept
<1>11. ASSUME NEW g \in Created(p)
       PROVE  FrontOK(q, g, "service") /\ HasObject(q, g) /\ HasAdapter(q, g)
  <2>1. g \in FrontEnd /\ FrontOK(p, g, "service") /\ HasObject(p, g) /\ HasAdapter(p, g)
    BY <1>1, CreatedIs DEF Right, Complete
  <2>2. UpToDate(q, g)
    BY <1>7, <2>1, OfferDepends DEF FrontOK, Kept
  <2>3. Draft(q, g)
    <3>1. Silent(p, g) => Silent(q, g)
      BY <1>8, <1>9 DEF Silent, SameLocal
    <3>. QED  BY <1>7, <2>1, <3>1 DEF FrontOK, Shaped, Draft, BinderOK
  <2>4. Shaped(q, g, "service")
    BY <1>7, <1>9, <2>1, <2>3 DEF FrontOK, Shaped, SameLocal
  <2>5. HasObject(q, g) /\ HasAdapter(q, g)
    BY <1>7, <1>9, <2>1 DEF HasObject, HasAdapter, SameLocal, Kept
  <2>. QED  BY <2>2, <2>4, <2>5 DEF FrontOK
<1>12. \A g \in FrontEnd \ Created(p) : Unborn(q, g)
  BY <1>1, <1>7, <1>8, <1>9 DEF Complete, Unborn, Silent, SameLocal
<1>13. Complete(q, "service")
  BY <1>1, <1>7, <1>10, <1>11, <1>12 DEF Complete, Kept
<1>14. Right(q)
  BY <1>7, <1>10, <1>11, <1>13 DEF Right, Kept
<1>. QED  BY <1>5, <1>6, <1>7, <1>8, <1>9, <1>14 DEF q, f, t

SetTimers(p, timers) == SetLists(p, p.receivers, timers)

\* Timers of calls come and go.
LEMMA CallTimersAre ==
  ASSUME NEW p, Right(p), NEW t \in Seq(Timer), NEW call, call.kind = "call",
         ToSet(t) \union {call} = ToSet(p.timers) \union {call}
  PROVE  /\ Right(SetTimers(p, t)) /\ OnlyValues(p, SetTimers(p, t)) /\ Kept(p, SetTimers(p, t))
         /\ \A f : Same(p, SetTimers(p, t), f)
<1>. DEFINE q == SetTimers(p, t)
<1>1. p \in Processes /\ Base(p)
  BY DEF Right, Complete, Base
<1>2. /\ q \in Processes /\ Kept(p, q) /\ q.fronts = p.fronts
      /\ q.receivers = p.receivers /\ q.timers = t /\ q.requests = p.requests
      /\ q.unaware = p.unaware /\ q.overtaken = p.overtaken
  BY <1>1, ProcessFields, ListsAre DEF SetTimers
<1>. HIDE DEF q
<1>3. ASSUME NEW f
      PROVE  Same(p, q, f)
  <2>1. Reading(f) # call
    BY DEF Reading
  <2>2. Reading(f) \in ToSet(t) <=> Reading(f) \in ToSet(p.timers)
    BY <2>1
  <2>. QED  BY <1>2, <2>2 DEF Same, SameLocal, SameRequests, Receives, Pending, Asks
<1>4. Base(q)
  BY <1>1, <1>2 DEF Base, Kept
<1>. QED  BY <1>2, <1>3, <1>4, SameIsRight DEF q

-----------------------------------------------------------------------------
(***************************************************************************)
(* A new front end.                                                        *)
(***************************************************************************)
LEMMA NewFrontIs ==
  /\ NewFront.provider = FALSE /\ NewFront.wrapped = "default"
  /\ NewFront.heard = NotReady /\ NewFront.started = FALSE /\ NewFront.enabled = TRUE
  /\ NewFront.available = FALSE /\ NewFront.server = NoServer /\ NewFront.outdated = FALSE
BY DEF NewFront

LEMMA UnbornIs ==
  ASSUME NEW p, NEW f, Unborn(p, f)
  PROVE  Draft(p, f) /\ UpToDate(p, f)
<1>1. Draft(p, f)
  BY NewFrontIs DEF Unborn, Draft, BinderOK
<1>2. Offered(p, f, "default") = NotReady
  BY DEF Offered
<1>3. UpToDate(p, f)
  BY <1>2, NewFrontIs DEF Unborn, UpToDate
<1>. QED  BY <1>1, <1>3

\* The binder looks for the service object first.
LEMMA LookedIs ==
  ASSUME NEW p \in Processes, NEW f \in FrontEnd, Unborn(p, f)
  PROVE  LET q == CheckLocalAdapter(p, f)
             y == q.fronts[f]
         IN  /\ Concerns(p, q, f) /\ Draft(q, f) /\ UpToDate(q, f) /\ HasObject(q, f)
             /\ y.server = NoServer /\ ~y.started
             /\ ~y.provider => q = p
<1>. DEFINE q == CheckLocalAdapter(p, f)
            u == Provided(p, f)
            y == q.fronts[f]
<1>1. Draft(p, f) /\ UpToDate(p, f)
  BY UnbornIs
<1>2. /\ Concerns(p, q, f)
      /\ IF f \notin Asynchronous /\ p.fronts[f].provider # p.manager
         THEN q = RefreshProvider(u, f) ELSE q = p
  BY CheckLocalAdapterConcerns
<1>3. p.manager \in BOOLEAN /\ p.fronts[f].provider = FALSE
  BY ProcessFields, NewFrontIs DEF Unborn
<1>4. CASE f \notin Asynchronous /\ p.fronts[f].provider # p.manager
  <2>1. /\ Concerns(p, u, f) /\ SameLocal(p, u, f) /\ SameRequests(p, u, f)
        /\ u.fronts[f].provider = p.manager /\ SameBinder(p.fronts[f], u.fronts[f])
        /\ u.fronts[f].started = p.fronts[f].started
        /\ UpToDate(u, f)
    BY <1>1, ProvidedIs
  <2>. HIDE DEF u
  <2>2. p.manager /\ u \in Processes /\ u.manager = p.manager
    BY <1>3, <1>4, <2>1 DEF Concerns, Kept
  <2>3. Draft(u, f) /\ HasObject(u, f)
    BY <1>1, <1>4, <2>1, <2>2
       DEF Draft, Silent, BinderOK, SameLocal, SameRequests, SameBinder, HasObject
  <2>. HIDE DEF q
  <2>4. q = RefreshProvider(u, f)
    BY <1>2, <1>4
  <2>5. /\ Refreshed(u, q, f) /\ FrontOK(q, f, "service")
        /\ HasObject(u, f) => HasObject(q, f)
    BY <2>1, <2>2, <2>3, <2>4, RefreshProviderOK
  <2>6. y.provider = u.fronts[f].provider /\ y.server = u.fronts[f].server
        /\ y.started = u.fronts[f].started
    BY <2>1, <2>2, <2>5, Zenon DEF Refreshed, SameBinder
  <2>7. y.server = NoServer /\ ~y.started /\ y.provider
    BY <2>1, <2>2, <2>6, NewFrontIs DEF Unborn, SameBinder
  <2>. QED  BY <1>2, <2>3, <2>5, <2>7 DEF FrontOK, Shaped, q
<1>5. CASE ~(f \notin Asynchronous /\ p.fronts[f].provider # p.manager)
  <2>1. q = p
    BY <1>2, <1>5
  <2>2. HasObject(p, f)
    BY <1>5 DEF HasObject
  <2>. HIDE DEF q
  <2>. QED  BY <1>1, <1>2, <2>1, <2>2, NewFrontIs DEF Unborn, q
<1>. QED  BY <1>4, <1>5

\* A new front end is bound to the server of the replica, or not bound.
Begun(p, q, f) ==
  LET y == q.fronts[f]
  IN  IF y.enabled /\ p.replica # NoServer
      THEN Bound(p, q, f) ELSE y.server = NoServer

Completed(p, f) ==
  LET q == RefreshProvider(CheckLocalAdapter(p, f), f)
  IN  [q EXCEPT !.created = Append(@, f)]

LEMMA CompletedIs ==
  ASSUME NEW p, Right(p), NEW f \in FrontEnd, f \notin Created(p)
  PROVE  LET q == Completed(p, f)
         IN  /\ Right(q) /\ Created(q) = Created(p) \union {f}
             /\ q.exported = p.exported /\ q.replica = p.replica /\ SameService(p, q)
             /\ f \in Asynchronous /\ Receives(q, f) => Pending(q, f)
             /\ Begun(p, q, f)
             /\ q.fronts[f].started => q.fronts[f].enabled
             /\ "here" \in p.exported => ~q.fronts[f].enabled
             /\ \A g \in FrontEnd \ {f} : Same(p, q, g)
<1>. DEFINE a == CheckLocalAdapter(p, f)
            b == RefreshProvider(a, f)
            created == Append(b.created, f)
            q == Completed(p, f)
            y == q.fronts[f]
<1>1. p \in Processes /\ Complete(p, "service") /\ Base(p) /\ Unborn(p, f)
  BY DEF Right, Complete, Base
<1>2. /\ Concerns(p, a, f) /\ Draft(a, f) /\ UpToDate(a, f) /\ HasObject(a, f)
      /\ a.fronts[f].server = NoServer /\ ~a.fronts[f].started
      /\ ~a.fronts[f].provider => a = p
  BY <1>1, LookedIs
<1>3. a \in Processes /\ Kept(p, a)
  BY <1>2 DEF Concerns
<1>. HIDE DEF a
<1>4. Refreshed(a, b, f) /\ FrontOK(b, f, "service") /\ HasObject(b, f)
  BY <1>2, <1>3, RefreshProviderOK
<1>5. Concerns(a, b, f)
  BY <1>4 DEF Refreshed
<1>6. Concerns(p, b, f)
  BY <1>2, <1>5, ConcernsIsTransitive
<1>. HIDE DEF b
<1>7. b \in Processes /\ Kept(p, b) /\ IsInjective(b.receivers)
      /\ \A g \in FrontEnd \ {f} : Same(p, b, g)
  BY <1>1, <1>6 DEF Concerns, Base
<1>8. b.created = p.created /\ p.created \in Seq(FrontEnd) /\ IsInjective(p.created)
      /\ f \notin ToSet(p.created)
  BY <1>1, <1>7, ProcessFields DEF Kept, Base, Created
<1>9. created \in Seq(FrontEnd) /\ ToSet(created) = ToSet(p.created) \union {f}
      /\ IsInjective(created)
  BY <1>8, AppendIs
<1>10. q = [b EXCEPT !.created = created]
  BY DEF Completed, b, a
<1>. HIDE DEF created, q
<1>11. /\ q \in Processes /\ q.fronts = b.fronts /\ q.receivers = b.receivers
       /\ q.timers = b.timers /\ q.requests = b.requests /\ q.unaware = b.unaware
       /\ q.overtaken = b.overtaken
       /\ q.value = b.value /\ q.starved = b.starved /\ q.manager = b.manager
       /\ q.localEntry = b.localEntry /\ q.exported = b.exported /\ q.replica = b.replica
       /\ q.created = created /\ q.sent = b.sent /\ q.dropped = b.dropped
  BY <1>7, <1>9, <1>10 DEF Processes
<1>12. Created(q) = Created(p) \union {f} /\ Base(q)
  BY <1>7, <1>9, <1>11 DEF Base, Created
<1>13. ASSUME NEW g
       PROVE  /\ Same(b, q, g) /\ (FrontOK(q, g, "service") <=> FrontOK(b, g, "service"))
              /\ HasObject(q, g) <=> HasObject(b, g)
              /\ HasAdapter(q, g) <=> HasAdapter(b, g)
  BY <1>11, SameProcess
<1>14. \A g \in FrontEnd \ {f} : Same(p, q, g)
  BY <1>7, <1>13, SameIsTransitive
<1>15. ASSUME f \in Asynchronous
       PROVE  a = p
  BY <1>2, <1>15 DEF Draft
<1>16. HasAdapter(b, f)
  <2>1. ASSUME f \in Asynchronous
        PROVE  Receives(b, f) <=> b.localEntry
    <3>1. IF p.localEntry THEN Receives(b, f) ELSE SameLocal(p, b, f)
      <4>1. Refreshed(p, b, f) /\ ~Receives(p, f)
        BY <1>1, <1>4, <1>15, <2>1 DEF Unborn, Silent
      <4>. QED  BY <2>1, <4>1, Zenon DEF Refreshed
    <3>2. ~Receives(p, f) /\ b.localEntry = p.localEntry
      BY <1>1, <1>7 DEF Unborn, Silent, Kept
    <3>. QED  BY <3>1, <3>2 DEF SameLocal
  <2>. QED  BY <2>1 DEF HasAdapter
<1>17. ASSUME NEW g \in Created(p)
       PROVE  FrontOK(q, g, "service") /\ HasObject(q, g) /\ HasAdapter(q, g)
  <2>1. g \in FrontEnd /\ g # f /\ FrontOK(p, g, "service") /\ HasObject(p, g) /\ HasAdapter(p, g)
    BY <1>1, CreatedIs DEF Right, Complete
  <2>2. Same(p, b, g)
    BY <1>7, <2>1
  <2>. QED  BY <1>7, <1>13, <2>1, <2>2, SameIsOK
<1>18. \A g \in FrontEnd \ Created(q) : Unborn(q, g)
  BY <1>1, <1>12, <1>14, SameIsUnborn DEF Complete
<1>19. Complete(q, "service")
  BY <1>1, <1>4, <1>7, <1>11, <1>12, <1>13, <1>17, <1>18 DEF Complete, Kept
<1>20. Right(q)
  BY <1>4, <1>7, <1>11, <1>12, <1>13, <1>16, <1>17, <1>19 DEF Right, Kept
<1>21. y = b.fronts[f] /\ y.provider = a.fronts[f].provider
  BY <1>4, <1>11 DEF Refreshed
<1>22. \/ ~y.enabled /\ y.server = NoServer /\ ~y.started
       \/ /\ y.enabled /\ y.started /\ ~a.fronts[f].provider /\ ~Receives(b, f)
          /\ IF a.replica # NoServer THEN Bound(a, b, f) ELSE y.server = NoServer
  <2>1. CASE a.fronts[f].provider \/ Receives(b, f)
    <3>1. ~b.fronts[f].enabled /\ b.fronts[f].started = a.fronts[f].started
          /\ SameBinder(a.fronts[f], b.fronts[f])
      BY <1>4, <2>1, Zenon DEF Refreshed
    <3>. QED  BY <1>2, <1>21, <3>1 DEF SameBinder
  <2>2. CASE ~(a.fronts[f].provider \/ Receives(b, f))
    <3>1. /\ b.fronts[f].enabled /\ b.fronts[f].started
          /\ IF ~a.fronts[f].started /\ a.replica # NoServer
             THEN Bound(a, b, f) ELSE SameBinder(a.fronts[f], b.fronts[f])
      BY <1>4, <2>2, Zenon DEF Refreshed
    <3>. QED  BY <1>2, <1>21, <2>2, <3>1 DEF SameBinder
  <2>. QED  BY <2>1, <2>2
<1>23. Begun(p, q, f)
  <2>1. ASSUME y.enabled, p.replica # NoServer
        PROVE  Bound(p, q, f)
    <3>1. a = p /\ Bound(p, b, f)
      BY <1>2, <1>22, <2>1
    <3>. QED  BY <1>11, <3>1 DEF Bound, Asks
  <2>2. ASSUME ~(y.enabled /\ p.replica # NoServer)
        PROVE  y.server = NoServer
    BY <1>2, <1>22, <2>2
  <2>. QED  BY <2>1, <2>2 DEF Begun
<1>24. ASSUME "here" \in p.exported
       PROVE  ~y.enabled
  <2>1. p.manager /\ p.localEntry /\ b.manager = p.manager /\ b.localEntry = p.localEntry
    BY <1>7, <1>24 DEF Right, Kept
  <2>2. CASE f \in Asynchronous
    BY <1>16, <1>22, <2>1, <2>2 DEF HasAdapter
  <2>3. CASE f \notin Asynchronous
    BY <1>4, <1>21, <1>22, <2>1, <2>3 DEF HasObject
  <2>. QED  BY <2>2, <2>3
<1>25. y.started => y.enabled
  BY <1>22
<1>26. ASSUME f \in Asynchronous, Receives(q, f)
       PROVE  Pending(q, f)
  <2>1. KeepsReading(p, b, f) /\ ~Receives(p, f)
    BY <1>1, <1>4, <1>15, <1>26, RefreshedKeepsReading DEF Unborn, Silent
  <2>. QED  BY <1>11, <1>26, <2>1 DEF KeepsReading, Receives, Pending
<1>27. SameService(p, q)
  BY <1>7, <1>11 DEF Kept, SameService
<1>. QED  BY <1>7, <1>11, <1>12, <1>14, <1>20, <1>23, <1>24, <1>25, <1>26, <1>27 DEF q, Kept

-----------------------------------------------------------------------------
(***************************************************************************)
(* Answers with values.                                                    *)
(***************************************************************************)
\* The D-Bus binder of f is what it was, and f may have left it.
LeftLink(p, q, f) ==
  LET x == p.fronts[f]
      y == q.fronts[f]
  IN  /\ SameBinder(x, y) /\ SameRequests(p, q, f) /\ SameStore(p, q, f)
      /\ y.started = x.started /\ (y.enabled => x.enabled)

\* A front end that has a binder looks for its provider again.
LEMMA RefreshedAgain ==
  ASSUME NEW p \in Processes, NEW f \in FrontEnd, f \in Asynchronous,
         Draft(p, f), HasAdapter(p, f),
         p.fronts[f].enabled => p.fronts[f].started,
         ~p.fronts[f].enabled => Receives(p, f),
         NEW q, Refreshed(p, q, f)
  PROVE  LeftLink(p, q, f)
<1>. DEFINE x == p.fronts[f]
            y == q.fronts[f]
<1>1. ~x.provider
  BY DEF Draft
<1>2. SameLocal(p, q, f)
  <2>1. ~(p.localEntry /\ ~Receives(p, f))
    BY DEF HasAdapter
  <2>. QED  BY <2>1, Zenon DEF Refreshed
<1>3. CASE Receives(q, f)
  <2>1. ~y.enabled /\ y.started = x.started /\ SameBinder(x, y) /\ SameRequests(p, q, f)
       /\ SameStore(p, q, f)
    BY <1>3, Zenon DEF Refreshed
  <2>. QED  BY <2>1 DEF LeftLink
<1>4. CASE ~Receives(q, f)
  <2>1. x.enabled /\ x.started
    BY <1>2, <1>4 DEF SameLocal
  <2>2. y.started /\ SameBinder(x, y) /\ SameRequests(p, q, f) /\ SameStore(p, q, f)
    BY <1>1, <1>4, <2>1, Zenon DEF Refreshed
  <2>3. x.started \in BOOLEAN /\ y.started \in BOOLEAN
    BY FrontOf, FrontFields DEF Refreshed, Concerns
  <2>. QED  BY <2>1, <2>2, <2>3 DEF LeftLink
<1>. QED  BY <1>3, <1>4

SetAnswer(p, f, s) ==
  [p EXCEPT !.fronts[f].dbus = s, !.fronts[f].available = TRUE,
            !.fronts[f].outdated = @ \/ p.fronts[f].server = NoServer]

Answered(p, f, s) ==
  LET q == Forward(SetAnswer(p, f, s), f, "dbus")
  IN  IF p.fronts[f].available THEN q ELSE RefreshProvider(q, f)

\* A snapshot reaches the binder, which becomes available.
LEMMA AnswerIs ==
  ASSUME NEW p \in Processes, NEW f \in FrontEnd, NEW s \in State,
         f \in Asynchronous, Draft(p, f), UpToDate(p, f)
  PROVE  LET q == Forward(SetAnswer(p, f, s), f, "dbus")
             x == p.fronts[f]
             y == q.fronts[f]
         IN  /\ Concerns(p, q, f) /\ SameLocal(p, q, f) /\ SameRequests(p, q, f)
             /\ Draft(q, f) /\ UpToDate(q, f)
             /\ y.provider = x.provider /\ y.started = x.started /\ y.enabled = x.enabled
             /\ y.wrapped = x.wrapped
             /\ y.server = x.server /\ y.available
             /\ y.outdated = (x.outdated \/ x.server = NoServer)
             /\ y.dbus = s /\ y.local = x.local /\ y.subscribed = x.subscribed
             /\ f \in q.overtaken <=> f \in p.overtaken
<1>. DEFINE a == SetAnswer(p, f, s)
            q == Forward(a, f, "dbus")
            x == p.fronts[f]
            y == q.fronts[f]
            w == a.fronts[f]
            outdated == (x.outdated \/ x.server = NoServer)
            yes == TRUE
            z == [x EXCEPT !.dbus = s, !.available = yes, !.outdated = outdated]
<1>1. x \in FrontStates /\ outdated \in BOOLEAN /\ yes \in BOOLEAN
  BY FrontOf
<1>2. a = SetFront(p, f, z)
  <2>1. a = [p EXCEPT !.fronts[f].dbus = s, !.fronts[f].available = yes,
                      !.fronts[f].outdated = outdated]
    BY <1>1 DEF SetAnswer, Processes, FrontStates
  <2>. HIDE DEF outdated, a, x, yes
  <2>2. a = SetFront(p, f, [p.fronts[f] EXCEPT !.dbus = s, !.available = yes,
                                               !.outdated = outdated])
    BY <2>1 DEF SetFront, Processes, FrontStates
  <2>. QED  BY <2>2 DEF x
<1>. HIDE DEF outdated, x, a, q
<1>3. z \in FrontStates
  <2>. HIDE DEF yes
  <2>1. [x EXCEPT !.dbus = s] \in FrontStates
    BY <1>1 DEF FrontStates
  <2>2. [[x EXCEPT !.dbus = s] EXCEPT !.available = yes] \in FrontStates
    BY <1>1, <2>1 DEF FrontStates
  <2>3. [[[x EXCEPT !.dbus = s] EXCEPT !.available = yes] EXCEPT !.outdated = outdated]
          \in FrontStates
    BY <1>1, <2>2 DEF FrontStates
  <2>4. z = [[[x EXCEPT !.dbus = s] EXCEPT !.available = yes] EXCEPT !.outdated = outdated]
    BY <1>1 DEF FrontStates
  <2>. QED  BY <2>3, <2>4
<1>4. /\ z.provider = x.provider /\ z.started = x.started
      /\ z.enabled = x.enabled /\ z.wrapped = x.wrapped /\ z.heard = x.heard
      /\ z.local = x.local /\ z.server = x.server /\ z.available
      /\ z.outdated = outdated /\ z.dbus = s /\ z.subscribed = x.subscribed
  BY <1>1 DEF FrontStates
<1>. HIDE DEF z
<1>5. /\ a \in Processes /\ SameRest(p, a) /\ a.unaware = p.unaware
      /\ a.overtaken = p.overtaken /\ w = z /\ \A g \in FrontEnd \ {f} : a.fronts[g] = p.fronts[g]
  BY <1>2, <1>3, SetFrontIs
<1>6. Concerns(p, a, f) /\ SameLocal(p, a, f) /\ SameRequests(p, a, f)
  BY <1>5, OneFront
<1>7. /\ Concerns(a, q, f) /\ Quiet(a, q, f) /\ SameStore(a, q, f) /\ y.local = w.local
      /\ UpToDate(a, f) \/ w.wrapped = "dbus" => UpToDate(q, f)
  BY <1>5, ForwardIsQuiet DEF q
<1>8. Concerns(p, q, f)
  BY <1>6, <1>7, ConcernsIsTransitive
<1>9. /\ y.provider = x.provider /\ y.started = x.started /\ y.enabled = x.enabled
      /\ y.wrapped = x.wrapped /\ y.server = x.server /\ y.available /\ y.outdated = outdated
      /\ SameLocal(p, q, f) /\ SameRequests(p, q, f)
  BY <1>4, <1>5, <1>6, <1>7 DEF Quiet, SameBinder, SameLocal, SameRequests
<1>10. Draft(q, f)
  BY <1>9 DEF Draft, BinderOK, outdated, x
<1>11. UpToDate(q, f)
  <2>1. CASE w.wrapped = "dbus"
    BY <1>7, <2>1
  <2>2. CASE w.wrapped # "dbus"
    <3>1. x.wrapped \in Provider \union {"gone"} /\ x.wrapped # "dbus" /\ w.wrapped = x.wrapped
      BY <1>1, <1>4, <1>5, <2>2, FrontFields
    <3>2. Offered(a, f, x.wrapped) = Offered(p, f, x.wrapped)
      BY <1>4, <1>5, <3>1 DEF Offered, SameRest, Kept, Provider, x
    <3>3. UpToDate(a, f)
      BY <1>4, <1>5, <3>1, <3>2 DEF UpToDate, x
    <3>. QED  BY <1>7, <3>3
  <2>. QED  BY <2>1, <2>2
<1>12. /\ y.dbus = s /\ y.local = x.local /\ y.subscribed = x.subscribed
       /\ f \in q.overtaken <=> f \in p.overtaken
  BY <1>4, <1>5, <1>7 DEF SameStore, Quiet, SameBinder
<1>. QED  BY <1>8, <1>9, <1>10, <1>11, <1>12 DEF q, x, a, outdated

\* The process stays right when one front end changes, and stays right.
LEMMA OneIsRight ==
  ASSUME NEW p, NEW q, Right(p), NEW f \in Created(p), Concerns(p, q, f),
         FrontOK(q, f, "service"), HasObject(q, f), HasAdapter(q, f)
  PROVE  Right(q)
<1>1. Complete(p, "service") /\ Base(p)
  BY DEF Right, Complete
<1>2. q \in Processes /\ Kept(p, q) /\ IsInjective(q.receivers)
      /\ \A g \in FrontEnd \ {f} : Same(p, q, g)
  BY <1>1 DEF Concerns, Base
<1>3. Created(q) = Created(p) /\ Base(q)
  BY <1>1, <1>2 DEF Base, Created, Kept
<1>4. ASSUME NEW g \in Created(p)
      PROVE  FrontOK(q, g, "service") /\ HasObject(q, g) /\ HasAdapter(q, g)
  <2>1. CASE g = f
    BY <2>1
  <2>2. CASE g # f
    <3>1. FrontOK(p, g, "service") /\ HasObject(p, g) /\ HasAdapter(p, g) /\ Same(p, q, g)
      BY <1>1, <1>2, <2>2, CreatedIs DEF Right, Complete
    <3>. QED  BY <1>2, <3>1, SameIsOK
  <2>. QED  BY <2>1, <2>2
<1>5. \A g \in FrontEnd \ Created(p) : Unborn(q, g)
  BY <1>1, <1>2, SameIsUnborn DEF Complete
<1>6. Complete(q, "service")
  BY <1>1, <1>2, <1>3, <1>4, <1>5 DEF Complete, Kept
<1>. QED  BY <1>2, <1>3, <1>4, <1>6 DEF Right, Kept

LEMMA AnsweredIs ==
  ASSUME NEW p, Right(p), NEW f \in Created(p), f \in Asynchronous, NEW s \in State
  PROVE  LET q == Answered(p, f, s)
             x == p.fronts[f]
             y == q.fronts[f]
         IN  /\ Right(q) /\ Kept(p, q)
             /\ y.available /\ y.server = x.server /\ SameRequests(p, q, f)
             /\ y.outdated = (x.outdated \/ x.server = NoServer)
             /\ y.started = x.started /\ (y.enabled => x.enabled)
             /\ y.dbus = s /\ y.subscribed = x.subscribed /\ KeepsReading(p, q, f)
             /\ f \in q.overtaken <=> f \in p.overtaken
             /\ \A g \in FrontEnd \ {f} : Same(p, q, g)
<1>. DEFINE a == Forward(SetAnswer(p, f, s), f, "dbus")
            q == Answered(p, f, s)
            x == p.fronts[f]
            w == a.fronts[f]
            y == q.fronts[f]
<1>1. p \in Processes /\ f \in FrontEnd /\ FrontOK(p, f, "service")
      /\ HasObject(p, f) /\ HasAdapter(p, f)
  BY CreatedIs DEF Right, Complete, Base
<1>2. Draft(p, f) /\ UpToDate(p, f)
  BY <1>1 DEF FrontOK, Shaped
<1>3. /\ Concerns(p, a, f) /\ SameLocal(p, a, f) /\ SameRequests(p, a, f)
      /\ Draft(a, f) /\ UpToDate(a, f)
      /\ w.provider = x.provider /\ w.started = x.started /\ w.enabled = x.enabled
      /\ w.wrapped = x.wrapped
      /\ w.server = x.server /\ w.available
      /\ w.outdated = (x.outdated \/ x.server = NoServer)
      /\ w.dbus = s /\ w.local = x.local /\ w.subscribed = x.subscribed
      /\ f \in a.overtaken <=> f \in p.overtaken
  BY <1>1, <1>2, AnswerIs
<1>4. q = IF x.available THEN a ELSE RefreshProvider(a, f)
  BY DEF Answered
<1>. HIDE DEF a, q
<1>9. KeepsReading(p, a, f)
  BY <1>3, SameKeepsReading
<1>5. a \in Processes /\ Kept(p, a)
  BY <1>3 DEF Concerns
<1>6. HasObject(a, f) /\ HasAdapter(a, f)
  BY <1>1, <1>3, <1>5 DEF HasObject, HasAdapter, SameLocal, Kept
<1>7. CASE x.available
  <2>1. Shaped(a, f, "service")
    BY <1>1, <1>3, <1>7 DEF FrontOK, Shaped, SameLocal
  <2>2. Right(a)
    BY <1>1, <1>3, <1>6, <2>1, OneIsRight DEF FrontOK
  <2>. QED  BY <1>3, <1>4, <1>5, <1>7, <1>9, <2>2 DEF q, Concerns
<1>8. CASE ~x.available
  <2>1. /\ Refreshed(a, q, f) /\ FrontOK(q, f, "service")
        /\ HasObject(q, f) /\ HasAdapter(q, f)
    BY <1>1, <1>3, <1>4, <1>5, <1>6, <1>8, RefreshProviderOK
  <2>2. LeftLink(a, q, f)
    <3>1. (w.enabled => w.started) /\ (~w.enabled => Receives(a, f))
      BY <1>1, <1>3 DEF FrontOK, Shaped, SameLocal
    <3>. QED  BY <1>1, <1>3, <1>5, <1>6, <2>1, <3>1, RefreshedAgain
  <2>3. Concerns(p, q, f)
    BY <1>3, <2>1, ConcernsIsTransitive DEF Refreshed
  <2>4. Right(q)
    BY <1>1, <2>1, <2>3, OneIsRight
  <2>5. w.available \in BOOLEAN
    BY <1>1, <1>5, FrontOf, FrontFields
  <2>6. KeepsReading(p, q, f)
    BY <1>9, <2>1, RefreshedKeepsReading, KeepsReadingIsTransitive
  <2>7. /\ y.dbus = s /\ y.subscribed = x.subscribed
        /\ f \in q.overtaken <=> f \in p.overtaken
    BY <1>3, <2>2 DEF LeftLink, SameBinder, SameStore
  <2>. QED  BY <1>3, <2>2, <2>3, <2>4, <2>5, <2>6, <2>7
            DEF q, LeftLink, SameBinder, SameRequests, Concerns
<1>. QED  BY <1>7, <1>8

SetRead(p, timers, starved) == [p EXCEPT !.timers = timers, !.starved = starved]

Read(p, f, timers, starved, s) ==
  RefreshProvider(Forward(SetLocal(SetRead(p, timers, starved), f, s), f, "local"), f)

\* The Local IPC adapter has answered a front end.
LEMMA ReadIs ==
  ASSUME NEW p, Right(p), NEW f \in Created(p), f \in Asynchronous, NEW s \in State,
         NEW t \in Seq(Timer), NEW u \in SUBSET Asynchronous,
         ToSet(t) \union {Reading(f)} = ToSet(p.timers) \union {Reading(f)}
  PROVE  LET q == Read(p, f, t, u, s)
         IN  /\ Right(q) /\ LeftLink(p, q, f)
             /\ q.created = p.created /\ q.exported = p.exported /\ q.replica = p.replica
             /\ q.value = p.value /\ q.sent = p.sent /\ q.dropped = p.dropped /\ q.starved = u
             /\ q.fronts[f].local = s
             /\ \A g \in FrontEnd \ {f} : Same(p, q, g)
<1>. DEFINE a == SetRead(p, t, u)
            b == Forward(SetLocal(a, f, s), f, "local")
            q == Read(p, f, t, u, s)
            x == p.fronts[f]
            w == b.fronts[f]
<1>1. p \in Processes /\ Base(p) /\ f \in FrontEnd /\ FrontOK(p, f, "service")
      /\ HasObject(p, f) /\ HasAdapter(p, f) /\ u \in SUBSET FrontEnd
  BY CreatedIs, ConstantsAssumption DEF Right, Complete, Base
<1>2. /\ a \in Processes /\ a.fronts = p.fronts /\ a.receivers = p.receivers /\ a.timers = t
      /\ a.requests = p.requests /\ a.unaware = p.unaware /\ a.created = p.created
      /\ a.overtaken = p.overtaken
      /\ a.manager = p.manager /\ a.localEntry = p.localEntry /\ a.exported = p.exported
      /\ a.replica = p.replica /\ a.value = p.value /\ a.starved = u
      /\ a.sent = p.sent /\ a.dropped = p.dropped
  <2>1. [p EXCEPT !.timers = t] \in Processes
    BY <1>1 DEF Processes
  <2>2. [[p EXCEPT !.timers = t] EXCEPT !.starved = u] \in Processes
    BY <1>1, <2>1 DEF Processes
  <2>3. a = [[p EXCEPT !.timers = t] EXCEPT !.starved = u]
    BY <1>1 DEF Processes, SetRead
  <2>. QED  BY <1>1, <2>2, <2>3 DEF Processes, SetRead
<1>3. q = RefreshProvider(b, f)
  BY DEF Read
<1>. HIDE DEF a, q
<1>4. ASSUME NEW g \in FrontEnd \ {f}
      PROVE  Same(p, a, g)
  <2>1. Reading(g) # Reading(f)
    BY DEF Reading
  <2>2. Reading(g) \in ToSet(t) <=> Reading(g) \in ToSet(p.timers)
    BY <2>1
  <2>. QED  BY <1>2, <2>2 DEF Same, SameLocal, SameRequests, Receives, Pending, Asks
<1>5. SameRequests(p, a, f) /\ (Receives(a, f) <=> Receives(p, f))
  BY <1>2 DEF SameRequests, Receives, Asks
<1>6. \A g : UpToDate(a, g) <=> UpToDate(p, g)
  BY <1>2, OfferDepends
<1>7. Draft(a, f) /\ UpToDate(a, f) /\ HasObject(a, f) /\ HasAdapter(a, f)
  BY <1>1, <1>2, <1>5, <1>6 DEF FrontOK, Shaped, Draft, BinderOK, HasObject, HasAdapter
<1>8. /\ Concerns(a, b, f) /\ Quiet(a, b, f) /\ (UpToDate(a, f) => UpToDate(b, f))
      /\ w.local = s /\ SameStore(a, b, f)
  BY <1>1, <1>2, LocalIsQuiet
<1>. HIDE DEF b
<1>9. b \in Processes /\ Draft(b, f) /\ UpToDate(b, f) /\ HasObject(b, f) /\ HasAdapter(b, f)
  <2>1. b \in Processes
    BY <1>8 DEF Concerns
  <2>. QED  BY <1>7, <1>8, <2>1, QuietOK
<1>10. /\ Refreshed(b, q, f) /\ FrontOK(q, f, "service")
       /\ HasObject(q, f) /\ HasAdapter(q, f)
  BY <1>1, <1>3, <1>9, RefreshProviderOK
<1>11. LeftLink(b, q, f)
  <2>1. (w.enabled => w.started) /\ (~w.enabled => Receives(b, f))
    BY <1>1, <1>2, <1>5, <1>8 DEF FrontOK, Shaped, Quiet, SameLocal
  <2>. QED  BY <1>1, <1>9, <1>10, <2>1, RefreshedAgain
<1>12. LeftLink(p, q, f)
  BY <1>2, <1>5, <1>8, <1>11 DEF LeftLink, Quiet, SameBinder, SameRequests, SameStore
<1>13. Concerns(a, q, f)
  BY <1>8, <1>10, ConcernsIsTransitive DEF Refreshed
<1>14. /\ q \in Processes /\ Kept(a, q) /\ IsInjective(q.receivers)
       /\ \A g \in FrontEnd \ {f} : Same(a, q, g)
  BY <1>1, <1>2, <1>13 DEF Concerns, Base
<1>15. \A g \in FrontEnd \ {f} : Same(p, q, g)
  BY <1>4, <1>14, SameIsTransitive
<1>16. Created(a) = Created(p) /\ Created(q) = Created(p) /\ Base(a) /\ Base(q)
  BY <1>1, <1>2, <1>14 DEF Base, Created, Kept
<1>17. ASSUME NEW g \in Created(p), g # f
       PROVE  FrontOK(q, g, "service") /\ HasObject(q, g) /\ HasAdapter(q, g)
  <2>1. FrontOK(p, g, "service") /\ HasObject(p, g) /\ HasAdapter(p, g) /\ g \in FrontEnd
    BY <1>1, CreatedIs DEF Right, Complete
  <2>2. Same(p, a, g) /\ Same(a, q, g)
    BY <1>4, <1>14, <1>17, <2>1
  <2>3. Draft(a, g)
    BY <2>1, <2>2 DEF Same, SameLocal, SameRequests, FrontOK, Shaped, Draft, Silent, BinderOK
  <2>4. FrontOK(a, g, "service")
    BY <1>6, <2>1, <2>2, <2>3 DEF FrontOK, Shaped, Same, SameLocal
  <2>5. HasObject(a, g) /\ HasAdapter(a, g)
    BY <1>2, <2>1, <2>2 DEF HasObject, HasAdapter, Same, SameLocal
  <2>. QED  BY <1>14, <2>2, <2>4, <2>5, SameIsOK
<1>18. \A g \in FrontEnd \ Created(p) : Unborn(q, g)
  BY <1>1, <1>15, SameIsUnborn DEF Right, Complete
<1>19. Complete(q, "service")
  BY <1>1, <1>2, <1>10, <1>14, <1>16, <1>17, <1>18 DEF Complete, Kept
<1>20. Right(q)
  BY <1>2, <1>10, <1>14, <1>16, <1>17, <1>19 DEF Right, Complete, Kept
<1>21. q.fronts[f].local = s
  BY <1>8, <1>10 DEF Refreshed
<1>. QED  BY <1>2, <1>12, <1>14, <1>15, <1>20, <1>21 DEF q, Kept

-----------------------------------------------------------------------------
(***************************************************************************)
(* The process, and what its listeners know.                               *)
(***************************************************************************)
Types ==
  /\ master \in BOOLEAN
  /\ announced \in Seq(Message) /\ \A m \in ToSet(announced) : m.kind = "entry"
  /\ objectMap \in Server \union {NoServer}
  /\ news \in Seq(Message)
  /\ calls \in [Call -> {"idle", "posted", "serving", "answered", "lost"}]
  /\ exports \in 0 .. MaxExports

\* Snapshots are for front ends that have asked for them.
Snapshots ==
  \A m \in ToSet(news) : m.kind = "snapshot" => m.front \in Asynchronous \intersect Created(process)

Inv == Types /\ Right(process) /\ Snapshots

LEMMA MessageIs ==
  ASSUME NEW m \in Message
  PROVE  /\ m.kind \in {"entry", "snapshot", "update"}
         /\ m.kind = "entry" => m.server \in Server /\ m.present \in BOOLEAN
                                /\ Listed(m) \in Server \union {NoServer}
         /\ m.kind = "snapshot" => m.front \in FrontEnd /\ m.value \in Value
         /\ m.kind = "update" => m \in Signals
<1>1. CASE m \in [kind : {"entry"}, server : Server, present : BOOLEAN]
  BY <1>1 DEF Listed
<1>2. CASE m \in [kind : {"snapshot"}, front : FrontEnd, value : Value]
  BY <1>2
<1>3. CASE m \in [kind : {"update"}, to : SUBSET FrontEnd, value : Value]
  BY <1>3 DEF Signals
<1>. QED  BY <1>1, <1>2, <1>3 DEF Message

LEMMA EntryIs ==
  ASSUME NEW server \in Server, NEW present \in BOOLEAN
  PROVE  LET m == Entry(server, present)
         IN  /\ m \in Message /\ m.kind = "entry" /\ m.server = server /\ m.present = present
             /\ Listed(m) = IF present THEN server ELSE NoServer
BY DEF Entry, Message, Listed

\* What an appended message changes.
LEMMA NewsAppended ==
  ASSUME Types, Snapshots, NEW m \in Message, news' = Append(news, m),
         Created(process) \subseteq Created(process)',
         m.kind = "snapshot" => m.front \in Asynchronous \intersect Created(process)'
  PROVE  news' \in Seq(Message) /\ Snapshots' /\ ToSet(news)' = ToSet(news) \union {m}
<1>1. news' \in Seq(Message) /\ ToSet(news)' = ToSet(news) \union {m}
  BY AppendIs DEF Types
<1>. QED  BY <1>1 DEF Snapshots

LEMMA NewsKept ==
  ASSUME Types, Snapshots, Created(process) \subseteq Created(process)', UNCHANGED news
  PROVE  news' \in Seq(Message) /\ Snapshots'
BY DEF Types, Snapshots

LEMMA NewsDelivered ==
  ASSUME NEW kind, Types, Snapshots, Delivers(kind),
         Created(process) \subseteq Created(process)'
  PROVE  /\ Head(news) \in Message /\ Head(news).kind = kind /\ Head(news) \in ToSet(news)
         /\ news' \in Seq(Message) /\ Snapshots'
         /\ ToSet(news) = {Head(news)} \union ToSet(news')
<1>1. /\ news \in Seq(Message) /\ news # <<>> /\ news' = Tail(news)
      /\ Head(news).kind = kind
  BY DEF Types, Delivers
<1>2. /\ Head(news) \in ToSet(news) /\ Head(news) \in Message /\ Tail(news) \in Seq(Message)
      /\ ToSet(news) = {Head(news)} \union ToSet(Tail(news))
  BY <1>1, HeadAndTail
<1>. QED  BY <1>1, <1>2 DEF Snapshots

LEMMA AnnouncementAppended ==
  ASSUME Types, NEW m \in Message, m.kind = "entry", announced' = Append(announced, m)
  PROVE  /\ announced' \in Seq(Message) /\ \A n \in ToSet(announced)' : n.kind = "entry"
         /\ ToSet(announced)' = ToSet(announced) \union {m}
<1>1. announced' \in Seq(Message) /\ ToSet(announced)' = ToSet(announced) \union {m}
  BY AppendIs DEF Types
<1>. QED  BY <1>1 DEF Types

-----------------------------------------------------------------------------
\* What the steps of the service in this process do to the process.
LEMMA RegisterServiceIs ==
  ASSUME Inv, RegisterService
  PROVE  /\ process.exported = {} /\ Inv'
         /\ \E v \in Value :
              process' = IF master THEN SetReplica(Registering(process, v), "here")
                         ELSE Registering(process, v)
<1>1. process.exported = {} /\ Right(process) /\ Types /\ Snapshots
  BY DEF Inv, RegisterService, Free
<1>2. PICK v \in Value : RegisterObject(Registering(process, v), TRUE)
  BY DEF RegisterService, Registering, Renewed
<1>. DEFINE q == Registering(process, v)
<1>3. Right(q) /\ Created(q) = Created(process)
  BY <1>1, RegisteringIs
<1>. HIDE DEF q
<1>4. /\ master => process' = SetReplica(q, "here") /\ objectMap' = "here" /\ UNCHANGED announced
      /\ ~master => process' = q /\ announced' = Append(announced, Entry("here", TRUE))
                    /\ UNCHANGED objectMap
  BY <1>2 DEF RegisterObject, q
<1>5. Right(process)' /\ Created(process)' = Created(process)
  <2>1. CASE master
    <3>1. "here" \in Server \union {NoServer}
      BY DEF Server
    <3>. QED  BY <1>3, <1>4, <2>1, <3>1, SetReplicaIsRight
  <2>2. CASE ~master
    BY <1>3, <1>4, <2>2
  <2>. QED  BY <2>1, <2>2
<1>6. news' \in Seq(Message) /\ Snapshots'
  BY <1>1, <1>5, NewsKept DEF RegisterService
<1>7. announced' \in Seq(Message) /\ \A m \in ToSet(announced)' : m.kind = "entry"
  <2>1. CASE master
    BY <1>1, <1>4, <2>1 DEF Types
  <2>2. CASE ~master
    <3>1. Entry("here", TRUE) \in Message /\ Entry("here", TRUE).kind = "entry"
      BY EntryIs DEF Server
    <3>. QED  BY <1>1, <1>4, <2>2, <3>1, AnnouncementAppended
  <2>. QED  BY <2>1, <2>2
<1>8. exports' \in 0 .. MaxExports
  BY <1>1, ConstantsAssumption DEF Types, RegisterService
<1>9. objectMap' \in Server \union {NoServer}
  BY <1>1, <1>4 DEF Types, Server
<1>10. Types'
  BY <1>1, <1>6, <1>7, <1>8, <1>9 DEF Types, RegisterService
<1>. QED  BY <1>1, <1>4, <1>5, <1>6, <1>10 DEF Inv, q

\* From here to there the service in this process has been taken back.
TakenBack ==
  LET p == process
      q == process'
  IN  /\ q.exported = {} /\ Created(q) = Created(p)
      /\ q.replica = IF master THEN NoServer ELSE p.replica
      /\ master => \A f \in Created(p) : Withdrawn(p, q, f)
      /\ \A f \in Created(p) : Subscribed(p, f) => Subscribed(q, f)

LEMMA TakenBackIs ==
  ASSUME Inv, UnregisterService \/ DeleteService
  PROVE  Inv' /\ TakenBack
<1>1. "here" \in process.exported /\ Right(process) /\ Types /\ Snapshots /\ master \in BOOLEAN
  BY DEF Inv, UnregisterService, DeleteService, Here, Types
<1>2. Right(process)' /\ TakenBack
  <2>1. CASE UnregisterService
    <3>1. process' = Destroyed(SetLocalEntry(WithoutDBus(SetManager(process, FALSE)), FALSE))
      BY <2>1 DEF UnregisterService
    <3>. QED  BY <1>1, <3>1, UnregisteringIs DEF TakenBack
  <2>2. CASE DeleteService
    <3>1. process' = SetManager(Destroyed(SetLocalEntry(WithoutDBus(Orphaned(process)), FALSE)),
                                FALSE)
      <4>. DEFINE InUse(f) == process.fronts[f].wrapped = "service"
                  p == [process EXCEPT
                          !.fronts = [f \in FrontEnd |->
                             IF InUse(f) THEN [@[f] EXCEPT !.wrapped = "gone"] ELSE @[f]],
                          !.unaware = @ \union {f \in FrontEnd : InUse(f)}]
      <4>1. process' = SetManager(Destroyed(SetLocalEntry(WithoutDBus(p), FALSE)), FALSE)
        BY <2>2 DEF DeleteService
      <4>2. p = Orphaned(process)
        BY <1>1 DEF Orphaned, Orphan, Right, Complete, Base, Processes
      <4>. QED  BY <4>1, <4>2
    <3>. QED  BY <1>1, <3>1, DeletingIs DEF TakenBack
  <2>. QED  BY <2>1, <2>2
<1>3. /\ UNCHANGED <<master, news, exports>>
      /\ calls' = [c \in Call |-> Lost(c)]
      /\ objectMap' = IF master THEN NoServer ELSE objectMap
      /\ announced' = IF master THEN announced ELSE Append(announced, Entry("here", FALSE))
  BY DEF UnregisterService, DeleteService
<1>4. news' \in Seq(Message) /\ Snapshots'
  BY <1>1, <1>2, <1>3, NewsKept DEF TakenBack
<1>5. announced' \in Seq(Message) /\ \A m \in ToSet(announced)' : m.kind = "entry"
  <2>1. CASE master
    BY <1>1, <1>3, <2>1 DEF Types
  <2>2. CASE ~master
    <3>1. Entry("here", FALSE) \in Message /\ Entry("here", FALSE).kind = "entry"
      BY EntryIs DEF Server
    <3>. QED  BY <1>1, <1>3, <2>2, <3>1, AnnouncementAppended
  <2>. QED  BY <2>1, <2>2
<1>6. calls' \in [Call -> {"idle", "posted", "serving", "answered", "lost"}]
  BY <1>1, <1>3 DEF Types, Lost
<1>7. Types'
  BY <1>1, <1>3, <1>4, <1>5, <1>6 DEF Types
<1>. QED  BY <1>2, <1>4, <1>7 DEF Inv

-----------------------------------------------------------------------------
\* What changes of values do.
LEMMA ChangedIs ==
  ASSUME Right(process), NEW v \in Value, NEW server
  PROVE  LET q == Changed(server, v)
         IN  /\ Unheard(q) /\ OnlyValues(process, q)
             /\ "here" \notin process.exported => Right(q)
             /\ SameFronts(process, q) /\ q.value = v /\ q.sent = process.sent
             /\ q.starved = process.starved /\ q.dropped = process.dropped
             /\ q.overtaken = process.overtaken \ Subscribers(server)
<1>. DEFINE o == process.overtaken \ Subscribers(server)
            d == process.dropped
            q == Changed(server, v)
<1>1. process \in Processes /\ Unheard(process)
  BY RightIsHoused DEF Right, Complete, Base, Unheard
<1>2. o \in SUBSET FrontEnd /\ d \in BOOLEAN
  BY <1>1, ProcessFields
<1>3. q = SetValueOf(process, v, o, d)
  BY <1>1 DEF Changed, SetValueOf, Processes
<1>. HIDE DEF o, d, q
<1>. QED  BY <1>1, <1>2, <1>3, SetValueOfIs DEF o, d, q

LEMMA UpdateIs ==
  ASSUME Types, Snapshots, NEW v \in Value, NEW server, news' = Update(server, v),
         Created(process)' = Created(process)
  PROVE  /\ news' \in Seq(Message) /\ Snapshots'
         /\ UNCHANGED news \/ \E m \in Message : m.kind = "update" /\ news' = Append(news, m)
<1>. DEFINE m == [kind |-> "update", to |-> Subscribers(server), value |-> v]
<1>1. m \in Message /\ m.kind = "update" /\ (UNCHANGED news \/ news' = Append(news, m))
  BY DEF Message, Update, Subscribers
<1>. HIDE DEF m
<1>2. CASE UNCHANGED news
  BY <1>2, NewsKept
<1>3. CASE news' = Append(news, m)
  BY <1>1, <1>3, NewsAppended
<1>. QED  BY <1>1, <1>2, <1>3

\* The process and its queues, when only values have changed.
ValuesChanged ==
  /\ OnlyValues(process, process')
  /\ UNCHANGED news \/ \E m \in Message : m.kind = "update" /\ news' = Append(news, m)
  /\ UNCHANGED <<master, announced, objectMap>>

LEMMA OnlyValuesCreated ==
  ASSUME NEW p, NEW q, OnlyValues(p, q)
  PROVE  Created(q) = Created(p)
BY DEF OnlyValues, Created

LEMMA ValuesChangedIs ==
  ASSUME Inv, NEW v \in Value, NEW w \in Value,
         ChangeValue(v) \/ ChangeValueTwice(v, w) \/ ChangeElsewhere(v)
  PROVE  Inv' /\ ValuesChanged
<1>1. Types /\ Snapshots /\ Right(process)
  BY DEF Inv
<1>2. UNCHANGED <<master, announced, objectMap, calls, exports>>
  BY DEF ChangeValue, ChangeValueTwice, ChangeElsewhere
<1>3. Right(process)' /\ OnlyValues(process, process')
  <2>1. CASE ChangeValue(v)
    <3>. DEFINE a == Changed("here", v)
                b == SendSignal(a)
    <3>1. Unheard(a) /\ OnlyValues(process, a)
      BY <1>1, ChangedIs
    <3>2. process' = ToldInProcess(b)
      BY <2>1 DEF ChangeValue
    <3>. HIDE DEF a
    <3>3. Unheard(b) /\ OnlyValues(process, b)
      BY <3>1, SendSignalIs, OnlyValuesIsTransitive
    <3>. HIDE DEF b
    <3>. QED  BY <3>2, <3>3, ToldIsRight, OnlyValuesIsTransitive
  <2>2. CASE ChangeValueTwice(v, w)
    <3>. DEFINE a == Changed("here", v)
                b == SendSignal(a)
                yes == TRUE
                c == [b EXCEPT !.value = w, !.dropped = TRUE]
    <3>1. Unheard(a) /\ OnlyValues(process, a)
      BY <1>1, ChangedIs
    <3>2. process' = ToldInProcess(c)
      BY <2>2 DEF ChangeValueTwice
    <3>. HIDE DEF a
    <3>3. Unheard(b) /\ OnlyValues(process, b)
      BY <3>1, SendSignalIs, OnlyValuesIsTransitive
    <3>. HIDE DEF b
    <3>4. b \in Processes
      BY <3>3 DEF Unheard, Housed, Base
    <3>5. b.overtaken \in SUBSET FrontEnd /\ yes \in BOOLEAN
      BY <3>4, ProcessFields
    <3>6. c = SetValueOf(b, w, b.overtaken, yes)
      BY <3>4 DEF SetValueOf, Processes
    <3>. HIDE DEF c, yes
    <3>7. Unheard(c) /\ OnlyValues(b, c)
      BY <3>3, <3>5, <3>6, SetValueOfIs
    <3>8. OnlyValues(process, c)
      BY <3>3, <3>7, OnlyValuesIsTransitive
    <3>. QED  BY <3>2, <3>7, <3>8, ToldIsRight, OnlyValuesIsTransitive
  <2>3. CASE ChangeElsewhere(v)
    <3>1. process' = Changed("elsewhere", v) /\ "here" \notin process.exported
      BY <1>1, <2>3 DEF ChangeElsewhere, Right
    <3>. QED  BY <1>1, <3>1, ChangedIs
  <2>. QED  BY <2>1, <2>2, <2>3
<1>4. Created(process)' = Created(process)
  BY <1>3, OnlyValuesCreated
<1>5. PICK server \in Server, u \in Value : news' = Update(server, u)
  BY DEF ChangeValue, ChangeValueTwice, ChangeElsewhere, Server
<1>6. /\ news' \in Seq(Message) /\ Snapshots'
      /\ UNCHANGED news \/ \E m \in Message : m.kind = "update" /\ news' = Append(news, m)
  BY <1>1, <1>4, <1>5, UpdateIs
<1>7. Types'
  BY <1>1, <1>2, <1>6 DEF Types
<1>. QED  BY <1>2, <1>3, <1>6, <1>7 DEF Inv, ValuesChanged

LEMMA OnUpdateIs ==
  ASSUME Inv, OnUpdate
  PROVE  /\ Inv' /\ OnlyValues(process, process') /\ Kept(process, process')
         /\ \A f \in Created(process) :
              SameProxy(process, process', f) /\ Stored(Head(news), process, process', f)
<1>1. Types /\ Snapshots /\ Right(process)
  BY DEF Inv
<1>2. Delivers("update") /\ UNCHANGED objectMap /\ process' = Emitted(Head(news), process)
  BY DEF OnUpdate
<1>3. Head(news) \in Message /\ Head(news).kind = "update"
  <2>1. news \in Seq(Message) /\ news # <<>>
    BY <1>1, <1>2 DEF Types, Delivers
  <2>. QED  BY <1>2, <2>1, HeadAndTail DEF Delivers
<1>4. Head(news) \in Signals
  BY <1>3, MessageIs
<1>5. /\ Right(process)' /\ OnlyValues(process, process') /\ Kept(process, process')
      /\ \A f \in Created(process) :
           SameProxy(process, process', f) /\ Stored(Head(news), process, process', f)
  BY <1>1, <1>2, <1>3, <1>4, UpdateIsRight
<1>6. Created(process)' = Created(process)
  BY <1>5, OnlyValuesCreated
<1>7. news' \in Seq(Message) /\ Snapshots'
  BY <1>1, <1>2, <1>6, NewsDelivered
<1>8. Types'
  BY <1>1, <1>2, <1>7 DEF Types, Delivers
<1>. QED  BY <1>5, <1>7, <1>8 DEF Inv

LEMMA CallStepsAre ==
  ASSUME Inv, HandleCall \/ \E c \in Call : AnswerCall(c) \/ \E f \in FrontEnd : MakeCall(c, f)
  PROVE  /\ Inv' /\ OnlyValues(process, process') /\ Kept(process, process')
         /\ \A f : Same(process, process', f)
         /\ UNCHANGED <<news, announced>>
<1>1. Types /\ Snapshots /\ Right(process) /\ process \in Processes
  BY DEF Inv, Right, Complete, Base
<1>2. UNCHANGED <<master, announced, objectMap, news, exports>>
  BY DEF MakeCall, HandleCall, AnswerCall
<1>3. process.timers \in Seq(Timer)
  BY <1>1, ProcessFields
<1>4. /\ Right(process)' /\ OnlyValues(process, process') /\ Kept(process, process')
      /\ \A g : Same(process, process', g)
      /\ calls' \in [Call -> {"idle", "posted", "serving", "answered", "lost"}]
  <2>1. ASSUME NEW c \in Call, NEW f \in FrontEnd, MakeCall(c, f)
        PROVE  /\ Right(process)' /\ OnlyValues(process, process') /\ Kept(process, process')
               /\ \A g : Same(process, process', g)
               /\ calls' \in [Call -> {"idle", "posted", "serving", "answered", "lost"}]
    <3>. DEFINE call == [kind |-> "call", call |-> c]
                t == Append(process.timers, call)
    <3>1. call \in Timer /\ call.kind = "call"
      BY DEF Timer
    <3>2. process' = SetTimers(process, t)
      BY <1>1, <2>1 DEF MakeCall, SetTimers, SetLists, Processes
    <3>. HIDE DEF call
    <3>3. t \in Seq(Timer) /\ ToSet(t) = ToSet(process.timers) \union {call}
      BY <1>3, <3>1, AppendIs
    <3>. HIDE DEF t
    <3>4. ToSet(t) \union {call} = ToSet(process.timers) \union {call}
      BY <3>3
    <3>5. /\ Right(process)' /\ OnlyValues(process, process') /\ Kept(process, process')
          /\ \A g : Same(process, process', g)
      BY <1>1, <3>1, <3>2, <3>3, <3>4, CallTimersAre
    <3>. QED  BY <1>1, <2>1, <3>5 DEF Types, MakeCall
  <2>2. CASE HandleCall
    <3>. DEFINE call == Head(process.timers)
                t == Tail(process.timers)
    <3>1. process.timers # <<>> /\ call.kind = "call"
      BY <2>2 DEF HandleCall
    <3>2. t \in Seq(Timer) /\ ToSet(process.timers) = {call} \union ToSet(t) /\ call \in Timer
      BY <1>3, <3>1, HeadAndTail
    <3>3. process' = SetTimers(process, t)
      BY <1>1, <2>2 DEF HandleCall, SetTimers, SetLists, Processes
    <3>4. PICK outcome \in {"serving", "answered"} :
            calls' = [calls EXCEPT ![call.call] = outcome]
      BY <2>2 DEF HandleCall
    <3>. HIDE DEF call, t
    <3>5. ToSet(t) \union {call} = ToSet(process.timers) \union {call}
      BY <3>2
    <3>6. /\ Right(process)' /\ OnlyValues(process, process') /\ Kept(process, process')
          /\ \A g : Same(process, process', g)
      BY <1>1, <3>1, <3>2, <3>3, <3>5, CallTimersAre
    <3>. QED  BY <1>1, <3>4, <3>6 DEF Types
  <2>3. ASSUME NEW c \in Call, AnswerCall(c)
        PROVE  /\ Right(process)' /\ OnlyValues(process, process') /\ Kept(process, process')
               /\ \A g : Same(process, process', g)
               /\ calls' \in [Call -> {"idle", "posted", "serving", "answered", "lost"}]
    <3>1. process' = process
      BY <2>3 DEF AnswerCall
    <3>2. OnlyValues(process, process) /\ Kept(process, process)
      BY DEF OnlyValues, SameLink, SameBinder, SameRequests, Kept
    <3>. QED  BY <1>1, <2>3, <3>1, <3>2, SameIsReflexive DEF Types, AnswerCall
  <2>. QED  BY <2>1, <2>2, <2>3
<1>5. Created(process)' = Created(process)
  BY <1>4, OnlyValuesCreated
<1>6. news' \in Seq(Message) /\ Snapshots'
  BY <1>1, <1>2, <1>5, NewsKept
<1>7. Types'
  BY <1>1, <1>2, <1>4, <1>6 DEF Types
<1>. QED  BY <1>2, <1>4, <1>6, <1>7 DEF Inv

-----------------------------------------------------------------------------
\* What the service of another process and the registry do.
LEMMA ElsewhereIs ==
  ASSUME Inv, ExportElsewhere \/ WithdrawElsewhere
  PROVE  /\ Inv'
         /\ "here" \notin process.exported /\ "here" \notin process'.exported
         /\ process'.created = process.created /\ process'.replica = process.replica
         /\ process'.fronts = process.fronts /\ process'.requests = process.requests
<1>1. Types /\ Snapshots /\ Right(process) /\ process \in Processes
  BY DEF Inv, Right, Complete, Base
<1>2. PICK v \in Value, e \in {{}, {"elsewhere"}} : process' = SetElsewhere(process, v, e)
  <2>1. CASE ExportElsewhere
    BY <2>1 DEF ExportElsewhere, SetElsewhere
  <2>2. CASE WithdrawElsewhere
    <3>1. process' = SetElsewhere(process, process.value, {})
      BY <1>1, <2>2 DEF WithdrawElsewhere, SetElsewhere, Processes
    <3>. QED  BY <1>1, <3>1, ProcessFields
  <2>. QED  BY <2>1, <2>2
<1>3. "here" \notin process.exported
  <2>1. process.exported \in {{}, {"here"}, {"elsewhere"}}
    BY <1>1 DEF Right
  <2>2. process.exported = {} \/ "elsewhere" \in process.exported
    BY Zenon DEF ExportElsewhere, WithdrawElsewhere, Free
  <2>. QED  BY <2>1, <2>2
<1>4. /\ Right(process)' /\ process'.exported = e /\ process'.created = process.created
      /\ process'.replica = process.replica
      /\ process'.fronts = process.fronts /\ process'.requests = process.requests
  BY <1>1, <1>2, <1>3, SetElsewhereIs
<1>5. PICK present \in BOOLEAN : Announce(present)
  BY DEF ExportElsewhere, WithdrawElsewhere
<1>. DEFINE m == Entry("elsewhere", present)
<1>6. m \in Message /\ m.kind = "entry"
  BY EntryIs DEF Server
<1>7. /\ news' = IF master THEN Append(news, m) ELSE news
      /\ announced' = IF master THEN announced ELSE Append(announced, m)
  BY <1>5 DEF Announce
<1>. HIDE DEF m
<1>8. Created(process)' = Created(process)
  BY <1>4 DEF Created
<1>9. /\ news' \in Seq(Message) /\ Snapshots'
      /\ announced' \in Seq(Message) /\ \A n \in ToSet(announced)' : n.kind = "entry"
  <2>1. CASE master
    <3>1. news' \in Seq(Message) /\ Snapshots'
      BY <1>1, <1>6, <1>7, <1>8, <2>1, NewsAppended
    <3>. QED  BY <1>1, <1>7, <2>1, <3>1 DEF Types
  <2>2. CASE ~master
    <3>1. news' \in Seq(Message) /\ Snapshots'
      BY <1>1, <1>7, <1>8, <2>2, NewsKept
    <3>. QED  BY <1>1, <1>6, <1>7, <2>2, <3>1, AnnouncementAppended
  <2>. QED  BY <2>1, <2>2
<1>10. exports' = exports \/ (exports < MaxExports /\ exports' = exports + 1)
  BY Zenon DEF ExportElsewhere, WithdrawElsewhere
<1>11. exports' \in 0 .. MaxExports
  BY <1>1, <1>10, ConstantsAssumption DEF Types
<1>12. UNCHANGED <<master, objectMap, calls>>
  BY Zenon DEF ExportElsewhere, WithdrawElsewhere
<1>13. Types'
  BY <1>1, <1>9, <1>11, <1>12 DEF Types
<1>. QED  BY <1>2, <1>3, <1>4, <1>9, <1>13 DEF Inv

LEMMA HandleAnnouncementIs ==
  ASSUME Inv, HandleAnnouncement
  PROVE  /\ Inv'
         /\ announced # <<>> /\ Head(announced) \in Message /\ Head(announced).kind = "entry"
         /\ ToSet(announced) = {Head(announced)} \union ToSet(announced)'
         /\ ToSet(news)' = ToSet(news) \union {Head(announced)}
<1>1. Types /\ Snapshots /\ Right(process)
  BY DEF Inv
<1>2. /\ announced # <<>> /\ announced' = Tail(announced) /\ announced \in Seq(Message)
      /\ objectMap' = Listed(Head(announced)) /\ news' = Append(news, Head(announced))
      /\ UNCHANGED <<master, process, calls, exports>>
  BY <1>1 DEF HandleAnnouncement, Types
<1>3. /\ Head(announced) \in ToSet(announced) /\ Head(announced) \in Message
      /\ announced' \in Seq(Message)
      /\ ToSet(announced) = {Head(announced)} \union ToSet(announced)'
  BY <1>2, HeadAndTail
<1>4. Head(announced).kind = "entry" /\ Listed(Head(announced)) \in Server \union {NoServer}
  BY <1>1, <1>3, MessageIs DEF Types
<1>5. /\ news' \in Seq(Message) /\ Snapshots'
      /\ ToSet(news)' = ToSet(news) \union {Head(announced)}
  BY <1>1, <1>2, <1>3, <1>4, NewsAppended
<1>6. Types'
  BY <1>1, <1>2, <1>3, <1>4, <1>5 DEF Types
<1>. QED  BY <1>1, <1>2, <1>3, <1>4, <1>5, <1>6 DEF Inv

\* The request of front end f at the server has been answered, or lost.
Taken(server, f) ==
  /\ Kept(process, process') /\ process'.fronts = process.fronts
  /\ process'.overtaken = process.overtaken
  /\ \A g : SameLocal(process, process', g)
  /\ f \in Asynchronous /\ f \in Created(process)
  /\ \A g \in FrontEnd, s \in Server :
       Asks(process, g, s) => Asks(process', g, s) \/ (s = server /\ g = f)
  /\ IF server \in process.exported
     THEN \E m \in Message :
            /\ m.kind = "snapshot" /\ m.front = f /\ m.value = process.value
            /\ news' = Append(news, m)
     ELSE UNCHANGED news

LEMMA HandleRequestIs ==
  ASSUME Inv, NEW server \in Server, HandleRequest(server)
  PROVE  Inv' /\ Taken(server, Head(process.requests[server]))
<1>1. Types /\ Snapshots /\ Right(process) /\ process \in Processes
  BY DEF Inv, Right, Complete, Base
<1>. DEFINE queue == process.requests[server]
            f == Head(queue)
            m == [kind |-> "snapshot", front |-> f, value |-> process.value]
<1>2. /\ queue # <<>> /\ process' = SetRequests(process, server, Tail(queue))
      /\ news' = IF server \in process.exported THEN Append(news, m) ELSE news
  BY <1>1 DEF HandleRequest, SetRequests, Processes
<1>3. /\ Right(process)' /\ Kept(process, process') /\ process'.fronts = process.fronts
      /\ process'.overtaken = process.overtaken
      /\ \A g : SameLocal(process, process', g)
      /\ f \in Asynchronous /\ f \in Created(process)
      /\ \A g \in FrontEnd, s \in Server :
           Asks(process, g, s) => Asks(process', g, s) \/ (s = server /\ g = f)
  BY <1>1, <1>2, RequestTakenIs
<1>. HIDE DEF f, queue
<1>4. m \in Message /\ m.kind = "snapshot" /\ m.front = f /\ m.value = process.value
  <2>1. f \in FrontEnd /\ process.value \in Value
    BY <1>1, <1>3, ConstantsAssumption, ProcessFields
  <2>. QED  BY <2>1 DEF Message
<1>. HIDE DEF m
<1>5. Created(process)' = Created(process)
  BY <1>3 DEF Created, Kept
<1>6. news' \in Seq(Message) /\ Snapshots'
  <2>1. CASE server \in process.exported
    BY <1>1, <1>2, <1>3, <1>4, <1>5, <2>1, NewsAppended
  <2>2. CASE server \notin process.exported
    BY <1>1, <1>2, <1>5, <2>2, NewsKept
  <2>. QED  BY <2>1, <2>2
<1>7. Types'
  BY <1>1, <1>6 DEF Types, HandleRequest
<1>8. Taken(server, f)
  BY <1>2, <1>3, <1>4 DEF Taken
<1>. QED  BY <1>3, <1>6, <1>7, <1>8 DEF Inv, f, queue

-----------------------------------------------------------------------------
\* What the event loop of the process does.
LEMMA CompleteFrontEndIs ==
  ASSUME Inv, NEW f \in FrontEnd, CompleteFrontEnd(f)
  PROVE  /\ Inv' /\ f \notin Created(process)
         /\ Created(process)' = Created(process) \union {f}
         /\ process'.exported = process.exported /\ process'.replica = process.replica
         /\ Begun(process, process', f) /\ SameService(process, process')
         /\ f \in Asynchronous /\ Receives(process', f) => Pending(process', f)
         /\ process'.fronts[f].started => process'.fronts[f].enabled
         /\ "here" \in process.exported => ~process'.fronts[f].enabled
         /\ \A g \in FrontEnd \ {f} : Same(process, process', g)
<1>1. Types /\ Snapshots /\ Right(process)
  BY DEF Inv
<1>2. f \notin Created(process) /\ process' = Completed(process, f)
      /\ UNCHANGED <<master, announced, objectMap, news, calls, exports>>
  BY DEF CompleteFrontEnd, Completed
<1>3. /\ Right(process)' /\ Created(process)' = Created(process) \union {f}
      /\ process'.exported = process.exported /\ process'.replica = process.replica
      /\ Begun(process, process', f) /\ SameService(process, process')
      /\ f \in Asynchronous /\ Receives(process', f) => Pending(process', f)
      /\ process'.fronts[f].started => process'.fronts[f].enabled
      /\ "here" \in process.exported => ~process'.fronts[f].enabled
      /\ \A g \in FrontEnd \ {f} : Same(process, process', g)
  BY <1>1, <1>2, CompletedIs
<1>4. news' \in Seq(Message) /\ Snapshots'
  BY <1>1, <1>2, <1>3, NewsKept
<1>5. Types'
  BY <1>1, <1>2 DEF Types
<1>. QED  BY <1>2, <1>3, <1>4, <1>5 DEF Inv

LEMMA OnEntryIs ==
  ASSUME Inv, OnEntry
  PROVE  /\ Inv'
         /\ process'.replica = Listed(Head(news)) /\ process'.exported = process.exported
         /\ Created(process)' = Created(process) /\ SameService(process, process')
         /\ Head(news) \in Message /\ Head(news).kind = "entry" /\ news # <<>>
         /\ ToSet(news) = {Head(news)} \union ToSet(news)'
         /\ \A f \in Created(process) : Checked(process, process', f)
<1>1. Types /\ Snapshots /\ Right(process)
  BY DEF Inv
<1>2. /\ Delivers("entry") /\ process' = SetReplica(process, Listed(Head(news)))
      /\ objectMap' = IF master THEN Listed(Head(news)) ELSE objectMap
      /\ news # <<>> /\ news \in Seq(Message) /\ Head(news).kind = "entry"
  BY <1>1 DEF OnEntry, Delivers, Types
<1>3. Head(news) \in Message
  BY <1>2, HeadAndTail
<1>4. Listed(Head(news)) \in Server \union {NoServer}
  BY <1>2, <1>3, MessageIs
<1>5. /\ Right(process)' /\ process'.replica = Listed(Head(news))
      /\ process'.exported = process.exported
      /\ Created(process)' = Created(process) /\ SameService(process, process')
      /\ \A f \in Created(process) : Checked(process, process', f)
  BY <1>1, <1>2, <1>4, SetReplicaIsRight
<1>6. /\ news' \in Seq(Message) /\ Snapshots'
      /\ ToSet(news) = {Head(news)} \union ToSet(news)'
  BY <1>1, <1>2, <1>5, NewsDelivered
<1>7. Types'
  BY <1>1, <1>2, <1>4, <1>6 DEF Types, Delivers
<1>. QED  BY <1>2, <1>3, <1>5, <1>6, <1>7 DEF Inv

LEMMA OnSnapshotIs ==
  ASSUME Inv, OnSnapshot
  PROVE  LET f == Head(news).front
             x == process.fronts[f]
             y == process'.fronts[f]
         IN  /\ Inv'
             /\ Head(news).kind = "snapshot"
             /\ ToSet(news) = {Head(news)} \union ToSet(news)'
             /\ f \in Created(process) /\ f \in Asynchronous /\ Kept(process, process')
             /\ y.available /\ y.server = x.server /\ SameRequests(process, process', f)
             /\ y.outdated = (x.outdated \/ x.server = NoServer)
             /\ y.started = x.started /\ (y.enabled => x.enabled)
             /\ y.dbus.value = Head(news).value /\ y.subscribed = x.subscribed
             /\ KeepsReading(process, process', f)
             /\ f \in process'.overtaken <=> f \in process.overtaken
             /\ \A g \in FrontEnd \ {f} : Same(process, process', g)
<1>. DEFINE f == Head(news).front
            s == [ready |-> TRUE, value |-> Head(news).value]
            x == process.fronts[f]
            y == process'.fronts[f]
<1>1. Types /\ Snapshots /\ Right(process)
  BY DEF Inv
<1>2. /\ Delivers("snapshot") /\ news # <<>> /\ news \in Seq(Message)
      /\ Head(news).kind = "snapshot"
  BY <1>1 DEF OnSnapshot, Delivers, Types
<1>3. process' = Answered(process, f, s) /\ UNCHANGED objectMap
  BY Zenon DEF OnSnapshot, Answered, SetAnswer
<1>4. Head(news) \in Message /\ Head(news) \in ToSet(news)
  BY <1>2, HeadAndTail
<1>5. f \in Created(process) /\ f \in Asynchronous
  BY <1>1, <1>2, <1>4 DEF Snapshots
<1>6. s \in State
  <2>1. Head(news).value \in Value
    BY <1>2, <1>4, MessageIs
  <2>. QED  BY <2>1 DEF State
<1>. HIDE DEF s
<1>7. /\ Right(process)' /\ Kept(process, process')
      /\ y.available /\ y.server = x.server /\ SameRequests(process, process', f)
      /\ y.outdated = (x.outdated \/ x.server = NoServer)
      /\ y.started = x.started /\ (y.enabled => x.enabled)
      /\ y.dbus = s /\ y.subscribed = x.subscribed
      /\ KeepsReading(process, process', f)
      /\ f \in process'.overtaken <=> f \in process.overtaken
      /\ \A g \in FrontEnd \ {f} : Same(process, process', g)
  <2>. HIDE DEF f
  <2>. QED  BY <1>1, <1>3, <1>5, <1>6, AnsweredIs
<1>8. Created(process)' = Created(process)
  BY <1>7 DEF Kept, Created
<1>9. /\ news' \in Seq(Message) /\ Snapshots'
      /\ ToSet(news) = {Head(news)} \union ToSet(news)'
  BY <1>1, <1>2, <1>8, NewsDelivered
<1>10. Types'
  BY <1>1, <1>2, <1>3, <1>9 DEF Types, Delivers
<1>11. s.value = Head(news).value
  BY DEF s
<1>. QED  BY <1>2, <1>5, <1>7, <1>9, <1>10, <1>11 DEF Inv

LEMMA ReadPropertiesIs ==
  ASSUME Inv, ReadProperties
  PROVE  /\ Inv'
         /\ process'.created = process.created /\ process'.exported = process.exported
         /\ process'.replica = process.replica
         /\ \A g \in FrontEnd : LeftLink(process, process', g)
         /\ UNCHANGED <<process.value, process.sent, process.dropped, news, announced>>
         /\ LET f == Head(process.timers).front
            IN  /\ process'.starved = process.starved \ {f}
                /\ process'.fronts[f].local.value = process.value
                /\ \A g \in FrontEnd \ {f} : Same(process, process', g)
<1>. DEFINE f == Head(process.timers).front
            t == Tail(process.timers)
            u == process.starved \ {f}
            s == [ready |-> TRUE, value |-> process.value]
<1>1. /\ Types /\ Snapshots /\ Right(process) /\ Complete(process, "service")
      /\ process \in Processes
  BY DEF Inv, Right, Complete, Base
<1>2. /\ process.timers \in Seq(Timer) /\ process.timers # <<>>
      /\ Head(process.timers).kind = "properties"
  BY <1>1, ProcessFields DEF ReadProperties
<1>3. /\ Head(process.timers) \in ToSet(process.timers) /\ Head(process.timers) \in Timer
      /\ t \in Seq(Timer) /\ ToSet(process.timers) = {Head(process.timers)} \union ToSet(t)
  BY <1>2, HeadAndTail
<1>4. Head(process.timers) = Reading(f) /\ f \in FrontEnd
  BY <1>2, <1>3 DEF Timer, Reading
<1>5. Pending(process, f)
  BY <1>3, <1>4 DEF Pending
<1>. HIDE DEF f
<1>6. f \in Created(process) /\ f \in Asynchronous
  <2>1. f \in Created(process)
    BY <1>1, <1>4, <1>5 DEF Complete, Unborn, Silent
  <2>. QED  BY <1>1, <1>4, <1>5, <2>1 DEF Complete, FrontOK, Shaped, Draft, Silent
<1>7. s \in State /\ u \in SUBSET Asynchronous
  BY <1>1, ProcessFields DEF Complete, State
<1>8. process' = Read(process, f, t, u, s)
  <2>. DEFINE a == SetRead(process, t, u)
              b == SetLocal(a, f, s)
              c == [process EXCEPT !.timers = Tail(@),
                      !.fronts[f].local = [ready |-> TRUE, value |-> process.value],
                      !.starved = @ \ {f}]
  <2>1. process' = RefreshProvider(Forward(c, f, "local"), f)
    BY DEF ReadProperties, f
  <2>2. c = b
    <3>1. process.fronts[f] \in FrontStates
      BY <1>1, <1>4, FrontOf
    <3>. QED  BY <1>1, <3>1 DEF SetRead, SetLocal, SetFront, Processes, FrontStates
  <2>. HIDE DEF c, t, u, s
  <2>. QED  BY <2>1, <2>2 DEF Read
<1>9. ToSet(t) \union {Reading(f)} = ToSet(process.timers) \union {Reading(f)}
  BY <1>3, <1>4
<1>. HIDE DEF t, u, s
<1>10. /\ Right(process)' /\ LeftLink(process, process', f)
       /\ process'.created = process.created /\ process'.exported = process.exported
       /\ process'.replica = process.replica
       /\ process'.value = process.value /\ process'.sent = process.sent
       /\ process'.dropped = process.dropped /\ process'.starved = u
       /\ process'.fronts[f].local = s
       /\ \A g \in FrontEnd \ {f} : Same(process, process', g)
  BY <1>1, <1>3, <1>6, <1>7, <1>8, <1>9, ReadIs
<1>11. ASSUME NEW g \in FrontEnd
       PROVE  LeftLink(process, process', g)
  <2>1. CASE g = f
    BY <1>10, <2>1
  <2>2. CASE g # f
    <3>1. Same(process, process', g)
      BY <1>10, <2>2
    <3>. QED  BY <3>1 DEF Same, LeftLink, SameBinder, SameStore
  <2>. QED  BY <2>1, <2>2
<1>12. UNCHANGED <<master, announced, objectMap, news, calls, exports>>
  BY DEF ReadProperties
<1>13. Created(process)' = Created(process)
  BY <1>10 DEF Created
<1>14. news' \in Seq(Message) /\ Snapshots'
  BY <1>1, <1>12, <1>13, NewsKept
<1>15. Types'
  BY <1>1, <1>12 DEF Types
<1>16. s.value = process.value
  BY DEF s
<1>. QED  BY <1>10, <1>11, <1>12, <1>14, <1>15, <1>16 DEF Inv, f, u

-----------------------------------------------------------------------------
LEMMA InitInv ==
  ASSUME Init
  PROVE  Inv
<1>1. process \in Processes
  <2>1. NewFront \in FrontStates
    BY ConstantsAssumption DEF FrontStates, NewFront, NotReady, State, Provider, Server
  <2>2. process.fronts = [f \in FrontEnd |-> NewFront]
    BY DEF Init, NewFront
  <2>. DEFINE fronts == [f \in FrontEnd |-> NewFront]
              requests == [s \in Server |-> <<>>]
              none == <<>>
              p == [created |-> none, manager |-> FALSE, localEntry |-> FALSE, exported |-> {},
                    replica |-> NoServer, value |-> Default, sent |-> Default,
                    receivers |-> none, timers |-> none, requests |-> requests,
                    fronts |-> fronts, starved |-> {}, overtaken |-> {}, dropped |-> FALSE,
                    unaware |-> {}]
  <2>3. process = p
    BY DEF Init, NewFront
  <2>4. /\ none \in Seq(FrontEnd) /\ none \in Seq(Timer)
        /\ requests \in [Server -> Seq(FrontEnd)] /\ fronts \in [FrontEnd -> FrontStates]
    BY <2>1
  <2>. HIDE DEF fronts, requests, none
  <2>5. p \in Processes
    BY <2>4, ConstantsAssumption DEF Processes
  <2>. QED  BY <2>3, <2>5
<1>2. /\ process.created = <<>> /\ process.receivers = <<>> /\ process.timers = <<>>
      /\ process.starved = {} /\ process.manager = FALSE /\ process.localEntry = FALSE
      /\ process.exported = {} /\ process.requests = [s \in Server |-> <<>>]
      /\ process.fronts = [f \in FrontEnd |-> NewFront]
  BY DEF Init, NewFront
<1>3. ToSet(<<>>) = {} /\ IsInjective(<<>>)
  BY DEF ToSet, IsInjective
<1>4. Base(process) /\ Created(process) = {}
  BY <1>1, <1>2, <1>3 DEF Base, Created
<1>5. ASSUME NEW f \in FrontEnd
      PROVE  Unborn(process, f)
  BY <1>2, <1>3 DEF Unborn, Silent, Receives, Pending, Asks
<1>6. Right(process)
  BY <1>2, <1>4, <1>5 DEF Right, Complete
<1>7. Types /\ Snapshots
  <2>1. <<>> \in Seq(Message)
    OBVIOUS
  <2>. QED  BY <1>3, <2>1, ConstantsAssumption DEF Init, Types, Snapshots
<1>. QED  BY <1>6, <1>7 DEF Inv

LEMMA NextInv ==
  ASSUME Inv, [Next]_vars
  PROVE  Inv'
<1>1. CASE RegisterService
  BY <1>1, RegisterServiceIs
<1>2. CASE UnregisterService \/ DeleteService
  BY <1>2, TakenBackIs
<1>3. CASE \E v, w \in Value : ChangeValue(v) \/ ChangeValueTwice(v, w)
  BY <1>3, ValuesChangedIs
<1>4. CASE \E v \in Value : ChangeElsewhere(v)
  BY <1>4, ValuesChangedIs
<1>5. CASE ExportElsewhere \/ WithdrawElsewhere
  BY <1>5, ElsewhereIs
<1>6. CASE HandleAnnouncement
  BY <1>6, HandleAnnouncementIs
<1>7. CASE RequestStep
  BY <1>7, HandleRequestIs DEF RequestStep
<1>8. CASE OnEntry
  BY <1>8, OnEntryIs
<1>9. CASE OnSnapshot
  BY <1>9, OnSnapshotIs
<1>10. CASE OnUpdate
  BY <1>10, OnUpdateIs
<1>11. CASE ReadProperties
  BY <1>11, ReadPropertiesIs
<1>12. CASE \E f \in FrontEnd : CompleteFrontEnd(f)
  BY <1>12, CompleteFrontEndIs
<1>13. CASE HandleCall \/ AnswerStep \/ \E f \in FrontEnd, c \in Call : MakeCall(c, f)
  BY <1>13, CallStepsAre DEF AnswerStep
<1>14. CASE UNCHANGED vars
  BY <1>14 DEF vars, Inv, Types, Snapshots
<1>. QED  BY <1>1, <1>2, <1>3, <1>4, <1>5, <1>6, <1>7, <1>8, <1>9, <1>10, <1>11, <1>12, <1>13,
             <1>14 DEF Next, ServiceStep, NewsStep, TimerStep, ClientStep

\* The invariant: every front end has a provider that suits the registries
\* of the process, and its listeners know the provider's state.
THEOREM Invariance == Spec => []Inv
<1>1. Init => Inv
  BY InitInv
<1>2. Inv /\ [Next]_vars => Inv'
  BY NextInv
<1>. QED  BY <1>1, <1>2, PTL DEF Spec

LEMMA WrappedIs ==
  ASSUME Inv, NEW f \in FrontEnd
  PROVE  /\ process.fronts[f] \in FrontState
         /\ process.fronts[f].wrapped = "local" => Here /\ Receives(process, f)
<1>. DEFINE x == process.fronts[f]
<1>1. process \in Processes /\ Complete(process, "service") /\ Right(process)
  BY DEF Inv, Right, Complete, Base
<1>2. x \in FrontStates /\ x.provider \in BOOLEAN /\ x.enabled \in BOOLEAN
  BY <1>1, FrontOf, FrontFields
<1>3. CASE f \in Created(process)
  <2>1. Shaped(process, f, "service") /\ Draft(process, f) /\ HasAdapter(process, f)
    BY <1>1, <1>3 DEF Right, Complete, FrontOK, Shaped
  <2>2. /\ x.wrapped \in Provider
        /\ x.wrapped = "local" => f \in Asynchronous /\ Receives(process, f)
    <3>1. CASE x.enabled
      <4>1. x.wrapped = "dbus" \/ x.wrapped = "default"
        BY <2>1, <3>1 DEF Shaped
      <4>. QED  BY <4>1 DEF Provider
    <3>2. CASE ~x.enabled /\ f \in Asynchronous
      BY <2>1, <3>2 DEF Shaped, Provider
    <3>3. CASE ~x.enabled /\ f \notin Asynchronous
      <4>1. x.wrapped = "service"
        BY <1>2, <2>1, <3>3 DEF Shaped
      <4>. QED  BY <4>1 DEF Provider
    <3>. QED  BY <3>1, <3>2, <3>3
  <2>3. Receives(process, f) /\ f \in Asynchronous => Here
    BY <1>1, <2>1 DEF HasAdapter, Right, Here
  <2>4. x \in FrontState
    BY <1>2, <2>2 DEF FrontStates, FrontState
  <2>. QED  BY <2>2, <2>3, <2>4
<1>4. CASE f \notin Created(process)
  <2>1. x.wrapped = "default"
    BY <1>1, <1>4, NewFrontIs DEF Complete, Unborn
  <2>2. x \in FrontState
    BY <1>2, <2>1 DEF FrontStates, FrontState, Provider
  <2>. QED  BY <2>1, <2>2
<1>. QED  BY <1>3, <1>4

LEMMA InvTypeOK ==
  ASSUME Inv
  PROVE  TypeOK
<1>1. /\ process \in Processes /\ Housed(process) /\ Types
      /\ process.starved \subseteq Asynchronous /\ process.localEntry = process.manager
      /\ IsInjective(process.created) /\ IsInjective(process.receivers)
  BY RightIsHoused DEF Inv, Housed, Base
<1>2. process.fronts \in [FrontEnd -> FrontState]
  BY <1>1, WrappedIs, ProcessFields
<1>3. process.receivers \in Seq(Asynchronous)
  <2>1. process.receivers \in Seq(FrontEnd) /\ ToSet(process.receivers) \subseteq Asynchronous
    BY <1>1, ReceiversAre, ProcessFields
  <2>. DEFINE r == process.receivers
              N == Len(r)
  <2>2. N \in Nat /\ r \in [1 .. N -> FrontEnd] /\ DOMAIN r = 1 .. N
    BY <2>1, LenProperties
  <2>3. \A i \in 1 .. N : r[i] \in Asynchronous
    BY <2>1, <2>2 DEF ToSet
  <2>. HIDE DEF r, N
  <2>4. r \in [1 .. N -> Asynchronous]
    BY <2>2, <2>3
  <2>. QED  BY <2>2, <2>4, SeqDef DEF r
<1>. QED  BY <1>1, <1>2, <1>3, ProcessFields DEF TypeOK, Types

\* The front ends, the registries and the service of the process, and the
\* queues keep the types their definitions give them, whatever happens; no
\* front end keeps a deleted service object.
THEOREM TypeCorrect == Spec => []TypeOK
BY Invariance, InvTypeOK, PTL

\* No call goes through a Local IPC proxy whose adapter is gone: asyncCall()
\* never dereferences a null pointer.
THEOREM EveryCallHasAdapter == Spec => []CallsHaveAdapter
<1>1. Inv => CallsHaveAdapter
  BY WrappedIs DEF CallsHaveAdapter, Receives
<1>. QED  BY <1>1, Invariance, PTL

\* The listeners of a front end know its value, and its readiness unless a
\* service object in use was deleted, whatever provider it changes to.
THEOREM EveryListenerUpToDate == Spec => []ListenersUpToDate
<1>1. Inv => ListenersUpToDate
  BY RightIsHoused DEF Inv, ListenersUpToDate, UpToDate
<1>. QED  BY <1>1, Invariance, PTL

-----------------------------------------------------------------------------
(***************************************************************************)
(* The way of the registry's entries.                                      *)
(***************************************************************************)
Servers == Server \union {NoServer}

\* Who exports the service.
Present ==
  IF Here THEN "here" ELSE IF "elsewhere" \in process.exported THEN "elsewhere" ELSE NoServer

\* Message m leads from entry a of the registry to entry b.
Leads(a, m, b) ==
  IF m.kind = "entry"
  THEN IF m.present THEN a = NoServer /\ b = m.server ELSE a = m.server /\ b = NoServer
  ELSE b = a

\* The entries of the queue, one after the other.
Way(queue, a, b, way) ==
  /\ way \in [0 .. Len(queue) -> Servers] /\ way[0] = a /\ way[Len(queue)] = b
  /\ \A k \in 1 .. Len(queue) : Leads(way[k - 1], queue[k], way[k])

Chain(queue, a, b) == \E way \in [0 .. Len(queue) -> Servers] : Way(queue, a, b, way)

LEMMA ChainOfNothing ==
  ASSUME NEW a, NEW b, Chain(<<>>, a, b)
  PROVE  a = b
BY DEF Chain, Way

LEMMA NothingIsChain ==
  ASSUME NEW a \in Servers
  PROVE  Chain(<<>>, a, a)
<1>. DEFINE way == [k \in 0 .. 0 |-> a]
<1>1. Way(<<>>, a, a, way) /\ way \in [0 .. Len(<<>>) -> Servers]
  BY DEF Way
<1>. QED  BY <1>1 DEF Chain

LEMMA ChainAppended ==
  ASSUME NEW queue \in Seq(Message), NEW e \in Message, NEW a, NEW b, NEW c \in Servers,
         Chain(queue, a, b), Leads(b, e, c)
  PROVE  Chain(Append(queue, e), a, c)
<1>. DEFINE t == Append(queue, e)
            N == Len(queue)
<1>1. PICK way \in [0 .. N -> Servers] : Way(queue, a, b, way)
  BY DEF Chain
<1>2. /\ N \in Nat /\ Len(t) = N + 1 /\ t[N + 1] = e /\ \A k \in 1 .. N : t[k] = queue[k]
  BY AppendProperties, LenProperties
<1>. DEFINE longer == [k \in 0 .. N + 1 |-> IF k = N + 1 THEN c ELSE way[k]]
<1>3. way[0] = a /\ way[N] = b /\ \A k \in 1 .. N : Leads(way[k - 1], queue[k], way[k])
  BY <1>1 DEF Way
<1>. HIDE DEF t, N
<1>4. longer \in [0 .. N + 1 -> Servers]
  BY <1>1, <1>2
<1>5. longer[N + 1] = c /\ \A k \in 0 .. N : longer[k] = way[k]
  BY <1>2
<1>. HIDE DEF longer
<1>6. longer[0] = a
  BY <1>2, <1>3, <1>5
<1>7. ASSUME NEW k \in 1 .. N + 1
      PROVE  Leads(longer[k - 1], t[k], longer[k])
  <2>1. CASE k = N + 1
    <3>1. longer[k - 1] = b /\ t[k] = e /\ longer[k] = c
      BY <1>2, <1>3, <1>5, <2>1
    <3>. QED  BY <3>1
  <2>2. CASE k # N + 1
    <3>1. k \in 1 .. N
      BY <1>2, <2>2
    <3>2. longer[k - 1] = way[k - 1] /\ t[k] = queue[k] /\ longer[k] = way[k]
      BY <1>2, <1>5, <3>1
    <3>. QED  BY <1>3, <3>1, <3>2
  <2>. QED  BY <2>1, <2>2
<1>8. Way(t, a, c, longer)
  BY <1>2, <1>4, <1>5, <1>6, <1>7 DEF Way
<1>. QED  BY <1>2, <1>4, <1>8 DEF Chain, t

LEMMA ChainTail ==
  ASSUME NEW queue \in Seq(Message), queue # <<>>, NEW a, NEW b, Chain(queue, a, b)
  PROVE  \E c \in Servers : Leads(a, Head(queue), c) /\ Chain(Tail(queue), c, b)
<1>. DEFINE t == Tail(queue)
            N == Len(queue)
<1>1. PICK way \in [0 .. N -> Servers] : Way(queue, a, b, way)
  BY DEF Chain
<1>2. /\ N \in Nat /\ N >= 1 /\ Head(queue) = queue[1] /\ Len(t) = N - 1
      /\ \A k \in 1 .. N - 1 : t[k] = queue[k + 1]
  BY HeadTailProperties, EmptySeq, LenProperties
<1>. DEFINE rest == [k \in 0 .. N - 1 |-> way[k + 1]]
<1>3. way[0] = a /\ way[N] = b /\ \A k \in 1 .. N : Leads(way[k - 1], queue[k], way[k])
  BY <1>1 DEF Way
<1>. HIDE DEF t, N
<1>4. rest \in [0 .. N - 1 -> Servers]
  BY <1>1, <1>2
<1>5. \A k \in 0 .. N - 1 : rest[k] = way[k + 1]
  OBVIOUS
<1>. HIDE DEF rest
<1>6. rest[0] = way[1] /\ rest[N - 1] = b
  <2>1. 0 \in 0 .. N - 1 /\ N - 1 \in 0 .. N - 1 /\ N - 1 + 1 = N
    BY <1>2
  <2>2. rest[0] = way[0 + 1] /\ rest[N - 1] = way[N - 1 + 1]
    BY <1>5, <2>1
  <2>. QED  BY <1>3, <2>1, <2>2
<1>7. ASSUME NEW k \in 1 .. N - 1
      PROVE  Leads(rest[k - 1], t[k], rest[k])
  <2>1. k - 1 \in 0 .. N - 1 /\ k \in 0 .. N - 1 /\ k + 1 \in 1 .. N
        /\ k - 1 + 1 = k /\ k + 1 - 1 = k
    BY <1>2
  <2>2. rest[k - 1] = way[k - 1 + 1] /\ rest[k] = way[k + 1]
    BY <1>5, <2>1
  <2>3. Leads(way[k + 1 - 1], queue[k + 1], way[k + 1])
    BY <1>3, <2>1
  <2>. QED  BY <1>2, <2>1, <2>2, <2>3
<1>8. Way(t, way[1], b, rest)
  BY <1>2, <1>4, <1>6, <1>7 DEF Way
<1>9. Chain(t, way[1], b)
  BY <1>2, <1>4, <1>8 DEF Chain
<1>10. Leads(a, Head(queue), way[1]) /\ way[1] \in Servers
  <2>1. 1 \in 1 .. N /\ 1 \in 0 .. N /\ 1 - 1 = 0
    BY <1>2
  <2>2. Leads(way[1 - 1], queue[1], way[1])
    BY <1>3, <2>1
  <2>. QED  BY <1>1, <1>2, <1>3, <2>1, <2>2
<1>. QED  BY <1>9, <1>10 DEF t

\* Without entries nothing changes.
LEMMA ChainWithoutEntries ==
  ASSUME NEW queue \in Seq(Message), \A m \in ToSet(queue) : m.kind # "entry"
  PROVE  /\ \A a, b : Chain(queue, a, b) => b = a
         /\ \A a \in Servers : Chain(queue, a, a)
<1>. DEFINE N == Len(queue)
<1>1. N \in Nat /\ DOMAIN queue = 1 .. N
  BY LenProperties
<1>2. \A k \in 1 .. N : queue[k].kind # "entry"
  BY <1>1 DEF ToSet
<1>. HIDE DEF N
<1>3. ASSUME NEW a, NEW b, Chain(queue, a, b)
      PROVE  b = a
  <2>1. PICK way : Way(queue, a, b, way)
    BY <1>3 DEF Chain
  <2>2. way[0] = a /\ way[N] = b /\ \A k \in 1 .. N : way[k] = way[k - 1]
    BY <1>2, <2>1 DEF Way, Leads, N
  <2>. DEFINE S == {k \in 0 .. N : way[k] = a}
  <2>3. 0 \in S /\ \A k \in 1 .. N : k - 1 \in S => k \in S
    BY <1>1, <2>2
  <2>. HIDE DEF S
  <2>4. \A k \in 0 .. N : k \in S
    BY <1>1, <2>3, CountUp
  <2>. QED  BY <1>1, <2>2, <2>4 DEF S
<1>4. ASSUME NEW a \in Servers
      PROVE  Chain(queue, a, a)
  <2>. DEFINE way == [k \in 0 .. N |-> a]
  <2>1. way \in [0 .. N -> Servers] /\ \A k \in 0 .. N : way[k] = a
    OBVIOUS
  <2>. HIDE DEF way
  <2>2. \A k \in 1 .. N : k - 1 \in 0 .. N /\ k \in 0 .. N
    BY <1>1
  <2>3. Way(queue, a, a, way)
    BY <1>1, <1>2, <2>1, <2>2 DEF Way, Leads, N
  <2>. QED  BY <2>1, <2>3 DEF Chain, N
<1>. QED  BY <1>3, <1>4

Withdraws(m) == m.kind = "entry" /\ ~m.present

\* Without a withdrawal a server stays listed.
LEMMA ChainWithoutWithdrawals ==
  ASSUME NEW queue \in Seq(Message), \A m \in ToSet(queue) : ~Withdraws(m),
         NEW a, NEW b, a # NoServer, Chain(queue, a, b)
  PROVE  b = a
<1>. DEFINE N == Len(queue)
<1>1. N \in Nat /\ DOMAIN queue = 1 .. N
  BY LenProperties
<1>2. \A k \in 1 .. N : ~Withdraws(queue[k])
  BY <1>1 DEF ToSet
<1>. HIDE DEF N
<1>3. PICK way : Way(queue, a, b, way)
  BY DEF Chain
<1>4. /\ way[0] = a /\ way[N] = b
      /\ \A k \in 1 .. N : way[k - 1] # NoServer => way[k] = way[k - 1]
  BY <1>2, <1>3 DEF Way, Leads, Withdraws, N
<1>. DEFINE S == {k \in 0 .. N : way[k] = a}
<1>5. 0 \in S /\ \A k \in 1 .. N : k - 1 \in S => k \in S
  BY <1>1, <1>4
<1>. HIDE DEF S
<1>6. \A k \in 0 .. N : k \in S
  BY <1>1, <1>5, CountUp
<1>. QED  BY <1>1, <1>4, <1>6 DEF S

-----------------------------------------------------------------------------
(***************************************************************************)
(* The binders and the registry.                                           *)
(***************************************************************************)
Withdrawal == \E m \in ToSet(news) \union ToSet(announced) : Withdraws(m)

OnItsWay(f) == \E m \in ToSet(news) : m.kind = "snapshot" /\ m.front = f

\* The entries on their way lead from this process's view of the registry to
\* the registry's, and from there to whoever exports the service.
Followed ==
  /\ Chain(news, process.replica, IF master THEN Present ELSE objectMap)
  /\ ~master => Chain(announced, objectMap, Present)
  /\ master =>
       /\ announced = <<>> /\ objectMap = process.replica
       /\ Here => \A m \in ToSet(news) : m.kind # "entry"

\* An enabled binder has the server of the replica, unless a withdrawal is on
\* its way or the registry of this process changed while it was disabled; and
\* it has the snapshot of another process's service, or will get it.
Linked(f) ==
  LET x == process.fronts[f]
  IN  /\ x.enabled =>
           \/ x.server = process.replica
           \/ Withdrawal
           \/ /\ f \in Asynchronous /\ x.outdated /\ x.server = "here"
              /\ master /\ process.replica = NoServer
      /\ x.enabled /\ x.server = "elsewhere" =>
           \/ x.available
           \/ Withdrawal
           \/ f \in Asynchronous /\ (Asks(process, f, "elsewhere") \/ OnItsWay(f))
      /\ master /\ Here =>
           x.server = IF f \in Asynchronous /\ x.started THEN "here" ELSE NoServer

Links == Inv /\ Followed /\ \A f \in Created(process) : Linked(f)

LEMMA PresentIs ==
  ASSUME Inv
  PROVE  /\ Present \in Servers
         /\ process.exported = {} => Present = NoServer /\ ~Here
         /\ Here => Present = "here"
         /\ "elsewhere" \in process.exported => Present = "elsewhere" /\ ~Here
         /\ process.replica \in Servers /\ objectMap \in Servers
<1>1. process.exported \in {{}, {"here"}, {"elsewhere"}} /\ process \in Processes /\ Types
  BY DEF Inv, Right, Complete, Base
<1>. QED  BY <1>1, ProcessFields DEF Present, Here, Servers, Server, NoServer, Types

\* A server in the replica that does not export the service is withdrawn.
LEMMA ReplicaIsPresent ==
  ASSUME Inv, Followed, process.replica # NoServer, process.replica # Present
  PROVE  Withdrawal
<1>. SUFFICES ASSUME ~Withdrawal
              PROVE  FALSE
  OBVIOUS
<1>1. /\ news \in Seq(Message) /\ announced \in Seq(Message)
      /\ \A m \in ToSet(news) : ~Withdraws(m)
      /\ \A m \in ToSet(announced) : ~Withdraws(m)
  BY DEF Inv, Types, Withdrawal
<1>2. CASE master
  <2>1. Chain(news, process.replica, Present)
    BY <1>2 DEF Followed
  <2>. QED  BY <1>1, <2>1, ChainWithoutWithdrawals
<1>3. CASE ~master
  <2>1. Chain(news, process.replica, objectMap) /\ Chain(announced, objectMap, Present)
    BY <1>3 DEF Followed
  <2>2. objectMap = process.replica
    BY <1>1, <2>1, ChainWithoutWithdrawals
  <2>. QED  BY <1>1, <2>1, <2>2, ChainWithoutWithdrawals
<1>. QED  BY <1>2, <1>3

Misled ==
  Inv /\ Followed /\ process.replica # NoServer /\ process.replica # Present

LEMMA MisledOnce == Misled' => Withdrawal'
<1>1. Misled => Withdrawal
  BY ReplicaIsPresent DEF Misled
<1>. QED  BY <1>1, PTL

\* The messages that are no entries.
Steady ==
  /\ UNCHANGED <<master, announced, objectMap>>
  /\ \/ UNCHANGED news
     \/ \E m \in Message : m.kind # "entry" /\ news' = Append(news, m)
     \/ news # <<>> /\ Head(news).kind # "entry" /\ news' = Tail(news)

LEMMA SteadyIsFollowed ==
  ASSUME Inv, Followed, Steady,
         process'.replica = process.replica, process'.exported = process.exported
  PROVE  Followed' /\ (Withdrawal => Withdrawal')
<1>1. news \in Seq(Message) /\ Present' = Present
  BY DEF Inv, Types, Present, Here
<1>. DEFINE a == process.replica
            b == IF master THEN Present ELSE objectMap
            Moved == /\ Chain(news', a, b)
                     /\ \A m \in ToSet(news) : m.kind = "entry" => m \in ToSet(news')
                     /\ \A m \in ToSet(news') : m.kind = "entry" => m \in ToSet(news)
<1>2. b \in Servers /\ a \in Servers /\ Chain(news, a, b)
  BY PresentIs DEF Followed
<1>. HIDE DEF a, b
<1>3. Moved
  <2>1. CASE UNCHANGED news
    BY <1>2, <2>1
  <2>2. ASSUME NEW m \in Message, m.kind # "entry", news' = Append(news, m)
        PROVE  Moved
    <3>1. Leads(b, m, b)
      BY <2>2 DEF Leads
    <3>2. Chain(Append(news, m), a, b)
      BY <1>1, <1>2, <3>1, ChainAppended
    <3>3. ToSet(news') = ToSet(news) \union {m}
      BY <1>1, <2>2, AppendIs
    <3>. QED  BY <2>2, <3>2, <3>3
  <2>3. ASSUME news # <<>>, Head(news).kind # "entry", news' = Tail(news)
        PROVE  Moved
    <3>1. PICK c \in Servers : Leads(a, Head(news), c) /\ Chain(Tail(news), c, b)
      BY <1>1, <1>2, <2>3, ChainTail
    <3>2. c = a
      BY <2>3, <3>1 DEF Leads
    <3>3. ToSet(news) = {Head(news)} \union ToSet(news')
      BY <1>1, <2>3, HeadAndTail
    <3>. QED  BY <2>3, <3>1, <3>2, <3>3
  <2>. QED  BY <2>1, <2>2, <2>3 DEF Steady
<1>4. UNCHANGED <<master, announced, objectMap>> /\ Here' = Here
  BY DEF Steady, Here
<1>5. Chain(news', process'.replica, IF master' THEN Present' ELSE objectMap')
  BY <1>1, <1>3, <1>4 DEF a, b
<1>6. ~master' => Chain(announced', objectMap', Present')
  BY <1>1, <1>4 DEF Followed
<1>7. master' =>
        /\ announced' = <<>> /\ objectMap' = process'.replica
        /\ Here' => \A m \in ToSet(news') : m.kind # "entry"
  <2>1. ASSUME master', Here'
        PROVE  \A m \in ToSet(news') : m.kind # "entry"
    BY <1>3, <1>4, <2>1 DEF Followed
  <2>. QED  BY <1>4, <2>1 DEF Followed
<1>8. Withdrawal => Withdrawal'
  BY <1>3, <1>4 DEF Withdrawal, Withdraws
<1>. QED  BY <1>5, <1>6, <1>7, <1>8 DEF Followed

\* From p to q the binder of f has lost nothing.
Holds(p, q, f) ==
  LET x == p.fronts[f]
      y == q.fronts[f]
  IN  /\ y.server = x.server /\ (x.available => y.available) /\ (x.outdated => y.outdated)
      /\ y.started = x.started /\ (y.enabled => x.enabled)
      /\ \A server \in Server : Asks(p, f, server) => Asks(q, f, server)

LEMMA HoldsIsLinked ==
  ASSUME NEW f, Linked(f), Holds(process, process', f),
         process'.replica = process.replica, UNCHANGED master,
         Here' => Here, Withdrawal => Withdrawal', OnItsWay(f) => OnItsWay(f)'
  PROVE  Linked(f)'
BY DEF Linked, Holds, Server

LEMMA SameHolds ==
  ASSUME NEW p, NEW q, NEW f
  PROVE  /\ Same(p, q, f) => Holds(p, q, f)
         /\ SameLink(p, q, f) => Holds(p, q, f)
         /\ LeftLink(p, q, f) => Holds(p, q, f)
BY DEF Same, SameLink, LeftLink, SameBinder, SameRequests, Holds

LEMMA SteadyIsLinked ==
  ASSUME Links, Inv', Steady,
         process'.replica = process.replica, process'.exported = process.exported,
         Created(process)' = Created(process),
         \A f \in Created(process) :
           Holds(process, process', f) /\ (OnItsWay(f) => OnItsWay(f)')
  PROVE  Links'
<1>1. Followed' /\ (Withdrawal => Withdrawal')
  BY SteadyIsFollowed DEF Links
<1>2. UNCHANGED master /\ (Here' => Here)
  BY DEF Steady, Here
<1>3. ASSUME NEW f \in Created(process)
      PROVE  Linked(f)'
  BY <1>1, <1>2, HoldsIsLinked DEF Links
<1>. QED  BY <1>1, <1>3 DEF Links

LEMMA OnItsWayStays ==
  ASSUME Inv, NEW f,
         \/ UNCHANGED news
         \/ \E m \in Message : news' = Append(news, m)
         \/ /\ news # <<>> /\ news' = Tail(news)
            /\ Head(news).kind = "snapshot" => Head(news).front # f
  PROVE  OnItsWay(f) => OnItsWay(f)'
<1>1. news \in Seq(Message)
  BY DEF Inv, Types
<1>2. CASE UNCHANGED news
  BY <1>2 DEF OnItsWay
<1>3. CASE \E m \in Message : news' = Append(news, m)
  <2>1. PICK m \in Message : news' = Append(news, m)
    BY <1>3
  <2>2. ToSet(news') = ToSet(news) \union {m}
    BY <1>1, <2>1, AppendIs
  <2>. QED  BY <2>2 DEF OnItsWay
<1>4. CASE /\ news # <<>> /\ news' = Tail(news)
           /\ Head(news).kind = "snapshot" => Head(news).front # f
  <2>1. ToSet(news) = {Head(news)} \union ToSet(news')
    BY <1>1, <1>4, HeadAndTail
  <2>. QED  BY <1>4, <2>1 DEF OnItsWay
<1>. QED  BY <1>2, <1>3, <1>4

\* Steps that change values only.
LEMMA ValuesLinked ==
  ASSUME Links, Inv', OnlyValues(process, process'), Steady,
         \A f : OnItsWay(f) => OnItsWay(f)'
  PROVE  Links'
<1>1. process'.replica = process.replica /\ process'.exported = process.exported
      /\ Created(process)' = Created(process)
  BY OnlyValuesCreated DEF OnlyValues
<1>2. ASSUME NEW f \in Created(process)
      PROVE  Holds(process, process', f)
  <2>1. f \in FrontEnd
    BY CreatedIs DEF Links, Inv, Right, Complete
  <2>2. SameLink(process, process', f)
    BY <2>1 DEF OnlyValues
  <2>. QED  BY <2>2, SameHolds
<1>. QED  BY <1>1, <1>2, SteadyIsLinked

LEMMA ChangeLinked ==
  ASSUME Links, NEW v \in Value, NEW w \in Value,
         ChangeValue(v) \/ ChangeValueTwice(v, w) \/ ChangeElsewhere(v)
  PROVE  Links'
<1>1. Inv /\ Inv' /\ ValuesChanged
  BY ValuesChangedIs DEF Links
<1>2. Steady
  <2>1. \A m : m.kind = "update" => m.kind # "entry"
    OBVIOUS
  <2>. QED  BY <1>1, <2>1 DEF ValuesChanged, Steady
<1>3. \A f : OnItsWay(f) => OnItsWay(f)'
  BY <1>1, OnItsWayStays DEF ValuesChanged
<1>. QED  BY <1>1, <1>2, <1>3, ValuesLinked DEF ValuesChanged

LEMMA UpdateLinked ==
  ASSUME Links, OnUpdate
  PROVE  Links'
<1>1. Inv /\ Inv' /\ OnlyValues(process, process')
  BY OnUpdateIs DEF Links
<1>2. /\ news # <<>> /\ news' = Tail(news) /\ Head(news).kind = "update"
      /\ UNCHANGED <<master, announced, objectMap>>
  BY DEF OnUpdate, Delivers
<1>3. Steady
  BY <1>2 DEF Steady
<1>4. \A f : OnItsWay(f) => OnItsWay(f)'
  BY <1>1, <1>2, OnItsWayStays
<1>. QED  BY <1>1, <1>3, <1>4, ValuesLinked

LEMMA CallLinked ==
  ASSUME Links, HandleCall \/ \E c \in Call : AnswerCall(c) \/ \E f \in FrontEnd : MakeCall(c, f)
  PROVE  Links'
<1>1. Inv /\ Inv' /\ OnlyValues(process, process')
  BY CallStepsAre DEF Links
<1>2. UNCHANGED <<master, announced, objectMap, news>>
  BY DEF HandleCall, AnswerCall, MakeCall
<1>3. \A f : OnItsWay(f) => OnItsWay(f)'
  BY <1>1, <1>2, OnItsWayStays
<1>. QED  BY <1>1, <1>2, <1>3, ValuesLinked DEF Steady

LEMMA ReadLinked ==
  ASSUME Links, ReadProperties
  PROVE  Links'
<1>1. /\ Inv /\ Inv'
      /\ process'.created = process.created /\ process'.exported = process.exported
      /\ process'.replica = process.replica
      /\ \A g \in FrontEnd : LeftLink(process, process', g)
  BY ReadPropertiesIs DEF Links
<1>2. UNCHANGED <<master, announced, objectMap, news>>
  BY DEF ReadProperties
<1>3. \A f : OnItsWay(f) => OnItsWay(f)'
  BY <1>1, <1>2, OnItsWayStays
<1>4. Created(process)' = Created(process) /\ Created(process) \subseteq FrontEnd
  BY <1>1, CreatedIs DEF Created, Inv, Right, Complete
<1>5. \A f \in Created(process) : Holds(process, process', f)
  BY <1>1, <1>4, SameHolds
<1>. QED  BY <1>1, <1>2, <1>3, <1>4, <1>5, SteadyIsLinked DEF Steady

\* Front ends that are the same stay linked.
LEMMA SameIsLinked ==
  ASSUME NEW f, Linked(f), Same(process, process', f),
         process'.replica = process.replica, UNCHANGED master, Here' => Here,
         Withdrawal => Withdrawal', OnItsWay(f) => OnItsWay(f)'
  PROVE  Linked(f)'
<1>1. Holds(process, process', f)
  BY SameHolds
<1>. QED  BY <1>1, HoldsIsLinked

LEMMA SnapshotLinked ==
  ASSUME Links, OnSnapshot
  PROVE  Links'
<1>. PICK g : g = Head(news).front
  OBVIOUS
<1>. DEFINE x == process.fronts[g]
            y == process'.fronts[g]
<1>1. /\ Inv /\ Inv' /\ Head(news).kind = "snapshot"
      /\ g \in Created(process) /\ g \in Asynchronous /\ Kept(process, process')
      /\ y.available /\ y.server = x.server
      /\ y.outdated = (x.outdated \/ x.server = NoServer)
      /\ y.started = x.started /\ (y.enabled => x.enabled)
      /\ \A f \in FrontEnd \ {g} : Same(process, process', f)
  BY OnSnapshotIs DEF Links
<1>2. /\ news # <<>> /\ news' = Tail(news) /\ UNCHANGED <<master, announced, objectMap>>
  BY DEF OnSnapshot, Delivers
<1>3. Steady
  <2>1. Head(news).kind # "entry"
    BY <1>1
  <2>. QED  BY <1>2, <2>1 DEF Steady
<1>4. process'.replica = process.replica /\ process'.exported = process.exported
      /\ Created(process)' = Created(process)
  BY <1>1 DEF Kept, Created
<1>5. Followed' /\ (Withdrawal => Withdrawal')
  BY <1>1, <1>3, <1>4, SteadyIsFollowed DEF Links
<1>6. Here' = Here /\ Linked(g)
  BY <1>1, <1>4 DEF Here, Links
<1>7. Linked(g)'
  BY <1>1, <1>2, <1>4, <1>5, <1>6 DEF Linked
<1>8. ASSUME NEW f \in Created(process), f # g
      PROVE  Linked(f)'
  <2>1. f \in FrontEnd
    BY <1>1, CreatedIs DEF Inv, Right, Complete
  <2>2. Same(process, process', f) /\ Linked(f)
    BY <1>1, <1>8, <2>1 DEF Links
  <2>3. OnItsWay(f) => OnItsWay(f)'
    <3>1. Head(news).kind = "snapshot" => Head(news).front # f
      BY <1>8
    <3>. QED  BY <1>1, <1>2, <3>1, OnItsWayStays
  <2>. QED  BY <1>2, <1>4, <1>5, <1>6, <2>2, <2>3, SameIsLinked
<1>. QED  BY <1>1, <1>4, <1>5, <1>7, <1>8 DEF Links

LEMMA RequestLinked ==
  ASSUME Links, NEW server \in Server, HandleRequest(server)
  PROVE  Links'
<1>. PICK g : g = Head(process.requests[server])
  OBVIOUS
<1>1. Inv /\ Inv' /\ Taken(server, g)
  BY HandleRequestIs DEF Links
<1>2. UNCHANGED <<master, announced, objectMap>>
  BY DEF HandleRequest
<1>3. /\ Kept(process, process') /\ process'.fronts = process.fronts
      /\ g \in Asynchronous /\ g \in Created(process)
      /\ \A f \in FrontEnd, s \in Server :
           Asks(process, f, s) => Asks(process', f, s) \/ (s = server /\ f = g)
  BY <1>1 DEF Taken
<1>4. IF server \in process.exported
      THEN \E m \in Message : m.kind = "snapshot" /\ m.front = g /\ news' = Append(news, m)
      ELSE UNCHANGED news
  BY <1>1 DEF Taken
<1>5. Steady /\ \A f : OnItsWay(f) => OnItsWay(f)'
  <2>1. CASE server \in process.exported
    <3>1. PICK m \in Message : m.kind = "snapshot" /\ news' = Append(news, m)
      BY <1>4, <2>1
    <3>2. m.kind # "entry"
      BY <3>1
    <3>. QED  BY <1>1, <1>2, <3>1, <3>2, OnItsWayStays DEF Steady
  <2>2. CASE server \notin process.exported
    <3>1. UNCHANGED news
      BY <1>4, <2>2
    <3>. QED  BY <1>1, <1>2, <3>1, OnItsWayStays DEF Steady
  <2>. QED  BY <2>1, <2>2
<1>6. /\ process'.replica = process.replica /\ process'.exported = process.exported
      /\ Created(process)' = Created(process) /\ Created(process) \subseteq FrontEnd
      /\ Here' = Here /\ Present' = Present
  BY <1>1, <1>3, CreatedIs DEF Kept, Created, Here, Present, Inv, Right, Complete
<1>7. Followed' /\ (Withdrawal => Withdrawal')
  BY <1>1, <1>5, <1>6, SteadyIsFollowed DEF Links
<1>8. ASSUME server = "elsewhere", process.fronts[g].server = "elsewhere",
             ~Withdrawal', process.fronts[g].enabled
      PROVE  OnItsWay(g)'
  <2>1. Linked(g) /\ Followed
    BY <1>3 DEF Links
  <2>2. process.replica = "elsewhere"
    BY <1>7, <1>8, <2>1 DEF Linked
  <2>3. Present = "elsewhere"
    BY <1>1, <1>7, <1>8, <2>1, <2>2, ReplicaIsPresent DEF NoServer
  <2>4. "elsewhere" \in process.exported
    BY <2>3 DEF Present, NoServer
  <2>5. PICK m \in Message : m.kind = "snapshot" /\ m.front = g /\ news' = Append(news, m)
    BY <1>4, <1>8, <2>4
  <2>6. ToSet(news') = ToSet(news) \union {m}
    BY <1>1, <2>5, AppendIs DEF Inv, Types
  <2>. QED  BY <2>5, <2>6 DEF OnItsWay
<1>9. ASSUME NEW f \in Created(process)
      PROVE  Linked(f)'
  <2>1. Linked(f) /\ f \in FrontEnd
    BY <1>6 DEF Links
  <2>2. \A s \in Server : Asks(process, f, s) => Asks(process', f, s) \/ (s = server /\ f = g)
    BY <1>3, <2>1
  <2>3. "elsewhere" \in Server
    BY DEF Server
  <2>. QED  BY <1>2, <1>3, <1>5, <1>6, <1>7, <1>8, <2>1, <2>2, <2>3 DEF Linked
<1>. QED  BY <1>1, <1>6, <1>7, <1>9 DEF Links

LEMMA CompleteLinked ==
  ASSUME Links, NEW f \in FrontEnd, CompleteFrontEnd(f)
  PROVE  Links'
<1>. DEFINE y == process'.fronts[f]
<1>1. /\ Inv /\ Inv' /\ Created(process)' = Created(process) \union {f}
      /\ process'.exported = process.exported /\ process'.replica = process.replica
      /\ Begun(process, process', f)
      /\ (y.started => y.enabled) /\ ("here" \in process.exported => ~y.enabled)
      /\ \A g \in FrontEnd \ {f} : Same(process, process', g)
      /\ f \notin Created(process)
  BY CompleteFrontEndIs DEF Links
<1>2. UNCHANGED <<master, announced, objectMap, news>>
  BY DEF CompleteFrontEnd
<1>3. Followed' /\ (Withdrawal => Withdrawal') /\ Here' = Here
  BY <1>1, <1>2, SteadyIsFollowed DEF Links, Steady, Here
<1>4. Linked(f)'
  <2>1. y.enabled => y.server = process'.replica
    BY <1>1 DEF Begun, Bound
  <2>2. ASSUME y.enabled, y.server = "elsewhere", ~Withdrawal'
        PROVE  y.available \/ (f \in Asynchronous /\ Asks(process', f, "elsewhere"))
    <3>1. process.replica = "elsewhere" /\ process.replica # NoServer
      BY <1>1, <2>1, <2>2 DEF NoServer
    <3>2. Bound(process, process', f)
      BY <1>1, <2>2, <3>1 DEF Begun
    <3>3. Present = "elsewhere"
      BY <1>1, <1>3, <2>2, <3>1, ReplicaIsPresent DEF Links
    <3>4. "elsewhere" \in process.exported /\ "elsewhere" \in Server
      BY <3>3 DEF Present, NoServer, Server
    <3>. QED  BY <3>1, <3>2, <3>4 DEF Bound
  <2>3. ASSUME Here
        PROVE  y.server = NoServer /\ ~y.started
    BY <1>1, <2>3 DEF Here, Begun
  <2>. QED  BY <1>3, <2>1, <2>2, <2>3 DEF Linked
<1>5. ASSUME NEW g \in Created(process)
      PROVE  Linked(g)'
  <2>1. g \in FrontEnd \ {f}
    BY <1>1, CreatedIs DEF Inv, Right, Complete
  <2>2. Same(process, process', g) /\ Linked(g)
    BY <1>1, <2>1 DEF Links
  <2>3. OnItsWay(g) => OnItsWay(g)'
    BY <1>1, <1>2, OnItsWayStays
  <2>. QED  BY <1>1, <1>2, <1>3, <2>2, <2>3, SameIsLinked
<1>. QED  BY <1>1, <1>3, <1>4, <1>5 DEF Links

LEMMA EntryFollowed ==
  ASSUME Inv, Followed, OnEntry
  PROVE  Followed'
<1>1. /\ process'.replica = Listed(Head(news)) /\ process'.exported = process.exported
      /\ Head(news) \in Message /\ Head(news).kind = "entry" /\ news # <<>>
      /\ ToSet(news) = {Head(news)} \union ToSet(news)'
  BY OnEntryIs
<1>2. /\ news' = Tail(news) /\ UNCHANGED <<master, announced>>
      /\ objectMap' = IF master THEN Listed(Head(news)) ELSE objectMap
      /\ news \in Seq(Message)
  BY DEF OnEntry, Delivers, Inv, Types
<1>3. Here' = Here /\ Present' = Present
  BY <1>1 DEF Here, Present
<1>. DEFINE b == IF master THEN Present ELSE objectMap
<1>4. PICK c \in Servers : Leads(process.replica, Head(news), c) /\ Chain(Tail(news), c, b)
  <2>1. Chain(news, process.replica, b)
    BY DEF Followed
  <2>. HIDE DEF b
  <2>. QED  BY <1>1, <1>2, <2>1, ChainTail
<1>5. c = process'.replica
  BY <1>1, <1>4 DEF Leads, Listed
<1>6. Chain(news', process'.replica, IF master' THEN Present' ELSE objectMap')
  BY <1>2, <1>3, <1>4, <1>5
<1>7. ~master' => Chain(announced', objectMap', Present')
  BY <1>2, <1>3 DEF Followed
<1>8. master' => announced' = <<>> /\ objectMap' = process'.replica
  BY <1>1, <1>2 DEF Followed
<1>9. master' /\ Here' => \A m \in ToSet(news') : m.kind # "entry"
  BY <1>1, <1>2, <1>3 DEF Followed
<1>. QED  BY <1>6, <1>7, <1>8, <1>9 DEF Followed

LEMMA EntryLinked ==
  ASSUME Links, OnEntry
  PROVE  Links' /\ (Head(news).present => (Withdrawal => Withdrawal'))
<1>1. /\ Inv /\ Inv' /\ Followed
      /\ process'.replica = Listed(Head(news)) /\ process'.exported = process.exported
      /\ Created(process)' = Created(process)
      /\ Head(news) \in Message /\ Head(news).kind = "entry" /\ news # <<>>
      /\ ToSet(news) = {Head(news)} \union ToSet(news)'
      /\ \A f \in Created(process) : Checked(process, process', f)
  BY OnEntryIs DEF Links
<1>2. Followed' /\ news' = Tail(news) /\ UNCHANGED <<master, announced>>
  BY <1>1, EntryFollowed DEF OnEntry, Delivers
<1>3. ~(master /\ Here) /\ Here' = Here
  <2>1. Head(news) \in ToSet(news)
    BY <1>1
  <2>. QED  BY <1>1, <2>1 DEF Followed, Here
<1>4. Head(news).present => (Withdrawal => Withdrawal')
  <2>1. ASSUME Head(news).present, NEW m \in ToSet(news) \union ToSet(announced), Withdraws(m)
        PROVE  m \in ToSet(news)' \union ToSet(announced)'
    BY <1>1, <1>2, <2>1 DEF Withdraws
  <2>. QED  BY <2>1 DEF Withdrawal, Withdraws
<1>5. ASSUME NEW f \in Created(process)
      PROVE  Linked(f)'
  <2>. DEFINE x == process.fronts[f]
              y == process'.fronts[f]
  <2>1. Checked(process, process', f) /\ Linked(f) /\ f \in FrontEnd
    BY <1>1, CreatedIs DEF Links, Inv, Right, Complete
  <2>2. y.enabled => x.enabled /\ y.server = process'.replica
    BY <2>1 DEF Checked
  <2>3. ASSUME y.enabled, y.server = "elsewhere", ~Withdrawal'
        PROVE  y.available \/ (f \in Asynchronous
                               /\ (Asks(process', f, "elsewhere") \/ OnItsWay(f)'))
    <3>1. process'.replica = "elsewhere" /\ process'.replica # NoServer
      BY <2>2, <2>3 DEF NoServer
    <3>2. Head(news).present
      BY <1>1, <3>1 DEF Listed
    <3>3. "elsewhere" \in process'.exported
      <4>1. Present' = "elsewhere"
        BY <1>1, <1>2, <2>3, <3>1, MisledOnce DEF Misled
      <4>. QED  BY <4>1 DEF Present, NoServer
    <3>4. CASE x.server # "elsewhere"
      BY <2>1, <2>2, <2>3, <3>1, <3>3, <3>4 DEF Checked
    <3>5. CASE x.server = "elsewhere"
      <4>1. x.available \/ (f \in Asynchronous
                            /\ (Asks(process, f, "elsewhere") \/ OnItsWay(f)))
        BY <1>4, <2>1, <2>2, <2>3, <3>2, <3>5 DEF Linked
      <4>2. OnItsWay(f) => OnItsWay(f)'
        <5>1. Head(news).kind # "snapshot"
          BY <1>1
        <5>. QED  BY <1>1, <1>2, <5>1, OnItsWayStays
      <4>3. x.available => y.available
        BY <2>1, <2>3 DEF Checked, NoServer
      <4>4. Asks(process, f, "elsewhere") => Asks(process', f, "elsewhere")
        BY <2>1 DEF Checked, Server
      <4>. QED  BY <4>1, <4>2, <4>3, <4>4
    <3>. QED  BY <3>4, <3>5
  <2>4. ~(master' /\ Here')
    BY <1>2, <1>3
  <2>. QED  BY <2>2, <2>3, <2>4 DEF Linked
<1>. QED  BY <1>1, <1>2, <1>4, <1>5 DEF Links

\* The binders are what they were, and messages are added.
LEMMA AddedIsLinked ==
  ASSUME Links, Inv', Followed', UNCHANGED master,
         process'.replica = process.replica, Created(process)' = Created(process),
         process'.fronts = process.fronts, process'.requests = process.requests,
         Here' => Here, Withdrawal => Withdrawal', ToSet(news) \subseteq ToSet(news)'
  PROVE  Links'
<1>1. ASSUME NEW f \in Created(process)
      PROVE  Linked(f)'
  <2>1. Holds(process, process', f)
    BY DEF Holds, Asks
  <2>2. OnItsWay(f) => OnItsWay(f)'
    BY DEF OnItsWay
  <2>. QED  BY <1>1, <2>1, <2>2, HoldsIsLinked DEF Links
<1>. QED  BY <1>1 DEF Links

LEMMA AnnouncementLinked ==
  ASSUME Links, HandleAnnouncement
  PROVE  Links' /\ (Withdrawal => Withdrawal')
<1>. DEFINE m == Head(announced)
<1>1. /\ Inv /\ Inv' /\ Followed /\ announced # <<>> /\ m \in Message /\ m.kind = "entry"
      /\ ToSet(announced) = {m} \union ToSet(announced)'
      /\ ToSet(news)' = ToSet(news) \union {m}
  BY HandleAnnouncementIs DEF Links
<1>2. /\ announced' = Tail(announced) /\ objectMap' = Listed(m) /\ news' = Append(news, m)
      /\ UNCHANGED <<master, process>>
      /\ news \in Seq(Message) /\ announced \in Seq(Message)
  BY <1>1 DEF HandleAnnouncement, Inv, Types
<1>3. ~master /\ Here' = Here /\ Present' = Present
  BY <1>1, <1>2 DEF Followed, Here, Present
<1>4. PICK c \in Servers : Leads(objectMap, m, c) /\ Chain(Tail(announced), c, Present)
  <2>1. Chain(announced, objectMap, Present)
    BY <1>1, <1>3 DEF Followed
  <2>. QED  BY <1>1, <1>2, <2>1, ChainTail
<1>5. c = objectMap'
  BY <1>1, <1>2, <1>4 DEF Leads, Listed
<1>6. Chain(news', process'.replica, objectMap')
  <2>1. Chain(news, process.replica, objectMap)
    BY <1>1, <1>3 DEF Followed
  <2>2. Chain(Append(news, m), process.replica, c)
    BY <1>1, <1>2, <1>4, <2>1, ChainAppended
  <2>. QED  BY <1>2, <1>5, <2>2
<1>7. Followed'
  BY <1>2, <1>3, <1>4, <1>5, <1>6 DEF Followed
<1>8. Withdrawal => Withdrawal'
  BY <1>1 DEF Withdrawal
<1>9. Created(process)' = Created(process) /\ ToSet(news) \subseteq ToSet(news)'
  BY <1>1, <1>2
<1>. QED  BY <1>1, <1>2, <1>3, <1>7, <1>8, <1>9, AddedIsLinked

LEMMA ElsewhereLinked ==
  ASSUME Links, ExportElsewhere \/ WithdrawElsewhere
  PROVE  Links' /\ (Withdrawal => Withdrawal')
<1>1. /\ Inv /\ Inv' /\ Followed
      /\ "here" \notin process.exported /\ "here" \notin process'.exported
      /\ process'.created = process.created /\ process'.replica = process.replica
      /\ process'.fronts = process.fronts /\ process'.requests = process.requests
  BY ElsewhereIs DEF Links
<1>2. PICK present \in BOOLEAN :
        /\ Announce(present)
        /\ process'.exported = IF present THEN {"elsewhere"} ELSE {}
        /\ IF present THEN process.exported = {} ELSE "elsewhere" \in process.exported
  <2>1. process \in Processes
    BY <1>1 DEF Inv, Right, Complete, Base
  <2>2. CASE ExportElsewhere
    <3>1. Announce(TRUE) /\ process.exported = {}
      BY Zenon, <2>2 DEF ExportElsewhere, Free
    <3>2. process'.exported = {"elsewhere"}
      BY <2>1, <2>2 DEF ExportElsewhere, Processes
    <3>. QED  BY <3>1, <3>2
  <2>3. CASE WithdrawElsewhere
    <3>1. Announce(FALSE) /\ "elsewhere" \in process.exported
      BY Zenon, <2>3 DEF WithdrawElsewhere
    <3>2. process'.exported = {}
      BY <2>1, <2>3 DEF WithdrawElsewhere, Processes
    <3>. QED  BY <3>1, <3>2
  <2>. QED  BY <2>2, <2>3
<1>. DEFINE m == Entry("elsewhere", present)
<1>3. m \in Message /\ m.kind = "entry" /\ m.server = "elsewhere" /\ m.present = present
  BY EntryIs DEF Server
<1>4. /\ news' = IF master THEN Append(news, m) ELSE news
      /\ announced' = IF master THEN announced ELSE Append(announced, m)
  BY <1>2 DEF Announce
<1>. HIDE DEF m
<1>5. UNCHANGED <<master, objectMap>> /\ news \in Seq(Message) /\ announced \in Seq(Message)
  BY Zenon, <1>1 DEF ExportElsewhere, WithdrawElsewhere, Inv, Types
<1>6. Present' \in Servers /\ Leads(Present, m, Present')
  BY <1>1, <1>2, <1>3 DEF Present, Here, Leads, Servers, Server
<1>7. ~Here /\ ~Here' /\ Created(process)' = Created(process)
  BY <1>1 DEF Here, Created
<1>8. /\ Followed' /\ ToSet(news) \subseteq ToSet(news)'
      /\ ToSet(announced) \subseteq ToSet(announced)'
  <2>1. CASE master
    <3>1. Chain(Append(news, m), process.replica, Present')
      <4>1. Chain(news, process.replica, Present)
        BY <1>1, <2>1 DEF Followed
      <4>2. \A c \in Servers : Leads(Present, m, c) => Chain(Append(news, m), process.replica, c)
        BY <1>3, <1>5, <4>1, ChainAppended
      <4>. QED  BY <1>6, <4>2
    <3>2. ToSet(news)' = ToSet(news) \union {m}
      <4>1. ToSet(Append(news, m)) = ToSet(news) \union {m}
        BY <1>3, <1>5, AppendIs
      <4>. QED  BY <1>4, <2>1, <4>1
    <3>. QED  BY <1>1, <1>4, <1>5, <1>7, <2>1, <3>1, <3>2 DEF Followed
  <2>2. CASE ~master
    <3>1. Chain(Append(announced, m), objectMap, Present')
      <4>1. Chain(announced, objectMap, Present)
        BY <1>1, <2>2 DEF Followed
      <4>2. \A c \in Servers : Leads(Present, m, c) => Chain(Append(announced, m), objectMap, c)
        BY <1>3, <1>5, <4>1, ChainAppended
      <4>. QED  BY <1>6, <4>2
    <3>2. ToSet(announced)' = ToSet(announced) \union {m}
      <4>1. ToSet(Append(announced, m)) = ToSet(announced) \union {m}
        BY <1>3, <1>5, AppendIs
      <4>. QED  BY <1>4, <2>2, <4>1
    <3>. QED  BY <1>1, <1>4, <1>5, <1>7, <2>2, <3>1, <3>2 DEF Followed
  <2>. QED  BY <2>1, <2>2
<1>9. Withdrawal => Withdrawal'
  BY <1>8 DEF Withdrawal
<1>. QED  BY <1>1, <1>5, <1>7, <1>8, <1>9, AddedIsLinked

LEMMA RegisteredByMaster ==
  ASSUME Links, RegisterService, master
  PROVE  Links'
<1>1. /\ Inv /\ Inv' /\ Followed /\ process.exported = {}
  BY RegisterServiceIs DEF Links
<1>2. PICK v \in Value : process' = SetReplica(Registering(process, v), "here")
  BY <1>1, RegisterServiceIs
<1>. DEFINE q == Registering(process, v)
<1>3. /\ Right(process) /\ Right(q) /\ q.exported = {"here"} /\ Created(q) = Created(process)
      /\ \A f \in Created(process) :
           /\ f \in Asynchronous => q.fronts[f] = process.fronts[f]
           /\ f \notin Asynchronous =>
                ~q.fronts[f].enabled /\ q.fronts[f].server = process.fronts[f].server
  BY <1>1, RegisteringIs DEF Inv
<1>. HIDE DEF q
<1>4. /\ process'.replica = "here" /\ process'.exported = {"here"}
      /\ Created(process)' = Created(process)
      /\ \A f \in Created(process) : Checked(q, process', f)
  <2>1. "here" \in Server \union {NoServer}
    BY DEF Server
  <2>2. process' = SetReplica(q, "here")
    BY <1>2 DEF q
  <2>. QED  BY <1>3, <2>1, <2>2, SetReplicaIsRight
<1>5. /\ UNCHANGED <<master, news, announced>> /\ objectMap' = "here" /\ announced = <<>>
      /\ news \in Seq(Message)
  <2>1. \E p : RegisterObject(p, TRUE)
    BY Zenon DEF RegisterService
  <2>2. UNCHANGED announced /\ objectMap' = "here"
    BY <2>1 DEF RegisterObject
  <2>. QED  BY Zenon, <1>1, <2>2 DEF RegisterService, Followed, Inv, Types
<1>6. \A m \in ToSet(news) : m.kind # "entry"
  <2>1. \A n \in DOMAIN news : news[n].kind # "entry"
    <3>1. "here" # "elsewhere"
      OBVIOUS
    <3>. QED  BY <3>1, Zenon DEF RegisterService, Free
  <2>. QED  BY <2>1 DEF ToSet
<1>7. ~Withdrawal /\ ToSet(announced) = {}
  BY <1>5, <1>6 DEF Withdrawal, Withdraws, ToSet
<1>8. Here' /\ Present' = "here" /\ Present = NoServer
  BY <1>1, <1>4, PresentIs DEF Here, Present
<1>9. process.replica = NoServer
  <2>1. Chain(news, process.replica, Present)
    BY <1>1 DEF Followed
  <2>. QED  BY <1>5, <1>6, <1>8, <2>1, ChainWithoutEntries
<1>10. Followed'
  <2>1. "here" \in Servers
    BY DEF Servers, Server
  <2>2. Chain(news, "here", "here")
    BY <1>5, <1>6, <2>1, ChainWithoutEntries
  <2>. QED  BY <1>4, <1>5, <1>6, <1>8, <2>2 DEF Followed
<1>11. ASSUME NEW f \in Created(process)
       PROVE  Linked(f)'
  <2>. DEFINE x == process.fronts[f]
              y == process'.fronts[f]
  <2>1. Checked(q, process', f) /\ Linked(f) /\ f \in FrontEnd
    BY <1>1, <1>4, CreatedIs DEF Links, Inv, Right, Complete
  <2>2. x.enabled /\ x.started
    <3>1. x.enabled
      BY <1>1, <1>3, <2>1, NoObject
    <3>. QED  BY <1>3, <2>1, <3>1 DEF Right, Complete, FrontOK, Shaped
  <2>3. CASE f \in Asynchronous
    <3>1. y.server = "here" /\ y.started
      BY <1>3, <1>4, <2>1, <2>2, <2>3 DEF Checked
    <3>. QED  BY <1>4, <2>3, <3>1 DEF Linked, NoServer
  <2>4. CASE f \notin Asynchronous
    <3>1. x.server = NoServer
      BY <1>7, <1>9, <2>1, <2>2, <2>4 DEF Linked
    <3>2. y.server = NoServer /\ ~y.enabled
      BY <1>3, <2>1, <2>4, <3>1 DEF Checked
    <3>. QED  BY <2>4, <3>2 DEF Linked, NoServer
  <2>. QED  BY <2>3, <2>4
<1>. QED  BY <1>1, <1>4, <1>10, <1>11 DEF Links

LEMMA RegisteredByOther ==
  ASSUME Links, RegisterService, ~master
  PROVE  Links'
<1>1. /\ Inv /\ Inv' /\ Followed /\ process.exported = {}
  BY RegisterServiceIs DEF Links
<1>2. PICK v \in Value : process' = Registering(process, v)
  BY <1>1, RegisterServiceIs
<1>3. /\ process'.exported = {"here"} /\ process'.replica = process.replica
      /\ Created(process)' = Created(process)
      /\ \A f \in Created(process) :
           /\ f \in Asynchronous => /\ process'.fronts[f] = process.fronts[f]
                                    /\ SameRequests(process, process', f)
           /\ f \notin Asynchronous => ~process'.fronts[f].enabled
  BY <1>1, <1>2, RegisteringIs DEF Inv
<1>. DEFINE m == Entry("here", TRUE)
<1>4. m \in Message /\ m.kind = "entry" /\ m.server = "here" /\ m.present
  BY EntryIs DEF Server
<1>5. /\ UNCHANGED <<master, news, objectMap>> /\ announced' = Append(announced, m)
      /\ announced \in Seq(Message)
  <2>1. \E p : RegisterObject(p, TRUE)
    BY Zenon DEF RegisterService
  <2>2. UNCHANGED objectMap /\ announced' = Append(announced, m)
    BY <2>1 DEF RegisterObject
  <2>. QED  BY Zenon, <1>1, <2>2 DEF RegisterService, Inv, Types
<1>. HIDE DEF m
<1>6. Present' = "here" /\ Present = NoServer
  BY <1>1, <1>3, PresentIs DEF Here, Present
<1>7. Chain(announced', objectMap, "here")
  <2>1. Chain(announced, objectMap, NoServer)
    BY <1>1, <1>6 DEF Followed
  <2>2. "here" \in Servers /\ Leads(NoServer, m, "here")
    BY <1>4 DEF Servers, Server, Leads
  <2>3. Chain(Append(announced, m), objectMap, "here")
    BY <1>4, <1>5, <2>1, <2>2, ChainAppended
  <2>. QED  BY <1>5, <2>3
<1>8. Followed'
  BY <1>1, <1>3, <1>5, <1>6, <1>7 DEF Followed
<1>9. Withdrawal => Withdrawal'
  <2>1. ToSet(announced') = ToSet(announced) \union {m}
    BY <1>4, <1>5, AppendIs
  <2>. QED  BY <1>5, <2>1 DEF Withdrawal
<1>10. ASSUME NEW f \in Created(process)
       PROVE  Linked(f)'
  <2>1. CASE f \in Asynchronous
    <3>1. /\ process'.fronts[f] = process.fronts[f] /\ Linked(f)
          /\ Asks(process, f, "elsewhere") => Asks(process', f, "elsewhere")
      BY <1>3, <2>1 DEF Links, SameRequests, Server
    <3>2. OnItsWay(f) => OnItsWay(f)'
      BY <1>5 DEF OnItsWay
    <3>. QED  BY <1>3, <1>5, <1>9, <3>1, <3>2 DEF Linked
  <2>2. CASE f \notin Asynchronous
    BY <1>3, <1>5, <2>2 DEF Linked
  <2>. QED  BY <2>1, <2>2
<1>. QED  BY <1>1, <1>3, <1>8, <1>10 DEF Links

LEMMA TakenBackLinked ==
  ASSUME Links, UnregisterService \/ DeleteService
  PROVE  Links'
<1>1. Inv /\ Inv' /\ Followed /\ TakenBack
  BY TakenBackIs DEF Links
<1>. DEFINE m == Entry("here", FALSE)
<1>2. /\ Here /\ UNCHANGED <<master, news>>
      /\ objectMap' = IF master THEN NoServer ELSE objectMap
      /\ announced' = IF master THEN announced ELSE Append(announced, m)
      /\ announced \in Seq(Message) /\ news \in Seq(Message)
  BY <1>1, Zenon DEF UnregisterService, DeleteService, Inv, Types
<1>3. m \in Message /\ m.kind = "entry" /\ m.server = "here" /\ ~m.present
  BY EntryIs DEF Server
<1>. HIDE DEF m
<1>4. /\ process'.exported = {} /\ Created(process)' = Created(process)
      /\ process'.replica = IF master THEN NoServer ELSE process.replica
      /\ Present = "here" /\ Present' = NoServer /\ ~Here'
      /\ NoServer \in Servers
  BY <1>1, <1>2, PresentIs DEF TakenBack, Present, Here, Servers
<1>5. CASE master
  <2>1. /\ announced' = <<>> /\ objectMap' = NoServer /\ process'.replica = NoServer
        /\ \A n \in ToSet(news) : n.kind # "entry"
    BY <1>1, <1>2, <1>4, <1>5 DEF Followed
  <2>2. Chain(news, NoServer, NoServer)
    BY <1>2, <1>4, <2>1, ChainWithoutEntries
  <2>3. Followed'
    BY <1>2, <1>4, <1>5, <2>1, <2>2 DEF Followed
  <2>4. ASSUME NEW f \in Created(process)
        PROVE  Linked(f)'
    <3>1. Linked(f) /\ Withdrawn(process, process', f)
      BY <1>1, <1>5 DEF Links, TakenBack
    <3>. QED  BY <1>2, <1>4, <1>5, <2>1, <3>1 DEF Linked, Withdrawn, NoServer
  <2>. QED  BY <1>1, <1>4, <2>3, <2>4 DEF Links
<1>6. CASE ~master
  <2>1. Chain(announced', objectMap, NoServer)
    <3>1. Chain(announced, objectMap, "here") /\ Leads("here", m, NoServer)
      BY <1>1, <1>3, <1>4, <1>6 DEF Followed, Leads
    <3>2. Chain(Append(announced, m), objectMap, NoServer)
      BY <1>2, <1>3, <1>4, <3>1, ChainAppended
    <3>. QED  BY <1>2, <1>6, <3>2
  <2>2. Followed'
    BY <1>1, <1>2, <1>4, <1>6, <2>1 DEF Followed
  <2>3. Withdrawal'
    <3>1. ToSet(Append(announced, m)) = ToSet(announced) \union {m}
      BY <1>2, <1>3, AppendIs
    <3>. QED  BY <1>2, <1>3, <1>6, <3>1 DEF Withdrawal, Withdraws
  <2>4. ASSUME NEW f \in Created(process)
        PROVE  Linked(f)'
    BY <1>2, <1>6, <2>3 DEF Linked
  <2>. QED  BY <1>1, <1>4, <2>2, <2>4 DEF Links
<1>. QED  BY <1>5, <1>6

LEMMA InitLinks == Init => Links
<1>. SUFFICES ASSUME Init
              PROVE  Links
  OBVIOUS
<1>1. Inv
  BY InitInv
<1>2. /\ news = <<>> /\ announced = <<>> /\ objectMap = NoServer
      /\ process.replica = NoServer /\ process.exported = {} /\ process.created = <<>>
  BY DEF Init
<1>3. Present = NoServer /\ ~Here /\ NoServer \in Servers
  BY <1>2 DEF Present, Here, Servers
<1>4. Followed
  BY <1>2, <1>3, NothingIsChain DEF Followed
<1>5. Created(process) = {}
  BY <1>2 DEF Created, ToSet
<1>. QED  BY <1>1, <1>4, <1>5 DEF Links

LEMMA NextLinks ==
  ASSUME Links, [Next]_vars
  PROVE  Links'
<1>1. CASE ServiceStep
  <2>1. ASSUME NEW v \in Value, NEW w \in Value, ChangeValue(v) \/ ChangeValueTwice(v, w)
        PROVE  Links'
    BY <2>1, ChangeLinked
  <2>2. ASSUME NEW v \in Value, ChangeElsewhere(v)
        PROVE  Links'
    BY <2>2, ChangeLinked
  <2>. QED  BY <1>1, <2>1, <2>2, RegisteredByMaster, RegisteredByOther, TakenBackLinked,
               ElsewhereLinked, Zenon DEF ServiceStep
<1>2. CASE HandleAnnouncement
  BY <1>2, AnnouncementLinked
<1>3. CASE RequestStep
  BY <1>3, RequestLinked DEF RequestStep
<1>4. CASE NewsStep
  BY <1>4, EntryLinked, SnapshotLinked, UpdateLinked DEF NewsStep
<1>5. CASE TimerStep
  BY <1>5, ReadLinked, CallLinked DEF TimerStep
<1>6. CASE ClientStep
  BY <1>6, CompleteLinked, CallLinked DEF ClientStep
<1>7. CASE AnswerStep
  BY <1>7, CallLinked DEF AnswerStep
<1>8. CASE UNCHANGED vars
  <2>1. Inv'
    BY NextInv DEF Links
  <2>2. UNCHANGED <<process, master, announced, objectMap, news>>
    BY <1>8 DEF vars
  <2>. QED  BY <2>1, <2>2, ValuesLinked DEF Links, Inv, OnlyValues, SameLink, SameBinder,
               SameRequests, Steady, OnItsWay
<1>. QED  BY <1>1, <1>2, <1>3, <1>4, <1>5, <1>6, <1>7, <1>8 DEF Next

\* Every binder has the server that this process knows of, or is about to
\* hear of a change, and what is on its way leads to the service's exporter
\* (DBusIPCProxyBinder::checkRegistry, DBusObjectRegistry).
THEOREM EveryBinderLinked == Spec => []Links
BY InitLinks, NextLinks, PTL DEF Spec

LEMMA SettledIs ==
  ASSUME Links, Settled
  PROVE  /\ process.replica = Present /\ ~Withdrawal
         /\ \A f : ~OnItsWay(f) /\ ~Pending(process, f)
         /\ \A f : \A server \in Server : ~Asks(process, f, server)
<1>1. /\ news = <<>> /\ announced = <<>> /\ process.timers = <<>>
      /\ \A server \in Server : process.requests[server] = <<>>
  BY DEF Settled
<1>2. ToSet(<<>>) = {}
  BY DEF ToSet
<1>3. process.replica = Present
  <2>1. CASE master
    BY <1>1, <2>1, ChainOfNothing DEF Links, Followed
  <2>2. CASE ~master
    <3>1. Chain(<<>>, process.replica, objectMap) /\ Chain(<<>>, objectMap, Present)
      BY <1>1, <2>2 DEF Links, Followed
    <3>2. process.replica = objectMap
      BY <3>1, ChainOfNothing
    <3>3. objectMap = Present
      BY <3>1, ChainOfNothing
    <3>. QED  BY <3>2, <3>3
  <2>. QED  BY <2>1, <2>2
<1>. QED  BY <1>1, <1>2, <1>3 DEF Withdrawal, OnItsWay, Pending, Asks

LEMMA LinkedIsBest ==
  ASSUME Links, Settled, NEW f \in Created(process)
  PROVE  \/ process.fronts[f].wrapped = BestProvider(f)
         \/ process.exported = {} /\ process.fronts[f].outdated /\ f \in Asynchronous
<1>. DEFINE x == process.fronts[f]
<1>1. /\ Right(process) /\ FrontOK(process, f, "service") /\ Linked(f)
      /\ HasObject(process, f) /\ HasAdapter(process, f) /\ f \in FrontEnd
  BY CreatedIs DEF Links, Inv, Right, Complete
<1>2. /\ process.exported \in {{}, {"here"}, {"elsewhere"}}
      /\ process.manager <=> "here" \in process.exported
      /\ process.localEntry = process.manager
      /\ process.manager \in BOOLEAN /\ x.provider \in BOOLEAN
  BY <1>1, FrontOf, FrontFields, ProcessFields DEF Right, Complete, Base
<1>3. /\ process.replica = Present /\ ~Withdrawal /\ ~OnItsWay(f) /\ ~Pending(process, f)
      /\ ~Asks(process, f, "elsewhere")
  <2>1. "elsewhere" \in Server
    BY DEF Server
  <2>. QED  BY <2>1, SettledIs
<1>4. CASE process.exported = {"here"}
  <2>1. BestProvider(f) = IF f \in Asynchronous THEN "local" ELSE "service"
    BY <1>4 DEF BestProvider, Here
  <2>2. f \in Asynchronous => x.wrapped = "local"
    BY <1>1, <1>2, <1>3, <1>4 DEF HasAdapter, FrontOK, Shaped
  <2>3. f \notin Asynchronous => x.wrapped = "service"
    BY <1>1, <1>2, <1>4 DEF HasObject, FrontOK, Shaped
  <2>. QED  BY <2>1, <2>2, <2>3
<1>5. CASE process.exported = {"elsewhere"}
  <2>1. BestProvider(f) = "dbus" /\ process.replica = "elsewhere"
    BY <1>3, <1>5 DEF BestProvider, Here, Present
  <2>2. x.enabled
    BY <1>1, <1>5, NoObject
  <2>3. x.available
    BY <1>1, <1>3, <2>1, <2>2 DEF Linked, NoServer
  <2>. QED  BY <1>1, <2>1, <2>2, <2>3 DEF FrontOK, Shaped
<1>6. CASE process.exported = {}
  <2>1. BestProvider(f) = "default" /\ process.replica = NoServer
    BY <1>3, <1>6 DEF BestProvider, Here, Present
  <2>2. x.enabled
    BY <1>1, <1>6, NoObject
  <2>3. x.server = NoServer \/ (x.outdated /\ f \in Asynchronous)
    BY <1>1, <1>3, <2>1, <2>2 DEF Linked
  <2>4. x.available => x.outdated /\ f \in Asynchronous
    BY <1>1, <2>3 DEF FrontOK, Shaped, Draft, BinderOK
  <2>. QED  BY <1>1, <1>6, <2>1, <2>2, <2>4 DEF FrontOK, Shaped
<1>. QED  BY <1>2, <1>4, <1>5, <1>6

\* A front end uses the service of its process or the proxy of another
\* process's one, and nothing when there is no service, once everything is
\* delivered (IPCProxy::refreshProvider); a withdrawn service may stay in
\* use only where BestProviderInUse excepts it.
THEOREM BestProviderFound == Spec => []BestProviderInUse
<1>1. Links => BestProviderInUse
  BY LinkedIsBest DEF BestProviderInUse
<1>. QED  BY <1>1, EveryBinderLinked, PTL

-----------------------------------------------------------------------------
(***************************************************************************)
(* The service's values on their way to the front ends.                    *)
(***************************************************************************)
\* Message m has a value of the service for the D-Bus proxy of f.
Carries(m, f) ==
  (m.kind = "update" /\ f \in m.to) \/ (m.kind = "snapshot" /\ m.front = f)

\* With base stored, f has value v when all of the queue is delivered.
Ends(queue, f, base, v) ==
  \/ base = v /\ \A m \in ToSet(queue) : ~Carries(m, f)
  \/ \E k \in DOMAIN queue :
       /\ Carries(queue[k], f) /\ queue[k].value = v
       /\ \A n \in DOMAIN queue : n > k => ~Carries(queue[n], f)

LEMMA EndsOfNothing ==
  ASSUME NEW f, NEW base, NEW v, Ends(<<>>, f, base, v)
  PROVE  base = v
BY DEF Ends

LEMMA EndsAppended ==
  ASSUME NEW queue \in Seq(Message), NEW m \in Message, NEW f, NEW base, NEW v
  PROVE  /\ ~Carries(m, f) /\ Ends(queue, f, base, v) => Ends(Append(queue, m), f, base, v)
         /\ Carries(m, f) /\ m.value = v => Ends(Append(queue, m), f, base, v)
<1>. DEFINE q == Append(queue, m)
            N == Len(queue)
<1>1. /\ N \in Nat /\ DOMAIN queue = 1 .. N /\ DOMAIN q = 1 .. N + 1
      /\ q[N + 1] = m /\ \A n \in 1 .. N : q[n] = queue[n]
  OBVIOUS
<1>2. ToSet(q) = ToSet(queue) \union {m}
  BY AppendIs
<1>. HIDE DEF q, N
<1>3. ASSUME ~Carries(m, f), Ends(queue, f, base, v)
      PROVE  Ends(q, f, base, v)
  <2>1. CASE base = v /\ \A e \in ToSet(queue) : ~Carries(e, f)
    BY <1>2, <1>3, <2>1 DEF Ends
  <2>2. ASSUME NEW k \in DOMAIN queue, Carries(queue[k], f), queue[k].value = v,
               \A n \in DOMAIN queue : n > k => ~Carries(queue[n], f)
        PROVE  Ends(q, f, base, v)
    <3>1. k \in DOMAIN q /\ Carries(q[k], f) /\ q[k].value = v
      BY <1>1, <2>2
    <3>2. ASSUME NEW n \in DOMAIN q, n > k
          PROVE  ~Carries(q[n], f)
      <4>1. n = N + 1 \/ n \in 1 .. N
        BY <1>1
      <4>. QED  BY <1>1, <1>3, <2>2, <3>2, <4>1
    <3>. QED  BY <3>1, <3>2 DEF Ends
  <2>. QED  BY <1>3, <2>1, <2>2 DEF Ends
<1>4. ASSUME Carries(m, f), m.value = v
      PROVE  Ends(q, f, base, v)
  <2>1. N + 1 \in DOMAIN q /\ \A n \in DOMAIN q : ~(n > N + 1)
    BY <1>1
  <2>. QED  BY <1>1, <1>4, <2>1 DEF Ends
<1>. QED  BY <1>3, <1>4 DEF q

LEMMA EndsTail ==
  ASSUME NEW queue \in Seq(Message), queue # <<>>, NEW f, NEW base, NEW v,
         Ends(queue, f, base, v)
  PROVE  Ends(Tail(queue), f, IF Carries(Head(queue), f) THEN Head(queue).value ELSE base, v)
<1>. DEFINE q == Tail(queue)
            N == Len(queue)
            b == IF Carries(Head(queue), f) THEN Head(queue).value ELSE base
<1>1. /\ N \in Nat \ {0} /\ DOMAIN queue = 1 .. N /\ DOMAIN q = 1 .. N - 1
      /\ Head(queue) = queue[1] /\ \A n \in 1 .. N - 1 : q[n] = queue[n + 1]
  OBVIOUS
<1>. HIDE DEF q, N
<1>2. ASSUME \A n \in DOMAIN queue : n > 1 => ~Carries(queue[n], f)
      PROVE  \A e \in ToSet(q) : ~Carries(e, f)
  <2>1. \A n \in DOMAIN q : n + 1 \in DOMAIN queue /\ n + 1 > 1 /\ q[n] = queue[n + 1]
    BY <1>1
  <2>. QED  BY <1>2, <2>1 DEF ToSet
<1>3. CASE base = v /\ \A e \in ToSet(queue) : ~Carries(e, f)
  <2>1. \A n \in DOMAIN queue : ~Carries(queue[n], f)
    BY <1>3 DEF ToSet
  <2>2. b = v
    BY <1>1, <1>3, <2>1
  <2>. QED  BY <1>2, <2>1, <2>2 DEF Ends, q
<1>4. ASSUME NEW k \in DOMAIN queue, Carries(queue[k], f), queue[k].value = v,
             \A n \in DOMAIN queue : n > k => ~Carries(queue[n], f)
      PROVE  Ends(q, f, b, v)
  <2>1. CASE k = 1
    <3>1. b = v
      BY <1>1, <1>4, <2>1
    <3>. QED  BY <1>2, <1>4, <2>1, <3>1 DEF Ends
  <2>2. CASE k # 1
    <3>1. k - 1 \in DOMAIN q /\ q[k - 1] = queue[k]
      BY <1>1, <2>2
    <3>2. ASSUME NEW n \in DOMAIN q, n > k - 1
          PROVE  ~Carries(q[n], f)
      <4>1. n + 1 \in DOMAIN queue /\ n + 1 > k /\ q[n] = queue[n + 1]
        BY <1>1, <3>2
      <4>. QED  BY <1>4, <4>1
    <3>. QED  BY <1>4, <3>1, <3>2 DEF Ends
  <2>. QED  BY <2>1, <2>2
<1>. QED  BY <1>3, <1>4 DEF Ends, q, b

\* The Local IPC adapter has sent every value, unless it left one out.
Sent == Here /\ ~process.dropped => process.sent = process.value

\* A connected front end has the service's value, or will read it, unless it
\* got a signal without its values or the adapter left one out.
Told(f) ==
  Here /\ f \in Asynchronous /\ Receives(process, f) =>
    \/ Pending(process, f)
    \/ f \in process.starved \/ process.dropped
    \/ process.fronts[f].local.value = process.value

\* The D-Bus binder of f is bound to the service of another process.
Served(f) ==
  LET x == process.fronts[f]
  IN  /\ x.enabled /\ x.server = "elsewhere" /\ process.replica = "elsewhere"
      /\ "elsewhere" \in process.exported /\ ~Withdrawal

\* The D-Bus proxy of f will have that service's value, unless it read one
\* ahead of an older update.
Carried(f) ==
  Served(f) =>
    \/ f \in process.overtaken
    \/ f \in Asynchronous /\ Asks(process, f, "elsewhere")
    \/ Ends(news, f, process.fronts[f].dbus.value, process.value)

Valued(f) == Told(f) /\ Carried(f) /\ Subscribed(process, f)

Values == Links /\ Sent /\ \A f \in Created(process) : Valued(f)

LEMMA ToldStays ==
  ASSUME NEW f, Told(f), KeepsReading(process, process', f), Here' => Here,
         process'.value = process.value, process.dropped => process'.dropped,
         f \in process.starved => f \in process'.starved
  PROVE  Told(f)'
BY DEF Told, KeepsReading

LEMMA ServedStays ==
  ASSUME NEW f, Served(f)', process'.fronts[f].enabled => process.fronts[f].enabled,
         process'.fronts[f].server = process.fronts[f].server,
         process'.replica = process.replica, process'.exported = process.exported,
         Withdrawal => Withdrawal'
  PROVE  Served(f)
BY DEF Served

LEMMA CarriedStays ==
  ASSUME NEW f, Carried(f), Served(f)' => Served(f),
         f \in process.overtaken => f \in process'.overtaken,
         Asks(process, f, "elsewhere") => Asks(process', f, "elsewhere"),
         Ends(news, f, process.fronts[f].dbus.value, process.value) =>
           Ends(news', f, process'.fronts[f].dbus.value, process'.value)
  PROVE  Carried(f)'
BY DEF Carried

\* A synchronous front end for which no update waits has its value.
LEMMA NothingWaits ==
  ASSUME Inv, NEW f, f \notin Asynchronous, ~UpdateWaits(f)
  PROVE  \A m \in ToSet(news) : ~Carries(m, f)
BY DEF Inv, Snapshots, UpdateWaits, Carries, ToSet

\* The process is the same for f, but for a message or none.
LEMMA SameIsValued ==
  ASSUME Inv, NEW f, Valued(f), Same(process, process', f), SameService(process, process'),
         process'.replica = process.replica, process'.exported = process.exported,
         Withdrawal => Withdrawal',
         \/ UNCHANGED news
         \/ \E m \in Message : ~Carries(m, f) /\ news' = Append(news, m)
         \/ news # <<>> /\ ~Carries(Head(news), f) /\ news' = Tail(news)
  PROVE  Valued(f)'
<1>1. /\ process'.fronts[f] = process.fronts[f] /\ process'.value = process.value
      /\ KeepsReading(process, process', f) /\ (Here' => Here)
      /\ process'.starved = process.starved /\ process'.dropped = process.dropped
  BY SameKeepsReading DEF Same, SameService, Here
<1>2. Told(f)'
  BY <1>1, ToldStays DEF Valued
<1>3. Ends(news, f, process.fronts[f].dbus.value, process.value) =>
        Ends(news', f, process'.fronts[f].dbus.value, process'.value)
  <2>1. news \in Seq(Message)
    BY DEF Inv, Types
  <2>2. CASE UNCHANGED news
    BY <1>1, <2>2
  <2>3. CASE \E m \in Message : ~Carries(m, f) /\ news' = Append(news, m)
    BY <1>1, <2>1, <2>3, EndsAppended
  <2>4. CASE news # <<>> /\ ~Carries(Head(news), f) /\ news' = Tail(news)
    BY <1>1, <2>1, <2>4, EndsTail
  <2>. QED  BY <2>2, <2>3, <2>4
<1>4. Carried(f)'
  <2>1. Served(f)' => Served(f)
    BY <1>1, ServedStays
  <2>2. /\ f \in process'.overtaken <=> f \in process.overtaken
        /\ Asks(process, f, "elsewhere") => Asks(process', f, "elsewhere")
    BY DEF Same, SameRequests, Server
  <2>. QED  BY <1>3, <2>1, <2>2, CarriedStays DEF Valued
<1>. QED  BY <1>1, <1>2, <1>4 DEF Valued, Subscribed

LEMMA CreatedFronts ==
  ASSUME Inv
  PROVE  Created(process) \subseteq FrontEnd
BY CreatedIs DEF Inv, Right, Complete

\* registerService().
LEMMA RegisterValues ==
  ASSUME Values, RegisterService
  PROVE  Values'
<1>1. Links' /\ Inv
  <2>1. master \/ ~master
    OBVIOUS
  <2>. QED  BY <2>1, RegisteredByMaster, RegisteredByOther DEF Values, Links
<1>2. PICK v \in Value :
        process' = IF master THEN SetReplica(Registering(process, v), "here")
                   ELSE Registering(process, v)
  BY <1>1, RegisterServiceIs
<1>. DEFINE q == Registering(process, v)
<1>3. process.exported = {} /\ Right(process)
  BY <1>1, RegisterServiceIs DEF Inv
<1>4. /\ Right(q) /\ q.exported = {"here"} /\ Created(q) = Created(process) /\ q.sent = q.value
      /\ \A f \in Created(process) :
           /\ Subscribed(process, f) => Subscribed(q, f)
           /\ f \in Asynchronous => q.fronts[f] = process.fronts[f]
  BY <1>3, RegisteringIs
<1>. HIDE DEF q
<1>5. /\ process'.exported = {"here"} /\ Created(process)' = Created(process)
      /\ process'.sent = process'.value
      /\ \A f \in Created(process) :
           KeepsReading(q, process', f) /\ (Subscribed(q, f) => Subscribed(process', f))
  <2>1. CASE master
    <3>1. "here" \in Server \union {NoServer}
      BY DEF Server
    <3>2. process' = SetReplica(q, "here")
      BY <1>2, <2>1 DEF q
    <3>3. /\ process'.exported = q.exported /\ Created(process') = Created(q)
          /\ SameService(q, process') /\ \A f \in Created(q) : Checked(q, process', f)
      BY <1>4, <3>1, <3>2, SetReplicaIsRight
    <3>4. \A f \in Created(q) :
            KeepsReading(q, process', f) /\ (Subscribed(q, f) => Subscribed(process', f))
      BY <3>3 DEF Checked
    <3>. QED  BY <1>4, <3>3, <3>4 DEF SameService
  <2>2. CASE ~master
    <3>1. process' = q
      BY <1>2, <2>2 DEF q
    <3>. QED  BY <1>4, <3>1 DEF KeepsReading
  <2>. QED  BY <2>1, <2>2
<1>6. ASSUME NEW f \in Created(process)
      PROVE  Valued(f)'
  <2>1. f \in FrontEnd
    BY <1>1, CreatedFronts
  <2>2. f \in Asynchronous /\ Receives(q, f) => Pending(q, f)
    <3>1. process.fronts[f].enabled
      BY <1>3, <2>1, NoObject
    <3>2. Shaped(q, f, "service")
      BY <1>4, <1>6, <2>1 DEF Right, Complete, FrontOK
    <3>. QED  BY <1>4, <1>6, <3>1, <3>2 DEF Shaped
  <2>3. Told(f)'
    BY <1>5, <1>6, <2>2 DEF Told, KeepsReading
  <2>4. Carried(f)'
    BY <1>5 DEF Carried, Served
  <2>. QED  BY <1>4, <1>5, <1>6, <2>3, <2>4 DEF Valued, Values
<1>7. Sent'
  BY <1>5 DEF Sent
<1>. QED  BY <1>1, <1>5, <1>6, <1>7 DEF Values

\* unregisterService(), and the deletion of the service.
LEMMA TakenBackValues ==
  ASSUME Values, UnregisterService \/ DeleteService
  PROVE  Values'
<1>1. Links' /\ TakenBack
  BY TakenBackIs, TakenBackLinked DEF Values, Links
<1>2. ~Here' /\ process'.exported = {} /\ Created(process)' = Created(process)
  BY <1>1 DEF TakenBack, Here
<1>3. ASSUME NEW f \in Created(process)
      PROVE  Valued(f)'
  BY <1>1, <1>2 DEF Valued, Values, Told, Carried, Served, TakenBack
<1>. QED  BY <1>1, <1>2, <1>3 DEF Values, Sent

\* A value of the service in this process.
LEMMA ChangeValues ==
  ASSUME Values, NEW v \in Value, NEW w \in Value, ChangeValue(v) \/ ChangeValueTwice(v, w)
  PROVE  Values'
<1>1. /\ Links' /\ Inv /\ OnlyValues(process, process') /\ Here
      /\ Right(process) /\ v # process.value
  <2>1. Inv /\ Here /\ v # process.value
    BY DEF Values, Links, ChangeValue, ChangeValueTwice
  <2>. QED  BY <2>1, ChangeLinked, ValuesChangedIs DEF Values, ValuesChanged, Inv
<1>2. Here' /\ process'.exported = {"here"} /\ Created(process)' = Created(process)
  <2>1. process.exported = {"here"}
    BY <1>1 DEF Here, Right
  <2>. QED  BY <1>1, <2>1, OnlyValuesCreated DEF OnlyValues, Here
<1>. DEFINE a == Changed("here", v)
            b == SendSignal(a)
<1>3. /\ Unheard(a) /\ SameFronts(process, a) /\ a.value = v /\ a.sent = process.sent
      /\ a.dropped = process.dropped
  BY <1>1, ChangedIs
<1>. HIDE DEF a
<1>4. /\ Unheard(b) /\ b.value = v /\ b.sent = v /\ b.dropped = process.dropped
      /\ \A f \in Created(a) :
           /\ SameLocal(a, b, f)
           /\ a.sent # v /\ Receives(a, f) => f \in b.starved \/ b.fronts[f].local.value = v
      /\ OnlyValues(a, b)
  BY <1>3, SendSignalIs
<1>5. Created(a) = Created(process) /\ Created(b) = Created(process)
  BY <1>3, <1>4, OnlyValuesCreated DEF SameFronts, Created
<1>6. Sent' /\ \A f \in Created(process) : Told(f)'
  <2>1. CASE ChangeValue(v)
    <3>1. process' = ToldInProcess(b)
      BY <2>1 DEF ChangeValue, a, b
    <3>. HIDE DEF b
    <3>2. Kept(b, process') /\ \A f \in Created(b) : SameProxy(b, process', f)
      BY <1>4, <3>1, ToldIsRight
    <3>3. process'.value = v /\ process'.sent = v /\ process'.dropped = process.dropped
          /\ process'.starved = b.starved
      BY <1>4, <3>2 DEF Kept
    <3>4. ASSUME NEW f \in Created(process)
          PROVE  Told(f)'
      <4>1. SameProxy(b, process', f) /\ SameLocal(a, b, f)
        BY <1>4, <1>5, <3>2
      <4>2. Receives(process', f) => Receives(a, f)
        BY <4>1 DEF SameProxy, SameLocal
      <4>3. a.sent # v \/ process.dropped
        BY <1>1, <1>3 DEF Values, Sent
      <4>4. Receives(process', f) =>
              process.dropped \/ f \in b.starved \/ b.fronts[f].local.value = v
        BY <1>4, <1>5, <4>2, <4>3
      <4>. QED  BY <3>3, <4>1, <4>4 DEF Told, SameProxy
    <3>. QED  BY <3>3, <3>4 DEF Sent
  <2>2. CASE ChangeValueTwice(v, w)
    <3>. DEFINE yes == TRUE
                c == [b EXCEPT !.value = w, !.dropped = TRUE]
    <3>1. process' = ToldInProcess(c)
      BY <2>2 DEF ChangeValueTwice, a, b
    <3>. HIDE DEF b
    <3>2. b \in Processes
      BY <1>4 DEF Unheard, Housed, Base
    <3>3. b.overtaken \in SUBSET FrontEnd /\ yes \in BOOLEAN
      BY <3>2, ProcessFields
    <3>4. c = SetValueOf(b, w, b.overtaken, yes)
      BY <3>2 DEF SetValueOf, Processes
    <3>. HIDE DEF c
    <3>5. Unheard(c) /\ c.dropped = yes
      BY <1>4, <3>3, <3>4, SetValueOfIs
    <3>6. process'.dropped
      BY <3>1, <3>5, ToldIsRight DEF Kept
    <3>. QED  BY <3>6 DEF Sent, Told
  <2>. QED  BY <2>1, <2>2
<1>7. ASSUME NEW f \in Created(process)
      PROVE  Carried(f)' /\ Subscribed(process, f)'
  <2>1. SameLink(process, process', f)
    BY <1>1, CreatedFronts DEF OnlyValues
  <2>2. Carried(f)'
    BY <1>2 DEF Carried, Served
  <2>. QED  BY <2>1, <2>2 DEF SameLink, SameBinder, Subscribed, Values, Valued
<1>. QED  BY <1>1, <1>2, <1>6, <1>7 DEF Values, Valued

\* A value of another process's service is sent to the proxies bound to it.
LEMMA ElsewhereChangeValues ==
  ASSUME Values, NEW v \in Value, ChangeElsewhere(v)
  PROVE  Values'
<1>1. /\ Links' /\ Inv /\ Right(process) /\ news \in Seq(Message)
      /\ "elsewhere" \in process.exported /\ process' = Changed("elsewhere", v)
      /\ news' = Update("elsewhere", v)
  BY ChangeLinked DEF Values, Links, ChangeElsewhere, Inv, Types
<1>2. SameFronts(process, process') /\ process'.value = v
  BY <1>1, ChangedIs
<1>3. ~Here' /\ Created(process)' = Created(process)
  BY <1>1, <1>2 DEF SameFronts, Here, Right, Created
<1>4. ASSUME NEW f \in Created(process)
      PROVE  Valued(f)'
  <2>1. Subscribed(process', f)
    BY <1>2, <1>4 DEF Values, Valued, Subscribed, SameFronts
  <2>2. Told(f)'
    BY <1>3 DEF Told
  <2>3. ASSUME Served(f)'
        PROVE  Ends(news', f, process'.fronts[f].dbus.value, process'.value)
    <3>. DEFINE m == [kind |-> "update", to |-> Subscribers("elsewhere"), value |-> v]
    <3>1. f \in FrontEnd /\ "elsewhere" \in process.fronts[f].subscribed
      BY <1>1, <1>2, <1>4, <2>1, <2>3, CreatedFronts DEF Served, Subscribed, SameFronts, NoServer
    <3>2. f \in Subscribers("elsewhere")
      BY <3>1 DEF Subscribers
    <3>3. news' = Append(news, m) /\ m \in Message /\ Carries(m, f) /\ m.value = v
      BY <1>1, <3>2 DEF Update, Message, Subscribers, Carries
    <3>. HIDE DEF m
    <3>. QED  BY <1>1, <1>2, <3>3, EndsAppended
  <2>. QED  BY <2>1, <2>2, <2>3 DEF Valued, Carried
<1>. QED  BY <1>1, <1>3, <1>4 DEF Values, Sent

\* Another process exports the service, or withdraws it: its entry is on the way.
LEMMA ElsewhereValues ==
  ASSUME Values, ExportElsewhere \/ WithdrawElsewhere
  PROVE  Values'
<1>1. /\ Links' /\ Inv /\ Followed /\ (Withdrawal => Withdrawal') /\ ~Here'
      /\ process'.created = process.created /\ process'.replica = process.replica
      /\ process'.fronts = process.fronts
  BY ElsewhereIs, ElsewhereLinked DEF Values, Links, Here
<1>2. process.exported = {} \/ process'.exported = {}
  <2>1. CASE ExportElsewhere
    BY Zenon, <2>1 DEF ExportElsewhere, Free
  <2>2. CASE WithdrawElsewhere
    <3>1. process \in Processes
      BY <1>1 DEF Inv, Right, Complete, Base
    <3>. QED  BY <2>2, <3>1 DEF WithdrawElsewhere, Processes
  <2>. QED  BY <2>1, <2>2
<1>3. ASSUME NEW f \in Created(process)
      PROVE  Valued(f)'
  <2>1. ~Served(f)'
    <3>1. CASE process.exported = {}
      <4>1. process.replica = "elsewhere" => Withdrawal
        <5>1. Present = NoServer
          BY <1>1, <3>1, PresentIs
        <5>. QED  BY <1>1, <5>1, ReplicaIsPresent DEF NoServer
      <4>. QED  BY <1>1, <4>1 DEF Served
    <3>2. CASE process'.exported = {}
      BY <3>2 DEF Served
    <3>. QED  BY <1>2, <3>1, <3>2
  <2>. QED  BY <1>1, <1>3, <2>1 DEF Values, Valued, Told, Carried, Subscribed
<1>4. Created(process)' = Created(process)
  BY <1>1 DEF Created
<1>. QED  BY <1>1, <1>3, <1>4 DEF Values, Sent

\* The registry in another process passes an entry on.
LEMMA AnnouncementValues ==
  ASSUME Values, HandleAnnouncement
  PROVE  Values'
<1>1. /\ Links' /\ Inv /\ (Withdrawal => Withdrawal')
      /\ Head(announced) \in Message /\ Head(announced).kind = "entry"
  BY HandleAnnouncementIs, AnnouncementLinked DEF Values, Links
<1>2. UNCHANGED process /\ news' = Append(news, Head(announced))
  BY DEF HandleAnnouncement
<1>3. \A f : Same(process, process', f) /\ SameService(process, process')
  BY <1>2, SameIsReflexive DEF SameService
<1>4. \A f : ~Carries(Head(announced), f)
  BY <1>1 DEF Carries
<1>5. ASSUME NEW f \in Created(process)
      PROVE  Valued(f)'
  BY <1>1, <1>2, <1>3, <1>4, SameIsValued DEF Values
<1>. QED  BY <1>1, <1>2, <1>5 DEF Values, Sent, Here

\* The service in another process answers a front end with its value, or the
\* request is lost.
LEMMA RequestValues ==
  ASSUME Values, NEW server \in Server, HandleRequest(server)
  PROVE  Values'
<1>. DEFINE f == Head(process.requests[server])
<1>1. Links' /\ Inv /\ Followed /\ Taken(server, f)
  BY HandleRequestIs, RequestLinked DEF Values, Links
<1>. HIDE DEF f
<1>2. /\ process'.fronts = process.fronts /\ Kept(process, process')
      /\ UNCHANGED news
           \/ \E m \in Message : m.kind = "snapshot" /\ m.front = f /\ m.value = process.value
                                 /\ news' = Append(news, m)
      /\ \A g : SameLocal(process, process', g)
  BY <1>1 DEF Taken
<1>3. Withdrawal => Withdrawal'
  <2>1. UNCHANGED <<master, announced, objectMap>>
    BY DEF HandleRequest
  <2>2. \A m : m.kind = "snapshot" => m.kind # "entry"
    OBVIOUS
  <2>. QED  BY <1>1, <1>2, <2>1, <2>2, SteadyIsFollowed DEF Steady, Kept
<1>4. Created(process)' = Created(process) /\ (Here' <=> Here)
  BY <1>2 DEF Kept, Created, Here
<1>5. ASSUME NEW g \in Created(process)
      PROVE  Valued(g)'
  <2>1. g \in FrontEnd /\ Valued(g) /\ news \in Seq(Message)
    BY <1>1, <1>5, CreatedFronts DEF Values, Inv, Types
  <2>2. Told(g)'
    BY <1>2, <1>4, <2>1, ToldStays, SameKeepsReading DEF Valued, Kept
  <2>3. ASSUME Served(g)'
        PROVE  \/ g \in process'.overtaken
               \/ g \in Asynchronous /\ Asks(process', g, "elsewhere")
               \/ Ends(news', g, process'.fronts[g].dbus.value, process'.value)
    <3>1. Served(g) /\ "elsewhere" \in process.exported
      BY <1>2, <1>3, <2>3, ServedStays DEF Kept, Served
    <3>2. process'.value = process.value /\ process'.overtaken = process.overtaken
      BY <1>1, <1>2 DEF Kept, Taken
    <3>3. CASE g \in process.overtaken
      BY <3>2, <3>3
    <3>4. CASE g \in Asynchronous /\ Asks(process, g, "elsewhere")
      <4>1. CASE Asks(process', g, "elsewhere")
        BY <3>4, <4>1
      <4>2. CASE server = "elsewhere" /\ g = f
        <5>1. PICK m \in Message : m.kind = "snapshot" /\ m.front = f /\ m.value = process.value
                                   /\ news' = Append(news, m)
          BY <1>1, <3>1, <4>2 DEF Taken
        <5>2. Carries(m, g)
          BY <4>2, <5>1 DEF Carries
        <5>. QED  BY <2>1, <3>2, <5>1, <5>2, EndsAppended
      <4>. QED  BY <1>1, <2>1, <3>4, <4>1, <4>2 DEF Taken, Server
    <3>5. CASE Ends(news, g, process.fronts[g].dbus.value, process.value)
      <4>1. CASE UNCHANGED news
        BY <1>2, <3>2, <3>5, <4>1
      <4>2. ASSUME NEW m \in Message, m.value = process.value, news' = Append(news, m)
            PROVE  Ends(news', g, process'.fronts[g].dbus.value, process'.value)
        BY <1>2, <2>1, <3>2, <3>5, <4>2, EndsAppended
      <4>. QED  BY <1>2, <4>1, <4>2
    <3>. QED  BY <2>1, <3>1, <3>3, <3>4, <3>5 DEF Valued, Carried
  <2>. QED  BY <1>2, <2>1, <2>2, <2>3 DEF Valued, Carried, Subscribed
<1>6. Sent'
  BY <1>2, <1>4 DEF Values, Sent, Kept
<1>. QED  BY <1>1, <1>4, <1>5, <1>6 DEF Values

\* A new front end has a snapshot, or will get one.
LEMMA CompleteValues ==
  ASSUME Values, NEW f \in FrontEnd, CompleteFrontEnd(f)
  PROVE  Values'
<1>1. /\ Links' /\ Inv /\ Inv'
      /\ Created(process)' = Created(process) \union {f} /\ f \notin Created(process)
      /\ process'.exported = process.exported /\ process'.replica = process.replica
      /\ Begun(process, process', f) /\ SameService(process, process')
      /\ f \in Asynchronous /\ Receives(process', f) => Pending(process', f)
      /\ \A g \in FrontEnd \ {f} : Same(process, process', g)
  BY CompleteFrontEndIs, CompleteLinked DEF Values, Links
<1>2. UNCHANGED <<news, announced>>
  BY DEF CompleteFrontEnd
<1>3. ASSUME NEW g \in Created(process)
      PROVE  Valued(g)'
  <2>1. Same(process, process', g) /\ Valued(g) /\ (Withdrawal => Withdrawal')
    BY <1>1, <1>2, <1>3, CreatedFronts DEF Values, Withdrawal
  <2>. QED  BY <1>1, <1>2, <2>1, SameIsValued
<1>4. Valued(f)'
  <2>. DEFINE y == process'.fronts[f]
  <2>1. Told(f)'
    BY <1>1 DEF Told
  <2>2. Subscribed(process, f)'
    BY <1>1 DEF Begun, Bound, Subscribed
  <2>3. ASSUME Served(f)'
        PROVE  \/ f \in process'.overtaken
               \/ f \in Asynchronous /\ Asks(process', f, "elsewhere")
               \/ Ends(news', f, y.dbus.value, process'.value)
    <3>1. /\ process.replica = "elsewhere" /\ "elsewhere" \in process.exported
          /\ Bound(process, process', f)
      BY <1>1, <2>3 DEF Served, Begun, NoServer
    <3>2. CASE f \in Asynchronous
      BY <3>1, <3>2 DEF Bound, Server
    <3>3. CASE f \notin Asynchronous
      <4>1. y.dbus.value = process.value /\ (f \in process'.overtaken <=> UpdateWaits(f))
        BY <3>1, <3>3 DEF Bound
      <4>. QED  BY <1>1, <1>2, <3>3, <4>1, NothingWaits DEF SameService, Ends
    <3>. QED  BY <3>2, <3>3
  <2>. QED  BY <2>1, <2>2, <2>3 DEF Valued, Carried
<1>5. Sent'
  BY <1>1 DEF Values, Sent, SameService, Here
<1>. QED  BY <1>1, <1>3, <1>4, <1>5 DEF Values

\* An entry of the registry reaches the binders.
LEMMA EntryValues ==
  ASSUME Values, OnEntry
  PROVE  Values'
<1>1. /\ Links' /\ Inv /\ Followed /\ (Head(news).present => (Withdrawal => Withdrawal'))
      /\ process'.replica = Listed(Head(news)) /\ process'.exported = process.exported
      /\ Created(process)' = Created(process) /\ SameService(process, process')
      /\ Head(news) \in Message /\ Head(news).kind = "entry" /\ news # <<>>
      /\ ToSet(news) = {Head(news)} \union ToSet(news)'
      /\ \A f \in Created(process) : Checked(process, process', f)
  BY OnEntryIs, EntryLinked DEF Values, Links
<1>2. news \in Seq(Message)
  BY <1>1 DEF Inv, Types
<1>3. ASSUME NEW f \in Created(process)
      PROVE  Valued(f)'
  <2>. DEFINE x == process.fronts[f]
              y == process'.fronts[f]
  <2>1. /\ Checked(process, process', f) /\ Linked(f) /\ Valued(f)
    BY <1>1 DEF Values, Links
  <2>2. Told(f)' /\ Subscribed(process, f)'
    BY <1>1, <2>1, ToldStays DEF Valued, Checked, SameService, Here
  <2>3. ASSUME Served(f)'
        PROVE  \/ f \in process'.overtaken
               \/ f \in Asynchronous /\ Asks(process', f, "elsewhere")
               \/ Ends(news', f, y.dbus.value, process'.value)
    <3>1. /\ process'.replica = "elsewhere" /\ x.enabled /\ ~Withdrawal'
          /\ "elsewhere" \in process'.exported
      BY <2>1, <2>3 DEF Served, Checked
    <3>2. Head(news).present /\ Head(news).server = "elsewhere" /\ ~Withdrawal
      BY <1>1, <3>1 DEF Listed, NoServer
    <3>3. process.replica = NoServer
      <4>. DEFINE b == IF master THEN Present ELSE objectMap
      <4>1. Chain(news, process.replica, b)
        BY <1>1 DEF Followed
      <4>. HIDE DEF b
      <4>2. PICK c \in Servers : Leads(process.replica, Head(news), c)
        BY <1>1, <1>2, <4>1, ChainTail
      <4>. QED  BY <1>1, <3>2, <4>2 DEF Leads
    <3>4. x.server # "elsewhere"
      BY <2>1, <3>1, <3>2, <3>3 DEF Linked, NoServer
    <3>5. CASE f \in Asynchronous
      BY <2>1, <3>1, <3>4, <3>5 DEF Checked, NoServer
    <3>6. CASE f \notin Asynchronous
      <4>1. y.dbus.value = process'.value /\ (f \in process'.overtaken <=> UpdateWaits(f))
        BY <2>1, <3>1, <3>4, <3>6 DEF Checked, NoServer
      <4>. QED  BY <1>1, <3>6, <4>1, NothingWaits DEF Ends
    <3>. QED  BY <3>5, <3>6
  <2>. QED  BY <2>2, <2>3 DEF Valued, Carried
<1>4. Sent'
  BY <1>1 DEF Values, Sent, SameService, Here
<1>. QED  BY <1>1, <1>3, <1>4 DEF Values

\* What a delivered message leaves.
LEMMA DeliveredEnds ==
  ASSUME Inv, NEW f, NEW kind, Delivers(kind),
         Ends(news, f, process.fronts[f].dbus.value, process.value),
         process'.value = process.value,
         process'.fronts[f].dbus.value =
           IF Carries(Head(news), f) THEN Head(news).value ELSE process.fronts[f].dbus.value
  PROVE  Ends(news', f, process'.fronts[f].dbus.value, process'.value)
BY EndsTail DEF Inv, Types, Delivers

\* No entry is delivered: the withdrawals on their way stay there.
LEMMA WithdrawalStays ==
  ASSUME Inv, Followed, NEW kind \in {"snapshot", "update"}, Delivers(kind), UNCHANGED objectMap,
         process'.replica = process.replica, process'.exported = process.exported
  PROVE  Withdrawal => Withdrawal'
<1>1. Steady
  BY DEF Delivers, Steady
<1>. QED  BY <1>1, SteadyIsFollowed

LEMMA SnapshotValues ==
  ASSUME Values, OnSnapshot
  PROVE  Values'
<1>0. PICK f : f = Head(news).front
  OBVIOUS
<1>1. /\ Links' /\ Inv /\ Followed /\ Head(news).kind = "snapshot"
      /\ f \in Created(process) /\ Kept(process, process')
      /\ process'.fronts[f].server = process.fronts[f].server
      /\ SameRequests(process, process', f)
      /\ process'.fronts[f].enabled => process.fronts[f].enabled
      /\ process'.fronts[f].dbus.value = Head(news).value
      /\ process'.fronts[f].subscribed = process.fronts[f].subscribed
      /\ KeepsReading(process, process', f)
      /\ f \in process'.overtaken <=> f \in process.overtaken
      /\ \A g \in FrontEnd \ {f} : Same(process, process', g)
  BY <1>0, OnSnapshotIs, SnapshotLinked DEF Values, Links
<1>2. Delivers("snapshot") /\ UNCHANGED objectMap
  BY DEF OnSnapshot
<1>3. /\ Withdrawal => Withdrawal'
      /\ SameService(process, process') /\ Created(process)' = Created(process)
      /\ process'.replica = process.replica /\ process'.exported = process.exported
      /\ Here' <=> Here
  BY <1>1, <1>2, WithdrawalStays DEF Kept, SameService, Created, Here
<1>4. ASSUME NEW g \in Created(process), g # f
      PROVE  Valued(g)'
  <2>1. Same(process, process', g) /\ Valued(g) /\ ~Carries(Head(news), g)
    BY <1>0, <1>1, <1>4, CreatedFronts DEF Values, Carries
  <2>. QED  BY <1>1, <1>2, <1>3, <2>1, SameIsValued DEF Delivers
<1>5. Valued(f)'
  <2>1. Valued(f) /\ Carries(Head(news), f)
    BY <1>0, <1>1 DEF Values, Carries
  <2>2. Told(f)' /\ Subscribed(process, f)'
    BY <1>1, <1>3, <2>1, ToldStays DEF Valued, Subscribed, SameService
  <2>3. Served(f)' => Served(f)
    BY <1>1, <1>3, ServedStays
  <2>4. Ends(news, f, process.fronts[f].dbus.value, process.value) =>
          Ends(news', f, process'.fronts[f].dbus.value, process'.value)
    BY <1>1, <1>2, <1>3, <2>1, DeliveredEnds DEF SameService
  <2>5. Carried(f)'
    BY <1>1, <2>1, <2>3, <2>4, CarriedStays DEF Valued, SameRequests, Server
  <2>. QED  BY <2>2, <2>5 DEF Valued
<1>6. Sent'
  BY <1>3 DEF Values, Sent, SameService
<1>. QED  BY <1>1, <1>3, <1>4, <1>5, <1>6 DEF Values

LEMMA UpdateValues ==
  ASSUME Values, OnUpdate
  PROVE  Values'
<1>1. /\ Links' /\ Inv /\ Followed /\ OnlyValues(process, process') /\ Kept(process, process')
      /\ \A f \in Created(process) :
           SameProxy(process, process', f) /\ Stored(Head(news), process, process', f)
  BY OnUpdateIs, UpdateLinked DEF Values, Links
<1>2. Delivers("update") /\ UNCHANGED objectMap
  BY DEF OnUpdate
<1>3. /\ Withdrawal => Withdrawal'
      /\ SameService(process, process') /\ Created(process)' = Created(process)
      /\ process'.replica = process.replica /\ process'.exported = process.exported
      /\ Here' <=> Here
  BY <1>1, <1>2, WithdrawalStays DEF Kept, SameService, Created, Here
<1>4. ASSUME NEW f \in Created(process)
      PROVE  Valued(f)'
  <2>1. /\ Valued(f) /\ SameLink(process, process', f) /\ SameProxy(process, process', f)
        /\ Stored(Head(news), process, process', f)
    BY <1>1, <1>4, CreatedFronts DEF Values, OnlyValues
  <2>2. Told(f)' /\ Subscribed(process, f)'
    <3>1. KeepsReading(process, process', f)
      BY <2>1, SameKeepsReading DEF SameProxy
    <3>. QED  BY <1>3, <2>1, <3>1, ToldStays
              DEF Valued, Subscribed, SameService, SameLink, SameBinder
  <2>3. Served(f)' => Served(f)
    BY <1>3, <2>1, ServedStays DEF SameLink, SameBinder
  <2>4. Ends(news, f, process.fronts[f].dbus.value, process.value) =>
          Ends(news', f, process'.fronts[f].dbus.value, process'.value)
    <3>1. Carries(Head(news), f) <=> f \in Head(news).to
      BY <1>2 DEF Carries, Delivers
    <3>2. process'.fronts[f].dbus.value =
            IF Carries(Head(news), f) THEN Head(news).value ELSE process.fronts[f].dbus.value
      BY <1>2, <2>1, <3>1 DEF Stored, Delivers
    <3>. QED  BY <1>1, <1>2, <1>3, <3>2, DeliveredEnds DEF SameService
  <2>5. Carried(f)'
    BY <2>1, <2>3, <2>4, CarriedStays DEF Valued, Stored, SameLink, SameRequests, Server
  <2>. QED  BY <2>2, <2>5 DEF Valued
<1>5. Sent'
  BY <1>3 DEF Values, Sent, SameService
<1>. QED  BY <1>1, <1>3, <1>4, <1>5 DEF Values

\* A front end that reads the properties has the present value.
LEMMA ReadValues ==
  ASSUME Values, ReadProperties
  PROVE  Values'
<1>0. PICK f : f = Head(process.timers).front
  OBVIOUS
<1>1. /\ Links' /\ Inv
      /\ process'.created = process.created /\ process'.exported = process.exported
      /\ process'.replica = process.replica
      /\ \A g \in FrontEnd : LeftLink(process, process', g)
      /\ process'.value = process.value /\ process'.sent = process.sent
      /\ process'.dropped = process.dropped /\ UNCHANGED <<news, announced>>
      /\ process'.starved = process.starved \ {f}
      /\ process'.fronts[f].local.value = process.value
      /\ \A g \in FrontEnd \ {f} : Same(process, process', g)
  BY <1>0, ReadPropertiesIs, ReadLinked DEF Values, Links
<1>2. /\ Created(process)' = Created(process) /\ (Here' <=> Here) /\ (Withdrawal => Withdrawal')
  BY <1>1 DEF Created, Here, Withdrawal
<1>3. ASSUME NEW g \in Created(process)
      PROVE  Valued(g)'
  <2>1. g \in FrontEnd /\ Valued(g) /\ LeftLink(process, process', g)
    BY <1>1, <1>3, CreatedFronts DEF Values
  <2>2. Told(g)'
    <3>1. CASE g = f
      BY <1>1, <3>1 DEF Told
    <3>2. CASE g # f
      <4>1. KeepsReading(process, process', g)
        BY <1>1, <2>1, <3>2, SameKeepsReading
      <4>. QED  BY <1>1, <1>2, <2>1, <3>2, <4>1, ToldStays DEF Valued
    <3>. QED  BY <3>1, <3>2
  <2>3. Served(g)' => Served(g)
    BY <1>1, <1>2, <2>1, ServedStays DEF LeftLink, SameBinder
  <2>4. Carried(g)'
    BY <1>1, <2>1, <2>3, CarriedStays
    DEF Valued, LeftLink, SameStore, SameRequests, Server
  <2>5. Subscribed(process, g)'
    BY <2>1 DEF Valued, Subscribed, LeftLink, SameBinder
  <2>. QED  BY <2>2, <2>4, <2>5 DEF Valued
<1>4. Sent'
  BY <1>1, <1>2 DEF Values, Sent
<1>. QED  BY <1>1, <1>2, <1>3, <1>4 DEF Values

\* The front ends stay the same, and so does what is on its way.
LEMMA StillValues ==
  ASSUME Values, Links', Kept(process, process'), \A f : Same(process, process', f),
         UNCHANGED <<news, announced>>
  PROVE  Values'
<1>1. /\ Created(process)' = Created(process) /\ (Here' <=> Here) /\ (Withdrawal => Withdrawal')
      /\ SameService(process, process')
      /\ process'.replica = process.replica /\ process'.exported = process.exported
  BY DEF Created, Here, Withdrawal, Kept, SameService
<1>2. ASSUME NEW f \in Created(process)
      PROVE  Valued(f)'
  BY <1>1, <1>2, SameIsValued DEF Values, Links
<1>3. Sent'
  BY <1>1 DEF Values, Sent, SameService
<1>. QED  BY <1>1, <1>2, <1>3 DEF Values

LEMMA CallValues ==
  ASSUME Values,
         HandleCall \/ \E c \in Call : AnswerCall(c) \/ \E f \in FrontEnd : MakeCall(c, f)
  PROVE  Values'
<1>1. Links' /\ Kept(process, process') /\ UNCHANGED <<news, announced>>
      /\ \A f : Same(process, process', f)
  BY CallStepsAre, CallLinked DEF Values, Links
<1>. QED  BY <1>1, StillValues

LEMMA InitValues == Init => Values
<1>. SUFFICES ASSUME Init
              PROVE  Values
  OBVIOUS
<1>1. process.exported = {} /\ process.created = <<>>
  BY DEF Init
<1>2. Created(process) = {} /\ ~Here
  BY <1>1 DEF Created, ToSet, Here
<1>. QED  BY <1>2, InitLinks DEF Values, Sent

LEMMA NextValues ==
  ASSUME Values, [Next]_vars
  PROVE  Values'
<1>1. CASE ServiceStep
  <2>1. ASSUME NEW v \in Value, NEW w \in Value, ChangeValue(v) \/ ChangeValueTwice(v, w)
        PROVE  Values'
    BY <2>1, ChangeValues
  <2>2. ASSUME NEW v \in Value, ChangeElsewhere(v)
        PROVE  Values'
    BY <2>2, ElsewhereChangeValues
  <2>. QED  BY <1>1, <2>1, <2>2, RegisterValues, TakenBackValues, ElsewhereValues,
               Zenon DEF ServiceStep
<1>2. CASE HandleAnnouncement
  BY <1>2, AnnouncementValues
<1>3. CASE RequestStep
  BY <1>3, RequestValues DEF RequestStep
<1>4. CASE NewsStep
  BY <1>4, EntryValues, SnapshotValues, UpdateValues DEF NewsStep
<1>5. CASE TimerStep
  BY <1>5, ReadValues, CallValues DEF TimerStep
<1>6. CASE ClientStep
  BY <1>6, CompleteValues, CallValues DEF ClientStep
<1>7. CASE AnswerStep
  BY <1>7, CallValues DEF AnswerStep
<1>8. CASE UNCHANGED vars
  <2>1. Links'
    BY NextLinks DEF Values
  <2>2. UNCHANGED <<process, news, announced>>
    BY <1>8 DEF vars
  <2>3. Kept(process, process') /\ \A f : Same(process, process', f)
    BY <2>2, SameIsReflexive DEF Kept
  <2>. QED  BY <2>1, <2>2, <2>3, StillValues
<1>. QED  BY <1>1, <1>2, <1>3, <1>4, <1>5, <1>6, <1>7, <1>8 DEF Next

\* Every proxy has the service's value, or what is on its way to it ends with
\* that value (LocalIPCServiceAdapterBase::sendSignal, DBusIPCProxyBinder);
\* excepted are the front ends whose signals came without their values, or
\* that read a value ahead of an older update.
THEOREM EveryValueOnItsWay == Spec => []Values
BY InitValues, NextValues, PTL DEF Spec

LEMMA ValuesAreThere ==
  ASSUME Values, Settled, process.exported # {}, NEW f \in Created(process)
  PROVE  \/ Offered(process, f, process.fronts[f].wrapped).value = process.value
         \/ Here /\ (process.dropped \/ f \in process.starved)
         \/ f \in process.overtaken
<1>. DEFINE x == process.fronts[f]
<1>1. /\ Links /\ Inv /\ Right(process) /\ Linked(f) /\ Told(f) /\ Carried(f)
      /\ HasAdapter(process, f) /\ f \in FrontEnd
  BY CreatedFronts DEF Values, Valued, Links, Inv, Right
<1>2. /\ process.exported \in {{"here"}, {"elsewhere"}}
      /\ process.manager <=> "here" \in process.exported
      /\ process.localEntry = process.manager /\ process.manager \in BOOLEAN
  BY <1>1, ProcessFields DEF Right, Complete, Base
<1>3. /\ process.replica = Present /\ ~Withdrawal /\ ~Pending(process, f)
      /\ ~Asks(process, f, "elsewhere") /\ news = <<>>
  <2>1. "elsewhere" \in Server
    BY DEF Server
  <2>. QED  BY <1>1, <2>1, SettledIs DEF Settled
<1>4. x.wrapped = BestProvider(f)
  BY <1>1, LinkedIsBest
<1>5. CASE process.exported = {"here"}
  <2>1. Here /\ x.wrapped = IF f \in Asynchronous THEN "local" ELSE "service"
    BY <1>4, <1>5 DEF BestProvider, Here
  <2>2. CASE f \in Asynchronous
    <3>1. Receives(process, f)
      BY <1>1, <1>2, <1>5, <2>2 DEF HasAdapter
    <3>2. f \in process.starved \/ process.dropped \/ x.local.value = process.value
      BY <1>1, <1>3, <2>1, <2>2, <3>1 DEF Told
    <3>. QED  BY <2>1, <2>2, <3>2 DEF Offered
  <2>3. CASE f \notin Asynchronous
    BY <2>1, <2>3 DEF Offered
  <2>. QED  BY <2>2, <2>3
<1>6. CASE process.exported = {"elsewhere"}
  <2>1. x.wrapped = "dbus" /\ process.replica = "elsewhere"
    BY <1>3, <1>4, <1>6 DEF BestProvider, Here, Present
  <2>2. x.enabled
    BY <1>1, <1>6, NoObject
  <2>3. Served(f)
    BY <1>1, <1>3, <1>6, <2>1, <2>2 DEF Linked, Served, NoServer
  <2>4. f \in process.overtaken \/ x.dbus.value = process.value
    BY <1>1, <1>3, <2>3, EndsOfNothing DEF Carried
  <2>. QED  BY <2>1, <2>4 DEF Offered
<1>. QED  BY <1>2, <1>5, <1>6

\* Whoever uses the service sees its present value once everything is
\* delivered, through the object itself, Local IPC or D-Bus, but for the
\* exceptions that ValuesArrive names.
THEOREM ValuesReachFrontEnds == Spec => []ValuesArrive
<1>1. Values => ValuesArrive
  BY ValuesAreThere DEF ValuesArrive
<1>. QED  BY <1>1, EveryValueOnItsWay, PTL
=============================================================================
