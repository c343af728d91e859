---------------------------- MODULE PropertySync ----------------------------
(***************************************************************************)
(* One service object and its D-Bus proxies: how the values of properties  *)
(* and the readiness of the service reach the proxies.                     *)
(*                                                                         *)
(* A proxy that finds the object's path in the object registry subscribes  *)
(* to the service adapter's messages and asks for a snapshot of all        *)
(* values, asynchronously or with a blocking call.  From the first         *)
(* snapshot on, the adapter sends one message per change signal, with the  *)
(* values that differ from those it sent last (m_previous...).  Withdrawing *)
(* a service destroys its adapter; exporting it again creates another one. *)
(*                                                                         *)
(* The object registry is the one of module ObjectRegistry, seen from one  *)
(* path: its entry follows the service's calls, in order, and its signals  *)
(* share the proxy's FIFO with everything the bus carried before them.     *)
(***************************************************************************)
EXTENDS Integers, SequencesExt

CONSTANTS
  Client,     \* processes with one proxy of the object each
  Async,      \* the clients whose proxy is asynchronous
  Plain,      \* properties whose last sent value connectSignals() initialises
  Lazy,       \* those it does not: readiness and interface properties
  Writable,   \* properties that have a setter
  Value,
  Default,    \* the value a C++ member starts with
  MaxInbox,   \* bound: messages waiting in all clients when the service changes
  MaxCalls,   \* bound: calls a client waits for when another one is caused
  MaxEvents   \* bound: calls to the registry it has not handled

ASSUME ConstantsAssumption ==
  /\ Async \subseteq Client
  /\ Plain \intersect Lazy = {}
  /\ Writable \subseteq Plain
  /\ Default \in Value
  /\ MaxInbox \in Nat /\ MaxCalls \in Nat /\ MaxEvents \in Nat

VARIABLES
  service,           \* the values of the service object
  registered,        \* an adapter exports it
  signalsConnected,  \* m_signalsConnected of that adapter
  previous,          \* its m_previous... members
  announcements,     \* the adapters' calls to the registry, FIFO
  calls,             \* calls of a client's proxy to the adapter, FIFO
  inbox,             \* what a client's event loop has yet to deliver, FIFO
  syncReply,         \* the answer a blocking call waits for
  blocked,           \* the client is inside a blocking call
  created,           \* its proxy exists and is enabled
  known,             \* its registry replica has an entry for the path
  bound,             \* m_serviceName is set: subscribed to the adapter
  available,         \* m_serviceAvailable
  values,            \* the proxy's copies of the values
  notified,          \* what a listener read when the proxy last signalled a change
                     \* of a plain property
  overtaken          \* history: the clients whose blocking snapshot overtook
                     \* updates that waited since before they last disconnected

serviceVars == <<service, registered, signalsConnected, previous>>
proxyVars == <<created, known, bound, available, values, notified, overtaken>>
busVars == <<announcements, calls, inbox, syncReply>>
vars == <<serviceVars, busVars, blocked, proxyVars>>

-----------------------------------------------------------------------------
Item == Plain \union Lazy
Values == [Item -> Value]
Defaults == [i \in Item |-> Default]

Call == [member : {"getProperties"}] \union [member : {"set"}, item : Writable, value : Value]

\* "at", the values when the signal was sent, is not in the message: the
\* properties use it.
Message ==
  [kind : {"added", "removed"}]
    \union [kind : {"signal"}, changes : UNION {[d -> Value] : d \in SUBSET Item},
            member : Item, at : Values]
    \union [kind : {"reply"}, values : Values]

SyncReply == [kind : {"done"}] \union [kind : {"reply"}, values : Values]

TypeOK ==
  /\ service \in Values
  /\ registered \in BOOLEAN
  /\ signalsConnected \in BOOLEAN
  /\ previous \in Values
  /\ announcements \in Seq({"added", "removed"})
  /\ calls \in [Client -> Seq(Call)]
  /\ inbox \in [Client -> Seq(Message)]
  /\ syncReply \in [Client -> Seq(SyncReply)]
  /\ blocked \in [Client -> BOOLEAN]
  /\ created \in [Client -> BOOLEAN]
  /\ known \in [Client -> BOOLEAN]
  /\ bound \in [Client -> BOOLEAN]
  /\ available \in [Client -> BOOLEAN]
  /\ values \in [Client -> Values]
  /\ notified \in [Client -> [Plain -> Value]]
  /\ overtaken \subseteq Client \ Async

Init ==
  /\ service = Defaults
  /\ registered = FALSE
  /\ signalsConnected = FALSE
  /\ previous = Defaults
  /\ announcements = <<>>
  /\ calls = [c \in Client |-> <<>>]
  /\ inbox = [c \in Client |-> <<>>]
  /\ syncReply = [c \in Client |-> <<>>]
  /\ blocked = [c \in Client |-> FALSE]
  /\ created = [c \in Client |-> FALSE]
  /\ known = [c \in Client |-> FALSE]
  /\ bound = [c \in Client |-> FALSE]
  /\ available = [c \in Client |-> FALSE]
  /\ values = [c \in Client |-> Defaults]
  /\ notified = [c \in Client |-> [i \in Plain |-> Default]]
  /\ overtaken = {}

Waiting == FoldFunction(+, 0, [c \in Client |-> Len(inbox[c])])
Room == Waiting < MaxInbox
\* An adapter comes or goes when there is room for one message more.
RoomForMore == Waiting + 1 < MaxInbox
CallsHandled == \A c \in Client : Len(calls[c]) < MaxCalls
\* Calls made to a withdrawn adapter may reach the next one.
CallsBounded == \A c \in Client : Len(calls[c]) <= MaxCalls

-----------------------------------------------------------------------------
(***************************************************************************)
(* The service and its adapter.                                            *)
(***************************************************************************)
Signal(state, changed, member) ==
  [kind |-> "signal", changes |-> [i \in changed |-> state[i]],
   member |-> member, at |-> state]

\* The updates follow the signals instead of preceding them.
MutantSignalsLate(state, members) ==
  LET differing == {i \in Item : state[i] # previous[i]}
  IN  [k \in 1 .. Len(members) |->
         Signal(state, IF k = Len(members) THEN differing ELSE {}, members[k])]

\* One message per change signal.  The first one brings the proxies up to
\* date with everything that differs from what was sent last.
Signals(state, members) ==
  LET differing == {i \in Item : state[i] # previous[i]}
  IN  [k \in 1 .. Len(members) |->
         Signal(state, IF k = 1 THEN differing ELSE {}, members[k])]

\* What setting item i to v can do: nothing when it has the value already;
\* otherwise a slot of the service, connected before the adapter's, may
\* change a second item, whose signal is then sent first.
Effects(i, v) ==
  IF service[i] = v
  THEN {[state |-> service, members |-> <<>>]}
  ELSE {[state |-> [service EXCEPT ![i] = v], members |-> <<i>>]}
         \union UNION {{[state |-> [service EXCEPT ![i] = v, ![j] = w], members |-> <<j, i>>] :
                         w \in Value \ {service[j]}} : j \in Item \ {i}}

Change(effect) ==
  /\ service' = effect.state
  /\ IF signalsConnected /\ effect.members # <<>>
     THEN /\ previous' = effect.state
          /\ inbox' = [c \in Client |->
                         IF bound[c]
                         THEN inbox[c] \o Signals(effect.state, effect.members)
                         ELSE inbox[c]]
     ELSE UNCHANGED <<previous, inbox>>
  /\ UNCHANGED <<registered, signalsConnected>>

ChangeValue(i, v) ==
  /\ Room
  /\ v # service[i]
  /\ \E effect \in Effects(i, v) : Change(effect)
  /\ UNCHANGED <<announcements, calls, syncReply, blocked, proxyVars>>

RegisterService ==
  /\ ~registered
  /\ RoomForMore /\ CallsBounded
  /\ Len(announcements) < MaxEvents
  /\ registered' = TRUE
  /\ previous' = Defaults
  /\ announcements' = Append(announcements, "added")
  /\ UNCHANGED <<service, signalsConnected, calls, inbox, syncReply, blocked, proxyVars>>

UnregisterService ==
  /\ registered
  /\ RoomForMore
  /\ Len(announcements) < MaxEvents
  /\ registered' = FALSE
  /\ signalsConnected' = FALSE
  /\ announcements' = Append(announcements, "removed")
  /\ UNCHANGED <<service, previous, calls, inbox, syncReply, blocked, proxyVars>>

-----------------------------------------------------------------------------
(***************************************************************************)
(* The adapter handles the call at the head of a client's queue.           *)
(***************************************************************************)
Receives(c, member) ==
  /\ calls[c] # <<>>
  /\ Head(calls[c]).member = member
  /\ calls' = [calls EXCEPT ![c] = Tail(@)]

\* The answer of a blocking call does not pass through the event loop.
Answers(c, answer) ==
  IF c \in Async
  THEN /\ inbox' = [inbox EXCEPT ![c] = Append(@, answer)]
       /\ UNCHANGED syncReply
  ELSE /\ syncReply' = [syncReply EXCEPT ![c] = Append(@, answer)]
       /\ UNCHANGED inbox

\* Errors are not answered.
MutantReturns(c) == UNCHANGED syncReply

\* Nobody waits for the answer to an asynchronous setter or to a call that
\* failed: asyncCall() drops errors.
Returns(c) ==
  IF c \in Async
  THEN UNCHANGED syncReply
  ELSE syncReply' = [syncReply EXCEPT ![c] = Append(@, [kind |-> "done"])]

\* connectSignals() leaves m_previous... as it was.
MutantHandleGetProperties(c) ==
  /\ registered
  /\ Receives(c, "getProperties")
  /\ signalsConnected' = TRUE
  /\ Answers(c, [kind |-> "reply", values |-> service])
  /\ UNCHANGED <<service, registered, previous, announcements, blocked, proxyVars>>

HandleGetProperties(c) ==
  /\ registered
  /\ Receives(c, "getProperties")
  /\ signalsConnected' = TRUE
  /\ previous' = IF signalsConnected THEN previous
                 ELSE [i \in Item |-> IF i \in Plain THEN service[i] ELSE previous[i]]
  /\ Answers(c, [kind |-> "reply", values |-> service])
  /\ UNCHANGED <<service, registered, announcements, blocked, proxyVars>>

HandleSetter(c) ==
  /\ registered
  /\ Receives(c, "set")
  /\ \E effect \in Effects(Head(calls[c]).item, Head(calls[c]).value) : Change(effect)
  /\ Returns(c)
  /\ UNCHANGED <<announcements, blocked, proxyVars>>

\* Nothing is exported at the path: the bus answers with an error.
RefuseCall(c) ==
  /\ ~registered
  /\ \E member \in {"getProperties", "set"} : Receives(c, member)
  /\ Returns(c)
  /\ UNCHANGED <<serviceVars, announcements, inbox, blocked, proxyVars>>

\* The registry handles a call of the adapter and signals the change.
PublishEntry ==
  /\ announcements # <<>>
  /\ announcements' = Tail(announcements)
  /\ inbox' = [c \in Client |-> Append(inbox[c], [kind |-> Head(announcements)])]
  /\ UNCHANGED <<serviceVars, calls, syncReply, blocked, proxyVars>>

-----------------------------------------------------------------------------
(***************************************************************************)
(* The proxy.                                                              *)
(***************************************************************************)
Send(c, call) ==
  /\ calls' = [calls EXCEPT ![c] = Append(@, call)]
  /\ blocked' = [blocked EXCEPT ![c] = c \notin Async]

\* Signals were sent to the proxy while it was bound, so those that wait when
\* it connects are older than its last disconnection.
Overtakes(c) ==
  c \notin Async /\ \E k \in 1 .. Len(inbox[c]) : inbox[c][k].kind = "signal"

\* onServiceNameKnown(): subscribe, then requestPropertyValues().
Connect(c) ==
  /\ bound' = [bound EXCEPT ![c] = TRUE]
  /\ Send(c, [member |-> "getProperties"])
  /\ overtaken' = IF Overtakes(c) THEN overtaken \union {c} ELSE overtaken \ {c}
  /\ UNCHANGED available

\* m_serviceName is not cleared.
MutantDisconnect(c) ==
  /\ available' = [available EXCEPT ![c] = FALSE]
  /\ UNCHANGED <<calls, blocked, bound, overtaken>>

Disconnect(c) ==
  /\ bound' = [bound EXCEPT ![c] = FALSE]
  /\ available' = [available EXCEPT ![c] = FALSE]
  /\ overtaken' = overtaken \ {c}
  /\ UNCHANGED <<calls, blocked>>

\* isReady: the proxy is complete and enabled; isKnown: the replica has an
\* entry for the path.
CheckRegistry(c, isReady, isKnown) ==
  CASE isReady /\ isKnown /\ ~bound[c] -> Connect(c)
    [] isReady /\ ~isKnown /\ bound[c] -> Disconnect(c)
    [] OTHER -> UNCHANGED <<calls, blocked, bound, available, overtaken>>

\* Only registry signals make the proxy look at the registry.
MutantConnectToServer(c) ==
  /\ ~created[c]
  /\ created' = [created EXCEPT ![c] = TRUE]
  /\ UNCHANGED <<serviceVars, busVars, blocked, known, bound, available, values,
                 notified, overtaken>>

ConnectToServer(c) ==
  /\ ~created[c]
  /\ created' = [created EXCEPT ![c] = TRUE]
  /\ CheckRegistry(c, TRUE, known[c])
  /\ UNCHANGED <<serviceVars, announcements, inbox, syncReply, known, values,
                 notified>>

\* Setter calls of a proxy without a service go nowhere and change nothing.
SendSetterCall(c, i, v) ==
  /\ bound[c]
  /\ ~blocked[c]
  /\ Room /\ CallsHandled
  /\ Send(c, [member |-> "set", item |-> i, value |-> v])
  /\ UNCHANGED <<serviceVars, announcements, inbox, syncReply, proxyVars>>

\* A snapshot triggers readyChanged only.
MutantApplySnapshot(c, snapshot) ==
  /\ values' = [values EXCEPT ![c] = snapshot]
  /\ available' = [available EXCEPT ![c] = TRUE]
  /\ UNCHANGED notified

\* deserializePropertyValues(.., true), setServiceRegistered(true).
ApplySnapshot(c, snapshot) ==
  /\ values' = [values EXCEPT ![c] = snapshot]
  /\ notified' = [notified EXCEPT ![c] =
       [i \in Plain |-> IF snapshot[i] # values[c][i] THEN snapshot[i] ELSE notified[c][i]]]
  /\ available' = [available EXCEPT ![c] = TRUE]

CallReturns(c) ==
  /\ blocked[c]
  /\ syncReply[c] # <<>>
  /\ syncReply' = [syncReply EXCEPT ![c] = Tail(@)]
  /\ blocked' = [blocked EXCEPT ![c] = FALSE]
  /\ IF Head(syncReply[c]).kind = "reply"
     THEN ApplySnapshot(c, Head(syncReply[c]).values)
     ELSE UNCHANGED <<values, notified, available>>
  /\ UNCHANGED <<serviceVars, announcements, calls, inbox, created, known, bound,
                 overtaken>>

Delivers(c, kind) ==
  /\ ~blocked[c]
  /\ inbox[c] # <<>>
  /\ Head(inbox[c]).kind = kind
  /\ inbox' = [inbox EXCEPT ![c] = Tail(@)]

OnReply(c) ==
  /\ Delivers(c, "reply")
  /\ ApplySnapshot(c, Head(inbox[c]).values)
  /\ UNCHANGED <<serviceVars, announcements, calls, syncReply, blocked, created, known,
                 bound, overtaken>>

\* Values that did not change are read from the message all the same.
MutantUpdated(old, changes) == changes

Updated(old, changes) == [i \in Item |-> IF i \in DOMAIN changes THEN changes[i] ELSE old[i]]

\* A message already queued is delivered even if the proxy has disconnected.
OnSignalTriggered(c) ==
  /\ Delivers(c, "signal")
  /\ LET message == Head(inbox[c])
         new == Updated(values[c], message.changes)
     IN  /\ values' = [values EXCEPT ![c] = new]
         /\ notified' = [notified EXCEPT ![c] =
              [i \in Plain |-> IF i = message.member THEN new[i] ELSE notified[c][i]]]
  /\ UNCHANGED <<serviceVars, announcements, calls, syncReply, blocked, created, known,
                 bound, available, overtaken>>

OnRegistryChanged(c, kind) ==
  /\ Delivers(c, kind)
  /\ known' = [known EXCEPT ![c] = (kind = "added")]
  /\ CheckRegistry(c, created[c], kind = "added")
  /\ UNCHANGED <<serviceVars, announcements, syncReply, created, values, notified>>

-----------------------------------------------------------------------------
HandleStep(c) == HandleGetProperties(c) \/ HandleSetter(c) \/ RefuseCall(c)

DeliverStep(c) ==
  \/ CallReturns(c) \/ OnReply(c) \/ OnSignalTriggered(c)
  \/ OnRegistryChanged(c, "added") \/ OnRegistryChanged(c, "removed")

ProxyStep(c) ==
  ConnectToServer(c) \/ \E i \in Writable, v \in Value : SendSetterCall(c, i, v)

ServiceStep ==
  \/ \E i \in Item, v \in Value : ChangeValue(i, v)
  \/ RegisterService \/ UnregisterService

Next ==
  \/ ServiceStep
  \/ PublishEntry
  \/ \E c \in Client : ProxyStep(c) \/ HandleStep(c) \/ DeliverStep(c)

Spec == Init /\ [][Next]_vars

\* The event loops and the bus run.  Nothing obliges the service to change
\* or the application to create a proxy or to call a setter.
Fairness ==
  /\ WF_vars(PublishEntry)
  /\ \A c \in Client : WF_vars(HandleStep(c)) /\ WF_vars(DeliverStep(c))

FairSpec == Spec /\ Fairness

-----------------------------------------------------------------------------
(***************************************************************************)
(* Correctness.                                                            *)
(***************************************************************************)

\* Nothing the service did is still on its way to the proxy.
Settled(c) ==
  /\ announcements = <<>>
  /\ calls[c] = <<>> /\ ~blocked[c] /\ inbox[c] = <<>>

Current(c) == Settled(c) /\ available[c]

\* A blocking call overtakes the messages that wait in the proxy's process.
\* Those sent since the proxy connected do no harm, those of before the
\* disconnection that came first may: others that followed them went
\* unheard.  The exception ends with that connection.
InOrder(c) == c \notin overtaken

\* A proxy is available exactly when its service is exported, once the
\* dust has settled: no late snapshot revives a withdrawn service, and a
\* service exported again is found again.
AvailabilityFollows ==
  \A c \in Client : Settled(c) => (available[c] <=> created[c] /\ registered)

\* Whatever was overtaken, sent before the snapshot or sent by an earlier
\* adapter, an available proxy that has handled every message has the
\* service's property values.  For readiness and interface properties only
\* this much holds: a ready service is seen ready and a set path is seen.
ValuesAgree ==
  \A c \in Client : InOrder(c) /\ Current(c) =>
    /\ \A i \in Plain : values[c][i] = service[i]
    /\ \A i \in Lazy : service[i] # Default => values[c][i] = service[i]

\* Applications that only listen to the change signals of a proxy hold its
\* present property values.
ListenersUpToDate ==
  \A c \in Client, i \in Plain : Settled(c) => notified[c][i] = values[c][i]

\* c has a snapshot of the adapter whose messages it gets: nothing that was
\* withdrawn or asked for is under way.
Following(c) ==
  /\ available[c]
  /\ ~Contains(announcements, "removed")
  /\ \A k \in 1 .. Len(calls[c]) : calls[c][k].member # "getProperties"
  /\ \A k \in 1 .. Len(inbox[c]) : inbox[c][k].kind = "signal"

\* "Send property value updates before the signal itself so that they are
\* set before the signal is triggered on the client side"
\* (initOutgoingSignalMessage): when an asynchronous proxy triggers a signal,
\* all its property values are those the service had when it sent the signal.
SignalsFollowValues ==
  \A c \in Async :
    Following(c) /\ inbox[c] # <<>> =>
      LET message == Head(inbox[c])
      IN  \A i \in Plain : Updated(values[c], message.changes)[i] = message.at[i]

\* An exported service is found by every proxy that was created.
ProxiesBecomeAvailable ==
  \A c \in Client : created[c] /\ registered ~> available[c] \/ ~registered

\* A blocking call of a proxy returns.
BlockingCallsReturn == \A c \in Client : blocked[c] ~> ~blocked[c]
=============================================================================
