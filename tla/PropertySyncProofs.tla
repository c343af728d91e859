-------------------------- MODULE PropertySyncProofs --------------------------
(***************************************************************************)
(* What module PropertySync promises, for every set of clients, every set  *)
(* of properties and values, and whatever its bounds are.                  *)
(*                                                                         *)
(* The properties speak of a proxy to which nothing is on its way.  The    *)
(* invariants say, while something is, what its arrival will have done:    *)
(* each looks at a client's queue as a whole, at the last message in it    *)
(* that matters.  The queues are known here by what extending one, or      *)
(* taking its head, does to each of these statements.                      *)
(***************************************************************************)
EXTENDS PropertySync, SequenceTheorems, TLAPS

-----------------------------------------------------------------------------
(***************************************************************************)
(* Messages, and the effects of a change.                                  *)
(***************************************************************************)
LEMMA MessageParts ==
  ASSUME NEW m \in Message
  PROVE  /\ m.kind \in {"added", "removed", "signal", "reply"}
         /\ m.kind = "reply" => m.values \in Values
         /\ m.kind = "signal" =>
              /\ m.changes \in UNION {[d -> Value] : d \in SUBSET Item}
              /\ m.member \in Item
              /\ m.at \in Values
BY DEF Message

LEMMA EntryType ==
  ASSUME NEW kind \in {"added", "removed"}
  PROVE  [kind |-> kind] \in Message
BY DEF Message

LEMMA ReplyType ==
  ASSUME NEW v \in Values
  PROVE  [kind |-> "reply", values |-> v] \in Message \intersect SyncReply
BY DEF Message, SyncReply

LEMMA SignalType ==
  ASSUME NEW state \in Values, NEW changed \in SUBSET Item, NEW member \in Item
  PROVE  Signal(state, changed, member) \in Message
BY DEF Signal, Message, Values

\* A change of the service is one of the items whose signals follow it.
LEMMA EffectType ==
  ASSUME NEW i \in Item, NEW v \in Value, service \in Values,
         NEW effect \in Effects(i, v)
  PROVE  /\ effect.state \in Values
         /\ effect.members \in Seq(Item)
         /\ effect.members = <<>> => effect.state = service
         /\ \A j \in Item : effect.state[j] # service[j] =>
              \E k \in 1 .. Len(effect.members) : effect.members[k] = j
<1>1. CASE effect = [state |-> service, members |-> <<>>]
  BY <1>1, EmptySeq
<1>2. CASE effect = [state |-> [service EXCEPT ![i] = v], members |-> <<i>>]
  BY <1>2 DEF Values
<1>3. ASSUME NEW j \in Item \ {i}, NEW w \in Value \ {service[j]},
             effect = [state |-> [service EXCEPT ![i] = v, ![j] = w], members |-> <<j, i>>]
      PROVE  /\ effect.state \in Values
             /\ effect.members \in Seq(Item)
             /\ effect.members # <<>>
             /\ \A h \in Item : effect.state[h] # service[h] =>
                  \E k \in 1 .. Len(effect.members) : effect.members[k] = h
  <2>1. /\ effect.state \in Values
        /\ \A h \in Item : effect.state[h] # service[h] => h = i \/ h = j
    BY <1>3 DEF Values
  <2>2. /\ effect.members \in Seq(Item) /\ effect.members # <<>>
        /\ 1 \in 1 .. Len(effect.members) /\ 2 \in 1 .. Len(effect.members)
        /\ effect.members[1] = j /\ effect.members[2] = i
    BY <1>3
  <2>. QED  BY <2>1, <2>2
<1>. QED  BY <1>1, <1>2, <1>3 DEF Effects

LEMMA SignalsProperties ==
  ASSUME NEW state \in Values, NEW members \in Seq(Item)
  PROVE  /\ Signals(state, members) \in Seq(Message)
         /\ Len(Signals(state, members)) = Len(members)
         /\ \A k \in 1 .. Len(members) :
              /\ Signals(state, members)[k].kind = "signal"
              /\ Signals(state, members)[k].member = members[k]
              /\ Signals(state, members)[k].at = state
              /\ \A i \in Item : i \in DOMAIN Signals(state, members)[k].changes <=>
                          k = 1 /\ state[i] # previous[i]
              /\ \A i \in DOMAIN Signals(state, members)[k].changes :
                   Signals(state, members)[k].changes[i] = state[i]
<1>. DEFINE differing == {i \in Item : state[i] # previous[i]}
            message(k) == Signal(state, IF k = 1 THEN differing ELSE {}, members[k])
<1>1. Len(members) \in Nat /\ \A k \in 1 .. Len(members) : members[k] \in Item
  BY LenProperties, ElementOfSeq
<1>2. \A k \in 1 .. Len(members) : message(k) \in Message
  BY <1>1, SignalType
<1>3. Signals(state, members) = [k \in 1 .. Len(members) |-> message(k)]
  BY DEF Signals
<1>4. \A k \in 1 .. Len(members) :
        /\ message(k).kind = "signal"
        /\ message(k).member = members[k]
        /\ message(k).at = state
        /\ \A i \in Item : i \in DOMAIN message(k).changes <=>
                    k = 1 /\ state[i] # previous[i]
        /\ \A i \in DOMAIN message(k).changes : message(k).changes[i] = state[i]
  BY DEF Signal
<1>. HIDE DEF message
<1>5. [k \in 1 .. Len(members) |-> message(k)] \in Seq(Message)
  BY <1>1, <1>2, IsASeq
<1>6. Len([k \in 1 .. Len(members) |-> message(k)]) = Len(members)
  BY <1>1, <1>5, LenProperties
<1>7. \A k \in 1 .. Len(members) : Signals(state, members)[k] = message(k)
  BY <1>3
<1>. QED  BY <1>3, <1>4, <1>5, <1>6, <1>7

-----------------------------------------------------------------------------
(***************************************************************************)
(* What a change of the service sends.                                     *)
(***************************************************************************)
Extends(queue, longer) ==
  /\ Len(queue) <= Len(longer)
  /\ \A k \in 1 .. Len(queue) : longer[k] = queue[k]

\* c gets no message, as the service has not changed or c does not listen.
HearsNothing(c) ==
  /\ inbox'[c] = inbox[c]
  /\ signalsConnected /\ bound[c] => service' = service /\ previous' = previous

\* The queue grows by messages that say what changed from "old" to "state";
\* the first one brings every value that differs from what was sent last.
Informs(queue, longer, old, sent, state) ==
  /\ Extends(queue, longer)
  /\ Len(queue) < Len(longer)
  /\ \A k \in Len(queue) + 1 .. Len(longer) :
       /\ longer[k].kind = "signal"
       /\ longer[k].at = state
       /\ \A i \in Item : i \in DOMAIN longer[k].changes <=>
                            k = Len(queue) + 1 /\ state[i] # sent[i]
       /\ \A i \in DOMAIN longer[k].changes : longer[k].changes[i] = state[i]
  /\ \A i \in Item : state[i] # old[i] =>
       \E k \in Len(queue) + 1 .. Len(longer) : longer[k].member = i

HearsSignals(c) ==
  /\ signalsConnected /\ bound[c]
  /\ previous' = service'
  /\ Informs(inbox[c], inbox'[c], service, previous, service')

\* "longer" is the queue followed by the messages "sent".
Joined(queue, sent, longer) ==
  /\ longer \in Seq(Message)
  /\ Len(longer) = Len(queue) + Len(sent)
  /\ Len(queue) \in Nat /\ Len(sent) \in Nat
  /\ \A k \in 1 .. Len(queue) : longer[k] = queue[k]
  /\ \A k \in 1 .. Len(sent) : longer[Len(queue) + k] = sent[k]
  /\ \A k \in Len(queue) + 1 .. Len(longer) :
       k - Len(queue) \in 1 .. Len(sent) /\ longer[k] = sent[k - Len(queue)]

LEMMA Concatenation ==
  ASSUME NEW queue \in Seq(Message), NEW sent \in Seq(Message)
  PROVE  Joined(queue, sent, queue \o sent)
<1>1. Len(queue) \in Nat /\ Len(sent) \in Nat
  BY LenProperties
<1>2. /\ queue \o sent \in Seq(Message)
      /\ Len(queue \o sent) = Len(queue) + Len(sent)
      /\ \A i \in 1 .. Len(queue) + Len(sent) :
           (queue \o sent)[i] = IF i <= Len(queue) THEN queue[i] ELSE sent[i - Len(queue)]
  BY ConcatProperties
<1>. QED  BY <1>1, <1>2 DEF Joined

LEMMA SignalsInform ==
  ASSUME NEW queue \in Seq(Message), NEW state \in Values, NEW members \in Seq(Item),
         members # <<>>,
         \A i \in Item : state[i] # service[i] =>
           \E k \in 1 .. Len(members) : members[k] = i,
         NEW longer, longer = queue \o Signals(state, members)
  PROVE  longer \in Seq(Message) /\ Informs(queue, longer, service, previous, state)
<1>. DEFINE sent == Signals(state, members)
<1>1. longer = queue \o sent
  OBVIOUS
<1>2. /\ Len(members) \in Nat /\ Len(members) > 0
      /\ sent \in Seq(Message) /\ Len(sent) = Len(members)
  BY SignalsProperties, LenProperties, EmptySeq
<1>3. \A k \in 1 .. Len(members) :
        /\ sent[k].kind = "signal"
        /\ sent[k].member = members[k]
        /\ sent[k].at = state
        /\ \A i \in Item : i \in DOMAIN sent[k].changes <=> k = 1 /\ state[i] # previous[i]
        /\ \A i \in DOMAIN sent[k].changes : sent[k].changes[i] = state[i]
  BY SignalsProperties
<1>. HIDE DEF sent
<1>4. Joined(queue, sent, longer)
  BY <1>1, <1>2, Concatenation
<1>5. ASSUME NEW k \in Len(queue) + 1 .. Len(longer)
      PROVE  /\ longer[k].kind = "signal"
             /\ longer[k].at = state
             /\ \A i \in Item : i \in DOMAIN longer[k].changes <=>
                                  k = Len(queue) + 1 /\ state[i] # previous[i]
             /\ \A i \in DOMAIN longer[k].changes : longer[k].changes[i] = state[i]
  <2>. DEFINE h == k - Len(queue)
  <2>1. h \in 1 .. Len(members) /\ longer[k] = sent[h] /\ (h = 1 <=> k = Len(queue) + 1)
    BY <1>2, <1>4 DEF Joined
  <2>. HIDE DEF h
  <2>. QED  BY <1>3, <2>1
<1>6. ASSUME NEW i \in Item, state[i] # service[i]
      PROVE  \E k \in Len(queue) + 1 .. Len(longer) : longer[k].member = i
  <2>1. PICK k \in 1 .. Len(members) : members[k] = i
    BY <1>6
  <2>2. longer[Len(queue) + k] = sent[k]
    BY <1>2, <1>4 DEF Joined
  <2>3. Len(queue) + k \in Len(queue) + 1 .. Len(longer)
    BY <1>2, <1>4 DEF Joined
  <2>. QED  BY <1>3, <2>1, <2>2, <2>3
<1>7. Extends(queue, longer) /\ Len(queue) < Len(longer)
  BY <1>2, <1>4 DEF Extends, Joined
<1>8. Informs(queue, longer, service, previous, state)
  BY <1>5, <1>6, <1>7 DEF Informs
<1>. QED  BY <1>4, <1>8 DEF Joined

LEMMA ChangeIsHeard ==
  ASSUME TypeOK, NEW i \in Item, NEW v \in Value, NEW effect \in Effects(i, v), Change(effect)
  PROVE  /\ service' \in Values /\ previous' \in Values
         /\ inbox' \in [Client -> Seq(Message)]
         /\ registered' = registered /\ signalsConnected' = signalsConnected
         /\ previous' = previous \/ (signalsConnected /\ previous' = service')
         /\ service' = service \/ ~signalsConnected \/ previous' = service'
         /\ \A c \in Client : HearsNothing(c) \/ HearsSignals(c)
<1>1. /\ effect.state \in Values /\ effect.members \in Seq(Item)
      /\ effect.members = <<>> => effect.state = service
      /\ \A j \in Item : effect.state[j] # service[j] =>
           \E k \in 1 .. Len(effect.members) : effect.members[k] = j
  BY EffectType DEF TypeOK
<1>2. service' = effect.state /\ registered' = registered /\ signalsConnected' = signalsConnected
  BY DEF Change
<1>3. CASE signalsConnected /\ effect.members # <<>>
  <2>1. /\ previous' = effect.state
        /\ inbox' = [c \in Client |->
                       IF bound[c] THEN inbox[c] \o Signals(effect.state, effect.members)
                       ELSE inbox[c]]
    BY <1>3 DEF Change
  <2>2. ASSUME NEW c \in Client, bound[c]
        PROVE  inbox'[c] \in Seq(Message) /\ HearsSignals(c)
    <3>1. inbox'[c] = inbox[c] \o Signals(effect.state, effect.members)
      BY <2>1, <2>2
    <3>2. inbox[c] \in Seq(Message)
      BY DEF TypeOK
    <3>3. /\ inbox'[c] \in Seq(Message)
          /\ Informs(inbox[c], inbox'[c], service, previous, effect.state)
      BY <1>1, <1>3, <3>1, <3>2, SignalsInform
    <3>. QED  BY <1>2, <1>3, <2>1, <2>2, <3>3 DEF HearsSignals
  <2>3. ASSUME NEW c \in Client, ~bound[c]
        PROVE  inbox'[c] \in Seq(Message) /\ HearsNothing(c)
    BY <2>1, <2>3 DEF TypeOK, HearsNothing
  <2>4. inbox' \in [Client -> Seq(Message)]
    <3>1. inbox' = [c \in Client |-> inbox'[c]]
      BY <2>1
    <3>. QED  BY <2>2, <2>3, <3>1
  <2>. QED  BY <1>1, <1>2, <1>3, <2>1, <2>2, <2>3, <2>4
<1>4. CASE ~(signalsConnected /\ effect.members # <<>>)
  <2>1. previous' = previous /\ inbox' = inbox
    BY <1>4 DEF Change
  <2>2. service' \in Values /\ previous' \in Values /\ inbox' \in [Client -> Seq(Message)]
    BY <1>1, <1>2, <2>1 DEF TypeOK
  <2>3. service' = service \/ ~signalsConnected
    BY <1>1, <1>2, <1>4
  <2>4. \A c \in Client : HearsNothing(c)
    BY <2>1, <2>3 DEF HearsNothing
  <2>. QED  BY <1>2, <2>1, <2>2, <2>3, <2>4
<1>. QED  BY <1>3, <1>4

-----------------------------------------------------------------------------
(***************************************************************************)
(* Types.                                                                  *)
(***************************************************************************)
LEMMA ReceivesType ==
  ASSUME TypeOK, NEW c \in Client, NEW member, Receives(c, member)
  PROVE  /\ calls' \in [Client -> Seq(Call)]
         /\ Head(calls[c]) \in Call
BY HeadTailProperties DEF TypeOK, Receives

LEMMA DeliversType ==
  ASSUME TypeOK, NEW c \in Client, NEW kind, Delivers(c, kind)
  PROVE  /\ inbox' \in [Client -> Seq(Message)]
         /\ Head(inbox[c]) \in Message
BY HeadTailProperties DEF TypeOK, Delivers

LEMMA SendType ==
  ASSUME TypeOK, NEW c \in Client, NEW call \in Call, Send(c, call)
  PROVE  /\ calls' \in [Client -> Seq(Call)]
         /\ blocked' \in [Client -> BOOLEAN]
BY AppendProperties DEF TypeOK, Send

LEMMA ReturnsType ==
  ASSUME TypeOK, NEW c \in Client, Returns(c)
  PROVE  syncReply' \in [Client -> Seq(SyncReply)]
<1>1. [kind |-> "done"] \in SyncReply
  BY DEF SyncReply
<1>2. CASE c \in Async
  BY <1>2 DEF TypeOK, Returns
<1>3. CASE c \notin Async
  <2>1. syncReply' = [syncReply EXCEPT ![c] = Append(@, [kind |-> "done"])]
    BY <1>3 DEF Returns
  <2>2. Append(syncReply[c], [kind |-> "done"]) \in Seq(SyncReply)
    BY <1>1, AppendProperties DEF TypeOK
  <2>. QED  BY <2>1, <2>2 DEF TypeOK
<1>. QED  BY <1>2, <1>3

LEMMA AnswersType ==
  ASSUME TypeOK, NEW c \in Client, NEW answer \in Message \intersect SyncReply,
         Answers(c, answer)
  PROVE  /\ inbox' \in [Client -> Seq(Message)]
         /\ syncReply' \in [Client -> Seq(SyncReply)]
<1>1. CASE c \in Async
  <2>1. Append(inbox[c], answer) \in Seq(Message)
    BY AppendProperties DEF TypeOK
  <2>. QED  BY <1>1, <2>1 DEF TypeOK, Answers
<1>2. CASE c \notin Async
  <2>1. Append(syncReply[c], answer) \in Seq(SyncReply)
    BY AppendProperties DEF TypeOK
  <2>. QED  BY <1>2, <2>1 DEF TypeOK, Answers
<1>. QED  BY <1>1, <1>2

LEMMA SnapshotType ==
  ASSUME TypeOK, NEW c \in Client, NEW snapshot \in Values, ApplySnapshot(c, snapshot)
  PROVE  /\ values' \in [Client -> Values]
         /\ notified' \in [Client -> [Plain -> Value]]
         /\ available' \in [Client -> BOOLEAN]
<1>1. Plain \subseteq Item
  BY DEF Item
<1>2. values' \in [Client -> Values] /\ available' \in [Client -> BOOLEAN]
  BY DEF TypeOK, ApplySnapshot
<1>3. [i \in Plain |-> IF snapshot[i] # values[c][i] THEN snapshot[i] ELSE notified[c][i]]
        \in [Plain -> Value]
  BY <1>1 DEF TypeOK, Values
<1>. QED  BY <1>2, <1>3 DEF TypeOK, ApplySnapshot

LEMMA CheckType ==
  ASSUME TypeOK, NEW c \in Client, NEW isReady, NEW isKnown, CheckRegistry(c, isReady, isKnown)
  PROVE  /\ calls' \in [Client -> Seq(Call)]
         /\ blocked' \in [Client -> BOOLEAN]
         /\ bound' \in [Client -> BOOLEAN]
         /\ available' \in [Client -> BOOLEAN]
         /\ overtaken' \subseteq Client \ Async
<1>1. CASE isReady /\ isKnown /\ ~bound[c]
  <2>1. Connect(c)
    BY <1>1 DEF CheckRegistry
  <2>2. [member |-> "getProperties"] \in Call
    BY DEF Call
  <2>. QED  BY <2>1, <2>2, SendType DEF Connect, Overtakes, TypeOK
<1>2. CASE isReady /\ ~isKnown /\ bound[c]
  BY <1>2 DEF CheckRegistry, Disconnect, TypeOK
<1>3. CASE ~(isReady /\ isKnown /\ ~bound[c]) /\ ~(isReady /\ ~isKnown /\ bound[c])
  BY <1>3 DEF CheckRegistry, TypeOK
<1>. QED  BY <1>1, <1>2, <1>3

LEMMA UpdatedType ==
  ASSUME NEW old \in Values, NEW m \in Message, m.kind = "signal"
  PROVE  Updated(old, m.changes) \in Values
<1>1. m.changes \in UNION {[d -> Value] : d \in SUBSET Item}
  BY MessageParts
<1>. QED  BY <1>1 DEF Updated, Values

LEMMA TypeStep ==
  ASSUME TypeOK, [Next]_vars
  PROVE  TypeOK'
<1>. USE DEF serviceVars, proxyVars, busVars
<1>1. ASSUME NEW i \in Item, NEW v \in Value, ChangeValue(i, v)
      PROVE  TypeOK'
  BY <1>1, ChangeIsHeard DEF ChangeValue, TypeOK
<1>2. CASE RegisterService
  <2>1. announcements' \in Seq({"added", "removed"})
    BY <1>2, AppendProperties DEF RegisterService, TypeOK
  <2>. QED  BY <1>2, <2>1, ConstantsAssumption DEF RegisterService, TypeOK, Values, Defaults
<1>3. CASE UnregisterService
  <2>1. announcements' \in Seq({"added", "removed"})
    BY <1>3, AppendProperties DEF UnregisterService, TypeOK
  <2>. QED  BY <1>3, <2>1 DEF UnregisterService, TypeOK
<1>4. CASE PublishEntry
  <2>1. /\ announcements' \in Seq({"added", "removed"})
        /\ Head(announcements) \in {"added", "removed"}
    BY <1>4, HeadTailProperties DEF PublishEntry, TypeOK
  <2>2. inbox' \in [Client -> Seq(Message)]
    BY <1>4, <2>1, EntryType, AppendProperties DEF PublishEntry, TypeOK
  <2>. QED  BY <1>4, <2>1, <2>2 DEF PublishEntry, TypeOK
<1>5. ASSUME NEW c \in Client, ConnectToServer(c)
      PROVE  TypeOK'
  <2>1. CheckRegistry(c, TRUE, known[c])
    BY <1>5 DEF ConnectToServer
  <2>. QED  BY <1>5, <2>1, CheckType DEF ConnectToServer, TypeOK
<1>6. ASSUME NEW c \in Client, NEW i \in Writable, NEW v \in Value, SendSetterCall(c, i, v)
      PROVE  TypeOK'
  <2>1. [member |-> "set", item |-> i, value |-> v] \in Call
    BY DEF Call
  <2>. QED  BY <1>6, <2>1, SendType DEF SendSetterCall, TypeOK
<1>7. ASSUME NEW c \in Client, HandleGetProperties(c)
      PROVE  TypeOK'
  <2>1. calls' \in [Client -> Seq(Call)]
    BY <1>7, ReceivesType DEF HandleGetProperties
  <2>2. /\ inbox' \in [Client -> Seq(Message)]
        /\ syncReply' \in [Client -> Seq(SyncReply)]
    BY <1>7, ReplyType, AnswersType DEF HandleGetProperties, TypeOK
  <2>3. previous' \in Values
    BY <1>7 DEF HandleGetProperties, TypeOK, Values
  <2>. QED  BY <1>7, <2>1, <2>2, <2>3 DEF HandleGetProperties, TypeOK
<1>8. ASSUME NEW c \in Client, HandleSetter(c)
      PROVE  TypeOK'
  <2>1. calls' \in [Client -> Seq(Call)] /\ Head(calls[c]) \in Call /\ Head(calls[c]).member = "set"
    BY <1>8, ReceivesType DEF HandleSetter, Receives
  <2>2. Head(calls[c]).item \in Item /\ Head(calls[c]).value \in Value
    BY <2>1, ConstantsAssumption DEF Call, Item
  <2>3. PICK effect \in Effects(Head(calls[c]).item, Head(calls[c]).value) : Change(effect)
    BY <1>8 DEF HandleSetter
  <2>4. syncReply' \in [Client -> Seq(SyncReply)]
    BY <1>8, ReturnsType DEF HandleSetter
  <2>. QED  BY <1>8, <2>1, <2>2, <2>3, <2>4, ChangeIsHeard DEF HandleSetter, TypeOK
<1>9. ASSUME NEW c \in Client, RefuseCall(c)
      PROVE  TypeOK'
  <2>1. calls' \in [Client -> Seq(Call)]
    BY <1>9, ReceivesType DEF RefuseCall
  <2>2. syncReply' \in [Client -> Seq(SyncReply)]
    BY <1>9, ReturnsType DEF RefuseCall
  <2>. QED  BY <1>9, <2>1, <2>2 DEF RefuseCall, TypeOK
<1>10. ASSUME NEW c \in Client, CallReturns(c)
       PROVE  TypeOK'
  <2>1. syncReply' \in [Client -> Seq(SyncReply)] /\ Head(syncReply[c]) \in SyncReply
    BY <1>10, HeadTailProperties DEF CallReturns, TypeOK
  <2>2. values' \in [Client -> Values] /\ notified' \in [Client -> [Plain -> Value]]
          /\ available' \in [Client -> BOOLEAN]
    <3>1. CASE Head(syncReply[c]).kind = "reply"
      <4>1. Head(syncReply[c]).values \in Values
        BY <2>1, <3>1 DEF SyncReply
      <4>. QED  BY <1>10, <3>1, <4>1, SnapshotType DEF CallReturns
    <3>2. CASE Head(syncReply[c]).kind # "reply"
      BY <1>10, <3>2 DEF CallReturns, TypeOK
    <3>. QED  BY <3>1, <3>2
  <2>. QED  BY <1>10, <2>1, <2>2 DEF CallReturns, TypeOK
<1>11. ASSUME NEW c \in Client, OnReply(c)
       PROVE  TypeOK'
  <2>1. /\ inbox' \in [Client -> Seq(Message)]
        /\ Head(inbox[c]) \in Message /\ Head(inbox[c]).kind = "reply"
    BY <1>11, DeliversType DEF OnReply, Delivers
  <2>2. Head(inbox[c]).values \in Values
    BY <2>1, MessageParts
  <2>. QED  BY <1>11, <2>1, <2>2, SnapshotType DEF OnReply, TypeOK
<1>12. ASSUME NEW c \in Client, OnSignalTriggered(c)
       PROVE  TypeOK'
  <2>1. /\ inbox' \in [Client -> Seq(Message)]
        /\ Head(inbox[c]) \in Message /\ Head(inbox[c]).kind = "signal"
    BY <1>12, DeliversType DEF OnSignalTriggered, Delivers
  <2>2. Updated(values[c], Head(inbox[c]).changes) \in Values
    BY <2>1, UpdatedType DEF TypeOK
  <2>3. values' \in [Client -> Values] /\ notified' \in [Client -> [Plain -> Value]]
    <3>. DEFINE message == Head(inbox[c])
                new == Updated(values[c], message.changes)
    <3>1. [i \in Plain |-> IF i = message.member THEN new[i] ELSE notified[c][i]]
            \in [Plain -> Value]
      <4>1. Plain \subseteq Item /\ new \in [Item -> Value]
        BY <2>2 DEF Item, Values
      <4>. HIDE DEF new, message
      <4>. QED  BY <4>1 DEF TypeOK
    <3>. QED  BY <1>12, <2>2, <3>1 DEF OnSignalTriggered, TypeOK
  <2>. QED  BY <1>12, <2>1, <2>3 DEF OnSignalTriggered, TypeOK
<1>13. ASSUME NEW c \in Client, NEW kind \in {"added", "removed"}, OnRegistryChanged(c, kind)
       PROVE  TypeOK'
  <2>1. inbox' \in [Client -> Seq(Message)]
    BY <1>13, DeliversType DEF OnRegistryChanged
  <2>2. CheckRegistry(c, created[c], kind = "added")
    BY <1>13 DEF OnRegistryChanged
  <2>. QED  BY <1>13, <2>1, <2>2, CheckType DEF OnRegistryChanged, TypeOK
<1>14. CASE UNCHANGED vars
  BY <1>14 DEF vars, TypeOK
<1>. QED  BY <1>1, <1>2, <1>3, <1>4, <1>5, <1>6, <1>7, <1>8, <1>9, <1>10, <1>11, <1>12, <1>13, <1>14
          DEF Next, ServiceStep, ProxyStep, HandleStep, DeliverStep

LEMMA TypeInit ==
  ASSUME Init
  PROVE  TypeOK
BY EmptySeq, ConstantsAssumption DEF Init, TypeOK, Values, Defaults

\* Every variable keeps its type: the adapter never serves a call it cannot
\* read, and messages carry values of the properties they are about.
THEOREM TypeCorrect == Spec => []TypeOK
BY TypeInit, TypeStep, PTL DEF Spec

-----------------------------------------------------------------------------
(***************************************************************************)
(* Messages on their way to a client.                                      *)
(***************************************************************************)
IsEntry(m) == m.kind = "added" \/ m.kind = "removed"

\* What the replica says after the first k messages of the queue, if it says
\* "from" now.
On(queue, from, k) ==
  \/ \E j \in 1 .. k :
       queue[j].kind = "added" /\ \A l \in j + 1 .. k : ~IsEntry(queue[l])
  \/ from /\ \A l \in 1 .. k : ~IsEntry(queue[l])

Queued(queue, kind) == \E k \in 1 .. Len(queue) : queue[k].kind = kind

Asks(queue) == \E k \in 1 .. Len(queue) : queue[k].member = "getProperties"

Announced(kind) == \E k \in 1 .. Len(announcements) : announcements[k] = kind

\* An entry of this kind is going to reach the client.
Coming(c, kind) == Queued(inbox[c], kind) \/ Announced(kind)

\* The client's proxy waits for a snapshot.
Asking(c) == Asks(calls[c])

Fetched(c) == Queued(syncReply[c], "reply")

\* Every snapshot in the queue finds the replica with an entry, unless one
\* comes later.
RepliesFollowed(queue, from, later) ==
  \A k \in 1 .. Len(queue) :
    queue[k].kind = "reply" =>
      \/ On(queue, from, k)
      \/ \E j \in k + 1 .. Len(queue) : queue[j].kind = "added"
      \/ later

\* Every entry in the queue is withdrawn again.
EntriesWithdrawn(queue, later) ==
  \A k \in 1 .. Len(queue) :
    queue[k].kind = "added" =>
      (\E j \in k + 1 .. Len(queue) : queue[j].kind = "removed") \/ later

-----------------------------------------------------------------------------
(***************************************************************************)
(* Queues that grow and shrink.                                            *)
(***************************************************************************)
\* The queue is "rest" behind its first element.
Behead(queue, rest) ==
  /\ Len(queue) \in Nat /\ Len(rest) \in Nat
  /\ Len(queue) = Len(rest) + 1
  /\ \A k \in 1 .. Len(rest) : rest[k] = queue[k + 1]

Appended(queue, last, longer) ==
  /\ Len(queue) \in Nat /\ Len(longer) \in Nat
  /\ Len(longer) = Len(queue) + 1
  /\ \A k \in 1 .. Len(queue) : longer[k] = queue[k]
  /\ longer[Len(queue) + 1] = last

LEMMA Beheaded ==
  ASSUME NEW S, NEW queue \in Seq(S), queue # <<>>
  PROVE  Behead(queue, Tail(queue)) /\ Head(queue) = queue[1]
BY HeadTailProperties, LenProperties, EmptySeq DEF Behead

LEMMA Appends ==
  ASSUME NEW S, NEW queue \in Seq(S), NEW last \in S
  PROVE  Appended(queue, last, Append(queue, last))
BY AppendProperties, LenProperties DEF Appended

LEMMA BeheadedOne ==
  ASSUME NEW queue, NEW rest, Behead(queue, rest), Len(queue) = 1
  PROVE  Len(rest) = 0
BY DEF Behead

LEMMA AppendedOne ==
  ASSUME NEW queue, NEW last, NEW longer, Appended(queue, last, longer), queue = <<>>
  PROVE  Len(longer) = 1
BY EmptySeq DEF Appended

LEMMA QueuedAppended ==
  ASSUME NEW queue, NEW last, NEW longer, Appended(queue, last, longer), NEW kind
  PROVE  Queued(longer, kind) <=> Queued(queue, kind) \/ last.kind = kind
<1>. USE DEF Appended
<1>1. 1 .. Len(longer) = 1 .. Len(queue) \union {Len(queue) + 1}
  OBVIOUS
<1>. QED  BY <1>1 DEF Queued

LEMMA QueuedBeheaded ==
  ASSUME NEW queue, NEW rest, Behead(queue, rest), NEW kind
  PROVE  Queued(queue, kind) <=> queue[1].kind = kind \/ Queued(rest, kind)
<1>. USE DEF Behead
<1>1. ASSUME NEW k \in 1 .. Len(queue), queue[k].kind = kind, k # 1
      PROVE  Queued(rest, kind)
  <2>1. k - 1 \in 1 .. Len(rest) /\ rest[k - 1] = queue[k]
    BY <1>1
  <2>. QED  BY <1>1, <2>1 DEF Queued
<1>2. ASSUME NEW k \in 1 .. Len(rest), rest[k].kind = kind
      PROVE  Queued(queue, kind)
  <2>1. k + 1 \in 1 .. Len(queue) /\ rest[k] = queue[k + 1]
    OBVIOUS
  <2>. QED  BY <1>2, <2>1 DEF Queued
<1>3. 1 \in 1 .. Len(queue)
  OBVIOUS
<1>. QED  BY <1>1, <1>2, <1>3 DEF Queued

LEMMA AsksAppended ==
  ASSUME NEW queue, NEW last, NEW longer, Appended(queue, last, longer)
  PROVE  Asks(longer) <=> Asks(queue) \/ last.member = "getProperties"
<1>. USE DEF Appended
<1>1. 1 .. Len(longer) = 1 .. Len(queue) \union {Len(queue) + 1}
  OBVIOUS
<1>. QED  BY <1>1 DEF Asks

LEMMA AsksBeheaded ==
  ASSUME NEW queue, NEW rest, Behead(queue, rest)
  PROVE  Asks(queue) <=> queue[1].member = "getProperties" \/ Asks(rest)
<1>. USE DEF Behead
<1>1. ASSUME NEW k \in 1 .. Len(queue), queue[k].member = "getProperties", k # 1
      PROVE  Asks(rest)
  <2>1. k - 1 \in 1 .. Len(rest) /\ rest[k - 1] = queue[k]
    BY <1>1
  <2>. QED  BY <1>1, <2>1 DEF Asks
<1>2. ASSUME NEW k \in 1 .. Len(rest), rest[k].member = "getProperties"
      PROVE  Asks(queue)
  <2>1. k + 1 \in 1 .. Len(queue) /\ rest[k] = queue[k + 1]
    OBVIOUS
  <2>. QED  BY <1>2, <2>1 DEF Asks
<1>3. 1 \in 1 .. Len(queue)
  OBVIOUS
<1>. QED  BY <1>1, <1>2, <1>3 DEF Asks

LEMMA OnExtended ==
  ASSUME NEW queue, NEW longer, Extends(queue, longer), NEW from,
         NEW k \in Nat, Len(queue) \in Nat, k <= Len(queue)
  PROVE  On(longer, from, k) <=> On(queue, from, k)
<1>1. \A j \in 1 .. k : longer[j] = queue[j]
  BY DEF Extends
<1>2. \A j \in 1 .. k : j + 1 .. k \subseteq 1 .. k
  OBVIOUS
<1>. QED  BY <1>1, <1>2 DEF On

\* Messages other than entries change nothing.
LEMMA OnQuiet ==
  ASSUME NEW queue, NEW from, NEW k \in Nat, NEW n \in Nat, n <= k,
         \A l \in n + 1 .. k : ~IsEntry(queue[l])
  PROVE  On(queue, from, k) <=> On(queue, from, n)
<1>1. ASSUME NEW j \in 1 .. k, queue[j].kind = "added"
      PROVE  j \in 1 .. n
  BY <1>1 DEF IsEntry
<1>2. \A j \in 1 .. n : j \in 1 .. k
  OBVIOUS
<1>3. \A j \in 0 .. n : (\A l \in j + 1 .. k : ~IsEntry(queue[l])) <=>
                        (\A l \in j + 1 .. n : ~IsEntry(queue[l]))
  OBVIOUS
<1>4. (\A l \in 1 .. k : ~IsEntry(queue[l])) <=> (\A l \in 1 .. n : ~IsEntry(queue[l]))
  OBVIOUS
<1>. QED  BY <1>1, <1>2, <1>3, <1>4 DEF On

LEMMA OnEntry ==
  ASSUME NEW queue, NEW from, NEW k \in Nat \ {0}, IsEntry(queue[k])
  PROVE  On(queue, from, k) <=> queue[k].kind = "added"
<1>1. k \in 1 .. k /\ \A l \in k + 1 .. k : ~IsEntry(queue[l])
  OBVIOUS
<1>2. \A j \in 1 .. k : j # k => k \in j + 1 .. k
  OBVIOUS
<1>. QED  BY <1>1, <1>2 DEF On

\* What the head of the queue makes of "from".
After(m, from) == IF IsEntry(m) THEN m.kind = "added" ELSE from

LEMMA OnBeheaded ==
  ASSUME NEW queue, NEW rest, Behead(queue, rest), NEW from \in BOOLEAN,
         NEW k \in 0 .. Len(rest)
  PROVE  On(rest, After(queue[1], from), k) <=> On(queue, from, k + 1)
<1>. USE DEF Behead
<1>1. \A j \in 1 .. k : rest[j] = queue[j + 1] /\ j + 1 \in 1 .. k + 1
  OBVIOUS
<1>2. \A j \in 1 .. k + 1 : j # 1 => j - 1 \in 1 .. k /\ rest[j - 1] = queue[j]
  OBVIOUS
<1>3. ASSUME NEW j \in 0 .. k
      PROVE  (\A l \in j + 1 .. k : ~IsEntry(rest[l])) <=>
             (\A l \in j + 2 .. k + 1 : ~IsEntry(queue[l]))
  <2>1. ASSUME \A l \in j + 1 .. k : ~IsEntry(rest[l]), NEW l \in j + 2 .. k + 1
        PROVE  ~IsEntry(queue[l])
    <3>1. l - 1 \in j + 1 .. k /\ rest[l - 1] = queue[l]
      OBVIOUS
    <3>. QED  BY <2>1, <3>1
  <2>2. ASSUME \A l \in j + 2 .. k + 1 : ~IsEntry(queue[l]), NEW l \in j + 1 .. k
        PROVE  ~IsEntry(rest[l])
    <3>1. l + 1 \in j + 2 .. k + 1 /\ rest[l] = queue[l + 1]
      OBVIOUS
    <3>. QED  BY <2>2, <3>1
  <2>. QED  BY <2>1, <2>2
<1>4. ASSUME On(queue, from, k + 1)
      PROVE  On(rest, After(queue[1], from), k)
  <2>1. CASE \E j \in 1 .. k + 1 :
               queue[j].kind = "added" /\ \A l \in j + 1 .. k + 1 : ~IsEntry(queue[l])
    <3>1. PICK j \in 1 .. k + 1 :
                 queue[j].kind = "added" /\ \A l \in j + 1 .. k + 1 : ~IsEntry(queue[l])
      BY <2>1
    <3>2. CASE j = 1
      <4>1. \A l \in 1 .. k : ~IsEntry(rest[l])
        <5>1. 0 \in 0 .. k /\ \A l \in 0 + 2 .. k + 1 : ~IsEntry(queue[l])
          BY <3>1, <3>2
        <5>2. \A l \in 0 + 1 .. k : ~IsEntry(rest[l])
          BY <5>1, <1>3
        <5>. QED  BY <5>2
      <4>2. After(queue[1], from)
        BY <3>1, <3>2 DEF After, IsEntry
      <4>. QED  BY <4>1, <4>2 DEF On
    <3>3. CASE j # 1
      <4>1. j - 1 \in 1 .. k /\ rest[j - 1] = queue[j]
        BY <1>2, <3>3
      <4>2. \A l \in (j - 1) + 1 .. k : ~IsEntry(rest[l])
        <5>1. j - 1 \in 0 .. k /\ \A l \in (j - 1) + 2 .. k + 1 : ~IsEntry(queue[l])
          BY <3>1, <4>1
        <5>. QED  BY <5>1, <1>3
      <4>. QED  BY <3>1, <4>1, <4>2 DEF On
    <3>. QED  BY <3>2, <3>3
  <2>2. CASE from /\ \A l \in 1 .. k + 1 : ~IsEntry(queue[l])
    BY <2>2, <1>1 DEF On, After
  <2>. QED  BY <1>4, <2>1, <2>2 DEF On
<1>5. ASSUME On(rest, After(queue[1], from), k)
      PROVE  On(queue, from, k + 1)
  <2>1. CASE \E j \in 1 .. k :
               rest[j].kind = "added" /\ \A l \in j + 1 .. k : ~IsEntry(rest[l])
    <3>1. PICK j \in 1 .. k :
                 rest[j].kind = "added" /\ \A l \in j + 1 .. k : ~IsEntry(rest[l])
      BY <2>1
    <3>2. /\ j + 1 \in 1 .. k + 1 /\ queue[j + 1].kind = "added"
          /\ \A l \in (j + 1) + 1 .. k + 1 : ~IsEntry(queue[l])
      <4>1. j + 1 \in 1 .. k + 1 /\ queue[j + 1].kind = "added"
        BY <1>1, <3>1
      <4>2. \A l \in j + 2 .. k + 1 : ~IsEntry(queue[l])
        <5>1. j \in 0 .. k
          BY <3>1
        <5>. QED  BY <5>1, <1>3, <3>1
      <4>. QED  BY <4>1, <4>2
    <3>. QED  BY <3>2 DEF On
  <2>2. CASE After(queue[1], from) /\ \A l \in 1 .. k : ~IsEntry(rest[l])
    <3>1. \A l \in 2 .. k + 1 : ~IsEntry(queue[l])
      <4>1. 0 \in 0 .. k /\ \A l \in 0 + 1 .. k : ~IsEntry(rest[l])
        BY <2>2
      <4>2. \A l \in 0 + 2 .. k + 1 : ~IsEntry(queue[l])
        BY <4>1, <1>3
      <4>. QED  BY <4>2
    <3>2. CASE IsEntry(queue[1])
      <4>1. 1 \in 1 .. k + 1 /\ queue[1].kind = "added"
        BY <2>2, <3>2 DEF After
      <4>2. \A l \in 1 + 1 .. k + 1 : ~IsEntry(queue[l])
        BY <3>1
      <4>. QED  BY <4>1, <4>2 DEF On
    <3>3. CASE ~IsEntry(queue[1])
      <4>1. from /\ \A l \in 1 .. k + 1 : ~IsEntry(queue[l])
        BY <2>2, <3>1, <3>3 DEF After
      <4>. QED  BY <4>1 DEF On
    <3>. QED  BY <3>2, <3>3
  <2>. QED  BY <1>5, <2>1, <2>2 DEF On
<1>. QED  BY <1>4, <1>5

LEMMA RepliesExtended ==
  ASSUME NEW queue, NEW longer, Len(queue) \in Nat, Len(longer) \in Nat,
         Extends(queue, longer), NEW from,
         NEW later \in BOOLEAN, NEW soon \in BOOLEAN,
         RepliesFollowed(queue, from, later),
         \A k \in Len(queue) + 1 .. Len(longer) :
           longer[k].kind = "reply" => On(longer, from, k) \/ soon,
         later => soon \/ \E k \in Len(queue) + 1 .. Len(longer) : longer[k].kind = "added"
  PROVE  RepliesFollowed(longer, from, soon)
<1>. SUFFICES ASSUME NEW k \in 1 .. Len(longer), longer[k].kind = "reply", ~soon, k <= Len(queue)
              PROVE  \/ On(longer, from, k)
                     \/ \E j \in k + 1 .. Len(longer) : longer[j].kind = "added"
  BY DEF RepliesFollowed
<1>1. k \in 1 .. Len(queue) /\ longer[k] = queue[k] /\ Len(queue) <= Len(longer)
  BY DEF Extends
<1>2. CASE On(queue, from, k)
  BY <1>1, <1>2, OnExtended
<1>3. ASSUME NEW j \in k + 1 .. Len(queue), queue[j].kind = "added"
      PROVE  \E h \in k + 1 .. Len(longer) : longer[h].kind = "added"
  <2>1. j \in k + 1 .. Len(longer) /\ longer[j] = queue[j]
    BY <1>1 DEF Extends
  <2>. QED  BY <1>3, <2>1
<1>4. ASSUME later
      PROVE  \E h \in k + 1 .. Len(longer) : longer[h].kind = "added"
  <2>1. PICK h \in Len(queue) + 1 .. Len(longer) : longer[h].kind = "added"
    BY <1>4
  <2>2. h \in k + 1 .. Len(longer)
    BY <1>1
  <2>. QED  BY <2>1, <2>2
<1>. QED  BY <1>1, <1>2, <1>3, <1>4 DEF RepliesFollowed

LEMMA RepliesBeheaded ==
  ASSUME NEW queue, NEW rest, Behead(queue, rest), NEW from \in BOOLEAN, NEW later \in BOOLEAN,
         RepliesFollowed(queue, from, later)
  PROVE  RepliesFollowed(rest, After(queue[1], from), later)
<1>. USE DEF Behead
<1>. SUFFICES ASSUME NEW k \in 1 .. Len(rest), rest[k].kind = "reply", ~later
              PROVE  \/ On(rest, After(queue[1], from), k)
                     \/ \E j \in k + 1 .. Len(rest) : rest[j].kind = "added"
  BY DEF RepliesFollowed
<1>1. k + 1 \in 1 .. Len(queue) /\ queue[k + 1] = rest[k] /\ k \in 0 .. Len(rest)
  OBVIOUS
<1>2. CASE On(queue, from, k + 1)
  BY <1>1, <1>2, OnBeheaded
<1>3. ASSUME NEW j \in (k + 1) + 1 .. Len(queue), queue[j].kind = "added"
      PROVE  \E h \in k + 1 .. Len(rest) : rest[h].kind = "added"
  <2>1. j - 1 \in k + 1 .. Len(rest) /\ rest[j - 1] = queue[j]
    OBVIOUS
  <2>. QED  BY <1>3, <2>1
<1>. QED  BY <1>1, <1>2, <1>3 DEF RepliesFollowed

LEMMA WithdrawnExtended ==
  ASSUME NEW queue, NEW longer, Len(queue) \in Nat, Len(longer) \in Nat,
         Extends(queue, longer), NEW later \in BOOLEAN, NEW soon \in BOOLEAN,
         EntriesWithdrawn(queue, later),
         \A k \in Len(queue) + 1 .. Len(longer) : longer[k].kind = "added" => soon,
         later => soon \/ \E k \in Len(queue) + 1 .. Len(longer) : longer[k].kind = "removed"
  PROVE  EntriesWithdrawn(longer, soon)
<1>. SUFFICES ASSUME NEW k \in 1 .. Len(longer), longer[k].kind = "added", ~soon, k <= Len(queue)
              PROVE  \E j \in k + 1 .. Len(longer) : longer[j].kind = "removed"
  BY DEF EntriesWithdrawn
<1>1. k \in 1 .. Len(queue) /\ longer[k] = queue[k] /\ Len(queue) <= Len(longer)
  BY DEF Extends
<1>2. ASSUME NEW j \in k + 1 .. Len(queue), queue[j].kind = "removed"
      PROVE  \E h \in k + 1 .. Len(longer) : longer[h].kind = "removed"
  <2>1. j \in k + 1 .. Len(longer) /\ longer[j] = queue[j]
    BY <1>1 DEF Extends
  <2>. QED  BY <1>2, <2>1
<1>3. ASSUME later
      PROVE  \E h \in k + 1 .. Len(longer) : longer[h].kind = "removed"
  <2>1. PICK h \in Len(queue) + 1 .. Len(longer) : longer[h].kind = "removed"
    BY <1>3
  <2>2. h \in k + 1 .. Len(longer)
    BY <1>1
  <2>. QED  BY <2>1, <2>2
<1>. QED  BY <1>1, <1>2, <1>3 DEF EntriesWithdrawn

LEMMA WithdrawnBeheaded ==
  ASSUME NEW queue, NEW rest, Behead(queue, rest), NEW later \in BOOLEAN,
         EntriesWithdrawn(queue, later)
  PROVE  EntriesWithdrawn(rest, later)
<1>. USE DEF Behead
<1>. SUFFICES ASSUME NEW k \in 1 .. Len(rest), rest[k].kind = "added", ~later
              PROVE  \E j \in k + 1 .. Len(rest) : rest[j].kind = "removed"
  BY DEF EntriesWithdrawn
<1>1. k + 1 \in 1 .. Len(queue) /\ queue[k + 1] = rest[k]
  OBVIOUS
<1>2. PICK j \in (k + 1) + 1 .. Len(queue) : queue[j].kind = "removed"
  BY <1>1 DEF EntriesWithdrawn
<1>3. j - 1 \in k + 1 .. Len(rest) /\ rest[j - 1] = queue[j]
  OBVIOUS
<1>. QED  BY <1>2, <1>3

-----------------------------------------------------------------------------
(***************************************************************************)
(* The invariant behind AvailabilityFollows.                               *)
(***************************************************************************)
\* Only an exported adapter sends signals, and it has sent the properties.
AdapterOK ==
  /\ signalsConnected =>
       /\ registered
       /\ \A i \in Plain : previous[i] = service[i]
       /\ \A i \in Lazy : previous[i] \in {service[i], Default}
  /\ registered /\ ~signalsConnected => previous = Defaults

\* The registry's last news is the truth.
EntriesEnd ==
  announcements # <<>> =>
    (registered <=> announcements[Len(announcements)] = "added")

\* So is what a replica says when all news has reached it.
EntryKnown(c) ==
  announcements = <<>> => (registered <=> On(inbox[c], known[c], Len(inbox[c])))

Withdrawn(c) ==
  ~registered =>
    /\ known[c] => Coming(c, "removed")
    /\ EntriesWithdrawn(inbox[c], Announced("removed"))

BoundOK(c) == bound[c] <=> created[c] /\ known[c]

\* A blocking call is the only one, and snapshots answer it.
CallsOK(c) ==
  IF c \in Async
  THEN ~blocked[c] /\ syncReply[c] = <<>>
  ELSE /\ ~Queued(inbox[c], "reply")
       /\ blocked[c] =>
            /\ bound[c]
            /\ \/ Len(calls[c]) = 1 /\ syncReply[c] = <<>>
               \/ calls[c] = <<>> /\ Len(syncReply[c]) = 1
       /\ ~blocked[c] => calls[c] = <<>> /\ syncReply[c] = <<>>

CreatedOK(c) ==
  ~created[c] => calls[c] = <<>> /\ ~available[c] /\ ~Queued(inbox[c], "reply")

RepliesOK(c) == RepliesFollowed(inbox[c], known[c], Announced("added"))

\* A proxy is available too early or too late only until news arrives.
AvailableOK(c) == available[c] => bound[c] \/ Coming(c, "added")

AwaitedOK(c) ==
  bound[c] /\ ~available[c] =>
    Asking(c) \/ Queued(inbox[c], "reply") \/ Fetched(c) \/ Coming(c, "removed")

ClientInv(c) ==
  /\ EntryKnown(c) /\ Withdrawn(c) /\ BoundOK(c) /\ CallsOK(c) /\ CreatedOK(c)
  /\ RepliesOK(c) /\ AvailableOK(c) /\ AwaitedOK(c)

AvailabilityInv == TypeOK /\ AdapterOK /\ EntriesEnd /\ \A c \in Client : ClientInv(c)

-----------------------------------------------------------------------------
(***************************************************************************)
(* The invariant holds in the initial states and implies the property.     *)
(***************************************************************************)
LEMMA AvailabilityInit ==
  ASSUME Init
  PROVE  AvailabilityInv
<1>1. TypeOK /\ AdapterOK /\ EntriesEnd
  BY TypeInit DEF Init, AdapterOK, EntriesEnd
<1>2. ASSUME NEW c \in Client
      PROVE  ClientInv(c)
  <2>1. /\ announcements = <<>> /\ calls[c] = <<>> /\ inbox[c] = <<>> /\ syncReply[c] = <<>>
        /\ ~registered /\ ~blocked[c] /\ ~created[c] /\ ~known[c] /\ ~bound[c] /\ ~available[c]
    BY DEF Init
  <2>2. Len(inbox[c]) = 0
    BY <2>1, EmptySeq
  <2>. QED  BY <2>1, <2>2
            DEF ClientInv, EntryKnown, Withdrawn, BoundOK, CallsOK, CreatedOK, RepliesOK,
                AvailableOK, AwaitedOK, On, EntriesWithdrawn, RepliesFollowed, Queued
<1>. QED  BY <1>1, <1>2 DEF AvailabilityInv

LEMMA AvailabilityEnough ==
  ASSUME AvailabilityInv
  PROVE  AvailabilityFollows
<1>. SUFFICES ASSUME NEW c \in Client, Settled(c)
              PROVE  available[c] <=> created[c] /\ registered
  BY DEF AvailabilityFollows
<1>1. /\ announcements = <<>> /\ calls[c] = <<>> /\ ~blocked[c] /\ inbox[c] = <<>>
      /\ Len(announcements) = 0 /\ Len(calls[c]) = 0 /\ Len(inbox[c]) = 0
      /\ available[c] \in BOOLEAN /\ created[c] \in BOOLEAN /\ known[c] \in BOOLEAN
  BY EmptySeq DEF Settled, AvailabilityInv, TypeOK
<1>2. ClientInv(c)
  BY DEF AvailabilityInv
<1>3. registered <=> known[c]
  BY <1>1, <1>2 DEF ClientInv, EntryKnown, On
<1>4. /\ ~Coming(c, "added") /\ ~Coming(c, "removed")
      /\ ~Asking(c) /\ ~Queued(inbox[c], "reply")
  BY <1>1 DEF Coming, Queued, Announced, Asking, Asks
<1>5. syncReply[c] = <<>> /\ Len(syncReply[c]) = 0
  BY <1>1, <1>2, EmptySeq DEF ClientInv, CallsOK
<1>6. ~Fetched(c)
  BY <1>5 DEF Fetched, Queued
<1>. QED  BY <1>2, <1>3, <1>4, <1>6 DEF ClientInv, BoundOK, AvailableOK, AwaitedOK, CreatedOK

-----------------------------------------------------------------------------
(***************************************************************************)
(* What a step leaves of a client's part.                                  *)
(***************************************************************************)
\* The step does not concern c.
LEMMA ClientSame ==
  ASSUME NEW c \in Client, ClientInv(c),
         announcements' = announcements, registered' = registered,
         calls'[c] = calls[c], inbox'[c] = inbox[c], syncReply'[c] = syncReply[c],
         blocked'[c] = blocked[c], created'[c] = created[c], known'[c] = known[c],
         bound'[c] = bound[c], available'[c] = available[c]
  PROVE  ClientInv(c)'
BY DEF ClientInv, EntryKnown, Withdrawn, BoundOK, CallsOK, CreatedOK, RepliesOK,
       AvailableOK, AwaitedOK, Coming, Announced, Asking, Fetched

\* Signals of the service leave the entries and snapshots in the queue alone.
LEMMA QueueHears ==
  ASSUME TypeOK, TypeOK', NEW c \in Client, HearsNothing(c) \/ HearsSignals(c),
         NEW from, NEW later \in BOOLEAN
  PROVE  /\ \A kind \in {"added", "removed", "reply"} :
              Queued(inbox'[c], kind) <=> Queued(inbox[c], kind)
         /\ On(inbox'[c], from, Len(inbox'[c])) <=> On(inbox[c], from, Len(inbox[c]))
         /\ RepliesFollowed(inbox[c], from, later) => RepliesFollowed(inbox'[c], from, later)
         /\ EntriesWithdrawn(inbox[c], later) => EntriesWithdrawn(inbox'[c], later)
<1>1. CASE inbox'[c] = inbox[c]
  BY <1>1
<1>2. CASE HearsSignals(c)
  <2>. DEFINE queue == inbox[c]
              longer == inbox'[c]
  <2>1. /\ Len(queue) \in Nat /\ Len(longer) \in Nat
    BY LenProperties DEF TypeOK
  <2>2. /\ Extends(queue, longer)
        /\ \A k \in Len(queue) + 1 .. Len(longer) : longer[k].kind = "signal"
    BY <1>2 DEF HearsSignals, Informs
  <2>. HIDE DEF queue, longer
  <2>3. ASSUME NEW kind \in {"added", "removed", "reply"}
        PROVE  Queued(longer, kind) <=> Queued(queue, kind)
    BY <2>1, <2>2 DEF Queued, Extends
  <2>4. On(longer, from, Len(longer)) <=> On(longer, from, Len(queue))
    <3>1. Len(queue) <= Len(longer)
      BY <2>2 DEF Extends
    <3>2. \A l \in Len(queue) + 1 .. Len(longer) : ~IsEntry(longer[l])
      BY <2>2 DEF IsEntry
    <3>. QED  BY <2>1, <3>1, <3>2, OnQuiet
  <2>5. On(longer, from, Len(queue)) <=> On(queue, from, Len(queue))
    BY <2>1, <2>2, OnExtended
  <2>6. RepliesFollowed(queue, from, later) => RepliesFollowed(longer, from, later)
    BY <2>1, <2>2, RepliesExtended
  <2>7. EntriesWithdrawn(queue, later) => EntriesWithdrawn(longer, later)
    BY <2>1, <2>2, WithdrawnExtended
  <2>. QED  BY <2>3, <2>4, <2>5, <2>6, <2>7 DEF queue, longer
<1>. QED  BY <1>1, <1>2 DEF HearsNothing

LEMMA ClientHears ==
  ASSUME TypeOK, TypeOK', NEW c \in Client, ClientInv(c), HearsNothing(c) \/ HearsSignals(c),
         announcements' = announcements, registered' = registered,
         calls'[c] = calls[c], syncReply'[c] = syncReply[c],
         blocked'[c] = blocked[c], created'[c] = created[c], known'[c] = known[c],
         bound'[c] = bound[c], available'[c] = available[c]
  PROVE  ClientInv(c)'
<1>1. \A kind \in {"added", "removed", "reply"} :
        Queued(inbox'[c], kind) <=> Queued(inbox[c], kind)
  BY QueueHears
<1>2. EntryKnown(c)'
  BY QueueHears DEF ClientInv, EntryKnown
<1>3. Withdrawn(c)' /\ RepliesOK(c)'
  BY <1>1, QueueHears DEF ClientInv, Withdrawn, RepliesOK, Coming, Announced
<1>4. BoundOK(c)' /\ CallsOK(c)' /\ CreatedOK(c)' /\ AvailableOK(c)' /\ AwaitedOK(c)'
  BY <1>1 DEF ClientInv, BoundOK, CallsOK, CreatedOK, AvailableOK, AwaitedOK,
              Coming, Announced, Asking, Fetched
<1>. QED  BY <1>2, <1>3, <1>4 DEF ClientInv

-----------------------------------------------------------------------------
(***************************************************************************)
(* The news that has not been published.                                   *)
(***************************************************************************)
LEMMA AnnouncedAppended ==
  ASSUME TypeOK, NEW kind \in {"added", "removed"},
         announcements' = Append(announcements, kind), NEW other
  PROVE  Announced(other)' <=> Announced(other) \/ other = kind
<1>1. Appended(announcements, kind, announcements')
  BY Appends DEF TypeOK
<1>2. 1 .. Len(announcements') = 1 .. Len(announcements) \union {Len(announcements) + 1}
  BY <1>1 DEF Appended
<1>. QED  BY <1>1, <1>2 DEF Appended, Announced

LEMMA AnnouncedBeheaded ==
  ASSUME TypeOK, PublishEntry, NEW kind
  PROVE  Announced(kind) <=> Head(announcements) = kind \/ Announced(kind)'
<1>1. Behead(announcements, announcements') /\ announcements[1] = Head(announcements)
  BY Beheaded DEF PublishEntry, TypeOK
<1>2. ASSUME NEW k \in 1 .. Len(announcements), announcements[k] = kind, k # 1
      PROVE  Announced(kind)'
  <2>1. k - 1 \in 1 .. Len(announcements') /\ announcements'[k - 1] = announcements[k]
    BY <1>1, <1>2 DEF Behead
  <2>. QED  BY <1>2, <2>1 DEF Announced
<1>3. ASSUME NEW k \in 1 .. Len(announcements'), announcements'[k] = kind
      PROVE  Announced(kind)
  <2>1. k + 1 \in 1 .. Len(announcements) /\ announcements'[k] = announcements[k + 1]
    BY <1>1 DEF Behead
  <2>. QED  BY <1>3, <2>1 DEF Announced
<1>4. 1 \in 1 .. Len(announcements)
  BY <1>1 DEF Behead
<1>. QED  BY <1>1, <1>2, <1>3, <1>4 DEF Announced

-----------------------------------------------------------------------------
(***************************************************************************)
(* The steps of the service, its adapter and the registry.                 *)
(***************************************************************************)
LEMMA AdapterChange ==
  ASSUME TypeOK, AdapterOK,
         service' \in Values, registered' = registered, signalsConnected' = signalsConnected,
         previous' = previous \/ (signalsConnected /\ previous' = service'),
         service' = service \/ ~signalsConnected \/ previous' = service'
  PROVE  AdapterOK'
BY DEF AdapterOK

LEMMA ChangeValueAvailability ==
  ASSUME AvailabilityInv, TypeOK', NEW i \in Item, NEW v \in Value, ChangeValue(i, v)
  PROVE  AvailabilityInv'
<1>. USE DEF AvailabilityInv
<1>1. PICK effect \in Effects(i, v) : Change(effect)
  BY DEF ChangeValue
<1>2. AdapterOK'
  BY <1>1, ChangeIsHeard, AdapterChange
<1>3. EntriesEnd'
  BY <1>1, ChangeIsHeard DEF ChangeValue, EntriesEnd
<1>4. ASSUME NEW c \in Client
      PROVE  ClientInv(c)'
  <2>1. HearsNothing(c) \/ HearsSignals(c)
    BY <1>1, ChangeIsHeard
  <2>. QED  BY <1>1, <2>1, ChangeIsHeard, ClientHears DEF ChangeValue, proxyVars
<1>. QED  BY <1>2, <1>3, <1>4

\* The other clients' part of a step of c.
LEMMA OtherClients ==
  ASSUME AvailabilityInv, NEW c \in Client,
         announcements' = announcements, registered' = registered,
         \A d \in Client \ {c} :
           /\ calls'[d] = calls[d] /\ inbox'[d] = inbox[d] /\ syncReply'[d] = syncReply[d]
           /\ blocked'[d] = blocked[d] /\ created'[d] = created[d] /\ known'[d] = known[d]
           /\ bound'[d] = bound[d] /\ available'[d] = available[d],
         ClientInv(c)'
  PROVE  EntriesEnd' /\ \A d \in Client : ClientInv(d)'
<1>1. EntriesEnd'
  BY DEF AvailabilityInv, EntriesEnd
<1>2. ASSUME NEW d \in Client \ {c}
      PROVE  ClientInv(d)'
  BY ClientSame DEF AvailabilityInv
<1>. QED  BY <1>1, <1>2

\* News that has not reached anybody.
LEMMA AnnounceAvailability ==
  ASSUME AvailabilityInv, TypeOK', NEW kind \in {"added", "removed"},
         announcements' = Append(announcements, kind), registered' = (kind = "added"),
         registered # registered',
         UNCHANGED <<calls, inbox, syncReply, blocked, proxyVars>>
  PROVE  EntriesEnd' /\ \A c \in Client : ClientInv(c)'
<1>1. /\ announcements' # <<>>
      /\ announcements'[Len(announcements')] = kind
  <2>1. announcements \in Seq({"added", "removed"})
    BY DEF AvailabilityInv, TypeOK
  <2>2. announcements' # <<>>
    BY <2>1, AppendProperties
  <2>3. Appended(announcements, kind, announcements')
    BY <2>1, Appends
  <2>. QED  BY <2>2, <2>3 DEF Appended
<1>2. EntriesEnd'
  BY <1>1 DEF EntriesEnd
<1>3. \A other \in {"added", "removed"} :
        Announced(other)' <=> Announced(other) \/ other = kind
  BY AnnouncedAppended DEF AvailabilityInv
<1>4. ASSUME NEW c \in Client
      PROVE  ClientInv(c)'
  <2>1. ClientInv(c)
    BY DEF AvailabilityInv
  <2>2. \A other \in {"added", "removed"} : Coming(c, other) => Coming(c, other)'
    BY <1>3 DEF Coming
  <2>3. EntryKnown(c)'
    BY <1>1 DEF EntryKnown
  <2>4. Withdrawn(c)'
    BY <1>3 DEF Withdrawn, Coming, EntriesWithdrawn
  <2>5. RepliesOK(c)'
    BY <1>3, <2>1 DEF proxyVars, ClientInv, RepliesOK, RepliesFollowed
  <2>6. BoundOK(c)' /\ CallsOK(c)' /\ CreatedOK(c)'
    BY <2>1 DEF proxyVars, ClientInv, BoundOK, CallsOK, CreatedOK
  <2>7. AvailableOK(c)' /\ AwaitedOK(c)'
    BY <2>1, <2>2 DEF proxyVars, ClientInv, AvailableOK, AwaitedOK, Asking, Fetched
  <2>. QED  BY <2>3, <2>4, <2>5, <2>6, <2>7 DEF ClientInv
<1>. QED  BY <1>2, <1>4

LEMMA RegisterAvailability ==
  ASSUME AvailabilityInv, TypeOK', RegisterService
  PROVE  AvailabilityInv'
<1>1. AdapterOK'
  BY DEF RegisterService, AvailabilityInv, AdapterOK
<1>2. EntriesEnd' /\ \A c \in Client : ClientInv(c)'
  BY AnnounceAvailability DEF RegisterService
<1>. QED  BY <1>1, <1>2 DEF AvailabilityInv

LEMMA UnregisterAvailability ==
  ASSUME AvailabilityInv, TypeOK', UnregisterService
  PROVE  AvailabilityInv'
<1>1. AdapterOK'
  BY DEF UnregisterService, AdapterOK
<1>2. EntriesEnd' /\ \A c \in Client : ClientInv(c)'
  BY AnnounceAvailability DEF UnregisterService
<1>. QED  BY <1>1, <1>2 DEF AvailabilityInv

LEMMA PublishAvailability ==
  ASSUME AvailabilityInv, TypeOK', PublishEntry
  PROVE  AvailabilityInv'
<1>. DEFINE entry == Head(announcements)
<1>1. /\ Behead(announcements, announcements')
      /\ entry = announcements[1] /\ entry \in {"added", "removed"}
      /\ announcements \in Seq({"added", "removed"})
      /\ announcements' \in Seq({"added", "removed"})
  BY Beheaded, HeadTailProperties DEF PublishEntry, AvailabilityInv, TypeOK
<1>2. announcements' = <<>> => Len(announcements') = 0
  BY EmptySeq
<1>3. announcements' # <<>> =>
        /\ announcements # <<>> /\ Len(announcements') > 0
        /\ announcements'[Len(announcements')] = announcements[Len(announcements)]
  BY <1>1, EmptySeq DEF Behead, PublishEntry
<1>4. AdapterOK' /\ EntriesEnd'
  BY <1>3 DEF PublishEntry, serviceVars, AvailabilityInv, AdapterOK, EntriesEnd
<1>5. \A kind \in {"added", "removed"} :
        Announced(kind) <=> entry = kind \/ Announced(kind)'
  BY AnnouncedBeheaded DEF AvailabilityInv
<1>6. announcements' = <<>> => (registered <=> entry = "added")
  BY <1>1, <1>2 DEF Behead, PublishEntry, AvailabilityInv, EntriesEnd
<1>7. ~registered /\ entry = "added" => Announced("removed")'
  <2>1. SUFFICES ASSUME ~registered, entry = "added"
                 PROVE  Announced("removed")'
    OBVIOUS
  <2>2. announcements' # <<>>
    BY <1>6, <2>1
  <2>3. announcements'[Len(announcements')] # "added" /\ Len(announcements') > 0
    BY <1>3, <2>1, <2>2 DEF AvailabilityInv, EntriesEnd
  <2>4. Len(announcements') \in 1 .. Len(announcements')
    BY <1>1, <2>3 DEF Behead
  <2>5. announcements'[Len(announcements')] = "removed"
    BY <1>1, <2>3, <2>4, ElementOfSeq
  <2>. QED  BY <2>4, <2>5 DEF Announced
<1>. HIDE DEF entry
<1>8. ASSUME NEW c \in Client
      PROVE  ClientInv(c)'
  <2>. DEFINE queue == inbox[c]
              longer == inbox'[c]
              last == [kind |-> entry]
  <2>1. /\ ClientInv(c)
        /\ queue \in Seq(Message) /\ known[c] \in BOOLEAN
    BY DEF AvailabilityInv, TypeOK
  <2>2. longer = Append(queue, last)
    BY DEF PublishEntry, entry
  <2>3. last.kind = entry /\ last \in Message
    BY <1>1, EntryType
  <2>. HIDE DEF queue, longer, last
  <2>4. Appended(queue, last, longer)
    BY <2>1, <2>2, <2>3, Appends
  <2>5. /\ Len(longer) = Len(queue) + 1 /\ Len(queue) \in Nat
        /\ longer[Len(queue) + 1] = last
        /\ Extends(queue, longer)
        /\ \A k \in Len(queue) + 1 .. Len(longer) : longer[k] = last
    BY <2>4 DEF Appended, Extends
  <2>6. \A kind : Queued(longer, kind) <=> Queued(queue, kind) \/ entry = kind
    BY <2>3, <2>4, QueuedAppended
  <2>7. /\ registered' = registered
        /\ calls'[c] = calls[c] /\ syncReply'[c] = syncReply[c] /\ blocked'[c] = blocked[c]
        /\ created'[c] = created[c] /\ known'[c] = known[c] /\ bound'[c] = bound[c]
        /\ available'[c] = available[c]
    BY DEF PublishEntry, serviceVars, proxyVars
  <2>8. EntryKnown(c)'
    <3>1. IsEntry(longer[Len(longer)]) /\ longer[Len(longer)].kind = entry
      BY <1>1, <2>3, <2>5 DEF IsEntry
    <3>2. On(longer, known[c], Len(longer)) <=> entry = "added"
      BY <2>5, <3>1, OnEntry
    <3>. QED  BY <1>6, <2>7, <3>2 DEF EntryKnown, longer
  <2>9. \A kind \in {"added", "removed"} : Coming(c, kind) => Coming(c, kind)'
    BY <1>5, <2>6 DEF Coming, queue, longer
  <2>10. Withdrawn(c)'
    <3>1. SUFFICES ASSUME ~registered
                   PROVE  /\ known[c] => Coming(c, "removed")'
                          /\ EntriesWithdrawn(longer, Announced("removed")')
      BY <2>7 DEF Withdrawn, longer
    <3>2. EntriesWithdrawn(queue, Announced("removed")) /\ (known[c] => Coming(c, "removed"))
      BY <2>1, <3>1 DEF ClientInv, Withdrawn, queue
    <3>3. \A k \in Len(queue) + 1 .. Len(longer) : longer[k].kind = "added" => Announced("removed")'
      BY <1>7, <2>3, <2>5, <3>1
    <3>4. Announced("removed") =>
            \/ Announced("removed")'
            \/ \E k \in Len(queue) + 1 .. Len(longer) : longer[k].kind = "removed"
      BY <1>5, <2>3, <2>5
    <3>5. Announced("removed") \in BOOLEAN /\ Announced("removed")' \in BOOLEAN
      BY DEF Announced
    <3>. QED  BY <2>5, <2>9, <3>2, <3>3, <3>4, <3>5, WithdrawnExtended
  <2>11. RepliesOK(c)'
    <3>1. RepliesFollowed(queue, known[c], Announced("added"))
      BY <2>1 DEF ClientInv, RepliesOK, queue
    <3>2. \A k \in Len(queue) + 1 .. Len(longer) : longer[k].kind # "reply"
      BY <1>1, <2>3, <2>5
    <3>3. Announced("added") =>
            \/ Announced("added")'
            \/ \E k \in Len(queue) + 1 .. Len(longer) : longer[k].kind = "added"
      BY <1>5, <2>3, <2>5
    <3>4. Announced("added") \in BOOLEAN /\ Announced("added")' \in BOOLEAN
      BY DEF Announced
    <3>5. RepliesFollowed(longer, known[c], Announced("added")')
      BY <2>5, <3>1, <3>2, <3>3, <3>4, RepliesExtended
    <3>. QED  BY <2>7, <3>5 DEF RepliesOK, longer
  <2>12. Queued(longer, "reply") <=> Queued(queue, "reply")
    BY <1>1, <2>6
  <2>13. BoundOK(c)' /\ CallsOK(c)' /\ CreatedOK(c)'
    BY <2>1, <2>7, <2>12 DEF ClientInv, BoundOK, CallsOK, CreatedOK, queue, longer
  <2>14. AvailableOK(c)' /\ AwaitedOK(c)'
    BY <2>1, <2>7, <2>9, <2>12 DEF ClientInv, AvailableOK, AwaitedOK, Asking, Fetched, queue, longer
  <2>. QED  BY <2>8, <2>10, <2>11, <2>13, <2>14 DEF ClientInv
<1>. QED  BY <1>4, <1>8 DEF AvailabilityInv

-----------------------------------------------------------------------------
(***************************************************************************)
(* The adapter handles a call.                                             *)
(***************************************************************************)
LEMMA ReceivesCall ==
  ASSUME TypeOK, NEW c \in Client, NEW member, Receives(c, member)
  PROVE  /\ Behead(calls[c], calls'[c])
         /\ calls[c] # <<>>
         /\ Len(calls[c]) = 1 => calls'[c] = <<>>
         /\ Asking(c) <=> member = "getProperties" \/ Asking(c)'
         /\ \A d \in Client \ {c} : calls'[d] = calls[d]
<1>1. calls[c] \in Seq(Call) /\ calls[c] # <<>> /\ calls'[c] = Tail(calls[c])
        /\ Head(calls[c]).member = member
  BY DEF TypeOK, Receives
<1>2. Behead(calls[c], calls'[c]) /\ calls[c][1].member = member
  BY <1>1, Beheaded
<1>3. Asking(c) <=> member = "getProperties" \/ Asking(c)'
  BY <1>2, AsksBeheaded DEF Asking
<1>4. Len(calls[c]) = 1 => calls'[c] = <<>>
  <2>1. calls'[c] \in Seq(Call)
    BY <1>1, HeadTailProperties
  <2>. QED  BY <1>2, <2>1, BeheadedOne, EmptySeq
<1>. QED  BY <1>1, <1>2, <1>3, <1>4 DEF TypeOK, Receives

LEMMA ReturnedCall ==
  ASSUME TypeOK, NEW c \in Client, Returns(c)
  PROVE  /\ \A d \in Client \ {c} : syncReply'[d] = syncReply[d]
         /\ c \in Async => syncReply'[c] = syncReply[c]
         /\ c \notin Async =>
              /\ syncReply[c] = <<>> => Len(syncReply'[c]) = 1
              /\ Fetched(c) <=> Fetched(c)'
<1>1. CASE c \in Async
  BY <1>1 DEF Returns
<1>2. CASE c \notin Async
  <2>. DEFINE done == [kind |-> "done"]
  <2>1. /\ syncReply'[c] = Append(syncReply[c], done)
        /\ \A d \in Client \ {c} : syncReply'[d] = syncReply[d]
    BY <1>2 DEF Returns, TypeOK
  <2>2. done \in SyncReply /\ done.kind = "done" /\ syncReply[c] \in Seq(SyncReply)
    BY DEF TypeOK, SyncReply
  <2>. HIDE DEF done
  <2>3. Appended(syncReply[c], done, syncReply'[c])
    BY <2>1, <2>2, Appends
  <2>4. Fetched(c) <=> Fetched(c)'
    BY <2>2, <2>3, QueuedAppended DEF Fetched
  <2>5. syncReply[c] = <<>> => Len(syncReply'[c]) = 1
    BY <2>3, AppendedOne
  <2>. QED  BY <1>2, <2>1, <2>4, <2>5
<1>. QED  BY <1>1, <1>2

\* A call that is not answered with a snapshot has been handled.
LEMMA HandledClient ==
  ASSUME AvailabilityInv, TypeOK', NEW c \in Client, NEW member,
         HearsNothing(c) \/ HearsSignals(c), Receives(c, member), Returns(c),
         announcements' = announcements, registered' = registered,
         UNCHANGED <<blocked, proxyVars>>,
         member = "getProperties" /\ bound[c] /\ ~available[c] => Coming(c, "removed")
  PROVE  ClientInv(c)'
<1>. USE DEF AvailabilityInv
<1>1. ClientInv(c)
  OBVIOUS
<1>2. /\ blocked'[c] = blocked[c] /\ created'[c] = created[c] /\ known'[c] = known[c]
      /\ bound'[c] = bound[c] /\ available'[c] = available[c]
  BY DEF proxyVars
<1>3. \A kind \in {"added", "removed", "reply"} :
        Queued(inbox'[c], kind) <=> Queued(inbox[c], kind)
  BY QueueHears
<1>4. EntryKnown(c)'
  BY <1>1, <1>2, QueueHears DEF ClientInv, EntryKnown
<1>5. Withdrawn(c)' /\ RepliesOK(c)'
  BY <1>1, <1>2, <1>3, QueueHears DEF ClientInv, Withdrawn, RepliesOK, Coming, Announced
<1>6. BoundOK(c)' /\ AvailableOK(c)'
  BY <1>1, <1>2, <1>3 DEF ClientInv, BoundOK, AvailableOK, Coming, Announced
<1>7. created[c]
  BY <1>1, ReceivesCall DEF ClientInv, CreatedOK
<1>8. CreatedOK(c)'
  BY <1>2, <1>7 DEF CreatedOK
<1>9. CallsOK(c)'
  <2>1. CASE c \in Async
    BY <1>1, <1>2, <2>1, ReturnedCall DEF ClientInv, CallsOK
  <2>2. CASE c \notin Async
    <3>1. blocked[c]
      BY <1>1, <2>2, ReceivesCall DEF ClientInv, CallsOK
    <3>2. bound[c] /\ Len(calls[c]) = 1 /\ syncReply[c] = <<>> /\ ~Queued(inbox[c], "reply")
      BY <1>1, <2>2, <3>1, ReceivesCall DEF ClientInv, CallsOK
    <3>3. calls'[c] = <<>> /\ Len(syncReply'[c]) = 1
      BY <2>2, <3>2, ReceivesCall, ReturnedCall
    <3>. QED  BY <1>2, <1>3, <2>2, <3>1, <3>2, <3>3 DEF CallsOK
  <2>. QED  BY <2>1, <2>2
<1>10. AwaitedOK(c)'
  <2>1. Fetched(c) => Fetched(c)'
    BY ReturnedCall DEF Fetched
  <2>2. Coming(c, "removed") => Coming(c, "removed")'
    BY <1>3 DEF Coming, Announced
  <2>3. Asking(c) => member = "getProperties" \/ Asking(c)'
    BY ReceivesCall
  <2>. QED  BY <1>1, <1>2, <1>3, <2>1, <2>2, <2>3 DEF ClientInv, AwaitedOK
<1>. QED  BY <1>4, <1>5, <1>6, <1>8, <1>9, <1>10 DEF ClientInv

LEMMA HandleSetterAvailability ==
  ASSUME AvailabilityInv, TypeOK', NEW c \in Client, HandleSetter(c)
  PROVE  AvailabilityInv'
<1>. USE DEF AvailabilityInv
<1>. DEFINE call == Head(calls[c])
<1>1. call.item \in Item /\ call.value \in Value
  <2>1. call \in Call /\ call.member = "set"
    BY ReceivesType DEF HandleSetter, Receives
  <2>. QED  BY <2>1, ConstantsAssumption DEF Call, Item
<1>2. PICK effect \in Effects(call.item, call.value) : Change(effect)
  BY DEF HandleSetter
<1>. HIDE DEF call
<1>3. AdapterOK'
  BY <1>1, <1>2, ChangeIsHeard, AdapterChange
<1>4. EntriesEnd'
  BY <1>1, <1>2, ChangeIsHeard DEF HandleSetter, EntriesEnd
<1>5. \A d \in Client : HearsNothing(d) \/ HearsSignals(d)
  BY <1>1, <1>2, ChangeIsHeard
<1>6. registered' = registered
  BY <1>2 DEF Change
<1>7. ClientInv(c)'
  BY <1>5, <1>6, HandledClient DEF HandleSetter
<1>8. ASSUME NEW d \in Client \ {c}
      PROVE  ClientInv(d)'
  <2>1. calls'[d] = calls[d] /\ syncReply'[d] = syncReply[d]
    BY ReceivesCall, ReturnedCall DEF HandleSetter
  <2>. QED  BY <1>5, <1>6, <2>1, ClientHears DEF HandleSetter, proxyVars
<1>. QED  BY <1>3, <1>4, <1>7, <1>8

LEMMA RefuseCallAvailability ==
  ASSUME AvailabilityInv, TypeOK', NEW c \in Client, RefuseCall(c)
  PROVE  AvailabilityInv'
<1>. USE DEF AvailabilityInv
<1>1. PICK member \in {"getProperties", "set"} : Receives(c, member)
  BY DEF RefuseCall
<1>2. AdapterOK'
  BY DEF RefuseCall, serviceVars, AdapterOK
<1>3. bound[c] => Coming(c, "removed")
  BY DEF RefuseCall, ClientInv, BoundOK, Withdrawn
<1>4. HearsNothing(c)
  BY DEF RefuseCall, serviceVars, HearsNothing
<1>5. ClientInv(c)'
  BY <1>1, <1>3, <1>4, HandledClient DEF RefuseCall, serviceVars
<1>6. EntriesEnd' /\ \A d \in Client : ClientInv(d)'
  BY <1>1, <1>5, ReceivesCall, ReturnedCall, OtherClients DEF RefuseCall, serviceVars, proxyVars
<1>. QED  BY <1>2, <1>6

LEMMA HandleGetPropertiesAvailability ==
  ASSUME AvailabilityInv, TypeOK', NEW c \in Client, HandleGetProperties(c)
  PROVE  AvailabilityInv'
<1>. USE DEF AvailabilityInv
<1>. DEFINE reply == [kind |-> "reply", values |-> service]
<1>1. reply \in Message /\ reply \in SyncReply /\ reply.kind = "reply" /\ ~IsEntry(reply)
  BY ReplyType DEF TypeOK, IsEntry
<1>2. Answers(c, reply) /\ Receives(c, "getProperties") /\ registered
      /\ registered' = registered /\ announcements' = announcements
  BY DEF HandleGetProperties
<1>. HIDE DEF reply
<1>3. AdapterOK'
  <2>1. CASE signalsConnected
    BY <2>1 DEF HandleGetProperties, AdapterOK
  <2>2. CASE ~signalsConnected
    <3>1. previous = Defaults /\ service' = service /\ signalsConnected'
          /\ previous' = [i \in Item |-> IF i \in Plain THEN service[i] ELSE previous[i]]
      BY <2>2 DEF HandleGetProperties, AdapterOK
    <3>. QED  BY <1>2, <3>1, ConstantsAssumption DEF AdapterOK, Item, Defaults
  <2>. QED  BY <2>1, <2>2
<1>4. ClientInv(c)'
  <2>1. ClientInv(c) /\ created[c]
    BY <1>2, ReceivesCall DEF ClientInv, CreatedOK
  <2>2. /\ blocked'[c] = blocked[c] /\ created'[c] = created[c] /\ known'[c] = known[c]
        /\ bound'[c] = bound[c] /\ available'[c] = available[c]
    BY DEF HandleGetProperties, proxyVars
  <2>3. CASE c \in Async
    <3>. DEFINE queue == inbox[c]
                longer == inbox'[c]
    <3>1. longer = Append(queue, reply) /\ queue \in Seq(Message) /\ syncReply'[c] = syncReply[c]
      BY <1>2, <2>3 DEF Answers, TypeOK
    <3>. HIDE DEF queue, longer
    <3>2. Appended(queue, reply, longer)
      BY <1>1, <3>1, Appends
    <3>3. /\ Len(longer) = Len(queue) + 1 /\ Len(queue) \in Nat /\ Len(longer) \in Nat
          /\ Extends(queue, longer)
          /\ \A k \in Len(queue) + 1 .. Len(longer) : longer[k] = reply
      BY <3>2 DEF Appended, Extends
    <3>4. /\ Queued(longer, "reply")
          /\ \A kind \in {"added", "removed"} : Queued(longer, kind) <=> Queued(queue, kind)
      BY <1>1, <3>2, QueuedAppended
    <3>5. On(longer, known[c], Len(longer)) <=> On(queue, known[c], Len(queue))
      <4>1. On(longer, known[c], Len(longer)) <=> On(longer, known[c], Len(queue))
        BY <1>1, <3>3, OnQuiet
      <4>2. On(longer, known[c], Len(queue)) <=> On(queue, known[c], Len(queue))
        BY <3>3, OnExtended
      <4>. QED  BY <4>1, <4>2
    <3>6. EntryKnown(c)'
      BY <1>2, <2>1, <2>2, <3>5 DEF ClientInv, EntryKnown, queue, longer
    <3>7. Withdrawn(c)'
      BY <1>2 DEF Withdrawn
    <3>8. RepliesOK(c)'
      <4>1. RepliesFollowed(queue, known[c], Announced("added"))
        BY <2>1 DEF ClientInv, RepliesOK, queue
      <4>2. announcements = <<>> => On(longer, known[c], Len(longer))
        BY <1>2, <2>1, <3>5 DEF ClientInv, EntryKnown, queue
      <4>3. announcements # <<>> => Announced("added")
        <5>1. announcements # <<>> => Len(announcements) \in 1 .. Len(announcements)
          BY EmptySeq DEF TypeOK
        <5>. QED  BY <1>2, <5>1 DEF EntriesEnd, Announced
      <4>4. \A k \in Len(queue) + 1 .. Len(longer) : k = Len(longer)
        BY <3>3
      <4>5. Announced("added") \in BOOLEAN /\ Announced("added")' = Announced("added")
        BY <1>2 DEF Announced
      <4>6. RepliesFollowed(longer, known[c], Announced("added"))
        BY <3>3, <4>1, <4>2, <4>3, <4>4, <4>5, RepliesExtended
      <4>. QED  BY <2>2, <4>5, <4>6 DEF RepliesOK, longer
    <3>9. BoundOK(c)' /\ CreatedOK(c)' /\ CallsOK(c)'
      BY <2>1, <2>2, <2>3, <3>1 DEF ClientInv, BoundOK, CreatedOK, CallsOK
    <3>10. AvailableOK(c)'
      BY <1>2, <2>1, <2>2, <3>4 DEF ClientInv, AvailableOK, Coming, Announced, queue, longer
    <3>11. AwaitedOK(c)'
      BY <3>4 DEF AwaitedOK, longer
    <3>. QED  BY <3>6, <3>7, <3>8, <3>9, <3>10, <3>11 DEF ClientInv
  <2>4. CASE c \notin Async
    <3>1. /\ inbox'[c] = inbox[c] /\ syncReply'[c] = Append(syncReply[c], reply)
          /\ syncReply[c] \in Seq(SyncReply)
      BY <1>2, <2>4 DEF Answers, TypeOK
    <3>2. Appended(syncReply[c], reply, syncReply'[c])
      BY <1>1, <3>1, Appends
    <3>3. Fetched(c)'
      BY <1>1, <3>2, QueuedAppended DEF Fetched
    <3>4. CallsOK(c)'
      <4>1. blocked[c]
        BY <1>2, <2>1, <2>4, ReceivesCall DEF ClientInv, CallsOK
      <4>2. bound[c] /\ Len(calls[c]) = 1 /\ syncReply[c] = <<>> /\ ~Queued(inbox[c], "reply")
        BY <1>2, <2>1, <2>4, <4>1, ReceivesCall DEF ClientInv, CallsOK
      <4>3. calls'[c] = <<>> /\ Len(syncReply'[c]) = 1
        BY <1>2, <3>2, <4>2, ReceivesCall, AppendedOne
      <4>. QED  BY <2>2, <2>4, <3>1, <4>1, <4>2, <4>3 DEF CallsOK
    <3>5. /\ EntryKnown(c)' /\ BoundOK(c)' /\ CreatedOK(c)' /\ RepliesOK(c)' /\ AvailableOK(c)'
          /\ Withdrawn(c)' /\ AwaitedOK(c)'
      BY <1>2, <2>1, <2>2, <3>1, <3>3
         DEF ClientInv, EntryKnown, BoundOK, CreatedOK, RepliesOK, AvailableOK, Withdrawn,
             AwaitedOK, Coming, Announced
    <3>. QED  BY <3>4, <3>5 DEF ClientInv
  <2>. QED  BY <2>3, <2>4
<1>5. EntriesEnd' /\ \A d \in Client : ClientInv(d)'
  <2>1. ASSUME NEW d \in Client \ {c}
        PROVE  /\ calls'[d] = calls[d] /\ inbox'[d] = inbox[d] /\ syncReply'[d] = syncReply[d]
               /\ blocked'[d] = blocked[d] /\ created'[d] = created[d] /\ known'[d] = known[d]
               /\ bound'[d] = bound[d] /\ available'[d] = available[d]
    BY <1>2, ReceivesCall DEF HandleGetProperties, Answers, proxyVars, TypeOK
  <2>. QED  BY <1>2, <1>4, <2>1, OtherClients
<1>. QED  BY <1>3, <1>5

-----------------------------------------------------------------------------
(***************************************************************************)
(* The steps of a proxy.                                                   *)
(***************************************************************************)
LEMMA SendsCall ==
  ASSUME TypeOK, NEW c \in Client, NEW call \in Call, Send(c, call)
  PROVE  /\ Asking(c)' <=> Asking(c) \/ call.member = "getProperties"
         /\ calls[c] = <<>> => Len(calls'[c]) = 1
         /\ blocked'[c] = (c \notin Async)
         /\ \A d \in Client \ {c} : calls'[d] = calls[d] /\ blocked'[d] = blocked[d]
<1>1. calls'[c] = Append(calls[c], call) /\ calls[c] \in Seq(Call)
  BY DEF Send, TypeOK
<1>2. Appended(calls[c], call, calls'[c])
  BY <1>1, Appends
<1>3. Asking(c)' <=> Asking(c) \/ call.member = "getProperties"
  BY <1>2, AsksAppended DEF Asking
<1>4. calls[c] = <<>> => Len(calls'[c]) = 1
  BY <1>2, AppendedOne
<1>. QED  BY <1>3, <1>4 DEF Send, TypeOK

\* What looking at the registry does to the calls of a proxy.
LEMMA ChecksRegistry ==
  ASSUME TypeOK, NEW c \in Client, NEW isReady \in BOOLEAN, NEW isKnown \in BOOLEAN,
         CheckRegistry(c, isReady, isKnown)
  PROVE  /\ \/ isReady /\ isKnown /\ ~bound[c] /\ bound'[c] /\ Asking(c)'
               /\ available'[c] = available[c]
               /\ (c \notin Async /\ Queued(inbox[c], "signal") => c \in overtaken')
               /\ blocked'[c] = (c \notin Async)
               /\ (calls[c] = <<>> => Len(calls'[c]) = 1)
            \/ isReady /\ ~isKnown /\ bound[c] /\ ~bound'[c] /\ ~available'[c]
               /\ calls'[c] = calls[c] /\ blocked'[c] = blocked[c]
            \/ ~(isReady /\ isKnown /\ ~bound[c]) /\ ~(isReady /\ ~isKnown /\ bound[c])
               /\ bound'[c] = bound[c] /\ available'[c] = available[c]
               /\ (c \in overtaken' <=> c \in overtaken)
               /\ calls'[c] = calls[c] /\ blocked'[c] = blocked[c]
         /\ \A d \in Client \ {c} :
              /\ calls'[d] = calls[d] /\ blocked'[d] = blocked[d] /\ bound'[d] = bound[d]
              /\ available'[d] = available[d] /\ (d \in overtaken' <=> d \in overtaken)
<1>1. CASE isReady /\ isKnown /\ ~bound[c]
  <2>. DEFINE call == [member |-> "getProperties"]
  <2>1. Connect(c)
    BY <1>1 DEF CheckRegistry
  <2>2. call \in Call /\ call.member = "getProperties"
    BY DEF Call
  <2>3. Send(c, call)
    BY <2>1 DEF Connect
  <2>. HIDE DEF call
  <2>4. /\ Asking(c)' /\ (calls[c] = <<>> => Len(calls'[c]) = 1) /\ blocked'[c] = (c \notin Async)
        /\ \A d \in Client \ {c} : calls'[d] = calls[d] /\ blocked'[d] = blocked[d]
    BY <2>2, <2>3, SendsCall
  <2>5. /\ (c \notin Async /\ Queued(inbox[c], "signal") => c \in overtaken')
        /\ \A d \in Client \ {c} : d \in overtaken' <=> d \in overtaken
    BY <2>1 DEF Connect, Overtakes, Queued
  <2>. QED  BY <1>1, <2>1, <2>4, <2>5 DEF Connect, TypeOK
<1>2. CASE isReady /\ ~isKnown /\ bound[c]
  <2>1. Disconnect(c)
    BY <1>2 DEF CheckRegistry
  <2>. QED  BY <1>2, <2>1 DEF Disconnect, TypeOK
<1>3. CASE ~(isReady /\ isKnown /\ ~bound[c]) /\ ~(isReady /\ ~isKnown /\ bound[c])
  BY <1>3 DEF CheckRegistry
<1>. QED  BY <1>1, <1>2, <1>3

LEMMA ConnectToServerAvailability ==
  ASSUME AvailabilityInv, TypeOK', NEW c \in Client, ConnectToServer(c)
  PROVE  AvailabilityInv'
<1>. USE DEF AvailabilityInv
<1>1. CheckRegistry(c, TRUE, known[c]) /\ known[c] \in BOOLEAN
  BY DEF ConnectToServer, TypeOK
<1>2. /\ ClientInv(c) /\ ~created[c] /\ created'[c]
      /\ known' = known /\ inbox' = inbox /\ syncReply' = syncReply
      /\ announcements' = announcements /\ registered' = registered
      /\ \A d \in Client \ {c} : created'[d] = created[d]
  BY DEF ConnectToServer, serviceVars, TypeOK
<1>3. /\ ~bound[c] /\ calls[c] = <<>> /\ ~available[c]
  BY <1>2 DEF ClientInv, BoundOK, CreatedOK
<1>4. ~blocked[c] /\ syncReply[c] = <<>>
  BY <1>2, <1>3 DEF ClientInv, CallsOK
<1>5. EntryKnown(c)' /\ Withdrawn(c)' /\ RepliesOK(c)'
  BY <1>2 DEF ClientInv, EntryKnown, Withdrawn, RepliesOK, Coming, Announced
<1>6. /\ BoundOK(c)' /\ CreatedOK(c)' /\ CallsOK(c)' /\ AvailableOK(c)' /\ AwaitedOK(c)'
  <2>1. CASE known[c]
    <3>1. /\ bound'[c] /\ Asking(c)' /\ available'[c] = available[c]
          /\ blocked'[c] = (c \notin Async) /\ Len(calls'[c]) = 1
      BY <1>1, <1>3, <2>1, ChecksRegistry
    <3>2. syncReply'[c] = <<>> /\ ~Queued(inbox[c], "reply")
      BY <1>2, <1>4 DEF ClientInv, CreatedOK
    <3>. QED  BY <1>2, <2>1, <3>1, <3>2 DEF BoundOK, CreatedOK, CallsOK, AvailableOK, AwaitedOK
  <2>2. CASE ~known[c]
    <3>1. /\ bound'[c] = bound[c] /\ available'[c] = available[c]
          /\ calls'[c] = calls[c] /\ blocked'[c] = blocked[c]
      BY <1>1, <1>3, <2>2, ChecksRegistry
    <3>. QED  BY <1>2, <1>3, <1>4, <2>2, <3>1
              DEF ClientInv, BoundOK, CreatedOK, CallsOK, AvailableOK, AwaitedOK
  <2>. QED  BY <2>1, <2>2
<1>7. ClientInv(c)'
  BY <1>5, <1>6 DEF ClientInv
<1>8. EntriesEnd' /\ \A d \in Client : ClientInv(d)'
  BY <1>1, <1>2, <1>7, ChecksRegistry, OtherClients
<1>9. AdapterOK'
  BY DEF ConnectToServer, serviceVars, AdapterOK
<1>. QED  BY <1>8, <1>9

LEMMA SendSetterCallAvailability ==
  ASSUME AvailabilityInv, TypeOK', NEW c \in Client, NEW i \in Writable, NEW v \in Value,
         SendSetterCall(c, i, v)
  PROVE  AvailabilityInv'
<1>. USE DEF AvailabilityInv
<1>. DEFINE call == [member |-> "set", item |-> i, value |-> v]
<1>1. call \in Call /\ call.member = "set"
  BY DEF Call
<1>2. /\ ClientInv(c) /\ Send(c, call) /\ ~blocked[c] /\ bound[c]
      /\ known' = known /\ inbox' = inbox /\ syncReply' = syncReply
      /\ created' = created /\ bound' = bound /\ available' = available
      /\ announcements' = announcements /\ registered' = registered
  BY DEF SendSetterCall, serviceVars, proxyVars
<1>. HIDE DEF call
<1>3. EntryKnown(c)' /\ Withdrawn(c)' /\ RepliesOK(c)' /\ BoundOK(c)'
  BY <1>2 DEF ClientInv, EntryKnown, Withdrawn, RepliesOK, BoundOK, Coming, Announced
<1>4. CreatedOK(c)'
  BY <1>2 DEF ClientInv, BoundOK, CreatedOK
<1>5. CallsOK(c)'
  BY <1>1, <1>2, SendsCall DEF ClientInv, CallsOK
<1>6. AvailableOK(c)' /\ AwaitedOK(c)'
  BY <1>1, <1>2, SendsCall DEF ClientInv, AvailableOK, AwaitedOK, Coming, Announced, Fetched
<1>7. ClientInv(c)'
  BY <1>3, <1>4, <1>5, <1>6 DEF ClientInv
<1>8. EntriesEnd' /\ \A d \in Client : ClientInv(d)'
  BY <1>1, <1>2, <1>7, SendsCall, OtherClients
<1>9. AdapterOK'
  BY DEF SendSetterCall, serviceVars, AdapterOK
<1>. QED  BY <1>8, <1>9

\* A blocking call returns: the answer was the only one.
LEMMA ReturnsAnswer ==
  ASSUME AvailabilityInv, NEW c \in Client, CallReturns(c)
  PROVE  /\ c \notin Async /\ bound[c] /\ created[c] /\ calls[c] = <<>>
         /\ ~Queued(inbox[c], "reply")
         /\ Head(syncReply[c]) = syncReply[c][1] /\ syncReply[c][1] \in SyncReply
         /\ Fetched(c) <=> syncReply[c][1].kind = "reply"
         /\ ~blocked'[c] /\ syncReply'[c] = <<>> /\ ~Fetched(c)'
         /\ \A d \in Client \ {c} :
              /\ syncReply'[d] = syncReply[d] /\ blocked'[d] = blocked[d]
              /\ available'[d] = available[d] /\ values'[d] = values[d]
<1>. USE DEF AvailabilityInv
<1>1. /\ ClientInv(c) /\ blocked[c] /\ ~blocked'[c]
      /\ syncReply[c] # <<>> /\ syncReply'[c] = Tail(syncReply[c])
      /\ \A d \in Client \ {c} : syncReply'[d] = syncReply[d] /\ blocked'[d] = blocked[d]
  BY DEF CallReturns, TypeOK
<1>2. /\ c \notin Async /\ bound[c] /\ created[c] /\ calls[c] = <<>> /\ Len(syncReply[c]) = 1
      /\ ~Queued(inbox[c], "reply")
  BY <1>1 DEF ClientInv, CallsOK, BoundOK
<1>3. syncReply'[c] = <<>> /\ Head(syncReply[c]) = syncReply[c][1] /\ syncReply[c][1] \in SyncReply
  <2>1. syncReply[c] \in Seq(SyncReply)
    BY DEF TypeOK
  <2>2. Behead(syncReply[c], syncReply'[c]) /\ syncReply'[c] \in Seq(SyncReply)
        /\ Head(syncReply[c]) = syncReply[c][1] /\ Head(syncReply[c]) \in SyncReply
    BY <1>1, <2>1, Beheaded, HeadTailProperties
  <2>. QED  BY <1>2, <2>2, BeheadedOne, EmptySeq
<1>4. Fetched(c) <=> syncReply[c][1].kind = "reply"
  BY <1>2 DEF Fetched, Queued
<1>5. ~Fetched(c)'
  BY <1>3, EmptySeq DEF Fetched, Queued
<1>6. \A d \in Client \ {c} : available'[d] = available[d] /\ values'[d] = values[d]
  BY DEF CallReturns, ApplySnapshot, TypeOK
<1>. QED  BY <1>1, <1>2, <1>3, <1>4, <1>5, <1>6

LEMMA CallReturnsAvailability ==
  ASSUME AvailabilityInv, TypeOK', NEW c \in Client, CallReturns(c)
  PROVE  AvailabilityInv'
<1>. USE DEF AvailabilityInv
<1>1. /\ ClientInv(c)
      /\ calls' = calls /\ inbox' = inbox /\ known' = known /\ created' = created /\ bound' = bound
      /\ announcements' = announcements /\ registered' = registered
  BY DEF CallReturns, serviceVars
<1>2. EntryKnown(c)' /\ Withdrawn(c)' /\ RepliesOK(c)' /\ BoundOK(c)' /\ CreatedOK(c)'
  BY <1>1, ReturnsAnswer
     DEF ClientInv, EntryKnown, Withdrawn, RepliesOK, BoundOK, CreatedOK, Coming, Announced
<1>3. CallsOK(c)'
  BY <1>1, ReturnsAnswer DEF CallsOK
<1>4. AvailableOK(c)'
  BY <1>1, ReturnsAnswer DEF AvailableOK
<1>5. AwaitedOK(c)'
  <2>1. CASE Head(syncReply[c]).kind = "reply"
    BY <2>1 DEF CallReturns, ApplySnapshot, AwaitedOK, TypeOK
  <2>2. CASE Head(syncReply[c]).kind # "reply"
    <3>1. available' = available
      BY <2>2 DEF CallReturns
    <3>2. ~Fetched(c)
      BY <2>2, ReturnsAnswer
    <3>. QED  BY <1>1, <3>1, <3>2 DEF ClientInv, AwaitedOK, Coming, Announced, Asking
  <2>. QED  BY <2>1, <2>2
<1>6. ClientInv(c)'
  BY <1>2, <1>3, <1>4, <1>5 DEF ClientInv
<1>7. EntriesEnd' /\ \A d \in Client : ClientInv(d)'
  BY <1>1, <1>6, ReturnsAnswer, OtherClients
<1>8. AdapterOK'
  BY DEF CallReturns, serviceVars, AdapterOK
<1>. QED  BY <1>7, <1>8

\* c takes the message at the head of its queue.
LEMMA DeliversMessage ==
  ASSUME TypeOK, NEW c \in Client, NEW kind, Delivers(c, kind)
  PROVE  /\ Behead(inbox[c], inbox'[c])
         /\ Head(inbox[c]) = inbox[c][1] /\ inbox[c][1].kind = kind
         /\ Len(inbox[c]) \in Nat /\ Len(inbox'[c]) \in Nat /\ 1 \in 1 .. Len(inbox[c])
         /\ ~blocked[c]
         /\ \A d \in Client \ {c} : inbox'[d] = inbox[d]
         /\ \A other : Queued(inbox[c], other) <=> kind = other \/ Queued(inbox'[c], other)
<1>1. inbox[c] \in Seq(Message) /\ inbox[c] # <<>> /\ inbox'[c] = Tail(inbox[c])
      /\ Head(inbox[c]).kind = kind
  BY DEF TypeOK, Delivers
<1>2. Behead(inbox[c], inbox'[c]) /\ Head(inbox[c]) = inbox[c][1]
  BY <1>1, Beheaded
<1>3. \A other : Queued(inbox[c], other) <=> kind = other \/ Queued(inbox'[c], other)
  BY <1>1, <1>2, QueuedBeheaded
<1>4. Len(inbox[c]) \in Nat /\ Len(inbox'[c]) \in Nat /\ 1 \in 1 .. Len(inbox[c])
  BY <1>2 DEF Behead
<1>. QED  BY <1>1, <1>2, <1>3, <1>4 DEF Delivers, TypeOK

\* The parts that only look at what follows the head.
LEMMA DeliveredQueue ==
  ASSUME TypeOK, NEW c \in Client, NEW kind, Delivers(c, kind), ClientInv(c),
         announcements' = announcements, registered' = registered,
         known'[c] = After(inbox[c][1], known[c])
  PROVE  EntryKnown(c)' /\ Withdrawn(c)' /\ RepliesOK(c)'
<1>. DEFINE queue == inbox[c]
            rest == inbox'[c]
<1>1. /\ Behead(queue, rest) /\ Len(rest) \in 0 .. Len(rest) /\ Len(rest) + 1 = Len(queue)
      /\ queue[1].kind = kind
      /\ \A other : Queued(queue, other) <=> kind = other \/ Queued(rest, other)
  BY DeliversMessage DEF Behead
<1>2. known[c] \in BOOLEAN
  BY DEF TypeOK
<1>3. /\ \A other : Announced(other)' = Announced(other)
      /\ \A other : Announced(other) \in BOOLEAN
  BY DEF Announced
<1>. HIDE DEF queue, rest
<1>4. EntryKnown(c)'
  <2>1. On(rest, After(queue[1], known[c]), Len(rest)) <=> On(queue, known[c], Len(queue))
    BY <1>1, <1>2, OnBeheaded
  <2>. QED  BY <2>1 DEF ClientInv, EntryKnown, queue, rest
<1>5. RepliesOK(c)'
  <2>1. RepliesFollowed(queue, known[c], Announced("added"))
    BY DEF ClientInv, RepliesOK, queue
  <2>2. RepliesFollowed(rest, After(queue[1], known[c]), Announced("added"))
    BY <1>1, <1>2, <1>3, <2>1, RepliesBeheaded
  <2>. QED  BY <1>3, <2>2 DEF RepliesOK, queue, rest
<1>6. Withdrawn(c)'
  <2>1. SUFFICES ASSUME ~registered
                 PROVE  /\ known'[c] => Queued(rest, "removed") \/ Announced("removed")
                        /\ EntriesWithdrawn(rest, Announced("removed"))
    BY <1>3 DEF Withdrawn, Coming, rest
  <2>2. /\ EntriesWithdrawn(queue, Announced("removed"))
        /\ known[c] => Queued(queue, "removed") \/ Announced("removed")
    BY <2>1 DEF ClientInv, Withdrawn, Coming, queue
  <2>3. EntriesWithdrawn(rest, Announced("removed"))
    BY <1>1, <1>3, <2>2, WithdrawnBeheaded
  <2>4. ASSUME known'[c]
        PROVE  Queued(rest, "removed") \/ Announced("removed")
    <3>1. CASE kind = "added"
      <4>1. 1 \in 1 .. Len(queue) /\ queue[1].kind = "added"
        BY <1>1, <3>1 DEF Behead
      <4>2. CASE Announced("removed")
        BY <4>2
      <4>3. CASE \E j \in 1 + 1 .. Len(queue) : queue[j].kind = "removed"
        <5>1. PICK j \in 1 + 1 .. Len(queue) : queue[j].kind = "removed"
          BY <4>3
        <5>2. j - 1 \in 1 .. Len(rest) /\ rest[j - 1] = queue[j]
          BY <1>1 DEF Behead
        <5>. QED  BY <5>1, <5>2 DEF Queued
      <4>. QED  BY <2>2, <4>1, <4>2, <4>3 DEF EntriesWithdrawn
    <3>2. CASE kind = "removed"
      BY <1>1, <2>4, <3>2 DEF After, IsEntry, queue
    <3>3. CASE kind # "added" /\ kind # "removed"
      <4>1. known[c]
        BY <1>1, <2>4, <3>3 DEF After, IsEntry, queue
      <4>. QED  BY <1>1, <2>2, <3>3, <4>1
    <3>. QED  BY <3>1, <3>2, <3>3
  <2>. QED  BY <2>3, <2>4
<1>. QED  BY <1>4, <1>5, <1>6

LEMMA OnReplyAvailability ==
  ASSUME AvailabilityInv, TypeOK', NEW c \in Client, OnReply(c)
  PROVE  AvailabilityInv'
<1>. USE DEF AvailabilityInv
<1>1. /\ ClientInv(c) /\ Delivers(c, "reply")
      /\ calls' = calls /\ syncReply' = syncReply /\ blocked' = blocked
      /\ created' = created /\ known' = known /\ bound' = bound
      /\ announcements' = announcements /\ registered' = registered
  BY DEF OnReply, serviceVars
<1>2. /\ available'[c]
      /\ \A d \in Client \ {c} : available'[d] = available[d] /\ inbox'[d] = inbox[d]
  BY <1>1, DeliversMessage DEF OnReply, ApplySnapshot, TypeOK
<1>3. /\ inbox[c][1].kind = "reply" /\ ~IsEntry(inbox[c][1]) /\ Queued(inbox[c], "reply")
      /\ Behead(inbox[c], inbox'[c]) /\ 1 \in 1 .. Len(inbox[c])
  BY <1>1, DeliversMessage DEF IsEntry
<1>4. c \in Async /\ created[c]
  BY <1>1, <1>3 DEF ClientInv, CallsOK, CreatedOK
<1>5. EntryKnown(c)' /\ Withdrawn(c)' /\ RepliesOK(c)'
  BY <1>1, <1>3, DeliveredQueue DEF After
<1>6. BoundOK(c)' /\ CallsOK(c)' /\ CreatedOK(c)' /\ AwaitedOK(c)'
  BY <1>1, <1>2, <1>4 DEF ClientInv, BoundOK, CallsOK, CreatedOK, AwaitedOK
<1>7. AvailableOK(c)'
  <2>. DEFINE queue == inbox[c]
              rest == inbox'[c]
  <2>1. RepliesFollowed(queue, known[c], Announced("added"))
    BY <1>1 DEF ClientInv, RepliesOK
  <2>2. Behead(queue, rest) /\ 1 \in 1 .. Len(queue) /\ queue[1].kind = "reply" /\ ~IsEntry(queue[1])
    BY <1>3
  <2>. HIDE DEF queue, rest
  <2>3. On(queue, known[c], 1) => known[c]
    BY <2>2 DEF On, IsEntry
  <2>4. ASSUME NEW j \in 1 + 1 .. Len(queue), queue[j].kind = "added"
        PROVE  Queued(rest, "added")
    <3>1. j - 1 \in 1 .. Len(rest) /\ rest[j - 1] = queue[j]
      BY <2>2 DEF Behead
    <3>. QED  BY <2>4, <3>1 DEF Queued
  <2>5. known[c] \/ Queued(rest, "added") \/ Announced("added")
    BY <2>1, <2>2, <2>3, <2>4 DEF RepliesFollowed
  <2>. QED  BY <1>1, <1>4, <2>5 DEF ClientInv, BoundOK, AvailableOK, Coming, Announced, rest
<1>8. ClientInv(c)'
  BY <1>5, <1>6, <1>7 DEF ClientInv
<1>9. EntriesEnd' /\ \A d \in Client : ClientInv(d)'
  BY <1>1, <1>2, <1>8, OtherClients
<1>10. AdapterOK'
  BY DEF OnReply, serviceVars, AdapterOK
<1>. QED  BY <1>9, <1>10

LEMMA OnSignalAvailability ==
  ASSUME AvailabilityInv, TypeOK', NEW c \in Client, OnSignalTriggered(c)
  PROVE  AvailabilityInv'
<1>. USE DEF AvailabilityInv
<1>1. /\ ClientInv(c) /\ Delivers(c, "signal")
      /\ calls' = calls /\ syncReply' = syncReply /\ blocked' = blocked
      /\ created' = created /\ known' = known /\ bound' = bound /\ available' = available
      /\ announcements' = announcements /\ registered' = registered
  BY DEF OnSignalTriggered, serviceVars
<1>2. /\ ~IsEntry(inbox[c][1])
      /\ \A kind \in {"added", "removed", "reply"} :
           Queued(inbox'[c], kind) <=> Queued(inbox[c], kind)
      /\ \A d \in Client \ {c} : inbox'[d] = inbox[d]
  <2>1. /\ inbox[c][1].kind = "signal"
        /\ \A d \in Client \ {c} : inbox'[d] = inbox[d]
        /\ \A kind : Queued(inbox[c], kind) <=> "signal" = kind \/ Queued(inbox'[c], kind)
    BY <1>1, DeliversMessage
  <2>2. \A kind \in {"added", "removed", "reply"} : "signal" # kind
    OBVIOUS
  <2>. QED  BY <2>1, <2>2 DEF IsEntry
<1>3. EntryKnown(c)' /\ Withdrawn(c)' /\ RepliesOK(c)'
  BY <1>1, <1>2, DeliveredQueue DEF After
<1>4. BoundOK(c)' /\ CallsOK(c)' /\ CreatedOK(c)' /\ AvailableOK(c)' /\ AwaitedOK(c)'
  <2>1. BoundOK(c)' /\ CallsOK(c)' /\ CreatedOK(c)'
    BY <1>1, <1>2 DEF ClientInv, BoundOK, CallsOK, CreatedOK
  <2>2. \A kind \in {"added", "removed"} : Coming(c, kind)' <=> Coming(c, kind)
    BY <1>1, <1>2 DEF Coming, Announced
  <2>3. AvailableOK(c)'
    BY <1>1, <2>2 DEF ClientInv, AvailableOK
  <2>4. AwaitedOK(c)'
    BY <1>1, <1>2, <2>2 DEF ClientInv, AwaitedOK, Asking, Fetched
  <2>. QED  BY <2>1, <2>3, <2>4
<1>5. ClientInv(c)'
  BY <1>3, <1>4 DEF ClientInv
<1>6. EntriesEnd' /\ \A d \in Client : ClientInv(d)'
  BY <1>1, <1>2, <1>5, OtherClients
<1>7. AdapterOK'
  BY DEF OnSignalTriggered, serviceVars, AdapterOK
<1>. QED  BY <1>6, <1>7

LEMMA OnRegistryChangedAvailability ==
  ASSUME AvailabilityInv, TypeOK', NEW c \in Client, NEW kind \in {"added", "removed"},
         OnRegistryChanged(c, kind)
  PROVE  AvailabilityInv'
<1>. USE DEF AvailabilityInv
<1>1. /\ ClientInv(c) /\ Delivers(c, kind)
      /\ CheckRegistry(c, created[c], kind = "added")
      /\ created[c] \in BOOLEAN /\ (kind = "added") \in BOOLEAN
      /\ known'[c] = (kind = "added")
      /\ \A d \in Client \ {c} : known'[d] = known[d]
      /\ syncReply' = syncReply /\ created' = created
      /\ announcements' = announcements /\ registered' = registered
  BY DEF OnRegistryChanged, serviceVars, TypeOK
<1>2. /\ inbox[c][1].kind = kind /\ IsEntry(inbox[c][1]) /\ ~blocked[c]
      /\ \A other \in {"added", "removed", "reply"} : other # kind =>
           (Queued(inbox'[c], other) <=> Queued(inbox[c], other))
      /\ \A d \in Client \ {c} : inbox'[d] = inbox[d]
  BY <1>1, DeliversMessage DEF IsEntry
<1>3. EntryKnown(c)' /\ Withdrawn(c)' /\ RepliesOK(c)'
  BY <1>1, <1>2, DeliveredQueue DEF After
<1>4. Queued(inbox'[c], "reply") <=> Queued(inbox[c], "reply")
  BY <1>2
<1>5. \A other \in {"added", "removed"} : other # kind => (Coming(c, other)' <=> Coming(c, other))
  BY <1>1, <1>2 DEF Coming, Announced
<1>6. c \notin Async => calls[c] = <<>> /\ syncReply[c] = <<>>
  BY <1>1, <1>2 DEF ClientInv, CallsOK
<1>7. ASSUME created[c] /\ kind = "added" /\ ~bound[c]
      PROVE  ClientInv(c)'
  <2>1. /\ bound'[c] /\ Asking(c)' /\ blocked'[c] = (c \notin Async)
        /\ (calls[c] = <<>> => Len(calls'[c]) = 1)
    BY <1>1, <1>7, ChecksRegistry
  <2>2. BoundOK(c)' /\ CreatedOK(c)' /\ AvailableOK(c)' /\ AwaitedOK(c)'
    BY <1>1, <1>7, <2>1 DEF BoundOK, CreatedOK, AvailableOK, AwaitedOK
  <2>3. CallsOK(c)'
    <3>1. CASE c \in Async
      BY <1>1, <1>2, <2>1, <3>1 DEF ClientInv, CallsOK
    <3>2. CASE c \notin Async
      BY <1>1, <1>4, <1>6, <2>1, <3>2 DEF ClientInv, CallsOK
    <3>. QED  BY <3>1, <3>2
  <2>. QED  BY <1>3, <2>2, <2>3 DEF ClientInv
<1>8. ASSUME created[c] /\ kind # "added" /\ bound[c]
      PROVE  ClientInv(c)'
  <2>1. /\ ~bound'[c] /\ ~available'[c] /\ calls'[c] = calls[c] /\ blocked'[c] = blocked[c]
    BY <1>1, <1>8, ChecksRegistry
  <2>2. BoundOK(c)' /\ CreatedOK(c)' /\ AvailableOK(c)' /\ AwaitedOK(c)'
    BY <1>1, <1>8, <2>1 DEF BoundOK, CreatedOK, AvailableOK, AwaitedOK
  <2>3. CallsOK(c)'
    BY <1>1, <1>2, <1>4, <2>1 DEF ClientInv, CallsOK
  <2>. QED  BY <1>3, <2>2, <2>3 DEF ClientInv
<1>9. ASSUME ~(created[c] /\ kind = "added" /\ ~bound[c]),
             ~(created[c] /\ kind # "added" /\ bound[c])
      PROVE  ClientInv(c)'
  <2>1. /\ bound'[c] = bound[c] /\ available'[c] = available[c]
        /\ calls'[c] = calls[c] /\ blocked'[c] = blocked[c]
    BY <1>1, <1>9, ChecksRegistry
  <2>2. BoundOK(c)'
    BY <1>1, <1>9, <2>1 DEF ClientInv, BoundOK
  <2>3. CallsOK(c)' /\ CreatedOK(c)'
    BY <1>1, <1>4, <2>1 DEF ClientInv, CallsOK, CreatedOK
  <2>4. AvailableOK(c)'
    <3>1. available[c] => created[c]
      BY <1>1 DEF ClientInv, CreatedOK
    <3>2. CASE kind = "added"
      BY <1>9, <2>1, <3>1, <3>2 DEF AvailableOK
    <3>3. CASE kind = "removed"
      BY <1>1, <1>5, <2>1, <3>3 DEF ClientInv, AvailableOK
    <3>. QED  BY <3>2, <3>3
  <2>5. AwaitedOK(c)'
    <3>1. CASE kind = "added"
      <4>1. Coming(c, "removed") => Coming(c, "removed")'
        BY <1>5, <3>1
      <4>2. ASSUME bound'[c], ~available'[c]
            PROVE  Asking(c) \/ Queued(inbox[c], "reply") \/ Fetched(c) \/ Coming(c, "removed")
        BY <1>1, <2>1, <4>2 DEF ClientInv, AwaitedOK
      <4>. QED  BY <1>1, <1>4, <2>1, <4>1, <4>2 DEF AwaitedOK, Asking, Fetched
    <3>2. CASE kind = "removed"
      <4>1. ~bound'[c]
        BY <1>1, <1>9, <2>1, <3>2 DEF ClientInv, BoundOK
      <4>. QED  BY <4>1 DEF AwaitedOK
    <3>. QED  BY <3>1, <3>2
  <2>. QED  BY <1>3, <2>2, <2>3, <2>4, <2>5 DEF ClientInv
<1>10. ClientInv(c)'
  BY <1>7, <1>8, <1>9
<1>11. EntriesEnd' /\ \A d \in Client : ClientInv(d)'
  <2>1. ASSUME NEW d \in Client \ {c}
        PROVE  /\ calls'[d] = calls[d] /\ inbox'[d] = inbox[d] /\ syncReply'[d] = syncReply[d]
               /\ blocked'[d] = blocked[d] /\ created'[d] = created[d] /\ known'[d] = known[d]
               /\ bound'[d] = bound[d] /\ available'[d] = available[d]
    <3>1. /\ calls'[d] = calls[d] /\ blocked'[d] = blocked[d] /\ bound'[d] = bound[d]
          /\ available'[d] = available[d]
      BY <1>1, ChecksRegistry
    <3>. QED  BY <1>1, <1>2, <3>1
  <2>. QED  BY <1>1, <1>10, <2>1, OtherClients
<1>12. AdapterOK'
  BY DEF OnRegistryChanged, serviceVars, AdapterOK
<1>. QED  BY <1>11, <1>12

-----------------------------------------------------------------------------
(***************************************************************************)
(* The invariant holds, and so does the property.                          *)
(***************************************************************************)
LEMMA AvailabilityStep ==
  ASSUME AvailabilityInv, [Next]_vars
  PROVE  AvailabilityInv'
<1>1. TypeOK'
  BY TypeStep DEF AvailabilityInv
<1>2. ASSUME NEW i \in Item, NEW v \in Value, ChangeValue(i, v)
      PROVE  AvailabilityInv'
  BY <1>1, <1>2, ChangeValueAvailability
<1>3. CASE RegisterService
  BY <1>1, <1>3, RegisterAvailability
<1>4. CASE UnregisterService
  BY <1>1, <1>4, UnregisterAvailability
<1>5. CASE PublishEntry
  BY <1>1, <1>5, PublishAvailability
<1>6. ASSUME NEW c \in Client, ProxyStep(c)
      PROVE  AvailabilityInv'
  BY <1>1, <1>6, ConnectToServerAvailability, SendSetterCallAvailability DEF ProxyStep
<1>7. ASSUME NEW c \in Client, HandleStep(c)
      PROVE  AvailabilityInv'
  BY <1>1, <1>7, HandleGetPropertiesAvailability, HandleSetterAvailability, RefuseCallAvailability
     DEF HandleStep
<1>8. ASSUME NEW c \in Client, DeliverStep(c)
      PROVE  AvailabilityInv'
  BY <1>1, <1>8, CallReturnsAvailability, OnReplyAvailability, OnSignalAvailability,
     OnRegistryChangedAvailability DEF DeliverStep
<1>9. CASE UNCHANGED vars
  <2>1. AdapterOK' /\ EntriesEnd'
    BY <1>9 DEF vars, serviceVars, busVars, AvailabilityInv, AdapterOK, EntriesEnd
  <2>2. ASSUME NEW c \in Client
        PROVE  ClientInv(c)'
    BY <1>9, ClientSame DEF vars, serviceVars, busVars, proxyVars, AvailabilityInv
  <2>. QED  BY <1>1, <2>1, <2>2 DEF AvailabilityInv
<1>. QED  BY <1>2, <1>3, <1>4, <1>5, <1>6, <1>7, <1>8, <1>9 DEF Next, ServiceStep

\* Whatever waits in the queues, it ends with the truth about the service:
\* a replica that has handled its messages knows whether the service is
\* exported, a proxy is bound when its replica has the entry, snapshots are
\* awaited or followed by what makes them right.
THEOREM AvailabilityInvariant == Spec => []AvailabilityInv
BY AvailabilityInit, AvailabilityStep, PTL DEF Spec

\* A created proxy to which nothing is on its way is available exactly when
\* the service is exported, however often it was withdrawn and exported
\* again in between, and whichever snapshot came late.
THEOREM AvailabilityCorrect == Spec => []AvailabilityFollows
BY AvailabilityInvariant, AvailabilityEnough, PTL

-----------------------------------------------------------------------------
(***************************************************************************)
(* Listeners.  A proxy may have read a value whose change signal it has    *)
(* not triggered yet: that signal then waits in its queue.                 *)
(***************************************************************************)
Tells(m, i) == m.kind = "signal" /\ m.member = i

\* behind: the listener does not have the proxy's value of i now.
Told(queue, i, behind) ==
  /\ behind => \E l \in 1 .. Len(queue) : Tells(queue[l], i)
  /\ \A k \in 1 .. Len(queue) :
       queue[k].kind = "signal" /\ i \in DOMAIN queue[k].changes =>
         \E l \in k .. Len(queue) : Tells(queue[l], i)

ListenersInv ==
  \A c \in Client, i \in Plain : Told(inbox[c], i, notified[c][i] # values[c][i])

LEMMA ToldExtended ==
  ASSUME NEW queue, NEW longer, Len(queue) \in Nat, Len(longer) \in Nat,
         Extends(queue, longer), NEW i, NEW behind \in BOOLEAN, Told(queue, i, behind),
         \A k \in Len(queue) + 1 .. Len(longer) :
           longer[k].kind = "signal" /\ i \in DOMAIN longer[k].changes =>
             \E l \in k .. Len(longer) : Tells(longer[l], i)
  PROVE  Told(longer, i, behind)
<1>1. \A l \in 1 .. Len(queue) : l \in 1 .. Len(longer) /\ longer[l] = queue[l]
  BY DEF Extends
<1>2. ASSUME NEW k \in 1 .. Len(longer), longer[k].kind = "signal", i \in DOMAIN longer[k].changes
      PROVE  \E l \in k .. Len(longer) : Tells(longer[l], i)
  <2>1. CASE k <= Len(queue)
    <3>1. k \in 1 .. Len(queue) /\ longer[k] = queue[k]
      BY <1>1, <2>1
    <3>2. PICK l \in k .. Len(queue) : Tells(queue[l], i)
      BY <1>2, <3>1 DEF Told
    <3>3. l \in 1 .. Len(queue)
      BY <3>1
    <3>4. l \in k .. Len(longer) /\ longer[l] = queue[l]
      BY <1>1, <3>3
    <3>. QED  BY <3>2, <3>4
  <2>2. CASE k > Len(queue)
    <3>1. k \in Len(queue) + 1 .. Len(longer)
      BY <2>2
    <3>. QED  BY <1>2, <3>1
  <2>. QED  BY <2>1, <2>2
<1>3. ASSUME behind
      PROVE  \E l \in 1 .. Len(longer) : Tells(longer[l], i)
  BY <1>1, <1>3 DEF Told
<1>. QED  BY <1>2, <1>3 DEF Told

\* The head of the queue brings the value or triggers the signal.
LEMMA ToldBeheaded ==
  ASSUME NEW queue, NEW rest, Behead(queue, rest), NEW i,
         NEW behind \in BOOLEAN, Told(queue, i, behind), NEW now \in BOOLEAN,
         now => behind \/ (queue[1].kind = "signal" /\ i \in DOMAIN queue[1].changes),
         Tells(queue[1], i) => ~now
  PROVE  Told(rest, i, now)
<1>. USE DEF Behead
<1>1. ASSUME NEW l \in 2 .. Len(queue)
      PROVE  l - 1 \in 1 .. Len(rest) /\ rest[l - 1] = queue[l]
  OBVIOUS
<1>2. ASSUME now
      PROVE  \E l \in 1 .. Len(rest) : Tells(rest[l], i)
  <2>1. PICK l \in 1 .. Len(queue) : Tells(queue[l], i)
    <3>1. 1 \in 1 .. Len(queue)
      OBVIOUS
    <3>. QED  BY <1>2, <3>1 DEF Told
  <2>2. l \in 2 .. Len(queue)
    BY <1>2, <2>1
  <2>. QED  BY <1>1, <2>1, <2>2
<1>3. ASSUME NEW k \in 1 .. Len(rest), rest[k].kind = "signal", i \in DOMAIN rest[k].changes
      PROVE  \E l \in k .. Len(rest) : Tells(rest[l], i)
  <2>1. k + 1 \in 1 .. Len(queue) /\ queue[k + 1] = rest[k]
    OBVIOUS
  <2>2. PICK l \in k + 1 .. Len(queue) : Tells(queue[l], i)
    BY <1>3, <2>1 DEF Told
  <2>3. l - 1 \in k .. Len(rest) /\ rest[l - 1] = queue[l]
    OBVIOUS
  <2>. QED  BY <2>2, <2>3
<1>. QED  BY <1>2, <1>3 DEF Told

LEMMA ToldAppended ==
  ASSUME NEW queue, NEW last, NEW longer, Appended(queue, last, longer), last.kind # "signal",
         NEW i, NEW behind \in BOOLEAN, Told(queue, i, behind)
  PROVE  Told(longer, i, behind)
<1>1. /\ Len(queue) \in Nat /\ Len(longer) \in Nat
      /\ Extends(queue, longer)
      /\ \A k \in Len(queue) + 1 .. Len(longer) : longer[k].kind # "signal"
  BY DEF Appended, Extends
<1>. QED  BY <1>1, ToldExtended

\* Every value that differs from what was sent last has just changed, and
\* its signal is sent too.
LEMMA ToldInforms ==
  ASSUME NEW queue, NEW longer, Len(queue) \in Nat, Len(longer) \in Nat,
         NEW old, NEW sent, NEW state, Informs(queue, longer, old, sent, state),
         NEW i \in Item, sent[i] = old[i], NEW behind \in BOOLEAN, Told(queue, i, behind)
  PROVE  Told(longer, i, behind)
<1>1. Extends(queue, longer)
  BY DEF Informs
<1>2. ASSUME NEW k \in Len(queue) + 1 .. Len(longer), i \in DOMAIN longer[k].changes
      PROVE  \E l \in k .. Len(longer) : Tells(longer[l], i)
  <2>1. k = Len(queue) + 1 /\ state[i] # old[i]
    BY <1>2 DEF Informs
  <2>2. PICK l \in Len(queue) + 1 .. Len(longer) : longer[l].member = i
    BY <2>1 DEF Informs
  <2>3. longer[l].kind = "signal"
    BY <2>2 DEF Informs
  <2>. QED  BY <2>1, <2>2, <2>3 DEF Tells
<1>. QED  BY <1>1, <1>2, ToldExtended

LEMMA ListenersInit ==
  ASSUME Init
  PROVE  ListenersInv
<1>. SUFFICES ASSUME NEW c \in Client, NEW i \in Plain
              PROVE  Told(inbox[c], i, notified[c][i] # values[c][i])
  BY DEF ListenersInv
<1>1. inbox[c] = <<>> /\ notified[c][i] = values[c][i]
  BY DEF Init, Defaults, Item
<1>2. Len(inbox[c]) = 0
  BY <1>1, EmptySeq
<1>. QED  BY <1>1, <1>2 DEF Told

LEMMA ListenersEnough ==
  ASSUME ListenersInv
  PROVE  ListenersUpToDate
<1>. SUFFICES ASSUME NEW c \in Client, NEW i \in Plain, Settled(c)
              PROVE  notified[c][i] = values[c][i]
  BY DEF ListenersUpToDate
<1>1. Len(inbox[c]) = 0
  BY EmptySeq DEF Settled
<1>2. Told(inbox[c], i, notified[c][i] # values[c][i])
  BY DEF ListenersInv
<1>. QED  BY <1>1, <1>2 DEF Told

LEMMA ToldSame ==
  ASSUME ListenersInv, NEW c \in Client, NEW i \in Plain,
         inbox'[c] = inbox[c], notified'[c] = notified[c], values'[c] = values[c]
  PROVE  Told(inbox'[c], i, notified'[c][i] # values'[c][i])
BY DEF ListenersInv

LEMMA ToldHears ==
  ASSUME AvailabilityInv, TypeOK', ListenersInv, NEW c \in Client, NEW i \in Plain,
         HearsNothing(c) \/ HearsSignals(c), notified'[c] = notified[c], values'[c] = values[c]
  PROVE  Told(inbox'[c], i, notified'[c][i] # values'[c][i])
<1>1. CASE HearsNothing(c)
  BY <1>1, ToldSame DEF HearsNothing
<1>2. CASE HearsSignals(c)
  <2>1. i \in Item /\ previous[i] = service[i]
    BY <1>2 DEF HearsSignals, AvailabilityInv, AdapterOK, Item
  <2>2. Len(inbox[c]) \in Nat /\ Len(inbox'[c]) \in Nat
    BY LenProperties DEF AvailabilityInv, TypeOK
  <2>3. Told(inbox[c], i, notified[c][i] # values[c][i])
    BY DEF ListenersInv
  <2>4. Informs(inbox[c], inbox'[c], service, previous, service')
    BY <1>2 DEF HearsSignals
  <2>. QED  BY <2>1, <2>2, <2>3, <2>4, ToldInforms
<1>. QED  BY <1>1, <1>2

LEMMA ToldMessage ==
  ASSUME TypeOK, ListenersInv, NEW c \in Client, NEW i \in Plain, NEW last \in Message,
         last.kind # "signal", inbox'[c] = Append(inbox[c], last),
         notified'[c] = notified[c], values'[c] = values[c]
  PROVE  Told(inbox'[c], i, notified'[c][i] # values'[c][i])
<1>1. Appended(inbox[c], last, inbox'[c])
  BY Appends DEF TypeOK
<1>2. Told(inbox[c], i, notified[c][i] # values[c][i])
  BY DEF ListenersInv
<1>. QED  BY <1>1, <1>2, ToldAppended

\* A snapshot triggers the signals of the values it changes.
LEMMA ToldSnapshot ==
  ASSUME TypeOK, NEW c \in Client, NEW snapshot, ApplySnapshot(c, snapshot), NEW i \in Plain
  PROVE  notified'[c][i] # values'[c][i] => notified[c][i] # values[c][i]
<1>1. i \in Item /\ i \notin Lazy
  BY ConstantsAssumption DEF Item
<1>2. /\ values'[c] = snapshot
      /\ notified'[c][i] = IF snapshot[i] # values[c][i] THEN snapshot[i] ELSE notified[c][i]
  BY <1>1 DEF ApplySnapshot, TypeOK
<1>. QED  BY <1>2

LEMMA ToldDelivers ==
  ASSUME TypeOK, ListenersInv, NEW c \in Client, NEW i \in Plain, NEW kind, Delivers(c, kind),
         notified'[c][i] # values'[c][i] =>
           \/ notified[c][i] # values[c][i]
           \/ kind = "signal" /\ i \in DOMAIN inbox[c][1].changes,
         Tells(inbox[c][1], i) => notified'[c][i] = values'[c][i]
  PROVE  Told(inbox'[c], i, notified'[c][i] # values'[c][i])
<1>1. Behead(inbox[c], inbox'[c]) /\ inbox[c][1].kind = kind
  BY DeliversMessage
<1>2. Told(inbox[c], i, notified[c][i] # values[c][i])
  BY DEF ListenersInv
<1>. QED  BY <1>1, <1>2, ToldBeheaded

LEMMA ListenersStep ==
  ASSUME AvailabilityInv, TypeOK', ListenersInv, [Next]_vars
  PROVE  ListenersInv'
<1>. USE DEF AvailabilityInv
<1>. SUFFICES ASSUME NEW c \in Client, NEW i \in Plain
              PROVE  Told(inbox'[c], i, notified'[c][i] # values'[c][i])
  BY DEF ListenersInv
<1>. DEFINE Goal == Told(inbox'[c], i, notified'[c][i] # values'[c][i])
<1>1. ASSUME NEW j \in Item, NEW v \in Value, ChangeValue(j, v)
      PROVE  Goal
  <2>1. PICK effect \in Effects(j, v) : Change(effect)
    BY <1>1 DEF ChangeValue
  <2>2. HearsNothing(c) \/ HearsSignals(c)
    BY <2>1, ChangeIsHeard
  <2>. QED  BY <1>1, <2>2, ToldHears DEF ChangeValue, proxyVars
<1>2. CASE RegisterService \/ UnregisterService
  BY <1>2, ToldSame DEF RegisterService, UnregisterService, proxyVars
<1>3. CASE PublishEntry
  <2>. DEFINE entry == [kind |-> Head(announcements)]
  <2>1. Head(announcements) \in {"added", "removed"}
    BY <1>3, HeadTailProperties DEF PublishEntry, TypeOK
  <2>2. entry \in Message /\ entry.kind # "signal"
    BY <2>1, EntryType
  <2>3. inbox'[c] = Append(inbox[c], entry)
    BY <1>3 DEF PublishEntry
  <2>4. notified'[c] = notified[c] /\ values'[c] = values[c]
    BY <1>3 DEF PublishEntry, proxyVars
  <2>. HIDE DEF entry
  <2>. QED  BY <2>2, <2>3, <2>4, ToldMessage
<1>4. ASSUME NEW d \in Client, ProxyStep(d)
      PROVE  Goal
  BY <1>4, ToldSame DEF ProxyStep, ConnectToServer, SendSetterCall, proxyVars
<1>5. ASSUME NEW d \in Client, HandleGetProperties(d)
      PROVE  Goal
  <2>. DEFINE reply == [kind |-> "reply", values |-> service]
  <2>1. reply \in Message /\ reply.kind # "signal"
    BY ReplyType DEF TypeOK
  <2>2. /\ inbox'[c] = Append(inbox[c], reply) \/ inbox'[c] = inbox[c]
        /\ notified'[c] = notified[c] /\ values'[c] = values[c]
    BY <1>5 DEF HandleGetProperties, Answers, proxyVars, TypeOK
  <2>. HIDE DEF reply
  <2>. QED  BY <2>1, <2>2, ToldSame, ToldMessage
<1>6. ASSUME NEW d \in Client, HandleSetter(d)
      PROVE  Goal
  <2>1. Head(calls[d]) \in Call /\ Head(calls[d]).member = "set"
    BY <1>6, ReceivesType DEF HandleSetter, Receives
  <2>2. Head(calls[d]).item \in Item /\ Head(calls[d]).value \in Value
    BY <2>1, ConstantsAssumption DEF Call, Item
  <2>3. PICK effect \in Effects(Head(calls[d]).item, Head(calls[d]).value) : Change(effect)
    BY <1>6 DEF HandleSetter
  <2>4. HearsNothing(c) \/ HearsSignals(c)
    BY <2>2, <2>3, ChangeIsHeard
  <2>. QED  BY <1>6, <2>4, ToldHears DEF HandleSetter, proxyVars
<1>7. ASSUME NEW d \in Client, RefuseCall(d)
      PROVE  Goal
  BY <1>7, ToldSame DEF RefuseCall, proxyVars
<1>8. ASSUME NEW d \in Client, d # c, DeliverStep(d)
      PROVE  Goal
  <2>1. inbox'[c] = inbox[c]
    BY <1>8 DEF DeliverStep, CallReturns, OnReply, OnSignalTriggered, OnRegistryChanged,
                Delivers, TypeOK
  <2>2. notified'[c] = notified[c] /\ values'[c] = values[c]
    <3>1. CASE CallReturns(d)
      BY <1>8, <3>1 DEF CallReturns, ApplySnapshot, TypeOK
    <3>2. CASE OnReply(d)
      BY <1>8, <3>2 DEF OnReply, ApplySnapshot, TypeOK
    <3>3. CASE OnSignalTriggered(d)
      BY <1>8, <3>3 DEF OnSignalTriggered, TypeOK
    <3>4. ASSUME NEW kind, OnRegistryChanged(d, kind)
          PROVE  notified'[c] = notified[c] /\ values'[c] = values[c]
      BY <3>4 DEF OnRegistryChanged
    <3>. QED  BY <1>8, <3>1, <3>2, <3>3, <3>4 DEF DeliverStep
  <2>. QED  BY <2>1, <2>2, ToldSame
<1>9. CASE CallReturns(c)
  <2>1. inbox'[c] = inbox[c]
    BY <1>9 DEF CallReturns
  <2>2. notified'[c][i] # values'[c][i] => notified[c][i] # values[c][i]
    BY <1>9, ToldSnapshot DEF CallReturns
  <2>3. Told(inbox[c], i, notified[c][i] # values[c][i])
    BY DEF ListenersInv
  <2>4. notified[c][i] = values[c][i] => notified'[c][i] = values'[c][i]
    BY <2>2
  <2>. QED  BY <2>1, <2>3, <2>4 DEF Told
<1>10. CASE OnReply(c)
  <2>1. Delivers(c, "reply") /\ (notified'[c][i] # values'[c][i] => notified[c][i] # values[c][i])
    BY <1>10, ToldSnapshot DEF OnReply
  <2>2. ~Tells(inbox[c][1], i)
    BY <2>1, DeliversMessage DEF Tells
  <2>. QED  BY <2>1, <2>2, ToldDelivers
<1>11. CASE OnSignalTriggered(c)
  <2>. DEFINE message == Head(inbox[c])
              new == Updated(values[c], message.changes)
  <2>1. i \in Item /\ i \notin Lazy
    BY ConstantsAssumption DEF Item
  <2>2. /\ Delivers(c, "signal")
        /\ values'[c][i] = new[i]
        /\ notified'[c][i] = IF i = message.member THEN new[i] ELSE notified[c][i]
    BY <1>11, <2>1 DEF OnSignalTriggered, TypeOK
  <2>3. i \notin DOMAIN message.changes => new[i] = values[c][i]
    BY <2>1 DEF Updated
  <2>4. message = inbox[c][1]
    BY <2>2, DeliversMessage
  <2>. HIDE DEF message, new
  <2>. QED  BY <2>2, <2>3, <2>4, ToldDelivers DEF Tells
<1>12. ASSUME NEW kind \in {"added", "removed"}, OnRegistryChanged(c, kind)
       PROVE  Goal
  <2>1. Delivers(c, kind) /\ notified'[c] = notified[c] /\ values'[c] = values[c]
    BY <1>12 DEF OnRegistryChanged
  <2>2. ~Tells(inbox[c][1], i)
    BY <2>1, DeliversMessage DEF Tells
  <2>. QED  BY <2>1, <2>2, ToldDelivers
<1>13. CASE UNCHANGED vars
  BY <1>13, ToldSame DEF vars, busVars, proxyVars
<1>. QED
  BY <1>1, <1>2, <1>3, <1>4, <1>5, <1>6, <1>7, <1>8, <1>9, <1>10, <1>11, <1>12, <1>13
  DEF Next, ServiceStep, HandleStep, DeliverStep

\* Whoever only listens to the change signals of a proxy is up to date when
\* nothing is on its way: no value comes, with a message sent for another
\* property or with a snapshot, whose own signal is not triggered later.
THEOREM ListenersCorrect == Spec => []ListenersUpToDate
<1>1. Init => AvailabilityInv /\ ListenersInv
  BY AvailabilityInit, ListenersInit
<1>2. (AvailabilityInv /\ ListenersInv) /\ [Next]_vars => (AvailabilityInv /\ ListenersInv)'
  <2>1. SUFFICES ASSUME AvailabilityInv, ListenersInv, [Next]_vars
                 PROVE  (AvailabilityInv /\ ListenersInv)'
    OBVIOUS
  <2>2. AvailabilityInv' /\ TypeOK'
    BY <2>1, AvailabilityStep DEF AvailabilityInv
  <2>. QED  BY <2>1, <2>2, ListenersStep
<1>. QED  BY <1>1, <1>2, ListenersEnough, PTL DEF Spec

-----------------------------------------------------------------------------
(***************************************************************************)
(* The values of the proxies: an available proxy that has handled every    *)
(* message has the service's values, and an asynchronous one has them when *)
(* it triggers a signal.                                                   *)
(*                                                                         *)
(* The last message that carries a property decides its value, once the    *)
(* queue has been handled; a snapshot after which nothing was withdrawn    *)
(* makes the queue "fresh": from there on the adapter that now exports the *)
(* service sends the rest.                                                 *)
(***************************************************************************)

(***************************************************************************)
(* What a queue brings.                                                    *)
(***************************************************************************)
Carries(m, i) == m.kind = "reply" \/ (m.kind = "signal" /\ i \in DOMAIN m.changes)

Carried(m, i) == IF m.kind = "reply" THEN m.values[i] ELSE m.changes[i]

\* A proxy whose value of i is "base" has v when it has handled k messages.
Brings(queue, base, i, k, v) ==
  /\ \A j \in 1 .. k :
       Carries(queue[j], i) /\ (\A l \in j + 1 .. k : ~Carries(queue[l], i)) =>
         Carried(queue[j], i) = v
  /\ (\A l \in 1 .. k : ~Carries(queue[l], i)) => base = v

\* The last of k messages to say so is a snapshot, not a withdrawal; "from"
\* is what the proxy had before.
Fresh(queue, from, k) ==
  \/ \E j \in 1 .. k :
       queue[j].kind = "reply" /\ \A l \in j + 1 .. k : queue[l].kind # "removed"
  \/ from /\ \A l \in 1 .. k : queue[l].kind # "removed"

\* What the head of a queue makes of "base" and of "from".
Applied(m, base, i) == IF Carries(m, i) THEN Carried(m, i) ELSE base

Begun(m, from) == m.kind = "reply" \/ (from /\ m.kind # "removed")

LEMMA BringsExtended ==
  ASSUME NEW queue, NEW longer, Extends(queue, longer), NEW base, NEW i, NEW v,
         NEW k \in Nat, Len(queue) \in Nat, k <= Len(queue)
  PROVE  Brings(longer, base, i, k, v) <=> Brings(queue, base, i, k, v)
<1>1. \A j \in 1 .. k : longer[j] = queue[j]
  BY DEF Extends
<1>2. \A j \in 1 .. k : j + 1 .. k \subseteq 1 .. k
  OBVIOUS
<1>. QED  BY <1>1, <1>2 DEF Brings

LEMMA BringsQuiet ==
  ASSUME NEW queue, NEW base, NEW i, NEW v, NEW k \in Nat, NEW n \in Nat, n <= k,
         \A l \in n + 1 .. k : ~Carries(queue[l], i)
  PROVE  Brings(queue, base, i, k, v) <=> Brings(queue, base, i, n, v)
<1>1. \A j \in 1 .. k : Carries(queue[j], i) => j \in 1 .. n
  OBVIOUS
<1>2. \A j \in 1 .. n : j \in 1 .. k
  OBVIOUS
<1>3. \A j \in 1 .. n : (\A l \in j + 1 .. k : ~Carries(queue[l], i)) <=>
                        (\A l \in j + 1 .. n : ~Carries(queue[l], i))
  OBVIOUS
<1>4. (\A l \in 1 .. k : ~Carries(queue[l], i)) <=> (\A l \in 1 .. n : ~Carries(queue[l], i))
  OBVIOUS
<1>. QED  BY <1>1, <1>2, <1>3, <1>4 DEF Brings

LEMMA BringsLast ==
  ASSUME NEW queue, NEW base, NEW i, NEW v, NEW k \in Nat \ {0},
         Carries(queue[k], i), Carried(queue[k], i) = v
  PROVE  Brings(queue, base, i, k, v)
<1>1. \A j \in 1 .. k : j # k => k \in j + 1 .. k
  OBVIOUS
<1>2. k \in 1 .. k
  OBVIOUS
<1>. QED  BY <1>1, <1>2 DEF Brings

LEMMA BringsNothing ==
  ASSUME NEW queue, NEW base, NEW i, NEW k \in Nat,
         \A l \in 1 .. k : ~Carries(queue[l], i)
  PROVE  Brings(queue, base, i, k, base)
BY DEF Brings

LEMMA BringsBeheaded ==
  ASSUME NEW queue, NEW rest, Behead(queue, rest), NEW base, NEW i, NEW v,
         NEW k \in 0 .. Len(rest), Brings(queue, base, i, k + 1, v)
  PROVE  /\ Brings(rest, Applied(queue[1], base, i), i, k, v)
         /\ Brings(rest, v, i, k, v)
<1>. USE DEF Behead
<1>1. ASSUME NEW j \in 1 .. k, Carries(rest[j], i), \A l \in j + 1 .. k : ~Carries(rest[l], i)
      PROVE  Carried(rest[j], i) = v
  <2>1. j + 1 \in 1 .. k + 1 /\ queue[j + 1] = rest[j]
    OBVIOUS
  <2>2. ASSUME NEW l \in (j + 1) + 1 .. k + 1
        PROVE  ~Carries(queue[l], i)
    <3>1. l - 1 \in j + 1 .. k /\ queue[l] = rest[l - 1]
      OBVIOUS
    <3>. QED  BY <1>1, <3>1
  <2>. QED  BY <1>1, <2>1, <2>2 DEF Brings
<1>2. ASSUME \A l \in 1 .. k : ~Carries(rest[l], i)
      PROVE  Applied(queue[1], base, i) = v
  <2>1. ASSUME NEW l \in 2 .. k + 1
        PROVE  ~Carries(queue[l], i)
    <3>1. l - 1 \in 1 .. k /\ l - 1 \in 1 .. Len(rest) /\ (l - 1) + 1 = l
      OBVIOUS
    <3>2. rest[l - 1] = queue[(l - 1) + 1]
      BY <3>1
    <3>. QED  BY <1>2, <3>1, <3>2
  <2>2. 1 \in 1 .. k + 1 /\ 1 + 1 = 2 /\ \A l \in 1 .. k + 1 : l = 1 \/ l \in 2 .. k + 1
    OBVIOUS
  <2>3. CASE Carries(queue[1], i)
    BY <2>1, <2>2, <2>3 DEF Brings, Applied
  <2>4. CASE ~Carries(queue[1], i)
    <3>1. \A l \in 1 .. k + 1 : ~Carries(queue[l], i)
      BY <2>1, <2>2, <2>4
    <3>. QED  BY <2>4, <3>1 DEF Brings, Applied
  <2>. QED  BY <2>3, <2>4
<1>. QED  BY <1>1, <1>2 DEF Brings

LEMMA FreshExtended ==
  ASSUME NEW queue, NEW longer, Extends(queue, longer), NEW from,
         NEW k \in Nat, Len(queue) \in Nat, k <= Len(queue)
  PROVE  Fresh(longer, from, k) <=> Fresh(queue, from, k)
<1>1. \A j \in 1 .. k : longer[j] = queue[j]
  BY DEF Extends
<1>2. ASSUME NEW j \in 0 .. k
      PROVE  (\A l \in j + 1 .. k : longer[l].kind # "removed")
                <=> (\A l \in j + 1 .. k : queue[l].kind # "removed")
  <2>1. j + 1 .. k \subseteq 1 .. k
    OBVIOUS
  <2>. QED  BY <1>1, <2>1
<1>3. (\A l \in 1 .. k : longer[l].kind # "removed") <=> (\A l \in 1 .. k : queue[l].kind # "removed")
  BY <1>1
<1>4. 1 .. k \subseteq 0 .. k
  OBVIOUS
<1>. QED  BY <1>1, <1>2, <1>3, <1>4 DEF Fresh

LEMMA FreshQuiet ==
  ASSUME NEW queue, NEW from, NEW k \in Nat, NEW n \in Nat, n <= k,
         \A l \in n + 1 .. k : queue[l].kind # "removed"
  PROVE  /\ Fresh(queue, from, n) => Fresh(queue, from, k)
         /\ (\A l \in n + 1 .. k : queue[l].kind # "reply") =>
              (Fresh(queue, from, k) => Fresh(queue, from, n))
<1>1. \A j \in 1 .. n : j \in 1 .. k
  OBVIOUS
<1>2. \A j \in 1 .. n : (\A l \in j + 1 .. k : queue[l].kind # "removed") <=>
                        (\A l \in j + 1 .. n : queue[l].kind # "removed")
  OBVIOUS
<1>3. (\A l \in 1 .. k : queue[l].kind # "removed") <=>
        (\A l \in 1 .. n : queue[l].kind # "removed")
  OBVIOUS
<1>4. (\A l \in n + 1 .. k : queue[l].kind # "reply") =>
        \A j \in 1 .. k : queue[j].kind = "reply" => j \in 1 .. n
  OBVIOUS
<1>. QED  BY <1>1, <1>2, <1>3, <1>4 DEF Fresh

LEMMA StaleLast ==
  ASSUME NEW queue, NEW from, NEW k \in Nat \ {0}, queue[k].kind = "removed"
  PROVE  ~Fresh(queue, from, k)
<1>1. \A j \in 1 .. k : j # k => k \in j + 1 .. k
  OBVIOUS
<1>2. k \in 1 .. k
  OBVIOUS
<1>. QED  BY <1>1, <1>2 DEF Fresh

LEMMA FreshBeheaded ==
  ASSUME NEW queue, NEW rest, Behead(queue, rest), NEW from \in BOOLEAN,
         NEW k \in 0 .. Len(rest), Fresh(rest, Begun(queue[1], from), k)
  PROVE  Fresh(queue, from, k + 1)
<1>. USE DEF Behead
<1>1. ASSUME NEW j \in 0 .. k, \A l \in j + 1 .. k : rest[l].kind # "removed"
      PROVE  \A l \in (j + 1) + 1 .. k + 1 : queue[l].kind # "removed"
  <2>1. ASSUME NEW l \in (j + 1) + 1 .. k + 1
        PROVE  queue[l].kind # "removed"
    <3>1. l - 1 \in j + 1 .. k /\ queue[l] = rest[l - 1]
      OBVIOUS
    <3>. QED  BY <1>1, <3>1
  <2>. QED  BY <2>1
<1>2. ASSUME NEW j \in 1 .. k, rest[j].kind = "reply",
             \A l \in j + 1 .. k : rest[l].kind # "removed"
      PROVE  Fresh(queue, from, k + 1)
  <2>1. j + 1 \in 1 .. k + 1 /\ queue[j + 1] = rest[j] /\ j \in 0 .. k
    OBVIOUS
  <2>. QED  BY <1>1, <1>2, <2>1 DEF Fresh
<1>3. ASSUME Begun(queue[1], from), \A l \in 1 .. k : rest[l].kind # "removed"
      PROVE  Fresh(queue, from, k + 1)
  <2>1. 0 \in 0 .. k /\ 0 + 1 = 1 /\ 1 + 1 = 2 /\ 1 \in 1 .. k + 1
        /\ \A l \in 1 .. k + 1 : l = 1 \/ l \in 2 .. k + 1
    OBVIOUS
  <2>2. \A l \in 2 .. k + 1 : queue[l].kind # "removed"
    BY <1>1, <1>3, <2>1
  <2>3. CASE queue[1].kind = "reply"
    BY <2>1, <2>2, <2>3 DEF Fresh
  <2>4. CASE from /\ queue[1].kind # "removed"
    BY <2>1, <2>2, <2>4 DEF Fresh
  <2>. QED  BY <1>3, <2>3, <2>4 DEF Begun
<1>. QED  BY <1>2, <1>3 DEF Fresh

-----------------------------------------------------------------------------
(***************************************************************************)
(* The invariant behind ValuesAgree and SignalsFollowValues.               *)
(***************************************************************************)
\* The proxy has a snapshot, or the answer that its blocking call returns.
Started(c) == available[c] \/ Fetched(c)

\* The values it starts from.
Base(c) == IF Fetched(c) THEN syncReply[c][1].values ELSE values[c]

\* Adapters are exported and withdrawn in turn, so no replica gets an entry
\* it has, or loses one it has not.
EntriesAlternate ==
  \A k \in 1 .. Len(announcements) - 1 : announcements[k] # announcements[k + 1]

NewEntries(queue, from) ==
  \A k \in 1 .. Len(queue) :
    IsEntry(queue[k]) => (queue[k].kind = "added" <=> ~On(queue, from, k - 1))

EntryNew(c) ==
  /\ NewEntries(inbox[c], known[c])
  /\ announcements # <<>> =>
       (announcements[1] = "added" <=> ~On(inbox[c], known[c], Len(inbox[c])))

\* Signals that a blocking snapshot overtakes bring nothing older.
SentOK(c) ==
  /\ c \notin Async
  /\ c \notin overtaken /\ bound[c] /\ ~Coming(c, "removed")
  /\ Queued(inbox[c], "signal")
  => /\ signalsConnected /\ previous = service
     /\ \A i \in Item : Brings(inbox[c], service[i], i, Len(inbox[c]), service[i])

\* c is subscribed to the adapter, has a snapshot of it or will, and nothing
\* that is on its way has been withdrawn.
Linked(c) ==
  /\ InOrder(c) /\ bound[c] /\ ~Asking(c) /\ ~Announced("removed")
  /\ Fresh(inbox[c], Started(c), Len(inbox[c]))

\* When a linked proxy has handled its messages it has the service's values.
ValuesOK(c) ==
  Linked(c) =>
    /\ signalsConnected
    /\ \A i \in Item : i \in Plain \/ service[i] # Default =>
         Brings(inbox[c], Base(c)[i], i, Len(inbox[c]), service[i])

\* Up to a signal of the last adapter, an asynchronous proxy has the values
\* that the service had when it sent that signal.
SignalsOK(c) ==
  c \in Async /\ ~Asking(c) /\ ~Announced("removed") =>
    \A k \in 1 .. Len(inbox[c]) :
      /\ inbox[c][k].kind = "signal"
      /\ Fresh(inbox[c], Started(c), k)
      /\ \A l \in k + 1 .. Len(inbox[c]) : inbox[c][l].kind \notin {"reply", "removed"}
      => \A i \in Plain : Brings(inbox[c], Base(c)[i], i, k, inbox[c][k].at[i])

CopiesOK(c) == SentOK(c) /\ ValuesOK(c) /\ SignalsOK(c)

ProxyInv(c) == EntryNew(c) /\ CopiesOK(c)

ValuesInv == EntriesAlternate /\ \A c \in Client : ProxyInv(c)

\* The part that only speaks of entries.
NewsInv == EntriesAlternate /\ \A c \in Client : EntryNew(c)

LEMMA ValuesInit ==
  ASSUME Init
  PROVE  ValuesInv
<1>1. announcements = <<>> /\ Len(announcements) = 0
  BY EmptySeq DEF Init
<1>2. EntriesAlternate
  BY <1>1 DEF EntriesAlternate
<1>3. ASSUME NEW c \in Client
      PROVE  ProxyInv(c)
  <2>1. /\ inbox[c] = <<>> /\ syncReply[c] = <<>> /\ ~bound[c] /\ ~available[c]
    BY DEF Init
  <2>2. Len(inbox[c]) = 0
    BY <2>1, EmptySeq
  <2>3. EntryNew(c)
    BY <1>1, <2>2 DEF EntryNew, NewEntries
  <2>4. SentOK(c) /\ ValuesOK(c)
    BY <2>1, <2>2 DEF SentOK, ValuesOK, Linked, Queued
  <2>5. SignalsOK(c)
    BY <2>2 DEF SignalsOK
  <2>. QED  BY <2>3, <2>4, <2>5 DEF ProxyInv, CopiesOK
<1>. QED  BY <1>2, <1>3 DEF ValuesInv

LEMMA ValuesEnough ==
  ASSUME AvailabilityInv, ValuesInv
  PROVE  ValuesAgree
<1>. SUFFICES ASSUME NEW c \in Client, InOrder(c), Current(c)
              PROVE  /\ \A i \in Plain : values[c][i] = service[i]
                     /\ \A i \in Lazy : service[i] # Default => values[c][i] = service[i]
  BY DEF ValuesAgree
<1>1. /\ announcements = <<>> /\ calls[c] = <<>> /\ ~blocked[c] /\ inbox[c] = <<>>
      /\ Len(announcements) = 0 /\ Len(calls[c]) = 0 /\ Len(inbox[c]) = 0
      /\ available[c] /\ Settled(c)
  BY EmptySeq DEF Settled, Current
<1>2. ClientInv(c)
  BY DEF AvailabilityInv
<1>3. ~Asking(c) /\ ~Announced("removed") /\ ~Coming(c, "added")
  BY <1>1 DEF Coming, Queued, Announced, Asking, Asks
<1>4. syncReply[c] = <<>> /\ Len(syncReply[c]) = 0
  BY <1>1, <1>2, EmptySeq DEF ClientInv, CallsOK
<1>5. ~Fetched(c) /\ Started(c)
  BY <1>1, <1>4 DEF Fetched, Queued, Started
<1>6. bound[c]
  BY <1>1, <1>2, <1>3 DEF ClientInv, AvailableOK
<1>7. Fresh(inbox[c], Started(c), Len(inbox[c]))
  BY <1>1, <1>5 DEF Fresh
<1>8. ValuesOK(c)
  BY DEF ValuesInv, ProxyInv, CopiesOK
<1>9. \A i \in Item : i \in Plain \/ service[i] # Default =>
        Brings(inbox[c], Base(c)[i], i, Len(inbox[c]), service[i])
  BY <1>3, <1>6, <1>7, <1>8 DEF ValuesOK, Linked
<1>10. \A i \in Item : i \in Plain \/ service[i] # Default => Base(c)[i] = service[i]
  BY <1>1, <1>9 DEF Brings
<1>11. Base(c) = values[c]
  BY <1>5 DEF Base
<1>. QED  BY <1>10, <1>11 DEF Item

LEMMA SignalsEnough ==
  ASSUME AvailabilityInv, ValuesInv
  PROVE  SignalsFollowValues
<1>. SUFFICES ASSUME NEW c \in Async, Following(c), inbox[c] # <<>>, NEW i \in Plain
              PROVE  Updated(values[c], Head(inbox[c]).changes)[i] = Head(inbox[c]).at[i]
  BY DEF SignalsFollowValues
<1>1. c \in Client /\ i \in Item
  BY ConstantsAssumption DEF Item
<1>2. ClientInv(c) /\ inbox[c] \in Seq(Message) /\ announcements \in Seq({"added", "removed"})
  BY <1>1 DEF AvailabilityInv, TypeOK
<1>3. Head(inbox[c]) = inbox[c][1] /\ 1 \in 1 .. Len(inbox[c])
  BY <1>2, Beheaded, LenProperties, EmptySeq
<1>4. ~Announced("removed")
  BY DEF Following, Contains, Announced
<1>5. ~Asking(c)
  BY DEF Following, Asking, Asks
<1>6. ~Fetched(c)
  <2>1. syncReply[c] = <<>> /\ Len(syncReply[c]) = 0
    BY <1>2, EmptySeq DEF ClientInv, CallsOK
  <2>. QED  BY <2>1 DEF Fetched, Queued
<1>7. \A k \in 1 .. Len(inbox[c]) : inbox[c][k].kind = "signal"
  BY DEF Following
<1>8. Fresh(inbox[c], Started(c), 1)
  BY <1>3, <1>7 DEF Fresh, Following, Started
<1>9. \A l \in 1 + 1 .. Len(inbox[c]) : inbox[c][l].kind \notin {"reply", "removed"}
  BY <1>7
<1>10. SignalsOK(c)
  BY <1>1 DEF ValuesInv, ProxyInv, CopiesOK
<1>11. Brings(inbox[c], Base(c)[i], i, 1, inbox[c][1].at[i])
  BY <1>3, <1>4, <1>5, <1>7, <1>8, <1>9, <1>10 DEF SignalsOK
<1>12. Base(c) = values[c]
  BY <1>6 DEF Base
<1>13. /\ i \in DOMAIN inbox[c][1].changes => inbox[c][1].changes[i] = inbox[c][1].at[i]
       /\ i \notin DOMAIN inbox[c][1].changes => values[c][i] = inbox[c][1].at[i]
  <2>1. inbox[c][1].kind = "signal" /\ 1 \in 1 .. 1 /\ \A l \in 1 + 1 .. 1 : FALSE
    BY <1>3, <1>7
  <2>2. \A l \in 1 .. 1 : l = 1
    OBVIOUS
  <2>. QED  BY <1>11, <1>12, <2>1, <2>2 DEF Brings, Carries, Carried
<1>. QED  BY <1>1, <1>3, <1>13 DEF Updated

-----------------------------------------------------------------------------
(***************************************************************************)
(* Entries come and go in turn.                                            *)
(***************************************************************************)
LEMMA EntriesExtended ==
  ASSUME NEW queue, NEW longer, Len(queue) \in Nat, Len(longer) \in Nat,
         Extends(queue, longer), NEW from, NewEntries(queue, from),
         \A k \in Len(queue) + 1 .. Len(longer) : ~IsEntry(longer[k])
  PROVE  /\ NewEntries(longer, from)
         /\ On(longer, from, Len(longer)) <=> On(queue, from, Len(queue))
<1>1. Len(queue) <= Len(longer)
  BY DEF Extends
<1>2. On(longer, from, Len(longer)) <=> On(queue, from, Len(queue))
  BY <1>1, OnQuiet, OnExtended
<1>3. ASSUME NEW k \in 1 .. Len(longer), IsEntry(longer[k])
      PROVE  longer[k].kind = "added" <=> ~On(longer, from, k - 1)
  <2>1. k \in 1 .. Len(queue) /\ k - 1 \in Nat /\ k - 1 <= Len(queue)
    BY <1>3
  <2>2. On(longer, from, k - 1) <=> On(queue, from, k - 1)
    BY <2>1, OnExtended
  <2>3. longer[k] = queue[k]
    BY <2>1 DEF Extends
  <2>. QED  BY <1>3, <2>1, <2>2, <2>3 DEF NewEntries
<1>. QED  BY <1>2, <1>3 DEF NewEntries

LEMMA EntriesAppended ==
  ASSUME NEW queue, NEW last, NEW longer, Appended(queue, last, longer), NEW from,
         NewEntries(queue, from), IsEntry(last),
         last.kind = "added" <=> ~On(queue, from, Len(queue))
  PROVE  /\ NewEntries(longer, from)
         /\ On(longer, from, Len(longer)) <=> last.kind = "added"
<1>1. /\ Len(queue) \in Nat /\ Len(longer) = Len(queue) + 1 /\ longer[Len(longer)] = last
      /\ Len(longer) \in Nat \ {0} /\ Len(longer) - 1 = Len(queue)
      /\ Extends(queue, longer)
  BY DEF Appended, Extends
<1>2. On(longer, from, Len(longer)) <=> last.kind = "added"
  BY <1>1, OnEntry
<1>3. ASSUME NEW k \in 1 .. Len(longer), IsEntry(longer[k])
      PROVE  longer[k].kind = "added" <=> ~On(longer, from, k - 1)
  <2>1. k - 1 \in Nat /\ k - 1 <= Len(queue)
    BY <1>1
  <2>2. On(longer, from, k - 1) <=> On(queue, from, k - 1)
    BY <1>1, <2>1, OnExtended
  <2>3. CASE k = Len(longer)
    BY <1>1, <2>2, <2>3
  <2>4. CASE k # Len(longer)
    <3>1. k \in 1 .. Len(queue)
      BY <1>1, <2>4
    <3>2. longer[k] = queue[k]
      BY <3>1 DEF Appended
    <3>. QED  BY <1>3, <2>2, <3>1, <3>2 DEF NewEntries
  <2>. QED  BY <2>3, <2>4
<1>. QED  BY <1>2, <1>3 DEF NewEntries

LEMMA EntriesBeheaded ==
  ASSUME NEW queue, NEW rest, Behead(queue, rest), NEW from \in BOOLEAN,
         NewEntries(queue, from)
  PROVE  /\ NewEntries(rest, After(queue[1], from))
         /\ On(rest, After(queue[1], from), Len(rest)) <=> On(queue, from, Len(queue))
<1>1. Len(rest) \in 0 .. Len(rest) /\ Len(queue) = Len(rest) + 1 /\ Len(rest) \in Nat
  BY DEF Behead
<1>2. On(rest, After(queue[1], from), Len(rest)) <=> On(queue, from, Len(queue))
  BY <1>1, OnBeheaded
<1>3. ASSUME NEW k \in 1 .. Len(rest), IsEntry(rest[k])
      PROVE  rest[k].kind = "added" <=> ~On(rest, After(queue[1], from), k - 1)
  <2>1. /\ k - 1 \in 0 .. Len(rest) /\ (k - 1) + 1 = k /\ (k + 1) - 1 = k
        /\ k + 1 \in 1 .. Len(queue)
    BY <1>1
  <2>2. rest[k] = queue[k + 1]
    BY DEF Behead
  <2>3. On(rest, After(queue[1], from), k - 1) <=> On(queue, from, k)
    BY <2>1, OnBeheaded
  <2>4. queue[k + 1].kind = "added" <=> ~On(queue, from, k)
    BY <1>3, <2>1, <2>2 DEF NewEntries
  <2>. QED  BY <2>2, <2>3, <2>4
<1>. QED  BY <1>2, <1>3 DEF NewEntries

LEMMA OnNothing ==
  ASSUME NEW queue, NEW from \in BOOLEAN
  PROVE  On(queue, from, 0) <=> from
BY DEF On

\* What does not concern c's entries.
LEMMA EntryNewSame ==
  ASSUME TypeOK, TypeOK', NEW c \in Client, EntryNew(c), announcements' = announcements,
         known'[c] = known[c], Extends(inbox[c], inbox'[c]),
         \A k \in Len(inbox[c]) + 1 .. Len(inbox'[c]) : ~IsEntry(inbox'[c][k])
  PROVE  EntryNew(c)'
<1>1. Len(inbox[c]) \in Nat /\ Len(inbox'[c]) \in Nat
  BY LenProperties DEF TypeOK
<1>2. /\ NewEntries(inbox'[c], known[c])
      /\ On(inbox'[c], known[c], Len(inbox'[c])) <=> On(inbox[c], known[c], Len(inbox[c]))
  BY <1>1, EntriesExtended DEF EntryNew
<1>. QED  BY <1>2 DEF EntryNew

LEMMA EntryNewKept ==
  ASSUME NEW c \in Client, EntryNew(c), announcements' = announcements,
         known'[c] = known[c], inbox'[c] = inbox[c]
  PROVE  EntryNew(c)'
BY DEF EntryNew

LEMMA EntryNewHears ==
  ASSUME TypeOK, TypeOK', NEW c \in Client, EntryNew(c), announcements' = announcements,
         known'[c] = known[c], HearsNothing(c) \/ HearsSignals(c)
  PROVE  EntryNew(c)'
<1>1. CASE HearsNothing(c)
  BY <1>1, EntryNewKept DEF HearsNothing
<1>2. CASE HearsSignals(c)
  <2>1. /\ Extends(inbox[c], inbox'[c])
        /\ \A k \in Len(inbox[c]) + 1 .. Len(inbox'[c]) : ~IsEntry(inbox'[c][k])
    BY <1>2 DEF HearsSignals, Informs, IsEntry
  <2>. QED  BY <2>1, EntryNewSame
<1>. QED  BY <1>1, <1>2

LEMMA EntryNewDelivers ==
  ASSUME TypeOK, NEW c \in Client, EntryNew(c), announcements' = announcements,
         NEW kind, Delivers(c, kind), known'[c] = After(inbox[c][1], known[c])
  PROVE  EntryNew(c)'
<1>1. Behead(inbox[c], inbox'[c]) /\ known[c] \in BOOLEAN
  BY DeliversMessage DEF TypeOK
<1>2. /\ NewEntries(inbox'[c], known'[c])
      /\ On(inbox'[c], known'[c], Len(inbox'[c])) <=> On(inbox[c], known[c], Len(inbox[c]))
  BY <1>1, EntriesBeheaded DEF EntryNew
<1>. QED  BY <1>2 DEF EntryNew

\* A replica loses an entry it has.
LEMMA RemovedWasKnown ==
  ASSUME TypeOK, NEW c \in Client, EntryNew(c), Delivers(c, "removed")
  PROVE  known[c]
<1>1. inbox[c][1].kind = "removed" /\ 1 \in 1 .. Len(inbox[c]) /\ 1 - 1 = 0
  BY DeliversMessage
<1>2. ~(inbox[c][1].kind = "added") => On(inbox[c], known[c], 0)
  BY <1>1 DEF EntryNew, NewEntries, IsEntry
<1>. QED  BY <1>1, <1>2, OnNothing DEF TypeOK

\* An adapter is exported or withdrawn: the registry's news ends with the
\* contrary, or there is none and the replicas' queues do.
LEMMA NewsAnnounced ==
  ASSUME AvailabilityInv, NewsInv, NEW kind \in {"added", "removed"},
         announcements' = Append(announcements, kind), registered <=> kind = "removed",
         UNCHANGED <<inbox, known>>
  PROVE  NewsInv'
<1>. USE DEF AvailabilityInv
<1>1. announcements \in Seq({"added", "removed"})
  BY DEF TypeOK
<1>2. Appended(announcements, kind, announcements')
  BY <1>1, Appends
<1>3. \A k \in 1 .. Len(announcements) : announcements[k] \in {"added", "removed"}
  BY <1>1, ElementOfSeq
<1>4. EntriesAlternate'
  <2>1. ASSUME NEW k \in 1 .. Len(announcements') - 1
        PROVE  announcements'[k] # announcements'[k + 1]
    <3>1. k \in 1 .. Len(announcements) /\ announcements'[k] = announcements[k]
          /\ Len(announcements) \in Nat
      BY <1>2 DEF Appended
    <3>2. CASE k = Len(announcements)
      <4>1. announcements'[k + 1] = kind
        BY <1>2, <3>2 DEF Appended
      <4>2. announcements # <<>>
        BY <3>1, EmptySeq
      <4>3. registered <=> announcements[k] = "added"
        BY <3>2, <4>2 DEF EntriesEnd
      <4>. QED  BY <3>1, <4>1, <4>3
    <3>3. CASE k # Len(announcements)
      <4>1. k + 1 \in 1 .. Len(announcements) /\ k \in 1 .. Len(announcements) - 1
        BY <3>1, <3>3
      <4>2. announcements'[k + 1] = announcements[k + 1]
        BY <1>2, <4>1 DEF Appended
      <4>. QED  BY <3>1, <4>1, <4>2 DEF NewsInv, EntriesAlternate
    <3>. QED  BY <3>2, <3>3
  <2>. QED  BY <2>1 DEF EntriesAlternate
<1>5. ASSUME NEW c \in Client
      PROVE  EntryNew(c)'
  <2>1. EntryNew(c) /\ ClientInv(c)
    BY DEF NewsInv
  <2>2. announcements'[1] = "added" <=> ~On(inbox[c], known[c], Len(inbox[c]))
    <3>1. CASE announcements = <<>>
      <4>1. announcements'[1] = kind
        BY <1>2, <3>1, EmptySeq DEF Appended
      <4>2. registered <=> On(inbox[c], known[c], Len(inbox[c]))
        BY <2>1, <3>1 DEF ClientInv, EntryKnown
      <4>. QED  BY <4>1, <4>2
    <3>2. CASE announcements # <<>>
      <4>1. 1 \in 1 .. Len(announcements)
        BY <1>1, <3>2, LenProperties, EmptySeq
      <4>2. announcements'[1] = announcements[1]
        BY <1>2, <4>1 DEF Appended
      <4>. QED  BY <2>1, <3>2, <4>2 DEF EntryNew
    <3>. QED  BY <3>1, <3>2
  <2>. QED  BY <2>1, <2>2 DEF EntryNew
<1>. QED  BY <1>4, <1>5 DEF NewsInv

LEMMA NewsPublished ==
  ASSUME AvailabilityInv, NewsInv, PublishEntry
  PROVE  NewsInv'
<1>. USE DEF AvailabilityInv
<1>1. announcements \in Seq({"added", "removed"}) /\ announcements # <<>>
      /\ announcements' = Tail(announcements)
  BY DEF TypeOK, PublishEntry
<1>2. Behead(announcements, announcements') /\ Head(announcements) = announcements[1]
  BY <1>1, Beheaded
<1>3. \A k \in 1 .. Len(announcements) : announcements[k] \in {"added", "removed"}
  BY <1>1, ElementOfSeq
<1>4. announcements' \in Seq({"added", "removed"})
  BY <1>1, HeadTailProperties
<1>5. EntriesAlternate'
  <2>1. ASSUME NEW k \in 1 .. Len(announcements') - 1
        PROVE  announcements'[k] # announcements'[k + 1]
    <3>1. /\ k \in 1 .. Len(announcements') /\ k + 1 \in 1 .. Len(announcements')
          /\ k + 1 \in 1 .. Len(announcements) - 1
      BY <1>2 DEF Behead
    <3>2. /\ announcements'[k] = announcements[k + 1]
          /\ announcements'[k + 1] = announcements[(k + 1) + 1]
      BY <1>2, <3>1 DEF Behead
    <3>. QED  BY <3>1, <3>2 DEF NewsInv, EntriesAlternate
  <2>. QED  BY <2>1 DEF EntriesAlternate
<1>6. announcements' # <<>> => announcements'[1] # announcements[1]
  <2>1. SUFFICES ASSUME announcements' # <<>>
                 PROVE  announcements'[1] # announcements[1]
    OBVIOUS
  <2>2. 1 \in 1 .. Len(announcements')
    BY <1>4, <2>1, LenProperties, EmptySeq
  <2>3. 1 \in 1 .. Len(announcements) - 1 /\ announcements'[1] = announcements[1 + 1]
    BY <1>2, <2>2 DEF Behead
  <2>. QED  BY <2>3 DEF NewsInv, EntriesAlternate
<1>7. ASSUME NEW c \in Client
      PROVE  EntryNew(c)'
  <2>. DEFINE entry == [kind |-> Head(announcements)]
  <2>1. 1 \in 1 .. Len(announcements)
    BY <1>1, LenProperties, EmptySeq
  <2>2. announcements[1] \in {"added", "removed"}
    BY <1>3, <2>1
  <2>3. entry \in Message /\ entry.kind = announcements[1] /\ IsEntry(entry)
    BY <1>2, <2>2, EntryType DEF IsEntry
  <2>4. inbox[c] \in Seq(Message) /\ inbox'[c] = Append(inbox[c], entry) /\ known'[c] = known[c]
    BY DEF TypeOK, PublishEntry, proxyVars
  <2>. HIDE DEF entry
  <2>5. Appended(inbox[c], entry, inbox'[c])
    BY <2>3, <2>4, Appends
  <2>6. EntryNew(c)
    BY DEF NewsInv
  <2>7. entry.kind = "added" <=> ~On(inbox[c], known[c], Len(inbox[c]))
    BY <1>1, <2>3, <2>6 DEF EntryNew
  <2>8. /\ NewEntries(inbox'[c], known[c])
        /\ On(inbox'[c], known[c], Len(inbox'[c])) <=> entry.kind = "added"
    BY <2>3, <2>5, <2>6, <2>7, EntriesAppended DEF EntryNew
  <2>9. announcements' # <<>> => (announcements'[1] = "added" <=> announcements[1] # "added")
    <3>1. SUFFICES ASSUME announcements' # <<>>
                   PROVE  announcements'[1] = "added" <=> announcements[1] # "added"
      OBVIOUS
    <3>2. 1 \in 1 .. Len(announcements')
      BY <1>4, <3>1, LenProperties, EmptySeq
    <3>3. announcements'[1] \in {"added", "removed"}
      BY <1>4, <3>2, ElementOfSeq
    <3>. QED  BY <1>6, <2>2, <3>1, <3>3
  <2>. QED  BY <2>3, <2>4, <2>8, <2>9 DEF EntryNew
<1>. QED  BY <1>5, <1>7 DEF NewsInv

LEMMA NewsStep ==
  ASSUME AvailabilityInv, TypeOK', NewsInv, [Next]_vars
  PROVE  NewsInv'
<1>. USE DEF AvailabilityInv
<1>1. ASSUME announcements' = announcements, NEW c \in Client,
             \A d \in Client \ {c} : known'[d] = known[d] /\ inbox'[d] = inbox[d],
             EntryNew(c)'
      PROVE  NewsInv'
  BY <1>1, EntryNewKept DEF NewsInv, EntriesAlternate
<1>2. ASSUME announcements' = announcements, known' = known,
             \A c \in Client : HearsNothing(c) \/ HearsSignals(c)
      PROVE  NewsInv'
  BY <1>2, EntryNewHears DEF NewsInv, EntriesAlternate
<1>3. ASSUME announcements' = announcements, known' = known, inbox' = inbox
      PROVE  NewsInv'
  BY <1>3, EntryNewKept DEF NewsInv, EntriesAlternate
<1>4. ASSUME NEW i \in Item, NEW v \in Value, ChangeValue(i, v)
      PROVE  NewsInv'
  <2>1. PICK effect \in Effects(i, v) : Change(effect)
    BY <1>4 DEF ChangeValue
  <2>2. \A c \in Client : HearsNothing(c) \/ HearsSignals(c)
    BY <2>1, ChangeIsHeard
  <2>. QED  BY <1>2, <1>4, <2>2 DEF ChangeValue, proxyVars
<1>5. CASE RegisterService
  BY <1>5, NewsAnnounced DEF RegisterService, proxyVars
<1>6. CASE UnregisterService
  BY <1>6, NewsAnnounced DEF UnregisterService, proxyVars
<1>7. CASE PublishEntry
  BY <1>7, NewsPublished
<1>8. ASSUME NEW c \in Client, ProxyStep(c)
      PROVE  NewsInv'
  BY <1>3, <1>8 DEF ProxyStep, ConnectToServer, SendSetterCall, proxyVars
<1>9. ASSUME NEW c \in Client, HandleGetProperties(c)
      PROVE  NewsInv'
  <2>. DEFINE reply == [kind |-> "reply", values |-> service]
  <2>1. reply \in Message /\ ~IsEntry(reply)
    BY ReplyType DEF TypeOK, IsEntry
  <2>2. /\ inbox[c] \in Seq(Message)
        /\ inbox'[c] = Append(inbox[c], reply) \/ inbox'[c] = inbox[c]
        /\ \A d \in Client \ {c} : inbox'[d] = inbox[d]
    BY <1>9 DEF HandleGetProperties, Answers, TypeOK
  <2>3. known' = known /\ announcements' = announcements
    BY <1>9 DEF HandleGetProperties, proxyVars
  <2>. HIDE DEF reply
  <2>4. CASE inbox'[c] = inbox[c]
    BY <1>1, <2>2, <2>3, <2>4, EntryNewKept DEF NewsInv
  <2>5. CASE inbox'[c] = Append(inbox[c], reply)
    <3>1. Appended(inbox[c], reply, inbox'[c])
      BY <2>1, <2>2, <2>5, Appends
    <3>2. /\ Extends(inbox[c], inbox'[c])
          /\ \A k \in Len(inbox[c]) + 1 .. Len(inbox'[c]) : inbox'[c][k] = reply
      BY <3>1 DEF Appended, Extends
    <3>3. EntryNew(c)'
      BY <2>1, <2>3, <3>2, EntryNewSame DEF NewsInv
    <3>. QED  BY <1>1, <2>2, <2>3, <3>3
  <2>. QED  BY <2>2, <2>4, <2>5
<1>10. ASSUME NEW c \in Client, HandleSetter(c)
       PROVE  NewsInv'
  <2>1. Head(calls[c]) \in Call /\ Head(calls[c]).member = "set"
    BY <1>10, ReceivesType DEF HandleSetter, Receives
  <2>2. Head(calls[c]).item \in Item /\ Head(calls[c]).value \in Value
    BY <2>1, ConstantsAssumption DEF Call, Item
  <2>3. PICK effect \in Effects(Head(calls[c]).item, Head(calls[c]).value) : Change(effect)
    BY <1>10 DEF HandleSetter
  <2>4. \A d \in Client : HearsNothing(d) \/ HearsSignals(d)
    BY <2>2, <2>3, ChangeIsHeard
  <2>. QED  BY <1>2, <1>10, <2>4 DEF HandleSetter, proxyVars
<1>11. ASSUME NEW c \in Client, RefuseCall(c)
       PROVE  NewsInv'
  BY <1>3, <1>11 DEF RefuseCall, proxyVars
<1>12. ASSUME NEW c \in Client, CallReturns(c)
       PROVE  NewsInv'
  BY <1>3, <1>12 DEF CallReturns
<1>13. ASSUME NEW c \in Client, NEW kind, Delivers(c, kind), announcements' = announcements,
              known'[c] = After(inbox[c][1], known[c]),
              \A d \in Client \ {c} : known'[d] = known[d]
       PROVE  NewsInv'
  <2>1. EntryNew(c)'
    BY <1>13, EntryNewDelivers DEF NewsInv
  <2>. QED  BY <1>1, <1>13, <2>1, DeliversMessage
<1>14. ASSUME NEW c \in Client, OnReply(c) \/ OnSignalTriggered(c)
       PROVE  NewsInv'
  <2>1. PICK kind \in {"reply", "signal"} : Delivers(c, kind)
    BY <1>14 DEF OnReply, OnSignalTriggered
  <2>2. ~IsEntry(inbox[c][1])
    BY <2>1, DeliversMessage DEF IsEntry
  <2>3. known' = known /\ announcements' = announcements
    BY <1>14 DEF OnReply, OnSignalTriggered
  <2>. QED  BY <1>13, <2>1, <2>2, <2>3 DEF After
<1>15. ASSUME NEW c \in Client, NEW kind \in {"added", "removed"}, OnRegistryChanged(c, kind)
       PROVE  NewsInv'
  <2>1. /\ Delivers(c, kind) /\ announcements' = announcements
        /\ known'[c] = (kind = "added")
        /\ \A d \in Client \ {c} : known'[d] = known[d]
    BY <1>15 DEF OnRegistryChanged, TypeOK
  <2>2. inbox[c][1].kind = kind
    BY <2>1, DeliversMessage
  <2>3. known'[c] = After(inbox[c][1], known[c])
    BY <2>1, <2>2 DEF After, IsEntry
  <2>. QED  BY <1>13, <2>1, <2>3
<1>16. CASE UNCHANGED vars
  BY <1>3, <1>16 DEF vars, busVars, proxyVars
<1>. QED
  BY <1>4, <1>5, <1>6, <1>7, <1>8, <1>9, <1>10, <1>11, <1>12, <1>14, <1>15, <1>16
  DEF Next, ServiceStep, HandleStep, DeliverStep

-----------------------------------------------------------------------------
(***************************************************************************)
(* Only an exported service is followed.                                   *)
(***************************************************************************)
\* When every entry is withdrawn again, so is every snapshot.
LEMMA RepliesWithdrawn ==
  ASSUME NEW queue, NEW from, Len(queue) \in Nat,
         RepliesFollowed(queue, from, FALSE), EntriesWithdrawn(queue, FALSE),
         from => Queued(queue, "removed"),
         NEW j \in 1 .. Len(queue), queue[j].kind = "reply"
  PROVE  \E l \in j + 1 .. Len(queue) : queue[l].kind = "removed"
<1>1. ASSUME NEW h \in j + 1 .. Len(queue), queue[h].kind = "added"
      PROVE  \E l \in j + 1 .. Len(queue) : queue[l].kind = "removed"
  <2>1. h \in 1 .. Len(queue)
    OBVIOUS
  <2>2. PICK l \in h + 1 .. Len(queue) : queue[l].kind = "removed"
    BY <1>1, <2>1 DEF EntriesWithdrawn
  <2>3. l \in j + 1 .. Len(queue)
    OBVIOUS
  <2>. QED  BY <2>2, <2>3
<1>2. ASSUME NEW n \in 0 .. j, \A l \in n + 1 .. j : ~IsEntry(queue[l]),
             NEW h \in n + 1 .. Len(queue), queue[h].kind = "removed"
      PROVE  \E l \in j + 1 .. Len(queue) : queue[l].kind = "removed"
  <2>1. h \notin n + 1 .. j
    BY <1>2 DEF IsEntry
  <2>2. h \in j + 1 .. Len(queue)
    BY <2>1
  <2>. QED  BY <1>2, <2>2
<1>3. CASE On(queue, from, j)
  <2>1. ASSUME NEW n \in 1 .. j, queue[n].kind = "added", \A l \in n + 1 .. j : ~IsEntry(queue[l])
        PROVE  \E l \in j + 1 .. Len(queue) : queue[l].kind = "removed"
    <3>1. n \in 1 .. Len(queue) /\ n \in 0 .. j
      OBVIOUS
    <3>2. PICK h \in n + 1 .. Len(queue) : queue[h].kind = "removed"
      BY <2>1, <3>1 DEF EntriesWithdrawn
    <3>. QED  BY <1>2, <2>1, <3>1, <3>2
  <2>2. ASSUME from, \A l \in 1 .. j : ~IsEntry(queue[l])
        PROVE  \E l \in j + 1 .. Len(queue) : queue[l].kind = "removed"
    <3>1. PICK h \in 1 .. Len(queue) : queue[h].kind = "removed"
      BY <2>2 DEF Queued
    <3>2. h \notin 1 .. j
      BY <2>2, <3>1 DEF IsEntry
    <3>3. h \in j + 1 .. Len(queue)
      BY <3>2
    <3>. QED  BY <3>1, <3>3
  <2>. QED  BY <1>3, <2>1, <2>2 DEF On
<1>. QED  BY <1>1, <1>3 DEF RepliesFollowed

LEMMA FreshRegistered ==
  ASSUME AvailabilityInv, NEW c \in Client, ~Announced("removed"),
         Fresh(inbox[c], Started(c), Len(inbox[c]))
  PROVE  registered
<1>. SUFFICES ASSUME ~registered
              PROVE  FALSE
  BY DEF AvailabilityInv, TypeOK
<1>1. ClientInv(c) /\ inbox[c] \in Seq(Message) /\ Len(inbox[c]) \in Nat
  BY LenProperties DEF AvailabilityInv, TypeOK
<1>2. announcements = <<>> /\ Len(announcements) = 0
  <2>1. announcements \in Seq({"added", "removed"})
    BY DEF AvailabilityInv, TypeOK
  <2>2. ASSUME announcements # <<>>
        PROVE  FALSE
    <3>1. Len(announcements) \in 1 .. Len(announcements)
      BY <2>1, <2>2, LenProperties, EmptySeq
    <3>2. announcements[Len(announcements)] \in {"added", "removed"}
      BY <2>1, <3>1, ElementOfSeq
    <3>3. announcements[Len(announcements)] # "added"
      BY <2>2 DEF AvailabilityInv, EntriesEnd
    <3>. QED  BY <3>1, <3>2, <3>3 DEF Announced
  <2>. QED  BY <2>2, EmptySeq
<1>3. Announced("removed") = FALSE /\ Announced("added") = FALSE
  BY <1>2 DEF Announced
<1>4. /\ RepliesFollowed(inbox[c], known[c], FALSE)
      /\ EntriesWithdrawn(inbox[c], FALSE)
      /\ known[c] => Queued(inbox[c], "removed")
  <2>1. RepliesFollowed(inbox[c], known[c], Announced("added"))
    BY <1>1 DEF ClientInv, RepliesOK
  <2>2. EntriesWithdrawn(inbox[c], Announced("removed"))
    BY <1>1 DEF ClientInv, Withdrawn
  <2>3. known[c] => Coming(c, "removed")
    BY <1>1 DEF ClientInv, Withdrawn
  <2>. QED  BY <1>3, <2>1, <2>2, <2>3 DEF Coming
<1>5. CASE \E j \in 1 .. Len(inbox[c]) :
             inbox[c][j].kind = "reply" /\ \A l \in j + 1 .. Len(inbox[c]) : inbox[c][l].kind # "removed"
  BY <1>1, <1>4, <1>5, RepliesWithdrawn
<1>6. CASE Started(c) /\ \A l \in 1 .. Len(inbox[c]) : inbox[c][l].kind # "removed"
  <2>1. ~Queued(inbox[c], "removed")
    BY <1>6 DEF Queued
  <2>2. ~bound[c]
    BY <1>1, <1>4, <2>1 DEF ClientInv, BoundOK
  <2>3. syncReply[c] = <<>> /\ Len(syncReply[c]) = 0
    BY <1>1, <2>2, EmptySeq DEF ClientInv, CallsOK
  <2>4. available[c]
    BY <1>6, <2>3 DEF Started, Fetched, Queued
  <2>5. Queued(inbox[c], "added")
    BY <1>1, <1>3, <2>2, <2>4 DEF ClientInv, AvailableOK, Coming
  <2>6. PICK k \in 1 .. Len(inbox[c]) : inbox[c][k].kind = "added"
    BY <2>5 DEF Queued
  <2>7. PICK l \in k + 1 .. Len(inbox[c]) : inbox[c][l].kind = "removed"
    BY <1>4, <2>6 DEF EntriesWithdrawn
  <2>8. l \in 1 .. Len(inbox[c])
    BY <1>1
  <2>. QED  BY <2>1, <2>7, <2>8 DEF Queued
<1>. QED  BY <1>5, <1>6 DEF Fresh

-----------------------------------------------------------------------------
(***************************************************************************)
(* Signals that reach a queue.                                             *)
(***************************************************************************)
\* The first of the new signals brings what differs from what was sent; the
\* rest of the values must have been on the way.
LEMMA InformedBrings ==
  ASSUME NEW queue, NEW longer, Len(queue) \in Nat, Len(longer) \in Nat,
         NEW old, NEW sent, NEW state, Informs(queue, longer, old, sent, state),
         NEW base, NEW i \in Item,
         state[i] = sent[i] => Brings(queue, base, i, Len(queue), state[i]),
         NEW k \in Len(queue) + 1 .. Len(longer)
  PROVE  Brings(longer, base, i, k, state[i])
<1>. DEFINE first == Len(queue) + 1
<1>1. /\ first \in 1 .. Len(longer) /\ first \in Len(queue) + 1 .. Len(longer)
      /\ first \in Nat \ {0} /\ k \in Nat /\ first <= k
      /\ Len(queue) <= Len(longer) /\ Len(queue) + 1 = first /\ Len(queue) <= first
      /\ Extends(queue, longer)
  BY DEF Informs, Extends
<1>2. \A l \in Len(queue) + 1 .. Len(longer) :
        /\ longer[l].kind = "signal"
        /\ i \in DOMAIN longer[l].changes <=> l = first /\ state[i] # sent[i]
        /\ \A h \in DOMAIN longer[l].changes : longer[l].changes[h] = state[h]
  BY DEF Informs
<1>3. CASE state[i] # sent[i]
  <2>1. Carries(longer[first], i) /\ Carried(longer[first], i) = state[i]
    BY <1>1, <1>2, <1>3 DEF Carries, Carried
  <2>2. Brings(longer, base, i, first, state[i])
    BY <1>1, <2>1, BringsLast
  <2>3. \A l \in first + 1 .. k : l \in Len(queue) + 1 .. Len(longer) /\ l # first
    BY <1>1
  <2>4. \A l \in first + 1 .. k : ~Carries(longer[l], i)
    BY <1>2, <2>3 DEF Carries
  <2>. HIDE DEF first
  <2>. QED  BY <1>1, <2>2, <2>4, BringsQuiet
<1>4. CASE state[i] = sent[i]
  <2>1. Brings(longer, base, i, Len(queue), state[i])
    BY <1>1, <1>4, BringsExtended
  <2>2. \A l \in Len(queue) + 1 .. k : l \in Len(queue) + 1 .. Len(longer)
    OBVIOUS
  <2>3. \A l \in Len(queue) + 1 .. k : ~Carries(longer[l], i)
    BY <1>2, <1>4, <2>2 DEF Carries
  <2>4. Len(queue) <= k
    BY <1>1
  <2>. QED  BY <1>1, <2>1, <2>3, <2>4, BringsQuiet
<1>. QED  BY <1>3, <1>4

LEMMA InformedFresh ==
  ASSUME NEW queue, NEW longer, Len(queue) \in Nat, Len(longer) \in Nat,
         NEW old, NEW sent, NEW state, Informs(queue, longer, old, sent, state),
         NEW from, NEW k \in Len(queue) .. Len(longer), Fresh(longer, from, k)
  PROVE  Fresh(queue, from, Len(queue))
<1>1. \A l \in Len(queue) + 1 .. k : l \in Len(queue) + 1 .. Len(longer)
  OBVIOUS
<1>2. \A l \in Len(queue) + 1 .. k : longer[l].kind # "removed" /\ longer[l].kind # "reply"
  BY <1>1 DEF Informs
<1>3. Extends(queue, longer) /\ Len(queue) <= k /\ k \in Nat /\ Len(queue) <= Len(queue)
  BY DEF Informs
<1>4. Fresh(longer, from, Len(queue))
  BY <1>2, <1>3, FreshQuiet
<1>. QED  BY <1>3, <1>4, FreshExtended

LEMMA NothingCarried ==
  ASSUME NEW queue, NEW i, ~Queued(queue, "signal"), ~Queued(queue, "reply")
  PROVE  \A l \in 1 .. Len(queue) : ~Carries(queue[l], i)
BY DEF Queued, Carries

-----------------------------------------------------------------------------
(***************************************************************************)
(* What a step leaves of a client's part.                                  *)
(***************************************************************************)
\* The service's signals reach c, or nothing does.
LEMMA CopiesHear ==
  ASSUME TypeOK, TypeOK', AdapterOK, NEW c \in Client, ClientInv(c), CopiesOK(c),
         HearsNothing(c) \/ HearsSignals(c),
         signalsConnected => signalsConnected' \/ Announced("removed")',
         bound'[c] = bound[c], (c \in overtaken' <=> c \in overtaken),
         Asking(c) => Asking(c)', Announced("removed") => Announced("removed")',
         Started(c)' = Started(c), Base(c)' = Base(c)
  PROVE  CopiesOK(c)'
<1>. DEFINE queue == inbox[c]
            longer == inbox'[c]
<1>1. Len(queue) \in Nat /\ Len(longer) \in Nat
  BY LenProperties DEF TypeOK
<1>2. CASE HearsNothing(c)
  <2>1. inbox'[c] = inbox[c] /\ (signalsConnected /\ bound[c] => service' = service /\ previous' = previous)
    BY <1>2 DEF HearsNothing
  <2>2. Coming(c, "removed") => Coming(c, "removed")'
    BY <2>1 DEF Coming
  <2>4. SentOK(c)'
    <3>1. SUFFICES ASSUME c \notin Async, c \notin overtaken', bound'[c], ~Coming(c, "removed")',
                          Queued(inbox'[c], "signal")
                   PROVE  /\ signalsConnected' /\ previous' = service'
                          /\ \A i \in Item : Brings(inbox'[c], service'[i], i, Len(inbox'[c]), service'[i])
      BY DEF SentOK
    <3>2. /\ signalsConnected /\ previous = service /\ bound[c]
          /\ \A i \in Item : Brings(inbox[c], service[i], i, Len(inbox[c]), service[i])
      BY <2>1, <2>2, <3>1 DEF CopiesOK, SentOK
    <3>3. signalsConnected'
      BY <3>1, <3>2 DEF Coming
    <3>. QED  BY <2>1, <3>2, <3>3
  <2>5. ValuesOK(c)'
    <3>1. SUFFICES ASSUME Linked(c)'
                   PROVE  /\ signalsConnected'
                          /\ \A i \in Item : i \in Plain \/ service'[i] # Default =>
                               Brings(inbox'[c], Base(c)[i]', i, Len(inbox'[c]), service'[i])
      BY DEF ValuesOK
    <3>2. Linked(c) /\ bound[c] /\ ~Announced("removed")'
      BY <2>1, <3>1 DEF Linked, InOrder
    <3>3. /\ signalsConnected
          /\ \A i \in Item : i \in Plain \/ service[i] # Default =>
               Brings(inbox[c], Base(c)[i], i, Len(inbox[c]), service[i])
      BY <3>2 DEF CopiesOK, ValuesOK
    <3>. QED  BY <2>1, <3>2, <3>3
  <2>6. SignalsOK(c)'
    BY <2>1 DEF CopiesOK, SignalsOK
  <2>. QED  BY <2>4, <2>5, <2>6 DEF CopiesOK
<1>3. CASE HearsSignals(c)
  <2>1. /\ signalsConnected /\ bound[c] /\ previous' = service'
        /\ Informs(queue, longer, service, previous, service')
        /\ Extends(queue, longer) /\ Len(queue) < Len(longer)
    BY <1>3 DEF HearsSignals, Informs
  <2>3. \A kind \in {"added", "removed", "reply"} : Queued(longer, kind) <=> Queued(queue, kind)
    BY <1>3, QueueHears
  <2>4. SentOK(c)'
    <3>1. SUFFICES ASSUME c \notin Async, c \notin overtaken', bound'[c], ~Coming(c, "removed")'
                   PROVE  /\ signalsConnected' /\ previous' = service'
                          /\ \A i \in Item : Brings(longer, service'[i], i, Len(longer), service'[i])
      BY DEF SentOK
    <3>2. signalsConnected' /\ ~Coming(c, "removed")
      BY <2>1, <2>3, <3>1 DEF Coming
    <3>3. ASSUME NEW i \in Item
          PROVE  Brings(longer, service'[i], i, Len(longer), service'[i])
      <4>1. ASSUME service'[i] = previous[i]
            PROVE  Brings(queue, service'[i], i, Len(queue), service'[i])
        <5>1. CASE Queued(queue, "signal")
          <6>1. /\ previous = service
                /\ Brings(queue, service[i], i, Len(queue), service[i])
            BY <2>1, <3>1, <3>2, <5>1 DEF CopiesOK, SentOK
          <6>. QED  BY <4>1, <6>1
        <5>2. CASE ~Queued(queue, "signal")
          <6>1. ~Queued(queue, "reply")
            BY <3>1 DEF ClientInv, CallsOK
          <6>. HIDE DEF queue
          <6>2. \A l \in 1 .. Len(queue) : ~Carries(queue[l], i)
            BY <5>2, <6>1, NothingCarried
          <6>. QED  BY <1>1, <6>2, BringsNothing
        <5>. QED  BY <5>1, <5>2
      <4>2. Len(longer) \in Len(queue) + 1 .. Len(longer)
        BY <1>1, <2>1
      <4>. HIDE DEF queue, longer
      <4>. QED  BY <1>1, <2>1, <4>1, <4>2, InformedBrings
    <3>. QED  BY <2>1, <3>2, <3>3
  <2>5. ASSUME NEW k \in Len(queue) + 1 .. Len(longer), Fresh(longer, Started(c), k),
               InOrder(c), ~Asking(c), ~Announced("removed"),
               NEW i \in Item, i \in Plain \/ service'[i] # Default
        PROVE  Brings(longer, Base(c)[i], i, k, service'[i])
    <3>1. k \in Len(queue) .. Len(longer)
      BY <1>1
    <3>2. Fresh(queue, Started(c), Len(queue))
      <4>. HIDE DEF queue, longer
      <4>. QED  BY <1>1, <2>1, <2>5, <3>1, InformedFresh
    <3>3. Linked(c)
      BY <2>1, <2>5, <3>2 DEF Linked
    <3>4. i \in Plain \/ service[i] # Default => Brings(queue, Base(c)[i], i, Len(queue), service[i])
      BY <3>3 DEF CopiesOK, ValuesOK
    <3>5. service'[i] = previous[i] => service[i] = service'[i]
      BY <2>1, <2>5 DEF AdapterOK, Item
    <3>6. service'[i] = previous[i] => Brings(queue, Base(c)[i], i, Len(queue), service'[i])
      BY <2>5, <3>4, <3>5
    <3>. HIDE DEF queue, longer
    <3>. QED  BY <1>1, <2>1, <3>6, InformedBrings
  <2>6. ValuesOK(c)'
    <3>1. SUFFICES ASSUME Linked(c)'
                   PROVE  /\ signalsConnected'
                          /\ \A i \in Item : i \in Plain \/ service'[i] # Default =>
                               Brings(longer, Base(c)[i], i, Len(longer), service'[i])
      BY DEF ValuesOK
    <3>2. /\ InOrder(c) /\ ~Asking(c) /\ ~Announced("removed") /\ ~Announced("removed")'
          /\ Fresh(longer, Started(c), Len(longer))
      BY <3>1 DEF Linked, InOrder
    <3>3. Len(longer) \in Len(queue) + 1 .. Len(longer)
      BY <1>1, <2>1
    <3>. QED  BY <2>1, <2>5, <3>2, <3>3
  <2>7. SignalsOK(c)'
    <3>1. SUFFICES ASSUME c \in Async, ~Asking(c), ~Announced("removed"),
                          NEW k \in 1 .. Len(longer), longer[k].kind = "signal",
                          Fresh(longer, Started(c), k),
                          \A l \in k + 1 .. Len(longer) : longer[l].kind \notin {"reply", "removed"},
                          NEW i \in Plain
                   PROVE  Brings(longer, Base(c)[i], i, k, longer[k].at[i])
      BY DEF SignalsOK
    <3>2. i \in Item
      BY DEF Item
    <3>3. CASE k <= Len(queue)
      <4>1. k \in 1 .. Len(queue) /\ k \in Nat
        BY <3>3
      <4>2. longer[k] = queue[k] /\ \A l \in k + 1 .. Len(queue) : longer[l] = queue[l]
        BY <2>1, <4>1 DEF Extends
      <4>3. \A l \in k + 1 .. Len(queue) : queue[l].kind \notin {"reply", "removed"}
        BY <1>1, <2>1, <3>1, <4>2
      <4>4. Fresh(queue, Started(c), k)
        <5>. HIDE DEF queue, longer
        <5>. QED  BY <1>1, <2>1, <3>1, <3>3, <4>1, FreshExtended
      <4>5. Brings(queue, Base(c)[i], i, k, queue[k].at[i])
        BY <3>1, <4>1, <4>2, <4>3, <4>4 DEF CopiesOK, SignalsOK
      <4>. HIDE DEF queue, longer
      <4>. QED  BY <1>1, <2>1, <3>3, <4>1, <4>2, <4>5, BringsExtended
    <3>4. CASE k > Len(queue)
      <4>1. k \in Len(queue) + 1 .. Len(longer)
        BY <1>1, <3>4
      <4>2. longer[k].at = service'
        BY <2>1, <4>1 DEF Informs
      <4>. QED  BY <2>5, <3>1, <3>2, <4>1, <4>2 DEF InOrder, TypeOK
    <3>. QED  BY <1>1, <3>3, <3>4
  <2>. QED  BY <2>4, <2>6, <2>7 DEF CopiesOK
<1>. QED  BY <1>2, <1>3

\* The step is another client's.
LEMMA CopiesOther ==
  ASSUME TypeOK, TypeOK', AdapterOK, NEW c \in Client, ClientInv(c), CopiesOK(c),
         inbox'[c] = inbox[c], bound'[c] = bound[c], (c \in overtaken' <=> c \in overtaken),
         calls'[c] = calls[c], syncReply'[c] = syncReply[c], values'[c] = values[c],
         available'[c] = available[c], announcements' = announcements, service' = service,
         signalsConnected => signalsConnected' /\ previous' = previous
  PROVE  CopiesOK(c)'
<1>1. HearsNothing(c)
  BY DEF HearsNothing
<1>2. /\ Asking(c)' = Asking(c)
      /\ Announced("removed")' = Announced("removed")
      /\ Started(c)' = Started(c) /\ Base(c)' = Base(c)
  BY DEF Asking, Announced, Started, Fetched, Base
<1>. QED  BY <1>1, <1>2, CopiesHear

\* c has just asked for a snapshot.
LEMMA CopiesAsked ==
  ASSUME NEW c \in Client, bound'[c], Asking(c)',
         c \notin Async /\ Queued(inbox'[c], "signal") => c \in overtaken'
  PROVE  CopiesOK(c)'
<1>1. ValuesOK(c)' /\ SignalsOK(c)'
  BY DEF ValuesOK, Linked, SignalsOK
<1>2. SentOK(c)'
  BY DEF SentOK
<1>. QED  BY <1>1, <1>2 DEF CopiesOK

-----------------------------------------------------------------------------
(***************************************************************************)
(* The steps of the service, its adapter and the registry.                 *)
(***************************************************************************)
LEMMA ChangeValueCopies ==
  ASSUME AvailabilityInv, TypeOK', NEW c \in Client, CopiesOK(c),
         NEW i \in Item, NEW v \in Value, ChangeValue(i, v)
  PROVE  CopiesOK(c)'
<1>1. PICK effect \in Effects(i, v) : Change(effect)
  BY DEF ChangeValue
<1>2. (HearsNothing(c) \/ HearsSignals(c)) /\ signalsConnected' = signalsConnected
  BY <1>1, ChangeIsHeard DEF AvailabilityInv
<1>3. /\ Asking(c)' = Asking(c)
      /\ Announced("removed")' = Announced("removed")
      /\ Started(c)' = Started(c) /\ Base(c)' = Base(c)
      /\ bound'[c] = bound[c] /\ (c \in overtaken' <=> c \in overtaken)
  BY DEF ChangeValue, proxyVars, Asking, Announced, Started, Fetched, Base
<1>. QED  BY <1>2, <1>3, CopiesHear DEF AvailabilityInv

LEMMA AnnounceCopies ==
  ASSUME AvailabilityInv, TypeOK', NEW c \in Client, CopiesOK(c),
         RegisterService \/ UnregisterService
  PROVE  CopiesOK(c)'
<1>. USE DEF AvailabilityInv
<1>1. PICK kind \in {"added", "removed"} : announcements' = Append(announcements, kind)
                                           /\ (kind = "removed" <=> UnregisterService)
  BY DEF RegisterService, UnregisterService
<1>2. Announced("removed")' <=> Announced("removed") \/ "removed" = kind
  BY <1>1, AnnouncedAppended
<1>3. /\ Asking(c)' = Asking(c) /\ Started(c)' = Started(c) /\ Base(c)' = Base(c)
      /\ bound'[c] = bound[c] /\ (c \in overtaken' <=> c \in overtaken)
  BY DEF RegisterService, UnregisterService, proxyVars, Asking, Started, Fetched, Base
<1>4. HearsNothing(c)
  BY DEF RegisterService, UnregisterService, AdapterOK, HearsNothing
<1>5. signalsConnected => signalsConnected' \/ Announced("removed")'
  BY <1>1, <1>2 DEF RegisterService, UnregisterService
<1>. QED  BY <1>2, <1>3, <1>4, <1>5, CopiesHear

LEMMA PublishCopies ==
  ASSUME AvailabilityInv, TypeOK', NEW c \in Client, CopiesOK(c), PublishEntry
  PROVE  CopiesOK(c)'
<1>. USE DEF AvailabilityInv
<1>. DEFINE entry == [kind |-> Head(announcements)]
            queue == inbox[c]
            longer == inbox'[c]
<1>1. entry \in Message /\ entry.kind = Head(announcements) /\ entry.kind \in {"added", "removed"}
  BY HeadTailProperties, EntryType DEF PublishEntry, TypeOK
<1>2. queue \in Seq(Message) /\ longer = Append(queue, entry)
  BY DEF PublishEntry, TypeOK
<1>. HIDE DEF entry, queue, longer
<1>3. Appended(queue, entry, longer)
  BY <1>1, <1>2, Appends
<1>4. /\ Len(queue) \in Nat /\ Len(longer) = Len(queue) + 1 /\ longer[Len(longer)] = entry
      /\ Len(longer) \in Nat \ {0} /\ Len(queue) <= Len(longer) /\ Len(queue) <= Len(queue)
      /\ Extends(queue, longer)
      /\ \A l \in Len(queue) + 1 .. Len(longer) : longer[l] = entry
  BY <1>3 DEF Appended, Extends
<1>5. /\ Asking(c)' = Asking(c) /\ Started(c)' = Started(c) /\ Base(c)' = Base(c)
      /\ bound' = bound /\ overtaken' = overtaken
      /\ signalsConnected' = signalsConnected /\ previous' = previous /\ service' = service
  BY DEF PublishEntry, proxyVars, serviceVars, Asking, Started, Fetched, Base
<1>6. Announced("removed") <=> entry.kind = "removed" \/ Announced("removed")'
  BY <1>1, AnnouncedBeheaded
<1>7. \A kind : Queued(longer, kind) <=> Queued(queue, kind) \/ entry.kind = kind
  BY <1>3, QueuedAppended
<1>9. SentOK(c)'
  <2>1. SUFFICES ASSUME c \notin Async, c \notin overtaken, bound[c], ~Coming(c, "removed")',
                        Queued(longer, "signal")
                 PROVE  /\ signalsConnected /\ previous = service
                        /\ \A i \in Item : Brings(longer, service[i], i, Len(longer), service[i])
    BY <1>5 DEF SentOK, longer
  <2>2. ~Coming(c, "removed") /\ Queued(queue, "signal") /\ entry.kind = "added"
    BY <1>1, <1>6, <1>7, <2>1 DEF Coming, queue, longer
  <2>3. /\ signalsConnected /\ previous = service
        /\ \A i \in Item : Brings(queue, service[i], i, Len(queue), service[i])
    BY <2>1, <2>2 DEF CopiesOK, SentOK, queue
  <2>4. ASSUME NEW i \in Item
        PROVE  Brings(longer, service[i], i, Len(longer), service[i])
    <3>1. Brings(longer, service[i], i, Len(queue), service[i])
      BY <1>4, <2>3, BringsExtended
    <3>2. \A l \in Len(queue) + 1 .. Len(longer) : ~Carries(longer[l], i)
      BY <1>4, <2>2 DEF Carries
    <3>. QED  BY <1>4, <3>1, <3>2, BringsQuiet
  <2>. QED  BY <2>3, <2>4
<1>10. ValuesOK(c)'
  <2>1. SUFFICES ASSUME Linked(c)'
                 PROVE  /\ signalsConnected
                        /\ \A i \in Item : i \in Plain \/ service[i] # Default =>
                             Brings(longer, Base(c)[i], i, Len(longer), service[i])
    BY <1>5 DEF ValuesOK, longer
  <2>2. /\ InOrder(c) /\ bound[c] /\ ~Asking(c) /\ ~Announced("removed")'
        /\ Fresh(longer, Started(c), Len(longer))
    BY <1>5, <2>1 DEF Linked, InOrder, longer
  <2>3. entry.kind = "added"
    BY <1>1, <1>4, <2>2, StaleLast
  <2>4. Fresh(queue, Started(c), Len(queue))
    <3>1. Fresh(longer, Started(c), Len(queue))
      BY <1>4, <2>2, <2>3, FreshQuiet
    <3>. QED  BY <1>4, <3>1, FreshExtended
  <2>5. Linked(c)
    BY <1>6, <2>2, <2>3, <2>4 DEF Linked, queue
  <2>6. /\ signalsConnected
        /\ \A i \in Item : i \in Plain \/ service[i] # Default =>
             Brings(queue, Base(c)[i], i, Len(queue), service[i])
    BY <2>5 DEF CopiesOK, ValuesOK, queue
  <2>7. ASSUME NEW i \in Item, i \in Plain \/ service[i] # Default
        PROVE  Brings(longer, Base(c)[i], i, Len(longer), service[i])
    <3>1. Brings(longer, Base(c)[i], i, Len(queue), service[i])
      BY <1>4, <2>6, <2>7, BringsExtended
    <3>2. \A l \in Len(queue) + 1 .. Len(longer) : ~Carries(longer[l], i)
      BY <1>4, <2>3 DEF Carries
    <3>. QED  BY <1>4, <3>1, <3>2, BringsQuiet
  <2>. QED  BY <2>6, <2>7
<1>11. SignalsOK(c)'
  <2>1. SUFFICES ASSUME c \in Async, ~Asking(c), ~Announced("removed")',
                        NEW k \in 1 .. Len(longer), longer[k].kind = "signal",
                        Fresh(longer, Started(c), k),
                        \A l \in k + 1 .. Len(longer) : longer[l].kind \notin {"reply", "removed"},
                        NEW i \in Plain
                 PROVE  Brings(longer, Base(c)[i], i, k, longer[k].at[i])
    BY <1>5 DEF SignalsOK, longer
  <2>2. k \in 1 .. Len(queue) /\ k \in Nat /\ k <= Len(queue)
    BY <1>1, <1>4, <2>1
  <2>3. Len(longer) \in k + 1 .. Len(longer)
    BY <1>4, <2>2
  <2>4. entry.kind # "removed" /\ ~Announced("removed")
    BY <1>4, <1>6, <2>1, <2>3
  <2>5. longer[k] = queue[k] /\ \A l \in k + 1 .. Len(queue) : longer[l] = queue[l]
    BY <1>4, <2>2 DEF Extends
  <2>6. \A l \in k + 1 .. Len(queue) : queue[l].kind \notin {"reply", "removed"}
    BY <1>4, <2>1, <2>5
  <2>7. Fresh(queue, Started(c), k)
    BY <1>4, <2>1, <2>2, FreshExtended
  <2>8. Brings(queue, Base(c)[i], i, k, queue[k].at[i])
    BY <2>1, <2>2, <2>4, <2>5, <2>6, <2>7 DEF CopiesOK, SignalsOK, queue
  <2>. QED  BY <1>4, <2>2, <2>5, <2>8, BringsExtended
<1>. QED  BY <1>9, <1>10, <1>11 DEF CopiesOK

\* The snapshot answers an asynchronous proxy behind everything that was
\* sent before, and lets a blocking one go on at once.
LEMMA HandleGetPropertiesCopies ==
  ASSUME AvailabilityInv, TypeOK', NEW c \in Client, \A e \in Client : CopiesOK(e),
         HandleGetProperties(c), NEW d \in Client
  PROVE  CopiesOK(d)'
<1>. USE DEF AvailabilityInv
<1>1. /\ ClientInv(d) /\ CopiesOK(d)
      /\ Receives(c, "getProperties")
      /\ service' = service /\ announcements' = announcements
      /\ signalsConnected' /\ (signalsConnected => previous' = previous)
      /\ bound' = bound /\ overtaken' = overtaken /\ values' = values /\ available' = available
      /\ Announced("removed")' = Announced("removed")
  BY DEF HandleGetProperties, proxyVars, Announced
<1>2. ASSUME d # c
      PROVE  CopiesOK(d)'
  <2>1. inbox'[d] = inbox[d] /\ syncReply'[d] = syncReply[d]
    BY <1>2 DEF HandleGetProperties, Answers, TypeOK
  <2>2. calls'[d] = calls[d]
    BY <1>1, <1>2, ReceivesCall
  <2>. QED  BY <1>1, <2>1, <2>2, CopiesOther
<1>3. ASSUME d = c, c \in Async
      PROVE  CopiesOK(c)'
  <2>. DEFINE queue == inbox[c]
              longer == inbox'[c]
              reply == [kind |-> "reply", values |-> service]
  <2>1. /\ reply \in Message /\ reply.kind = "reply" /\ reply.values = service
        /\ queue \in Seq(Message) /\ longer = Append(queue, reply)
    BY <1>3, ReplyType DEF HandleGetProperties, Answers, TypeOK
  <2>. HIDE DEF reply, queue, longer
  <2>2. Appended(queue, reply, longer)
    BY <2>1, Appends
  <2>3. /\ Len(longer) \in Nat \ {0} /\ longer[Len(longer)] = reply /\ Len(longer) \in 1 .. Len(longer)
    BY <2>2 DEF Appended
  <2>5. SentOK(c)'
    BY <1>3 DEF SentOK
  <2>6. ValuesOK(c)'
    <3>1. ASSUME NEW i \in Item
          PROVE  Brings(longer, Base(c)[i]', i, Len(longer), service[i])
      <4>1. Carries(longer[Len(longer)], i) /\ Carried(longer[Len(longer)], i) = service[i]
        BY <2>1, <2>3 DEF Carries, Carried
      <4>. QED  BY <2>3, <4>1, BringsLast
    <3>. QED  BY <1>1, <3>1 DEF ValuesOK, longer
  <2>7. SignalsOK(c)'
    <3>1. SUFFICES ASSUME NEW k \in 1 .. Len(longer), longer[k].kind = "signal",
                          \A l \in k + 1 .. Len(longer) : longer[l].kind \notin {"reply", "removed"}
                   PROVE  FALSE
      BY DEF SignalsOK, longer
    <3>2. k # Len(longer)
      BY <2>1, <2>3, <3>1
    <3>3. Len(longer) \in k + 1 .. Len(longer)
      BY <2>3, <3>2
    <3>. QED  BY <2>1, <2>3, <3>1, <3>3
  <2>. QED  BY <2>5, <2>6, <2>7 DEF CopiesOK
<1>4. ASSUME d = c, c \notin Async
      PROVE  CopiesOK(c)'
  <2>. DEFINE reply == [kind |-> "reply", values |-> service]
  <2>1. /\ reply \in SyncReply /\ reply.kind = "reply" /\ reply.values = service
        /\ syncReply[c] \in Seq(SyncReply) /\ syncReply'[c] = Append(syncReply[c], reply)
        /\ inbox' = inbox
    BY <1>4, ReplyType DEF HandleGetProperties, Answers, TypeOK
  <2>. HIDE DEF reply
  <2>2. /\ syncReply[c] = <<>> /\ ~Queued(inbox[c], "reply")
        /\ calls[c] # <<>>
    BY <1>1, <1>4, ReceivesCall DEF ClientInv, CallsOK
  <2>3. Appended(syncReply[c], reply, syncReply'[c])
    BY <2>1, Appends
  <2>4. syncReply'[c][1] = reply /\ 1 \in 1 .. Len(syncReply'[c])
    BY <2>2, <2>3, EmptySeq DEF Appended
  <2>5. Fetched(c)' /\ Base(c)' = service
    BY <2>1, <2>4 DEF Fetched, Queued, Base
  <2>7. SentOK(c)'
    BY <1>1, <1>4, <2>1 DEF CopiesOK, SentOK, Coming
  <2>8. ValuesOK(c)'
    <3>1. SUFFICES ASSUME Linked(c)', NEW i \in Item
                   PROVE  Brings(inbox[c], service[i], i, Len(inbox[c]), service[i])
      BY <1>1, <2>1, <2>5 DEF ValuesOK
    <3>2. /\ c \notin overtaken /\ bound[c] /\ ~Announced("removed")
          /\ Fresh(inbox[c], Started(c)', Len(inbox[c]))
      BY <1>1, <1>4, <2>1, <3>1 DEF Linked, InOrder
    <3>3. ~Queued(inbox[c], "removed")
      BY <2>2, <3>2 DEF Fresh, Queued
    <3>4. CASE Queued(inbox[c], "signal")
      BY <1>1, <1>4, <3>2, <3>3, <3>4 DEF CopiesOK, SentOK, Coming
    <3>5. CASE ~Queued(inbox[c], "signal")
      <4>1. Len(inbox[c]) \in Nat
        BY LenProperties DEF TypeOK
      <4>2. \A l \in 1 .. Len(inbox[c]) : ~Carries(inbox[c][l], i)
        BY <2>2, <3>5, NothingCarried
      <4>. QED  BY <4>1, <4>2, BringsNothing
    <3>. QED  BY <3>4, <3>5
  <2>9. SignalsOK(c)'
    BY <1>4 DEF SignalsOK
  <2>. QED  BY <2>7, <2>8, <2>9 DEF CopiesOK
<1>. QED  BY <1>2, <1>3, <1>4

LEMMA HandleSetterCopies ==
  ASSUME AvailabilityInv, TypeOK', NEW c \in Client, \A e \in Client : CopiesOK(e),
         HandleSetter(c), NEW d \in Client
  PROVE  CopiesOK(d)'
<1>. USE DEF AvailabilityInv
<1>1. Head(calls[c]) \in Call /\ Head(calls[c]).member = "set" /\ Receives(c, "set") /\ Returns(c)
  BY ReceivesType DEF HandleSetter, Receives
<1>2. Head(calls[c]).item \in Item /\ Head(calls[c]).value \in Value
  BY <1>1, ConstantsAssumption DEF Call, Item
<1>3. PICK effect \in Effects(Head(calls[c]).item, Head(calls[c]).value) : Change(effect)
  BY DEF HandleSetter
<1>4. (HearsNothing(d) \/ HearsSignals(d)) /\ signalsConnected' = signalsConnected
  BY <1>2, <1>3, ChangeIsHeard
<1>5. /\ bound' = bound /\ overtaken' = overtaken /\ values' = values /\ available' = available
      /\ Announced("removed")' = Announced("removed")
      /\ ClientInv(d) /\ CopiesOK(d)
  BY DEF HandleSetter, proxyVars, Announced
<1>6. Asking(d) => Asking(d)'
  <2>1. CASE d = c
    BY <1>1, <2>1, ReceivesCall
  <2>2. CASE d # c
    BY <1>1, <2>2, ReceivesCall DEF Asking
  <2>. QED  BY <2>1, <2>2
<1>7. Started(d)' = Started(d) /\ Base(d)' = Base(d)
  <2>1. CASE syncReply'[d] = syncReply[d]
    BY <1>5, <2>1 DEF Started, Fetched, Base
  <2>2. CASE syncReply'[d] # syncReply[d]
    <3>1. d = c /\ c \notin Async
      BY <1>1, <2>2, ReturnedCall
    <3>2. syncReply[c] = <<>> /\ Len(syncReply[c]) = 0
      BY <1>1, <1>5, <3>1, ReceivesCall, EmptySeq DEF ClientInv, CallsOK
    <3>3. ~Fetched(c)
      BY <3>2 DEF Fetched, Queued
    <3>4. ~Fetched(c)'
      BY <1>1, <3>1, <3>3, ReturnedCall
    <3>. QED  BY <1>5, <3>1, <3>3, <3>4 DEF Started, Base
  <2>. QED  BY <2>1, <2>2
<1>. QED  BY <1>4, <1>5, <1>6, <1>7, CopiesHear

\* A call is refused when nothing is exported: nobody follows the service.
LEMMA RefuseCallCopies ==
  ASSUME AvailabilityInv, TypeOK', NEW c \in Client, \A e \in Client : CopiesOK(e),
         RefuseCall(c), NEW d \in Client
  PROVE  CopiesOK(d)'
<1>. USE DEF AvailabilityInv
<1>1. PICK member \in {"getProperties", "set"} : Receives(c, member)
  BY DEF RefuseCall
<1>2. /\ ClientInv(d) /\ CopiesOK(d) /\ Returns(c) /\ ~registered
      /\ inbox' = inbox /\ service' = service /\ signalsConnected' = signalsConnected
      /\ previous' = previous /\ announcements' = announcements
      /\ bound' = bound /\ overtaken' = overtaken /\ values' = values /\ available' = available
      /\ Announced("removed")' = Announced("removed")
  BY DEF RefuseCall, serviceVars, proxyVars, Announced
<1>3. ASSUME d # c
      PROVE  CopiesOK(d)'
  <2>1. calls'[d] = calls[d] /\ syncReply'[d] = syncReply[d]
    BY <1>1, <1>2, <1>3, ReceivesCall, ReturnedCall
  <2>. QED  BY <1>2, <2>1, CopiesOther
<1>4. ASSUME d = c
      PROVE  CopiesOK(c)'
  <2>1. Started(c)' = Started(c)
    <3>1. Fetched(c)' <=> Fetched(c)
      BY <1>2, ReturnedCall DEF Fetched
    <3>. QED  BY <1>2, <3>1 DEF Started
  <2>2. SentOK(c)'
    BY <1>2, <1>4 DEF CopiesOK, SentOK, Coming
  <2>3. ValuesOK(c)'
    <3>1. SUFFICES ASSUME Linked(c)'
                   PROVE  FALSE
      BY DEF ValuesOK
    <3>2. ~Announced("removed") /\ Fresh(inbox[c], Started(c), Len(inbox[c]))
      BY <1>2, <2>1, <3>1 DEF Linked
    <3>. QED  BY <1>2, <3>2, FreshRegistered
  <2>4. SignalsOK(c)'
    <3>1. SUFFICES ASSUME ~Announced("removed"), NEW k \in 1 .. Len(inbox[c]),
                          Fresh(inbox[c], Started(c), k),
                          \A l \in k + 1 .. Len(inbox[c]) : inbox[c][l].kind \notin {"reply", "removed"}
                   PROVE  FALSE
      BY <1>2, <2>1 DEF SignalsOK
    <3>2. Len(inbox[c]) \in Nat /\ k \in Nat /\ k <= Len(inbox[c])
      BY LenProperties DEF TypeOK
    <3>3. \A l \in k + 1 .. Len(inbox[c]) : inbox[c][l].kind # "removed"
      BY <3>1
    <3>4. Fresh(inbox[c], Started(c), Len(inbox[c]))
      BY <3>1, <3>2, <3>3, FreshQuiet
    <3>. QED  BY <1>2, <3>1, <3>4, FreshRegistered
  <2>. QED  BY <2>2, <2>3, <2>4 DEF CopiesOK
<1>. QED  BY <1>3, <1>4

-----------------------------------------------------------------------------
(***************************************************************************)
(* The steps of the proxies.                                               *)
(***************************************************************************)
LEMMA ConnectToServerCopies ==
  ASSUME AvailabilityInv, TypeOK', NEW c \in Client, \A e \in Client : CopiesOK(e),
         ConnectToServer(c), NEW d \in Client
  PROVE  CopiesOK(d)'
<1>. USE DEF AvailabilityInv
<1>1. /\ ClientInv(d) /\ CopiesOK(d) /\ ClientInv(c)
      /\ CheckRegistry(c, TRUE, known[c]) /\ known[c] \in BOOLEAN
      /\ service' = service /\ signalsConnected' = signalsConnected /\ previous' = previous
      /\ announcements' = announcements /\ inbox' = inbox /\ syncReply' = syncReply
      /\ values' = values
  BY DEF ConnectToServer, serviceVars, TypeOK
<1>2. ASSUME calls'[d] = calls[d], bound'[d] = bound[d], (d \in overtaken' <=> d \in overtaken),
             available'[d] = available[d]
      PROVE  CopiesOK(d)'
  BY <1>1, <1>2, CopiesOther
<1>3. CASE d # c
  BY <1>1, <1>2, <1>3, ChecksRegistry
<1>4. CASE d = c
  <2>1. CASE known[c] /\ ~bound[c]
    <3>1. /\ bound'[c] /\ Asking(c)'
          /\ c \notin Async /\ Queued(inbox'[c], "signal") => c \in overtaken'
      BY <1>1, <2>1, ChecksRegistry
    <3>. QED  BY <1>4, <3>1, CopiesAsked
  <2>2. CASE ~known[c] /\ bound[c]
    BY <1>1, <2>2 DEF ClientInv, BoundOK
  <2>3. CASE ~(known[c] /\ ~bound[c]) /\ ~(~known[c] /\ bound[c])
    <3>1. /\ calls'[c] = calls[c] /\ bound'[c] = bound[c] /\ (c \in overtaken' <=> c \in overtaken)
          /\ available'[c] = available[c]
      BY <1>1, <2>3, ChecksRegistry
    <3>. QED  BY <1>2, <1>4, <3>1
  <2>. QED  BY <2>1, <2>2, <2>3
<1>. QED  BY <1>3, <1>4

LEMMA SendSetterCallCopies ==
  ASSUME AvailabilityInv, TypeOK', NEW c \in Client, \A e \in Client : CopiesOK(e),
         NEW i \in Writable, NEW v \in Value, SendSetterCall(c, i, v), NEW d \in Client
  PROVE  CopiesOK(d)'
<1>. USE DEF AvailabilityInv
<1>. DEFINE call == [member |-> "set", item |-> i, value |-> v]
<1>1. /\ ClientInv(d) /\ CopiesOK(d) /\ call \in Call /\ Send(c, call)
      /\ service' = service /\ signalsConnected' = signalsConnected /\ previous' = previous
      /\ announcements' = announcements /\ inbox' = inbox /\ syncReply' = syncReply
      /\ values' = values /\ bound' = bound /\ overtaken' = overtaken
      /\ available' = available
  BY DEF SendSetterCall, serviceVars, proxyVars, Call
<1>. HIDE DEF call
<1>2. Asking(d) => Asking(d)'
  <2>1. CASE d = c
    BY <1>1, <2>1, SendsCall
  <2>2. CASE d # c
    BY <1>1, <2>2, SendsCall DEF Asking
  <2>. QED  BY <2>1, <2>2
<1>3. /\ HearsNothing(d)
      /\ Announced("removed")' = Announced("removed")
      /\ Started(d)' = Started(d) /\ Base(d)' = Base(d)
  BY <1>1 DEF HearsNothing, Announced, Started, Fetched, Base
<1>. QED  BY <1>1, <1>2, <1>3, CopiesHear

LEMMA CallReturnsCopies ==
  ASSUME AvailabilityInv, TypeOK', NEW c \in Client, \A e \in Client : CopiesOK(e),
         CallReturns(c), NEW d \in Client
  PROVE  CopiesOK(d)'
<1>. USE DEF AvailabilityInv
<1>1. /\ ClientInv(d) /\ CopiesOK(d)
      /\ service' = service /\ signalsConnected' = signalsConnected /\ previous' = previous
      /\ announcements' = announcements /\ inbox' = inbox /\ calls' = calls
      /\ bound' = bound /\ overtaken' = overtaken
  BY DEF CallReturns, serviceVars
<1>2. CASE d # c
  BY <1>1, <1>2, ReturnsAnswer, CopiesOther
<1>3. CASE d = c
  <2>1. /\ ~Fetched(c)'
        /\ Head(syncReply[c]) = syncReply[c][1]
        /\ Fetched(c) <=> syncReply[c][1].kind = "reply"
    BY ReturnsAnswer
  <2>2. Started(c)' = Started(c) /\ Base(c)' = Base(c)
    <3>1. CASE Fetched(c)
      <4>1. available'[c] /\ values'[c] = syncReply[c][1].values
        BY <2>1, <3>1 DEF CallReturns, ApplySnapshot, TypeOK
      <4>. QED  BY <2>1, <3>1, <4>1 DEF Started, Base
    <3>2. CASE ~Fetched(c)
      <4>1. available' = available /\ values' = values
        BY <2>1, <3>2 DEF CallReturns
      <4>. QED  BY <2>1, <3>2, <4>1 DEF Started, Base
    <3>. QED  BY <3>1, <3>2
  <2>3. /\ HearsNothing(c) /\ Asking(c)' = Asking(c)
        /\ Announced("removed")' = Announced("removed")
    BY <1>1 DEF HearsNothing, Asking, Announced
  <2>. QED  BY <1>1, <1>3, <2>2, <2>3, CopiesHear
<1>. QED  BY <1>2, <1>3

-----------------------------------------------------------------------------
(***************************************************************************)
(* The head of a queue is delivered.                                       *)
(***************************************************************************)
\* What c handled, its values now contain.
Handles(c) ==
  /\ \A i \in Item : values'[c][i] = Applied(inbox[c][1], values[c][i], i)
  /\ available'[c] => Begun(inbox[c][1], available[c])
  /\ calls'[c] = calls[c] /\ syncReply'[c] = syncReply[c]
  /\ announcements' = announcements

LEMMA DeliversParts ==
  ASSUME AvailabilityInv, TypeOK', NEW c \in Client, NEW kind, Delivers(c, kind), Handles(c),
         NEW k \in 0 .. Len(inbox'[c]), Fresh(inbox'[c], Started(c)', k)
  PROVE  Fresh(inbox[c], Started(c), k + 1)
<1>. USE DEF AvailabilityInv
<1>1. Behead(inbox[c], inbox'[c]) /\ ~blocked[c] /\ ClientInv(c)
  BY DeliversMessage
<1>2. syncReply[c] = <<>> /\ Len(syncReply[c]) = 0
  BY <1>1, EmptySeq DEF ClientInv, CallsOK
<1>3. Started(c)' = available'[c] /\ Started(c) = available[c]
      /\ available[c] \in BOOLEAN /\ available'[c] \in BOOLEAN
  BY <1>2 DEF Started, Fetched, Queued, Handles, TypeOK
<1>4. Fresh(inbox'[c], Begun(inbox[c][1], available[c]), k)
  BY <1>3 DEF Fresh, Handles
<1>. QED  BY <1>1, <1>3, <1>4, FreshBeheaded

LEMMA DeliversBase ==
  ASSUME AvailabilityInv, TypeOK', NEW c \in Client, NEW kind, Delivers(c, kind), Handles(c)
  PROVE  /\ \A i \in Item : Base(c)[i]' = Applied(inbox[c][1], Base(c)[i], i)
         /\ Asking(c)' = Asking(c) /\ Announced("removed")' = Announced("removed")
<1>1. ~blocked[c] /\ ClientInv(c)
  BY DeliversMessage DEF AvailabilityInv
<1>2. syncReply[c] = <<>> /\ Len(syncReply[c]) = 0
  BY <1>1, EmptySeq DEF ClientInv, CallsOK
<1>3. ~Fetched(c) /\ ~Fetched(c)'
  BY <1>2 DEF Fetched, Queued, Handles
<1>4. Base(c) = values[c] /\ Base(c)' = values'[c]
  BY <1>3 DEF Base
<1>. QED  BY <1>4 DEF Handles, Asking, Announced

LEMMA SignalsDelivered ==
  ASSUME AvailabilityInv, TypeOK', NEW c \in Client, CopiesOK(c), NEW kind, Delivers(c, kind),
         Handles(c)
  PROVE  SignalsOK(c)'
<1>. DEFINE queue == inbox[c]
            rest == inbox'[c]
<1>1. Behead(queue, rest)
  BY DeliversMessage DEF AvailabilityInv
<1>2. SUFFICES ASSUME c \in Async, ~Asking(c), ~Announced("removed"),
                      NEW k \in 1 .. Len(rest), rest[k].kind = "signal",
                      Fresh(rest, Started(c)', k),
                      \A l \in k + 1 .. Len(rest) : rest[l].kind \notin {"reply", "removed"},
                      NEW i \in Plain
               PROVE  Brings(rest, Base(c)[i]', i, k, rest[k].at[i])
  BY DeliversBase DEF SignalsOK
<1>3. k \in 0 .. Len(rest)
  OBVIOUS
<1>4. Fresh(queue, Started(c), k + 1)
  BY <1>2, <1>3, DeliversParts
<1>5. i \in Item /\ Base(c)[i]' = Applied(queue[1], Base(c)[i], i)
  BY DeliversBase DEF Item
<1>6. SignalsOK(c)
  BY DEF CopiesOK
<1>7. k + 1 \in 1 .. Len(queue) /\ queue[k + 1] = rest[k]
  <2>. HIDE DEF queue, rest
  <2>. QED  BY <1>1, <1>3 DEF Behead
<1>8. ASSUME NEW l \in (k + 1) + 1 .. Len(queue)
      PROVE  queue[l].kind \notin {"reply", "removed"}
  <2>. HIDE DEF queue, rest
  <2>1. l - 1 \in k + 1 .. Len(rest) /\ l - 1 \in 1 .. Len(rest) /\ (l - 1) + 1 = l
    BY <1>1 DEF Behead
  <2>2. rest[l - 1] = queue[(l - 1) + 1]
    BY <1>1, <2>1 DEF Behead
  <2>. QED  BY <1>2, <2>1, <2>2
<1>9. Brings(queue, Base(c)[i], i, k + 1, queue[k + 1].at[i])
  BY <1>2, <1>4, <1>6, <1>7, <1>8 DEF SignalsOK
<1>10. Brings(rest, Applied(queue[1], Base(c)[i], i), i, k, rest[k].at[i])
  <2>. HIDE DEF queue, rest
  <2>. QED  BY <1>1, <1>3, <1>7, <1>9, BringsBeheaded
<1>. QED  BY <1>5, <1>10

LEMMA CopiesDelivered ==
  ASSUME AvailabilityInv, TypeOK', NEW c \in Client, CopiesOK(c), NEW kind, Delivers(c, kind),
         Handles(c), kind # "removed" \/ ~bound[c],
         bound'[c] = bound[c], (c \in overtaken' <=> c \in overtaken),
         service' = service, signalsConnected' = signalsConnected, previous' = previous
  PROVE  CopiesOK(c)'
<1>. DEFINE queue == inbox[c]
            rest == inbox'[c]
<1>1. /\ Behead(queue, rest)
      /\ \A other : Queued(queue, other) <=> kind = other \/ Queued(rest, other)
  BY DeliversMessage DEF AvailabilityInv
<1>2. Len(rest) \in 0 .. Len(rest) /\ Len(rest) + 1 = Len(queue)
  BY <1>1 DEF Behead
<1>4. SentOK(c)'
  <2>1. SUFFICES ASSUME c \notin Async, c \notin overtaken, bound[c], ~Coming(c, "removed")',
                        Queued(rest, "signal")
                 PROVE  /\ signalsConnected /\ previous = service
                        /\ \A i \in Item : Brings(rest, service[i], i, Len(rest), service[i])
    BY DEF SentOK
  <2>2. ~Coming(c, "removed") /\ Queued(queue, "signal")
    BY <1>1, <2>1 DEF Coming, Announced, Handles
  <2>3. /\ signalsConnected /\ previous = service
        /\ \A i \in Item : Brings(queue, service[i], i, Len(queue), service[i])
    BY <2>1, <2>2 DEF CopiesOK, SentOK
  <2>4. ASSUME NEW i \in Item
        PROVE  Brings(rest, service[i], i, Len(rest), service[i])
    <3>1. Brings(queue, service[i], i, Len(rest) + 1, service[i])
      BY <1>2, <2>3
    <3>. HIDE DEF queue, rest
    <3>. QED  BY <1>1, <1>2, <3>1, BringsBeheaded
  <2>. QED  BY <2>3, <2>4
<1>5. ValuesOK(c)'
  <2>1. SUFFICES ASSUME Linked(c)'
                 PROVE  /\ signalsConnected
                        /\ \A i \in Item : i \in Plain \/ service[i] # Default =>
                             Brings(rest, Base(c)[i]', i, Len(rest), service[i])
    BY DEF ValuesOK
  <2>2. /\ InOrder(c) /\ bound[c] /\ ~Asking(c) /\ ~Announced("removed")
        /\ Fresh(rest, Started(c)', Len(rest))
    BY <2>1, DeliversBase DEF Linked, InOrder
  <2>3. Fresh(queue, Started(c), Len(queue))
    BY <1>2, <2>2, DeliversParts
  <2>4. /\ signalsConnected
        /\ \A i \in Item : i \in Plain \/ service[i] # Default =>
             Brings(queue, Base(c)[i], i, Len(queue), service[i])
    BY <2>2, <2>3 DEF CopiesOK, ValuesOK, Linked
  <2>5. ASSUME NEW i \in Item, i \in Plain \/ service[i] # Default
        PROVE  Brings(rest, Base(c)[i]', i, Len(rest), service[i])
    <3>1. Base(c)[i]' = Applied(queue[1], Base(c)[i], i)
      BY DeliversBase
    <3>2. Brings(queue, Base(c)[i], i, Len(rest) + 1, service[i])
      BY <1>2, <2>4, <2>5
    <3>3. Brings(rest, Applied(queue[1], Base(c)[i], i), i, Len(rest), service[i])
      <4>. HIDE DEF queue, rest
      <4>. QED  BY <1>1, <1>2, <3>2, BringsBeheaded
    <3>. QED  BY <3>1, <3>3
  <2>. QED  BY <2>4, <2>5
<1>6. SignalsOK(c)'
  BY SignalsDelivered
<1>. QED  BY <1>4, <1>5, <1>6 DEF CopiesOK

LEMMA OnReplyCopies ==
  ASSUME AvailabilityInv, TypeOK', NEW c \in Client, \A e \in Client : CopiesOK(e),
         OnReply(c), NEW d \in Client
  PROVE  CopiesOK(d)'
<1>. USE DEF AvailabilityInv
<1>1. /\ ClientInv(d) /\ CopiesOK(d) /\ CopiesOK(c) /\ Delivers(c, "reply")
      /\ service' = service /\ signalsConnected' = signalsConnected /\ previous' = previous
      /\ announcements' = announcements /\ calls' = calls /\ syncReply' = syncReply
      /\ bound' = bound /\ overtaken' = overtaken
      /\ ApplySnapshot(c, Head(inbox[c]).values)
  BY DEF OnReply, serviceVars
<1>2. /\ values'[c] = Head(inbox[c]).values
      /\ \A e \in Client \ {c} : values'[e] = values[e] /\ available'[e] = available[e]
  BY <1>1 DEF ApplySnapshot, TypeOK
<1>3. CASE d # c
  BY <1>1, <1>2, <1>3, DeliversMessage, CopiesOther
<1>4. CASE d = c
  <2>1. Head(inbox[c]) = inbox[c][1] /\ inbox[c][1].kind = "reply"
    BY <1>1, DeliversMessage
  <2>2. Handles(c)
    BY <1>1, <1>2, <2>1 DEF Handles, Applied, Carries, Carried, Begun
  <2>. QED  BY <1>1, <1>4, <2>2, CopiesDelivered
<1>. QED  BY <1>3, <1>4

LEMMA OnSignalCopies ==
  ASSUME AvailabilityInv, TypeOK', NEW c \in Client, \A e \in Client : CopiesOK(e),
         OnSignalTriggered(c), NEW d \in Client
  PROVE  CopiesOK(d)'
<1>. USE DEF AvailabilityInv
<1>1. /\ ClientInv(d) /\ CopiesOK(d) /\ CopiesOK(c) /\ Delivers(c, "signal")
      /\ service' = service /\ signalsConnected' = signalsConnected /\ previous' = previous
      /\ announcements' = announcements /\ calls' = calls /\ syncReply' = syncReply
      /\ bound' = bound /\ overtaken' = overtaken /\ available' = available
  BY DEF OnSignalTriggered, serviceVars
<1>2. /\ values'[c] = Updated(values[c], Head(inbox[c]).changes)
      /\ \A e \in Client \ {c} : values'[e] = values[e]
  BY DEF OnSignalTriggered, TypeOK
<1>3. CASE d # c
  BY <1>1, <1>2, <1>3, DeliversMessage, CopiesOther
<1>4. CASE d = c
  <2>1. Head(inbox[c]) = inbox[c][1] /\ inbox[c][1].kind = "signal"
    BY <1>1, DeliversMessage
  <2>2. \A i \in Item : values'[c][i] = Applied(inbox[c][1], values[c][i], i)
    BY <1>2, <2>1 DEF Updated, Applied, Carries, Carried
  <2>3. Handles(c)
    BY <1>1, <2>1, <2>2 DEF Handles, Begun
  <2>. QED  BY <1>1, <1>4, <2>3, CopiesDelivered
<1>. QED  BY <1>3, <1>4

LEMMA OnRegistryChangedCopies ==
  ASSUME AvailabilityInv, TypeOK', NEW c \in Client,
         \A e \in Client : CopiesOK(e) /\ EntryNew(e),
         NEW kind \in {"added", "removed"}, OnRegistryChanged(c, kind), NEW d \in Client
  PROVE  CopiesOK(d)'
<1>. USE DEF AvailabilityInv
<1>1. /\ ClientInv(d) /\ CopiesOK(d) /\ ClientInv(c) /\ CopiesOK(c) /\ Delivers(c, kind)
      /\ CheckRegistry(c, created[c], kind = "added")
      /\ created[c] \in BOOLEAN /\ (kind = "added") \in BOOLEAN
      /\ service' = service /\ signalsConnected' = signalsConnected /\ previous' = previous
      /\ announcements' = announcements /\ syncReply' = syncReply /\ values' = values
  BY DEF OnRegistryChanged, serviceVars, TypeOK
<1>2. CASE d # c
  <2>1. /\ calls'[d] = calls[d] /\ bound'[d] = bound[d] /\ (d \in overtaken' <=> d \in overtaken)
        /\ available'[d] = available[d]
    BY <1>1, <1>2, ChecksRegistry
  <2>2. inbox'[d] = inbox[d]
    BY <1>1, <1>2, DeliversMessage
  <2>. QED  BY <1>1, <2>1, <2>2, CopiesOther
<1>3. ASSUME d = c
      PROVE  CopiesOK(c)'
  <2>1. /\ inbox[c][1].kind = kind
        /\ Queued(inbox'[c], "signal") => Queued(inbox[c], "signal")
    BY <1>1, DeliversMessage
  <2>2. \A i \in Item : values'[c][i] = Applied(inbox[c][1], values[c][i], i)
    BY <1>1, <2>1 DEF Applied, Carries
  <2>3. CASE created[c] /\ kind = "added" /\ ~bound[c]
    <3>1. /\ bound'[c] /\ Asking(c)'
          /\ c \notin Async /\ Queued(inbox'[c], "signal") => c \in overtaken'
      BY <1>1, <2>1, <2>3, ChecksRegistry
    <3>. QED  BY <3>1, CopiesAsked
  <2>4. CASE created[c] /\ kind # "added" /\ bound[c]
    <3>1. ~bound'[c] /\ ~available'[c] /\ calls'[c] = calls[c]
      BY <1>1, <2>4, ChecksRegistry
    <3>2. Handles(c)
      BY <1>1, <2>2, <3>1 DEF Handles
    <3>3. SignalsOK(c)'
      BY <1>1, <3>2, SignalsDelivered
    <3>4. SentOK(c)' /\ ValuesOK(c)'
      BY <3>1 DEF SentOK, ValuesOK, Linked
    <3>. QED  BY <3>3, <3>4 DEF CopiesOK
  <2>5. CASE ~(created[c] /\ kind = "added" /\ ~bound[c]) /\ ~(created[c] /\ kind # "added" /\ bound[c])
    <3>1. /\ bound'[c] = bound[c] /\ available'[c] = available[c]
          /\ (c \in overtaken' <=> c \in overtaken) /\ calls'[c] = calls[c]
      BY <1>1, <2>5, ChecksRegistry
    <3>2. kind = "removed" => ~created[c]
      <4>1. SUFFICES ASSUME kind = "removed", created[c]
                     PROVE  FALSE
        BY <1>1
      <4>2. known[c]
        BY <1>1, <4>1, RemovedWasKnown
      <4>3. bound[c]
        BY <1>1, <4>1, <4>2 DEF ClientInv, BoundOK
      <4>. QED  BY <2>5, <4>1, <4>3
    <3>3. kind = "removed" => ~available[c] /\ ~bound[c]
      BY <1>1, <3>2 DEF ClientInv, CreatedOK, BoundOK
    <3>4. available'[c] => Begun(inbox[c][1], available[c])
      BY <2>1, <3>1, <3>3 DEF Begun
    <3>5. Handles(c)
      BY <1>1, <2>2, <3>1, <3>4 DEF Handles
    <3>. QED  BY <1>1, <3>1, <3>3, <3>5, CopiesDelivered
  <2>. QED  BY <2>3, <2>4, <2>5
<1>. QED  BY <1>2, <1>3

-----------------------------------------------------------------------------
(***************************************************************************)
(* The invariant holds, and so do the properties.                          *)
(***************************************************************************)
LEMMA CopiesStep ==
  ASSUME AvailabilityInv, TypeOK', ValuesInv, [Next]_vars, NEW d \in Client
  PROVE  CopiesOK(d)'
<1>1. \A e \in Client : CopiesOK(e) /\ EntryNew(e)
  BY DEF ValuesInv, ProxyInv
<1>2. ASSUME NEW i \in Item, NEW v \in Value, ChangeValue(i, v)
      PROVE  CopiesOK(d)'
  BY <1>1, <1>2, ChangeValueCopies
<1>3. CASE RegisterService \/ UnregisterService
  BY <1>1, <1>3, AnnounceCopies
<1>4. CASE PublishEntry
  BY <1>1, <1>4, PublishCopies
<1>5. ASSUME NEW c \in Client, ProxyStep(c)
      PROVE  CopiesOK(d)'
  BY <1>1, <1>5, ConnectToServerCopies, SendSetterCallCopies DEF ProxyStep
<1>6. ASSUME NEW c \in Client, HandleStep(c)
      PROVE  CopiesOK(d)'
  BY <1>1, <1>6, HandleGetPropertiesCopies, HandleSetterCopies, RefuseCallCopies DEF HandleStep
<1>7. ASSUME NEW c \in Client, DeliverStep(c)
      PROVE  CopiesOK(d)'
  BY <1>1, <1>7, CallReturnsCopies, OnReplyCopies, OnSignalCopies, OnRegistryChangedCopies
     DEF DeliverStep
<1>8. CASE UNCHANGED vars
  <2>1. /\ inbox' = inbox /\ bound' = bound /\ overtaken' = overtaken /\ calls' = calls
        /\ syncReply' = syncReply /\ values' = values /\ available' = available
        /\ announcements' = announcements /\ service' = service
        /\ signalsConnected' = signalsConnected /\ previous' = previous
    BY <1>8 DEF vars, serviceVars, busVars, proxyVars
  <2>. QED  BY <1>1, <2>1, CopiesOther DEF AvailabilityInv
<1>. QED  BY <1>2, <1>3, <1>4, <1>5, <1>6, <1>7, <1>8 DEF Next, ServiceStep

LEMMA ValuesStep ==
  ASSUME AvailabilityInv, TypeOK', ValuesInv, [Next]_vars
  PROVE  ValuesInv'
<1>1. NewsInv
  BY DEF NewsInv, ValuesInv, ProxyInv
<1>2. NewsInv'
  BY <1>1, NewsStep
<1>3. \A d \in Client : CopiesOK(d)'
  BY CopiesStep
<1>. QED  BY <1>2, <1>3 DEF NewsInv, ValuesInv, ProxyInv

\* Whatever waits in a proxy's queue, behind the last snapshot or the last
\* withdrawal in it, adds up to the values that the service has now; and up
\* to a signal, to those it had when it sent that signal.
THEOREM ValuesInvariant == Spec => [](AvailabilityInv /\ ValuesInv)
<1>1. Init => AvailabilityInv /\ ValuesInv
  BY AvailabilityInit, ValuesInit
<1>2. (AvailabilityInv /\ ValuesInv) /\ [Next]_vars => (AvailabilityInv /\ ValuesInv)'
  <2>1. SUFFICES ASSUME AvailabilityInv, ValuesInv, [Next]_vars
                 PROVE  (AvailabilityInv /\ ValuesInv)'
    OBVIOUS
  <2>2. AvailabilityInv' /\ TypeOK'
    BY <2>1, AvailabilityStep DEF AvailabilityInv
  <2>. QED  BY <2>1, <2>2, ValuesStep
<1>. QED  BY <1>1, <1>2, PTL DEF Spec

\* An available proxy that has handled every message has the service's
\* property values, however often the service was withdrawn and exported
\* again; readiness and interface properties, too, where the service's value
\* is not their default.  Excepted is a proxy with blocking calls while it is
\* connected by a snapshot that overtook updates of before its last
\* disconnection (InOrder).
THEOREM ValuesCorrect == Spec => []ValuesAgree
BY ValuesInvariant, ValuesEnough, PTL

\* When an asynchronous proxy triggers a signal of the adapter it follows,
\* all its property values are those of the service when it sent the signal.
THEOREM SignalsCorrect == Spec => []SignalsFollowValues
BY ValuesInvariant, SignalsEnough, PTL

=============================================================================
