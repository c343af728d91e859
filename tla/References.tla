------------------------------ MODULE References ------------------------------
(***************************************************************************)
(* Interface properties over D-Bus: a service has a property that points   *)
(* to another service object of its process.  The adapter of the service   *)
(* gives every object it refers to an adapter and an object path of its    *)
(* own; messages carry the path, and each proxy makes a sub-proxy of it.   *)
(*                                                                         *)
(* The property keeps a raw pointer: an object may be destroyed, and a new *)
(* one may get its address.  Serial numbers tell objects apart.            *)
(***************************************************************************)
EXTENDS Integers, SequencesExt

CONSTANTS
  Client,        \* processes with an asynchronous proxy of the service
  Address,       \* where objects may be allocated
  Null,
  MaxObjects,    \* bound: objects created
  MaxMessages    \* bound: messages to a client when the application acts

ASSUME ConstantsAssumption ==
  /\ Null \notin Address
  /\ MaxObjects \in Nat /\ MaxMessages \in Nat

VARIABLES
  server,     \* the service, its property, its adapter, and the objects
  requests,   \* what each client has sent to the server, FIFO
  inbox,      \* what the server has sent to each client, FIFO
  proxies     \* each client's proxies

vars == <<server, requests, inbox, proxies>>

-----------------------------------------------------------------------------
Object == 1 .. MaxObjects
NoObject == 0
Path == 1 .. MaxObjects      \* the numbers of generateObjectPath(), from 1
NoPath == 0

Adapter == [path : Path, object : Object]

Request == [kind : {"properties", "call"}] \union [kind : {"sub"}, path : Path]

Message ==
  [kind : {"snapshot"}, path : Path \union {NoPath}]
    \union [kind : {"signal"}, changed : BOOLEAN, path : Path \union {NoPath}]
    \union [kind : {"reply", "sub"}, path : Path]

ProxyState ==
  [connected : BOOLEAN, complete : BOOLEAN, reference : Path \union {NoPath},
   subs : SUBSET Path, known : Path \union {NoPath}, replica : SUBSET Path,
   available : SUBSET Path, joined : BOOLEAN]

\* A QPointer, as the raw pointer it is compared with.
Pointer(s, object) ==
  IF object = NoObject THEN Null ELSE CHOOSE a \in Address : s.heap[a] = object

\* The adapter of each object is made once.
TypeOK ==
  /\ server.heap \in [Address -> Object \union {NoObject}]
  /\ server.created \in 0 .. MaxObjects
  /\ server.value \in Address \union {Null} /\ server.previous \in Address \union {Null}
  /\ server.pointer \in Object \union {NoObject} /\ server.valueChanged \in BOOLEAN
  /\ server.connected \in BOOLEAN /\ server.late \in BOOLEAN
  /\ server.service \in Object \union {NoObject}
  /\ server.adapter \in Path \union {NoPath}
  /\ server.subs \subseteq Adapter /\ server.doomed \subseteq Adapter
  /\ \A x \in server.subs : \E a \in Address : server.heap[a] = x.object
  /\ \A x, y \in server.subs \union server.doomed :
       x.path = y.path \/ x.object = y.object => x = y
  /\ server.previousPath \in Path \union {NoPath}
  /\ server.nextPath \in 1 .. MaxObjects + 1
  /\ requests \in [Client -> Seq(Request)] /\ inbox \in [Client -> Seq(Message)]
  /\ proxies \in [Client -> ProxyState]

Init ==
  /\ server =
       [heap |-> [a \in Address |-> NoObject], created |-> 0,
        value |-> Null, previous |-> Null,     \* TProperty
        pointer |-> NoObject,                  \* ServiceProperty::m_pointer
        valueChanged |-> FALSE,
        connected |-> FALSE,                   \* m_signalsConnected
        service |-> NoObject,                  \* the property handler's m_service
        adapter |-> NoPath,                    \* and the path of its m_serviceAdapter
        subs |-> {},                           \* m_subAdapters
        doomed |-> {},                         \* adapters waiting for deleteLater()
        previousPath |-> NoPath,
        nextPath |-> 1,
        late |-> FALSE]                        \* history: see ReferencesAgree
  /\ requests = [c \in Client |-> <<>>]
  /\ inbox = [c \in Client |-> <<>>]
  /\ proxies = [c \in Client |->
       [connected |-> FALSE, complete |-> FALSE, reference |-> NoPath, subs |-> {},
        known |-> NoPath,                      \* newest path the registry told it of
        replica |-> {},                        \* its view of the registry
        available |-> {},
        joined |-> FALSE]]                     \* history: snapshot since the last delta

-----------------------------------------------------------------------------
(***************************************************************************)
(* The server.  Operators give the server after a call.                    *)
(***************************************************************************)
\* Each call makes an adapter.
MutantGetOrCreateAdapter(s, a) ==
  [s EXCEPT !.subs = @ \union {[path |-> s.nextPath, object |-> s.heap[a]]},
            !.nextPath = @ + 1]

\* a points to an object.
GetOrCreateAdapter(s, a) ==
  IF \E x \in s.subs : x.object = s.heap[a] THEN s
  ELSE [s EXCEPT !.subs = @ \union {[path |-> s.nextPath, object |-> s.heap[a]]},
                 !.nextPath = @ + 1]

PathOf(s, a) == (CHOOSE x \in s.subs : x.object = s.heap[a]).path

\* The path a client should have, in a set.
Current(s) ==
  IF s.value = Null THEN {NoPath} ELSE {x.path : x \in {y \in s.subs : y.object = s.heap[s.value]}}

\* InterfacePropertyIPCAdapterHandler::update().
Update(s) ==
  IF Pointer(s, s.service) = s.value THEN s
  ELSE IF s.value = Null THEN [s EXCEPT !.service = NoObject, !.adapter = NoPath]
  ELSE LET t == GetOrCreateAdapter(s, s.value)
       IN  [t EXCEPT !.service = s.heap[s.value], !.adapter = PathOf(t, s.value)]

Registered(s) == {x.path : x \in s.subs \union s.doomed}

Subscribed(c) == proxies[c].connected

\* The change signal of the property: the handler is updated, then the
\* signal is sent with the path if it is not the one sent last.  The history
\* variable late ends when the right path is sent.
SendSignal(s) ==
  LET t == IF s.connected THEN Update(s) ELSE s
      changed == t.adapter # t.previousPath
      right == t.adapter \in Current(t)
  IN  IF ~s.connected THEN server' = s /\ UNCHANGED <<inbox, proxies>> 
      ELSE /\ server' = [t EXCEPT !.previousPath = t.adapter, !.late = @ /\ ~(changed /\ right)]
           /\ inbox' = [c \in Client |->
                IF Subscribed(c)
                THEN Append(inbox[c], [kind |-> "signal", changed |-> changed, path |-> t.adapter])
                ELSE inbox[c]]
           /\ proxies' = [c \in Client |->
                [proxies[c] EXCEPT !.joined = @ /\ ~(changed /\ Subscribed(c))]]

\* The raw pointers are compared.
MutantSetValue(s, v) ==
  LET t == [s EXCEPT !.value = v, !.pointer = IF v = Null THEN NoObject ELSE s.heap[v]]
  IN  IF t.previous # v THEN SendSignal([t EXCEPT !.previous = v])
      ELSE server' = t /\ UNCHANGED <<inbox, proxies>>

\* ServiceProperty::setValue().
SetValue(s, v) ==
  LET new == Pointer(s, s.pointer) # v
      t == [s EXCEPT !.value = v,
                     !.valueChanged = @ \/ new,
                     !.pointer = IF ~new THEN @ ELSE IF v = Null THEN NoObject ELSE s.heap[v]]
  IN  IF t.previous # v \/ t.valueChanged
      THEN SendSignal([t EXCEPT !.previous = v, !.valueChanged = FALSE])
      ELSE server' = t /\ UNCHANGED <<inbox, proxies>>

\* QObject::destroyed: QPointers are null, adapters go when the event loop
\* comes to it.
Destroyed(s, a) ==
  LET gone == {x \in s.subs : x.object = s.heap[a]}
      QPointerTo(object) == IF object = s.heap[a] THEN NoObject ELSE object
  IN  [s EXCEPT !.heap[a] = NoObject, !.subs = @ \ gone, !.doomed = @ \union gone,
                !.pointer = QPointerTo(@), !.service = QPointerTo(@)]

-----------------------------------------------------------------------------
(***************************************************************************)
(* The application in the server.                                          *)
(***************************************************************************)
Room == \A c \in Client : Len(inbox[c]) < MaxMessages

Allocated(s, a) == [s EXCEPT !.heap[a] = s.created + 1, !.created = @ + 1]

CreateObject(a) ==
  /\ server.heap[a] = NoObject /\ server.created < MaxObjects
  /\ server' = Allocated(server, a)
  /\ UNCHANGED <<requests, inbox, proxies>>

SetProperty(v) ==
  /\ Room
  /\ v \in {Null} \union {a \in Address : server.heap[a] # NoObject}
  /\ SetValue(server, v)
  /\ UNCHANGED requests

DestroyObject(a) ==
  /\ server.heap[a] # NoObject /\ server.value # a
  /\ server' = Destroyed(server, a)
  /\ UNCHANGED <<requests, inbox, proxies>>

\* The object goes first, then the property gets another value, which may be
\* a new object at the same address.
ReplaceObject(a, v) ==
  LET s == Destroyed(server, a)
  IN  /\ Room
      /\ server.heap[a] # NoObject /\ server.value = a
      /\ \/ v = Null /\ SetValue([s EXCEPT !.late = s.connected], v)
         \/ v \in Address \ {a} /\ s.heap[v] # NoObject /\ SetValue(s, v)
         \/ v = a /\ s.created < MaxObjects /\ SetValue(Allocated(s, a), v)
      /\ UNCHANGED requests

-----------------------------------------------------------------------------
(***************************************************************************)
(* The event loop of the server.                                           *)
(***************************************************************************)
\* The handler's QPointer to the adapter is null from here on.
DeleteLater ==
  \E x \in server.doomed :
    LET s == [server EXCEPT !.doomed = @ \ {x},
                            !.adapter = IF @ = x.path THEN NoPath ELSE @]
    IN  /\ server' = s
        /\ UNCHANGED <<requests, inbox, proxies>>

Receives(c, kind) ==
  /\ requests[c] # <<>> /\ Head(requests[c]).kind = kind
  /\ requests' = [requests EXCEPT ![c] = Tail(@)]

Send(c, message) == inbox' = [inbox EXCEPT ![c] = Append(@, message)]

\* The first one connects the signals.  Snapshots are not recorded in
\* previousPath.
HandleProperties(c) ==
  LET s == IF server.connected THEN server ELSE [Update(server) EXCEPT !.connected = TRUE]
  IN  /\ Receives(c, "properties")
      /\ server' = s
      /\ Send(c, [kind |-> "snapshot", path |-> s.adapter])
      /\ proxies' = [proxies EXCEPT ![c].joined = TRUE]

\* An operation that returns an object.
HandleCall(c) ==
  /\ Receives(c, "call")
  /\ \/ /\ \A a \in Address : server.heap[a] = NoObject
        /\ UNCHANGED <<server, inbox>>
     \/ \E a \in Address :
          LET s == GetOrCreateAdapter(server, a)
          IN  /\ server.heap[a] # NoObject
              /\ server' = s
              /\ Send(c, [kind |-> "reply", path |-> PathOf(s, a)])
  /\ UNCHANGED proxies

\* An adapter whose object is gone does not answer.
HandleSub(c) ==
  /\ Receives(c, "sub")
  /\ IF \E x \in server.subs : x.path = Head(requests[c]).path
     THEN Send(c, [kind |-> "sub", path |-> Head(requests[c]).path])
     ELSE UNCHANGED inbox
  /\ UNCHANGED <<server, proxies>>

-----------------------------------------------------------------------------
(***************************************************************************)
(* A client.                                                               *)
(***************************************************************************)
Connect(c) ==
  /\ ~proxies[c].connected
  /\ proxies' = [proxies EXCEPT ![c].connected = TRUE]
  /\ requests' = [requests EXCEPT ![c] = Append(@, [kind |-> "properties"])]
  /\ UNCHANGED <<server, inbox>>

CallOperation(c) ==
  /\ proxies[c].complete
  /\ \A n \in DOMAIN requests[c] : requests[c][n].kind # "call"
  /\ \A n \in DOMAIN inbox[c] : inbox[c][n].kind # "reply"
  /\ requests' = [requests EXCEPT ![c] = Append(@, [kind |-> "call"])]
  /\ UNCHANGED <<server, inbox, proxies>>

\* The sub-proxy does not look at what the registry already has.
MutantGetOrCreateSubProxy(c, p, path) ==
  /\ proxies' = [proxies EXCEPT ![c] = [p EXCEPT !.subs = @ \union ({path} \ {NoPath})]]
  /\ UNCHANGED requests

\* A new sub-proxy connects if the registry has its path.
GetOrCreateSubProxy(c, p, path) ==
  IF path \notin {NoPath} \union p.subs /\ path \in p.replica
  THEN /\ proxies' = [proxies EXCEPT ![c] =
            [p EXCEPT !.subs = @ \union {path}]]
       /\ requests' = [requests EXCEPT ![c] = Append(@, [kind |-> "sub", path |-> path])]
  ELSE /\ proxies' = [proxies EXCEPT ![c] = [p EXCEPT !.subs = @ \union ({path} \ {NoPath})]]
       /\ UNCHANGED requests

Delivers(c, kind) ==
  /\ inbox[c] # <<>> /\ Head(inbox[c]).kind = kind
  /\ inbox' = [inbox EXCEPT ![c] = Tail(@)]

OnSnapshot(c) ==
  /\ Delivers(c, "snapshot")
  /\ LET path == Head(inbox[c]).path
     IN  GetOrCreateSubProxy(c, [proxies[c] EXCEPT !.complete = TRUE, !.reference = path], path)
  /\ UNCHANGED server

OnSignal(c) ==
  /\ Delivers(c, "signal")
  /\ LET path == Head(inbox[c]).path
     IN  IF Head(inbox[c]).changed
         THEN GetOrCreateSubProxy(c, [proxies[c] EXCEPT !.reference = path], path)
         ELSE UNCHANGED <<proxies, requests>>
  /\ UNCHANGED server

OnReply(c) ==
  /\ Delivers(c, "reply")
  /\ GetOrCreateSubProxy(c, proxies[c], Head(inbox[c]).path)
  /\ UNCHANGED server

\* requestPropertyValues() of a sub-proxy has an answer.
OnSub(c) ==
  /\ Delivers(c, "sub")
  /\ proxies' = [proxies EXCEPT ![c].available = @ \union {Head(inbox[c]).path}]
  /\ UNCHANGED <<server, requests>>

\* The registry's signals.  A path is registered once and withdrawn once, so
\* the signals on their way follow from what the client knows.  checkRegistry()
\* of the sub-proxy, if there is one, connects or disconnects it.
OnAdded(c) ==
  LET path == proxies[c].known + 1
  IN  /\ path < server.nextPath
      /\ proxies' = [proxies EXCEPT ![c].known = path, ![c].replica = @ \union {path}]
      /\ requests' = IF path \in proxies[c].subs
           THEN [requests EXCEPT ![c] = Append(@, [kind |-> "sub", path |-> path])]
           ELSE requests
      /\ UNCHANGED <<server, inbox>>

OnRemoved(c) ==
  /\ \E path \in proxies[c].replica \ Registered(server) :
       proxies' = [proxies EXCEPT ![c].replica = @ \ {path}, ![c].available = @ \ {path}]
  /\ UNCHANGED <<server, requests, inbox>>

-----------------------------------------------------------------------------
ApplicationStep ==
  \/ \E a \in Address : CreateObject(a) \/ DestroyObject(a)
  \/ \E v \in Address \union {Null} :
       SetProperty(v) \/ \E a \in Address : ReplaceObject(a, v)

HandleStep(c) == HandleProperties(c) \/ HandleCall(c) \/ HandleSub(c)

DeliverStep(c) == OnSnapshot(c) \/ OnSignal(c) \/ OnReply(c) \/ OnSub(c)

Next ==
  \/ ApplicationStep \/ DeleteLater
  \/ \E c \in Client :
       Connect(c) \/ CallOperation(c) \/ HandleStep(c) \/ DeliverStep(c) \/ OnAdded(c) \/ OnRemoved(c)

Spec == Init /\ [][Next]_vars

\* Event loops and the bus go on.
Fairness ==
  /\ WF_vars(DeleteLater)
  /\ \A c \in Client :
       WF_vars(HandleStep(c)) /\ WF_vars(DeliverStep(c)) /\ WF_vars(OnAdded(c))

FairSpec == Spec /\ Fairness

-----------------------------------------------------------------------------
(***************************************************************************)
(* Correctness.                                                            *)
(***************************************************************************)
\* A client that has handled what was sent to it has a sub-proxy of the very
\* object the property points to, also if that object has the address of one
\* that was destroyed ("in order to be able to detect object destructions",
\* ServiceProperty.h).  Excepted are a property that is cleared right after
\* its object was destroyed, which update() overlooks, and one that goes back
\* to the path sent last, when snapshots have told the client another.
ReferencesAgree ==
  \A c \in Client :
    proxies[c].complete /\ inbox[c] = <<>> =>
      \/ proxies[c].reference \in Current(server)
      \/ server.late
      \/ proxies[c].joined /\ server.previousPath \in Current(server)

\* A client reaches the object its property refers to, as long as it lives.
ReferencesReachable ==
  \A c \in Client, path \in Path :
    proxies[c].reference = path
      ~> \/ path \in proxies[c].available
         \/ proxies[c].reference # path
         \/ \A x \in server.subs : x.path # path
=============================================================================
