# Facelift: models, model checking and proofs

Facelift lets Qt/QML applications define interfaces (qface files), implement
them in one process and use them from others. This directory holds TLA+
modules for the parts of it in which order, concurrency and failure matter,
TLC configurations that check them on small systems, and TLAPS proofs.
Everything is translated from the sources under `src/src` and from the
templates of generated code under `src/codegen/facelift/templates`. Paths below
are relative to `src/src/` unless they start with `src/`.

## 1. The system

| component | state it keeps | operations | correct if | module |
|---|---|---|---|---|
| **D-Bus object registry** (`ipc/dbus/DBusObjectRegistry`) | in every process a replica of the map "object path -> process", with a version; in the master the map itself | `init`, `registerObject`, `unregisterObject`, `getObjects`, `syncObjects`, `onObjectAdded/Removed` | replicas follow the master's map, in order, from whatever snapshot they start; entries match the exported services | `ObjectRegistry` |
| **D-Bus service adapter** (`ipc/dbus/IPCDBusServiceAdapterBase`, generated adapters) | registration, previously sent property values, message being put together | `registerService`, `unregisterService`, `handleMessage`, `sendSignal` | a client that got a snapshot and all later deltas has the service's values | `PropertySync` |
| **D-Bus proxy and binder** (`ipc/dbus/DBusIPCProxyBinder`, `DBusIPCProxy`, generated proxies) | name of the server, registered/available/ready, property values | `checkRegistry`, `onServiceNameKnown`, `requestPropertyValues`, `onSignalTriggered`, `call`, `asyncCall` | availability and values track the server through restarts | `PropertySync` |
| **D-Bus connection** (`ipc/dbus/DBusManager`) | the connection | `registerServiceName`, `serviceName` | - | `ObjectRegistry` |
| **Observable map** (`ipc/ipc-common/Registry.h`) | content, listeners per key | `insert`, `remove`, `setContent`, `addListener` | each change is told to the listeners of its key | `InProcess`, `ObjectRegistry` |
| **Local IPC** (`ipc/local`) | adapters by path, one adapter per binder | `registerAdapter`, `asyncCall` (zero timer), direct signals | a proxy follows adapters that come and go; an answer arrives once | `InProcess` |
| **Asynchronous answers** (`model/TAsyncAnswerMaster.h`) | answered flag, context | `call` | at most one answer, to a living caller | `InProcess` |
| **Provider selection** (`ipc/ipc-common/IPCProxy.h`, `InterfaceManager`) | provider in use, enabled binders | `refreshProvider`, `enableBinder` | the best available provider is in use | `InProcess` |
| **Service adapter front end** (`ipc/ipc-common/NewIPCServiceAdapterBase`) | registered flag | `onValueChanged` | registered exactly while complete and enabled | `InProcess` |
| **Model property over IPC** (`ipc/ipc-common/IPCProxyModelProperty.h`, `IPCAdapterModelPropertyHandler.h`) | cache, requested rows, placeholders | `modelData`, `requestItemsAsync`, `handleSignal` | the view ends up with the model's rows | `ModelRows` |
| **Most-recently-used cache** (`common/FaceliftUtils.h`) | list and index | `get`, `insert`, `remove` | list and index agree, bounded size | `MostRecentlyUsedCache` |
| **Properties and bindings** (`model/TProperty.h`, `PropertyBase`) | value, dirty flag, triggers | `value`, `setValue`, `bind`, `reevaluate` | a clean value is the binding's value | `Bindings` |
| **Interface references over IPC** (`ipc/ipc-common/IPCServiceAdapterBase.h`, `model/ServiceProperty.h`) | adapters of sub-objects, sub-proxies | `getOrCreateAdapter`, `getOrCreateSubProxy`, `update` | one adapter per sub-object, a reference leads to the object it means | `References` |
| **Structures and lists in QML** (`model/TQMLImplListProperty.h`, `ImplementationBaseQML.template.h`) | wrappers assigned, connections to their fields | `sync`, `SetWrapper`, `refreshList`, `assignFromGadget` | the service's values follow the wrappers QML assigned | `QmlStructures` |
| serialisation, code generator, build | - | - | - | not modelled, section 8 |

Interactions: a service adapter front end registers a service in process and on
each transport. On D-Bus the adapter exports the object and tells the object
registry, which is itself such a service, living in the process that owns a
well-known bus name. A proxy looks the object up in its process's replica,
subscribes to the server's signals and asks for a snapshot of the properties
(`GetAllProperties`), synchronously or not. A property may itself be a reference
to another service object, which gets an adapter and a path of its own, or a
model, whose rows the proxy fetches in windows. Everything in a process runs on
one event loop; concurrency is between processes, between queued messages and
blocking calls, whose answers overtake the messages queued before them, and
between a slot and the emission it is called from.

What is hard here: a snapshot and the deltas around it take different ways;
blocking calls reorder; servers start, stop, die and come back; slots are called
synchronously and may re-enter the object that emits; answers arrive after the
thing they are about has changed; pointers outlive objects. `PROJECT.json` lists
these hazards at their lines, with the properties that watch each of them.

How the modules relate: `ObjectRegistry` has every process and every path;
`PropertySync`, `References` and `InProcess` see the registry from one path each
and take from it what `ObjectRegistry` establishes (entries follow the calls in
order). `InProcess` composes the provider selection, the Local IPC, the registries
of a process and the front ends, with D-Bus reduced to snapshots and updates,
whose detail is `PropertySync`. `ModelRows` extends `MostRecentlyUsedCache`.
`Bindings` and `QmlStructures` are about one thread.

## 2. Plan and state of the work

Done: `ObjectRegistry` with its abstract specification `RegistryView`, the
map to it `ObjectRegistryView`, the variant `ObjectRegistryReentrant` and the proofs
`ObjectRegistryProofs` and `RegistryViewProofs`; `PropertySync` with the proofs
`PropertySyncProofs`; `MostRecentlyUsedCache` and `ModelRows` with the proofs
`ModelRowsProofs`; `InProcess` with the proofs `InProcessProofs`; `Bindings` with the
proofs `BindingsProofs`; `References` with the proofs `ReferencesProofs`; `QmlStructures`
with the proofs `QmlStructuresProofs`.

Left, in this order:

1. Death of the registry's master: replicas keep their maps and versions, and the
   numbers of a successor start again.
2. Models bound to other models (`ModelListModel`), and the adapters through which
   QML *uses* a service.

The modules are written to be proved about: parameters are CONSTANTS with a
named assumption, one action per operation, invariants are conjunctions of named
parts. Recursion is written with recursive functions; there are no RECURSIVE operators.

Two conventions hold in all modules. A *history variable* or field records that
something happened which the code does not repair, and is read by properties only,
which name it as their exception; section 7 says what the program does then. An
operator whose name starts with `Mutant` is a definition as a plausible mistake
would have it; `PROJECT.json` says which property notices it.

## 3. The object registry

`ObjectRegistry.tla` models all processes of a system.

| model | code |
|---|---|
| `nameOwner`, `phase` | who owns the registry's bus name; how far `DBusObjectRegistry::init()` got (`naming`: the name is taken, the object not yet exported) |
| `objectMap`, `version` | `MasterImpl::m_objectMap`, `m_version` |
| `signalsConnected` | `m_signalsConnected` of the registry's own D-Bus adapter: set by the first `GetAllProperties` |
| `objects`, `registryVersion` | each process's `m_objects`, `m_registryVersion` |
| `awaited` | the process that a blocking call of the master's own process waits for |
| `refused`, `missed` | history: whose `GetAllProperties` was refused; who then had a snapshot of the map when it changed and no signal was sent |
| `requests`, `signals`, `asyncReply`, `blocked`, `syncReply` | messages on the bus and the blocking call a process is inside of |
| `exported` | paths whose adapter has `m_alreadyInitialized` |
| `InitAsMaster`, `MasterInit`, `InitAsReplica` | `init()`: the two halves of becoming master, and becoming a replica |
| `RegisterService`, `UnregisterService` | `IPCDBusServiceAdapterBase::registerService/unregisterService`, followed by a direct call in the master's process and by a message elsewhere |
| `HandleRegisterObject`, `HandleUnregisterObject`, `HandleGetAllProperties`, `HandleGetObjects` | the master's adapter handles a call; `GetAllProperties` makes it forward signals, `getObjects` answers with the map |
| `RefuseRequest` | a call arrives while the object is not exported: an error reply, which `asyncCall` drops and the blocking call turns into an empty map |
| `OnObjectAdded`, `OnObjectRemoved`, `OnGetObjectsReply` | the replica's slots and the answer to the `getObjects()` call of `init()` |
| `SyncObjects`, `SyncPropertiesReturn`, `SyncObjectsReturn` | `syncObjects()`: the blocking `GetAllProperties` of `connectToServer()`, then the blocking `getObjects()` |
| `MasterCalls`, `MasterCallReturns` | the master's process is inside a blocking call to the process behind an entry, as `checkRegistry()` of a synchronous proxy makes them |
| `SyncCallTimesOut`, `MasterCallTimesOut` | the time limit of the bus ends a blocking call |
| `Crash` | a process other than the master disappears |

A process handles its messages one at a time and to the end, so an action is a
whole handler. `MasterInit` is one action although it spans several statements:
between them the process does not return to its event loop, and what the bus
answers in the meantime is covered by the `naming` phase before it. An element of
`Proc` is one run of a process, since the bus never gives a unique name twice.
`Serves` gives several processes the same path: a service that is handed over
from one process to another, two that compete for it, or a process that died and
was started again.

Abstractions, each on purpose:

- The bus keeps the order of messages from one process to another. The
  asynchronous answer shares this order with the signals (`behind` counts the
  signals sent before it); the blocking call's answer does not, because the
  caller reads it while its signals wait.
- The registry's own path is not in the map. Exporting it uses up one version,
  which `MasterInit` does.
- A replica subscribes and sends its first two calls in one step; the code does so
  without returning to the event loop. They are two messages, `GetAllProperties`
  and `getObjects`, and meet their fate one by one: the first may be refused while the
  master's object is not exported, and the second answered once it is.
- Of the answer to `GetAllProperties` only its arrival counts, the registry has no
  properties.
- A blocking call of the master's process is made between two of its steps. In the code
  it can also be made by a listener in the middle of one, after the map has changed and
  before the change's signal is sent; the signal then leaves after the
  call, and the registry sends nothing in between: for the receivers it is a signal that took longer.
- Calls time out only while the master's process waits itself: otherwise it gets to
  every call. The blocking calls replicas make to each other, hence longer chains of
  waiting processes, are not modelled.
- `m_busWatcher` of the registry's proxy watches a name that is owned already and stays
  so, and has no part in it.
- The listeners of `m_objects` are not called; `ObjectRegistryReentrant` models
  the one effect they have on the registry itself.
- The master's process does not die.

`ObjectRegistryReentrant.tla` adds a listener in the master's process that
registers or withdraws a service of its own when it is told of a new entry. Both
changes are applied in order, but the signal of the outer one is sent last.

`RegistryView.tla` is what the registry promises, without messages or versions:
one map, and in each process a view that is unknown at first and then passes
through the map's later values in order, never back. The one gap of the promise is part
of it: before anybody is told of changes (`told`), a process may be turned away, and if it
follows the map all the same it is lost at the next change (`lost`). `ObjectRegistryView.tla`
maps the detailed state to it: what a process is going to see (`Upcoming`) is what the
signals in its queue that carry the next versions will make of its replica, or of
the snapshot on its way to it.

- `Agreement`: a replica with a snapshot and no queued signal is the master's map,
  unless it is `missed`: its `GetAllProperties` was refused, its `getObjects` answered, and the
  map changed before another process's `GetAllProperties` arrived (section 7).
- `AcceptedSignalsApply`: an accepted signal always changes its path, so but for `missed`
  replicas the branches that log a critical message are dead.
- `EntriesBacked`: no entry outlives the service it stands for, except while the
  call that removes it is queued or after a death.
- `NoSelfCollision`: a registration is never turned down because of the same
  process's earlier one; another process's entry may be in its way.
- `RefinesRegistryView`: the registry implements `RegistryView`; a process is `lost` there
  exactly when it is `missed` here.
- `SyncObjectsReturns`: the blocking synchronisation returns, also when the master's process
  is in a blocking call to the very process that waits for it. `src/doc/page-ipc.h:41-42`
  warns of this deadlock; the time limit of either call ends it, and neither process can end it by itself.
- `EntriesBecomeKnown`: a difference between a replica and the map ends, unless the replica
  is `missed`.
- `ServedGetRegistered`: a registration the master's object can still receive gives
  the path an entry.
- `ReplicasIdentifyServers`: what `src/doc/page-ipc.h` says of the registry;
  violated with a re-entrant listener.

## 4. The other modules

### Property values over D-Bus

`PropertySync.tla` models one service object, the adapters that export it one
after the other, and one D-Bus proxy of it in each client process.

| model | code |
|---|---|
| `service` | the values of the service object's properties and its readiness |
| `registered`, `signalsConnected`, `previous` | the present adapter: `m_alreadyInitialized`, `m_signalsConnected`, the generated `m_previous...` members |
| `announcements` | the adapters' calls `registerObject`/`unregisterObject` to the object registry |
| `calls`, `inbox`, `syncReply`, `blocked` | the bus: calls to the adapter, what a client's event loop has to deliver, the blocking call a client is inside of |
| `known` | whether the client's registry replica has an entry for the path |
| `created` | the proxy is complete and enabled (`m_explicitServiceName` is not set) |
| `bound`, `available` | `m_serviceName` set, `m_serviceAvailable` |
| `values`, `notified` | the proxy's values; what a listener read when the proxy last emitted the property's change signal |
| `ChangeValue`, `Effects` | a property setter of the service, with a slot that changes one more property before the adapter's slot runs |
| `RegisterService`, `UnregisterService` | `IPCDBusServiceAdapterBase::registerService/unregisterService`; the adapter is destroyed after the latter |
| `HandleGetProperties`, `HandleSetter`, `RefuseCall` | `handleMessage()` and the generated `handleMethodCallMessage`; an error when nothing is exported |
| `Signals` | `sendSignal` with `initOutgoingSignalMessage`/`serializePropertyValues(.., false)`: each value that differs from `m_previous...` |
| `ConnectToServer`, `CheckRegistry` | `connectToServer()`, `checkRegistry()`, `onServiceNameKnown()`, `requestPropertyValues()` |
| `OnReply`, `CallReturns`, `ApplySnapshot` | the answer to `GetAllProperties`: `deserializePropertyValues(.., true)`, `setServiceRegistered(true)` |
| `OnSignalTriggered` | `onSignalTriggered`, `deserializePropertyValues(.., false)`, then the signal's own slot |
| `OnRegistryChanged` | the registry's `objectAdded/objectRemoved` followed by `checkRegistry()` |

Items come in two kinds. The plain properties (`Plain`) have their `m_previous...`
member set by `connectSignals()` when the first snapshot is asked for. The readiness and
interface properties (`Lazy`) do not: theirs stays at the default until the first
change signal. Most of what is delicate comes from that difference.

Abstractions: the registry is seen from one path, its entry follows the adapter's
calls in order, and its signals share a client's queue with everything the bus
carried before them. The bus preserves the order of all messages to one client,
except that a blocking call's answer is read while the queue waits. A
subscription takes effect at once, and an update that is in the queue when a proxy
disconnects is still delivered: QtDBus has posted it already. A setter may cause
the change of one more item, not of a chain of them. Names on the bus are unique,
so `m_busWatcher` has no part in it: the service's process lives. Setters of a
proxy without a service do nothing, as in the code, and are no action.
`overtaken` is history: a blocking proxy connected with updates in its queue, which
were sent before its last disconnection and which its snapshot overtakes; it ends when
the proxy disconnects again. `notified` is kept for plain properties only.

- `AvailabilityFollows`: once nothing is under way, a proxy is available exactly
  when its service is exported.
- `ValuesAgree`: an available proxy that has handled every message has the
  service's values, unless it is `overtaken`. For readiness and interface properties the code achieves
  less, and the property says how much: what is ready or set is seen so.
- `ListenersUpToDate`: who only listens to a proxy's change signals has its present values.
- `SignalsFollowValues`: when an asynchronous proxy triggers a signal, its property
  values are those the service had when it sent the signal.
- `ProxiesBecomeAvailable`: a created proxy of a service that stays exported gets available.
- `BlockingCallsReturn`: a blocking call ends, by its answer or by an error.

### Rows of a model property

`ModelRows.tla` models a service's model, the proxy that fetches its rows in
windows and caches them, and a view. `MostRecentlyUsedCache.tla` is the cache:
a list of keys, most recently used first, and an index of items.

| model | code |
|---|---|
| `rows`, `ChangeRow`, `InsertRow`, `DeleteRows`, `MoveRow`, `ResetRows` | the service's `facelift::Model` and the signals of `IPCAdapterModelPropertyHandler` |
| `proxy.cache` | `m_cache` |
| `proxy.asked` | `m_itemsRequestedFromServer` |
| `proxy.placeholders` | `m_itemsRequestedLocally` |
| `RequestItems`, `Obtain`, `Prefetch`, `ReadRow` | `requestItemsAsync()`, `modelData()` and the blocking request of synchronous proxies |
| `Served`, `HandleRequest`, `RefuseRequest` | `handleModelRequest()`, and the bus's answer when nothing is exported |
| `TakeAnswer` | the answer's handler, with the `dataChanged` of rows that were given as placeholders |
| `OnChanged`, `OnInserted`, `OnDeleted`, `OnMoved`, `OnReset`, `OnSnapshot` | `handleSignal()` and the size in a snapshot |
| `Show`, `Hide` | a delegate of the view is created or destroyed |

The view is an index-to-item map as `ListView` and `QAbstractListModel` maintain it:
it shifts its rows with the model's signals and reads a row when a delegate
appears or `dataChanged` names it. Abstractions: the view detaches when the
service is withdrawn and attaches again at a snapshot; the client has one inbox in
the order of the bus; a blocking call is one step that overtakes the inbox
(`overtaken` records it when a queued insertion, removal or move was among what it
overtook); the model changes only while it is exported. Neither the cache nor `asked` is cleared by a withdrawal
(`renewed`). `shuffled` records that a placeholder lost its place to an insertion,
removal or move.

- `RowsAgree`: once all is delivered the view has as many rows as the model, and
  shows the model's item, a placeholder or nothing in each.
- `CacheIsCurrent`: the cache holds present items only, even under overtaking calls.
- `RequestsAnswered`: no row is remembered as asked for when no answer is under way.
- `RowsArrive`: a placeholder ends, and so does prefetching.
- `InvalidItemsReminded` (violated): every placeholder is repaired.

### The providers in a process

`InProcess.tla` models one object path in one process: the service adapter front
end and its transports, the interface manager, the Local IPC and the registries, and
the front ends (`IPCProxy`) of clients, which choose between the service object,
the Local IPC proxy, the D-Bus proxy and a dummy. The service lives in this process
("here") or another one ("elsewhere").

| model | code |
|---|---|
| `RegisterService`, `UnregisterService`, `DeleteService` | `NewIPCServiceAdapterBase`: registration with `InterfaceManager` and each transport, and the deletion of the service under its front ends |
| `SetManager`, `SetLocalEntry`, `SetReplica` | `InterfaceManager`, `LocalIPCRegistry` and the replica of the D-Bus registry (`Registry.h`), which tell their listeners in the order they were added |
| `RefreshProvider`, `CheckLocalAdapter`, `CheckServiceAvailability` | `IPCProxy::refreshProvider()` with `enableBinder`, and what calls it |
| `Wrap` | `setWrappedObject`: the differences between the old and the new provider are signalled |
| `BindLocal`, `SendSignal`, `ReadProperties` | `LocalIPCProxyBinder`, the shared `LocalIPCMessage`, the synchronous snapshot |
| `BindDBus`, `UnbindDBus`, `CheckRegistry`, `OnEntry`, `OnSnapshot`, `OnUpdate` | `DBusIPCProxyBinder`, from the front end's side |
| `MakeCall`, `HandleCall`, `AnswerCall`, `Lost` | `asyncCall()` by zero timer, the adapter's `handleMessage`, `TAsyncAnswerMaster` |
| `ChangeValueTwice` | a slot of the service's change signal changes the property again |
| `ExportElsewhere`, `WithdrawElsewhere`, `ChangeElsewhere`, `HandleAnnouncement` | another process's adapter and the D-Bus registry |

`master` says whether this process holds the D-Bus registry, so that its calls to it are direct.
Abstractions: one object path; a front end's path and service name are set before it is
complete, and there is no explicit service name; the service is ready as long as it
exists (readiness is in `PropertySync`); a blocking snapshot is one step; one
process exports at a time; a nested `refreshProvider()` ends as the outer one
would; an asynchronous front end's Local binder is not disabled; the list of
listeners that grows with each `setObjectPath()` only repeats work and is not
modelled; calls go through the Local IPC only; each call is answered at most once,
which the code asserts. The history fields are `outdated` (the D-Bus binder was
disabled, or not yet bound, when the registry changed), `starved` (the message had been read by
another binder), `dropped` (a nested signal was not sent on), `unaware` (the wrapped service
object was deleted), `overtaken` (a blocking snapshot was read ahead of an older update that still
waits).

- `BestProviderInUse`, `ServiceFound`: each front end ends up with the best provider.
- `ValuesArrive`: whoever uses the service sees its value, through whatever provider.
- `ListenersUpToDate`: listeners know readiness and value, across changes of provider.
- `CallsHaveAdapter`: no call goes through a Local IPC proxy without an adapter.
- `CallsEnd`: a call is answered or its service is gone.
- `SignalsCarryValues` (violated): updates come with the signal.

### Properties and bindings

`Bindings.tla` models the properties of one object in one thread, with the stack
made explicit: `stack` holds the emissions under way with the slots they still have
to run, `setReady()` signals, and what is left of `bind()` and of a setter. `value`,
`previous`, `bound`, `ready` and `connections` are `m_value`, `m_previousValue` (as
`isDirty()` compares it), `m_getterFunction`, the ready flag and the connections of the
change signal. `Set`, `BindProperty`, `Increment`, `SetNotReady`, `Listen` are what an
application does between emissions; `RunSlot`, `EndEmission`, `RunReadySlot`,
`NotifyAfterReady`, `ConnectTriggers` go on with the innermost frame. One listener
reacts to one signal with one operation, chosen at the start. A getter is a function
of the properties it is triggered by (`Result`, any function); the notification in a
later turn of the event loop is not enabled. The history fields are `stale` (a bound
property changed behind its binding's back), `reverted` (an input of it changed and
changed back before its signal was emitted) and `undone` (a property set between
`bind()` and `addTrigger()`).

- `BindingsHold`: when a change and all it causes is over, bound properties have
  their getters' values.
- `ListenersCurrent`: listeners have read the present values.
- `GetterPresent`: `reevaluate()` finds a getter.
- `Settles`: a change ends, does not nest without bound, and leaves no connections of
  earlier bindings behind (`ConnectedOnce`).

### References to other service objects

`References.tla` models a property that points to another service object, an
operation that returns one, the adapters and paths the server gives to such objects
and the sub-proxies clients make of the paths. `heap` says which object, told by its serial
number, is at which address: an object may be destroyed and another one allocated in
its place while the property and the adapter hold raw pointers (`value`, `previous`) or
QPointers (`pointer`, `service`). `GetOrCreateAdapter`, `Update`, `SendSignal`,
`SetValue`, `Destroyed`, `DeleteLater` translate `IPCServiceAdapterBase`,
`ServiceProperty` and the interface property handler; `GetOrCreateSubProxy` and the
`On...` actions translate the client. Abstractions: one interface property; each path
is registered once and withdrawn once, so the registry's signals on their way follow
from what the client knows; the application acts when few messages wait; one call
under way per client. `late` and `joined` are history (section 7).

- `ReferencesAgree`: a client that has handled everything refers to the very object
  the property points to.
- `ReferencesReachable`: it can use that object, as long as it lives.

### Structures and lists in QML

`QmlStructures.tla` models a service implemented in QML with a structure property
and a list of structures, to which QML assigns gadgets (values) or wrappers
(objects whose fields QML goes on changing). `pointer` is the
`QObjectWrapperPointer`, `assigned` is `m_assignedVariantList`, `slots` the connections
of `anyFieldChanged` in the order they were made. Slots run at once, so each operator
gives the state after a call and all it leads to; a handler in QML reacts once per
action, with the change of a field or another assignment, chosen with the action. What
happens when QML is told of a change is the operators' argument `tell`: in a call from
outside its handlers read and react (`Hear`), and in the call they react with they only
read (`Read`). One definition of each operator thus serves for both.
Setters implemented in QML are not modelled. `unheard` and `foreign` are history (a field
changed before the wrapper was connected, a client's setter); `undefined` says that
the code read a destroyed wrapper, and the model ends there.

- `StructureFollows`, `ElementsFollow`: the service's values are those of the
  wrappers that are assigned.
- `HandlersCurrent`: what QML has read when it was told last is what it would read now.

## 5. Runs

| run | system | checks | result |
|---|---|---|---|
| `registry_safety` | three processes, two of which serve the same path (`OnePath`), one of the two with synchronous proxies and called by the master's process; up to 2 signals and 2 calls queued | `TypeOK`, `Agreement`, `AcceptedSignalsApply`, `EntriesBacked`, `NoSelfCollision`, `RefinesRegistryView` | hold, 1,426,403 states |
| `registry_liveness` | two processes with a path in common (`Shared`), of which the master's may call the other; up to 3 signals and 2 calls queued | `SyncObjectsReturns`, `EntriesBecomeKnown`, `ServedGetRegistered` | hold, 172,821 states |
| `registry_reentrant` | two processes, a listener in the master | `ReplicasIdentifyServers` | violated: a nested change is sent before the one it reacts to |
| `property_safety` | an asynchronous and a synchronous proxy, one writable property and the readiness | `TypeOK`, `AvailabilityFollows`, `ValuesAgree`, `ListenersUpToDate`, `SignalsFollowValues` | hold, 10,910,551 states |
| `property_liveness` | the same with shorter queues | `ProxiesBecomeAvailable`, `BlockingCallsReturn` | hold, 85,561 states |
| `model_rows` | a model of two rows that grows to four, cache of 3, prefetch of 1, two changes or withdrawals, two messages and two requests under way | `TypeOK`, `RowsAgree`, `CacheIsCurrent`, `RequestsAnswered`, `RowsArrive` | hold, 622,391 states |
| `model_reminded` | three rows, one change | `InvalidItemsReminded` | violated: a placeholder that moved keeps its place in the view |
| `in_process` | a synchronous and an asynchronous front end, a service exported twice, one call | `TypeOK`, `BestProviderInUse`, `ValuesArrive`, `ListenersUpToDate`, `CallsHaveAdapter`, `ServiceFound`, `CallsEnd` | hold, 502,610 states |
| `in_process_shared` | two asynchronous front ends | `SignalsCarryValues` | violated: the second reader of a message finds nothing |
| `bindings` | three properties in a triangle of bindings, one with a ready flag, every single reaction of a listener | `TypeOK`, `BindingsHold`, `ListenersCurrent`, `GetterPresent`, `Settles` | hold, 1,043,069 states |
| `references` | one client, three objects at two addresses | `TypeOK`, `ReferencesAgree`, `ReferencesReachable` | hold, 737,995 states |
| `qml_structures` | two wrappers of two fields, lists of two | `TypeOK`, `StructureFollows`, `ElementsFollow`, `HandlersCurrent` | hold, 45,032 states up to symmetry |

**Bounds.** *Registry.* `MaxVersion` stands for `INT_MAX`; with 4 or 5 the versions 1..3 or
1..4 wrap after two or three changes, so every run passes the wrap many times. `MaxSignals`
bounds the signals queued, or to be queued, in a process: 2 and 3 are the most that windows of
three and four versions allow, and the calls that change the map count, so that a change the master is
about to handle always finds room. Behind `Room` stands a property of the code worth
knowing: were INT_MAX - 1 signals queued in a process, a version could be mistaken for its
successor one wrap later. `MaxRequests` bounds the calls a process sends before the master
handles them: 2 are the two calls of `init()`, or a withdrawal and a registration, and the
blocking calls come on top. Three processes are a master and two replicas, so that one replica's
`GetAllProperties` can arrive early, late or never for the other; the process without
services is there to be a master that only watches. Two processes are what a mutual wait takes. The
refinement is checked in the safety run, since it has no liveness part.

*Properties.* `MaxInbox` is the number of messages that may wait in all clients together when
the service changes by itself; a change then adds up to two per client (a nested change and its cause),
and setter calls, answers and registry signals under way add theirs. In `property_safety`
a change is possible with two waiting (`MaxInbox` is 3), so an old adapter's update, a withdrawal,
a new entry and a new update meet in one queue, and the exception of `InOrder` is reached: without it
TLC finds `ValuesAgree` violated. `MaxCalls` (1) bounds the calls under way: no setter is called while another call
waits, and a service is exported again with at most one call per client waiting. Snapshot
requests are not bounded, so a setter call and the other proxy's request still race, and so
do a request made to a withdrawn adapter, which the next one handles, and the request that
follows it. `MaxEvents` (1) bounds what the registry has not handled. Two values tell old from
new. Two clients are what it takes for one proxy's snapshot to affect another one's
messages; they are of different kinds, so symmetry is not used.

*Rows.* Two changes are enough for one to meet the answer to a request made before the other; a
withdrawal counts as one, and two messages may wait when a change comes;
a cache of `2 * PrefetchCount + 1` is the smallest that holds a window, so that a fourth row
evicts. The view shows one row at a time and may move on to any other.

*In process.* Two exports are a service that moves (here, elsewhere, in either order) or comes
back; two messages on the bus are an entry and an update, or the withdrawal of one
service and the entry of the next. With three messages, where two updates may wait when a blocking
snapshot overtakes them, the invariants hold as well (1,024,236 states); the run has two because the
temporal properties take the time.

*Bindings.* Three properties are the smallest graph in which a property depends on another
one directly and through a third. `MaxDepth` stands for the end of the thread's stack: `Settles` fails if
nesting ever reaches it, since the stack step is then disabled for good. Values 0..2 let a
change lead to two different later values. The getters add their inputs up. The property
with a ready flag is the one in the middle, which is an input and bound itself.

*References.* Three objects at two addresses are one that is destroyed, one at its address and one
elsewhere. *QML.* Two wrappers can replace each other, be in a list twice or be destroyed one by
one; symmetry exchanges them.

**Deadlock** is checked in `property_safety`, `property_liveness`, `registry_reentrant` and
`references`. Elsewhere the system may stop: when all processes but a master without services are
dead, when the bounded number of changes or exports is used up, when an assertion of the code has
failed (`failed`), or behind undefined behaviour (`undefined`).

**Fairness.** Everywhere it says that event loops and the bus keep running, and never that an
application acts: nothing obliges a service to register, to stay or to change, a client to appear,
a view to scroll.
- *Registry*: `init()` finishes, the master handles what is sent to it, a process handles what
  is sent to it, and a blocking call of the master's process ends, by its answer or by the
  time limit of the bus (`CallEnds`; QtDBus waits 25 seconds). Handling is strongly fair
  because the master's process, whatever calls it makes, comes back to its event loop between
  them, and because `Room`, a bound of the model and not of the code, may switch it off and on.
- *Properties*: the registry publishes what it is told (`PublishEntry`), the service's process
  handles each client's calls (`HandleStep`), each client's event loop or blocking call takes what
  has come for it (`DeliverStep`), all weakly fair.
- *Rows*, *in process*: weak fairness of the service's handling and of the client's deliveries,
  with the condition under which the step is enabled written out, which is what lets TLC evaluate
  it quickly. In process a service also answers the calls it was given.
- *Bindings*: the thread goes on with what it has begun.
- *References*: deferred deletions, calls, deliveries and new registry entries go on.

## 6. Proofs

`ObjectRegistryProofs.tla` proves, for any set of processes and paths, any
assignment of services and any bounds that satisfy `ConstantsAssumption`:

- `TypeCorrect`: `Spec => []TypeOK`
- `ReplicasAgree`: `Spec => []Agreement`
- `SignalsApply`: `Spec => []AcceptedSignalsApply`

`Agreement` is not inductive: it says nothing about a replica with signals in its
queue. The inductive invariant `IInv` counts versions backwards from the master's.
The i-th of n queued signals is n - i versions back (`Numbered`). A replica, or a
snapshot that is on its way, lags behind by some number of signals at the end of
the queue, its version is as many versions back, and these signals, each of which
changes its path, lead from its content to the master's map (`Behind`,
`Explains`). A change in the master moves every version one further back and makes
the queues one longer, so lags grow by one with their queue (`BehindAppend`); a
delivered signal is either not among those a replica lacks, and the lag stays
(`BehindTail`), or is the first of them, and it becomes one less (`BehindHead`).
That the version test tells the two apart is the lemma `AcceptsHead`: it holds
because the queue is shorter than the cycle of the versions (`Window`), which is
what `Room` guarantees. The rest of `IInv` says who may have queues, snapshots
and calls at all: one master, no signals before the adapter forwards them, at
most one snapshot of each kind under way. While no signals are forwarded, a process that has a
snapshot was refused its `GetAllProperties` (`SilentInv`), because that call is ahead of
`getObjects` in its queue (`AskInv`); at a change of the map these are the processes that
become `missed`, and the only ones. What `Behind` says is claimed of all the others.

Its second half goes on from there:

- `EntriesAreBacked`: `Spec => []EntriesBacked`
- `NoCollisionWithItself`: `Spec => []NoSelfCollision`

Neither is inductive, because a process may withdraw and export a service several
times before the master handles the first of these calls. The strengthening `EInv`
reads the calls a process has under way as what it wants the master to think of a
path: after `registerObject` the path is wanted, after `unregisterObject` it is not,
and after the last call about it, it is wanted exactly if the process exports it
(`Wanted`). Then the calls about one path alternate (`Alternating`), and an entry of
the master's map stands for a path that was wanted before the first queued call. A call
that is appended changes what is wanted only behind itself (`WantedAppend`); a call that is
handled is the first one, and the map then says what was wanted behind it
(`WantedTail`). The master's own process has no queue (`MasterQuiet`).

`RegistryViewProofs.tla` proves that the registry implements its abstract specification:

- `Refinement`: `Spec => RefinesRegistryView`

What a process is going to see (`Upcoming`) is a recursive function of its queue. It is
characterised by `Replays`: a sequence that begins with the replica's map and applies one
signal at each place is that function's value, since of two different solutions one would
have a first place where they differ (`NaturalMinimum`, `ReplaysIsValues`). From there on
the recursion is not looked at again. `IInv` says at which place in the queue the first
signal is that a replica, or a snapshot on its way, will accept (`NextSignalIs`), and three lemmas
say what a queue's changes do to the values to come: a signal that is appended adds one at
the end (`LaterAppend`), one that is ignored changes none (`LaterSkips`), one that is
accepted takes the first away (`LaterTakes`). A second invariant, `UnknownInv`, says that
a process that has not synchronised has an empty map. Then each action is a step of `RegistryView` or a
stutter: what changes the master's map is `Change`, seen at once by the master itself
and later by the others; to become the master and to answer `getObjects` is `Follow`; a
blocking synchronisation is `Follow`, or `SkipAhead` when an asynchronous answer is on its
way already; the first `GetAllProperties` that is answered is `StartTelling`, one that is
refused is `TurnAway`, and a change cuts off the processes that were turned away (`CutIs`); signals and snapshots that are taken are `Advance`; a process that
disappears is `Leave`.

`PropertySyncProofs.tla` proves, for any clients, properties, values and bounds that
satisfy `ConstantsAssumption`:

- `TypeCorrect`: `Spec => []TypeOK`
- `AvailabilityCorrect`: `Spec => []AvailabilityFollows`
- `ListenersCorrect`: `Spec => []ListenersUpToDate`

All three properties speak of a proxy to which nothing is on its way, so none is
inductive. `AvailabilityInv` says of each queue what it will have done when it is
empty. `On(queue, from, k)` is what the replica says after k messages; behind the last
one, and when the registry has published everything, that is the truth
(`EntryKnown`). While the service is withdrawn, every entry that waits is followed by
its removal (`Withdrawn`); a snapshot in the queue finds an entry or is followed by
one (`RepliesOK`), which is why a late snapshot makes a proxy available only until the
next news (`AvailableOK`), and a bound proxy that is not available has asked
(`AwaitedOK`). `CallsOK` is the discipline of blocking calls: one call or one answer,
and never both. `ListenersInv` adds that a value a proxy reads ahead of its signal has
that signal behind it in the queue (`Told`): a first message of a batch brings all
differing values, and the adapter's last sent values are the service's own
(`AdapterOK`), so each of them has just changed and its signal is in the same batch.

It goes on to the values:

- `ValuesCorrect`: `Spec => []ValuesAgree`
- `SignalsCorrect`: `Spec => []SignalsFollowValues`

The strengthening `ValuesInv` reads a queue from its end. `Brings(queue, base, i, k, v)`
says that the last of the first k messages to carry property i carries v, and that if
none does, the proxy's value is v already. `Fresh` says that the last message to decide
whether the proxy is started is a snapshot and not a withdrawal. When a proxy is bound,
has nothing to ask and its queue is fresh (`Linked`), its whole queue brings the
service's values (`ValuesOK`), and the queue up to a signal brings the values the
service had when it sent it (`SignalsOK`). A blocking proxy starts from the answer it is
about to return with (`Base`), and the signals this answer overtakes bring nothing
older than it (`SentOK`), because they were sent after the proxy subscribed: at the
moment it connects its queue holds no signal, or it is `overtaken`. That a removed entry was an entry (`EntryNew`) holds because the adapters'
calls to the registry alternate (`EntriesAlternate`). The step that needs most is a
refused call, where the proxy stops asking without an answer: there nothing is exported,
and then no queue can be fresh (`FreshRegistered`).

`ReferencesProofs.tla` proves, for any clients, addresses and bounds that satisfy
`ConstantsAssumption`:

- `TypeCorrect`: `Spec => []TypeOK`
- `ReferencesCorrect`: `Spec => []ReferencesAgree`

The invariant has two halves. The server's (`ServerInv`) relates addresses, objects and
paths. An object has one address, the adapters that answer belong to objects that live,
and those that wait for `deleteLater()` to objects that are gone (`AdaptersInv`): so no
object ever meets an adapter of its predecessor at the same address. Paths do not run
out, because each object that has none yet can be counted against one that is left
(`PathsInv`). When the signals are connected, the handler's object is the property's
target and its path the path of that object's adapter (`HandlerKnows`); `late` is the
one history under which the path is an old one. `Linked` is what `update()` needs
before it to make this true, and an object that is destroyed leaves it behind. The
clients' half (`ClientInv`) reads a queue from its end, where `Ends` names the path of
the last message that decides about the reference. Either this is the property's
path, or a snapshot came after the last change that was sent (`joined`), and then
`previousPath` is right (`TruthInv`); without such a snapshot the queue ends with
`previousPath` (`LastSentInv`), which is why a signal marked as unchanged may be
ignored.

`BindingsProofs.tla` proves, for any properties, any graph of bindings (also a cyclic
one), any getters, any values and any reactions of listeners that satisfy the two
assumptions:

- `TypeCorrect`: `Spec => []TypeOK`
- `BindingsCorrect`: `Spec => []BindingsHold`
- `ListenersCorrect`: `Spec => []ListenersCurrent`
- `GettersCorrect`: `Spec => []GetterPresent`

The properties speak of the moment when the stack is empty. `BInv` says for the time before
what is owed and which frame of the stack will pay it. A property with a value that was not
signalled has its notification on the stack, and no emission of its signal is nearer to
the top, since a newer emission would have told the value (`Notifies`). A listener that is behind is among
the slots an emission still has to run (`Heard`). A bound property is about to be
connected, or it is connected and has its getter's value, or one of its inputs has a
signal to come (`Holds`, `Follows`). Only properties with a getter have triggers
(`HasGetter`). Between the assignment to `m_value` and the signal all of this holds but
for the property that was assigned (`AllBut`). What `disconnect()` leaves of a queue of
slots is a recursive function (`Without`), characterised once by a least counterexample.
`Follows` first had no exception for `reverted` and then is not inductive: a change back
to the value last signalled makes an input clean with no signal to come. TLC confirmed that as a
behaviour of the system: with `BindingsHold` not excepting `reverted`, the run `bindings`
finds it within seconds (section 7).

`ModelRowsProofs.tla` proves first, for any keys, items and capacity, that `Insert` of
the cache, with the eviction it may lead to, keeps list and index in step, holds the new
item and changes no other (`InsertKeepsInStep`), and that `Touch` only reorders
(`TouchKeepsInStep`). It goes on, for any items, any numbers of rows and changes, any
capacity, window and synchronicity that satisfy `ConstantsAssumption`, to the proxy of a model:

- `ProxyInStep`: `Spec => []RInv`
- `ViewAgrees`: `Spec => []RowsAgree`
- `CacheStaysCurrent`: `Spec => []CacheIsCurrent`
- `RequestsAreAnswered`: `Spec => []RequestsAnswered`

The properties speak of a proxy that has received everything. The invariant follows the
messages that still wait. A sequence m of models leads, one message at a time, from the
rows the proxy was told last to the rows of the service (`Linked`, `Leads`); the view has
the first of them, but for rows a blocking read was early with, whose change is still to
come (`Told`, `ChangePending`). A row that is cached, or that a waiting message will cache, is the
service's present row, or a message behind it replaces or drops it (`CacheOK`, `BringsOK`):
this is why an answer that was sent before a change cannot leave an old row in the cache,
and it holds because requests and changes are handled in one order by the service and
arrive in that order. A row that was asked for is requested, answered, about to be forgotten or
beyond the end (`AskedOK`). `Unrenewed` has all of this; the invariant `RInv` claims nothing
once the service was withdrawn (`renewed`), since then neither cache nor requests are
cleared (section 7). For the same reason `TypeOK` is not among the theorems: the signals of
a withdrawn service that still wait are applied to the model of its successor, and the rows
a proxy believes in can then leave the bound that `TypeOK` names, when the constants allow
more changes than the run has. `ProxyInStep` contains the types for the time before. The
recursive functions that read several rows (`TakeItem`, `ReadAgain`) are characterised as the only solution of their equation and followed by a
least counterexample (`Solution`, `CountUp`).

`InProcessProofs.tla` proves, for any front ends of either kind, any values and calls, and any
number of exports and queued messages:

- `TypeCorrect`: `Spec => []TypeOK`
- `EveryCallHasAdapter`: `Spec => []CallsHaveAdapter`
- `EveryListenerUpToDate`: `Spec => []ListenersUpToDate`
- `BestProviderFound`: `Spec => []BestProviderInUse`
- `ValuesReachFrontEnds`: `Spec => []ValuesArrive`

A signal of a registry runs one slot after the other, each from the process the last one left
behind. A slot is about one front end (`Concerns`) and what it does to it does not depend on the
others, so the process after the signal is put together from what each slot does to its own front
end (`EmittedIs`); the recursion itself is taken apart once, by a least counterexample
(`RecursionSteps`). What a front end looks like between two signals is `Shaped`: a synchronous one
is enabled exactly without the service object, an asynchronous one that is not enabled has an
adapter, one that is enabled although an adapter is there is about to read its properties.
Deleting a service passes through processes whose front ends wrap what is gone, so
`Shaped` takes what they wrap as a parameter. With what the listeners know (`UpToDate`) and what
the two registries of the process say (`Right`) this is inductive, and the first three properties
follow from it (`Invariance`).

`BestProviderInUse` speaks of a process to which nothing is on its way. A second invariant,
`Links`, follows the entries of the D-Bus registry from the services to the binders. The announcements
lead, one entry at a time, from the registry's entry to whoever exports the service (`Present`), and the
news lead from this process's replica to the registry's entry (`Chain`, `Followed`); in the
process that holds the registry itself there is only the second part. A chain without
withdrawals goes nowhere once there is a server, so a replica that names a server which is not there
has a withdrawal on its way to it (`ReplicaIsPresent`). `Linked` says of a binder that it has
the replica's server, or a withdrawal is on its way, or the registry changed while it was
disabled; and that it has the snapshot of another process's service, or has asked for it, or
the answer is on its way (`EveryBinderLinked`). A request that finds nobody to answer it is the case
that needs the chain: then a withdrawal follows, and the binder will hear of it. When all queues are
empty, what is left of `Linked` is `BestProviderInUse`.

`ValuesArrive` needs a third invariant, `Values`, which follows the values (`EveryValueOnItsWay`). In the
process of the service, a connected front end has the value or a timer with which it will read it, unless
it is one of the exceptions (`Told`); that a signal is sent at all needs that the adapter has sent
everything before, unless it left a value out (`Sent`). From another process, the last message under way
that carries a value to a proxy carries the service's present one, and where there is none the proxy has
it already (`Ends`, `Carried`). This is claimed of a binder only while it is bound to a service that is
there and no withdrawal is on its way, where `Links` tells what happens when the next service is exported before the last
one's withdrawal has arrived: the binder leaves its server first, and gets a new snapshot. An update
goes to whoever has subscribed, so a bound binder has to be one of them (`Subscribed`).

`QmlStructuresProofs.tla` proves, for any wrappers, values and gadgets, structures of any number of
fields and lists of any length:

- `TypeCorrect`: `Spec => []TypeOK`
- `StructureCorrect`: `Spec => []StructureFollows`
- `ElementsCorrect`: `Spec => []ElementsFollow`
- `HandlersCorrect`: `Spec => []HandlersCurrent`

An action is a call with all the calls it leads to, so the work is inside the actions. Between two
of them the invariant (`AtRest`) says more than the properties: the assigned wrapper is
connected for the structure and no other is (`Wired`, `Linked`), and exactly the wrappers in
the list that still exist are connected for it (`Watched`). In the middle of a call only parts of
it hold: before a wrapper is connected nobody hears of its fields, and while the slots of a changed
field run, the properties whose slot is still to come are behind. `Keeps` is what every call,
made in whatever state, leaves standing; it is transitive, and the only thing a caller may rely on
about those it tells (`Tells`). With it one lemma per operator covers the call from outside and
the reaction in the middle of it, and the handlers' own operators then satisfy `Tells` (`HearTells`). The slots
of a wrapper are one fold (`Along`): once its own slot has run a property is in
order and `Keeps` leaves it so, and a slot that was disconnected on the way belongs to
a property that was assigned anew, and is in order for that reason.

The inductive invariants were checked with TLC on small systems before they were proved.

Only model-checked: `TypeOK` of `ModelRows`;
`ConnectedOnce`, the safety part of `Settles`, whose bound holds because the graph of
bindings has no cycle; and every liveness property, since liveness under fairness is out of the prover's reach together with ENABLED.
The library's induction theorems cannot be instantiated by the installed provers. A least counterexample
can take their place for one recursive definition at a time, as in
`RegistryViewProofs`, `BindingsProofs`, `ModelRowsProofs`, `InProcessProofs` and `QmlStructuresProofs`.

## 7. Where code and documents disagree

See "findings" in `PROJECT.json`; each is the counterexample of one of the violation runs
above: `registry_reentrant`, `model_reminded`, `in_process_shared`.

### Observations

Met while modelling. Each is an exception that a property names or an abstraction above, not a
run of its own.

Object registry
- A dead process's entry stays in the map, and the next run of the service is refused,
  against the assertion at `ipc/dbus/IPCDBusServiceAdapterBase.cpp:197`. Nobody repeats a refused
  registration, so a service handed over before its first process withdrew stays unregistered.
- Calls that reach the master between its taking the bus name and exporting its object are
  lost; a blocking synchronisation in that window fails the assertions at
  `ipc/dbus/DBusObjectRegistry.cpp:103` and `:125`.
- A replica's `GetAllProperties` may fall into that window and its `getObjects` come after
  it. The replica then has a map with a valid version, so it never synchronises again, and nothing
  makes the master's adapter forward signals (`ipc/dbus/IPCDBusServiceAdapterBase.cpp:99`). If the map changes
  before another process's `GetAllProperties` arrives, the replica is one version behind for
  ever and ignores all later signals (`missed`); `src/doc/page-ipc.h:32-33` does not say so.
- The master's process may be in a blocking call to a process that is itself inside
  `syncObjects()`. Neither answers until one call times out, as `src/doc/page-ipc.h:41-42` warns. If it is
  the replica's, it goes on with an empty map and version 0, against the assertions at
  `ipc/dbus/DBusObjectRegistry.cpp:103` and `:125`, and its proxy finds no service until the
  asynchronous answer arrives.

Property values
- `readyChanged` may be sent as "unchanged": a snapshot said ready, the adapter did not record
  it, and the change back to not-ready equals what it believes it sent. `ValuesAgree` therefore
  speaks of items that are not at their default.
- An update caused by another proxy's snapshot may carry the readiness to a proxy ahead of its
  own snapshot.
- An update queued before a disconnection is delivered after the blocking snapshot of the next
  connection, which overtook it: the old value comes back, and stays until the property changes again, or until
  the proxy disconnects (`overtaken`).

Rows
- Neither the cache nor the list of requested rows is cleared when the service is withdrawn
  (`renewed`).
- The test before fetching the previous rows looks at `nextIndex`
  (`ipc/ipc-common/IPCProxyModelProperty.h:157`).
- `ModelListModel` connects to a new model without disconnecting from the old one (not modelled).

In process
- A D-Bus binder that is disabled ignores the registry, and a front end may go on using a
  withdrawn service through it (`outdated`).
- The answer to a blocking snapshot overtakes an update that is queued already, and the older value is
  then shown until the next update (`overtaken`, `ipc/dbus/DBusIPCProxyBinder.cpp:105`).

Properties, references
- A property set by a listener between `bind()` and `addTrigger()` is left with triggers that call a
  missing getter (assertion at `model/TProperty.h:198`, `undone`).
- `++` and `--` change a bound property and leave the binding in place (`stale`).
- `doTriggerChangeSignal()` emits the ready signal first (`model/PropertyBase.cpp:69`). If one of
  its listeners leads the property back to the value last signalled, no change is signalled,
  although a binding evaluated in between has read the value that is gone and keeps it
  (`reverted`); `src/doc/page-properties.h:33` promises a signal for each change.
- An interface property cleared in the turn in which its object is destroyed keeps the old path until
  another message is sent (`late`).
- A snapshot does not set `m_previous...` of an interface property. When the property goes from the
  path a snapshot told back to the path sent last (at first, none), the signal says "unchanged", and
  the client keeps the snapshot's path until a signal carries one again (`joined`).
- `convertToSerializedType(nullptr)` dereferences the pointer.

QML
- The assertion on `disconnect()` in `clearConnections` and `QObjectWrapperPointerBase` fails after a
  wrapper was destroyed; the model follows the release build. `refreshList` then reads the destroyed
  wrapper (`undefined`).
- A field a handler changes before `SetWrapper` has connected is not heard until the next change
  (`unheard`).
- A value set by a client is invisible to QML as long as a wrapper is assigned, and the next refresh
  overwrites it (`foreign`).
- `assignFromGadget` signals field by field, so handlers see mixtures of the old and the new structure.

## 8. Not modelled

- **The death of the registry's master.** Every property of `ObjectRegistry` supposes that it lives.
- **Serialisation**: encoding values into payloads, without state.
- **Methods and their answers over D-Bus**, signals that are not changes of properties, proxies with
  an explicit service name, and disabling a D-Bus proxy's binder outside `InProcess`.
- **Models bound to other models** and several views of one model.
- **Maps, and interface and model properties in QML**, and the adapters through which QML uses a service.
- **The code generator and the build system** are not part of the running system; the templates are
  read as the source of the adapters and proxies.

By lines, most of `src/` is none of the above but licence headers, documentation, generated-code
templates that repeat one pattern per property, serialisation, examples and tests, so the share of
all lines that the map covers stays small, although every part with protocol state is modelled.
