--------------------------- MODULE ObjectRegistry ---------------------------
(***************************************************************************)
(* The object registry of the D-Bus transport (DBusObjectRegistry): which  *)
(* process serves which object path.                                       *)
(*                                                                         *)
(* The first process that needs the registry takes a well-known bus name   *)
(* and keeps the map (MasterImpl); every other process keeps a replica.    *)
(* Each change of the map gets the next version number and is broadcast as *)
(* a signal; a replica starts from one snapshot of the map, fetched        *)
(* asynchronously or, by a synchronous proxy, with a blocking call whose   *)
(* reply overtakes the signals already queued in the process, and then     *)
(* applies exactly the signals that carry the successor of its version.    *)
(*                                                                         *)
(* An element of Proc is one run of a process, that is one unique bus      *)
(* name: a process that is started again is another element of Proc with   *)
(* the same Serves.                                                        *)
(*                                                                         *)
(* A proxy of the registry makes two calls, GetAllProperties, which makes  *)
(* the master's adapter forward signals, and getObjects, for the snapshot. *)
(* They are separate messages: in the window in which the bus name is      *)
(* owned and the master's object is not exported, one can be refused and   *)
(* the other answered.                                                     *)
(***************************************************************************)
EXTENDS Integers, Sequences, FiniteSets

CONSTANTS
  Proc,         \* runs of processes
  NoProc,       \* "no process": the map has no entry, nobody owns the name
  Path,         \* object paths, without the registry's own SINGLETON_OBJECT_PATH
  Serves,       \* the paths each process has service adapters for: several
                \* processes may have the same, at a time or one after the other
  Synchronous,  \* the processes that have synchronous proxies
  Called,       \* the processes with services that the master's process calls
                \* through synchronous proxies
  MaxVersion,   \* std::numeric_limits<int>::max(): never used as a version
  MaxSignals,   \* bound: registry signals queued, or to be queued, in a process
  MaxRequests   \* bound: calls of a process the master has not handled

ASSUME ConstantsAssumption ==
  /\ NoProc \notin Proc
  /\ Serves \in [Proc -> SUBSET Path]
  /\ Synchronous \subseteq Proc
  /\ Called \subseteq Proc
  /\ MaxVersion \in Nat
  /\ MaxSignals \in Nat
  /\ MaxSignals + 2 <= MaxVersion
  /\ MaxVersion >= 3
  /\ MaxRequests \in Nat

VARIABLES
  nameOwner,         \* owner of the registry's well-known bus name
  phase,             \* how far init() got in each process
  exported,          \* paths whose adapter has m_alreadyInitialized set
  objectMap,         \* MasterImpl::m_objectMap
  version,           \* MasterImpl::m_version
  signalsConnected,  \* m_signalsConnected of the master's own D-Bus adapter
  awaited,           \* the process that a blocking call of the master's
                     \* process is waiting for, NoProc if there is none
  requests,          \* calls on their way to the master, FIFO per caller
  signals,           \* registry signals on their way to a process, FIFO
  asyncReply,        \* the answer to the getObjects() call of init(), if any
  blocked,           \* the process is inside syncObjects()
  syncReply,         \* the answer to the blocking call it waits for, if any
  objects,           \* DBusObjectRegistry::m_objects
  registryVersion,   \* DBusObjectRegistry::m_registryVersion
  refused,           \* history: whose GetAllProperties call was refused
  missed             \* history: who had its snapshot taken, or even in use,
                     \* when the map changed and no signal was sent

masterVars == <<nameOwner, objectMap, version, signalsConnected, awaited>>
replicaVars == <<objects, registryVersion>>
callVars == <<asyncReply, blocked, syncReply>>
historyVars == <<refused, missed>>
vars == <<masterVars, phase, exported, requests, signals, callVars, replicaVars,
          historyVars>>

-----------------------------------------------------------------------------
INVALID_REGISTRY_VERSION == 0
INITIAL_REGISTRY_VERSION == 1
Version == INITIAL_REGISTRY_VERSION .. MaxVersion - 1

Service == Proc \union {NoProc}
Content == [Path -> Service]
Empty == [path \in Path |-> NoProc]

Phase == {"idle", "naming", "master", "replica", "dead"}

\* objectRemoved carries no service name: NoProc stands for it.
Signal == [member : {"objectAdded", "objectRemoved"}, path : Path,
           service : Service, version : Version]

\* A call of a proxy of the registry; its caller goes on at once, waits for
\* the answer, or has given up waiting.
ProxyCall == [member : {"GetAllProperties", "getObjects"},
              caller : {"async", "waiting", "gaveUp"}]

Request == [member : {"registerObject", "unregisterObject"}, path : Path]
             \union ProxyCall

\* What a blocking call returns; "@version" is missing, hence 0, in the map a
\* caller makes up when the call fails.  Of the answer to GetAllProperties
\* only its arrival counts.
Answer == [member : {"GetAllProperties", "getObjects"}, objects : Content,
           version : Version \union {INVALID_REGISTRY_VERSION}]

WithoutMap(member) ==
  [member |-> member, objects |-> Empty, version |-> INVALID_REGISTRY_VERSION]

\* The asynchronous answer shares the FIFO of the caller with the signals:
\* "behind" of the queued signals were sent before it.
QueuedSnapshot == [behind : Nat, objects : Content, version : Version]

TypeOK ==
  /\ nameOwner \in Service
  /\ phase \in [Proc -> Phase]
  /\ exported \in [Proc -> SUBSET Path]
  /\ objectMap \in Content
  /\ version \in Version \union {INVALID_REGISTRY_VERSION}
  /\ signalsConnected \in BOOLEAN
  /\ awaited \in Service
  /\ requests \in [Proc -> Seq(Request)]
  /\ signals \in [Proc -> Seq(Signal)]
  /\ asyncReply \in [Proc -> Seq(QueuedSnapshot)]
  /\ blocked \in [Proc -> BOOLEAN]
  /\ syncReply \in [Proc -> Seq(Answer)]
  /\ objects \in [Proc -> Content]
  /\ registryVersion \in [Proc -> Version \union {INVALID_REGISTRY_VERSION}]
  /\ refused \subseteq Proc
  /\ missed \subseteq Proc

Init ==
  /\ nameOwner = NoProc
  /\ phase = [p \in Proc |-> "idle"]
  /\ exported = [p \in Proc |-> {}]
  /\ objectMap = Empty
  /\ version = INVALID_REGISTRY_VERSION
  /\ signalsConnected = FALSE
  /\ awaited = NoProc
  /\ requests = [p \in Proc |-> <<>>]
  /\ signals = [p \in Proc |-> <<>>]
  /\ asyncReply = [p \in Proc |-> <<>>]
  /\ blocked = [p \in Proc |-> FALSE]
  /\ syncReply = [p \in Proc |-> <<>>]
  /\ objects = [p \in Proc |-> Empty]
  /\ registryVersion = [p \in Proc |-> INVALID_REGISTRY_VERSION]
  /\ refused = {}
  /\ missed = {}

-----------------------------------------------------------------------------
(***************************************************************************)
(* Versions, and what a replica does with a signal.                        *)
(***************************************************************************)
MutantNextVersion(v) == v + 1

NextVersion(v) ==
  IF v + 1 = MaxVersion THEN INITIAL_REGISTRY_VERSION ELSE v + 1

HasValidObjects(p) == registryVersion[p] # INVALID_REGISTRY_VERSION

MutantAcceptsNewer(p, v) == HasValidObjects(p) /\ v > registryVersion[p]
MutantAcceptsAny(p, v) == HasValidObjects(p)
Accepts(p, v) == HasValidObjects(p) /\ v = NextVersion(registryVersion[p])

\* An added path the replica already has is left as it is (a critical log);
\* removing an absent one changes nothing (another critical log).
Applied(content, signal) ==
  IF signal.member = "objectAdded" /\ content[signal.path] # NoProc
  THEN content
  ELSE [content EXCEPT ![signal.path] = signal.service]

OnSignal(p, signal) ==
  IF Accepts(p, signal.version)
  THEN /\ registryVersion' = [registryVersion EXCEPT ![p] = signal.version]
       /\ objects' = [objects EXCEPT ![p] = Applied(@, signal)]
  ELSE UNCHANGED replicaVars

MutantUpdateObjects(p, snapshot) ==
  /\ registryVersion' = [registryVersion EXCEPT ![p] = snapshot.version]
  /\ objects' = [objects EXCEPT ![p] = snapshot.objects]

UpdateObjects(p, snapshot) ==
  IF HasValidObjects(p)
  THEN UNCHANGED replicaVars
  ELSE /\ registryVersion' = [registryVersion EXCEPT ![p] = snapshot.version]
       /\ objects' = [objects EXCEPT ![p] = snapshot.objects]

-----------------------------------------------------------------------------
(***************************************************************************)
(* The master's map.  A change is numbered, then objectAdded/objectRemoved *)
(* is emitted: the master's own replica gets it as a direct call, the      *)
(* other processes as a signal once the adapter forwards signals.          *)
(***************************************************************************)
Mastered == nameOwner # NoProc /\ phase[nameOwner] = "master"

\* The master's process handles no call while it waits for an answer itself.
Serving == Mastered /\ awaited = NoProc

\* No process lags so far behind that the version numbers come round again.
Room == \A q \in Proc : Len(signals[q]) < MaxVersion - 2

\* The map was sent to a process that waits for it.
Synchronised(q) ==
  syncReply[q] # <<>> /\ Head(syncReply[q]).version # INVALID_REGISTRY_VERSION

\* A snapshot for q is in use, or on its way to it.
HasSnapshot(q) == HasValidObjects(q) \/ asyncReply[q] # <<>> \/ Synchronised(q)

\* Nothing is sent yet, and these processes will not ask again.
Unheard == IF signalsConnected THEN {} ELSE {q \in refused : HasSnapshot(q)}

MutantPublish(signal) ==
  /\ objectMap' = [objectMap EXCEPT ![signal.path] = signal.service]
  /\ version' = signal.version
  /\ OnSignal(nameOwner, signal)
  /\ signals' = [q \in Proc |->
                   IF signalsConnected /\ phase[q] = "replica" /\ ~blocked[q]
                   THEN Append(signals[q], signal) ELSE signals[q]]
  /\ missed' = missed \union Unheard
  /\ UNCHANGED <<nameOwner, signalsConnected, awaited, refused>>

Publish(signal) ==
  /\ objectMap' = [objectMap EXCEPT ![signal.path] = signal.service]
  /\ version' = signal.version
  /\ OnSignal(nameOwner, signal)
  /\ signals' = [q \in Proc |->
                   IF signalsConnected /\ phase[q] = "replica"
                   THEN Append(signals[q], signal) ELSE signals[q]]
  /\ missed' = missed \union Unheard
  /\ UNCHANGED <<nameOwner, signalsConnected, awaited, refused>>

\* Only processes that have a snapshot are registered.
MutantRegisterObject(caller, path) ==
  IF objectMap[path] = NoProc /\ HasValidObjects(caller)
  THEN /\ Room
       /\ Publish([member |-> "objectAdded", path |-> path,
                   service |-> caller, version |-> NextVersion(version)])
  ELSE UNCHANGED <<masterVars, signals, replicaVars, historyVars>>

MasterRegisterObject(caller, path) ==
  IF objectMap[path] = NoProc
  THEN /\ Room
       /\ Publish([member |-> "objectAdded", path |-> path,
                   service |-> caller, version |-> NextVersion(version)])
  ELSE UNCHANGED <<masterVars, signals, replicaVars, historyVars>>

MutantUnregisterObject(caller, path) ==
  IF objectMap[path] = nameOwner
  THEN /\ Room
       /\ Publish([member |-> "objectRemoved", path |-> path,
                   service |-> NoProc, version |-> NextVersion(version)])
  ELSE UNCHANGED <<masterVars, signals, replicaVars, historyVars>>

MasterUnregisterObject(caller, path) ==
  IF objectMap[path] = caller
  THEN /\ Room
       /\ Publish([member |-> "objectRemoved", path |-> path,
                   service |-> NoProc, version |-> NextVersion(version)])
  ELSE UNCHANGED <<masterVars, signals, replicaVars, historyVars>>

-----------------------------------------------------------------------------
(***************************************************************************)
(* DBusObjectRegistry::init(), run once per process by the first proxy or  *)
(* service adapter that needs the registry.                                *)
(***************************************************************************)

\* registerServiceName() succeeds: from here on the bus routes the calls
\* made to the registry's name to this process ...
InitAsMaster(p) ==
  /\ phase[p] = "idle"
  /\ nameOwner = NoProc
  /\ nameOwner' = p
  /\ phase' = [phase EXCEPT ![p] = "naming"]
  /\ UNCHANGED <<exported, objectMap, version, signalsConnected, awaited,
                 requests, signals, callVars, replicaVars, historyVars>>

\* ... and only MasterImpl::init() exports the object they are meant for.
\* Exporting it also registers SINGLETON_OBJECT_PATH: one version is used up.
MasterInit(p) ==
  /\ phase[p] = "naming"
  /\ phase' = [phase EXCEPT ![p] = "master"]
  /\ version' = NextVersion(INITIAL_REGISTRY_VERSION)
  /\ UpdateObjects(p, [objects |-> objectMap,
                       version |-> NextVersion(INITIAL_REGISTRY_VERSION)])
  /\ UNCHANGED <<nameOwner, exported, objectMap, signalsConnected, awaited,
                 requests, signals, callVars, historyVars>>

\* The name is taken: connectToServer() subscribes to the master's signals and
\* calls GetAllProperties, then getObjects() is called.
InitAsReplica(p) ==
  /\ phase[p] = "idle"
  /\ nameOwner # NoProc
  /\ Len(requests[p]) + 2 <= MaxRequests
  /\ phase' = [phase EXCEPT ![p] = "replica"]
  /\ requests' = [requests EXCEPT ![p] =
                    @ \o <<[member |-> "GetAllProperties", caller |-> "async"],
                            [member |-> "getObjects", caller |-> "async"]>>]
  /\ UNCHANGED <<masterVars, exported, signals, callVars, replicaVars, historyVars>>

-----------------------------------------------------------------------------
(***************************************************************************)
(* Service adapters: export or withdraw an object, then tell the registry. *)
(***************************************************************************)
Running(p) ==
  \/ phase[p] = "master" /\ Serving
  \/ phase[p] = "replica" /\ ~blocked[p]

\* Bounds the queues where a change begins: its signal will find room.
ChangesUnderWay ==
  {call \in Proc \X (1 .. MaxRequests) :
     LET queue == requests[call[1]]
     IN  call[2] <= Len(queue)
         /\ queue[call[2]].member \in {"registerObject", "unregisterObject"}}

MayChange == \A q \in Proc : Len(signals[q]) + Cardinality(ChangesUnderWay) < MaxSignals

MutantCall(p, request) ==
  /\ Len(requests[p]) < MaxRequests
  /\ requests' = [requests EXCEPT ![p] = <<request>> \o @]
  /\ UNCHANGED <<masterVars, signals, replicaVars, historyVars>>

Call(p, request) ==
  /\ Len(requests[p]) < MaxRequests
  /\ requests' = [requests EXCEPT ![p] = Append(@, request)]
  /\ UNCHANGED <<masterVars, signals, replicaVars, historyVars>>

RegisterService(p, path) ==
  /\ Running(p) /\ MayChange
  /\ path \in Serves[p] \ exported[p]
  /\ exported' = [exported EXCEPT ![p] = @ \union {path}]
  /\ \/ /\ phase[p] = "master"
        /\ MasterRegisterObject(p, path)
        /\ UNCHANGED requests
     \/ /\ phase[p] = "replica"
        /\ Call(p, [member |-> "registerObject", path |-> path])
  /\ UNCHANGED <<phase, callVars>>

UnregisterService(p, path) ==
  /\ Running(p) /\ MayChange
  /\ path \in exported[p]
  /\ exported' = [exported EXCEPT ![p] = @ \ {path}]
  /\ \/ /\ phase[p] = "master"
        /\ MasterUnregisterObject(p, path)
        /\ UNCHANGED requests
     \/ /\ phase[p] = "replica"
        /\ Call(p, [member |-> "unregisterObject", path |-> path])
  /\ UNCHANGED <<phase, callVars>>

\* A synchronous proxy needs the map and the replica has none yet: a proxy of
\* the registry is made, connected and asked, with two blocking calls.
Waits(p, member) ==
  requests' = [requests EXCEPT ![p] = Append(@, [member |-> member, caller |-> "waiting"])]

SyncObjects(p) ==
  /\ p \in Synchronous
  /\ phase[p] = "replica"
  /\ ~blocked[p]
  /\ ~HasValidObjects(p)
  /\ Len(requests[p]) < MaxRequests
  /\ blocked' = [blocked EXCEPT ![p] = TRUE]
  /\ Waits(p, "GetAllProperties")
  /\ UNCHANGED <<masterVars, phase, exported, signals, asyncReply, syncReply,
                 replicaVars, historyVars>>

\* Whether the first call succeeded is not looked at (but for an assertion).
SyncPropertiesReturn(p) ==
  /\ blocked[p]
  /\ syncReply[p] # <<>>
  /\ Head(syncReply[p]).member = "GetAllProperties"
  /\ syncReply' = [syncReply EXCEPT ![p] = Tail(@)]
  /\ Waits(p, "getObjects")
  /\ UNCHANGED <<masterVars, phase, exported, signals, asyncReply, blocked,
                 replicaVars, historyVars>>

SyncObjectsReturn(p) ==
  /\ blocked[p]
  /\ syncReply[p] # <<>>
  /\ Head(syncReply[p]).member = "getObjects"
  /\ UpdateObjects(p, Head(syncReply[p]))
  /\ blocked' = [blocked EXCEPT ![p] = FALSE]
  /\ syncReply' = [syncReply EXCEPT ![p] = Tail(@)]
  /\ UNCHANGED <<masterVars, phase, exported, requests, signals, asyncReply,
                 historyVars>>

\* The master's process does not answer in time, because it waits itself: the
\* call fails, and its message stays where it is.
SyncCallTimesOut(p) ==
  /\ blocked[p]
  /\ awaited # NoProc
  /\ syncReply[p] = <<>>
  /\ requests[p] # <<>>
  /\ \E member \in {"GetAllProperties", "getObjects"} :
       LET last == Len(requests[p])
       IN  /\ requests[p][last] = [member |-> member, caller |-> "waiting"]
           /\ requests' = [requests EXCEPT
                ![p][last] = [member |-> member, caller |-> "gaveUp"]]
           /\ syncReply' = [syncReply EXCEPT ![p] = <<WithoutMap(member)>>]
  /\ UNCHANGED <<masterVars, phase, exported, signals, asyncReply, blocked,
                 replicaVars, historyVars>>

-----------------------------------------------------------------------------
(***************************************************************************)
(* The other direction: the master's process makes a blocking call to the  *)
(* process behind an entry, as checkRegistry() does for a synchronous      *)
(* proxy, in the middle of MasterImpl::registerObject or at any other      *)
(* time.  A process answers unless it is inside a blocking call itself; if *)
(* it is, the two wait for each other until the bus gives up on a call.    *)
(***************************************************************************)
MasterCalls(q) ==
  /\ Serving
  /\ q \in Called \ {nameOwner}
  /\ \E path \in Path : objects[nameOwner][path] = q
  /\ awaited' = q
  /\ UNCHANGED <<nameOwner, objectMap, version, signalsConnected, phase, exported,
                 requests, signals, callVars, replicaVars, historyVars>>

\* Answered by the process, or by the bus when the process is dead.
MasterCallReturns(q) ==
  /\ awaited = q
  /\ ~blocked[q]
  /\ awaited' = NoProc
  /\ UNCHANGED <<nameOwner, objectMap, version, signalsConnected, phase, exported,
                 requests, signals, callVars, replicaVars, historyVars>>

MasterCallTimesOut(q) ==
  /\ awaited = q
  /\ blocked[q]
  /\ awaited' = NoProc
  /\ UNCHANGED <<nameOwner, objectMap, version, signalsConnected, phase, exported,
                 requests, signals, callVars, replicaVars, historyVars>>

-----------------------------------------------------------------------------
(***************************************************************************)
(* The master's process handles the call at the head of p's queue.         *)
(***************************************************************************)
Receives(p, member) ==
  /\ requests[p] # <<>>
  /\ Head(requests[p]).member = member
  /\ requests' = [requests EXCEPT ![p] = Tail(@)]

HandleRegisterObject(p) ==
  /\ Serving
  /\ Receives(p, "registerObject")
  /\ MasterRegisterObject(p, Head(requests[p]).path)
  /\ UNCHANGED <<phase, exported, callVars>>

HandleUnregisterObject(p) ==
  /\ Serving
  /\ Receives(p, "unregisterObject")
  /\ MasterUnregisterObject(p, Head(requests[p]).path)
  /\ UNCHANGED <<phase, exported, callVars>>

CallerIs(p, caller) == phase[p] = "replica" /\ Head(requests[p]).caller = caller

Answered(p, answer) ==
  syncReply' = IF CallerIs(p, "waiting")
               THEN [syncReply EXCEPT ![p] = Append(@, answer)]
               ELSE syncReply

\* The first GetAllProperties call makes the adapter forward signals.
HandleGetAllProperties(p) ==
  /\ Serving
  /\ Receives(p, "GetAllProperties")
  /\ signalsConnected' = TRUE
  /\ Answered(p, WithoutMap("GetAllProperties"))
  /\ UNCHANGED <<nameOwner, objectMap, version, awaited, phase, exported, signals,
                 asyncReply, blocked, replicaVars, historyVars>>

\* Who waits for the map takes it before anything else that was sent to it.
MutantHandleGetObjects(p) ==
  /\ Serving
  /\ Receives(p, "getObjects")
  /\ IF asyncReply[p] = <<>>
     THEN Answered(p, [member |-> "getObjects", objects |-> objectMap, version |-> version])
     ELSE UNCHANGED syncReply
  /\ asyncReply' =
       IF CallerIs(p, "async")
       THEN [asyncReply EXCEPT ![p] =
               Append(@, [behind |-> Len(signals[p]), objects |-> objectMap,
                          version |-> version])]
       ELSE asyncReply
  /\ missed' = IF CallerIs(p, "waiting") THEN missed \ {p} ELSE missed
  /\ UNCHANGED <<masterVars, phase, exported, signals, blocked, replicaVars, refused>>

HandleGetObjects(p) ==
  /\ Serving
  /\ Receives(p, "getObjects")
  /\ Answered(p, [member |-> "getObjects", objects |-> objectMap, version |-> version])
  /\ asyncReply' =
       IF CallerIs(p, "async")
       THEN [asyncReply EXCEPT ![p] =
               Append(@, [behind |-> Len(signals[p]), objects |-> objectMap,
                          version |-> version])]
       ELSE asyncReply
  /\ missed' = IF CallerIs(p, "waiting") THEN missed \ {p} ELSE missed
  /\ UNCHANGED <<masterVars, phase, exported, signals, blocked, replicaVars, refused>>

\* The name is owned but the object is not exported yet: the bus answers with
\* an error.  An asynchronous caller never hears of it, since asyncCall() runs
\* the callback for replies only; a blocking caller gets a default map.
RefuseRequest(p) ==
  /\ nameOwner # NoProc
  /\ phase[nameOwner] = "naming"
  /\ \/ \E member \in {"registerObject", "unregisterObject"} :
          Receives(p, member) /\ UNCHANGED <<syncReply, refused>>
     \/ /\ Receives(p, "GetAllProperties")
        /\ Answered(p, WithoutMap("GetAllProperties"))
        /\ refused' = IF phase[p] = "replica" THEN refused \union {p} ELSE refused
     \/ /\ Receives(p, "getObjects")
        /\ Answered(p, WithoutMap("getObjects"))
        /\ UNCHANGED refused
  /\ UNCHANGED <<masterVars, phase, exported, signals, asyncReply, blocked,
                 replicaVars, missed>>

-----------------------------------------------------------------------------
(***************************************************************************)
(* The event loop of a replica: signals and the asynchronous answer, in    *)
(* the order in which the master sent them.                                *)
(***************************************************************************)
SignalIsNext(p) ==
  /\ ~blocked[p]
  /\ signals[p] # <<>>
  /\ asyncReply[p] # <<>> => Head(asyncReply[p]).behind > 0

DeliverSignal(p, member) ==
  /\ SignalIsNext(p)
  /\ Head(signals[p]).member = member
  /\ OnSignal(p, Head(signals[p]))
  /\ signals' = [signals EXCEPT ![p] = Tail(@)]
  /\ asyncReply' = IF asyncReply[p] = <<>> THEN asyncReply
                   ELSE [asyncReply EXCEPT ![p][1].behind = @ - 1]
  /\ UNCHANGED <<masterVars, phase, exported, requests, blocked, syncReply,
                 historyVars>>

OnObjectAdded(p) == DeliverSignal(p, "objectAdded")
OnObjectRemoved(p) == DeliverSignal(p, "objectRemoved")

OnGetObjectsReply(p) ==
  /\ ~blocked[p]
  /\ asyncReply[p] # <<>>
  /\ Head(asyncReply[p]).behind = 0
  /\ UpdateObjects(p, Head(asyncReply[p]))
  /\ asyncReply' = [asyncReply EXCEPT ![p] = Tail(@)]
  /\ UNCHANGED <<masterVars, phase, exported, requests, signals, blocked, syncReply,
                 historyVars>>

\* A process other than the master disappears.  What it sent still arrives;
\* what is sent to it is lost.  Nothing in the master notices.
Crash(p) ==
  /\ phase[p] = "replica"
  /\ phase' = [phase EXCEPT ![p] = "dead"]
  /\ exported' = [exported EXCEPT ![p] = {}]
  /\ signals' = [signals EXCEPT ![p] = <<>>]
  /\ asyncReply' = [asyncReply EXCEPT ![p] = <<>>]
  /\ blocked' = [blocked EXCEPT ![p] = FALSE]
  /\ syncReply' = [syncReply EXCEPT ![p] = <<>>]
  /\ objects' = [objects EXCEPT ![p] = Empty]
  /\ registryVersion' = [registryVersion EXCEPT ![p] = INVALID_REGISTRY_VERSION]
  /\ refused' = refused \ {p}
  /\ missed' = missed \ {p}
  /\ UNCHANGED <<masterVars, requests>>

-----------------------------------------------------------------------------
StartStep(p) == InitAsMaster(p) \/ InitAsReplica(p)

ServiceStep(p) ==
  \E path \in Path : RegisterService(p, path) \/ UnregisterService(p, path)

HandleStep(p) ==
  \/ HandleRegisterObject(p) \/ HandleUnregisterObject(p)
  \/ HandleGetAllProperties(p) \/ HandleGetObjects(p)
  \/ RefuseRequest(p)

DeliverStep(p) ==
  \/ OnObjectAdded(p) \/ OnObjectRemoved(p)
  \/ OnGetObjectsReply(p) \/ SyncPropertiesReturn(p) \/ SyncObjectsReturn(p)

\* The end of a blocking call of the master's process.
CallEnds(q) == MasterCallReturns(q) \/ MasterCallTimesOut(q)

Next ==
  \E p \in Proc :
    \/ StartStep(p) \/ MasterInit(p) \/ ServiceStep(p) \/ SyncObjects(p)
    \/ HandleStep(p) \/ DeliverStep(p) \/ Crash(p)
    \/ SyncCallTimesOut(p) \/ MasterCalls(p) \/ CallEnds(p)

Spec == Init /\ [][Next]_vars

\* Event loops and the bus keep running: init() finishes, the master handles
\* what was sent to it, a process handles what was sent to it, and a blocking
\* call ends, by the time limit of the bus if need be.  Handling is strongly
\* fair because the master's process, whatever calls it makes itself, returns
\* to its event loop between them.  Nothing obliges an application to
\* register anything.
Fairness ==
  \A p \in Proc :
    /\ WF_vars(MasterInit(p)) /\ SF_vars(HandleStep(p)) /\ WF_vars(DeliverStep(p))
    /\ WF_vars(CallEnds(p))

FairSpec == Spec /\ Fairness

-----------------------------------------------------------------------------
(***************************************************************************)
(* Correctness.                                                            *)
(***************************************************************************)

\* Once every signal sent to a process has been handled, a replica that got
\* a snapshot is the master's map, at the master's version: the version test
\* of onObjectAdded/onObjectRemoved neither loses nor repeats a change,
\* whatever snapshot the replica started from and however far signals lagged.
\* The exception are the missed processes: GetAllProperties was refused,
\* getObjects answered, and the map changed before any other process made the
\* master's adapter forward signals.  Such a replica stays behind for ever.
Agreement ==
  \A p \in Proc \ missed :
    HasValidObjects(p) /\ signals[p] = <<>> =>
      objects[p] = objectMap /\ registryVersion[p] = version

\* The critical-log branches of onObjectAdded ("Object registry already
\* contains this object path") and of onObjectRemoved ("Object does not
\* exist") are never taken: an accepted signal always changes its path.  (A
\* missed process could accept a signal when the versions start again.)
AcceptedSignalsApply ==
  \A p \in Proc \ missed :
    signals[p] # <<>> /\ Accepts(p, Head(signals[p]).version) =>
      LET signal == Head(signals[p])
      IN  (objects[p][signal.path] = NoProc) <=> (signal.member = "objectAdded")

\* The registry holds no entry for a service its process has withdrawn,
\* unless the call that removes it is still on its way or the process died.
EntriesBacked ==
  \A path \in Path :
    objectMap[path] # NoProc =>
      LET p == objectMap[path]
      IN  \/ path \in exported[p]
          \/ phase[p] = "dead"
          \/ \E i \in 1 .. Len(requests[p]) :
               requests[p][i] = [member |-> "unregisterObject", path |-> path]

\* MasterImpl::registerObject answers "already registered" only because of
\* an entry of another process, dead or alive: withdrawing a service and
\* exporting it again never makes it collide with itself.
NoSelfCollision ==
  \A p \in Proc :
    /\ Mastered
    /\ phase[p] = "replica"
    /\ requests[p] # <<>>
    /\ Head(requests[p]).member = "registerObject"
    => objectMap[Head(requests[p]).path] # p

\* syncObjects() returns: the answers to its two blocking calls pass whatever
\* else waits for the process, and when master and caller do wait for each
\* other ("it can even lead to deadlocks", page-ipc.h) the time limit of one
\* of the calls ends it.
SyncObjectsReturns == \A p \in Proc : blocked[p] ~> ~blocked[p]

\* No replica that got its snapshot misses an entry of the map for ever, but
\* the missed ones (see Agreement).
EntriesBecomeKnown ==
  \A p \in Proc, path \in Path :
    (HasValidObjects(p) /\ p \notin missed /\ objects[p][path] # objectMap[path])
      ~> (HasValidObjects(p) /\ p \notin missed => objects[p][path] = objectMap[path])

\* A registration that the master's object can still receive gives the path
\* an entry, unless the service is withdrawn meanwhile.  Calls that come
\* between the taking of the bus name and the export of the object are
\* refused, and nobody repeats them ("A central system-wide registry, which
\* contains entries for all Facelift server objects", page-ipc.h).
ServedGetRegistered ==
  \A p \in Proc, path \in Path :
    (/\ Mastered /\ path \in exported[p]
     /\ \E i \in DOMAIN requests[p] :
          requests[p][i] = [member |-> "registerObject", path |-> path])
      ~> (objectMap[path] # NoProc \/ path \notin exported[p])
=============================================================================
