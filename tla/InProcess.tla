------------------------------ MODULE InProcess ------------------------------
(***************************************************************************)
(* The front ends of one object path in one process (IPCProxy), and the    *)
(* provider each of them uses: the service object itself when it lives in  *)
(* the process and has the front end's type, else the Local IPC proxy,     *)
(* else the D-Bus proxy, else a dummy (NotAvailableImpl).  The service is  *)
(* exported by this process, or by another one, and comes and goes.        *)
(*                                                                         *)
(* Asynchronous front ends have a Local IPC proxy and a D-Bus proxy; the   *)
(* service is not of their (generated) type.  Synchronous ones have a      *)
(* D-Bus proxy only.  Inside the process slots are called at once, so an   *)
(* operator gives the process after a call and all it leads to.            *)
(***************************************************************************)
EXTENDS Integers, SequencesExt

CONSTANTS
  FrontEnd,
  Asynchronous,   \* the front ends with an asynchronous interface
  Value,
  Default,        \* the value of a property nobody has set: type {}
  Call,           \* asynchronous calls made through Local IPC
  MaxExports,     \* bound: how often the service is exported
  MaxNews         \* bound: messages waiting on the bus when a service changes

ASSUME ConstantsAssumption ==
  /\ Asynchronous \subseteq FrontEnd
  /\ Default \in Value
  /\ MaxExports \in Nat /\ MaxNews \in Nat

VARIABLES
  master,     \* this process holds the D-Bus object registry
  process,    \* the registries of the process, its front ends and its service
  announced,  \* calls to the D-Bus object registry, FIFO
  objectMap,  \* the registry's entry for the path
  news,       \* what the bus has for this process, FIFO
  calls,      \* what has become of each asynchronous call
  exports     \* how often the service has been exported

vars == <<master, process, announced, objectMap, news, calls, exports>>

-----------------------------------------------------------------------------
Server == {"here", "elsewhere"}
NoServer == "nobody"
Provider == {"service", "local", "dbus", "default"}

State == [ready : BOOLEAN, value : Value]

Message ==
  [kind : {"entry"}, server : Server, present : BOOLEAN]
    \union [kind : {"snapshot"}, front : FrontEnd, value : Value]
    \union [kind : {"update"}, to : SUBSET FrontEnd, value : Value]

Timer ==
  [kind : {"properties"}, front : FrontEnd] \union [kind : {"call"}, call : Call]

FrontState ==
  [provider : BOOLEAN, wrapped : Provider, heard : State, local : State, dbus : State,
   started : BOOLEAN, enabled : BOOLEAN, available : BOOLEAN,
   server : Server \union {NoServer}, subscribed : SUBSET Server, outdated : BOOLEAN]

TypeOK ==
  /\ master \in BOOLEAN
  /\ process.created \in Seq(FrontEnd) /\ IsInjective(process.created)
  /\ process.fronts \in [FrontEnd -> FrontState]
  /\ process.value \in Value /\ process.sent \in Value
  /\ process.manager \in BOOLEAN /\ process.localEntry = process.manager
  /\ process.exported \subseteq Server /\ process.replica \in Server \union {NoServer}
  /\ process.receivers \in Seq(Asynchronous) /\ IsInjective(process.receivers)
  /\ process.timers \in Seq(Timer)
  /\ process.requests \in [Server -> Seq(FrontEnd)]
  /\ process.starved \subseteq Asynchronous
  /\ process.dropped \in BOOLEAN /\ process.unaware \subseteq FrontEnd
  /\ process.overtaken \subseteq FrontEnd
  /\ announced \in Seq(Message)
  /\ objectMap \in Server \union {NoServer}
  /\ news \in Seq(Message)
  /\ calls \in [Call -> {"idle", "posted", "serving", "answered", "lost"}]
  /\ exports \in 0 .. MaxExports

NotReady == [ready |-> FALSE, value |-> Default]

Init ==
  /\ master \in BOOLEAN
  /\ process =
       [created |-> <<>>,          \* complete front ends, in this order
        manager |-> FALSE,         \* InterfaceManager has an adapter for the path
        localEntry |-> FALSE,      \* LocalIPCRegistry has one
        exported |-> {},           \* who answers at the path on D-Bus
        replica |-> NoServer,      \* this process's view of the object registry
        value |-> Default,         \* the property of the service
        sent |-> Default,          \* m_previous of the Local IPC adapter
        receivers |-> <<>>,        \* binders connected to messageSent, in order
        timers |-> <<>>,           \* zero timers, FIFO
        requests |-> [s \in Server |-> <<>>],
        fronts |-> [f \in FrontEnd |->
          [provider |-> FALSE,     \* m_localProviderBinder has a provider
           wrapped |-> "default", heard |-> NotReady, local |-> NotReady, dbus |-> NotReady,
           started |-> FALSE, enabled |-> TRUE, available |-> FALSE, server |-> NoServer,
           subscribed |-> {}, outdated |-> FALSE]],
        starved |-> {},            \* history: got a signal without its values
        overtaken |-> {},          \* history: read a value ahead of an older update
        dropped |-> FALSE,         \* history: the adapter did not send a nested signal
        unaware |-> {}]            \* history: wrapped a service object that was deleted
  /\ announced = <<>>
  /\ objectMap = NoServer
  /\ news = <<>>
  /\ calls = [c \in Call |-> "idle"]
  /\ exports = 0

-----------------------------------------------------------------------------
(***************************************************************************)
(* A front end and the provider it wraps.                                  *)
(***************************************************************************)
Created(p) == ToSet(p.created)

\* What a front end's properties are with a provider.  A deleted one is not
\* ready, and its values are those the front end last read.
Offered(p, f, provider) ==
  CASE provider = "service" -> [ready |-> TRUE, value |-> p.value]
    [] provider = "local" -> p.fronts[f].local
    [] provider = "dbus" -> p.fronts[f].dbus
    [] provider = "gone" -> [ready |-> FALSE, value |-> p.fronts[f].heard.value]
    [] provider = "default" -> NotReady

\* Listeners hear of the provider's readiness only.
MutantWrap(p, f, provider) ==
  LET old == Offered(p, f, p.fronts[f].wrapped)
      new == Offered(p, f, provider)
  IN  [p EXCEPT !.fronts[f].wrapped = provider,
                !.fronts[f].heard.ready = IF new.ready # old.ready THEN new.ready ELSE @,
                !.unaware = IF new.ready # old.ready THEN @ \ {f} ELSE @]

\* Listeners hear of the differences between the two providers.
Wrap(p, f, provider) ==
  LET old == Offered(p, f, p.fronts[f].wrapped)
      new == Offered(p, f, provider)
      heard == p.fronts[f].heard
  IN  [p EXCEPT
         !.fronts[f].wrapped = provider,
         !.fronts[f].heard = [ready |-> IF new.ready # old.ready THEN new.ready ELSE heard.ready,
                              value |-> IF new.value # old.value THEN new.value ELSE heard.value],
         !.unaware = IF new.ready # old.ready THEN @ \ {f} ELSE @]

\* A proxy's change signals reach the listeners of the front end that wraps it.
Forward(p, f, provider) ==
  IF p.fronts[f].wrapped = provider
  THEN [p EXCEPT !.fronts[f].heard = Offered(p, f, provider)] ELSE p

\* A binder that has found the adapter connects to it again.
MutantBindLocal(p, f) ==
  IF p.localEntry
  THEN [p EXCEPT !.receivers = Append(@, f),
                 !.timers = Append(@, [kind |-> "properties", front |-> f])]
  ELSE p

\* The first enableBinder(): bindToIPC() and checkServiceAvailability().
BindLocal(p, f) ==
  IF p.localEntry /\ f \notin ToSet(p.receivers)
  THEN [p EXCEPT !.receivers = Append(@, f),
                 !.timers = Append(@, [kind |-> "properties", front |-> f])]
  ELSE p

\* The proxy gets a snapshot but does not subscribe.
MutantBindDBus(p, f) ==
  LET bound == [p EXCEPT !.fronts[f].server = p.replica, !.fronts[f].outdated = FALSE]
  IN  CASE f \in Asynchronous -> [bound EXCEPT !.requests[p.replica] = Append(@, f)]
        [] f \notin Asynchronous /\ p.replica \in p.exported ->
             Forward([bound EXCEPT !.fronts[f].dbus = [ready |-> TRUE, value |-> p.value],
                                   !.fronts[f].available = TRUE], f, "dbus")
        [] OTHER -> bound

UpdateWaits(f) == \E n \in DOMAIN news : news[n].kind = "update" /\ f \in news[n].to

\* checkRegistry() finds a server: subscribe and get a snapshot, which a
\* synchronous proxy waits for.
BindDBus(p, f) ==
  LET bound == [p EXCEPT !.fronts[f].server = p.replica,
                         !.fronts[f].subscribed = @ \union {p.replica},
                         !.fronts[f].outdated = FALSE]
  IN  CASE f \in Asynchronous -> [bound EXCEPT !.requests[p.replica] = Append(@, f)]
        [] f \notin Asynchronous /\ p.replica \in p.exported ->
             Forward([bound EXCEPT
                        !.fronts[f].dbus = [ready |-> TRUE, value |-> p.value],
                        !.fronts[f].available = TRUE,
                        !.overtaken = IF UpdateWaits(f) THEN @ \union {f} ELSE @ \ {f}],
                     f, "dbus")
        [] OTHER -> bound

EnableDBus(p, f) ==
  LET enabled == [p EXCEPT !.fronts[f].enabled = TRUE, !.fronts[f].started = TRUE]
  IN  IF ~p.fronts[f].started /\ p.replica # NoServer THEN BindDBus(enabled, f) ELSE enabled

RefreshProvider(p, f) ==
  LET q == IF f \in Asynchronous THEN BindLocal(p, f) ELSE p
      inside == IF q.fronts[f].provider THEN "service"
                ELSE IF f \in ToSet(q.receivers) THEN "local" ELSE "default"
      r == EnableDBus(q, f)
  IN  IF inside # "default"
      THEN Wrap([q EXCEPT !.fronts[f].enabled = FALSE], f, inside)
      ELSE Wrap(r, f, IF r.fronts[f].available THEN "dbus" ELSE "default")

-----------------------------------------------------------------------------
(***************************************************************************)
(* What a front end does when one of the three registries changes.         *)
(***************************************************************************)
CheckLocalAdapter(p, f) ==
  IF f \notin Asynchronous /\ p.fronts[f].provider # p.manager
  THEN RefreshProvider([p EXCEPT !.fronts[f].provider = p.manager], f) ELSE p

Disconnected(receivers, f) ==
  LET k == CHOOSE n \in DOMAIN receivers : receivers[n] = f IN RemoveAt(receivers, k)

\* A binder that loses its adapter does not say so.
MutantCheckServiceAvailability(p, f) ==
  IF f \in Asynchronous /\ p.localEntry THEN BindLocal(p, f)
  ELSE IF f \in ToSet(p.receivers) THEN [p EXCEPT !.receivers = Disconnected(@, f)] ELSE p

CheckServiceAvailability(p, f) ==
  IF f \in Asynchronous /\ p.localEntry THEN BindLocal(p, f)
  ELSE IF f \in ToSet(p.receivers)
  THEN RefreshProvider([p EXCEPT !.receivers = Disconnected(@, f)], f)
  ELSE p

\* The proxy of a withdrawn service stays available.
MutantUnbindDBus(p, f) ==
  [p EXCEPT !.fronts[f].server = NoServer,
            !.fronts[f].subscribed = @ \ {p.fronts[f].server},
            !.fronts[f].outdated = FALSE]

UnbindDBus(p, f) ==
  LET q == [p EXCEPT !.fronts[f].available = FALSE,
                     !.fronts[f].subscribed = @ \ {p.fronts[f].server},
                     !.fronts[f].outdated = FALSE]
      r == IF p.fronts[f].available THEN RefreshProvider(q, f) ELSE q
  IN  [r EXCEPT !.fronts[f].server = NoServer]

\* checkRegistry(): nothing is noticed while the binder is disabled.
CheckRegistry(p, f) ==
  LET front == p.fronts[f]
  IN  CASE ~front.started -> p
        [] front.started /\ ~front.enabled -> [p EXCEPT !.fronts[f].outdated = TRUE]
        [] OTHER ->
             IF p.replica \notin {NoServer, front.server}
             THEN LET q == BindDBus(p, f)
                  IN  IF q.fronts[f].available # front.available THEN RefreshProvider(q, f) ELSE q
             ELSE IF p.replica = NoServer /\ front.server # NoServer THEN UnbindDBus(p, f) ELSE p

\* onPropertiesChanged() and onSignalTriggered(), whoever the sender is.
StoreUpdate(p, f, v) == Forward([p EXCEPT !.fronts[f].dbus.value = v], f, "dbus")

\* What the binder of f does with a signal.
Slot(signal, p, f) ==
  CASE signal.kind = "manager" -> CheckLocalAdapter(p, f)
    [] signal.kind = "localEntry" -> CheckServiceAvailability(p, f)
    [] signal.kind = "replica" -> CheckRegistry(p, f)
    [] signal.kind = "value" -> Forward(p, f, "service")
    [] signal.kind = "update" -> IF f \in signal.to THEN StoreUpdate(p, f, signal.value) ELSE p

\* The process after a signal: the slots run in the order of connection.
Emitted(signal, p) ==
  LET after[n \in 0 .. Len(p.created)] ==
        IF n = 0 THEN p ELSE Slot(signal, after[n - 1], p.created[n])
  IN  after[Len(p.created)]

SetManager(p, present) ==
  Emitted([kind |-> "manager"], [p EXCEPT !.manager = present])

SetLocalEntry(p, present) ==
  Emitted([kind |-> "localEntry"], [p EXCEPT !.localEntry = present])

SetReplica(p, server) == Emitted([kind |-> "replica"], [p EXCEPT !.replica = server])

-----------------------------------------------------------------------------
(***************************************************************************)
(* The service in this process: NewIPCServiceAdapterBase and its adapters. *)
(***************************************************************************)
Here == "here" \in process.exported

Room == Len(news) < MaxNews

\* One process exports a path at a time: another one has to wait until the
\* registry has no entry.
Free(server) ==
  /\ process.exported = {}
  /\ objectMap \in {NoServer, server}
  /\ \A n \in DOMAIN announced : announced[n].server = server
  /\ master => \A n \in DOMAIN news : news[n].kind = "entry" => server = "elsewhere"

Entry(server, present) == [kind |-> "entry", server |-> server, present |-> present]

\* The holder of the registry calls itself, and its listeners at once.
RegisterObject(p, present) ==
  IF master
  THEN /\ process' = SetReplica(p, IF present THEN "here" ELSE NoServer)
       /\ objectMap' = IF present THEN "here" ELSE NoServer
       /\ UNCHANGED announced
  ELSE /\ process' = p
       /\ announced' = Append(announced, Entry("here", present))
       /\ UNCHANGED objectMap

\* registerService(): in process, then Local IPC, then D-Bus.
RegisterService ==
  /\ ~Here /\ Free("here") /\ Room /\ exports < MaxExports
  /\ exports' = exports + 1
  /\ \E v \in Value :
       LET p == [process EXCEPT !.value = v, !.dropped = FALSE]
           q == [SetLocalEntry(SetManager(p, TRUE), TRUE) EXCEPT !.sent = v]
       IN  RegisterObject([q EXCEPT !.exported = @ \union {"here"}], TRUE)
  /\ UNCHANGED <<master, news, calls>>

\* The adapter's timers and the answers owed through it go with it.
Destroyed(p) ==
  [p EXCEPT !.timers = <<>>, !.receivers = <<>>, !.dropped = FALSE]

Lost(c) == IF calls[c] \in {"posted", "serving"} THEN "lost" ELSE calls[c]

WithoutDBus(p) ==
  LET q == [p EXCEPT !.exported = @ \ {"here"}]
  IN  IF master THEN SetReplica(q, NoServer) ELSE q

\* unregisterService(): no longer in process, and the adapters are destroyed,
\* D-Bus first.
UnregisterService ==
  /\ Here /\ Room
  /\ process' = Destroyed(SetLocalEntry(WithoutDBus(SetManager(process, FALSE)), FALSE))
  /\ objectMap' = IF master THEN NoServer ELSE objectMap
  /\ announced' = IF master THEN announced ELSE Append(announced, Entry("here", FALSE))
  /\ calls' = [c \in Call |-> Lost(c)]
  /\ UNCHANGED <<master, news, exports>>

\* The service object is deleted and its adapters with it.  Front ends that
\* wrap it see a null pointer from the start.
DeleteService ==
  /\ Here /\ Room
  /\ LET InUse(f) == process.fronts[f].wrapped = "service"
         p == [process EXCEPT
                 !.fronts = [f \in FrontEnd |->
                    IF InUse(f) THEN [@[f] EXCEPT !.wrapped = "gone"] ELSE @[f]],
                 !.unaware = @ \union {f \in FrontEnd : InUse(f)}]
     IN  process' = SetManager(Destroyed(SetLocalEntry(WithoutDBus(p), FALSE)), FALSE)
  /\ objectMap' = IF master THEN NoServer ELSE objectMap
  /\ announced' = IF master THEN announced ELSE Append(announced, Entry("here", FALSE))
  /\ calls' = [c \in Call |-> Lost(c)]
  /\ UNCHANGED <<master, news, exports>>

-----------------------------------------------------------------------------
(***************************************************************************)
(* Changes of the service's property.                                      *)
(***************************************************************************)
\* Front ends that wrap the service itself pass its signal on.
ToldInProcess(p) == Emitted([kind |-> "value"], p)

\* The Local IPC adapter's sendSignal(): the values that changed since the
\* last signal, in one message that its receivers share.  The first one
\* reads it, and leaves nothing to read for the others.
SendSignal(p) ==
  LET first == Head(p.receivers)
      got == [p EXCEPT !.fronts[first].local.value = p.value]
  IN  IF p.sent = p.value \/ p.receivers = <<>>
      THEN [p EXCEPT !.sent = p.value]
      ELSE [Forward(got, first, "local") EXCEPT
              !.sent = p.value, !.starved = @ \union ToSet(Tail(p.receivers))]

Subscribers(server) == {f \in FrontEnd : server \in process.fronts[f].subscribed}

Update(server, v) ==
  IF Subscribers(server) = {} THEN news
  ELSE Append(news, [kind |-> "update", to |-> Subscribers(server), value |-> v])

\* Whoever gets this update has the older ones before it.
Changed(server, v) ==
  [process EXCEPT !.value = v, !.overtaken = @ \ Subscribers(server)]

ChangeValue(v) ==
  /\ Here /\ Room /\ v # process.value
  /\ process' = ToldInProcess(SendSignal(Changed("here", v)))
  /\ news' = Update("here", v)
  /\ UNCHANGED <<master, announced, objectMap, calls, exports>>

\* A listener of the first receiver's front end sets the property again.
\* The adapter is still busy and does not send the nested signal.
ChangeValueTwice(v, w) ==
  /\ Here /\ Room /\ v # process.value /\ w # v
  /\ process.receivers # <<>> /\ process.sent # v
  /\ LET first == Head(process.receivers)
         p == SendSignal(Changed("here", v))
     IN  /\ process.fronts[first].wrapped = "local" /\ process.fronts[first].local.value # v
         /\ process' = ToldInProcess([p EXCEPT !.value = w, !.dropped = TRUE])
  /\ news' = Update("here", w)
  /\ UNCHANGED <<master, announced, objectMap, calls, exports>>

-----------------------------------------------------------------------------
(***************************************************************************)
(* The service in another process, and the registry.                       *)
(***************************************************************************)
Listed(entry) == IF entry.present THEN entry.server ELSE NoServer

\* Its calls share their way with what it sends to the holder otherwise.
Announce(present) ==
  LET entry == Entry("elsewhere", present)
  IN  /\ news' = IF master THEN Append(news, entry) ELSE news
      /\ announced' = IF master THEN announced ELSE Append(announced, entry)

ExportElsewhere ==
  /\ Free("elsewhere") /\ Room /\ exports < MaxExports
  /\ exports' = exports + 1
  /\ \E v \in Value : process' = [process EXCEPT !.value = v, !.exported = {"elsewhere"}]
  /\ Announce(TRUE)
  /\ UNCHANGED <<master, objectMap, calls>>

WithdrawElsewhere ==
  /\ "elsewhere" \in process.exported /\ Room
  /\ process' = [process EXCEPT !.exported = {}]
  /\ Announce(FALSE)
  /\ UNCHANGED <<master, objectMap, calls, exports>>

ChangeElsewhere(v) ==
  /\ "elsewhere" \in process.exported /\ Room /\ v # process.value
  /\ process' = Changed("elsewhere", v)
  /\ news' = Update("elsewhere", v)
  /\ UNCHANGED <<master, announced, objectMap, calls, exports>>

\* The registry in another process handles a call and tells this one.
HandleAnnouncement ==
  /\ announced # <<>>
  /\ announced' = Tail(announced)
  /\ objectMap' = Listed(Head(announced))
  /\ news' = Append(news, Head(announced))
  /\ UNCHANGED <<master, process, calls, exports>>

\* A service answers GetAllProperties; the bus's error for a service that is
\* gone is dropped.
HandleRequest(server) ==
  /\ process.requests[server] # <<>>
  /\ process' = [process EXCEPT !.requests[server] = Tail(@)]
  /\ news' = IF server \in process.exported
             THEN Append(news, [kind |-> "snapshot", front |-> Head(process.requests[server]),
                                value |-> process.value])
             ELSE news
  /\ UNCHANGED <<master, announced, objectMap, calls, exports>>

-----------------------------------------------------------------------------
(***************************************************************************)
(* The event loop of the process.                                          *)
(***************************************************************************)
\* The component of a front end is complete.
CompleteFrontEnd(f) ==
  /\ f \notin Created(process)
  /\ LET p == RefreshProvider(CheckLocalAdapter(process, f), f)
     IN  process' = [p EXCEPT !.created = Append(@, f)]
  /\ UNCHANGED <<master, announced, objectMap, news, calls, exports>>

Delivers(kind) ==
  /\ news # <<>> /\ Head(news).kind = kind
  /\ news' = Tail(news)
  /\ UNCHANGED <<master, announced, calls, exports>>

OnEntry ==
  /\ Delivers("entry")
  /\ process' = SetReplica(process, Listed(Head(news)))
  /\ objectMap' = IF master THEN Listed(Head(news)) ELSE objectMap

\* setServiceRegistered(true), whether the binder is enabled or not.
OnSnapshot ==
  /\ Delivers("snapshot") /\ UNCHANGED objectMap
  /\ LET f == Head(news).front
         p == Forward([process EXCEPT !.fronts[f].dbus = [ready |-> TRUE, value |-> Head(news).value],
                                      !.fronts[f].available = TRUE,
                                      !.fronts[f].outdated = @ \/ process.fronts[f].server = NoServer],
                     f, "dbus")
     IN  process' = IF process.fronts[f].available THEN p ELSE RefreshProvider(p, f)

OnUpdate ==
  /\ Delivers("update") /\ UNCHANGED objectMap
  /\ process' = Emitted(Head(news), process)

\* The answer to GetProperties does not make the front end look again.
MutantReadProperties ==
  /\ process.timers # <<>> /\ Head(process.timers).kind = "properties"
  /\ LET f == Head(process.timers).front
         p == [process EXCEPT !.timers = Tail(@),
                              !.fronts[f].local = [ready |-> TRUE, value |-> process.value],
                              !.starved = @ \ {f}]
     IN  process' = Forward(p, f, "local")
  /\ UNCHANGED <<master, announced, objectMap, news, calls, exports>>

\* The zero timer of requestPropertyValues(): the adapter answers at once.
ReadProperties ==
  /\ process.timers # <<>> /\ Head(process.timers).kind = "properties"
  /\ LET f == Head(process.timers).front
         p == [process EXCEPT !.timers = Tail(@),
                              !.fronts[f].local = [ready |-> TRUE, value |-> process.value],
                              !.starved = @ \ {f}]
     IN  process' = RefreshProvider(Forward(p, f, "local"), f)
  /\ UNCHANGED <<master, announced, objectMap, news, calls, exports>>

\* asyncCall() of the Local IPC proxy.
MakeCall(c, f) ==
  /\ calls[c] = "idle" /\ process.fronts[f].wrapped = "local"
  /\ calls' = [calls EXCEPT ![c] = "posted"]
  /\ process' = [process EXCEPT !.timers = Append(@, [kind |-> "call", call |-> c])]
  /\ UNCHANGED <<master, announced, objectMap, news, exports>>

\* Nobody keeps the call that the service answers later.
MutantHandleCall ==
  /\ process.timers # <<>> /\ Head(process.timers).kind = "call"
  /\ \E outcome \in {"posted", "answered"} :
       calls' = [calls EXCEPT ![Head(process.timers).call] = outcome]
  /\ process' = [process EXCEPT !.timers = Tail(@)]
  /\ UNCHANGED <<master, announced, objectMap, news, exports>>

\* The adapter hands the call to the service, which answers now or later.
HandleCall ==
  /\ process.timers # <<>> /\ Head(process.timers).kind = "call"
  /\ \E outcome \in {"serving", "answered"} :
       calls' = [calls EXCEPT ![Head(process.timers).call] = outcome]
  /\ process' = [process EXCEPT !.timers = Tail(@)]
  /\ UNCHANGED <<master, announced, objectMap, news, exports>>

AnswerCall(c) ==
  /\ calls[c] = "serving"
  /\ calls' = [calls EXCEPT ![c] = "answered"]
  /\ UNCHANGED <<master, process, announced, objectMap, news, exports>>

-----------------------------------------------------------------------------
ServiceStep ==
  \/ RegisterService \/ UnregisterService \/ DeleteService
  \/ \E v, w \in Value : ChangeValue(v) \/ ChangeValueTwice(v, w)
  \/ ExportElsewhere \/ WithdrawElsewhere
  \/ \E v \in Value : ChangeElsewhere(v)

RequestStep == \E server \in Server : HandleRequest(server)

NewsStep == OnEntry \/ OnSnapshot \/ OnUpdate

TimerStep == ReadProperties \/ HandleCall

ClientStep == \E f \in FrontEnd : CompleteFrontEnd(f) \/ \E c \in Call : MakeCall(c, f)

AnswerStep == \E c \in Call : AnswerCall(c)

Next ==
  ServiceStep \/ HandleAnnouncement \/ RequestStep \/ NewsStep \/ TimerStep \/ ClientStep
    \/ AnswerStep

Spec == Init /\ [][Next]_vars

\* Event loops and the bus keep running, and a service answers the calls it
\* was given (TAsyncAnswerMasterBase).  Each formula is weak fairness of the
\* step, with the condition under which it is enabled written out.
Fairness ==
  /\ <>[](announced # <<>>) => []<><<HandleAnnouncement>>_vars
  /\ <>[](\E s \in Server : process.requests[s] # <<>>) => []<><<RequestStep>>_vars
  /\ <>[](news # <<>>) => []<><<NewsStep>>_vars
  /\ <>[](process.timers # <<>>) => []<><<TimerStep>>_vars
  /\ <>[](\E c \in Call : calls[c] = "serving") => []<><<AnswerStep>>_vars

FairSpec == Spec /\ Fairness

-----------------------------------------------------------------------------
(***************************************************************************)
(* Correctness.                                                            *)
(***************************************************************************)
Settled ==
  /\ announced = <<>> /\ news = <<>> /\ process.timers = <<>>
  /\ \A s \in Server : process.requests[s] = <<>>

BestProvider(f) ==
  CASE "elsewhere" \in process.exported -> "dbus"
    [] Here -> IF f \in Asynchronous THEN "local" ELSE "service"
    [] OTHER -> "default"

\* Once everything is delivered each front end uses the best provider there
\* is.  A withdrawn service may stay in use only by an asynchronous front end
\* whose D-Bus binder was disabled when the registry changed, or got its
\* snapshot after it had disconnected.
BestProviderInUse ==
  Settled => \A f \in Created(process) :
    \/ process.fronts[f].wrapped = BestProvider(f)
    \/ process.exported = {} /\ process.fronts[f].outdated /\ f \in Asynchronous

\* Whoever uses the service sees its present value once everything is
\* delivered, through whatever provider, unless the Local IPC adapter has
\* left a signal out or the front end got one that another one had read.
ValuesArrive ==
  Settled /\ process.exported # {} => \A f \in Created(process) :
    \/ Offered(process, f, process.fronts[f].wrapped).value = process.value
    \/ Here /\ (process.dropped \/ f \in process.starved)
    \/ f \in process.overtaken

\* Listeners of a front end know its readiness and value, also when it
\* changes the provider; excepted is the readiness after a service object in
\* use was deleted.
ListenersUpToDate ==
  \A f \in Created(process) :
    LET offered == Offered(process, f, process.fronts[f].wrapped)
    IN  /\ process.fronts[f].heard.value = offered.value
        /\ process.fronts[f].heard.ready = offered.ready \/ f \in process.unaware

\* No call goes through a Local IPC proxy without an adapter: asyncCall()
\* would dereference a null pointer.
CallsHaveAdapter ==
  \A f \in FrontEnd : process.fronts[f].wrapped = "local" =>
    Here /\ f \in ToSet(process.receivers)

\* "Send property value updates before the signal itself so that they are
\* set before the signal is triggered on the client side"
\* (LocalIPCServiceAdapterBase.cpp).
SignalsCarryValues ==
  \A f \in ToSet(process.receivers) :
    process.fronts[f].local.ready /\ Settled /\ ~process.dropped =>
      process.fronts[f].local.value = process.value

\* A service that stays exported is found by every front end.
ServiceFound ==
  \A f \in FrontEnd, server \in Server :
    (f \in Created(process) /\ server \in process.exported)
      ~> (process.fronts[f].wrapped = BestProvider(f) \/ server \notin process.exported)

\* A call is answered unless its service is withdrawn.
CallsEnd == \A c \in Call : calls[c] = "posted" ~> calls[c] \in {"answered", "lost"}
=============================================================================
