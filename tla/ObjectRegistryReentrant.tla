---------------------- MODULE ObjectRegistryReentrant -----------------------
(***************************************************************************)
(* The master's process when a listener of its own replica changes the     *)
(* registry.  MasterImpl emits objectAdded/objectRemoved; the first slot,  *)
(* connected by init(), updates the master's own replica and notifies the  *)
(* listeners of the path (DBusIPCProxyBinder::checkRegistry), and what     *)
(* those tell the application may end in a service adapter that registers  *)
(* or unregisters right there.  Only when the first slot returns, the      *)
(* second one, connected by the adapter's first GetAllProperties call,     *)
(* sends the signal of the outer change: the bus carries the signal of the *)
(* nested change first.                                                    *)
(***************************************************************************)
EXTENDS ObjectRegistry

Added(path, service, v) ==
  [member |-> "objectAdded", path |-> path, service |-> service, version |-> v]

Removed(path, v) ==
  [member |-> "objectRemoved", path |-> path, service |-> NoProc, version |-> v]

\* Both changes are applied in order in the master and in its own replica,
\* and are sent in the opposite order.
PublishNested(outer, inner) ==
  /\ objectMap' = [objectMap EXCEPT ![outer.path] = outer.service,
                                    ![inner.path] = inner.service]
  /\ version' = inner.version
  /\ objects' = [objects EXCEPT ![nameOwner] = Applied(Applied(@, outer), inner)]
  /\ registryVersion' = [registryVersion EXCEPT ![nameOwner] = inner.version]
  /\ signals' = [q \in Proc |->
                   IF signalsConnected /\ phase[q] = "replica"
                   THEN signals[q] \o <<inner, outer>> ELSE signals[q]]
  /\ missed' = missed \union Unheard
  /\ UNCHANGED <<nameOwner, signalsConnected, awaited, refused>>

\* The master handles p's registerObject; told of the new entry, its own
\* application exports or withdraws one of its services.
HandleRegisterObjectNested(p, inner) ==
  LET outer == Head(requests[p]).path
      first == NextVersion(version)
      second == NextVersion(first)
  IN  /\ Serving
      /\ Receives(p, "registerObject")
      /\ objectMap[outer] = NoProc
      /\ MayChange
      /\ inner \in Serves[nameOwner] \ {outer}
      /\ \/ /\ inner \notin exported[nameOwner]
            /\ objectMap[inner] = NoProc
            /\ exported' = [exported EXCEPT ![nameOwner] = @ \union {inner}]
            /\ PublishNested(Added(outer, p, first), Added(inner, nameOwner, second))
         \/ /\ inner \in exported[nameOwner]
            /\ objectMap[inner] = nameOwner
            /\ exported' = [exported EXCEPT ![nameOwner] = @ \ {inner}]
            /\ PublishNested(Added(outer, p, first), Removed(inner, second))
      /\ UNCHANGED <<phase, callVars>>

ReentrantNext ==
  \/ Next
  \/ \E p \in Proc, inner \in Path : HandleRegisterObjectNested(p, inner)

ReentrantSpec == Init /\ [][ReentrantNext]_vars

\* "Given an object path, the object registry can be used by clients to
\* identify the process which has registered a server under that object path"
\* (page-ipc.h): a replica that has handled every signal sent to it knows
\* the process behind each path.
ReplicasIdentifyServers ==
  \A p \in Proc \ missed, path \in Path :
    HasValidObjects(p) /\ signals[p] = <<>> => objects[p][path] = objectMap[path]
=============================================================================
