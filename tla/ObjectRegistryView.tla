-------------------------- MODULE ObjectRegistryView --------------------------
(***************************************************************************)
(* The map from the state of ObjectRegistry to that of RegistryView: what  *)
(* is still on its way to a process, read as the values of the registry    *)
(* that the process is going to see.                                       *)
(***************************************************************************)
EXTENDS ObjectRegistry

\* The values "content" runs through, itself included, when the signals of
\* "queue" are applied from position "from" on.
Values(content, queue, from) ==
  LET after[n \in 0 .. Len(queue) - from + 1] ==
        IF n = 0 THEN content ELSE Applied(after[n - 1], queue[from + n - 1])
  IN  [k \in 1 .. Len(queue) - from + 2 |-> after[k - 1]]

\* The position of the first queued signal a replica at version v accepts.
NextSignal(queue, v) ==
  LET next == {i \in 1 .. Len(queue) : queue[i].version = NextVersion(v)}
  IN  IF next = {} THEN Len(queue) + 1 ELSE CHOOSE i \in next : TRUE

\* A map at version v, and what it becomes by the signals that are queued.
Later(content, v, queue) == Values(content, queue, NextSignal(queue, v))

\* A snapshot is the first value a replica without one is going to see.  The
\* answer to a blocking call overtakes the asynchronous one.
Upcoming(p) ==
  LET starting(snapshot) == Later(snapshot.objects, snapshot.version, signals[p])
  IN  IF p \in missed THEN <<>>
      ELSE IF HasValidObjects(p)
           THEN Tail(Later(objects[p], registryVersion[p], signals[p]))
      ELSE IF Synchronised(p) THEN starting(Head(syncReply[p]))
      ELSE IF asyncReply[p] # <<>> THEN starting(Head(asyncReply[p]))
      ELSE <<>>

\* A missed process is a lost one of RegistryView: nothing is shown of it.
Known(p) == p \notin missed /\ HasValidObjects(p)

Shown(p) == IF p \in missed THEN Empty ELSE objects[p]

View == INSTANCE RegistryView WITH
  registry <- objectMap,
  known <- {p \in Proc : Known(p)},
  view <- [p \in Proc |-> Shown(p)],
  upcoming <- [p \in Proc |-> Upcoming(p)],
  told <- signalsConnected,
  turnedAway <- refused,
  lost <- missed

\* The registry implements RegistryView: replicas see the master's map in
\* the order in which it changed, whichever snapshot reaches them first, with
\* the one exception RegistryView spells out.
RefinesRegistryView == View!Spec
=============================================================================
