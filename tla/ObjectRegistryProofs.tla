------------------------ MODULE ObjectRegistryProofs ------------------------
(***************************************************************************)
(* Proofs about ObjectRegistry, for any processes, paths and bounds.       *)
(*                                                                         *)
(* The idea of the inductive invariant: number the master's versions       *)
(* backwards from its current one.  The i-th of n signals queued for a     *)
(* process is n - i versions back, and a replica, or a snapshot that has   *)
(* not been taken over yet, is "lag" versions back, where lag counts the   *)
(* signals at the end of the queue it still needs; these lead, each one    *)
(* changing its path, from the replica's content to the master's map.      *)
(* As no queue is as long as the versions go round, the head of the queue  *)
(* is the successor of the replica's version exactly when lag = n.         *)
(***************************************************************************)
EXTENDS ObjectRegistry, SequenceTheorems, TLAPS

\* The version that was current d versions before v.
Back(v, d) == IF v > d THEN v - d ELSE v - d + MaxVersion - 1

\* The signal really changes its path in the map "content".
Changes(content, signal) ==
  /\ content[signal.path] = NoProc <=> signal.member = "objectAdded"
  /\ signal.service = NoProc <=> signal.member = "objectRemoved"

\* h[i] is the map just before the i-th signal: the signals from position
\* "from" on lead from "content" to "map".
Leads(h, content, queue, from, map) ==
  /\ h[from] = content
  /\ h[Len(queue) + 1] = map
  /\ \A i \in from .. Len(queue) :
       Changes(h[i], queue[i]) /\ h[i + 1] = Applied(h[i], queue[i])

Explains(content, queue, from, map) ==
  \E h \in [from .. Len(queue) + 1 -> Content] : Leads(h, content, queue, from, map)

\* The map "content", numbered v, lacks the last "lag" signals of the queue.
Behind(content, v, lag, queue, map, current) ==
  /\ lag \in 0 .. Len(queue)
  /\ v = Back(current, lag)
  /\ Explains(content, queue, Len(queue) - lag + 1, map)

Lags(content, v, queue, map, current) ==
  \E lag \in 0 .. Len(queue) : Behind(content, v, lag, queue, map, current)

\* The queued signals carry the last versions, in order.
Numbered(queue, current) ==
  /\ Len(queue) <= MaxVersion - 2
  /\ \A i \in 1 .. Len(queue) : queue[i].version = Back(current, Len(queue) - i)

\* One process has, or is about to have, the master's role.
RolesInv ==
  /\ \A p \in Proc : phase[p] \in {"naming", "master"} <=> p = nameOwner
  /\ nameOwner = NoProc => \A p \in Proc : phase[p] = "idle"

StoppedInv ==
  ~Mastered =>
    /\ objectMap = Empty
    /\ ~signalsConnected
    /\ \A p \in Proc : ~HasSnapshot(p)

MasterInv ==
  Mastered =>
    /\ version \in Version
    /\ objects[nameOwner] = objectMap
    /\ registryVersion[nameOwner] = version

\* No signal is sent before the adapter forwards them, and whoever has a
\* snapshot all the same was refused its GetAllProperties call.
SilentInv ==
  ~signalsConnected =>
    \A p \in Proc :
      /\ signals[p] = <<>>
      /\ p # nameOwner /\ HasSnapshot(p) => p \in refused

\* Only replicas receive anything.
GoneInv(p) ==
  phase[p] # "replica" =>
    /\ signals[p] = <<>>
    /\ asyncReply[p] = <<>>
    /\ syncReply[p] = <<>>
    /\ ~blocked[p]
    /\ p \notin refused /\ p \notin missed
    /\ p # nameOwner => ~HasValidObjects(p)
    /\ phase[p] = "idle" => requests[p] = <<>>

\* The call for the snapshot follows the one that makes the adapter forward
\* signals, which even a caller that gave up has sent.
AskInv(p) ==
  ~signalsConnected /\ phase[p] = "replica" /\ p \notin refused =>
    /\ \A i \in 1 .. Len(requests[p]) :
         requests[p][i].member = "getObjects" =>
           \E j \in 1 .. i - 1 : requests[p][j].member = "GetAllProperties"
    /\ syncReply[p] # <<>> /\ Head(syncReply[p]).member = "GetAllProperties" =>
         \E j \in 1 .. Len(requests[p]) : requests[p][j].member = "GetAllProperties"

\* Calls whose caller goes on without the answer, and those it waits for.
AsksAsync(request) == request.member = "getObjects" /\ request.caller = "async"

AsksWaiting(request) ==
  request.member \in {"GetAllProperties", "getObjects"} /\ request.caller = "waiting"

\* At most one snapshot of each kind is under way.
CallsInv(p) ==
  \A i \in 1 .. Len(requests[p]) :
    /\ AsksAsync(requests[p][i]) =>
         /\ asyncReply[p] = <<>>
         /\ \A j \in 1 .. Len(requests[p]) : AsksAsync(requests[p][j]) => j = i
    /\ AsksWaiting(requests[p][i]) /\ phase[p] = "replica" =>
         i = Len(requests[p]) /\ blocked[p] /\ syncReply[p] = <<>>

BlockedInv(p) == blocked[p] => ~HasValidObjects(p)

QueueInv(p) == Numbered(signals[p], version)

ReplicaInv(p) ==
  phase[p] = "replica" /\ HasValidObjects(p) /\ p \notin missed =>
    Lags(objects[p], registryVersion[p], signals[p], objectMap, version)

\* A snapshot that comes too late to be taken over may be of any age.
AsyncInv(p) ==
  asyncReply[p] # <<>> =>
    /\ Len(asyncReply[p]) = 1
    /\ p \notin missed /\ ~HasValidObjects(p) /\ ~Synchronised(p) =>
         Behind(asyncReply[p][1].objects, asyncReply[p][1].version,
                Len(signals[p]) - asyncReply[p][1].behind, signals[p], objectMap, version)

SyncInv(p) ==
  syncReply[p] # <<>> =>
    /\ Len(syncReply[p]) = 1
    /\ blocked[p]
    /\ Synchronised(p) =>
         /\ syncReply[p][1].member = "getObjects"
         /\ p \notin missed =>
              Lags(syncReply[p][1].objects, syncReply[p][1].version, signals[p],
                   objectMap, version)

GlobalInv == RolesInv /\ StoppedInv /\ MasterInv /\ SilentInv

LocalInv(p) == GoneInv(p) /\ AskInv(p) /\ CallsInv(p) /\ BlockedInv(p)

DataInv(p) == QueueInv(p) /\ ReplicaInv(p) /\ AsyncInv(p) /\ SyncInv(p)

IInv == TypeOK /\ GlobalInv /\ \A p \in Proc : LocalInv(p) /\ DataInv(p)

-----------------------------------------------------------------------------
(***************************************************************************)
(* Versions counted backwards.                                             *)
(***************************************************************************)
LEMMA BackVersion ==
  ASSUME NEW v \in Version, NEW d \in 0 .. MaxVersion - 2
  PROVE  Back(v, d) \in Version
BY ConstantsAssumption DEF Back, Version, INITIAL_REGISTRY_VERSION

LEMMA NextVersionType ==
  ASSUME NEW v \in Version \union {INVALID_REGISTRY_VERSION}
  PROVE  NextVersion(v) \in Version
BY ConstantsAssumption
   DEF NextVersion, Version, INITIAL_REGISTRY_VERSION, INVALID_REGISTRY_VERSION

\* A new version moves every older one a step further back.
LEMMA BackShift ==
  ASSUME NEW v \in Version, NEW d \in 0 .. MaxVersion - 3
  PROVE  Back(NextVersion(v), d + 1) = Back(v, d)
BY ConstantsAssumption
   DEF Back, NextVersion, Version, INITIAL_REGISTRY_VERSION

LEMMA BackZero ==
  ASSUME NEW v \in Version
  PROVE  Back(v, 0) = v
BY ConstantsAssumption DEF Back, Version, INITIAL_REGISTRY_VERSION

\* The version window: with fewer than MaxVersion - 1 signals queued, the
\* successor of the version "lag" back is the one "d" back only if it is
\* the very next one.
LEMMA Window ==
  ASSUME NEW v \in Version, NEW lag \in 0 .. MaxVersion - 2,
         NEW d \in 0 .. MaxVersion - 3
  PROVE  Back(v, d) = NextVersion(Back(v, lag)) <=> lag = d + 1
BY ConstantsAssumption
   DEF Back, NextVersion, Version, INITIAL_REGISTRY_VERSION

-----------------------------------------------------------------------------
(***************************************************************************)
(* Signals that lead from one map to another.                              *)
(***************************************************************************)
LEMMA AppliedType ==
  ASSUME NEW content \in Content, NEW signal \in Signal
  PROVE  Applied(content, signal) \in Content
BY DEF Applied, Content, Signal, Service

\* A signal that changes its path puts its service there.
LEMMA AppliedChanges ==
  ASSUME NEW content \in Content, NEW signal \in Signal, Changes(content, signal)
  PROVE  Applied(content, signal) = [content EXCEPT ![signal.path] = signal.service]
BY DEF Applied, Changes

LEMMA ExplainsNow ==
  ASSUME NEW map \in Content, NEW queue \in Seq(Signal)
  PROVE  Explains(map, queue, Len(queue) + 1, map)
<1>. DEFINE h == [i \in Len(queue) + 1 .. Len(queue) + 1 |-> map]
<1>1. h \in [Len(queue) + 1 .. Len(queue) + 1 -> Content]
  OBVIOUS
<1>2. Leads(h, map, queue, Len(queue) + 1, map)
  BY LenProperties DEF Leads
<1>. QED  BY <1>1, <1>2 DEF Explains

LEMMA ExplainsNothing ==
  ASSUME NEW content \in Content, NEW map \in Content, NEW queue \in Seq(Signal),
         Explains(content, queue, Len(queue) + 1, map)
  PROVE  content = map
BY LenProperties DEF Explains, Leads

LEMMA ExplainsAppend ==
  ASSUME NEW content \in Content, NEW map \in Content,
         NEW queue \in Seq(Signal), NEW from \in 1 .. Len(queue) + 1,
         NEW signal \in Signal,
         Explains(content, queue, from, map), Changes(map, signal)
  PROVE  Explains(content, Append(queue, signal), from, Applied(map, signal))
<1>. DEFINE longer == Append(queue, signal)
            n == Len(queue)
<1>1. /\ longer \in Seq(Signal)
      /\ Len(longer) = n + 1
      /\ longer[n + 1] = signal
      /\ \A i \in 1 .. n : longer[i] = queue[i]
      /\ n \in Nat
  BY AppendProperties, LenProperties
<1>2. PICK h \in [from .. n + 1 -> Content] : Leads(h, content, queue, from, map)
  BY DEF Explains
<1>. DEFINE g == [i \in from .. n + 2 |-> IF i = n + 2 THEN Applied(map, signal) ELSE h[i]]
<1>3. g \in [from .. n + 2 -> Content]
  BY <1>1, AppliedType
<1>4. g[from] = content /\ g[n + 2] = Applied(map, signal) /\ g[n + 1] = map
  BY <1>1, <1>2 DEF Leads
<1>5. ASSUME NEW i \in from .. n + 1
      PROVE  Changes(g[i], longer[i]) /\ g[i + 1] = Applied(g[i], longer[i])
  <2>1. CASE i = n + 1
    BY <2>1, <1>1, <1>4
  <2>2. CASE i # n + 1
    <3>1. i \in from .. n /\ i \in 1 .. n
      BY <2>2, <1>1
    <3>2. g[i] = h[i] /\ g[i + 1] = h[i + 1]
      BY <3>1, <1>1
    <3>. QED  BY <3>1, <3>2, <1>1, <1>2 DEF Leads
  <2>. QED  BY <2>1, <2>2
<1>6. Len(longer) + 1 = n + 2 /\ from .. Len(longer) = from .. n + 1
  BY <1>1
<1>. HIDE DEF g, n, longer
<1>7. Leads(g, content, longer, from, Applied(map, signal))
  BY <1>4, <1>5, <1>6 DEF Leads
<1>8. Explains(content, longer, from, Applied(map, signal))
  BY <1>3, <1>6, <1>7 DEF Explains
<1>. QED  BY <1>8 DEF longer

LEMMA ExplainsTail ==
  ASSUME NEW content \in Content, NEW map \in Content,
         NEW queue \in Seq(Signal), queue # <<>>,
         NEW from \in 2 .. Len(queue) + 1,
         Explains(content, queue, from, map)
  PROVE  Explains(content, Tail(queue), from - 1, map)
<1>. DEFINE n == Len(queue)
<1>1. /\ Tail(queue) \in Seq(Signal)
      /\ Len(Tail(queue)) = n - 1
      /\ \A i \in 1 .. n - 1 : Tail(queue)[i] = queue[i + 1]
      /\ n \in Nat
  BY HeadTailProperties, LenProperties
<1>2. PICK h \in [from .. n + 1 -> Content] : Leads(h, content, queue, from, map)
  BY DEF Explains
<1>. DEFINE g == [i \in from - 1 .. n |-> h[i + 1]]
<1>3. g \in [from - 1 .. n -> Content]
  BY <1>1
<1>4. g[from - 1] = content /\ g[n] = map
  BY <1>1, <1>2 DEF Leads
<1>5. ASSUME NEW i \in from - 1 .. n - 1
      PROVE  Changes(g[i], Tail(queue)[i]) /\ g[i + 1] = Applied(g[i], Tail(queue)[i])
  <2>1. i + 1 \in from .. n /\ i \in 1 .. n - 1
    BY <1>1
  <2>2. g[i] = h[i + 1] /\ g[i + 1] = h[(i + 1) + 1] /\ Tail(queue)[i] = queue[i + 1]
    BY <2>1, <1>1
  <2>. QED  BY <2>1, <2>2, <1>2 DEF Leads
<1>6. Len(Tail(queue)) + 1 = n /\ from - 1 .. Len(Tail(queue)) = from - 1 .. n - 1
  BY <1>1
<1>. HIDE DEF g, n
<1>7. Leads(g, content, Tail(queue), from - 1, map)
  BY <1>4, <1>5, <1>6 DEF Leads
<1>. QED  BY <1>3, <1>6, <1>7 DEF Explains

\* What a replica that needs the whole queue does with its head.
LEMMA ExplainsHead ==
  ASSUME NEW content \in Content, NEW map \in Content,
         NEW queue \in Seq(Signal), queue # <<>>,
         Explains(content, queue, 1, map)
  PROVE  /\ Changes(content, Head(queue))
         /\ Explains(Applied(content, Head(queue)), Tail(queue), 1, map)
<1>. DEFINE n == Len(queue)
            next == Applied(content, Head(queue))
<1>1. n \in Nat /\ n >= 1 /\ Head(queue) = queue[1] /\ Head(queue) \in Signal
  BY HeadTailProperties, LenProperties, EmptySeq
<1>2. PICK h \in [1 .. n + 1 -> Content] : Leads(h, content, queue, 1, map)
  BY DEF Explains
<1>3. Changes(content, Head(queue)) /\ h[2] = next
  BY <1>1, <1>2 DEF Leads
<1>. DEFINE g == [i \in 2 .. n + 1 |-> h[i]]
<1>4. g \in [2 .. n + 1 -> Content] /\ Leads(g, next, queue, 2, map)
  <2>1. g \in [2 .. n + 1 -> Content]
    BY <1>1
  <2>2. g[2] = next /\ g[n + 1] = map
    BY <1>1, <1>2, <1>3 DEF Leads
  <2>3. ASSUME NEW i \in 2 .. n
        PROVE  Changes(g[i], queue[i]) /\ g[i + 1] = Applied(g[i], queue[i])
    <3>1. i \in 1 .. n /\ g[i] = h[i] /\ g[i + 1] = h[i + 1]
      BY <1>1
    <3>. QED  BY <3>1, <1>2 DEF Leads
  <2>. QED  BY <2>1, <2>2, <2>3 DEF Leads
<1>5. Explains(next, queue, 2, map)
  BY <1>4 DEF Explains
<1>6. next \in Content
  BY <1>1, AppliedType
<1>7. Explains(next, Tail(queue), 2 - 1, map)
  BY <1>1, <1>5, <1>6, ExplainsTail
<1>. QED  BY <1>3, <1>7
-----------------------------------------------------------------------------
(***************************************************************************)
(* A snapshot or a replica, and the queue behind it.                       *)
(***************************************************************************)
LEMMA BehindNow ==
  ASSUME NEW map \in Content, NEW queue \in Seq(Signal), NEW current \in Version
  PROVE  Behind(map, current, 0, queue, map, current)
<1>1. Len(queue) \in Nat /\ Len(queue) - 0 + 1 = Len(queue) + 1
  BY LenProperties
<1>. QED  BY <1>1, ExplainsNow, BackZero DEF Behind

LEMMA BehindNothing ==
  ASSUME NEW content \in Content, NEW map \in Content, NEW v, NEW current \in Version,
         NEW queue \in Seq(Signal), queue = <<>>,
         Lags(content, v, queue, map, current)
  PROVE  content = map /\ v = current
<1>1. Len(queue) = 0 /\ Len(queue) - 0 + 1 = Len(queue) + 1
  OBVIOUS
<1>2. Behind(content, v, 0, queue, map, current)
  BY <1>1 DEF Lags
<1>. QED  BY <1>1, <1>2, ExplainsNothing, BackZero DEF Behind

LEMMA BehindAppend ==
  ASSUME NEW content \in Content, NEW map \in Content, NEW v, NEW lag,
         NEW current \in Version, NEW queue \in Seq(Signal), NEW signal \in Signal,
         Len(queue) <= MaxVersion - 3, Changes(map, signal),
         Behind(content, v, lag, queue, map, current)
  PROVE  Behind(content, v, lag + 1, Append(queue, signal), Applied(map, signal),
                NextVersion(current))
<1>1. /\ Len(queue) \in Nat /\ Len(Append(queue, signal)) = Len(queue) + 1
      /\ lag \in 0 .. Len(queue) /\ lag \in 0 .. MaxVersion - 3
      /\ Len(queue) - lag + 1 \in 1 .. Len(queue) + 1
      /\ (Len(queue) + 1) - (lag + 1) + 1 = Len(queue) - lag + 1
      /\ lag + 1 \in 0 .. Len(queue) + 1
  BY LenProperties, AppendProperties, ConstantsAssumption DEF Behind
<1>2. v = Back(NextVersion(current), lag + 1)
  BY <1>1, BackShift DEF Behind
<1>3. Explains(content, Append(queue, signal), Len(queue) - lag + 1, Applied(map, signal))
  BY <1>1, ExplainsAppend DEF Behind
<1>. QED  BY <1>1, <1>2, <1>3 DEF Behind

LEMMA LagsAppend ==
  ASSUME NEW content \in Content, NEW map \in Content, NEW v,
         NEW current \in Version, NEW queue \in Seq(Signal), NEW signal \in Signal,
         Len(queue) <= MaxVersion - 3, Changes(map, signal),
         Lags(content, v, queue, map, current)
  PROVE  Lags(content, v, Append(queue, signal), Applied(map, signal), NextVersion(current))
<1>1. PICK lag \in 0 .. Len(queue) : Behind(content, v, lag, queue, map, current)
  BY DEF Lags
<1>2. Behind(content, v, lag + 1, Append(queue, signal), Applied(map, signal),
             NextVersion(current))
  BY <1>1, BehindAppend
<1>3. lag + 1 \in 0 .. Len(Append(queue, signal))
  BY <1>2 DEF Behind
<1>. QED  BY <1>2, <1>3 DEF Lags

LEMMA NumberedAppend ==
  ASSUME NEW current \in Version, NEW queue \in Seq(Signal), NEW signal \in Signal,
         Len(queue) <= MaxVersion - 3, signal.version = NextVersion(current),
         Numbered(queue, current)
  PROVE  Numbered(Append(queue, signal), NextVersion(current))
<1>. DEFINE n == Len(queue)
            longer == Append(queue, signal)
<1>1. /\ n \in Nat /\ Len(longer) = n + 1 /\ longer[n + 1] = signal
      /\ \A i \in 1 .. n : longer[i] = queue[i]
  BY LenProperties, AppendProperties
<1>2. ASSUME NEW i \in 1 .. n + 1
      PROVE  longer[i].version = Back(NextVersion(current), (n + 1) - i)
  <2>. HIDE DEF n, longer
  <2>1. CASE i = n + 1
    <3>1. NextVersion(current) \in Version /\ (n + 1) - i = 0
      BY <1>1, <2>1, NextVersionType
    <3>. QED  BY <1>1, <2>1, <3>1, BackZero
  <2>2. CASE i # n + 1
    <3>1. i \in 1 .. n /\ n - i \in 0 .. MaxVersion - 3 /\ (n + 1) - i = (n - i) + 1
      BY <1>1, <2>2, ConstantsAssumption DEF n
    <3>2. queue[i].version = Back(current, n - i)
      BY <3>1 DEF Numbered, n
    <3>. QED  BY <1>1, <3>1, <3>2, BackShift
  <2>. QED  BY <2>1, <2>2
<1>. QED  BY <1>1, <1>2, ConstantsAssumption DEF Numbered

LEMMA NumberedTail ==
  ASSUME NEW current \in Version, NEW queue \in Seq(Signal), queue # <<>>,
         Numbered(queue, current)
  PROVE  /\ Numbered(Tail(queue), current)
         /\ Head(queue).version = Back(current, Len(queue) - 1)
<1>. DEFINE n == Len(queue)
<1>1. /\ n \in Nat /\ n >= 1 /\ Len(Tail(queue)) = n - 1
      /\ \A i \in 1 .. n - 1 : Tail(queue)[i] = queue[i + 1]
      /\ Head(queue) = queue[1]
  BY LenProperties, HeadTailProperties, EmptySeq
<1>2. ASSUME NEW i \in 1 .. n - 1
      PROVE  Tail(queue)[i].version = Back(current, (n - 1) - i)
  <2>1. i + 1 \in 1 .. n /\ n - (i + 1) = (n - 1) - i
    BY <1>1
  <2>2. queue[i + 1].version = Back(current, n - (i + 1))
    BY <2>1 DEF Numbered
  <2>. QED  BY <1>1, <2>1, <2>2
<1>3. Numbered(Tail(queue), current)
  BY <1>1, <1>2, ConstantsAssumption DEF Numbered
<1>. QED  BY <1>1, <1>3 DEF Numbered

\* The version test lets a replica take exactly the signal it lacks next.
LEMMA AcceptsHead ==
  ASSUME NEW current \in Version, NEW queue \in Seq(Signal), queue # <<>>,
         Numbered(queue, current),
         NEW content, NEW map, NEW v, NEW lag, Behind(content, v, lag, queue, map, current)
  PROVE  Head(queue).version = NextVersion(v) <=> lag = Len(queue)
<1>1. Len(queue) \in Nat /\ Len(queue) >= 1
  BY LenProperties, EmptySeq
<1>2. lag \in 0 .. MaxVersion - 2 /\ Len(queue) - 1 \in 0 .. MaxVersion - 3
  BY <1>1, ConstantsAssumption DEF Behind, Numbered
<1>3. Back(current, Len(queue) - 1) = NextVersion(Back(current, lag)) <=>
        lag = (Len(queue) - 1) + 1
  BY <1>2, Window
<1>. QED  BY <1>1, <1>2, <1>3, NumberedTail DEF Behind

LEMMA BehindTail ==
  ASSUME NEW content \in Content, NEW map \in Content, NEW v, NEW lag, NEW current \in Version,
         NEW queue \in Seq(Signal), queue # <<>>, lag # Len(queue),
         Behind(content, v, lag, queue, map, current)
  PROVE  Behind(content, v, lag, Tail(queue), map, current)
<1>1. /\ Len(queue) \in Nat /\ Len(Tail(queue)) = Len(queue) - 1
      /\ lag \in 0 .. Len(queue) - 1
      /\ Len(queue) - lag + 1 \in 2 .. Len(queue) + 1
      /\ (Len(queue) - lag + 1) - 1 = (Len(queue) - 1) - lag + 1
  BY LenProperties, HeadTailProperties DEF Behind
<1>2. Explains(content, Tail(queue), (Len(queue) - lag + 1) - 1, map)
  BY <1>1, ExplainsTail DEF Behind
<1>. QED  BY <1>1, <1>2 DEF Behind

LEMMA BehindHead ==
  ASSUME NEW content \in Content, NEW map \in Content, NEW v, NEW current \in Version,
         NEW queue \in Seq(Signal), queue # <<>>, Numbered(queue, current),
         Behind(content, v, Len(queue), queue, map, current)
  PROVE  /\ Changes(content, Head(queue))
         /\ Lags(Applied(content, Head(queue)), Head(queue).version, Tail(queue), map, current)
<1>1. /\ Len(queue) \in Nat /\ Len(queue) >= 1 /\ Len(Tail(queue)) = Len(queue) - 1
      /\ Len(queue) - Len(queue) + 1 = 1
      /\ Len(Tail(queue)) - (Len(queue) - 1) + 1 = 1
      /\ Len(queue) - 1 \in 0 .. Len(Tail(queue))
  BY LenProperties, HeadTailProperties, EmptySeq
<1>2. Explains(content, queue, 1, map)
  BY <1>1 DEF Behind
<1>3. /\ Changes(content, Head(queue))
      /\ Explains(Applied(content, Head(queue)), Tail(queue), 1, map)
  BY <1>2, ExplainsHead
<1>4. Head(queue).version = Back(current, Len(queue) - 1)
  BY NumberedTail
<1>5. Behind(Applied(content, Head(queue)), Head(queue).version, Len(queue) - 1,
             Tail(queue), map, current)
  BY <1>1, <1>3, <1>4 DEF Behind
<1>. QED  BY <1>1, <1>3, <1>5 DEF Lags
-----------------------------------------------------------------------------
(***************************************************************************)
(* Type correctness, together with the control part of the invariant that  *)
(* says when a version is a proper one.                                    *)
(***************************************************************************)
MasterChange(caller, path) ==
  MasterRegisterObject(caller, path) \/ MasterUnregisterObject(caller, path)

\* The signal a change of the map emits.
ChangeSignal(caller, path) ==
  IF objectMap[path] = NoProc
  THEN [member |-> "objectAdded", path |-> path, service |-> caller,
        version |-> NextVersion(version)]
  ELSE [member |-> "objectRemoved", path |-> path, service |-> NoProc,
        version |-> NextVersion(version)]

LEMMA ChangeSignalFacts ==
  ASSUME TypeOK, NEW caller \in Proc, NEW path \in Path
  PROVE  /\ ChangeSignal(caller, path) \in Signal
         /\ ChangeSignal(caller, path).version = NextVersion(version)
         /\ ChangeSignal(caller, path).path = path
         /\ Changes(objectMap, ChangeSignal(caller, path))
<1>1. NextVersion(version) \in Version
  BY NextVersionType DEF TypeOK
<1>. QED
  BY <1>1, ConstantsAssumption DEF ChangeSignal, Signal, Service, Changes

\* A call that changes the map publishes that signal, the others do nothing.
LEMMA MasterChangeCases ==
  ASSUME TypeOK, NEW caller \in Proc, NEW path \in Path, MasterChange(caller, path)
  PROVE  \/ Room /\ Publish(ChangeSignal(caller, path))
         \/ UNCHANGED <<masterVars, signals, replicaVars, historyVars>>
BY ConstantsAssumption
   DEF MasterChange, MasterRegisterObject, MasterUnregisterObject, ChangeSignal

LEMMA OnSignalType ==
  ASSUME TypeOK, NEW p \in Service, NEW signal \in Signal, OnSignal(p, signal)
  PROVE  /\ objects' \in [Proc -> Content]
         /\ registryVersion' \in [Proc -> Version \union {INVALID_REGISTRY_VERSION}]
<1>1. signal.version \in Version
  BY DEF Signal
<1>2. CASE Accepts(p, signal.version)
  <2>1. /\ registryVersion' = [registryVersion EXCEPT ![p] = signal.version]
        /\ objects' = [objects EXCEPT ![p] = Applied(objects[p], signal)]
    BY <1>2 DEF OnSignal
  <2>2. registryVersion' \in [Proc -> Version \union {INVALID_REGISTRY_VERSION}]
    BY <1>1, <2>1 DEF TypeOK
  <2>3. p \in Proc => Applied(objects[p], signal) \in Content
    BY AppliedType DEF TypeOK
  <2>. QED  BY <2>1, <2>2, <2>3 DEF TypeOK
<1>3. CASE ~Accepts(p, signal.version)
  BY <1>3 DEF OnSignal, replicaVars, TypeOK
<1>. QED  BY <1>2, <1>3

LEMMA MasterChangeType ==
  ASSUME TypeOK, NEW caller \in Proc, NEW path \in Path, MasterChange(caller, path)
  PROVE  /\ UNCHANGED <<nameOwner, signalsConnected, awaited, refused>>
         /\ objectMap' \in Content
         /\ version' \in Version \union {INVALID_REGISTRY_VERSION}
         /\ signals' \in [Proc -> Seq(Signal)]
         /\ objects' \in [Proc -> Content]
         /\ registryVersion' \in [Proc -> Version \union {INVALID_REGISTRY_VERSION}]
         /\ missed' \subseteq Proc
<1>. DEFINE signal == ChangeSignal(caller, path)
<1>1. signal \in Signal
  BY ChangeSignalFacts
<1>2. CASE UNCHANGED <<masterVars, signals, replicaVars, historyVars>>
  BY <1>2 DEF TypeOK, masterVars, replicaVars, historyVars
<1>3. CASE Publish(signal)
  <2>. HIDE DEF signal
  <2>1. signal.path \in Path /\ signal.service \in Service /\ signal.version \in Version
    BY <1>1 DEF Signal
  <2>2. objectMap' \in Content /\ version' \in Version
    BY <1>3, <2>1 DEF Publish, TypeOK, Content
  <2>3. signals' \in [Proc -> Seq(Signal)]
    <3>1. \A q \in Proc : Append(signals[q], signal) \in Seq(Signal)
      BY <1>1, AppendProperties DEF TypeOK
    <3>. QED  BY <1>3, <3>1 DEF Publish, TypeOK
  <2>4. OnSignal(nameOwner, signal) /\ nameOwner \in Service
    BY <1>3 DEF Publish, TypeOK
  <2>5. /\ objects' \in [Proc -> Content]
        /\ registryVersion' \in [Proc -> Version \union {INVALID_REGISTRY_VERSION}]
    BY <1>1, <2>4, OnSignalType
  <2>6. missed' \subseteq Proc
    BY <1>3 DEF Publish, Unheard, TypeOK
  <2>. QED  BY <1>3, <2>2, <2>3, <2>5, <2>6 DEF Publish
<1>. QED  BY <1>2, <1>3, MasterChangeCases

LEMMA UpdateObjectsType ==
  ASSUME TypeOK, NEW p \in Proc, NEW snapshot,
         snapshot.objects \in Content,
         snapshot.version \in Version \union {INVALID_REGISTRY_VERSION},
         UpdateObjects(p, snapshot)
  PROVE  /\ objects' \in [Proc -> Content]
         /\ registryVersion' \in [Proc -> Version \union {INVALID_REGISTRY_VERSION}]
BY DEF UpdateObjects, TypeOK, replicaVars

\* A call taken from the head of a queue.
LEMMA ReceivesType ==
  ASSUME TypeOK, NEW p \in Proc, NEW member, Receives(p, member)
  PROVE  /\ requests' \in [Proc -> Seq(Request)]
         /\ requests[p] # <<>>
         /\ Head(requests[p]) \in Request
         /\ Head(requests[p]).member = member
         /\ member \in {"registerObject", "unregisterObject"} =>
              Head(requests[p]).path \in Path
<1>1. Head(requests[p]) \in Request /\ Tail(requests[p]) \in Seq(Request)
  BY HeadTailProperties DEF TypeOK, Receives
<1>. QED  BY <1>1 DEF TypeOK, Receives, Request, ProxyCall

LEMMA CallType ==
  ASSUME TypeOK, NEW p \in Proc, NEW request \in Request,
         requests' = [requests EXCEPT ![p] = Append(@, request)]
  PROVE  requests' \in [Proc -> Seq(Request)]
<1>1. Append(requests[p], request) \in Seq(Request)
  BY AppendProperties DEF TypeOK
<1>. QED  BY <1>1 DEF TypeOK

LEMMA ProxyCallType ==
  ASSUME NEW member \in {"GetAllProperties", "getObjects"},
         NEW caller \in {"async", "waiting", "gaveUp"}
  PROVE  /\ [member |-> member, caller |-> caller] \in Request
         /\ WithoutMap(member) \in Answer
BY DEF Request, ProxyCall, WithoutMap, Answer, Empty, Content, Service

LEMMA AnsweredType ==
  ASSUME TypeOK, NEW p \in Proc, NEW answer \in Answer, Answered(p, answer)
  PROVE  syncReply' \in [Proc -> Seq(Answer)]
<1>1. Append(syncReply[p], answer) \in Seq(Answer)
  BY AppendProperties DEF TypeOK
<1>. QED  BY <1>1 DEF Answered, TypeOK

LEMMA TypeStep ==
  ASSUME TypeOK, MasterInv, [Next]_vars
  PROVE  TypeOK'
<1>1. ASSUME NEW p \in Proc, InitAsMaster(p)
      PROVE  TypeOK'
  BY <1>1 DEF InitAsMaster, TypeOK, Service, Phase, callVars, replicaVars, historyVars
<1>2. ASSUME NEW p \in Proc, MasterInit(p)
      PROVE  TypeOK'
  <2>1. NextVersion(INITIAL_REGISTRY_VERSION) \in Version
    BY ConstantsAssumption DEF NextVersion, Version, INITIAL_REGISTRY_VERSION
  <2>. DEFINE snapshot == [objects |-> objectMap,
                           version |-> NextVersion(INITIAL_REGISTRY_VERSION)]
  <2>2. /\ snapshot.objects \in Content
        /\ snapshot.version \in Version \union {INVALID_REGISTRY_VERSION}
        /\ UpdateObjects(p, snapshot)
    BY <1>2, <2>1 DEF MasterInit, TypeOK
  <2>3. /\ objects' \in [Proc -> Content]
        /\ registryVersion' \in [Proc -> Version \union {INVALID_REGISTRY_VERSION}]
    BY <2>2, UpdateObjectsType
  <2>. QED  BY <1>2, <2>1, <2>3 DEF MasterInit, TypeOK, Phase, callVars, historyVars
<1>3. ASSUME NEW p \in Proc, InitAsReplica(p)
      PROVE  TypeOK'
  <2>. DEFINE calls == <<[member |-> "GetAllProperties", caller |-> "async"],
                         [member |-> "getObjects", caller |-> "async"]>>
  <2>1. calls \in Seq(Request)
    BY ProxyCallType
  <2>. HIDE DEF calls
  <2>2. requests[p] \o calls \in Seq(Request)
    BY <2>1, ConcatProperties DEF TypeOK
  <2>3. requests' = [requests EXCEPT ![p] = @ \o calls]
    BY <1>3 DEF InitAsReplica, calls
  <2>. QED  BY <1>3, <2>2, <2>3
            DEF InitAsReplica, TypeOK, Phase, masterVars, callVars, replicaVars, historyVars
<1>4. ASSUME NEW p \in Proc, NEW path \in Path, RegisterService(p, path)
      PROVE  TypeOK'
  <2>1. exported' \in [Proc -> SUBSET Path]
    BY <1>4 DEF RegisterService, TypeOK
  <2>2. CASE MasterRegisterObject(p, path) /\ UNCHANGED requests
    BY <1>4, <2>1, <2>2, MasterChangeType
       DEF MasterChange, RegisterService, TypeOK, callVars
  <2>3. CASE Call(p, [member |-> "registerObject", path |-> path])
    <3>1. requests' \in [Proc -> Seq(Request)]
      BY <2>3, CallType DEF Call, Request
    <3>. QED  BY <1>4, <2>1, <2>3, <3>1
              DEF RegisterService, Call, TypeOK, masterVars, callVars, replicaVars, historyVars
  <2>. QED  BY <1>4, <2>2, <2>3 DEF RegisterService
<1>5. ASSUME NEW p \in Proc, NEW path \in Path, UnregisterService(p, path)
      PROVE  TypeOK'
  <2>1. exported' \in [Proc -> SUBSET Path]
    BY <1>5 DEF UnregisterService, TypeOK
  <2>2. CASE MasterUnregisterObject(p, path) /\ UNCHANGED requests
    BY <1>5, <2>1, <2>2, MasterChangeType
       DEF MasterChange, UnregisterService, TypeOK, callVars
  <2>3. CASE Call(p, [member |-> "unregisterObject", path |-> path])
    <3>1. requests' \in [Proc -> Seq(Request)]
      BY <2>3, CallType DEF Call, Request
    <3>. QED  BY <1>5, <2>1, <2>3, <3>1
              DEF UnregisterService, Call, TypeOK, masterVars, callVars, replicaVars, historyVars
  <2>. QED  BY <1>5, <2>2, <2>3 DEF UnregisterService
<1>6. ASSUME NEW p \in Proc, SyncObjects(p)
      PROVE  TypeOK'
  <2>1. requests' \in [Proc -> Seq(Request)]
    BY <1>6, CallType, ProxyCallType DEF SyncObjects, Waits
  <2>. QED  BY <1>6, <2>1 DEF SyncObjects, TypeOK, masterVars, replicaVars, historyVars
<1>7. ASSUME NEW p \in Proc, SyncPropertiesReturn(p)
      PROVE  TypeOK'
  <2>1. Tail(syncReply[p]) \in Seq(Answer)
    BY <1>7, HeadTailProperties DEF SyncPropertiesReturn, TypeOK
  <2>2. requests' \in [Proc -> Seq(Request)]
    BY <1>7, CallType, ProxyCallType DEF SyncPropertiesReturn, Waits
  <2>. QED  BY <1>7, <2>1, <2>2
            DEF SyncPropertiesReturn, TypeOK, masterVars, replicaVars, historyVars
<1>8. ASSUME NEW p \in Proc, SyncObjectsReturn(p)
      PROVE  TypeOK'
  <2>1. Head(syncReply[p]) \in Answer /\ Tail(syncReply[p]) \in Seq(Answer)
    BY <1>8, HeadTailProperties DEF SyncObjectsReturn, TypeOK
  <2>2. /\ objects' \in [Proc -> Content]
        /\ registryVersion' \in [Proc -> Version \union {INVALID_REGISTRY_VERSION}]
    BY <1>8, <2>1, UpdateObjectsType DEF SyncObjectsReturn, Answer
  <2>. QED  BY <1>8, <2>1, <2>2 DEF SyncObjectsReturn, TypeOK, masterVars, historyVars
<1>9. ASSUME NEW p \in Proc, SyncCallTimesOut(p)
      PROVE  TypeOK'
  <2>. DEFINE last == Len(requests[p])
  <2>1. PICK member \in {"GetAllProperties", "getObjects"} :
          /\ requests' = [requests EXCEPT
               ![p] = [@ EXCEPT ![last] = [member |-> member, caller |-> "gaveUp"]]]
          /\ syncReply' = [syncReply EXCEPT ![p] = <<WithoutMap(member)>>]
    BY <1>9 DEF SyncCallTimesOut
  <2>2. requests[p] \in Seq(Request) /\ last \in 1 .. Len(requests[p])
    BY <1>9, LenProperties, EmptySeq DEF SyncCallTimesOut, TypeOK
  <2>3. [requests[p] EXCEPT ![last] = [member |-> member, caller |-> "gaveUp"]] \in Seq(Request)
    BY <2>2, ProxyCallType, ExceptSeq
  <2>4. <<WithoutMap(member)>> \in Seq(Answer)
    BY ProxyCallType
  <2>. QED  BY <1>9, <2>1, <2>3, <2>4
            DEF SyncCallTimesOut, TypeOK, masterVars, replicaVars, historyVars
<1>10. ASSUME NEW p \in Proc, MasterCalls(p) \/ CallEnds(p)
       PROVE  TypeOK'
  BY <1>10 DEF MasterCalls, CallEnds, MasterCallReturns, MasterCallTimesOut, TypeOK, Service,
               callVars, replicaVars, historyVars
<1>11. ASSUME NEW p \in Proc, HandleRegisterObject(p)
       PROVE  TypeOK'
  <2>1. requests' \in [Proc -> Seq(Request)] /\ Head(requests[p]).path \in Path
    BY <1>11, ReceivesType DEF HandleRegisterObject
  <2>2. MasterChange(p, Head(requests[p]).path)
    BY <1>11 DEF HandleRegisterObject, MasterChange
  <2>. QED  BY <1>11, <2>1, <2>2, MasterChangeType DEF HandleRegisterObject, TypeOK, callVars
<1>12. ASSUME NEW p \in Proc, HandleUnregisterObject(p)
       PROVE  TypeOK'
  <2>1. requests' \in [Proc -> Seq(Request)] /\ Head(requests[p]).path \in Path
    BY <1>12, ReceivesType DEF HandleUnregisterObject
  <2>2. MasterChange(p, Head(requests[p]).path)
    BY <1>12 DEF HandleUnregisterObject, MasterChange
  <2>. QED  BY <1>12, <2>1, <2>2, MasterChangeType DEF HandleUnregisterObject, TypeOK, callVars
<1>13. ASSUME NEW p \in Proc, HandleGetAllProperties(p)
       PROVE  TypeOK'
  <2>1. requests' \in [Proc -> Seq(Request)]
    BY <1>13, ReceivesType DEF HandleGetAllProperties
  <2>2. syncReply' \in [Proc -> Seq(Answer)]
    BY <1>13, ProxyCallType, AnsweredType DEF HandleGetAllProperties
  <2>. QED  BY <1>13, <2>1, <2>2 DEF HandleGetAllProperties, TypeOK, replicaVars, historyVars
<1>14. ASSUME NEW p \in Proc, HandleGetObjects(p)
       PROVE  TypeOK'
  <2>1. requests' \in [Proc -> Seq(Request)]
    BY <1>14, ReceivesType DEF HandleGetObjects
  <2>. DEFINE reply == [behind |-> Len(signals[p]), objects |-> objectMap, version |-> version]
              answer == [member |-> "getObjects", objects |-> objectMap, version |-> version]
  <2>2. reply \in QueuedSnapshot
    BY <1>14, LenProperties
       DEF HandleGetObjects, Serving, MasterInv, TypeOK, QueuedSnapshot
  <2>3. Append(asyncReply[p], reply) \in Seq(QueuedSnapshot)
    BY <2>2, AppendProperties DEF TypeOK
  <2>4. asyncReply' \in [Proc -> Seq(QueuedSnapshot)]
    BY <1>14, <2>3 DEF HandleGetObjects, TypeOK
  <2>5. answer \in Answer
    BY DEF Answer, TypeOK
  <2>6. syncReply' \in [Proc -> Seq(Answer)]
    BY <1>14, <2>5, AnsweredType DEF HandleGetObjects
  <2>7. missed' \subseteq Proc
    BY <1>14 DEF HandleGetObjects, TypeOK
  <2>. QED  BY <1>14, <2>1, <2>4, <2>6, <2>7
            DEF HandleGetObjects, TypeOK, masterVars, replicaVars
<1>15. ASSUME NEW p \in Proc, RefuseRequest(p)
       PROVE  TypeOK'
  <2>1. PICK member : Receives(p, member)
    BY <1>15 DEF RefuseRequest
  <2>2. requests' \in [Proc -> Seq(Request)]
    BY <2>1, ReceivesType
  <2>3. \/ syncReply' = syncReply
        \/ \E name \in {"GetAllProperties", "getObjects"} : Answered(p, WithoutMap(name))
    BY <1>15 DEF RefuseRequest
  <2>4. syncReply' \in [Proc -> Seq(Answer)]
    BY <2>3, ProxyCallType, AnsweredType DEF TypeOK
  <2>5. refused' \subseteq Proc
    BY <1>15 DEF RefuseRequest, TypeOK
  <2>. QED  BY <1>15, <2>2, <2>4, <2>5 DEF RefuseRequest, TypeOK, masterVars, replicaVars
<1>16. ASSUME NEW p \in Proc, NEW member, DeliverSignal(p, member)
       PROVE  TypeOK'
  <2>1. Head(signals[p]) \in Signal /\ Tail(signals[p]) \in Seq(Signal)
    BY <1>16, HeadTailProperties DEF DeliverSignal, SignalIsNext, TypeOK
  <2>2. /\ objects' \in [Proc -> Content]
        /\ registryVersion' \in [Proc -> Version \union {INVALID_REGISTRY_VERSION}]
    BY <1>16, <2>1, OnSignalType DEF DeliverSignal, Service
  <2>3. asyncReply' \in [Proc -> Seq(QueuedSnapshot)]
    <3>1. CASE asyncReply[p] = <<>>
      BY <1>16, <3>1 DEF DeliverSignal, TypeOK
    <3>2. CASE asyncReply[p] # <<>>
      <4>1. asyncReply[p] \in Seq(QueuedSnapshot) /\ 1 \in 1 .. Len(asyncReply[p])
        BY <3>2, EmptySeq, LenProperties DEF TypeOK
      <4>2. asyncReply[p][1] \in QueuedSnapshot /\ asyncReply[p][1] = Head(asyncReply[p])
        BY <4>1, ElementOfSeq
      <4>3. asyncReply[p][1].behind \in Nat \ {0}
        BY <1>16, <3>2, <4>2 DEF DeliverSignal, SignalIsNext, QueuedSnapshot
      <4>4. [asyncReply[p][1] EXCEPT !.behind = @ - 1] \in QueuedSnapshot
        BY <4>2, <4>3 DEF QueuedSnapshot
      <4>5. [asyncReply[p] EXCEPT ![1] = [asyncReply[p][1] EXCEPT !.behind = @ - 1]]
              \in Seq(QueuedSnapshot)
        BY <4>1, <4>4, ExceptSeq
      <4>6. asyncReply' = [asyncReply EXCEPT ![p] =
              [asyncReply[p] EXCEPT ![1] = [asyncReply[p][1] EXCEPT !.behind = @ - 1]]]
        BY <1>16, <3>2 DEF DeliverSignal, TypeOK
      <4>. QED  BY <4>5, <4>6 DEF TypeOK
    <3>. QED  BY <3>1, <3>2
  <2>. QED  BY <1>16, <2>1, <2>2, <2>3 DEF DeliverSignal, TypeOK, masterVars, historyVars
<1>17. ASSUME NEW p \in Proc, OnGetObjectsReply(p)
       PROVE  TypeOK'
  <2>1. Head(asyncReply[p]) \in QueuedSnapshot /\ Tail(asyncReply[p]) \in Seq(QueuedSnapshot)
    BY <1>17, HeadTailProperties DEF OnGetObjectsReply, TypeOK
  <2>2. /\ objects' \in [Proc -> Content]
        /\ registryVersion' \in [Proc -> Version \union {INVALID_REGISTRY_VERSION}]
    BY <1>17, <2>1, UpdateObjectsType DEF OnGetObjectsReply, QueuedSnapshot
  <2>. QED  BY <1>17, <2>1, <2>2 DEF OnGetObjectsReply, TypeOK, masterVars, historyVars
<1>18. ASSUME NEW p \in Proc, Crash(p)
       PROVE  TypeOK'
  BY <1>18, EmptySeq DEF Crash, TypeOK, Phase, masterVars, Empty, Content, Service
<1>19. CASE UNCHANGED vars
  BY <1>19 DEF vars, TypeOK, masterVars, callVars, replicaVars, historyVars
<1>20. ASSUME NEW p \in Proc, StartStep(p) \/ MasterInit(p) \/ ServiceStep(p) \/ SyncObjects(p)
       PROVE  TypeOK'
  BY <1>1, <1>2, <1>3, <1>4, <1>5, <1>6, <1>20 DEF StartStep, ServiceStep
<1>21. ASSUME NEW p \in Proc, HandleStep(p)
       PROVE  TypeOK'
  BY <1>11, <1>12, <1>13, <1>14, <1>15, <1>21, Zenon DEF HandleStep
<1>22. ASSUME NEW p \in Proc, DeliverStep(p)
       PROVE  TypeOK'
  BY <1>7, <1>8, <1>16, <1>17, <1>22, Zenon DEF DeliverStep, OnObjectAdded, OnObjectRemoved
<1>. QED
  BY <1>9, <1>10, <1>18, <1>19, <1>20, <1>21, <1>22, Zenon DEF Next
-----------------------------------------------------------------------------
(***************************************************************************)
(* The invariant holds at first, and steps that leave a process alone      *)
(* leave its part of the invariant alone.                                  *)
(***************************************************************************)
LEMMA IInvInit == Init => IInv
<1>. SUFFICES ASSUME Init PROVE IInv
  OBVIOUS
<1>1. TypeOK
  BY ConstantsAssumption, EmptySeq
     DEF Init, TypeOK, Service, Content, Empty, Phase
<1>2. GlobalInv
  BY <1>1, ConstantsAssumption
     DEF Init, GlobalInv, RolesInv, StoppedInv, MasterInv, SilentInv, Mastered,
         HasSnapshot, Synchronised, HasValidObjects, TypeOK
<1>3. ASSUME NEW p \in Proc PROVE LocalInv(p)
  BY EmptySeq DEF Init, LocalInv, GoneInv, AskInv, CallsInv, BlockedInv, HasValidObjects
<1>4. ASSUME NEW p \in Proc PROVE DataInv(p)
  BY EmptySeq, ConstantsAssumption
     DEF Init, DataInv, QueueInv, Numbered, ReplicaInv, AsyncInv, SyncInv, HasValidObjects
<1>. QED  BY <1>1, <1>2, <1>3, <1>4 DEF IInv

LEMMA DataFrame ==
  ASSUME NEW q \in Proc, DataInv(q),
         version' = version, objectMap' = objectMap,
         signals'[q] = signals[q], asyncReply'[q] = asyncReply[q],
         q \in missed => q \in missed',
         \/ syncReply'[q] = syncReply[q] /\ blocked'[q] = blocked[q]
         \/ syncReply'[q] = <<>> /\ ~Synchronised(q),
         objects'[q] = objects[q], registryVersion'[q] = registryVersion[q],
         phase'[q] = phase[q] \/ phase'[q] # "replica" \/ ~HasValidObjects(q)
  PROVE  DataInv(q)'
<1>1. QueueInv(q)'
  BY DEF DataInv, QueueInv
<1>2. ReplicaInv(q)'
  BY DEF DataInv, ReplicaInv, HasValidObjects
<1>3. AsyncInv(q)'
  BY DEF DataInv, AsyncInv, HasValidObjects, Synchronised
<1>4. SyncInv(q)'
  BY DEF DataInv, SyncInv, Synchronised
<1>. QED  BY <1>1, <1>2, <1>3, <1>4 DEF DataInv

LEMMA LocalFrame ==
  ASSUME NEW q \in Proc, LocalInv(q),
         nameOwner' = nameOwner, signalsConnected => signalsConnected',
         phase'[q] = phase[q], requests'[q] = requests[q], asyncReply'[q] = asyncReply[q],
         blocked'[q] = blocked[q], syncReply'[q] = syncReply[q],
         q \in refused' <=> q \in refused,
         phase[q] # "replica" => signals'[q] = signals[q] /\ (q \in missed' => q \in missed),
         registryVersion'[q] = registryVersion[q] \/ (q = nameOwner /\ phase[q] = "master")
  PROVE  LocalInv(q)'
<1>1. GoneInv(q)' /\ BlockedInv(q)'
  BY DEF LocalInv, GoneInv, BlockedInv, HasValidObjects
<1>2. AskInv(q)'
  BY DEF LocalInv, AskInv
<1>3. CallsInv(q)'
  BY DEF LocalInv, CallsInv
<1>. QED  BY <1>1, <1>2, <1>3 DEF LocalInv

LEMMA GlobalFrame ==
  ASSUME IInv,
         UNCHANGED <<nameOwner, objectMap, version, signalsConnected, phase, signals,
                     objects, registryVersion>>,
         \A q \in Proc : q \in refused => q \in refused',
         \A q \in Proc : HasSnapshot(q)' =>
           HasSnapshot(q) \/ (Mastered /\ (~signalsConnected => q \in refused'))
  PROVE  GlobalInv'
<1>1. RolesInv' /\ MasterInv'
  BY DEF IInv, GlobalInv, RolesInv, MasterInv, Mastered
<1>2. StoppedInv' /\ SilentInv'
  BY DEF IInv, GlobalInv, StoppedInv, SilentInv, Mastered
<1>. QED  BY <1>1, <1>2 DEF GlobalInv
-----------------------------------------------------------------------------
(***************************************************************************)
(* Every action keeps the invariant: init() first.                         *)
(***************************************************************************)
LEMMA InitAsMasterStep ==
  ASSUME IInv, NEW p \in Proc, InitAsMaster(p)
  PROVE  GlobalInv' /\ \A q \in Proc : LocalInv(q)' /\ DataInv(q)'
<1>1. /\ nameOwner = NoProc /\ nameOwner' = p
      /\ \A q \in Proc : phase[q] = "idle"
      /\ phase' = [phase EXCEPT ![p] = "naming"]
      /\ UNCHANGED <<objectMap, version, signalsConnected, requests, signals, asyncReply,
                     blocked, syncReply, objects, registryVersion, refused, missed>>
  BY DEF InitAsMaster, IInv, GlobalInv, RolesInv, replicaVars, callVars, historyVars
<1>2. ~Mastered /\ ~Mastered'
  BY <1>1, ConstantsAssumption DEF Mastered, IInv, TypeOK
<1>3. /\ objectMap = Empty /\ ~signalsConnected
      /\ \A q \in Proc : ~HasSnapshot(q) /\ ~HasValidObjects(q)
  BY <1>2 DEF IInv, GlobalInv, StoppedInv, HasSnapshot
<1>4. GlobalInv'
  <2>1. RolesInv'
    BY <1>1, ConstantsAssumption DEF RolesInv, IInv, TypeOK
  <2>2. \A q \in Proc : HasSnapshot(q)' <=> HasSnapshot(q)
    BY <1>1 DEF HasSnapshot, HasValidObjects, Synchronised
  <2>3. StoppedInv' /\ MasterInv' /\ SilentInv'
    BY <1>1, <1>2, <1>3, <2>2 DEF StoppedInv, MasterInv, SilentInv, IInv, GlobalInv
  <2>. QED  BY <2>1, <2>3 DEF GlobalInv
<1>5. ASSUME NEW q \in Proc PROVE LocalInv(q)'
  <2>1. GoneInv(q)' /\ BlockedInv(q)'
    BY <1>1, <1>3 DEF LocalInv, GoneInv, BlockedInv, HasValidObjects, IInv, TypeOK
  <2>2. requests'[q] = <<>> /\ syncReply'[q] = <<>> /\ phase'[q] # "replica"
    BY <1>1 DEF LocalInv, GoneInv, IInv, TypeOK
  <2>3. AskInv(q)' /\ CallsInv(q)'
    BY <2>2 DEF AskInv, CallsInv
  <2>. QED  BY <2>1, <2>3 DEF LocalInv
<1>6. ASSUME NEW q \in Proc PROVE DataInv(q)'
  BY <1>1, <1>3, DataFrame DEF IInv
<1>. QED  BY <1>4, <1>5, <1>6

LEMMA MasterInitStep ==
  ASSUME IInv, TypeOK', NEW p \in Proc, MasterInit(p)
  PROVE  GlobalInv' /\ \A q \in Proc : LocalInv(q)' /\ DataInv(q)'
<1>1. /\ p = nameOwner /\ nameOwner' = nameOwner
      /\ phase' = [phase EXCEPT ![p] = "master"]
      /\ \A q \in Proc : q # p => phase'[q] = phase[q] /\ phase[q] \notin {"naming", "master"}
  BY DEF MasterInit, IInv, GlobalInv, RolesInv, TypeOK
<1>2. ~Mastered /\ Mastered'
  BY <1>1, ConstantsAssumption DEF MasterInit, Mastered, IInv, TypeOK
<1>3. /\ ~signalsConnected /\ ~signalsConnected'
      /\ \A q \in Proc : ~HasSnapshot(q) /\ ~HasValidObjects(q)
      /\ \A q \in Proc : signals[q] = <<>> /\ asyncReply[q] = <<>> /\ ~Synchronised(q)
  BY <1>2 DEF MasterInit, IInv, GlobalInv, StoppedInv, SilentInv, HasSnapshot
<1>4. /\ version' = NextVersion(INITIAL_REGISTRY_VERSION)
      /\ version' \in Version
      /\ objectMap' = objectMap
      /\ objects' = [objects EXCEPT ![p] = objectMap]
      /\ registryVersion' = [registryVersion EXCEPT ![p] = version']
      /\ UNCHANGED <<requests, signals, asyncReply, blocked, syncReply, refused, missed>>
  <2>1. NextVersion(INITIAL_REGISTRY_VERSION) \in Version
    BY ConstantsAssumption DEF NextVersion, Version, INITIAL_REGISTRY_VERSION
  <2>. QED  BY <1>3, <2>1 DEF MasterInit, UpdateObjects, callVars, historyVars
<1>5. /\ objects'[p] = objectMap /\ registryVersion'[p] = version'
      /\ \A q \in Proc \ {p} : objects'[q] = objects[q] /\ registryVersion'[q] = registryVersion[q]
  BY <1>4 DEF IInv, TypeOK
<1>6. RolesInv'
  BY <1>1, ConstantsAssumption DEF MasterInit, RolesInv, IInv, GlobalInv, TypeOK
<1>7. StoppedInv' /\ MasterInv'
  BY <1>1, <1>2, <1>4 DEF StoppedInv, MasterInv, IInv, TypeOK
<1>8. SilentInv'
  <2>1. \A q \in Proc \ {p} : ~HasSnapshot(q)'
    BY <1>3, <1>4, <1>5 DEF HasSnapshot, HasValidObjects, Synchronised
  <2>. QED  BY <1>1, <1>3, <1>4, <2>1 DEF SilentInv
<1>9. ASSUME NEW q \in Proc PROVE LocalInv(q)'
  <2>1. CASE q = p
    <3>1. phase[p] = "naming" /\ phase'[p] = "master"
      BY <1>1 DEF MasterInit, IInv, TypeOK
    <3>2. GoneInv(p)' /\ BlockedInv(p)'
      BY <1>1, <1>4, <3>1 DEF LocalInv, GoneInv, BlockedInv, IInv
    <3>3. AskInv(p)' /\ CallsInv(p)'
      BY <1>4, <3>1 DEF AskInv, CallsInv, LocalInv, IInv
    <3>. QED  BY <2>1, <3>2, <3>3 DEF LocalInv
  <2>2. CASE q # p
    BY <1>1, <1>3, <1>4, <1>5, <2>2, LocalFrame DEF IInv
  <2>. QED  BY <2>1, <2>2
<1>10. ASSUME NEW q \in Proc PROVE DataInv(q)'
  <2>1. signals'[q] = <<>> /\ asyncReply'[q] = <<>>
    BY <1>3, <1>4
  <2>2. QueueInv(q)' /\ AsyncInv(q)'
    BY <2>1, ConstantsAssumption DEF QueueInv, Numbered, AsyncInv
  <2>3. ReplicaInv(q)'
    BY <1>1, <1>3, <1>5 DEF ReplicaInv, HasValidObjects, IInv, TypeOK
  <2>4. SyncInv(q)'
    BY <1>3, <1>4 DEF SyncInv, Synchronised, DataInv, IInv
  <2>. QED  BY <2>2, <2>3, <2>4 DEF DataInv
<1>. QED  BY <1>6, <1>7, <1>8, <1>9, <1>10 DEF GlobalInv

\* A request appended to the queue of a process.
LEMMA AppendedRequest ==
  ASSUME TypeOK, NEW p \in Proc, NEW request \in Request,
         requests' = [requests EXCEPT ![p] = Append(@, request)]
  PROVE  /\ Len(requests'[p]) = Len(requests[p]) + 1
         /\ requests'[p][Len(requests[p]) + 1] = request
         /\ \A i \in 1 .. Len(requests[p]) : requests'[p][i] = requests[p][i]
         /\ \A q \in Proc \ {p} : requests'[q] = requests[q]
         /\ Len(requests[p]) \in Nat
BY AppendProperties, LenProperties DEF TypeOK

LEMMA InitAsReplicaStep ==
  ASSUME IInv, NEW p \in Proc, InitAsReplica(p)
  PROVE  GlobalInv' /\ \A q \in Proc : LocalInv(q)' /\ DataInv(q)'
<1>. DEFINE calls == <<[member |-> "GetAllProperties", caller |-> "async"],
                       [member |-> "getObjects", caller |-> "async"]>>
<1>1. /\ nameOwner # NoProc /\ p # nameOwner /\ phase[p] = "idle"
      /\ phase' = [phase EXCEPT ![p] = "replica"]
      /\ requests' = [requests EXCEPT ![p] = @ \o calls]
      /\ UNCHANGED <<nameOwner, objectMap, version, signalsConnected, signals, asyncReply,
                     blocked, syncReply, objects, registryVersion, refused, missed>>
  BY ConstantsAssumption
     DEF InitAsReplica, IInv, GlobalInv, RolesInv, TypeOK, masterVars,
         callVars, replicaVars, historyVars
<1>2. Mastered' <=> Mastered
  BY <1>1, ConstantsAssumption DEF Mastered, IInv, TypeOK
<1>3. GlobalInv'
  <2>1. RolesInv'
    BY <1>1 DEF RolesInv, IInv, GlobalInv, TypeOK
  <2>2. \A q \in Proc : HasSnapshot(q)' <=> HasSnapshot(q)
    BY <1>1 DEF HasSnapshot, HasValidObjects, Synchronised
  <2>3. StoppedInv' /\ MasterInv' /\ SilentInv'
    BY <1>1, <1>2, <2>2 DEF StoppedInv, MasterInv, SilentInv, IInv, GlobalInv
  <2>. QED  BY <2>1, <2>3 DEF GlobalInv
<1>4. /\ requests[p] = <<>> /\ signals[p] = <<>> /\ asyncReply[p] = <<>>
      /\ syncReply[p] = <<>> /\ ~blocked[p] /\ ~HasValidObjects(p)
  BY <1>1 DEF IInv, LocalInv, GoneInv
<1>5. requests'[p] = calls /\ \A q \in Proc \ {p} : requests'[q] = requests[q]
  BY <1>1, <1>4 DEF IInv, TypeOK
<1>6. ASSUME NEW q \in Proc PROVE LocalInv(q)'
  <2>1. CASE q = p
    <3>1. GoneInv(p)' /\ BlockedInv(p)'
      BY <1>1, <1>4 DEF GoneInv, BlockedInv, IInv, TypeOK
    <3>2. AskInv(p)'
      BY <1>1, <1>4, <1>5 DEF AskInv
    <3>3. CallsInv(p)'
      BY <1>1, <1>4, <1>5 DEF CallsInv, AsksAsync, AsksWaiting
    <3>. QED  BY <2>1, <3>1, <3>2, <3>3 DEF LocalInv
  <2>2. CASE q # p
    <3>1. phase'[q] = phase[q]
      BY <1>1, <2>2 DEF IInv, TypeOK
    <3>. QED  BY <1>1, <1>5, <2>2, <3>1, LocalFrame DEF IInv
  <2>. QED  BY <2>1, <2>2
<1>7. ASSUME NEW q \in Proc PROVE DataInv(q)'
  <2>1. phase'[q] = phase[q] \/ ~HasValidObjects(q)
    BY <1>1, <1>4 DEF IInv, TypeOK
  <2>. QED  BY <1>1, <2>1, DataFrame DEF IInv
<1>. QED  BY <1>3, <1>6, <1>7
-----------------------------------------------------------------------------
(***************************************************************************)
(* Calls to the master, and the changes of its map they lead to.           *)
(***************************************************************************)
LEMMA ReceivedQueue ==
  ASSUME TypeOK, NEW p \in Proc, NEW member, Receives(p, member)
  PROVE  /\ Len(requests[p]) \in Nat /\ Len(requests[p]) >= 1
         /\ Len(requests'[p]) = Len(requests[p]) - 1
         /\ \A i \in 1 .. Len(requests[p]) - 1 : requests'[p][i] = requests[p][i + 1]
         /\ requests[p][1] = Head(requests[p]) /\ requests[p][1].member = member
         /\ \A q \in Proc \ {p} : requests'[q] = requests[q]
<1>1. /\ requests[p] # <<>>
      /\ requests[p] \in Seq(Request)
      /\ requests'[p] = Tail(requests[p])
      /\ \A q \in Proc \ {p} : requests'[q] = requests[q]
      /\ Head(requests[p]).member = member
  BY DEF Receives, TypeOK
<1>2. /\ Len(Tail(requests[p])) = Len(requests[p]) - 1
      /\ \A i \in 1 .. Len(Tail(requests[p])) : Tail(requests[p])[i] = requests[p][i + 1]
      /\ Head(requests[p]) = requests[p][1]
  BY <1>1, HeadTailProperties
<1>3. Len(requests[p]) \in Nat /\ Len(requests[p]) # 0
  BY <1>1, LenProperties, EmptySeq
<1>. QED  BY <1>1, <1>2, <1>3

\* Handling a call answers at most its sender, in the way it waits for.
LEMMA ReceivesCalls ==
  ASSUME IInv, NEW p \in Proc, NEW member, Receives(p, member),
         blocked' = blocked, phase' = phase,
         \A q \in Proc \ {p} : asyncReply'[q] = asyncReply[q] /\ syncReply'[q] = syncReply[q],
         asyncReply'[p] = asyncReply[p] \/ AsksAsync(Head(requests[p])),
         \/ syncReply'[p] = syncReply[p]
         \/ AsksWaiting(Head(requests[p])) \/ phase[p] # "replica"
  PROVE  /\ phase[p] # "idle"
         /\ \A q \in Proc : CallsInv(q)'
         /\ AsksAsync(Head(requests[p])) => asyncReply[p] = <<>>
         /\ AsksWaiting(Head(requests[p])) /\ phase[p] = "replica" =>
              syncReply[p] = <<>> /\ blocked[p]
<1>1. /\ Len(requests[p]) \in Nat /\ Len(requests[p]) >= 1
      /\ Len(requests'[p]) = Len(requests[p]) - 1
      /\ \A i \in 1 .. Len(requests[p]) - 1 : requests'[p][i] = requests[p][i + 1]
      /\ requests[p][1] = Head(requests[p])
      /\ \A q \in Proc \ {p} : requests'[q] = requests[q]
  BY ReceivedQueue DEF IInv
<1>2. CallsInv(p) /\ \A q \in Proc : CallsInv(q)
  BY DEF IInv, LocalInv
<1>3. phase[p] # "idle"
  BY DEF Receives, IInv, LocalInv, GoneInv
<1>4. 1 \in 1 .. Len(requests[p])
  BY <1>1
<1>5. AsksAsync(Head(requests[p])) =>
        /\ asyncReply[p] = <<>>
        /\ \A j \in 1 .. Len(requests[p]) : AsksAsync(requests[p][j]) => j = 1
  BY <1>1, <1>2, <1>4 DEF CallsInv
<1>6. AsksWaiting(Head(requests[p])) /\ phase[p] = "replica" =>
        syncReply[p] = <<>> /\ blocked[p] /\ Len(requests[p]) = 1
  BY <1>1, <1>2, <1>4 DEF CallsInv
<1>7. CallsInv(p)'
  <2>1. ASSUME NEW i \in 1 .. Len(requests'[p])
        PROVE  /\ AsksAsync(requests'[p][i]) =>
                    /\ asyncReply'[p] = <<>>
                    /\ \A j \in 1 .. Len(requests'[p]) : AsksAsync(requests'[p][j]) => j = i
               /\ AsksWaiting(requests'[p][i]) /\ phase[p] = "replica" =>
                    i = Len(requests'[p]) /\ blocked[p] /\ syncReply'[p] = <<>>
    <3>1. i + 1 \in 1 .. Len(requests[p]) /\ requests'[p][i] = requests[p][i + 1]
      BY <1>1
    <3>2. ASSUME AsksAsync(requests'[p][i])
          PROVE  /\ asyncReply'[p] = <<>>
                 /\ \A j \in 1 .. Len(requests'[p]) : AsksAsync(requests'[p][j]) => j = i
      <4>1. /\ asyncReply[p] = <<>>
            /\ \A j \in 1 .. Len(requests[p]) : AsksAsync(requests[p][j]) => j = i + 1
        BY <1>2, <3>1, <3>2 DEF CallsInv
      <4>2. ~AsksAsync(Head(requests[p]))
        BY <1>1, <1>4, <4>1
      <4>3. ASSUME NEW j \in 1 .. Len(requests'[p]), AsksAsync(requests'[p][j])
            PROVE  j = i
        <5>1. j + 1 \in 1 .. Len(requests[p]) /\ requests'[p][j] = requests[p][j + 1]
          BY <1>1
        <5>. QED  BY <4>1, <4>3, <5>1
      <4>. QED  BY <4>1, <4>2, <4>3
    <3>3. ASSUME AsksWaiting(requests'[p][i]), phase[p] = "replica"
          PROVE  i = Len(requests'[p]) /\ blocked[p] /\ syncReply'[p] = <<>>
      <4>1. i + 1 = Len(requests[p]) /\ blocked[p] /\ syncReply[p] = <<>>
        BY <1>2, <3>1, <3>3 DEF CallsInv
      <4>. QED  BY <1>1, <1>6, <3>3, <4>1
    <3>. QED  BY <3>2, <3>3
  <2>. QED  BY <2>1 DEF CallsInv
<1>8. ASSUME NEW q \in Proc \ {p} PROVE CallsInv(q)'
  BY <1>1, <1>2 DEF CallsInv
<1>. QED  BY <1>3, <1>5, <1>6, <1>7, <1>8

LEMMA ReceivesAsk ==
  ASSUME IInv, NEW p \in Proc, NEW member, Receives(p, member), phase' = phase,
         signalsConnected => signalsConnected',
         \A q \in Proc : q \in refused => q \in refused',
         \A q \in Proc \ {p} : syncReply'[q] = syncReply[q],
         \/ signalsConnected'
         \/ p \in refused'
         \/ phase[p] # "replica"
         \/ /\ member # "GetAllProperties"
            /\ \/ syncReply'[p] = syncReply[p]
               \/ Head(syncReply'[p]).member # "GetAllProperties"
  PROVE  \A q \in Proc : AskInv(q)'
<1>1. /\ Len(requests[p]) \in Nat /\ Len(requests[p]) >= 1
      /\ Len(requests'[p]) = Len(requests[p]) - 1
      /\ \A i \in 1 .. Len(requests[p]) - 1 : requests'[p][i] = requests[p][i + 1]
      /\ requests[p][1].member = member
      /\ \A q \in Proc \ {p} : requests'[q] = requests[q]
  BY ReceivedQueue DEF IInv
<1>2. ASSUME NEW q \in Proc \ {p} PROVE AskInv(q)'
  BY <1>1 DEF AskInv, LocalInv, IInv
<1>3. AskInv(p)'
  <2>. SUFFICES ASSUME ~signalsConnected', phase[p] = "replica", p \notin refused'
                PROVE  AskInv(p)'
    BY DEF AskInv
  <2>1. /\ member # "GetAllProperties"
        /\ \/ syncReply'[p] = syncReply[p]
           \/ Head(syncReply'[p]).member # "GetAllProperties"
    OBVIOUS
  <2>2. /\ \A i \in 1 .. Len(requests[p]) :
             requests[p][i].member = "getObjects" =>
               \E j \in 1 .. i - 1 : requests[p][j].member = "GetAllProperties"
        /\ syncReply[p] # <<>> /\ Head(syncReply[p]).member = "GetAllProperties" =>
             \E j \in 1 .. Len(requests[p]) : requests[p][j].member = "GetAllProperties"
    BY DEF AskInv, LocalInv, IInv
  <2>3. ASSUME NEW j \in 1 .. Len(requests[p]), requests[p][j].member = "GetAllProperties"
        PROVE  j - 1 \in 1 .. Len(requests'[p]) /\ requests'[p][j - 1] = requests[p][j]
    <3>1. j # 1
      BY <1>1, <2>1, <2>3
    <3>2. j - 1 \in 1 .. Len(requests[p]) - 1 /\ (j - 1) + 1 = j
      BY <3>1
    <3>3. requests'[p][j - 1] = requests[p][(j - 1) + 1]
      BY <1>1, <3>2
    <3>. QED  BY <1>1, <3>2, <3>3
  <2>4. ASSUME NEW i \in 1 .. Len(requests'[p]), requests'[p][i].member = "getObjects"
        PROVE  \E j \in 1 .. i - 1 : requests'[p][j].member = "GetAllProperties"
    <3>1. i + 1 \in 1 .. Len(requests[p]) /\ requests'[p][i] = requests[p][i + 1]
      BY <1>1
    <3>2. PICK j \in 1 .. i : requests[p][j].member = "GetAllProperties"
      BY <2>2, <2>4, <3>1
    <3>3. j \in 1 .. Len(requests[p])
      BY <1>1
    <3>4. j - 1 \in 1 .. Len(requests'[p]) /\ requests'[p][j - 1].member = "GetAllProperties"
      BY <2>3, <3>2, <3>3
    <3>5. j - 1 \in 1 .. i - 1
      BY <3>4
    <3>. QED  BY <3>4, <3>5
  <2>5. ASSUME syncReply'[p] # <<>>, Head(syncReply'[p]).member = "GetAllProperties"
        PROVE  \E j \in 1 .. Len(requests'[p]) : requests'[p][j].member = "GetAllProperties"
    BY <2>1, <2>2, <2>3, <2>5
  <2>. QED  BY <2>4, <2>5 DEF AskInv
<1>. QED  BY <1>2, <1>3

\* Who gets a snapshot although nothing is sent yet was refused before.
LEMMA ReceivesRefused ==
  ASSUME IInv, NEW p \in Proc, Receives(p, "getObjects"), phase[p] = "replica",
         ~signalsConnected
  PROVE  p \in refused
<1>1. Len(requests[p]) >= 1 /\ Len(requests[p]) \in Nat /\ requests[p][1].member = "getObjects"
  BY ReceivedQueue DEF IInv
<1>. QED  BY <1>1 DEF AskInv, LocalInv, IInv

\* One more call of p keeps the order of its calls.
LEMMA AppendedAsk ==
  ASSUME IInv, NEW p \in Proc, NEW request \in Request,
         requests' = [requests EXCEPT ![p] = Append(@, request)],
         UNCHANGED <<signalsConnected, phase, refused>>,
         \A q \in Proc : syncReply'[q] = syncReply[q] \/ syncReply'[q] = <<>>,
         \/ request.member # "getObjects"
         \/ syncReply[p] # <<>> /\ Head(syncReply[p]).member = "GetAllProperties"
  PROVE  \A q \in Proc : AskInv(q)'
<1>1. /\ Len(requests'[p]) = Len(requests[p]) + 1
      /\ requests'[p][Len(requests[p]) + 1] = request
      /\ \A i \in 1 .. Len(requests[p]) : requests'[p][i] = requests[p][i]
      /\ \A q \in Proc \ {p} : requests'[q] = requests[q]
      /\ Len(requests[p]) \in Nat
  BY AppendedRequest DEF IInv
<1>2. ASSUME NEW q \in Proc \ {p} PROVE AskInv(q)'
  BY <1>1 DEF AskInv, LocalInv, IInv
<1>3. AskInv(p)'
  <2>. SUFFICES ASSUME ~signalsConnected, phase[p] = "replica", p \notin refused
                PROVE  AskInv(p)'
    BY DEF AskInv
  <2>1. /\ \A i \in 1 .. Len(requests[p]) :
             requests[p][i].member = "getObjects" =>
               \E j \in 1 .. i - 1 : requests[p][j].member = "GetAllProperties"
        /\ syncReply[p] # <<>> /\ Head(syncReply[p]).member = "GetAllProperties" =>
             \E j \in 1 .. Len(requests[p]) : requests[p][j].member = "GetAllProperties"
    BY DEF AskInv, LocalInv, IInv
  <2>2. ASSUME NEW i \in 1 .. Len(requests'[p]), requests'[p][i].member = "getObjects"
        PROVE  \E j \in 1 .. i - 1 : requests'[p][j].member = "GetAllProperties"
    <3>1. CASE i \in 1 .. Len(requests[p])
      <4>1. PICK j \in 1 .. i - 1 : requests[p][j].member = "GetAllProperties"
        BY <1>1, <2>1, <2>2, <3>1
      <4>2. j \in 1 .. Len(requests[p])
        BY <1>1, <3>1
      <4>. QED  BY <1>1, <4>1, <4>2
    <3>2. CASE i = Len(requests[p]) + 1
      <4>1. PICK j \in 1 .. Len(requests[p]) : requests[p][j].member = "GetAllProperties"
        BY <1>1, <2>1, <2>2, <3>2
      <4>. QED  BY <1>1, <3>2, <4>1
    <3>. QED  BY <1>1, <3>1, <3>2
  <2>3. ASSUME syncReply'[p] # <<>>, Head(syncReply'[p]).member = "GetAllProperties"
        PROVE  \E j \in 1 .. Len(requests'[p]) : requests'[p][j].member = "GetAllProperties"
    <3>1. PICK j \in 1 .. Len(requests[p]) : requests[p][j].member = "GetAllProperties"
      BY <2>1, <2>3
    <3>. QED  BY <1>1, <3>1
  <2>. QED  BY <2>2, <2>3 DEF AskInv
<1>. QED  BY <1>2, <1>3

LEMMA CallStep ==
  ASSUME IInv, NEW p \in Proc, NEW request \in Request,
         request.member \notin {"GetAllProperties", "getObjects"},
         Running(p), phase[p] = "replica", Call(p, request), UNCHANGED <<phase, callVars>>
  PROVE  GlobalInv' /\ \A q \in Proc : LocalInv(q)' /\ DataInv(q)'
<1>1. /\ requests' = [requests EXCEPT ![p] = Append(@, request)]
      /\ UNCHANGED <<nameOwner, objectMap, version, signalsConnected, phase, signals,
                     asyncReply, blocked, syncReply, objects, registryVersion, refused, missed>>
  BY DEF Call, masterVars, callVars, replicaVars, historyVars
<1>2. GlobalInv'
  BY <1>1, GlobalFrame DEF HasSnapshot, HasValidObjects, Synchronised
<1>3. /\ Len(requests'[p]) = Len(requests[p]) + 1
      /\ requests'[p][Len(requests[p]) + 1] = request
      /\ \A i \in 1 .. Len(requests[p]) : requests'[p][i] = requests[p][i]
      /\ \A q \in Proc \ {p} : requests'[q] = requests[q]
      /\ Len(requests[p]) \in Nat
  BY <1>1, AppendedRequest DEF IInv
<1>4. ASSUME NEW q \in Proc PROVE LocalInv(q)'
  <2>1. GoneInv(q)' /\ BlockedInv(q)'
    BY <1>1, <1>3 DEF GoneInv, BlockedInv, HasValidObjects, LocalInv, IInv
  <2>2. AskInv(q)'
    BY <1>1, AppendedAsk
  <2>3. CallsInv(p)'
    <3>1. ~blocked[p] /\ CallsInv(p) /\ phase'[p] = "replica"
      BY <1>1 DEF Running, IInv, LocalInv
    <3>2. ASSUME NEW i \in 1 .. Len(requests[p])
          PROVE  ~AsksWaiting(requests[p][i])
      BY <3>1 DEF CallsInv
    <3>3. ~AsksAsync(request) /\ ~AsksWaiting(request)
      BY DEF AsksAsync, AsksWaiting
    <3>. QED  BY <1>1, <1>3, <3>1, <3>2, <3>3 DEF CallsInv
  <2>4. q # p => CallsInv(q)'
    BY <1>1, <1>3 DEF CallsInv, LocalInv, IInv
  <2>. QED  BY <2>1, <2>2, <2>3, <2>4 DEF LocalInv
<1>5. ASSUME NEW q \in Proc PROVE DataInv(q)'
  BY <1>1, DataFrame DEF IInv
<1>. QED  BY <1>2, <1>4, <1>5

\* The master's own replica takes over every change at once.
LEMMA PublishFacts ==
  ASSUME IInv, Mastered, NEW signal \in Signal, signal.version = NextVersion(version),
         Changes(objectMap, signal), Publish(signal)
  PROVE  /\ nameOwner \in Proc /\ phase[nameOwner] = "master"
         /\ version \in Version
         /\ objectMap' = Applied(objectMap, signal)
         /\ version' = NextVersion(version)
         /\ nameOwner' = nameOwner /\ signalsConnected' = signalsConnected
         /\ refused' = refused /\ missed' = missed \union Unheard
         /\ registryVersion' = [registryVersion EXCEPT ![nameOwner] = version']
         /\ objects' = [objects EXCEPT ![nameOwner] = objectMap']
         /\ \A q \in Proc : signals'[q] = IF signalsConnected /\ phase[q] = "replica"
                                          THEN Append(signals[q], signal) ELSE signals[q]
<1>1. nameOwner \in Proc /\ phase[nameOwner] = "master"
  BY ConstantsAssumption DEF Mastered, IInv, TypeOK, Service
<1>2. /\ version \in Version /\ objects[nameOwner] = objectMap
      /\ registryVersion[nameOwner] = version
  BY DEF IInv, GlobalInv, MasterInv
<1>3. Accepts(nameOwner, signal.version)
  BY <1>2, ConstantsAssumption
     DEF Accepts, HasValidObjects, Version, INITIAL_REGISTRY_VERSION, INVALID_REGISTRY_VERSION
<1>4. objectMap' = Applied(objectMap, signal)
  BY AppliedChanges DEF Publish, IInv, TypeOK
<1>5. /\ registryVersion' = [registryVersion EXCEPT ![nameOwner] = signal.version]
      /\ objects' = [objects EXCEPT ![nameOwner] = Applied(objectMap, signal)]
  BY <1>2, <1>3 DEF Publish, OnSignal
<1>. QED  BY <1>1, <1>2, <1>4, <1>5 DEF Publish

LEMMA PublishStep ==
  ASSUME IInv, TypeOK', Mastered, Room,
         NEW signal \in Signal, signal.version = NextVersion(version),
         Changes(objectMap, signal), Publish(signal), UNCHANGED <<phase, callVars>>
  PROVE  /\ GlobalInv'
         /\ \A q \in Proc : DataInv(q)'
         /\ \A q \in Proc : phase[q] # "replica" =>
              signals'[q] = signals[q] /\ (q \in missed' => q \in missed)
         /\ \A q \in Proc \ {nameOwner} : registryVersion'[q] = registryVersion[q]
<1>1. /\ nameOwner \in Proc /\ phase[nameOwner] = "master"
      /\ version \in Version
      /\ objectMap' = Applied(objectMap, signal)
      /\ version' = NextVersion(version)
      /\ nameOwner' = nameOwner /\ signalsConnected' = signalsConnected
      /\ refused' = refused /\ missed' = missed \union Unheard
      /\ registryVersion' = [registryVersion EXCEPT ![nameOwner] = version']
      /\ objects' = [objects EXCEPT ![nameOwner] = objectMap']
      /\ \A q \in Proc : signals'[q] = IF signalsConnected /\ phase[q] = "replica"
                                       THEN Append(signals[q], signal) ELSE signals[q]
  BY PublishFacts
<1>2. /\ phase' = phase /\ asyncReply' = asyncReply /\ blocked' = blocked
      /\ syncReply' = syncReply
      /\ \A q \in Proc \ {nameOwner} :
           registryVersion'[q] = registryVersion[q] /\ objects'[q] = objects[q]
  BY <1>1 DEF callVars, IInv, TypeOK
<1>3. \A q \in Proc \ {nameOwner} :
        /\ HasValidObjects(q)' <=> HasValidObjects(q)
        /\ Synchronised(q)' <=> Synchronised(q)
        /\ HasSnapshot(q)' <=> HasSnapshot(q)
  BY <1>2 DEF HasSnapshot, Synchronised, HasValidObjects
<1>4. GlobalInv'
  <2>1. Mastered' /\ RolesInv'
    BY <1>1, <1>2 DEF Mastered, RolesInv, IInv, GlobalInv
  <2>2. StoppedInv'
    BY <2>1 DEF StoppedInv
  <2>3. MasterInv'
    <3>1. version' \in Version
      BY <1>1, NextVersionType
    <3>. QED  BY <1>1, <3>1 DEF MasterInv, IInv, TypeOK
  <2>4. SilentInv'
    BY <1>1, <1>3 DEF SilentInv, IInv, GlobalInv
  <2>. QED  BY <2>1, <2>2, <2>3, <2>4 DEF GlobalInv
<1>5. ASSUME NEW q \in Proc PROVE DataInv(q)'
  <2>1. /\ signals[q] \in Seq(Signal) /\ objectMap \in Content /\ objects[q] \in Content
        /\ DataInv(q)
    BY DEF IInv, TypeOK
  <2>2. CASE signalsConnected /\ phase[q] = "replica"
    <3>1. /\ signals'[q] = Append(signals[q], signal) /\ q # nameOwner
          /\ missed' = missed
      BY <1>1, <2>2 DEF Unheard
    <3>2. Len(signals[q]) <= MaxVersion - 3
      BY <2>1, LenProperties, ConstantsAssumption DEF Room
    <3>3. QueueInv(q)'
      BY <1>1, <2>1, <3>1, <3>2, NumberedAppend DEF QueueInv, DataInv
    <3>4. ReplicaInv(q)'
      BY <1>1, <1>2, <2>1, <3>1, <3>2, LagsAppend DEF ReplicaInv, DataInv, HasValidObjects
    <3>5. AsyncInv(q)'
      <4>. SUFFICES ASSUME asyncReply[q] # <<>>
                    PROVE  AsyncInv(q)'
        BY <1>2 DEF AsyncInv
      <4>. DEFINE reply == asyncReply[q][1]
      <4>1. /\ Len(asyncReply[q]) = 1
            /\ q \notin missed /\ ~HasValidObjects(q) /\ ~Synchronised(q) =>
                 Behind(reply.objects, reply.version, Len(signals[q]) - reply.behind,
                        signals[q], objectMap, version)
        BY <2>1 DEF DataInv, AsyncInv
      <4>2. reply \in QueuedSnapshot
        BY <4>1, ElementOfSeq DEF IInv, TypeOK
      <4>3. reply.objects \in Content /\ reply.behind \in Nat
        BY <4>2 DEF QueuedSnapshot
      <4>4. AsyncInv(q)' <=>
              (q \notin missed /\ ~HasValidObjects(q) /\ ~Synchronised(q) =>
                 Behind(reply.objects, reply.version, Len(signals'[q]) - reply.behind,
                        signals'[q], objectMap', version'))
        BY <1>2, <1>3, <3>1, <4>1 DEF AsyncInv
      <4>. HIDE DEF reply
      <4>5. Len(signals'[q]) - reply.behind = (Len(signals[q]) - reply.behind) + 1
        BY <2>1, <3>1, <4>3, AppendProperties, LenProperties
      <4>6. ASSUME Behind(reply.objects, reply.version, Len(signals[q]) - reply.behind,
                          signals[q], objectMap, version)
            PROVE  Behind(reply.objects, reply.version, Len(signals'[q]) - reply.behind,
                          signals'[q], objectMap', version')
        <5>1. Behind(reply.objects, reply.version, (Len(signals[q]) - reply.behind) + 1,
                     Append(signals[q], signal), Applied(objectMap, signal),
                     NextVersion(version))
          BY <1>1, <2>1, <3>2, <4>3, <4>6, BehindAppend
        <5>. QED  BY <1>1, <3>1, <4>5, <5>1
      <4>. QED  BY <4>1, <4>4, <4>6 DEF reply
    <3>6. SyncInv(q)'
      <4>. SUFFICES ASSUME syncReply[q] # <<>>
                    PROVE  SyncInv(q)'
        BY <1>2 DEF SyncInv
      <4>. DEFINE reply == syncReply[q][1]
      <4>1. /\ Len(syncReply[q]) = 1 /\ blocked[q]
            /\ Synchronised(q) =>
                 /\ reply.member = "getObjects"
                 /\ q \notin missed =>
                      Lags(reply.objects, reply.version, signals[q], objectMap, version)
        BY <2>1 DEF DataInv, SyncInv
      <4>2. reply \in Answer
        BY <4>1, ElementOfSeq DEF IInv, TypeOK
      <4>3. reply.objects \in Content
        BY <4>2 DEF Answer
      <4>. HIDE DEF reply
      <4>4. Synchronised(q) /\ q \notin missed =>
              Lags(reply.objects, reply.version, signals'[q], objectMap', version')
        BY <1>1, <2>1, <3>1, <3>2, <4>1, <4>3, LagsAppend
      <4>. QED  BY <1>2, <1>3, <3>1, <4>1, <4>4 DEF SyncInv, reply
    <3>. QED  BY <3>3, <3>4, <3>5, <3>6 DEF DataInv
  <2>3. CASE phase[q] # "replica"
    <3>1. signals'[q] = <<>> /\ asyncReply'[q] = <<>> /\ syncReply'[q] = <<>>
      BY <1>1, <1>2, <2>3 DEF IInv, LocalInv, GoneInv
    <3>. QED  BY <1>2, <2>3, <3>1, ConstantsAssumption
              DEF DataInv, QueueInv, Numbered, ReplicaInv, AsyncInv, SyncInv
  <2>4. CASE ~signalsConnected /\ phase[q] = "replica"
    <3>1. signals'[q] = <<>> /\ q # nameOwner
      BY <1>1, <2>4 DEF IInv, GlobalInv, SilentInv
    <3>2. HasSnapshot(q) => q \in missed'
      BY <1>1, <2>4, <3>1 DEF Unheard, IInv, GlobalInv, SilentInv
    <3>3. QueueInv(q)'
      BY <3>1, ConstantsAssumption DEF QueueInv, Numbered
    <3>4. ReplicaInv(q)'
      BY <1>3, <3>1, <3>2 DEF ReplicaInv, HasSnapshot
    <3>5. AsyncInv(q)'
      BY <1>2, <2>1, <3>2 DEF AsyncInv, DataInv, HasSnapshot
    <3>6. SyncInv(q)'
      BY <1>2, <1>3, <2>1, <3>1, <3>2 DEF SyncInv, DataInv, HasSnapshot
    <3>. QED  BY <3>3, <3>4, <3>5, <3>6 DEF DataInv
  <2>. QED  BY <2>2, <2>3, <2>4
<1>6. ASSUME NEW q \in Proc, phase[q] # "replica"
      PROVE  signals'[q] = signals[q] /\ (q \in missed' => q \in missed)
  BY <1>1, <1>6 DEF Unheard, IInv, LocalInv, GoneInv
<1>. QED  BY <1>2, <1>4, <1>5, <1>6

LEMMA MasterChangeStep ==
  ASSUME IInv, TypeOK', Mastered, NEW caller \in Proc, NEW path \in Path,
         MasterChange(caller, path), UNCHANGED <<phase, callVars>>,
         \A q \in Proc :
           (requests[q] = <<>> => requests'[q] = <<>>) /\ CallsInv(q)' /\ AskInv(q)'
  PROVE  GlobalInv' /\ \A q \in Proc : LocalInv(q)' /\ DataInv(q)'
<1>. DEFINE signal == ChangeSignal(caller, path)
<1>1. /\ signal \in Signal
      /\ signal.version = NextVersion(version)
      /\ Changes(objectMap, signal)
  BY ChangeSignalFacts DEF IInv
<1>2. CASE Room /\ Publish(signal)
  <2>. HIDE DEF signal
  <2>1. /\ GlobalInv'
        /\ \A q \in Proc : DataInv(q)'
        /\ \A q \in Proc : phase[q] # "replica" =>
             signals'[q] = signals[q] /\ (q \in missed' => q \in missed)
        /\ \A q \in Proc \ {nameOwner} : registryVersion'[q] = registryVersion[q]
    BY <1>1, <1>2, PublishStep
  <2>2. /\ nameOwner' = nameOwner /\ phase[nameOwner] = "master" /\ nameOwner \in Proc
        /\ refused' = refused
    BY <1>1, <1>2, PublishFacts
  <2>3. ASSUME NEW q \in Proc PROVE GoneInv(q)' /\ BlockedInv(q)'
    BY <2>1, <2>2 DEF GoneInv, BlockedInv, HasValidObjects, LocalInv, IInv, callVars
  <2>. QED  BY <2>1, <2>3 DEF LocalInv
<1>3. CASE UNCHANGED <<masterVars, signals, replicaVars, historyVars>>
  <2>1. UNCHANGED <<nameOwner, objectMap, version, signalsConnected, phase, signals,
                    asyncReply, blocked, syncReply, objects, registryVersion, refused, missed>>
    BY <1>3 DEF masterVars, replicaVars, callVars, historyVars
  <2>2. GlobalInv'
    BY <2>1, GlobalFrame DEF HasSnapshot, HasValidObjects, Synchronised
  <2>3. ASSUME NEW q \in Proc PROVE GoneInv(q)' /\ BlockedInv(q)'
    BY <2>1 DEF GoneInv, BlockedInv, HasValidObjects, LocalInv, IInv
  <2>4. ASSUME NEW q \in Proc PROVE DataInv(q)'
    BY <2>1, DataFrame DEF IInv
  <2>. QED  BY <2>2, <2>3, <2>4 DEF LocalInv
<1>. QED  BY <1>2, <1>3, MasterChangeCases DEF IInv

LEMMA ServiceStepInv ==
  ASSUME IInv, TypeOK', NEW p \in Proc, NEW path \in Path,
         RegisterService(p, path) \/ UnregisterService(p, path)
  PROVE  GlobalInv' /\ \A q \in Proc : LocalInv(q)' /\ DataInv(q)'
<1>1. UNCHANGED <<phase, callVars>> /\ Running(p)
  BY DEF RegisterService, UnregisterService
<1>2. CASE phase[p] = "master" /\ MasterChange(p, path) /\ UNCHANGED requests
  <2>1. p = nameOwner /\ Mastered
    BY <1>2, ConstantsAssumption DEF IInv, GlobalInv, RolesInv, Mastered
  <2>2. signalsConnected' = signalsConnected /\ refused' = refused
    BY <1>2, MasterChangeType DEF IInv
  <2>3. ASSUME NEW q \in Proc PROVE CallsInv(q)' /\ AskInv(q)'
    BY <1>1, <1>2, <2>2 DEF CallsInv, AskInv, callVars, IInv, LocalInv
  <2>. QED  BY <1>1, <1>2, <2>1, <2>3, MasterChangeStep
<1>3. ASSUME NEW member \in {"registerObject", "unregisterObject"},
             phase[p] = "replica", Call(p, [member |-> member, path |-> path])
      PROVE  GlobalInv' /\ \A q \in Proc : LocalInv(q)' /\ DataInv(q)'
  <2>1. [member |-> member, path |-> path] \in Request
    BY DEF Request
  <2>. QED  BY <1>1, <1>3, <2>1, CallStep
<1>. QED  BY <1>2, <1>3 DEF RegisterService, UnregisterService, MasterChange

LEMMA HandleChangeStep ==
  ASSUME IInv, TypeOK', NEW p \in Proc, HandleRegisterObject(p) \/ HandleUnregisterObject(p)
  PROVE  GlobalInv' /\ \A q \in Proc : LocalInv(q)' /\ DataInv(q)'
<1>1. PICK member \in {"registerObject", "unregisterObject"} : Receives(p, member)
  BY DEF HandleRegisterObject, HandleUnregisterObject
<1>2. /\ Mastered /\ UNCHANGED <<phase, callVars>>
      /\ MasterChange(p, Head(requests[p]).path)
  BY DEF HandleRegisterObject, HandleUnregisterObject, MasterChange, Serving
<1>3. Head(requests[p]).path \in Path
  BY <1>1, ReceivesType DEF IInv
<1>4. signalsConnected' = signalsConnected /\ refused' = refused
  BY <1>2, <1>3, MasterChangeType DEF IInv
<1>5. /\ UNCHANGED <<phase, asyncReply, blocked, syncReply>>
      /\ member # "GetAllProperties"
  BY <1>2 DEF callVars
<1>6. \A q \in Proc : CallsInv(q)'
  BY <1>1, <1>5, ReceivesCalls
<1>7. \A q \in Proc : AskInv(q)'
  BY <1>1, <1>4, <1>5, ReceivesAsk
<1>8. \A q \in Proc : requests[q] = <<>> => requests'[q] = <<>>
  BY <1>1 DEF Receives, IInv, TypeOK
<1>. QED  BY <1>2, <1>3, <1>6, <1>7, <1>8, MasterChangeStep

\* The answer to a call reaches its sender only if it waits.
LEMMA AnsweredFacts ==
  ASSUME IInv, NEW p \in Proc, NEW member \in {"GetAllProperties", "getObjects"},
         Receives(p, member), NEW answer, Answered(p, answer)
  PROVE  /\ \A q \in Proc \ {p} : syncReply'[q] = syncReply[q]
         /\ CallerIs(p, "waiting") <=> AsksWaiting(Head(requests[p])) /\ phase[p] = "replica"
         /\ CallerIs(p, "waiting") => syncReply'[p] = <<answer>> /\ blocked[p]
         /\ ~CallerIs(p, "waiting") => syncReply'[p] = syncReply[p]
<1>1. Head(requests[p]).member = member
  BY DEF Receives
<1>2. CallerIs(p, "waiting") <=> AsksWaiting(Head(requests[p])) /\ phase[p] = "replica"
  BY <1>1 DEF CallerIs, AsksWaiting
<1>3. /\ \A q \in Proc \ {p} : syncReply'[q] = syncReply[q]
      /\ CallerIs(p, "waiting") => syncReply'[p] = Append(syncReply[p], answer)
      /\ ~CallerIs(p, "waiting") => syncReply'[p] = syncReply[p]
  BY DEF Answered, IInv, TypeOK
<1>4. ASSUME CallerIs(p, "waiting") PROVE syncReply[p] = <<>> /\ blocked[p]
  <2>1. /\ Len(requests[p]) >= 1 /\ Len(requests[p]) \in Nat
        /\ requests[p][1] = Head(requests[p])
    BY ReceivedQueue DEF IInv
  <2>. QED  BY <1>2, <1>4, <2>1 DEF CallsInv, LocalInv, IInv
<1>5. Append(<<>>, answer) = <<answer>>
  OBVIOUS
<1>. QED  BY <1>2, <1>3, <1>4, <1>5

LEMMA HandleGetAllPropertiesStep ==
  ASSUME IInv, NEW p \in Proc, HandleGetAllProperties(p)
  PROVE  GlobalInv' /\ \A q \in Proc : LocalInv(q)' /\ DataInv(q)'
<1>. DEFINE answer == WithoutMap("GetAllProperties")
<1>1. /\ Mastered /\ Receives(p, "GetAllProperties") /\ signalsConnected'
      /\ Answered(p, answer)
      /\ UNCHANGED <<nameOwner, objectMap, version, phase, exported, signals, asyncReply,
                     blocked, objects, registryVersion, refused, missed>>
  BY DEF HandleGetAllProperties, Serving, replicaVars, historyVars
<1>2. /\ \A q \in Proc \ {p} : syncReply'[q] = syncReply[q]
      /\ CallerIs(p, "waiting") <=> AsksWaiting(Head(requests[p])) /\ phase[p] = "replica"
      /\ CallerIs(p, "waiting") => syncReply'[p] = <<answer>> /\ blocked[p]
      /\ ~CallerIs(p, "waiting") => syncReply'[p] = syncReply[p]
  BY <1>1, AnsweredFacts
<1>3. answer.version = INVALID_REGISTRY_VERSION
  BY DEF WithoutMap
<1>. HIDE DEF answer
<1>4. Synchronised(p)' <=> Synchronised(p)
  <2>1. CASE CallerIs(p, "waiting")
    <3>1. syncReply[p] = <<>>
      BY <1>1, <1>2, <2>1, ReceivesCalls
    <3>. QED  BY <1>2, <1>3, <2>1, <3>1 DEF Synchronised
  <2>. QED  BY <1>2, <2>1 DEF Synchronised
<1>5. phase[p] # "idle" /\ \A q \in Proc : CallsInv(q)'
  <2>1. \A q \in Proc \ {p} : asyncReply'[q] = asyncReply[q] /\ syncReply'[q] = syncReply[q]
    BY <1>1, <1>2
  <2>2. \/ syncReply'[p] = syncReply[p]
        \/ AsksWaiting(Head(requests[p])) \/ phase[p] # "replica"
    BY <1>2
  <2>. QED  BY <1>1, <2>1, <2>2, ReceivesCalls
<1>6. \A q \in Proc : AskInv(q)'
  BY <1>1 DEF AskInv
<1>7. GlobalInv'
  BY <1>1 DEF GlobalInv, RolesInv, StoppedInv, MasterInv, SilentInv, Mastered, IInv
<1>8. ASSUME NEW q \in Proc PROVE LocalInv(q)'
  <2>1. requests[q] = <<>> => requests'[q] = <<>>
    BY <1>1 DEF Receives, IInv, TypeOK
  <2>2. GoneInv(q)' /\ BlockedInv(q)'
    BY <1>1, <1>2, <2>1 DEF GoneInv, BlockedInv, HasValidObjects, LocalInv, IInv
  <2>. QED  BY <1>5, <1>6, <2>2 DEF LocalInv
<1>9. ASSUME NEW q \in Proc PROVE DataInv(q)'
  <2>1. CASE syncReply'[q] = syncReply[q]
    BY <1>1, <2>1, DataFrame DEF IInv
  <2>2. CASE syncReply'[q] # syncReply[q]
    <3>1. q = p /\ syncReply'[q] = <<answer>> /\ blocked[q]
      BY <1>2, <2>2
    <3>2. QueueInv(q)' /\ ReplicaInv(q)' /\ AsyncInv(q)'
      BY <1>1, <1>4, <3>1 DEF QueueInv, ReplicaInv, AsyncInv, HasValidObjects, DataInv, IInv
    <3>3. SyncInv(q)'
      BY <1>1, <1>3, <3>1 DEF SyncInv, Synchronised
    <3>. QED  BY <3>2, <3>3 DEF DataInv
  <2>. QED  BY <2>1, <2>2
<1>. QED  BY <1>7, <1>8, <1>9

LEMMA HandleGetObjectsStep ==
  ASSUME IInv, NEW p \in Proc, HandleGetObjects(p)
  PROVE  GlobalInv' /\ \A q \in Proc : LocalInv(q)' /\ DataInv(q)'
<1>. DEFINE reply == [behind |-> Len(signals[p]), objects |-> objectMap, version |-> version]
            answer == [member |-> "getObjects", objects |-> objectMap, version |-> version]
<1>1. /\ Mastered /\ Receives(p, "getObjects") /\ Answered(p, answer)
      /\ UNCHANGED <<nameOwner, objectMap, version, signalsConnected, phase, exported,
                     signals, blocked, objects, registryVersion, refused>>
      /\ asyncReply' = IF CallerIs(p, "async")
                       THEN [asyncReply EXCEPT ![p] = Append(@, reply)] ELSE asyncReply
      /\ missed' = IF CallerIs(p, "waiting") THEN missed \ {p} ELSE missed
  BY DEF HandleGetObjects, Serving, masterVars, replicaVars
<1>2. /\ \A q \in Proc \ {p} : syncReply'[q] = syncReply[q]
      /\ CallerIs(p, "waiting") <=> AsksWaiting(Head(requests[p])) /\ phase[p] = "replica"
      /\ CallerIs(p, "waiting") => syncReply'[p] = <<answer>> /\ blocked[p]
      /\ ~CallerIs(p, "waiting") => syncReply'[p] = syncReply[p]
  BY <1>1, AnsweredFacts
<1>3. CallerIs(p, "async") <=> AsksAsync(Head(requests[p])) /\ phase[p] = "replica"
  BY <1>1 DEF CallerIs, AsksAsync, Receives
<1>4. \A q \in Proc \ {p} : asyncReply'[q] = asyncReply[q]
  BY <1>1 DEF IInv, TypeOK
<1>5. /\ ~CallerIs(p, "async") => asyncReply'[p] = asyncReply[p]
      /\ CallerIs(p, "async") => ~CallerIs(p, "waiting")
  BY <1>1 DEF CallerIs
<1>6. /\ phase[p] # "idle" /\ \A q \in Proc : CallsInv(q)'
      /\ CallerIs(p, "async") => asyncReply[p] = <<>>
      /\ CallerIs(p, "waiting") => syncReply[p] = <<>>
  BY <1>1, <1>2, <1>3, <1>4, <1>5, ReceivesCalls
<1>7. CallerIs(p, "async") => asyncReply'[p] = <<reply>>
  BY <1>1, <1>6 DEF IInv, TypeOK
<1>8. version \in Version /\ objectMap \in Content /\ signals[p] \in Seq(Signal)
  BY <1>1 DEF IInv, TypeOK, GlobalInv, MasterInv
<1>9. answer.member = "getObjects" /\ answer.objects = objectMap /\ answer.version = version
  OBVIOUS
<1>10. reply.behind = Len(signals[p]) /\ reply.objects = objectMap /\ reply.version = version
  OBVIOUS
<1>. HIDE DEF answer, reply
<1>11. \A q \in Proc : AskInv(q)'
  BY <1>1, <1>2, <1>9, ReceivesAsk
<1>12. CallerIs(p, "waiting") => Synchronised(p)' /\ ~HasValidObjects(p)
  <2>1. version # INVALID_REGISTRY_VERSION
    BY <1>8, ConstantsAssumption
       DEF Version, INITIAL_REGISTRY_VERSION, INVALID_REGISTRY_VERSION
  <2>2. ASSUME CallerIs(p, "waiting")
        PROVE  syncReply'[p] = <<answer>> /\ blocked[p]
    BY <1>2, <2>2
  <2>3. CallerIs(p, "waiting") => syncReply'[p] # <<>> /\ Head(syncReply'[p]) = answer
    BY <2>2
  <2>4. CallerIs(p, "waiting") => Synchronised(p)'
    BY <1>9, <2>1, <2>3 DEF Synchronised
  <2>5. CallerIs(p, "waiting") => ~HasValidObjects(p)
    BY <2>2 DEF BlockedInv, LocalInv, IInv
  <2>. QED  BY <2>4, <2>5
<1>13. GlobalInv'
  <2>1. ~signalsConnected /\ phase[p] = "replica" => p \in refused
    BY <1>1, ReceivesRefused
  <2>2. ASSUME NEW q \in Proc, HasSnapshot(q)'
        PROVE  HasSnapshot(q) \/ (Mastered /\ (~signalsConnected => q \in refused'))
    <3>1. CASE q # p
      BY <1>1, <1>2, <1>4, <2>2, <3>1 DEF HasSnapshot, HasValidObjects, Synchronised
    <3>2. CASE q = p /\ ~CallerIs(p, "async") /\ ~CallerIs(p, "waiting")
      BY <1>1, <1>2, <1>5, <2>2, <3>2 DEF HasSnapshot, HasValidObjects, Synchronised
    <3>3. CASE q = p /\ (CallerIs(p, "async") \/ CallerIs(p, "waiting"))
      BY <1>1, <2>1, <3>3 DEF CallerIs
    <3>. QED  BY <3>1, <3>2, <3>3
  <2>. QED  BY <1>1, <2>2, GlobalFrame
<1>14. ASSUME NEW q \in Proc PROVE LocalInv(q)'
  <2>1. requests[q] = <<>> => requests'[q] = <<>>
    BY <1>1 DEF Receives, IInv, TypeOK
  <2>2. phase[q] # "replica" => asyncReply'[q] = asyncReply[q] /\ syncReply'[q] = syncReply[q]
    BY <1>2, <1>3, <1>4, <1>5
  <2>3. GoneInv(q)' /\ BlockedInv(q)'
    BY <1>1, <2>1, <2>2 DEF GoneInv, BlockedInv, HasValidObjects, LocalInv, IInv
  <2>. QED  BY <1>6, <1>11, <2>3 DEF LocalInv
<1>15. ASSUME NEW q \in Proc PROVE DataInv(q)'
  <2>1. CASE q # p
    <3>1. q \in missed => q \in missed'
      BY <1>1, <2>1
    <3>. QED  BY <1>1, <1>2, <1>4, <2>1, <3>1, DataFrame DEF IInv
  <2>2. CASE q = p /\ ~CallerIs(p, "async") /\ ~CallerIs(p, "waiting")
    BY <1>1, <1>2, <1>5, <2>2, DataFrame DEF IInv
  <2>3. CASE q = p /\ CallerIs(p, "async")
    <3>1. syncReply'[q] = syncReply[q] /\ missed' = missed
      BY <1>1, <1>2, <1>5, <2>3
    <3>2. QueueInv(q)' /\ ReplicaInv(q)' /\ SyncInv(q)'
      BY <1>1, <3>1
         DEF QueueInv, ReplicaInv, SyncInv, Synchronised, HasValidObjects, DataInv, IInv
    <3>3. Behind(objectMap, version, 0, signals[p], objectMap, version)
      BY <1>8, BehindNow
    <3>4. /\ Len(asyncReply'[p]) = 1
          /\ asyncReply'[p][1].objects = objectMap
          /\ asyncReply'[p][1].version = version
          /\ Len(signals[p]) - asyncReply'[p][1].behind = 0
      <4>1. Len(signals[p]) \in Nat
        BY <1>8, LenProperties
      <4>2. Len(asyncReply'[p]) = 1 /\ asyncReply'[p][1] = reply
        BY <1>7, <2>3
      <4>. QED  BY <1>10, <4>1, <4>2
    <3>5. AsyncInv(q)'
      BY <1>1, <2>3, <3>3, <3>4 DEF AsyncInv
    <3>. QED  BY <3>2, <3>5 DEF DataInv
  <2>4. CASE q = p /\ CallerIs(p, "waiting")
    <3>1. QueueInv(q)' /\ ReplicaInv(q)' /\ AsyncInv(q)'
      BY <1>1, <1>5, <1>12, <2>4
         DEF QueueInv, ReplicaInv, AsyncInv, HasValidObjects, DataInv, IInv
    <3>2. Lags(objectMap, version, signals[p], objectMap, version)
      BY <1>8, BehindNow, LenProperties DEF Lags
    <3>3. SyncInv(q)'
      <4>1. syncReply'[p] = <<answer>> /\ blocked'[p]
        BY <1>1, <1>2, <2>4
      <4>2. Len(syncReply'[p]) = 1 /\ syncReply'[p][1] = answer
        BY <4>1
      <4>. QED  BY <1>1, <1>9, <2>4, <3>2, <4>1, <4>2 DEF SyncInv
    <3>. QED  BY <3>1, <3>3 DEF DataInv
  <2>. QED  BY <2>1, <2>2, <2>3, <2>4
<1>. QED  BY <1>13, <1>14, <1>15

LEMMA RefuseRequestStep ==
  ASSUME IInv, NEW p \in Proc, RefuseRequest(p)
  PROVE  GlobalInv' /\ \A q \in Proc : LocalInv(q)' /\ DataInv(q)'
<1>1. /\ nameOwner # NoProc /\ phase[nameOwner] = "naming"
      /\ UNCHANGED <<nameOwner, objectMap, version, signalsConnected, phase, signals,
                     asyncReply, blocked, objects, registryVersion, missed>>
  BY DEF RefuseRequest, masterVars, replicaVars
<1>2. PICK member \in {"registerObject", "unregisterObject", "GetAllProperties", "getObjects"} :
        /\ Receives(p, member)
        /\ \/ syncReply' = syncReply
           \/ /\ member \in {"GetAllProperties", "getObjects"}
              /\ Answered(p, WithoutMap(member))
        /\ refused' = IF member = "GetAllProperties" /\ phase[p] = "replica"
                      THEN refused \union {p} ELSE refused
  BY DEF RefuseRequest
<1>. DEFINE answer == WithoutMap(member)
<1>3. answer.version = INVALID_REGISTRY_VERSION /\ answer.member = member
  BY DEF WithoutMap
<1>. HIDE DEF answer
<1>4. /\ \A q \in Proc \ {p} : syncReply'[q] = syncReply[q]
      /\ \/ syncReply'[p] = syncReply[p]
         \/ /\ AsksWaiting(Head(requests[p])) /\ phase[p] = "replica"
            /\ syncReply'[p] = <<answer>> /\ blocked[p]
  BY <1>2, AnsweredFacts DEF answer
<1>5. /\ phase[p] # "idle" /\ \A q \in Proc : CallsInv(q)'
      /\ AsksWaiting(Head(requests[p])) /\ phase[p] = "replica" => syncReply[p] = <<>>
  BY <1>1, <1>2, <1>4, ReceivesCalls
<1>6. \A q \in Proc : q \in refused => q \in refused'
  BY <1>2
<1>7. \A q \in Proc : AskInv(q)'
  <2>1. \/ p \in refused'
        \/ phase[p] # "replica"
        \/ /\ member # "GetAllProperties"
           /\ \/ syncReply'[p] = syncReply[p]
              \/ Head(syncReply'[p]).member # "GetAllProperties"
    BY <1>2, <1>3, <1>4
  <2>. QED  BY <1>1, <1>2, <1>4, <1>6, <2>1, ReceivesAsk
<1>8. \A q \in Proc : Synchronised(q)' <=> Synchronised(q)
  BY <1>3, <1>4, <1>5 DEF Synchronised
<1>9. GlobalInv'
  BY <1>1, <1>6, <1>8, GlobalFrame DEF HasSnapshot, HasValidObjects
<1>10. ASSUME NEW q \in Proc PROVE LocalInv(q)'
  <2>1. requests[q] = <<>> => requests'[q] = <<>>
    BY <1>2 DEF Receives, IInv, TypeOK
  <2>2. phase[q] # "replica" => syncReply'[q] = syncReply[q] /\ (q \in refused' => q \in refused)
    BY <1>2, <1>4
  <2>3. GoneInv(q)' /\ BlockedInv(q)'
    BY <1>1, <2>1, <2>2 DEF GoneInv, BlockedInv, HasValidObjects, LocalInv, IInv
  <2>. QED  BY <1>5, <1>7, <2>3 DEF LocalInv
<1>11. ASSUME NEW q \in Proc PROVE DataInv(q)'
  <2>1. CASE syncReply'[q] = syncReply[q]
    BY <1>1, <2>1, DataFrame DEF IInv
  <2>2. CASE syncReply'[q] # syncReply[q]
    <3>1. syncReply'[q] = <<answer>> /\ blocked[q]
      BY <1>4, <2>2
    <3>2. QueueInv(q)' /\ ReplicaInv(q)' /\ AsyncInv(q)'
      BY <1>1, <1>8 DEF QueueInv, ReplicaInv, AsyncInv, HasValidObjects, DataInv, IInv
    <3>3. SyncInv(q)'
      BY <1>1, <1>3, <3>1 DEF SyncInv, Synchronised
    <3>. QED  BY <3>2, <3>3 DEF DataInv
  <2>. QED  BY <2>1, <2>2
<1>. QED  BY <1>9, <1>10, <1>11

\* The master's process waits for another one: nothing the invariant is about.
LEMMA MasterCallStep ==
  ASSUME IInv, NEW p \in Proc, MasterCalls(p) \/ CallEnds(p)
  PROVE  GlobalInv' /\ \A q \in Proc : LocalInv(q)' /\ DataInv(q)'
<1>1. UNCHANGED <<nameOwner, objectMap, version, signalsConnected, phase, requests, signals,
                  asyncReply, blocked, syncReply, objects, registryVersion, refused, missed>>
  BY DEF MasterCalls, CallEnds, MasterCallReturns, MasterCallTimesOut, callVars, replicaVars,
         historyVars
<1>2. GlobalInv'
  BY <1>1, GlobalFrame DEF HasSnapshot, HasValidObjects, Synchronised
<1>3. ASSUME NEW q \in Proc PROVE LocalInv(q)' /\ DataInv(q)'
  BY <1>1, LocalFrame, DataFrame DEF IInv
<1>. QED  BY <1>2, <1>3
-----------------------------------------------------------------------------
(***************************************************************************)
(* The steps of a replica.                                                 *)
(***************************************************************************)

\* A process that may take over a map is a replica and not the master.
LEMMA ReceiverIsReplica ==
  ASSUME IInv, NEW p \in Proc,
         signals[p] # <<>> \/ asyncReply[p] # <<>> \/ blocked[p]
  PROVE  phase[p] = "replica" /\ p # nameOwner
BY DEF IInv, GlobalInv, RolesInv, LocalInv, GoneInv

\* A blocking call is made only by a process that waits for nothing else.
LEMMA WaitsCalls ==
  ASSUME IInv, NEW p \in Proc, NEW member \in {"GetAllProperties", "getObjects"},
         phase[p] = "replica", ~blocked[p] \/ syncReply[p] # <<>>, Waits(p, member),
         UNCHANGED <<phase, asyncReply>>, blocked'[p], syncReply'[p] = <<>>,
         \A q \in Proc \ {p} : blocked'[q] = blocked[q] /\ syncReply'[q] = syncReply[q]
  PROVE  \A q \in Proc : CallsInv(q)'
<1>. DEFINE request == [member |-> member, caller |-> "waiting"]
<1>1. request \in Request /\ requests' = [requests EXCEPT ![p] = Append(@, request)]
  BY DEF Request, ProxyCall, Waits
<1>2. ~AsksAsync(request)
  BY DEF AsksAsync
<1>. HIDE DEF request
<1>3. /\ Len(requests'[p]) = Len(requests[p]) + 1
      /\ requests'[p][Len(requests[p]) + 1] = request
      /\ \A i \in 1 .. Len(requests[p]) : requests'[p][i] = requests[p][i]
      /\ \A q \in Proc \ {p} : requests'[q] = requests[q]
      /\ Len(requests[p]) \in Nat
  BY <1>1, AppendedRequest DEF IInv
<1>4. \A i \in 1 .. Len(requests[p]) :
        /\ ~AsksWaiting(requests[p][i])
        /\ AsksAsync(requests[p][i]) =>
             /\ asyncReply[p] = <<>>
             /\ \A j \in 1 .. Len(requests[p]) : AsksAsync(requests[p][j]) => j = i
  BY DEF CallsInv, LocalInv, IInv
<1>5. CallsInv(p)'
  <2>1. ASSUME NEW i \in 1 .. Len(requests'[p]), AsksAsync(requests'[p][i])
        PROVE  /\ asyncReply'[p] = <<>>
               /\ \A j \in 1 .. Len(requests'[p]) : AsksAsync(requests'[p][j]) => j = i
    <3>1. i \in 1 .. Len(requests[p]) /\ requests'[p][i] = requests[p][i]
      BY <1>2, <1>3, <2>1
    <3>2. ASSUME NEW j \in 1 .. Len(requests'[p]), AsksAsync(requests'[p][j]) PROVE j = i
      <4>1. j \in 1 .. Len(requests[p]) /\ requests'[p][j] = requests[p][j]
        BY <1>2, <1>3, <3>2
      <4>. QED  BY <1>4, <2>1, <3>1, <3>2, <4>1
    <3>. QED  BY <1>4, <2>1, <3>1, <3>2
  <2>2. ASSUME NEW i \in 1 .. Len(requests'[p]), AsksWaiting(requests'[p][i])
        PROVE  i = Len(requests'[p])
    BY <1>3, <1>4, <2>2
  <2>. QED  BY <2>1, <2>2 DEF CallsInv, AsksAsync, AsksWaiting
<1>6. ASSUME NEW q \in Proc \ {p} PROVE CallsInv(q)'
  BY <1>3 DEF CallsInv, LocalInv, IInv
<1>. QED  BY <1>5, <1>6

LEMMA SyncObjectsStep ==
  ASSUME IInv, NEW p \in Proc, SyncObjects(p)
  PROVE  GlobalInv' /\ \A q \in Proc : LocalInv(q)' /\ DataInv(q)'
<1>1. /\ phase[p] = "replica" /\ ~blocked[p] /\ ~HasValidObjects(p)
      /\ blocked' = [blocked EXCEPT ![p] = TRUE] /\ Waits(p, "GetAllProperties")
      /\ UNCHANGED <<nameOwner, objectMap, version, signalsConnected, phase, signals,
                     asyncReply, syncReply, objects, registryVersion, refused, missed>>
  BY DEF SyncObjects, masterVars, replicaVars, historyVars
<1>2. GlobalInv'
  BY <1>1, GlobalFrame DEF HasSnapshot, HasValidObjects, Synchronised
<1>3. syncReply[p] = <<>> /\ blocked'[p] /\ \A q \in Proc \ {p} : blocked'[q] = blocked[q]
  BY <1>1 DEF IInv, DataInv, SyncInv, TypeOK
<1>4. \A q \in Proc : CallsInv(q)'
  BY <1>1, <1>3, WaitsCalls
<1>5. \A q \in Proc : AskInv(q)'
  <2>. DEFINE request == [member |-> "GetAllProperties", caller |-> "waiting"]
  <2>1. request \in Request /\ requests' = [requests EXCEPT ![p] = Append(@, request)]
    BY <1>1 DEF Request, ProxyCall, Waits
  <2>2. request.member # "getObjects"
    OBVIOUS
  <2>. HIDE DEF request
  <2>. QED  BY <1>1, <2>1, <2>2, AppendedAsk
<1>6. ASSUME NEW q \in Proc PROVE LocalInv(q)'
  <2>1. requests[q] = <<>> /\ q # p => requests'[q] = <<>>
    BY <1>1 DEF Waits, IInv, TypeOK
  <2>2. GoneInv(q)' /\ BlockedInv(q)'
    BY <1>1, <1>3, <2>1 DEF GoneInv, BlockedInv, HasValidObjects, LocalInv, IInv
  <2>. QED  BY <1>4, <1>5, <2>2 DEF LocalInv
<1>7. ASSUME NEW q \in Proc PROVE DataInv(q)'
  <2>1. \/ syncReply'[q] = <<>> /\ ~Synchronised(q)
        \/ syncReply'[q] = syncReply[q] /\ blocked'[q] = blocked[q]
    BY <1>1, <1>3 DEF Synchronised
  <2>. QED  BY <1>1, <2>1, DataFrame DEF IInv
<1>. QED  BY <1>2, <1>6, <1>7

\* The answer that a blocked process waits for, and what is left of it.
LEMMA HeldAnswer ==
  ASSUME IInv, NEW p \in Proc, syncReply[p] # <<>>
  PROVE  /\ Len(syncReply[p]) = 1 /\ Tail(syncReply[p]) = <<>>
         /\ Head(syncReply[p]) = syncReply[p][1] /\ syncReply[p][1] \in Answer
         /\ blocked[p] /\ phase[p] = "replica" /\ p # nameOwner
<1>1. syncReply[p] \in Seq(Answer)
  BY DEF IInv, TypeOK
<1>2. Len(syncReply[p]) = 1 /\ blocked[p]
  BY DEF IInv, DataInv, SyncInv
<1>3. Len(Tail(syncReply[p])) = 0 /\ Tail(syncReply[p]) \in Seq(Answer)
  BY <1>1, <1>2, HeadTailProperties
<1>4. Tail(syncReply[p]) = <<>>
  BY <1>3, EmptySeq
<1>. QED  BY <1>1, <1>2, <1>4, ElementOfSeq, ReceiverIsReplica

LEMMA SyncPropertiesReturnStep ==
  ASSUME IInv, NEW p \in Proc, SyncPropertiesReturn(p)
  PROVE  GlobalInv' /\ \A q \in Proc : LocalInv(q)' /\ DataInv(q)'
<1>1. /\ blocked[p] /\ syncReply[p] # <<>> /\ Head(syncReply[p]).member = "GetAllProperties"
      /\ syncReply' = [syncReply EXCEPT ![p] = Tail(@)] /\ Waits(p, "getObjects")
      /\ UNCHANGED <<nameOwner, objectMap, version, signalsConnected, phase, signals,
                     asyncReply, blocked, objects, registryVersion, refused, missed>>
  BY DEF SyncPropertiesReturn, masterVars, replicaVars, historyVars
<1>2. phase[p] = "replica" /\ p # nameOwner /\ ~Synchronised(p)
  <2>1. Synchronised(p) => syncReply[p][1].member = "getObjects"
    BY <1>1 DEF IInv, DataInv, SyncInv
  <2>. QED  BY <1>1, <2>1, HeldAnswer
<1>3. syncReply'[p] = <<>> /\ \A q \in Proc \ {p} : syncReply'[q] = syncReply[q]
  BY <1>1, HeldAnswer DEF IInv, TypeOK
<1>4. GlobalInv'
  <2>1. ASSUME NEW q \in Proc PROVE HasSnapshot(q)' => HasSnapshot(q)
    BY <1>1, <1>3 DEF HasSnapshot, HasValidObjects, Synchronised
  <2>. QED  BY <1>1, <2>1, GlobalFrame
<1>5. \A q \in Proc : CallsInv(q)'
  BY <1>1, <1>2, <1>3, WaitsCalls
<1>6. \A q \in Proc : AskInv(q)'
  <2>. DEFINE request == [member |-> "getObjects", caller |-> "waiting"]
  <2>1. request \in Request /\ requests' = [requests EXCEPT ![p] = Append(@, request)]
    BY <1>1 DEF Request, ProxyCall, Waits
  <2>. HIDE DEF request
  <2>2. \A q \in Proc : syncReply'[q] = syncReply[q] \/ syncReply'[q] = <<>>
    BY <1>3
  <2>. QED  BY <1>1, <2>1, <2>2, AppendedAsk
<1>7. ASSUME NEW q \in Proc PROVE LocalInv(q)'
  <2>1. requests[q] = <<>> /\ q # p => requests'[q] = <<>>
    BY <1>1 DEF Waits, IInv, TypeOK
  <2>2. GoneInv(q)' /\ BlockedInv(q)'
    BY <1>1, <1>2, <1>3, <2>1 DEF GoneInv, BlockedInv, HasValidObjects, LocalInv, IInv
  <2>. QED  BY <1>5, <1>6, <2>2 DEF LocalInv
<1>8. ASSUME NEW q \in Proc PROVE DataInv(q)'
  <2>1. \/ syncReply'[q] = <<>> /\ ~Synchronised(q)
        \/ syncReply'[q] = syncReply[q] /\ blocked'[q] = blocked[q]
    BY <1>1, <1>2, <1>3
  <2>. QED  BY <1>1, <2>1, DataFrame DEF IInv
<1>. QED  BY <1>4, <1>7, <1>8

LEMMA SyncObjectsReturnStep ==
  ASSUME IInv, NEW p \in Proc, SyncObjectsReturn(p)
  PROVE  GlobalInv' /\ \A q \in Proc : LocalInv(q)' /\ DataInv(q)'
<1>. DEFINE snapshot == syncReply[p][1]
<1>1. /\ blocked[p] /\ syncReply[p] # <<>> /\ ~HasValidObjects(p)
      /\ blocked' = [blocked EXCEPT ![p] = FALSE]
      /\ syncReply' = [syncReply EXCEPT ![p] = Tail(@)]
      /\ UpdateObjects(p, Head(syncReply[p]))
      /\ UNCHANGED <<nameOwner, objectMap, version, signalsConnected, phase, requests,
                     signals, asyncReply, refused, missed>>
  BY DEF SyncObjectsReturn, masterVars, historyVars, IInv, LocalInv, BlockedInv
<1>2. /\ phase[p] = "replica" /\ p # nameOwner
      /\ Head(syncReply[p]) = snapshot /\ Tail(syncReply[p]) = <<>>
  BY <1>1, HeldAnswer
<1>3. snapshot.version # INVALID_REGISTRY_VERSION /\ p \notin missed =>
        Lags(snapshot.objects, snapshot.version, signals[p], objectMap, version)
  BY <1>1, <1>2 DEF IInv, DataInv, SyncInv, Synchronised
<1>4. /\ registryVersion' = [registryVersion EXCEPT ![p] = snapshot.version]
      /\ objects' = [objects EXCEPT ![p] = snapshot.objects]
      /\ syncReply' = [syncReply EXCEPT ![p] = <<>>]
  BY <1>1, <1>2 DEF UpdateObjects
<1>5. Synchronised(p) <=> snapshot.version # INVALID_REGISTRY_VERSION
  BY <1>1, <1>2 DEF Synchronised
<1>. HIDE DEF snapshot
<1>6. /\ registryVersion'[p] = snapshot.version /\ objects'[p] = snapshot.objects
      /\ syncReply'[p] = <<>> /\ ~blocked'[p]
      /\ \A q \in Proc \ {p} :
           /\ registryVersion'[q] = registryVersion[q] /\ objects'[q] = objects[q]
           /\ syncReply'[q] = syncReply[q] /\ blocked'[q] = blocked[q]
  BY <1>1, <1>4 DEF IInv, TypeOK
<1>7. ASSUME NEW q \in Proc PROVE HasSnapshot(q)' => HasSnapshot(q)
  BY <1>1, <1>5, <1>6 DEF HasSnapshot, HasValidObjects, Synchronised
<1>8. GlobalInv'
  <2>1. RolesInv' /\ SilentInv' /\ StoppedInv'
    BY <1>1, <1>7 DEF RolesInv, SilentInv, StoppedInv, Mastered, GlobalInv, IInv
  <2>2. MasterInv'
    <3>1. Mastered => nameOwner \in Proc \ {p}
      BY <1>2 DEF Mastered, IInv, TypeOK, Service
    <3>. QED  BY <1>1, <1>6, <3>1 DEF MasterInv, Mastered, GlobalInv, IInv
  <2>. QED  BY <2>1, <2>2 DEF GlobalInv
<1>9. ASSUME NEW q \in Proc PROVE LocalInv(q)'
  <2>1. GoneInv(q)' /\ BlockedInv(q)'
    BY <1>1, <1>2, <1>6 DEF GoneInv, BlockedInv, HasValidObjects, LocalInv, IInv
  <2>2. AskInv(q)'
    BY <1>1, <1>6 DEF AskInv, LocalInv, IInv
  <2>3. CallsInv(q)'
    BY <1>1, <1>6 DEF CallsInv, LocalInv, IInv
  <2>. QED  BY <2>1, <2>2, <2>3 DEF LocalInv
<1>10. ASSUME NEW q \in Proc PROVE DataInv(q)'
  <2>1. CASE q # p
    BY <1>1, <1>6, <2>1, DataFrame DEF IInv
  <2>2. CASE q = p
    <3>1. QueueInv(p)' /\ SyncInv(p)'
      BY <1>1, <1>6 DEF QueueInv, SyncInv, DataInv, IInv
    <3>2. ReplicaInv(p)'
      BY <1>1, <1>3, <1>6 DEF ReplicaInv, HasValidObjects
    <3>3. AsyncInv(p)'
      BY <1>1, <1>5, <1>6 DEF AsyncInv, HasValidObjects, DataInv, IInv
    <3>. QED  BY <2>2, <3>1, <3>2, <3>3 DEF DataInv
  <2>. QED  BY <2>1, <2>2
<1>. QED  BY <1>8, <1>9, <1>10

\* A caller that gives up leaves its call where it is.
LEMMA SyncCallTimesOutStep ==
  ASSUME IInv, NEW p \in Proc, SyncCallTimesOut(p)
  PROVE  GlobalInv' /\ \A q \in Proc : LocalInv(q)' /\ DataInv(q)'
<1>. DEFINE last == Len(requests[p])
<1>1. PICK member \in {"GetAllProperties", "getObjects"} :
        /\ requests[p][last] = [member |-> member, caller |-> "waiting"]
        /\ requests' = [requests EXCEPT
             ![p][last] = [member |-> member, caller |-> "gaveUp"]]
        /\ syncReply' = [syncReply EXCEPT ![p] = <<WithoutMap(member)>>]
  BY DEF SyncCallTimesOut
<1>2. /\ blocked[p] /\ syncReply[p] = <<>> /\ requests[p] # <<>>
      /\ UNCHANGED <<nameOwner, objectMap, version, signalsConnected, phase, signals,
                     asyncReply, blocked, objects, registryVersion, refused, missed>>
  BY DEF SyncCallTimesOut, masterVars, replicaVars, historyVars
<1>3. phase[p] = "replica" /\ ~HasValidObjects(p)
  BY <1>2, ReceiverIsReplica DEF BlockedInv, LocalInv, IInv
<1>4. last \in Nat \ {0} /\ requests[p] \in Seq(Request)
  BY <1>2, LenProperties, EmptySeq DEF IInv, TypeOK
<1>5. /\ Len(requests'[p]) = last
      /\ requests'[p][last] = [member |-> member, caller |-> "gaveUp"]
      /\ \A i \in 1 .. last : i # last => requests'[p][i] = requests[p][i]
      /\ \A q \in Proc \ {p} : requests'[q] = requests[q]
  BY <1>1, <1>4 DEF IInv, TypeOK
<1>6. /\ syncReply'[p] = <<WithoutMap(member)>> /\ ~Synchronised(p) /\ ~Synchronised(p)'
      /\ \A q \in Proc \ {p} : syncReply'[q] = syncReply[q]
  <2>1. syncReply'[p] = <<WithoutMap(member)>> /\ \A q \in Proc \ {p} : syncReply'[q] = syncReply[q]
    BY <1>1 DEF IInv, TypeOK
  <2>2. WithoutMap(member).version = INVALID_REGISTRY_VERSION
    BY DEF WithoutMap
  <2>. HIDE DEF last
  <2>. QED  BY <1>2, <2>1, <2>2 DEF Synchronised
<1>. HIDE DEF last
<1>7. GlobalInv'
  <2>1. ASSUME NEW q \in Proc PROVE HasSnapshot(q)' => HasSnapshot(q)
    BY <1>2, <1>6 DEF HasSnapshot, HasValidObjects, Synchronised
  <2>. QED  BY <1>2, <2>1, GlobalFrame
<1>8. \A i \in 1 .. last : requests'[p][i].member = requests[p][i].member
  BY <1>1, <1>5
<1>9. AskInv(p)'
  <2>. SUFFICES ASSUME ~signalsConnected, phase[p] = "replica", p \notin refused
                PROVE  AskInv(p)'
    BY <1>2 DEF AskInv
  <2>1. \A i \in 1 .. last :
          requests[p][i].member = "getObjects" =>
            \E j \in 1 .. i - 1 : requests[p][j].member = "GetAllProperties"
    BY DEF AskInv, LocalInv, IInv, last
  <2>2. ASSUME NEW i \in 1 .. last, requests'[p][i].member = "getObjects"
        PROVE  \E j \in 1 .. i - 1 : requests'[p][j].member = "GetAllProperties"
    <3>1. PICK j \in 1 .. i - 1 : requests[p][j].member = "GetAllProperties"
      BY <1>8, <2>1, <2>2
    <3>2. j \in 1 .. last
      BY <1>4
    <3>. QED  BY <1>8, <3>1, <3>2
  <2>3. ASSUME Head(syncReply'[p]).member = "GetAllProperties"
        PROVE  \E j \in 1 .. last : requests'[p][j].member = "GetAllProperties"
    <3>1. member = "GetAllProperties"
      BY <1>6, <2>3 DEF WithoutMap
    <3>. QED  BY <1>4, <1>5, <3>1
  <2>. QED  BY <1>5, <2>2, <2>3 DEF AskInv
<1>10. CallsInv(p)'
  <2>1. \A i \in 1 .. last : i # last => ~AsksWaiting(requests[p][i])
    BY <1>3, <1>4 DEF CallsInv, LocalInv, IInv, last
  <2>2. ~AsksWaiting(requests'[p][last]) /\ ~AsksAsync(requests'[p][last])
    BY <1>5 DEF AsksWaiting, AsksAsync
  <2>3. \A i \in 1 .. last : ~AsksWaiting(requests'[p][i])
    BY <1>5, <2>1, <2>2
  <2>4. ASSUME NEW i \in 1 .. last, AsksAsync(requests'[p][i])
        PROVE  /\ asyncReply[p] = <<>>
               /\ \A j \in 1 .. last : AsksAsync(requests'[p][j]) => j = i
    <3>1. i # last /\ AsksAsync(requests[p][i])
      BY <1>5, <2>2, <2>4
    <3>2. /\ asyncReply[p] = <<>>
          /\ \A j \in 1 .. last : AsksAsync(requests[p][j]) => j = i
      BY <3>1 DEF CallsInv, LocalInv, IInv, last
    <3>. QED  BY <1>5, <2>2, <3>2
  <2>. QED  BY <1>2, <1>5, <2>3, <2>4 DEF CallsInv
<1>11. ASSUME NEW q \in Proc PROVE LocalInv(q)'
  <2>1. CASE q = p
    <3>1. GoneInv(p)' /\ BlockedInv(p)'
      BY <1>2, <1>3 DEF GoneInv, BlockedInv, HasValidObjects
    <3>. QED  BY <1>9, <1>10, <2>1, <3>1 DEF LocalInv
  <2>2. CASE q # p
    BY <1>2, <1>5, <1>6, <2>2, LocalFrame DEF IInv
  <2>. QED  BY <2>1, <2>2
<1>12. ASSUME NEW q \in Proc PROVE DataInv(q)'
  <2>1. CASE q # p
    BY <1>2, <1>6, <2>1, DataFrame DEF IInv
  <2>2. CASE q = p
    <3>1. QueueInv(p)' /\ ReplicaInv(p)' /\ AsyncInv(p)'
      BY <1>2, <1>6 DEF QueueInv, ReplicaInv, AsyncInv, HasValidObjects, DataInv, IInv
    <3>2. Len(syncReply'[p]) = 1
      BY <1>6
    <3>3. SyncInv(p)'
      BY <1>2, <1>6, <3>2 DEF SyncInv
    <3>. QED  BY <2>2, <3>1, <3>3 DEF DataInv
  <2>. QED  BY <2>1, <2>2
<1>. QED  BY <1>7, <1>11, <1>12

LEMMA OnGetObjectsReplyStep ==
  ASSUME IInv, NEW p \in Proc, OnGetObjectsReply(p)
  PROVE  GlobalInv' /\ \A q \in Proc : LocalInv(q)' /\ DataInv(q)'
<1>. DEFINE snapshot == asyncReply[p][1]
<1>1. /\ ~blocked[p] /\ asyncReply[p] # <<>> /\ Head(asyncReply[p]).behind = 0
      /\ UpdateObjects(p, Head(asyncReply[p]))
      /\ asyncReply' = [asyncReply EXCEPT ![p] = Tail(@)]
      /\ UNCHANGED <<nameOwner, objectMap, version, signalsConnected, phase, requests,
                     signals, blocked, syncReply, refused, missed>>
  BY DEF OnGetObjectsReply, masterVars, historyVars
<1>2. phase[p] = "replica" /\ p # nameOwner /\ Mastered /\ syncReply[p] = <<>>
  BY <1>1, ReceiverIsReplica, HeldAnswer DEF IInv, GlobalInv, StoppedInv, HasSnapshot
<1>3. /\ Len(asyncReply[p]) = 1
      /\ p \notin missed /\ ~HasValidObjects(p) =>
           Behind(snapshot.objects, snapshot.version, Len(signals[p]) - snapshot.behind,
                  signals[p], objectMap, version)
  BY <1>1, <1>2 DEF IInv, DataInv, AsyncInv, Synchronised
<1>4. /\ Head(asyncReply[p]) = snapshot /\ Tail(asyncReply[p]) = <<>>
      /\ snapshot \in QueuedSnapshot
  <2>1. asyncReply[p] \in Seq(QueuedSnapshot)
    BY DEF IInv, TypeOK
  <2>2. Len(Tail(asyncReply[p])) = 0 /\ Tail(asyncReply[p]) \in Seq(QueuedSnapshot)
    BY <1>1, <1>3, <2>1, HeadTailProperties
  <2>. QED  BY <1>3, <2>1, <2>2, ElementOfSeq, EmptySeq
<1>5. p \notin missed /\ ~HasValidObjects(p) =>
        Lags(snapshot.objects, snapshot.version, signals[p], objectMap, version)
  <2>1. snapshot.behind = 0
    BY <1>1, <1>4
  <2>2. Len(signals[p]) \in Nat /\ Len(signals[p]) - 0 = Len(signals[p])
    BY LenProperties DEF IInv, TypeOK
  <2>. QED  BY <1>3, <2>1, <2>2 DEF Lags
<1>. HIDE DEF snapshot
<1>6. /\ \/ HasValidObjects(p) /\ registryVersion'[p] = registryVersion[p]
            /\ objects'[p] = objects[p]
         \/ ~HasValidObjects(p) /\ registryVersion'[p] = snapshot.version
            /\ objects'[p] = snapshot.objects
      /\ asyncReply'[p] = <<>>
      /\ \A q \in Proc \ {p} :
           /\ registryVersion'[q] = registryVersion[q] /\ objects'[q] = objects[q]
           /\ asyncReply'[q] = asyncReply[q]
  BY <1>1, <1>4 DEF UpdateObjects, replicaVars, IInv, TypeOK
<1>7. ASSUME NEW q \in Proc PROVE HasSnapshot(q)' => HasSnapshot(q)
  BY <1>1, <1>6 DEF HasSnapshot, HasValidObjects, Synchronised
<1>8. GlobalInv'
  <2>1. RolesInv' /\ SilentInv' /\ StoppedInv'
    BY <1>1, <1>7 DEF RolesInv, SilentInv, StoppedInv, Mastered, GlobalInv, IInv
  <2>2. MasterInv'
    <3>1. nameOwner \in Proc \ {p}
      BY <1>2 DEF Mastered, IInv, TypeOK, Service
    <3>. QED  BY <1>1, <1>6, <3>1 DEF MasterInv, Mastered, GlobalInv, IInv
  <2>. QED  BY <2>1, <2>2 DEF GlobalInv
<1>9. ASSUME NEW q \in Proc PROVE LocalInv(q)'
  <2>1. GoneInv(q)' /\ BlockedInv(q)'
    BY <1>1, <1>2, <1>6 DEF GoneInv, BlockedInv, HasValidObjects, LocalInv, IInv
  <2>2. AskInv(q)' /\ CallsInv(q)'
    BY <1>1, <1>6 DEF AskInv, CallsInv, LocalInv, IInv
  <2>. QED  BY <2>1, <2>2 DEF LocalInv
<1>10. ASSUME NEW q \in Proc PROVE DataInv(q)'
  <2>1. CASE q # p
    BY <1>1, <1>6, <2>1, DataFrame DEF IInv
  <2>2. CASE q = p
    <3>1. QueueInv(p)' /\ SyncInv(p)' /\ AsyncInv(p)'
      BY <1>1, <1>6 DEF QueueInv, SyncInv, AsyncInv, Synchronised, DataInv, IInv
    <3>2. ReplicaInv(p)'
      BY <1>1, <1>5, <1>6 DEF ReplicaInv, HasValidObjects, DataInv, IInv
    <3>. QED  BY <2>2, <3>1, <3>2 DEF DataInv
  <2>. QED  BY <2>1, <2>2
<1>. QED  BY <1>8, <1>9, <1>10

LEMMA DeliverSignalStep ==
  ASSUME IInv, NEW p \in Proc, NEW member, DeliverSignal(p, member)
  PROVE  GlobalInv' /\ \A q \in Proc : LocalInv(q)' /\ DataInv(q)'
<1>. DEFINE signal == Head(signals[p])
<1>1. /\ ~blocked[p] /\ signals[p] # <<>>
      /\ asyncReply[p] # <<>> => Head(asyncReply[p]).behind > 0
      /\ OnSignal(p, signal)
      /\ signals' = [signals EXCEPT ![p] = Tail(@)]
      /\ asyncReply' = IF asyncReply[p] = <<>> THEN asyncReply
                       ELSE [asyncReply EXCEPT ![p][1].behind = @ - 1]
      /\ UNCHANGED <<nameOwner, objectMap, version, signalsConnected, phase, requests,
                     blocked, syncReply, refused, missed>>
  BY DEF DeliverSignal, SignalIsNext, masterVars, historyVars
<1>2. phase[p] = "replica" /\ p # nameOwner /\ signalsConnected /\ Mastered
  BY <1>1, ReceiverIsReplica DEF IInv, GlobalInv, SilentInv, StoppedInv
<1>3. /\ version \in Version /\ signals[p] \in Seq(Signal) /\ objectMap \in Content
      /\ objects[p] \in Content /\ DataInv(p) /\ syncReply[p] = <<>>
  BY <1>1, <1>2 DEF IInv, GlobalInv, MasterInv, TypeOK, DataInv, SyncInv
<1>4. /\ signals'[p] = Tail(signals[p])
      /\ \A q \in Proc \ {p} : signals'[q] = signals[q] /\ asyncReply'[q] = asyncReply[q]
      /\ asyncReply[p] = <<>> => asyncReply'[p] = <<>>
  BY <1>1 DEF IInv, TypeOK
<1>5. /\ \A q \in Proc \ {p} :
           registryVersion'[q] = registryVersion[q] /\ objects'[q] = objects[q]
      /\ IF Accepts(p, signal.version)
         THEN registryVersion'[p] = signal.version /\ objects'[p] = Applied(objects[p], signal)
         ELSE registryVersion'[p] = registryVersion[p] /\ objects'[p] = objects[p]
  BY <1>1 DEF OnSignal, replicaVars, IInv, TypeOK
<1>6. GlobalInv'
  <2>1. RolesInv' /\ SilentInv' /\ StoppedInv'
    BY <1>1, <1>2 DEF RolesInv, SilentInv, StoppedInv, Mastered, GlobalInv, IInv
  <2>2. MasterInv'
    <3>1. nameOwner \in Proc \ {p}
      BY <1>2 DEF Mastered, IInv, TypeOK, Service
    <3>. QED  BY <1>1, <1>5, <3>1 DEF MasterInv, Mastered, GlobalInv, IInv
  <2>. QED  BY <2>1, <2>2 DEF GlobalInv
<1>7. ASSUME NEW q \in Proc PROVE LocalInv(q)'
  <2>1. AskInv(q)'
    BY <1>1 DEF AskInv, LocalInv, IInv
  <2>2. CASE q # p
    BY <1>1, <1>4, <1>5, <2>1, <2>2
       DEF GoneInv, BlockedInv, CallsInv, HasValidObjects, LocalInv, IInv
  <2>3. CASE q = p
    <3>1. GoneInv(p)' /\ BlockedInv(p)'
      BY <1>1, <1>2 DEF GoneInv, BlockedInv
    <3>2. CallsInv(p)'
      BY <1>1, <1>4 DEF CallsInv, LocalInv, IInv
    <3>. QED  BY <2>1, <2>3, <3>1, <3>2 DEF LocalInv
  <2>. QED  BY <2>2, <2>3
<1>8. QueueInv(p)'
  BY <1>1, <1>3, <1>4, NumberedTail DEF QueueInv, DataInv
<1>9. HasValidObjects(p)' => HasValidObjects(p)
  BY <1>5 DEF HasValidObjects, Accepts
<1>10. ReplicaInv(p)'
  <2>. SUFFICES ASSUME HasValidObjects(p)', p \notin missed
                PROVE  Lags(objects[p], registryVersion[p], signals[p], objectMap, version)'
    BY <1>1 DEF ReplicaInv
  <2>1. HasValidObjects(p)
    BY <1>9
  <2>2. PICK lag \in 0 .. Len(signals[p]) :
          Behind(objects[p], registryVersion[p], lag, signals[p], objectMap, version)
    BY <1>2, <1>3, <2>1 DEF DataInv, ReplicaInv, Lags
  <2>3. Numbered(signals[p], version)
    BY <1>3 DEF DataInv, QueueInv
  <2>4. Accepts(p, signal.version) <=> lag = Len(signals[p])
    BY <1>1, <1>3, <2>1, <2>2, <2>3, AcceptsHead DEF Accepts
  <2>5. CASE lag = Len(signals[p])
    <3>1. Lags(Applied(objects[p], signal), signal.version, Tail(signals[p]), objectMap, version)
      BY <1>1, <1>3, <2>2, <2>3, <2>5, BehindHead
    <3>2. /\ objects'[p] = Applied(objects[p], signal) /\ registryVersion'[p] = signal.version
          /\ objectMap' = objectMap /\ version' = version
      BY <1>1, <1>5, <2>4, <2>5
    <3>. QED  BY <1>4, <3>1, <3>2
  <2>6. CASE lag # Len(signals[p])
    <3>1. Behind(objects[p], registryVersion[p], lag, Tail(signals[p]), objectMap, version)
      BY <1>1, <1>3, <2>2, <2>6, BehindTail
    <3>2. Lags(objects[p], registryVersion[p], Tail(signals[p]), objectMap, version)
      BY <3>1 DEF Behind, Lags
    <3>3. /\ objects'[p] = objects[p] /\ registryVersion'[p] = registryVersion[p]
          /\ objectMap' = objectMap /\ version' = version
      BY <1>1, <1>5, <2>4, <2>6
    <3>. QED  BY <1>4, <3>2, <3>3
  <2>. QED  BY <2>5, <2>6
<1>11. AsyncInv(p)'
  <2>. SUFFICES ASSUME asyncReply[p] # <<>>
                PROVE  AsyncInv(p)'
    BY <1>4 DEF AsyncInv
  <2>. DEFINE reply == asyncReply[p][1]
              lag == Len(signals[p]) - reply.behind
  <2>1. Len(asyncReply[p]) = 1
    BY <1>3 DEF DataInv, AsyncInv
  <2>2. /\ asyncReply[p] \in Seq(QueuedSnapshot) /\ reply \in QueuedSnapshot
        /\ Head(asyncReply[p]) = reply
    BY <2>1, ElementOfSeq DEF IInv, TypeOK
  <2>3. /\ reply.behind \in Nat \ {0} /\ reply.objects \in Content
        /\ Len(signals[p]) \in Nat /\ Len(Tail(signals[p])) = Len(signals[p]) - 1
    BY <1>1, <1>3, <2>2, LenProperties, HeadTailProperties DEF QueuedSnapshot
  <2>4. /\ Len(asyncReply'[p]) = 1
        /\ asyncReply'[p][1] = [reply EXCEPT !.behind = @ - 1]
    BY <1>1, <2>1, <2>2 DEF IInv, TypeOK
  <2>5. /\ asyncReply'[p][1].objects = reply.objects
        /\ asyncReply'[p][1].version = reply.version
        /\ asyncReply'[p][1].behind = reply.behind - 1
    BY <2>2, <2>4 DEF QueuedSnapshot
  <2>6. Len(signals'[p]) - asyncReply'[p][1].behind = lag
    BY <1>4, <2>3, <2>5
  <2>7. ASSUME p \notin missed, ~HasValidObjects(p)
        PROVE  Behind(reply.objects, reply.version, lag, Tail(signals[p]), objectMap, version)
    <3>1. Behind(reply.objects, reply.version, lag, signals[p], objectMap, version)
      BY <1>3, <2>7 DEF DataInv, AsyncInv, Synchronised
    <3>. QED  BY <1>1, <1>3, <2>3, <3>1, BehindTail
  <2>8. HasValidObjects(p) => HasValidObjects(p)'
    <3>1. signal.version # INVALID_REGISTRY_VERSION
      <4>1. signals[p] \in Seq(Signal) /\ signals[p] # <<>>
        BY <1>1, <1>3
      <4>2. signal \in Signal
        BY <4>1, HeadTailProperties
      <4>3. signal.version \in Version
        BY <4>2 DEF Signal
      <4>. QED  BY <4>3, ConstantsAssumption
                DEF Version, INITIAL_REGISTRY_VERSION, INVALID_REGISTRY_VERSION
    <3>. QED  BY <1>5, <3>1 DEF HasValidObjects
  <2>. QED  BY <1>1, <1>4, <2>4, <2>5, <2>6, <2>7, <2>8 DEF AsyncInv
<1>12. SyncInv(p)'
  BY <1>1, <1>3 DEF SyncInv
<1>13. ASSUME NEW q \in Proc PROVE DataInv(q)'
  <2>1. CASE q # p
    BY <1>1, <1>4, <1>5, <2>1, DataFrame DEF IInv
  <2>. QED  BY <1>8, <1>10, <1>11, <1>12, <2>1 DEF DataInv
<1>. QED  BY <1>6, <1>7, <1>13

LEMMA CrashStep ==
  ASSUME IInv, NEW p \in Proc, Crash(p)
  PROVE  GlobalInv' /\ \A q \in Proc : LocalInv(q)' /\ DataInv(q)'
<1>1. /\ phase[p] = "replica" /\ p # nameOwner /\ nameOwner # NoProc
      /\ UNCHANGED <<nameOwner, objectMap, version, signalsConnected, requests>>
      /\ refused' = refused \ {p} /\ missed' = missed \ {p}
  BY DEF Crash, masterVars, IInv, GlobalInv, RolesInv
<1>2. /\ phase'[p] = "dead" /\ signals'[p] = <<>> /\ asyncReply'[p] = <<>>
      /\ syncReply'[p] = <<>> /\ ~blocked'[p]
      /\ registryVersion'[p] = INVALID_REGISTRY_VERSION
  BY DEF Crash, IInv, TypeOK
<1>3. \A q \in Proc \ {p} :
        /\ phase'[q] = phase[q] /\ signals'[q] = signals[q] /\ asyncReply'[q] = asyncReply[q]
        /\ syncReply'[q] = syncReply[q] /\ blocked'[q] = blocked[q]
        /\ registryVersion'[q] = registryVersion[q] /\ objects'[q] = objects[q]
  BY DEF Crash, IInv, TypeOK
<1>4. Mastered' <=> Mastered
  BY <1>1, <1>3 DEF Mastered, IInv, TypeOK, Service
<1>5. ~HasSnapshot(p)' /\ \A q \in Proc \ {p} : HasSnapshot(q)' <=> HasSnapshot(q)
  BY <1>2, <1>3 DEF HasSnapshot, HasValidObjects, Synchronised
<1>6. GlobalInv'
  <2>1. RolesInv'
    BY <1>1, <1>2, <1>3 DEF RolesInv, GlobalInv, IInv
  <2>2. StoppedInv' /\ SilentInv'
    BY <1>1, <1>2, <1>3, <1>4, <1>5 DEF StoppedInv, SilentInv, GlobalInv, IInv
  <2>3. MasterInv'
    BY <1>1, <1>3, <1>4 DEF MasterInv, GlobalInv, IInv, Mastered, TypeOK, Service
  <2>. QED  BY <2>1, <2>2, <2>3 DEF GlobalInv
<1>7. ASSUME NEW q \in Proc PROVE LocalInv(q)'
  <2>1. GoneInv(q)' /\ BlockedInv(q)'
    BY <1>1, <1>2, <1>3 DEF GoneInv, BlockedInv, HasValidObjects, LocalInv, IInv
  <2>2. AskInv(q)' /\ CallsInv(q)'
    BY <1>1, <1>2, <1>3 DEF AskInv, CallsInv, LocalInv, IInv
  <2>. QED  BY <2>1, <2>2 DEF LocalInv
<1>8. ASSUME NEW q \in Proc PROVE DataInv(q)'
  <2>1. CASE q # p
    BY <1>1, <1>3, <2>1, DataFrame DEF IInv
  <2>2. CASE q = p
    BY <1>2, <2>2, ConstantsAssumption, EmptySeq
       DEF DataInv, QueueInv, Numbered, ReplicaInv, AsyncInv, SyncInv
  <2>. QED  BY <2>1, <2>2
<1>. QED  BY <1>6, <1>7, <1>8

-----------------------------------------------------------------------------
(***************************************************************************)
(* The invariant is inductive, and what follows from it.                   *)
(***************************************************************************)
LEMMA IInvStep ==
  ASSUME IInv, [Next]_vars
  PROVE  IInv'
<1>1. TypeOK'
  BY TypeStep DEF IInv, GlobalInv
<1>2. ASSUME NEW p \in Proc, StartStep(p) \/ MasterInit(p)
      PROVE  GlobalInv' /\ \A q \in Proc : LocalInv(q)' /\ DataInv(q)'
  BY <1>1, <1>2, InitAsMasterStep, InitAsReplicaStep, MasterInitStep DEF StartStep
<1>3. ASSUME NEW p \in Proc, ServiceStep(p) \/ SyncObjects(p) \/ SyncCallTimesOut(p)
      PROVE  GlobalInv' /\ \A q \in Proc : LocalInv(q)' /\ DataInv(q)'
  BY <1>1, <1>3, ServiceStepInv, SyncObjectsStep, SyncCallTimesOutStep DEF ServiceStep
<1>4. ASSUME NEW p \in Proc, HandleStep(p)
      PROVE  GlobalInv' /\ \A q \in Proc : LocalInv(q)' /\ DataInv(q)'
  BY <1>1, <1>4, HandleChangeStep, HandleGetAllPropertiesStep, HandleGetObjectsStep,
     RefuseRequestStep DEF HandleStep
<1>5. ASSUME NEW p \in Proc, DeliverStep(p) \/ Crash(p)
      PROVE  GlobalInv' /\ \A q \in Proc : LocalInv(q)' /\ DataInv(q)'
  BY <1>5, DeliverSignalStep, OnGetObjectsReplyStep, SyncPropertiesReturnStep,
     SyncObjectsReturnStep, CrashStep
     DEF DeliverStep, OnObjectAdded, OnObjectRemoved
<1>6. ASSUME NEW p \in Proc, MasterCalls(p) \/ CallEnds(p)
      PROVE  GlobalInv' /\ \A q \in Proc : LocalInv(q)' /\ DataInv(q)'
  BY <1>6, MasterCallStep
<1>7. ASSUME UNCHANGED vars
      PROVE  GlobalInv' /\ \A q \in Proc : LocalInv(q)' /\ DataInv(q)'
  <2>1. UNCHANGED <<nameOwner, objectMap, version, signalsConnected, phase, requests, signals,
                    asyncReply, blocked, syncReply, objects, registryVersion, refused, missed>>
    BY <1>7 DEF vars, masterVars, callVars, replicaVars, historyVars
  <2>2. GlobalInv'
    BY <2>1, GlobalFrame DEF HasSnapshot, HasValidObjects, Synchronised
  <2>3. ASSUME NEW q \in Proc PROVE LocalInv(q)' /\ DataInv(q)'
    BY <2>1, LocalFrame, DataFrame DEF IInv
  <2>. QED  BY <2>2, <2>3
<1>8. GlobalInv' /\ \A q \in Proc : LocalInv(q)' /\ DataInv(q)'
  BY <1>2, <1>3, <1>4, <1>5, <1>6, <1>7 DEF Next
<1>. QED  BY <1>1, <1>8 DEF IInv

\* The inductive invariant holds in every reachable state: whatever the bus,
\* the master and the replicas of DBusObjectRegistry do, in any order.
THEOREM Invariance == Spec => []IInv
BY IInvInit, IInvStep, PTL DEF Spec

\* Type correctness of the registry: in particular no version ever leaves
\* 1 .. MaxVersion - 1, whatever NextVersion wraps around, and a master only
\* ever answers getObjects() with a proper version.
THEOREM TypeCorrect == Spec => []TypeOK
<1>1. IInv => TypeOK
  BY DEF IInv
<1>. QED  BY <1>1, Invariance, PTL

\* Any number of processes, paths and versions: a replica that has a snapshot
\* and has handled every signal sent to it is the master's map, unless the map
\* changed unheard after its call for the snapshot was answered and the one
\* that makes the adapter forward signals was refused (missed).
THEOREM ReplicasAgree == Spec => []Agreement
<1>1. ASSUME IInv PROVE Agreement
  <2>. SUFFICES ASSUME NEW p \in Proc \ missed, HasValidObjects(p), signals[p] = <<>>
                PROVE  objects[p] = objectMap /\ registryVersion[p] = version
    BY DEF Agreement
  <2>1. Mastered
    BY <1>1 DEF IInv, GlobalInv, StoppedInv, HasSnapshot
  <2>2. CASE phase[p] = "replica"
    <3>1. Lags(objects[p], registryVersion[p], signals[p], objectMap, version)
      BY <1>1, <2>2 DEF IInv, DataInv, ReplicaInv
    <3>2. /\ objects[p] \in Content /\ objectMap \in Content /\ version \in Version
          /\ signals[p] \in Seq(Signal)
      BY <1>1, <2>1 DEF IInv, GlobalInv, MasterInv, TypeOK
    <3>. QED  BY <3>1, <3>2, BehindNothing
  <2>3. CASE phase[p] # "replica"
    <3>1. p = nameOwner
      BY <1>1, <2>3 DEF IInv, LocalInv, GoneInv
    <3>. QED  BY <1>1, <2>1, <3>1 DEF IInv, GlobalInv, MasterInv
  <2>. QED  BY <2>2, <2>3
<1>. QED  BY <1>1, Invariance, PTL

\* The critical-log branches of onObjectAdded and onObjectRemoved are dead
\* code: a signal that passes the version test always changes its path (but
\* in a process that missed changes, when the versions have come round).
THEOREM SignalsApply == Spec => []AcceptedSignalsApply
<1>1. ASSUME IInv PROVE AcceptedSignalsApply
  <2>. SUFFICES ASSUME NEW p \in Proc \ missed, signals[p] # <<>>,
                       Accepts(p, Head(signals[p]).version)
                PROVE  (objects[p][Head(signals[p]).path] = NoProc)
                         <=> (Head(signals[p]).member = "objectAdded")
    BY DEF AcceptedSignalsApply
  <2>1. phase[p] = "replica" /\ HasValidObjects(p) /\ Mastered
    BY <1>1, ReceiverIsReplica DEF Accepts, IInv, GlobalInv, StoppedInv, HasSnapshot
  <2>2. /\ objects[p] \in Content /\ objectMap \in Content /\ version \in Version
        /\ signals[p] \in Seq(Signal) /\ Numbered(signals[p], version)
    BY <1>1, <2>1 DEF IInv, GlobalInv, MasterInv, TypeOK, DataInv, QueueInv
  <2>3. PICK lag \in 0 .. Len(signals[p]) :
          Behind(objects[p], registryVersion[p], lag, signals[p], objectMap, version)
    BY <1>1, <2>1 DEF IInv, DataInv, ReplicaInv, Lags
  <2>4. lag = Len(signals[p])
    BY <2>2, <2>3, AcceptsHead DEF Accepts
  <2>5. Changes(objects[p], Head(signals[p]))
    BY <2>2, <2>3, <2>4, BehindHead
  <2>. QED  BY <2>5 DEF Changes
<1>. QED  BY <1>1, Invariance, PTL

-----------------------------------------------------------------------------
(***************************************************************************)
(* The master's map and the services behind its entries.                   *)
(*                                                                         *)
(* The idea: read the calls a process has under way as what the process    *)
(* wants the master to think of a path.  Each registerObject call in the   *)
(* queue leaves the path wanted, each unregisterObject call leaves it      *)
(* unwanted, and an entry of the map stands for a path that was wanted     *)
(* before the first of them.                                               *)
(***************************************************************************)
Registering(path) == [member |-> "registerObject", path |-> path]

Withdrawing(path) == [member |-> "unregisterObject", path |-> path]

About(request, path) == request = Registering(path) \/ request = Withdrawing(path)

AboutNothing(request) == \A path : ~About(request, path)

\* After the first i calls of the queue the path is wanted: the next call
\* about it withdraws it, or there is none and it is exported ("on").
Wanted(queue, on, path, i) ==
  \/ \E j \in i + 1 .. Len(queue) :
       queue[j] = Withdrawing(path) /\ \A k \in i + 1 .. j - 1 : ~About(queue[k], path)
  \/ on /\ \A k \in i + 1 .. Len(queue) : ~About(queue[k], path)

\* Calls about a path alternate, and the last one tells what is exported.
Alternating(queue, on, path) ==
  \A i \in 1 .. Len(queue) :
    /\ queue[i] = Registering(path) => Wanted(queue, on, path, i)
    /\ queue[i] = Withdrawing(path) => ~Wanted(queue, on, path, i)

EntryInv(p) ==
  phase[p] # "dead" =>
    \A path \in Path :
      /\ Alternating(requests[p], path \in exported[p], path)
      /\ objectMap[path] = p => Wanted(requests[p], path \in exported[p], path, 0)

\* The master's process calls its own registry directly.
MasterQuiet == nameOwner # NoProc => requests[nameOwner] = <<>>

EInv == IInv /\ MasterQuiet /\ \A p \in Proc : EntryInv(p)

-----------------------------------------------------------------------------
(***************************************************************************)
(* Queues of calls.                                                        *)
(***************************************************************************)
LEMMA Distinct ==
  ASSUME NEW path, NEW other
  PROVE  /\ Registering(path) # Withdrawing(other)
         /\ Registering(path) = Registering(other) => path = other
         /\ Withdrawing(path) = Withdrawing(other) => path = other
<1>1. Registering(path).member # Withdrawing(other).member
  BY DEF Registering, Withdrawing
<1>2. Registering(path).path = path /\ Registering(other).path = other
  BY DEF Registering
<1>3. Withdrawing(path).path = path /\ Withdrawing(other).path = other
  BY DEF Withdrawing
<1>. QED  BY <1>1, <1>2, <1>3

LEMMA ProxyCallIsAboutNothing ==
  ASSUME NEW request, request.member \in {"GetAllProperties", "getObjects"}
  PROVE  AboutNothing(request)
<1>1. ASSUME NEW path PROVE request # Registering(path) /\ request # Withdrawing(path)
  <2>1. /\ Registering(path).member = "registerObject"
        /\ Withdrawing(path).member = "unregisterObject"
    BY DEF Registering, Withdrawing
  <2>. QED  BY <2>1
<1>. QED  BY <1>1 DEF About, AboutNothing

\* What one more call and the change of "exported" that goes with it do.
Follows(request, on, onThen, path) ==
  \/ ~About(request, path) /\ onThen = on
  \/ request = Registering(path) /\ ~on /\ onThen
  \/ request = Withdrawing(path) /\ on /\ ~onThen

LEMMA WantedAppend ==
  ASSUME NEW queue \in Seq(Request), NEW request \in Request, NEW path,
         NEW on \in BOOLEAN, NEW onThen \in BOOLEAN,
         Follows(request, on, onThen, path),
         NEW i \in 0 .. Len(queue)
  PROVE  Wanted(Append(queue, request), onThen, path, i) <=> Wanted(queue, on, path, i)
<1>. DEFINE longer == Append(queue, request)
            n == Len(queue)
<1>1. /\ Len(longer) = n + 1 /\ n \in Nat
      /\ longer[n + 1] = request
      /\ \A k \in 1 .. n : longer[k] = queue[k]
  BY AppendProperties, LenProperties
<1>. HIDE DEF longer
<1>2. Registering(path) # Withdrawing(path)
  BY Distinct
<1>3. CASE ~About(request, path) /\ onThen = on
  BY <1>1, <1>3 DEF Wanted, About
<1>4. CASE request = Registering(path) /\ ~on /\ onThen
  BY <1>1, <1>2, <1>4 DEF Wanted, About
<1>5. CASE request = Withdrawing(path) /\ on /\ ~onThen
  BY <1>1, <1>2, <1>5 DEF Wanted, About
<1>. QED  BY <1>3, <1>4, <1>5 DEF Follows

LEMMA AlternatingAppend ==
  ASSUME NEW queue \in Seq(Request), NEW request \in Request, NEW path,
         NEW on \in BOOLEAN, NEW onThen \in BOOLEAN,
         Follows(request, on, onThen, path),
         Alternating(queue, on, path)
  PROVE  Alternating(Append(queue, request), onThen, path)
<1>. DEFINE longer == Append(queue, request)
            n == Len(queue)
<1>1. /\ Len(longer) = n + 1 /\ n \in Nat
      /\ longer[n + 1] = request
      /\ \A k \in 1 .. n : longer[k] = queue[k]
  BY AppendProperties, LenProperties
<1>2. ASSUME NEW i \in 1 .. n
      PROVE  /\ longer[i] = Registering(path) => Wanted(longer, onThen, path, i)
             /\ longer[i] = Withdrawing(path) => ~Wanted(longer, onThen, path, i)
  <2>1. Wanted(longer, onThen, path, i) <=> Wanted(queue, on, path, i)
    BY WantedAppend
  <2>. QED  BY <1>1, <2>1 DEF Alternating
<1>. HIDE DEF longer
<1>3. Wanted(longer, onThen, path, n + 1) <=> onThen
  BY <1>1 DEF Wanted
<1>4. /\ request = Registering(path) => onThen
      /\ request = Withdrawing(path) => ~onThen
  BY Distinct DEF Follows, About
<1>5. Alternating(longer, onThen, path)
  <2>1. ASSUME NEW i \in 1 .. Len(longer) PROVE i \in 1 .. n \/ i = n + 1
    BY <1>1
  <2>. QED  BY <1>1, <1>2, <1>3, <1>4, <2>1 DEF Alternating
<1>. QED  BY <1>5 DEF longer

LEMMA WantedTail ==
  ASSUME NEW queue \in Seq(Request), queue # <<>>, NEW path, NEW on \in BOOLEAN,
         NEW i \in 0 .. Len(queue) - 1
  PROVE  Wanted(Tail(queue), on, path, i) <=> Wanted(queue, on, path, i + 1)
<1>. DEFINE rest == Tail(queue)
            n == Len(queue)
<1>1. /\ n \in Nat /\ n > 0 /\ Len(rest) = n - 1
      /\ \A k \in 1 .. n - 1 : rest[k] = queue[k + 1]
  BY HeadTailProperties, LenProperties, EmptySeq
<1>. HIDE DEF rest
<1>2. ASSUME Wanted(rest, on, path, i)
      PROVE  Wanted(queue, on, path, i + 1)
  <2>1. ASSUME NEW j \in i + 1 .. n - 1, rest[j] = Withdrawing(path),
               \A k \in i + 1 .. j - 1 : ~About(rest[k], path)
        PROVE  Wanted(queue, on, path, i + 1)
    <3>1. j + 1 \in i + 2 .. n /\ queue[j + 1] = Withdrawing(path)
      BY <1>1, <2>1
    <3>2. ASSUME NEW k \in i + 2 .. j PROVE ~About(queue[k], path)
      <4>1. k - 1 \in i + 1 .. j - 1 /\ rest[k - 1] = queue[k]
        BY <1>1
      <4>. QED  BY <2>1, <4>1
    <3>. QED  BY <3>1, <3>2 DEF Wanted
  <2>2. ASSUME on, \A k \in i + 1 .. n - 1 : ~About(rest[k], path)
        PROVE  Wanted(queue, on, path, i + 1)
    <3>1. ASSUME NEW k \in i + 2 .. n PROVE ~About(queue[k], path)
      <4>1. k - 1 \in i + 1 .. n - 1 /\ rest[k - 1] = queue[k]
        BY <1>1
      <4>. QED  BY <2>2, <4>1
    <3>. QED  BY <2>2, <3>1 DEF Wanted
  <2>. QED  BY <1>1, <1>2, <2>1, <2>2 DEF Wanted
<1>3. ASSUME Wanted(queue, on, path, i + 1)
      PROVE  Wanted(rest, on, path, i)
  <2>1. ASSUME NEW j \in i + 2 .. n, queue[j] = Withdrawing(path),
               \A k \in i + 2 .. j - 1 : ~About(queue[k], path)
        PROVE  Wanted(rest, on, path, i)
    <3>1. j - 1 \in i + 1 .. n - 1 /\ rest[j - 1] = Withdrawing(path)
      BY <1>1, <2>1
    <3>2. ASSUME NEW k \in i + 1 .. j - 2 PROVE ~About(rest[k], path)
      <4>1. k + 1 \in i + 2 .. j - 1 /\ rest[k] = queue[k + 1]
        BY <1>1
      <4>. QED  BY <2>1, <4>1
    <3>. QED  BY <1>1, <3>1, <3>2 DEF Wanted
  <2>2. ASSUME on, \A k \in i + 2 .. n : ~About(queue[k], path)
        PROVE  Wanted(rest, on, path, i)
    <3>1. ASSUME NEW k \in i + 1 .. n - 1 PROVE ~About(rest[k], path)
      <4>1. k + 1 \in i + 2 .. n /\ rest[k] = queue[k + 1]
        BY <1>1
      <4>. QED  BY <2>2, <4>1
    <3>. QED  BY <1>1, <2>2, <3>1 DEF Wanted
  <2>. QED  BY <1>1, <1>3, <2>1, <2>2 DEF Wanted
<1>4. Wanted(rest, on, path, i) <=> Wanted(queue, on, path, i + 1)
  BY <1>2, <1>3
<1>. QED  BY <1>4 DEF rest

LEMMA AlternatingTail ==
  ASSUME NEW queue \in Seq(Request), queue # <<>>, NEW path, NEW on \in BOOLEAN,
         Alternating(queue, on, path)
  PROVE  Alternating(Tail(queue), on, path)
<1>1. /\ Len(queue) \in Nat /\ Len(Tail(queue)) = Len(queue) - 1
      /\ \A k \in 1 .. Len(queue) - 1 : Tail(queue)[k] = queue[k + 1]
  BY HeadTailProperties, LenProperties, EmptySeq
<1>2. ASSUME NEW i \in 1 .. Len(Tail(queue))
      PROVE  /\ Tail(queue)[i] = Registering(path) => Wanted(Tail(queue), on, path, i)
             /\ Tail(queue)[i] = Withdrawing(path) => ~Wanted(Tail(queue), on, path, i)
  <2>1. i \in 0 .. Len(queue) - 1 /\ i + 1 \in 1 .. Len(queue) /\ Tail(queue)[i] = queue[i + 1]
    BY <1>1
  <2>2. Wanted(Tail(queue), on, path, i) <=> Wanted(queue, on, path, i + 1)
    BY <2>1, WantedTail
  <2>. QED  BY <2>1, <2>2 DEF Alternating
<1>. QED  BY <1>2 DEF Alternating

\* What the head of a queue says of a path.
LEMMA WantedHead ==
  ASSUME NEW queue \in Seq(Request), queue # <<>>, NEW path, NEW on \in BOOLEAN
  PROVE  /\ Head(queue) = Registering(path) => ~Wanted(queue, on, path, 0)
         /\ ~About(Head(queue), path) =>
              (Wanted(queue, on, path, 0) <=> Wanted(queue, on, path, 1))
<1>1. Head(queue) = queue[1] /\ Len(queue) \in Nat /\ Len(queue) > 0
  BY HeadTailProperties, LenProperties, EmptySeq
<1>2. Registering(path) # Withdrawing(path)
  BY Distinct
<1>3. ASSUME queue[1] = Registering(path) PROVE ~Wanted(queue, on, path, 0)
  BY <1>1, <1>2, <1>3 DEF Wanted, About
<1>4. ASSUME ~About(queue[1], path)
      PROVE  Wanted(queue, on, path, 0) <=> Wanted(queue, on, path, 1)
  BY <1>1, <1>4 DEF Wanted, About
<1>. QED  BY <1>1, <1>3, <1>4

-----------------------------------------------------------------------------
(***************************************************************************)
(* The three things a step can do to a process's queue.                    *)
(***************************************************************************)
LEMMA EntrySame ==
  ASSUME NEW p \in Proc, EntryInv(p),
         requests'[p] = requests[p], exported'[p] = exported[p],
         phase[p] = "dead" => phase'[p] = "dead",
         \A path \in Path : objectMap'[path] = p => objectMap[path] = p
  PROVE  EntryInv(p)'
BY DEF EntryInv

LEMMA EntryAppend ==
  ASSUME TypeOK, NEW p \in Proc, EntryInv(p), phase[p] # "dead",
         NEW request \in Request, requests'[p] = Append(requests[p], request),
         \A path \in Path :
           Follows(request, path \in exported[p], path \in exported'[p], path),
         \A path \in Path : objectMap'[path] = p => objectMap[path] = p
  PROVE  EntryInv(p)'
<1>. SUFFICES ASSUME NEW path \in Path
              PROVE  /\ Alternating(requests'[p], path \in exported'[p], path)
                     /\ objectMap'[path] = p =>
                          Wanted(requests'[p], path \in exported'[p], path, 0)
  BY DEF EntryInv
<1>. DEFINE queue == requests[p]
            on == path \in exported[p]
            onThen == path \in exported'[p]
<1>1. /\ queue \in Seq(Request) /\ 0 \in 0 .. Len(queue)
      /\ on \in BOOLEAN /\ onThen \in BOOLEAN
  BY LenProperties DEF TypeOK
<1>2. Follows(request, on, onThen, path)
  OBVIOUS
<1>3. /\ Alternating(queue, on, path)
      /\ objectMap[path] = p => Wanted(queue, on, path, 0)
  BY DEF EntryInv
<1>. HIDE DEF queue, on, onThen
<1>4. Alternating(Append(queue, request), onThen, path)
  BY <1>1, <1>2, <1>3, AlternatingAppend
<1>5. Wanted(Append(queue, request), onThen, path, 0) <=> Wanted(queue, on, path, 0)
  BY <1>1, <1>2, WantedAppend
<1>. QED  BY <1>3, <1>4, <1>5 DEF queue, onThen

LEMMA EntryTail ==
  ASSUME TypeOK, NEW p \in Proc, EntryInv(p), requests[p] # <<>>,
         requests'[p] = Tail(requests[p]), exported'[p] = exported[p],
         phase[p] = "dead" => phase'[p] = "dead",
         \A path \in Path : objectMap'[path] = p =>
           \/ objectMap[path] = p /\ Head(requests[p]) # Withdrawing(path)
           \/ Head(requests[p]) = Registering(path)
  PROVE  EntryInv(p)'
<1>. SUFFICES ASSUME phase[p] # "dead", NEW path \in Path
              PROVE  /\ Alternating(requests'[p], path \in exported'[p], path)
                     /\ objectMap'[path] = p =>
                          Wanted(requests'[p], path \in exported'[p], path, 0)
  BY DEF EntryInv
<1>. DEFINE queue == requests[p]
            on == path \in exported[p]
<1>1. queue \in Seq(Request) /\ queue # <<>> /\ on \in BOOLEAN
  BY DEF TypeOK
<1>2. Len(queue) \in Nat /\ Len(queue) > 0 /\ Head(queue) = queue[1]
  BY <1>1, HeadTailProperties, LenProperties, EmptySeq
<1>3. /\ Alternating(queue, on, path)
      /\ objectMap[path] = p => Wanted(queue, on, path, 0)
  BY DEF EntryInv
<1>. HIDE DEF queue, on
<1>4. Alternating(Tail(queue), on, path)
  BY <1>1, <1>3, AlternatingTail
<1>5. Wanted(Tail(queue), on, path, 0) <=> Wanted(queue, on, path, 1)
  <2>1. 0 \in 0 .. Len(queue) - 1
    BY <1>2
  <2>. QED  BY <1>1, <2>1, WantedTail
<1>6. CASE Head(queue) = Registering(path)
  <2>1. Wanted(queue, on, path, 1)
    BY <1>2, <1>3, <1>6 DEF Alternating
  <2>. QED  BY <1>4, <1>5, <2>1 DEF queue, on
<1>7. CASE Head(queue) # Registering(path)
  <2>1. ASSUME objectMap'[path] = p PROVE Wanted(queue, on, path, 1)
    <3>1. objectMap[path] = p /\ Head(queue) # Withdrawing(path)
      BY <1>7, <2>1 DEF queue
    <3>. QED  BY <1>1, <1>3, <1>7, <3>1, WantedHead DEF About
  <2>. QED  BY <1>4, <1>5, <2>1 DEF queue, on
<1>. QED  BY <1>6, <1>7

\* A call that changes the map changes the caller's entry only.
LEMMA MapChange ==
  ASSUME TypeOK, NEW caller \in Proc, NEW path \in Path
  PROVE  /\ MasterRegisterObject(caller, path) =>
              \A q \in Proc, other \in Path :
                objectMap'[other] = q =>
                  objectMap[other] = q \/ (q = caller /\ other = path)
         /\ MasterUnregisterObject(caller, path) =>
              \A q \in Proc, other \in Path :
                objectMap'[other] = q =>
                  objectMap[other] = q /\ (q = caller => other # path)
<1>1. ASSUME MasterRegisterObject(caller, path),
             NEW q \in Proc, NEW other \in Path, objectMap'[other] = q
      PROVE  objectMap[other] = q \/ (q = caller /\ other = path)
  BY <1>1 DEF MasterRegisterObject, Publish, masterVars, TypeOK, Content
<1>2. ASSUME MasterUnregisterObject(caller, path),
             NEW q \in Proc, NEW other \in Path, objectMap'[other] = q
      PROVE  objectMap[other] = q /\ (q = caller => other # path)
  BY <1>2, ConstantsAssumption
     DEF MasterUnregisterObject, Publish, masterVars, TypeOK, Content
<1>. QED  BY <1>1, <1>2

-----------------------------------------------------------------------------
(***************************************************************************)
(* The invariant is inductive.                                             *)
(***************************************************************************)
\* A step of p that leaves the other processes alone and adds no entry of
\* theirs keeps their part of the invariant.
LEMMA OtherEntries ==
  ASSUME EInv, NEW p \in Proc,
         \A q \in Proc \ {p} :
           requests'[q] = requests[q] /\ exported'[q] = exported[q] /\ phase'[q] = phase[q],
         \A q \in Proc \ {p}, path \in Path : objectMap'[path] = q => objectMap[path] = q,
         nameOwner' = nameOwner,
         p = nameOwner => requests'[p] = requests[p],
         EntryInv(p)'
  PROVE  MasterQuiet' /\ \A q \in Proc : EntryInv(q)'
<1>1. nameOwner \in Service
  BY DEF EInv, IInv, TypeOK
<1>2. MasterQuiet'
  BY <1>1 DEF EInv, MasterQuiet, Service
<1>3. ASSUME NEW q \in Proc \ {p} PROVE EntryInv(q)'
  BY EntrySame DEF EInv
<1>. QED  BY <1>2, <1>3

LEMMA StartEntries ==
  ASSUME EInv, NEW p \in Proc, StartStep(p) \/ MasterInit(p)
  PROVE  MasterQuiet' /\ \A q \in Proc : EntryInv(q)'
<1>1. TypeOK /\ RolesInv /\ GoneInv(p) /\ EntryInv(p)
  BY DEF EInv, IInv, GlobalInv, LocalInv
<1>2. CASE InitAsMaster(p)
  <2>1. /\ nameOwner' = p /\ requests' = requests /\ exported' = exported
        /\ objectMap' = objectMap /\ phase[p] = "idle" /\ phase' = [phase EXCEPT ![p] = "naming"]
    BY <1>2 DEF InitAsMaster
  <2>2. requests[p] = <<>>
    BY <1>1, <2>1 DEF GoneInv
  <2>3. ASSUME NEW q \in Proc PROVE EntryInv(q)'
    BY <1>1, <2>1, EntrySame DEF EInv, TypeOK
  <2>. QED  BY <2>1, <2>2, <2>3 DEF MasterQuiet
<1>3. CASE MasterInit(p)
  <2>1. /\ nameOwner' = nameOwner /\ requests' = requests /\ exported' = exported
        /\ objectMap' = objectMap /\ phase[p] = "naming" /\ phase' = [phase EXCEPT ![p] = "master"]
    BY <1>3 DEF MasterInit
  <2>2. ASSUME NEW q \in Proc PROVE EntryInv(q)'
    BY <1>1, <2>1, EntrySame DEF EInv, TypeOK
  <2>. QED  BY <2>1, <2>2 DEF MasterQuiet, EInv
<1>4. CASE InitAsReplica(p)
  <2>. DEFINE calls == <<[member |-> "GetAllProperties", caller |-> "async"],
                         [member |-> "getObjects", caller |-> "async"]>>
  <2>1. /\ nameOwner' = nameOwner /\ exported' = exported /\ objectMap' = objectMap
        /\ phase[p] = "idle" /\ phase' = [phase EXCEPT ![p] = "replica"]
        /\ requests' = [requests EXCEPT ![p] = @ \o calls]
    BY <1>4 DEF InitAsReplica, masterVars
  <2>2. requests[p] = <<>> /\ p # nameOwner
    BY <1>1, <2>1 DEF RolesInv, GoneInv
  <2>3. requests'[p] = calls
    BY <1>1, <2>1, <2>2 DEF TypeOK
  <2>4. Len(calls) = 2 /\ AboutNothing(calls[1]) /\ AboutNothing(calls[2])
    BY ProxyCallIsAboutNothing
  <2>. HIDE DEF calls
  <2>5. ASSUME NEW path \in Path
        PROVE  /\ Alternating(calls, path \in exported[p], path)
               /\ objectMap[path] = p => Wanted(calls, path \in exported[p], path, 0)
    <3>1. \A i \in 1 .. Len(calls) : ~About(calls[i], path)
      BY <2>4 DEF AboutNothing
    <3>2. objectMap[path] = p => path \in exported[p]
      BY <1>1, <2>1, <2>2 DEF EntryInv, Wanted
    <3>. QED  BY <3>1, <3>2 DEF Alternating, Wanted, About
  <2>6. EntryInv(p)'
    BY <2>1, <2>3, <2>5 DEF EntryInv
  <2>. QED  BY <1>1, <2>1, <2>2, <2>6, OtherEntries DEF TypeOK
<1>. QED  BY <1>2, <1>3, <1>4 DEF StartStep

\* The two calls of a service adapter.
LEMMA ServiceEntries ==
  ASSUME EInv, NEW p \in Proc, NEW path \in Path,
         RegisterService(p, path) \/ UnregisterService(p, path)
  PROVE  MasterQuiet' /\ \A q \in Proc : EntryInv(q)'
<1>1. TypeOK /\ RolesInv /\ MasterQuiet /\ EntryInv(p)
  BY DEF EInv, IInv, GlobalInv
<1>2. /\ phase' = phase /\ phase[p] # "dead"
      /\ p = nameOwner <=> phase[p] = "master"
  BY <1>1 DEF RegisterService, UnregisterService, Running, RolesInv
<1>3. \/ /\ path \notin exported[p] /\ exported' = [exported EXCEPT ![p] = @ \union {path}]
         /\ phase[p] = "master" => MasterRegisterObject(p, path) /\ requests' = requests
         /\ phase[p] = "replica" => Call(p, Registering(path))
      \/ /\ path \in exported[p] /\ exported' = [exported EXCEPT ![p] = @ \ {path}]
         /\ phase[p] = "master" => MasterUnregisterObject(p, path) /\ requests' = requests
         /\ phase[p] = "replica" => Call(p, Withdrawing(path))
  BY DEF RegisterService, UnregisterService, Registering, Withdrawing
<1>4. /\ \A q \in Proc \ {p} : exported'[q] = exported[q]
      /\ \A other \in Path \ {path} : other \in exported'[p] <=> other \in exported[p]
  BY <1>1, <1>3 DEF TypeOK
<1>5. CASE phase[p] = "master"
  <2>1. requests' = requests /\ requests[p] = <<>> /\ nameOwner' = nameOwner
    <3>1. nameOwner' = nameOwner
      BY <1>1, <1>3, <1>5, MasterChangeType DEF MasterChange
    <3>. QED  BY <1>1, <1>2, <1>3, <1>5, <3>1, ConstantsAssumption DEF MasterQuiet
  <2>2. \A q \in Proc \ {p}, other \in Path : objectMap'[other] = q => objectMap[other] = q
    BY <1>1, <1>3, <1>5, MapChange
  <2>3. EntryInv(p)'
    <3>. SUFFICES ASSUME NEW other \in Path
                  PROVE  /\ Alternating(<<>>, other \in exported'[p], other)
                         /\ objectMap'[other] = p => other \in exported'[p]
      BY <2>1 DEF EntryInv, Wanted
    <3>1. objectMap[other] = p => other \in exported[p]
      BY <1>1, <1>2, <2>1 DEF EntryInv, Wanted
    <3>2. objectMap'[other] = p => other \in exported'[p]
      BY <1>1, <1>3, <1>4, <1>5, <3>1, MapChange DEF TypeOK
    <3>. QED  BY <3>2 DEF Alternating
  <2>. QED  BY <1>2, <1>4, <2>1, <2>2, <2>3, OtherEntries
<1>6. CASE phase[p] = "replica"
  <2>1. PICK request \in {Registering(path), Withdrawing(path)} :
          /\ Call(p, request)
          /\ Follows(request, path \in exported[p], path \in exported'[p], path)
    BY <1>1, <1>3, <1>6 DEF Follows, TypeOK
  <2>2. /\ request \in Request
        /\ \A other \in Path \ {path} : ~About(request, other)
    BY <2>1, Distinct DEF About, Request, Registering, Withdrawing
  <2>3. /\ requests' = [requests EXCEPT ![p] = Append(@, request)]
        /\ nameOwner' = nameOwner /\ objectMap' = objectMap
    BY <2>1 DEF Call, masterVars
  <2>4. \A other \in Path : Follows(request, other \in exported[p], other \in exported'[p], other)
    BY <1>4, <2>1, <2>2 DEF Follows
  <2>5. /\ requests'[p] = Append(requests[p], request)
        /\ \A q \in Proc \ {p} : requests'[q] = requests[q]
    BY <1>1, <2>3 DEF TypeOK
  <2>6. EntryInv(p)'
    BY <1>1, <1>2, <2>2, <2>3, <2>4, <2>5, EntryAppend
  <2>. QED  BY <1>2, <1>4, <1>6, <2>3, <2>5, <2>6, OtherEntries
<1>. QED  BY <1>5, <1>6 DEF RegisterService, UnregisterService, Running

\* The blocking calls of a process.
LEMMA WaitsEntries ==
  ASSUME EInv, NEW p \in Proc, SyncObjects(p) \/ SyncPropertiesReturn(p)
  PROVE  MasterQuiet' /\ \A q \in Proc : EntryInv(q)'
<1>1. TypeOK /\ RolesInv /\ EntryInv(p) /\ GoneInv(p)
  BY DEF EInv, IInv, GlobalInv, LocalInv
<1>2. /\ nameOwner' = nameOwner /\ exported' = exported /\ objectMap' = objectMap
      /\ phase[p] = "replica" /\ phase' = phase
  BY <1>1 DEF SyncObjects, SyncPropertiesReturn, masterVars, GoneInv
<1>3. PICK member \in {"GetAllProperties", "getObjects"} : Waits(p, member)
  BY DEF SyncObjects, SyncPropertiesReturn
<1>. DEFINE request == [member |-> member, caller |-> "waiting"]
<1>4. /\ request \in Request /\ AboutNothing(request)
      /\ requests' = [requests EXCEPT ![p] = Append(@, request)]
  BY <1>3, ProxyCallIsAboutNothing DEF Request, ProxyCall, Waits
<1>. HIDE DEF request
<1>5. requests'[p] = Append(requests[p], request) /\ p # nameOwner
  BY <1>1, <1>2, <1>4 DEF TypeOK, RolesInv
<1>6. EntryInv(p)'
  BY <1>1, <1>2, <1>4, <1>5, EntryAppend DEF Follows, AboutNothing
<1>. QED  BY <1>1, <1>2, <1>4, <1>5, <1>6, OtherEntries DEF TypeOK

\* A caller that gives up changes nothing in what its calls say of a path.
LEMMA GivesUpEntries ==
  ASSUME EInv, NEW p \in Proc, SyncCallTimesOut(p)
  PROVE  MasterQuiet' /\ \A q \in Proc : EntryInv(q)'
<1>. DEFINE last == Len(requests[p])
<1>1. TypeOK /\ MasterQuiet /\ EntryInv(p)
  BY DEF EInv, IInv, GlobalInv
<1>2. PICK member \in {"GetAllProperties", "getObjects"} :
        /\ requests[p][last] = [member |-> member, caller |-> "waiting"]
        /\ requests' = [requests EXCEPT
             ![p][last] = [member |-> member, caller |-> "gaveUp"]]
  BY DEF SyncCallTimesOut
<1>3. /\ nameOwner' = nameOwner /\ exported' = exported /\ objectMap' = objectMap
      /\ phase' = phase /\ requests[p] # <<>>
  BY DEF SyncCallTimesOut, masterVars
<1>4. last \in Nat \ {0} /\ requests[p] \in Seq(Request) /\ p # nameOwner
  BY <1>1, <1>3, LenProperties, EmptySeq, ConstantsAssumption DEF TypeOK, MasterQuiet
<1>5. /\ Len(requests'[p]) = last
      /\ requests'[p][last] = [member |-> member, caller |-> "gaveUp"]
      /\ \A i \in 1 .. last : i # last => requests'[p][i] = requests[p][i]
      /\ \A q \in Proc \ {p} : requests'[q] = requests[q]
  BY <1>1, <1>2, <1>4 DEF TypeOK
<1>6. AboutNothing(requests[p][last]) /\ AboutNothing(requests'[p][last])
  BY <1>2, <1>5, ProxyCallIsAboutNothing
<1>. HIDE DEF last
<1>7. ASSUME NEW i \in 1 .. last, NEW path
      PROVE  /\ requests'[p][i] = Registering(path) <=> requests[p][i] = Registering(path)
             /\ requests'[p][i] = Withdrawing(path) <=> requests[p][i] = Withdrawing(path)
  BY <1>5, <1>6 DEF AboutNothing, About
<1>8. EntryInv(p)'
  <2>. SUFFICES ASSUME phase[p] # "dead", NEW path \in Path
                PROVE  /\ Alternating(requests'[p], path \in exported[p], path)
                       /\ objectMap[path] = p =>
                            Wanted(requests'[p], path \in exported[p], path, 0)
    BY <1>3 DEF EntryInv
  <2>. DEFINE on == path \in exported[p]
              queue == requests[p]
              queueThen == requests'[p]
  <2>1. /\ Len(queueThen) = last /\ Len(queue) = last /\ last \in Nat
        /\ \A i \in 1 .. last :
             /\ queueThen[i] = Registering(path) <=> queue[i] = Registering(path)
             /\ queueThen[i] = Withdrawing(path) <=> queue[i] = Withdrawing(path)
    BY <1>4, <1>5, <1>7 DEF last
  <2>2. /\ Alternating(queue, on, path)
        /\ objectMap[path] = p => Wanted(queue, on, path, 0)
    BY <1>1 DEF EntryInv
  <2>. HIDE DEF on, queue, queueThen
  <2>3. ASSUME NEW i \in 0 .. last
        PROVE  Wanted(queueThen, on, path, i) <=> Wanted(queue, on, path, i)
    BY <2>1 DEF Wanted, About
  <2>4. Alternating(queueThen, on, path)
    BY <2>1, <2>2, <2>3 DEF Alternating
  <2>. QED  BY <2>1, <2>2, <2>3, <2>4 DEF on, queueThen
<1>. QED  BY <1>3, <1>4, <1>5, <1>8, OtherEntries

\* What the head of a queue is, by its member.
LEMMA HeadCall ==
  ASSUME TypeOK, NEW p \in Proc, NEW member, Receives(p, member)
  PROVE  /\ requests[p] # <<>> /\ requests'[p] = Tail(requests[p])
         /\ \A q \in Proc \ {p} : requests'[q] = requests[q]
         /\ member = "registerObject" => Head(requests[p]) = Registering(Head(requests[p]).path)
         /\ member = "unregisterObject" => Head(requests[p]) = Withdrawing(Head(requests[p]).path)
         /\ member \in {"GetAllProperties", "getObjects"} => AboutNothing(Head(requests[p]))
<1>. DEFINE head == Head(requests[p])
<1>1. head \in Request /\ head.member = member /\ requests[p] # <<>>
  BY ReceivesType
<1>2. /\ requests'[p] = Tail(requests[p])
      /\ \A q \in Proc \ {p} : requests'[q] = requests[q]
  BY DEF Receives, TypeOK
<1>. HIDE DEF head
<1>3. member = "registerObject" => head = Registering(head.path)
  BY <1>1 DEF Request, ProxyCall, Registering
<1>4. member = "unregisterObject" => head = Withdrawing(head.path)
  BY <1>1 DEF Request, ProxyCall, Withdrawing
<1>5. member \in {"GetAllProperties", "getObjects"} => AboutNothing(head)
  BY <1>1, ProxyCallIsAboutNothing
<1>. QED  BY <1>1, <1>2, <1>3, <1>4, <1>5 DEF head

LEMMA HandleEntries ==
  ASSUME EInv, NEW p \in Proc, HandleStep(p)
  PROVE  MasterQuiet' /\ \A q \in Proc : EntryInv(q)'
<1>. DEFINE head == Head(requests[p])
<1>1. TypeOK /\ MasterQuiet /\ StoppedInv /\ EntryInv(p)
  BY DEF EInv, IInv, GlobalInv
<1>2. PICK member \in {"registerObject", "unregisterObject", "GetAllProperties", "getObjects"} :
        Receives(p, member)
  BY DEF HandleStep, HandleRegisterObject, HandleUnregisterObject, HandleGetAllProperties,
         HandleGetObjects, RefuseRequest
<1>3. /\ requests[p] # <<>> /\ requests'[p] = Tail(requests[p])
      /\ \A q \in Proc \ {p} : requests'[q] = requests[q]
  BY <1>1, <1>2, HeadCall
<1>4. exported' = exported /\ phase' = phase
  BY DEF HandleStep, HandleRegisterObject, HandleUnregisterObject, HandleGetAllProperties,
         HandleGetObjects, RefuseRequest
<1>5. p # nameOwner
  BY <1>1, <1>3, ConstantsAssumption DEF MasterQuiet
<1>. HIDE DEF head
<1>6. ASSUME nameOwner' = nameOwner,
             \A q \in Proc \ {p}, path \in Path : objectMap'[path] = q => objectMap[path] = q,
             \A path \in Path : objectMap'[path] = p =>
               \/ objectMap[path] = p /\ head # Withdrawing(path)
               \/ head = Registering(path)
      PROVE  MasterQuiet' /\ \A q \in Proc : EntryInv(q)'
  <2>1. EntryInv(p)'
    BY <1>1, <1>3, <1>4, <1>6, EntryTail DEF head
  <2>. QED  BY <1>3, <1>4, <1>5, <1>6, <2>1, OtherEntries
<1>7. CASE HandleRegisterObject(p)
  <2>1. head = Registering(head.path) /\ head.path \in Path
    BY <1>1, <1>7, HeadCall, ReceivesType DEF HandleRegisterObject, head
  <2>2. MasterRegisterObject(p, head.path)
    BY <1>7 DEF HandleRegisterObject, head
  <2>3. \A q \in Proc, path \in Path :
          objectMap'[path] = q => objectMap[path] = q \/ (q = p /\ path = head.path)
    BY <1>1, <2>1, <2>2, MapChange
  <2>4. nameOwner' = nameOwner
    BY <1>1, <2>1, <2>2, MasterChangeType DEF MasterChange
  <2>5. \A path \in Path : head # Withdrawing(path)
    BY <2>1, Distinct
  <2>. QED  BY <1>6, <2>1, <2>3, <2>4, <2>5
<1>8. CASE HandleUnregisterObject(p)
  <2>1. head = Withdrawing(head.path) /\ head.path \in Path
    BY <1>1, <1>8, HeadCall, ReceivesType DEF HandleUnregisterObject, head
  <2>2. MasterUnregisterObject(p, head.path)
    BY <1>8 DEF HandleUnregisterObject, head
  <2>3. \A q \in Proc, path \in Path :
          objectMap'[path] = q => objectMap[path] = q /\ (q = p => path # head.path)
    BY <1>1, <2>1, <2>2, MapChange
  <2>4. nameOwner' = nameOwner
    BY <1>1, <2>1, <2>2, MasterChangeType DEF MasterChange
  <2>5. \A path \in Path : head = Withdrawing(path) => path = head.path
    BY <2>1, Distinct
  <2>. QED  BY <1>6, <2>3, <2>4, <2>5
<1>9. CASE HandleGetAllProperties(p) \/ HandleGetObjects(p)
  <2>1. nameOwner' = nameOwner /\ objectMap' = objectMap
    BY <1>9 DEF HandleGetAllProperties, HandleGetObjects, masterVars
  <2>2. AboutNothing(head)
    BY <1>1, <1>9, HeadCall DEF HandleGetAllProperties, HandleGetObjects, head
  <2>. QED  BY <1>6, <2>1, <2>2 DEF About, AboutNothing
<1>10. CASE RefuseRequest(p)
  <2>1. nameOwner' = nameOwner /\ objectMap' = objectMap /\ ~Mastered
    BY <1>10 DEF RefuseRequest, masterVars, Mastered
  <2>2. \A path \in Path : objectMap[path] \notin Proc
    BY <1>1, <2>1, ConstantsAssumption DEF StoppedInv, Empty
  <2>. QED  BY <1>6, <2>1, <2>2
<1>. QED  BY <1>7, <1>8, <1>9, <1>10 DEF HandleStep

LEMMA DeliverEntries ==
  ASSUME EInv, NEW p \in Proc,
         \/ OnObjectAdded(p) \/ OnObjectRemoved(p) \/ OnGetObjectsReply(p)
         \/ SyncObjectsReturn(p) \/ Crash(p) \/ MasterCalls(p) \/ CallEnds(p)
  PROVE  MasterQuiet' /\ \A q \in Proc : EntryInv(q)'
<1>1. TypeOK /\ RolesInv /\ MasterQuiet
  BY DEF EInv, IInv, GlobalInv
<1>2. nameOwner' = nameOwner /\ objectMap' = objectMap /\ requests' = requests
  BY DEF OnObjectAdded, OnObjectRemoved, DeliverSignal, OnGetObjectsReply, SyncObjectsReturn,
         Crash, MasterCalls, CallEnds, MasterCallReturns, MasterCallTimesOut, masterVars
<1>3. ASSUME NEW q \in Proc
      PROVE  \/ phase'[q] = "dead"
             \/ exported'[q] = exported[q] /\ phase'[q] = phase[q]
  BY <1>1 DEF OnObjectAdded, OnObjectRemoved, DeliverSignal, OnGetObjectsReply,
              SyncObjectsReturn, Crash, MasterCalls, CallEnds, MasterCallReturns,
              MasterCallTimesOut, TypeOK
<1>4. ASSUME NEW q \in Proc PROVE EntryInv(q)'
  <2>1. CASE phase'[q] = "dead"
    BY <2>1 DEF EntryInv
  <2>2. CASE exported'[q] = exported[q] /\ phase'[q] = phase[q]
    BY <1>2, <2>2, EntrySame DEF EInv
  <2>. QED  BY <1>3, <2>1, <2>2
<1>. QED  BY <1>1, <1>2, <1>4 DEF MasterQuiet

LEMMA EInvInit == Init => EInv
<1>. SUFFICES ASSUME Init PROVE EInv
  OBVIOUS
<1>1. IInv
  BY IInvInit
<1>2. MasterQuiet
  BY DEF Init, MasterQuiet
<1>3. ASSUME NEW p \in Proc PROVE EntryInv(p)
  <2>1. requests[p] = <<>> /\ \A path \in Path : objectMap[path] \notin Proc
    BY ConstantsAssumption DEF Init, Empty
  <2>. QED  BY <2>1 DEF EntryInv, Alternating
<1>. QED  BY <1>1, <1>2, <1>3 DEF EInv

LEMMA EInvStep ==
  ASSUME EInv, [Next]_vars
  PROVE  EInv'
<1>1. IInv'
  BY IInvStep DEF EInv
<1>2. ASSUME Next PROVE MasterQuiet' /\ \A q \in Proc : EntryInv(q)'
  BY <1>2, StartEntries, ServiceEntries, WaitsEntries, GivesUpEntries, HandleEntries,
     DeliverEntries DEF Next, ServiceStep, DeliverStep
<1>3. ASSUME UNCHANGED vars PROVE MasterQuiet' /\ \A q \in Proc : EntryInv(q)'
  <2>1. UNCHANGED <<nameOwner, phase, exported, requests, objectMap>>
    BY <1>3 DEF vars, masterVars
  <2>2. ASSUME NEW q \in Proc PROVE EntryInv(q)'
    BY <2>1, EntrySame DEF EInv
  <2>. QED  BY <2>1, <2>2 DEF EInv, MasterQuiet
<1>. QED  BY <1>1, <1>2, <1>3 DEF EInv

\* What the calls about a path that wait for the master say together: each
\* registerObject() leaves its path wanted by the sender, each
\* unregisterObject() unwanted, and the calls about one path alternate.  An
\* entry of the map stands for what its process wanted before the first of them.
THEOREM EntriesInvariance == Spec => []EInv
BY EInvInit, EInvStep, PTL DEF Spec

\* The registry's map holds no entry that nobody stands for: a process that
\* lives still exports the service, or the call that removes the entry is on
\* its way, however often the service came and went and whoever else wanted
\* the path.
THEOREM EntriesAreBacked == Spec => []EntriesBacked
<1>1. ASSUME EInv PROVE EntriesBacked
  <2>. SUFFICES ASSUME NEW path \in Path, objectMap[path] # NoProc,
                       phase[objectMap[path]] # "dead",
                       path \notin exported[objectMap[path]]
                PROVE  \E i \in 1 .. Len(requests[objectMap[path]]) :
                         requests[objectMap[path]][i] = Withdrawing(path)
    BY DEF EntriesBacked, Withdrawing
  <2>1. objectMap[path] \in Proc
    BY <1>1 DEF EInv, IInv, TypeOK, Content, Service
  <2>2. Wanted(requests[objectMap[path]], path \in exported[objectMap[path]], path, 0)
    BY <1>1, <2>1 DEF EInv, EntryInv
  <2>. QED  BY <2>2 DEF Wanted
<1>. QED  BY <1>1, EntriesInvariance, PTL

\* A process that withdraws a service and exports it again is never refused
\* because of its own old entry, whatever is still queued.
THEOREM NoCollisionWithItself == Spec => []NoSelfCollision
<1>1. ASSUME EInv PROVE NoSelfCollision
  <2>. SUFFICES ASSUME NEW p \in Proc, phase[p] = "replica", requests[p] # <<>>,
                       Head(requests[p]).member = "registerObject"
                PROVE  objectMap[Head(requests[p]).path] # p
    BY DEF NoSelfCollision
  <2>. DEFINE head == Head(requests[p])
              on == head.path \in exported[p]
  <2>1. requests[p] \in Seq(Request) /\ EntryInv(p)
    BY <1>1 DEF EInv, IInv, TypeOK
  <2>2. head \in Request /\ head.member = "registerObject"
    BY <2>1, HeadTailProperties
  <2>. HIDE DEF head
  <2>3. head = Registering(head.path) /\ head.path \in Path
    BY <2>2 DEF Request, ProxyCall, Registering
  <2>4. objectMap[head.path] = p => Wanted(requests[p], on, head.path, 0)
    BY <2>1, <2>3 DEF EntryInv
  <2>5. on \in BOOLEAN
    OBVIOUS
  <2>. HIDE DEF on
  <2>6. ~Wanted(requests[p], on, head.path, 0)
    BY <2>1, <2>3, <2>5, WantedHead DEF head
  <2>. QED  BY <2>4, <2>6 DEF head
<1>. QED  BY <1>1, EntriesInvariance, PTL
=============================================================================
