-------------------------- MODULE RegistryViewProofs --------------------------
(***************************************************************************)
(* The object registry implements RegistryView, for any processes, paths   *)
(* and bounds.                                                             *)
(*                                                                         *)
(* What a process is going to see is computed by applying the signals of   *)
(* its queue one after the other.  The invariant of ObjectRegistryProofs   *)
(* says which of them it will accept; here it is shown what a signal that  *)
(* is appended, ignored or accepted does to the values still to come.      *)
(***************************************************************************)
EXTENDS ObjectRegistryView, ObjectRegistryProofs, WellFoundedInduction

-----------------------------------------------------------------------------
(***************************************************************************)
(* Values that follow from each other.                                     *)
(***************************************************************************)
LEMMA NaturalMinimum ==
  ASSUME NEW T, T \subseteq Nat, T # {}
  PROVE  \E n \in T : \A m \in T : n <= m
<1>. DEFINE R == OpToRel(<, Nat)
<1>1. IsWellFoundedOn(R, Nat)
  BY NatLessThanWellFounded, Zenon
<1>2. \A m, n \in Nat : m < n => <<m, n>> \in R
  BY DEF OpToRel
<1>. HIDE DEF R
<1>3. PICK n \in T : \A m \in T : ~(<<m, n>> \in R)
  BY <1>1, WFMin
<1>4. ASSUME NEW m \in T
      PROVE  n <= m
  <2>1. m \in Nat /\ n \in Nat
    OBVIOUS
  <2>2. ~(m < n)
    BY <1>2, <1>3, <2>1
  <2>. QED  BY <2>1, <2>2
<1>. QED  BY <1>4

\* u begins with "content" and goes on with the signals from position "from".
Replays(u, content, queue, from) ==
  /\ u \in Seq(Content) /\ Len(u) = Len(queue) - from + 2
  /\ u[1] = content
  /\ \A k \in 1 .. Len(queue) - from + 1 : u[k + 1] = Applied(u[k], queue[from + k - 1])

\* The recursion of Values, and that it has one solution.
LEMMA ReplaysIsValues ==
  ASSUME NEW queue \in Seq(Signal), NEW from \in 1 .. Len(queue) + 1, NEW content,
         NEW u, Replays(u, content, queue, from)
  PROVE  u = Values(content, queue, from)
<1>. DEFINE m == Len(queue) - from + 1
            Step(f, n) == IF n = 0 THEN content ELSE Applied(f[n - 1], queue[from + n - 1])
            Solves(f) == f = [n \in 0 .. m |-> Step(f, n)]
            after == CHOOSE f : Solves(f)
            g == [n \in 0 .. m |-> u[n + 1]]
<1>1. /\ Len(queue) \in Nat /\ m \in Nat /\ from \in Nat
      /\ u \in Seq(Content) /\ Len(u) = m + 1 /\ u[1] = content
      /\ \A k \in 1 .. m : u[k + 1] = Applied(u[k], queue[from + k - 1])
  BY LenProperties DEF Replays
<1>2. Values(content, queue, from) = [k \in 1 .. Len(queue) - from + 2 |-> after[k - 1]]
  BY DEF Values
<1>. HIDE DEF m
<1>3. \A n \in 0 .. m : g[n] = Step(g, n)
  <2>1. g[0] = content
    BY <1>1
  <2>2. ASSUME NEW n \in 1 .. m
        PROVE  g[n] = Applied(g[n - 1], queue[from + n - 1])
    <3>1. n - 1 \in 0 .. m /\ (n - 1) + 1 = n /\ n \in 0 .. m
      BY <1>1
    <3>2. g[n] = u[n + 1] /\ g[n - 1] = u[n]
      BY <3>1
    <3>. QED  BY <1>1, <3>2
  <2>3. \A n \in 0 .. m : n = 0 \/ n \in 1 .. m
    BY <1>1
  <2>. HIDE DEF g
  <2>. QED  BY <2>1, <2>2, <2>3
<1>4. Solves(g)
  <2>1. g = [n \in 0 .. m |-> g[n]]
    OBVIOUS
  <2>. HIDE DEF g, Step
  <2>2. [n \in 0 .. m |-> g[n]] = [n \in 0 .. m |-> Step(g, n)]
    BY <1>3
  <2>. QED  BY <2>1, <2>2
<1>5. Solves(after)
  <2>. HIDE DEF Solves, g
  <2>. QED  BY <1>4
<1>6. \A n \in 0 .. m : after[n] = Step(after, n)
  <2>. HIDE DEF after, Step
  <2>. QED  BY <1>5
<1>. HIDE DEF after, g, Solves
<1>7. \A n \in 0 .. m : after[n] = g[n]
  <2>. DEFINE T == {n \in 0 .. m : after[n] # g[n]}
  <2>. SUFFICES ASSUME T # {} PROVE FALSE
    OBVIOUS
  <2>1. T \subseteq Nat
    BY <1>1
  <2>. HIDE DEF T
  <2>2. PICK n \in T : \A i \in T : n <= i
    BY <2>1, NaturalMinimum
  <2>3. n \in 0 .. m /\ after[n] # g[n]
    BY DEF T
  <2>4. n # 0
    BY <1>3, <1>6, <2>3
  <2>5. n - 1 \in 0 .. m /\ ~(n <= n - 1)
    BY <1>1, <2>3, <2>4
  <2>6. after[n - 1] = g[n - 1]
    BY <2>2, <2>5 DEF T
  <2>. QED  BY <1>3, <1>6, <2>3, <2>4, <2>6
<1>8. u = [k \in 1 .. Len(queue) - from + 2 |-> u[k]]
  <2>1. u = [k \in 1 .. Len(u) |-> u[k]] /\ Len(u) = Len(queue) - from + 2
    BY <1>1, LenProperties DEF Replays
  <2>. QED  BY <2>1
<1>9. \A k \in 1 .. Len(queue) - from + 2 : u[k] = after[k - 1]
  <2>. TAKE k \in 1 .. Len(queue) - from + 2
  <2>1. k - 1 \in 0 .. m /\ (k - 1) + 1 = k
    BY <1>1 DEF m
  <2>2. g[k - 1] = u[k]
    BY <2>1 DEF g
  <2>. QED  BY <1>7, <2>1, <2>2
<1>. QED  BY <1>2, <1>8, <1>9

\* The signals an invariant explains can be replayed.
LEMMA ValuesReplay ==
  ASSUME NEW content, NEW map \in Content, NEW queue \in Seq(Signal),
         NEW from \in 1 .. Len(queue) + 1, Explains(content, queue, from, map)
  PROVE  /\ Replays(Values(content, queue, from), content, queue, from)
         /\ Values(content, queue, from)[Len(queue) - from + 2] = map
<1>. DEFINE m == Len(queue) - from + 2
<1>1. PICK h \in [from .. Len(queue) + 1 -> Content] : Leads(h, content, queue, from, map)
  BY DEF Explains
<1>. DEFINE u == [k \in 1 .. m |-> h[from + k - 1]]
<1>2. Len(queue) \in Nat /\ m \in Nat /\ m >= 1 /\ from \in Nat
  BY LenProperties
<1>3. \A k \in 1 .. m : u[k] = h[from + k - 1] /\ h[from + k - 1] \in Content
  <2>. TAKE k \in 1 .. m
  <2>1. from + k - 1 \in from .. Len(queue) + 1
    BY <1>2
  <2>. QED  BY <2>1
<1>4. u \in Seq(Content) /\ Len(u) = m
  <2>1. u \in [1 .. m -> Content]
    BY <1>3
  <2>. QED  BY <1>2, <2>1, IsASeq, LenProperties
<1>5. u[1] = content /\ u[m] = map
  <2>1. 1 \in 1 .. m /\ m \in 1 .. m /\ from + 1 - 1 = from /\ from + m - 1 = Len(queue) + 1
    BY <1>2
  <2>. QED  BY <1>1, <1>3, <2>1 DEF Leads
<1>6. ASSUME NEW k \in 1 .. Len(queue) - from + 1
      PROVE  u[k + 1] = Applied(u[k], queue[from + k - 1])
  <2>1. /\ k \in 1 .. m /\ k + 1 \in 1 .. m
        /\ from + (k + 1) - 1 = (from + k - 1) + 1
        /\ from + k - 1 \in from .. Len(queue)
    BY <1>2
  <2>2. h[(from + k - 1) + 1] = Applied(h[from + k - 1], queue[from + k - 1])
    BY <1>1, <2>1 DEF Leads
  <2>. QED  BY <1>3, <2>1, <2>2
<1>. HIDE DEF u
<1>7. Replays(u, content, queue, from)
  BY <1>4, <1>5, <1>6 DEF Replays
<1>. QED  BY <1>5, <1>7, ReplaysIsValues

LEMMA ReplaysAppend ==
  ASSUME NEW content, NEW map \in Content, NEW queue \in Seq(Signal),
         NEW from \in 1 .. Len(queue) + 1, NEW signal \in Signal,
         NEW u, Replays(u, content, queue, from), u[Len(queue) - from + 2] = map
  PROVE  Replays(Append(u, Applied(map, signal)), content, Append(queue, signal), from)
<1>. DEFINE m == Len(queue) - from + 2
            last == Applied(map, signal)
            w == Append(u, last)
            longer == Append(queue, signal)
<1>1. /\ Len(queue) \in Nat /\ from \in Nat /\ m \in Nat /\ m >= 1
      /\ u \in Seq(Content) /\ Len(u) = m /\ u[1] = content
      /\ \A k \in 1 .. m - 1 : u[k + 1] = Applied(u[k], queue[from + k - 1])
  BY LenProperties DEF Replays
<1>2. /\ Len(longer) = Len(queue) + 1 /\ longer[Len(queue) + 1] = signal
      /\ \A i \in 1 .. Len(queue) : longer[i] = queue[i]
  <2>. HIDE DEF m, w
  <2>. QED  BY AppendProperties
<1>3. Applied(map, signal) \in Content
  BY AppliedType
<1>4. /\ w \in Seq(Content) /\ Len(w) = m + 1 /\ w[m + 1] = Applied(map, signal)
      /\ \A k \in 1 .. m : w[k] = u[k]
  <2>1. /\ w \in Seq(Content) /\ Len(w) = Len(u) + 1 /\ w[Len(u) + 1] = last
        /\ \A k \in 1 .. Len(u) : w[k] = u[k]
    <3>1. u \in Seq(Content) /\ last \in Content
      BY <1>1, <1>3
    <3>. HIDE DEF last, m, longer
    <3>. QED  BY <3>1, AppendProperties
  <2>2. Len(u) = m
    BY <1>1
  <2>. HIDE DEF w, m, longer
  <2>. QED  BY <2>1, <2>2
<1>. HIDE DEF w, longer
<1>5. ASSUME NEW k \in 1 .. m
      PROVE  w[k + 1] = Applied(w[k], longer[from + k - 1])
  <2>1. CASE k = m
    <3>1. from + k - 1 = Len(queue) + 1
      BY <1>1, <2>1
    <3>2. w[k] = map
      BY <1>1, <1>4, <2>1
    <3>3. longer[from + k - 1] = signal
      BY <1>2, <3>1
    <3>4. w[k + 1] = Applied(map, signal)
      BY <1>4, <2>1
    <3>. QED  BY <3>2, <3>3, <3>4, Zenon
  <2>2. CASE k # m
    <3>1. k \in 1 .. m - 1 /\ k + 1 \in 1 .. m
      <4>. HIDE DEF m
      <4>. QED  BY <1>1, <2>2
    <3>2. from + k - 1 \in 1 .. Len(queue)
      BY <1>1, <3>1
    <3>3. u[k + 1] = Applied(u[k], queue[from + k - 1])
      BY <1>1, <3>1
    <3>4. w[k + 1] = u[k + 1] /\ w[k] = u[k]
      BY <1>4, <3>1
    <3>5. longer[from + k - 1] = queue[from + k - 1]
      BY <1>2, <3>2
    <3>. QED  BY <3>3, <3>4, <3>5, Zenon
  <2>. QED  BY <2>1, <2>2
<1>6. Len(longer) - from + 2 = m + 1 /\ Len(longer) - from + 1 = m
  BY <1>1, <1>2
<1>7. w[1] = content
  BY <1>1, <1>4
<1>8. Replays(w, content, longer, from)
  BY <1>4, <1>5, <1>6, <1>7 DEF Replays
<1>. QED  BY <1>8 DEF w, longer

LEMMA ReplaysTail ==
  ASSUME NEW content, NEW queue \in Seq(Signal), queue # <<>>,
         NEW from \in 2 .. Len(queue) + 1, NEW u, Replays(u, content, queue, from)
  PROVE  Replays(u, content, Tail(queue), from - 1)
<1>1. /\ Len(queue) \in Nat /\ Len(Tail(queue)) = Len(queue) - 1
      /\ \A i \in 1 .. Len(queue) - 1 : Tail(queue)[i] = queue[i + 1]
  BY LenProperties, HeadTailProperties
<1>2. ASSUME NEW k \in 1 .. Len(queue) - from + 1
      PROVE  u[k + 1] = Applied(u[k], Tail(queue)[(from - 1) + k - 1])
  <2>1. /\ (from - 1) + k - 1 \in 1 .. Len(queue) - 1
        /\ ((from - 1) + k - 1) + 1 = from + k - 1
    BY <1>1
  <2>2. u[k + 1] = Applied(u[k], queue[from + k - 1])
    BY DEF Replays
  <2>. QED  BY <1>1, <2>1, <2>2
<1>3. /\ Len(Tail(queue)) - (from - 1) + 2 = Len(queue) - from + 2
      /\ Len(Tail(queue)) - (from - 1) + 1 = Len(queue) - from + 1
  BY <1>1
<1>. QED  BY <1>2, <1>3 DEF Replays

LEMMA ReplaysHead ==
  ASSUME NEW content, NEW queue \in Seq(Signal), queue # <<>>,
         NEW u, Replays(u, content, queue, 1)
  PROVE  /\ Replays(Tail(u), Applied(content, Head(queue)), Tail(queue), 1)
         /\ Len(u) >= 2 /\ u[2] = Applied(content, Head(queue))
<1>1. /\ Len(queue) \in Nat /\ Len(queue) >= 1 /\ Len(Tail(queue)) = Len(queue) - 1
      /\ \A i \in 1 .. Len(queue) - 1 : Tail(queue)[i] = queue[i + 1]
      /\ Head(queue) = queue[1]
  BY LenProperties, HeadTailProperties, EmptySeq
<1>2. /\ u \in Seq(Content) /\ Len(u) = Len(queue) + 1 /\ u[1] = content
      /\ \A k \in 1 .. Len(queue) : u[k + 1] = Applied(u[k], queue[1 + k - 1])
  BY <1>1 DEF Replays
<1>3. u[2] = Applied(content, Head(queue))
  <2>1. 1 \in 1 .. Len(queue) /\ 1 + 1 - 1 = 1
    BY <1>1
  <2>. QED  BY <1>1, <1>2, <2>1
<1>4. u # <<>>
  BY <1>1, <1>2, EmptySeq
<1>5. /\ Tail(u) \in Seq(Content) /\ Len(Tail(u)) = Len(queue)
      /\ \A k \in 1 .. Len(queue) : Tail(u)[k] = u[k + 1]
  <2>1. /\ Tail(u) \in Seq(Content) /\ Len(Tail(u)) = Len(u) - 1
        /\ \A k \in 1 .. Len(u) - 1 : Tail(u)[k] = u[k + 1]
    BY <1>2, <1>4, HeadTailProperties
  <2>2. Len(u) - 1 = Len(queue)
    BY <1>1, <1>2
  <2>. QED  BY <2>1, <2>2
<1>6. ASSUME NEW k \in 1 .. Len(queue) - 1
      PROVE  Tail(u)[k + 1] = Applied(Tail(u)[k], Tail(queue)[1 + k - 1])
  <2>1. k \in 1 .. Len(queue) /\ k + 1 \in 1 .. Len(queue) /\ 1 + k - 1 = k /\ 1 + (k + 1) - 1 = k + 1
    BY <1>1
  <2>. QED  BY <1>1, <1>2, <1>5, <2>1
<1>7. /\ Len(Tail(queue)) - 1 + 2 = Len(queue) /\ Len(Tail(queue)) - 1 + 1 = Len(queue) - 1
      /\ 1 \in 1 .. Len(queue)
  BY <1>1
<1>. QED  BY <1>1, <1>2, <1>3, <1>5, <1>6, <1>7 DEF Replays

-----------------------------------------------------------------------------
(***************************************************************************)
(* A map at a version, and what it becomes.                                *)
(***************************************************************************)
\* The master's map "map" is at "current"; "content", at v, is an earlier one.
Sound(content, v, queue, map, current) ==
  /\ content \in Content /\ map \in Content /\ current \in Version
  /\ queue \in Seq(Signal) /\ Numbered(queue, current)
  /\ Lags(content, v, queue, map, current)

\* How far it lags.
LagIs(content, v, lag, queue, map, current) ==
  /\ queue \in Seq(Signal) /\ current \in Version /\ Numbered(queue, current)
  /\ Behind(content, v, lag, queue, map, current)

\* What is accepted first is what the map lacks first.
LEMMA NextSignalIs ==
  ASSUME NEW content, NEW v, NEW queue, NEW map, NEW current, NEW lag,
         LagIs(content, v, lag, queue, map, current)
  PROVE  NextSignal(queue, v) = Len(queue) - lag + 1
<1>. DEFINE next == {i \in 1 .. Len(queue) : queue[i].version = NextVersion(v)}
<1>. USE DEF LagIs
<1>1. /\ Len(queue) \in Nat /\ Len(queue) <= MaxVersion - 2
      /\ lag \in 0 .. Len(queue) /\ lag \in 0 .. MaxVersion - 2 /\ v = Back(current, lag)
  BY LenProperties, ConstantsAssumption DEF Numbered, Behind
<1>2. ASSUME NEW i \in 1 .. Len(queue)
      PROVE  queue[i].version = NextVersion(v) <=> i = Len(queue) - lag + 1
  <2>1. Len(queue) - i \in 0 .. MaxVersion - 3
    BY <1>1, ConstantsAssumption
  <2>2. queue[i].version = Back(current, Len(queue) - i)
    BY DEF Numbered
  <2>3. queue[i].version = NextVersion(v) <=> lag = (Len(queue) - i) + 1
    BY <1>1, <2>1, <2>2, Window
  <2>. QED  BY <1>1, <2>3
<1>3. NextSignal(queue, v) = IF next = {} THEN Len(queue) + 1 ELSE CHOOSE i \in next : TRUE
  BY DEF NextSignal
<1>4. CASE lag = 0
  <2>1. next = {}
    BY <1>1, <1>2, <1>4
  <2>. QED  BY <1>1, <1>3, <1>4, <2>1
<1>5. CASE lag # 0
  <2>1. next = {Len(queue) - lag + 1}
    <3>1. Len(queue) - lag + 1 \in 1 .. Len(queue)
      BY <1>1, <1>5
    <3>. QED  BY <1>2, <3>1
  <2>. QED  BY <1>3, <2>1
<1>. QED  BY <1>4, <1>5

\* The values behind a map, as a lag sees them.
LEMMA LaterIs ==
  ASSUME NEW content, NEW v, NEW queue, NEW map, NEW current,
         Sound(content, v, queue, map, current)
  PROVE  \E lag \in 0 .. Len(queue) :
           /\ Behind(content, v, lag, queue, map, current)
           /\ Len(queue) - lag + 1 \in 1 .. Len(queue) + 1
           /\ NextSignal(queue, v) = Len(queue) - lag + 1
           /\ Replays(Later(content, v, queue), content, queue, Len(queue) - lag + 1)
           /\ Len(Later(content, v, queue)) = lag + 1
           /\ Later(content, v, queue)[lag + 1] = map
<1>1. PICK lag \in 0 .. Len(queue) : Behind(content, v, lag, queue, map, current)
  BY DEF Sound, Lags
<1>2. /\ Len(queue) \in Nat /\ queue \in Seq(Signal)
      /\ Len(queue) - lag + 1 \in 1 .. Len(queue) + 1
      /\ Len(queue) - (Len(queue) - lag + 1) + 2 = lag + 1
      /\ map \in Content
  BY LenProperties DEF Sound
<1>3. NextSignal(queue, v) = Len(queue) - lag + 1
  <2>1. LagIs(content, v, lag, queue, map, current)
    BY <1>1 DEF Sound, LagIs
  <2>. QED  BY <2>1, NextSignalIs
<1>4. Explains(content, queue, Len(queue) - lag + 1, map)
  BY <1>1 DEF Behind
<1>5. /\ Replays(Later(content, v, queue), content, queue, Len(queue) - lag + 1)
      /\ Later(content, v, queue)[lag + 1] = map
  BY <1>2, <1>3, <1>4, ValuesReplay DEF Later
<1>6. Len(Later(content, v, queue)) = lag + 1
  BY <1>2, <1>5 DEF Replays
<1>. QED  BY <1>1, <1>2, <1>3, <1>5, <1>6

LEMMA LaterProperties ==
  ASSUME NEW content, NEW v, NEW queue, NEW map, NEW current,
         Sound(content, v, queue, map, current), NEW u, u = Later(content, v, queue)
  PROVE  /\ u \in Seq(Content) /\ Len(u) \in Nat /\ Len(u) >= 1
         /\ u[1] = content /\ u[Len(u)] = map
<1>1. PICK lag \in 0 .. Len(queue) :
        /\ Replays(u, content, queue, Len(queue) - lag + 1)
        /\ Len(u) = lag + 1 /\ u[lag + 1] = map
  BY LaterIs
<1>2. lag \in Nat
  BY LenProperties DEF Sound
<1>. QED  BY <1>1, <1>2 DEF Replays

\* Nothing comes after the master's own map.
LEMMA LaterNow ==
  ASSUME NEW queue, NEW map, NEW current, Sound(map, current, queue, map, current)
  PROVE  Later(map, current, queue) = <<map>>
<1>1. /\ Len(queue) \in Nat /\ queue \in Seq(Signal) /\ map \in Content /\ current \in Version
      /\ Numbered(queue, current)
  BY LenProperties DEF Sound
<1>2. Behind(map, current, 0, queue, map, current)
  BY <1>1, BehindNow
<1>3. NextSignal(queue, current) = Len(queue) + 1
  <2>1. NextSignal(queue, current) = Len(queue) - 0 + 1
    <3>1. LagIs(map, current, 0, queue, map, current)
      BY <1>1, <1>2 DEF LagIs
    <3>. QED  BY <3>1, NextSignalIs
  <2>. QED  BY <1>1, <2>1
<1>4. Replays(<<map>>, map, queue, Len(queue) + 1)
  BY <1>1 DEF Replays
<1>5. Len(queue) + 1 \in 1 .. Len(queue) + 1
  BY <1>1
<1>. QED  BY <1>1, <1>3, <1>4, <1>5, ReplaysIsValues DEF Later

\* A change of the master's map is one more value to come.
LEMMA LaterAppend ==
  ASSUME NEW content, NEW v, NEW queue, NEW map, NEW current,
         Sound(content, v, queue, map, current), NEW signal \in Signal,
         Len(queue) <= MaxVersion - 3, Changes(map, signal),
         signal.version = NextVersion(current)
  PROVE  Later(content, v, Append(queue, signal)) =
           Append(Later(content, v, queue), Applied(map, signal))
<1>1. PICK lag \in 0 .. Len(queue) :
        /\ Behind(content, v, lag, queue, map, current)
        /\ Len(queue) - lag + 1 \in 1 .. Len(queue) + 1
        /\ Replays(Later(content, v, queue), content, queue, Len(queue) - lag + 1)
        /\ Later(content, v, queue)[lag + 1] = map
  BY LaterIs
<1>2. /\ content \in Content /\ map \in Content /\ queue \in Seq(Signal) /\ current \in Version
      /\ Numbered(queue, current) /\ Len(queue) \in Nat /\ lag \in Nat
      /\ Len(queue) - (Len(queue) - lag + 1) + 2 = lag + 1
  BY LenProperties DEF Sound
<1>. DEFINE longer == Append(queue, signal)
<1>3. longer \in Seq(Signal) /\ Len(longer) = Len(queue) + 1
  BY <1>2, AppendProperties
<1>4. Behind(content, v, lag + 1, longer, Applied(map, signal), NextVersion(current))
  BY <1>1, <1>2, BehindAppend
<1>5. Numbered(longer, NextVersion(current)) /\ NextVersion(current) \in Version
  BY <1>2, NumberedAppend, NextVersionType
<1>6. NextSignal(longer, v) = Len(queue) - lag + 1
  <2>1. NextSignal(longer, v) = Len(longer) - (lag + 1) + 1
    <3>1. LagIs(content, v, lag + 1, longer, Applied(map, signal), NextVersion(current))
      BY <1>3, <1>4, <1>5 DEF LagIs
    <3>. HIDE DEF longer
    <3>. QED  BY <3>1, NextSignalIs
  <2>. QED  BY <1>2, <1>3, <2>1
<1>7. Replays(Append(Later(content, v, queue), Applied(map, signal)), content, longer,
              Len(queue) - lag + 1)
  BY <1>1, <1>2, ReplaysAppend
<1>8. Len(queue) - lag + 1 \in 1 .. Len(longer) + 1
  BY <1>1, <1>2, <1>3
<1>. HIDE DEF longer
<1>9. Append(Later(content, v, queue), Applied(map, signal)) = Later(content, v, longer)
  BY <1>3, <1>6, <1>7, <1>8, ReplaysIsValues DEF Later
<1>. QED  BY <1>9 DEF longer

\* A signal the version test refuses is none of the values to come.
LEMMA LaterSkips ==
  ASSUME NEW content, NEW v, NEW queue, NEW map, NEW current,
         Sound(content, v, queue, map, current), queue # <<>>,
         Head(queue).version # NextVersion(v)
  PROVE  Later(content, v, Tail(queue)) = Later(content, v, queue)
<1>1. PICK lag \in 0 .. Len(queue) :
        /\ Behind(content, v, lag, queue, map, current)
        /\ Replays(Later(content, v, queue), content, queue, Len(queue) - lag + 1)
  BY LaterIs
<1>2. /\ content \in Content /\ map \in Content /\ queue \in Seq(Signal) /\ current \in Version
      /\ Numbered(queue, current) /\ Len(queue) \in Nat /\ lag \in Nat
  BY LenProperties DEF Sound
<1>3. lag # Len(queue)
  BY <1>1, <1>2, AcceptsHead
<1>4. /\ Behind(content, v, lag, Tail(queue), map, current)
      /\ Numbered(Tail(queue), current) /\ Tail(queue) \in Seq(Signal)
      /\ Len(Tail(queue)) = Len(queue) - 1
  BY <1>1, <1>2, <1>3, BehindTail, NumberedTail, HeadTailProperties
<1>5. NextSignal(Tail(queue), v) = (Len(queue) - lag + 1) - 1
  <2>1. NextSignal(Tail(queue), v) = Len(Tail(queue)) - lag + 1
    <3>. DEFINE rest == Tail(queue)
    <3>1. LagIs(content, v, lag, rest, map, current)
      BY <1>2, <1>4 DEF LagIs
    <3>. HIDE DEF rest
    <3>2. NextSignal(rest, v) = Len(rest) - lag + 1
      BY <3>1, NextSignalIs
    <3>. QED  BY <3>2 DEF rest
  <2>. QED  BY <1>2, <1>4, <2>1
<1>6. Len(queue) - lag + 1 \in 2 .. Len(queue) + 1
  BY <1>2, <1>3
<1>7. Replays(Later(content, v, queue), content, Tail(queue), (Len(queue) - lag + 1) - 1)
  BY <1>1, <1>2, <1>6, ReplaysTail
<1>8. (Len(queue) - lag + 1) - 1 \in 1 .. Len(Tail(queue)) + 1
  BY <1>2, <1>4, <1>6
<1>. QED  BY <1>4, <1>5, <1>7, <1>8, ReplaysIsValues DEF Later

\* A signal it accepts brings the next of them.
LEMMA LaterTakes ==
  ASSUME NEW content, NEW v, NEW queue, NEW map, NEW current,
         Sound(content, v, queue, map, current), queue # <<>>,
         Head(queue).version = NextVersion(v), NEW u, u = Later(content, v, queue)
  PROVE  /\ Len(u) >= 2 /\ u[2] = Applied(content, Head(queue))
         /\ Later(Applied(content, Head(queue)), Head(queue).version, Tail(queue)) = Tail(u)
<1>1. PICK lag \in 0 .. Len(queue) :
        /\ Behind(content, v, lag, queue, map, current)
        /\ Replays(u, content, queue, Len(queue) - lag + 1)
  BY LaterIs
<1>2. /\ content \in Content /\ map \in Content /\ queue \in Seq(Signal) /\ current \in Version
      /\ Numbered(queue, current) /\ Len(queue) \in Nat /\ Len(queue) >= 1
  BY LenProperties, EmptySeq DEF Sound
<1>3. lag = Len(queue) /\ Len(queue) - lag + 1 = 1
  BY <1>1, <1>2, AcceptsHead
<1>4. Replays(u, content, queue, 1)
  BY <1>1, <1>3
<1>. DEFINE next == Applied(content, Head(queue))
<1>5. Replays(Tail(u), next, Tail(queue), 1) /\ Len(u) >= 2 /\ u[2] = next
  BY <1>2, <1>4, ReplaysHead
<1>6. /\ Numbered(Tail(queue), current) /\ Tail(queue) \in Seq(Signal)
      /\ Head(queue).version = Back(current, Len(queue) - 1)
      /\ Len(Tail(queue)) = Len(queue) - 1
  BY <1>2, NumberedTail, HeadTailProperties
<1>7. Explains(content, queue, 1, map)
  BY <1>1, <1>3 DEF Behind
<1>8. Explains(next, Tail(queue), 1, map)
  BY <1>2, <1>7, ExplainsHead
<1>. HIDE DEF next
<1>9. Behind(next, Head(queue).version, Len(queue) - 1, Tail(queue), map, current)
  <2>1. /\ Len(queue) - 1 \in 0 .. Len(Tail(queue))
        /\ Len(Tail(queue)) - (Len(queue) - 1) + 1 = 1
    BY <1>2, <1>6
  <2>. QED  BY <1>6, <1>8, <2>1 DEF Behind
<1>10. NextSignal(Tail(queue), Head(queue).version) = 1
  <2>1. NextSignal(Tail(queue), Head(queue).version) = Len(Tail(queue)) - (Len(queue) - 1) + 1
    <3>. DEFINE rest == Tail(queue)
                v1 == Head(queue).version
                n == Len(queue) - 1
    <3>1. LagIs(next, v1, n, rest, map, current)
      BY <1>2, <1>6, <1>9 DEF LagIs
    <3>. HIDE DEF rest, v1, n
    <3>2. NextSignal(rest, v1) = Len(rest) - n + 1
      BY <3>1, NextSignalIs
    <3>. QED  BY <3>2 DEF rest, v1, n
  <2>. QED  BY <1>2, <1>6, <2>1
<1>11. 1 \in 1 .. Len(Tail(queue)) + 1
  BY <1>2, <1>6
<1>12. Tail(u) = Later(next, Head(queue).version, Tail(queue))
  BY <1>5, <1>6, <1>10, <1>11, ReplaysIsValues DEF Later
<1>. QED  BY <1>5, <1>12 DEF next

-----------------------------------------------------------------------------
(***************************************************************************)
(* What each process starts from.                                          *)
(***************************************************************************)
Awaits(p) == p \notin missed /\ HasSnapshot(p)

\* The map a process has or is going to take over, and its version.
First(p) ==
  IF HasValidObjects(p) THEN <<objects[p], registryVersion[p]>>
  ELSE IF Synchronised(p) THEN <<Head(syncReply[p]).objects, Head(syncReply[p]).version>>
  ELSE <<Head(asyncReply[p]).objects, Head(asyncReply[p]).version>>

LaterOf(p) == Later(First(p)[1], First(p)[2], signals[p])

LEMMA UpcomingIs ==
  ASSUME NEW p
  PROVE  Upcoming(p) = IF ~Awaits(p) THEN <<>>
                       ELSE IF HasValidObjects(p) THEN Tail(LaterOf(p)) ELSE LaterOf(p)
BY DEF Upcoming, Awaits, HasSnapshot, LaterOf, First

LEMMA SoundFirst ==
  ASSUME IInv, NEW p \in Proc, Awaits(p)
  PROVE  /\ Sound(First(p)[1], First(p)[2], signals[p], objectMap, version)
         /\ Mastered /\ (p # nameOwner => phase[p] = "replica")
         /\ p # nameOwner /\ ~signalsConnected => p \in refused
<1>1. /\ p \notin missed /\ HasSnapshot(p) /\ Mastered
      /\ p # nameOwner => phase[p] = "replica"
      /\ p # nameOwner /\ ~signalsConnected => p \in refused
  BY DEF Awaits, HasSnapshot, Synchronised, IInv, GlobalInv, StoppedInv, SilentInv, LocalInv,
         GoneInv
<1>2. /\ objects[p] \in Content /\ objectMap \in Content /\ version \in Version
      /\ signals[p] \in Seq(Signal) /\ Numbered(signals[p], version)
  BY <1>1 DEF IInv, TypeOK, GlobalInv, MasterInv, DataInv, QueueInv
<1>3. CASE HasValidObjects(p)
  <2>1. Lags(objects[p], registryVersion[p], signals[p], objectMap, version)
    <3>1. CASE p = nameOwner
      <4>1. /\ objects[p] = objectMap /\ registryVersion[p] = version
            /\ 0 \in 0 .. Len(signals[p])
        BY <1>1, <1>2, <3>1, LenProperties DEF IInv, GlobalInv, MasterInv
      <4>. QED  BY <1>2, <4>1, BehindNow DEF Lags
    <3>2. CASE p # nameOwner
      BY <1>1, <1>3, <3>2 DEF IInv, DataInv, ReplicaInv
    <3>. QED  BY <3>1, <3>2
  <2>. QED  BY <1>1, <1>2, <1>3, <2>1 DEF Sound, First
<1>4. CASE ~HasValidObjects(p) /\ Synchronised(p)
  <2>. DEFINE snapshot == Head(syncReply[p])
  <2>1. snapshot = syncReply[p][1] /\ snapshot \in Answer
    BY <1>4, HeadTailProperties DEF Synchronised, IInv, TypeOK
  <2>2. Lags(snapshot.objects, snapshot.version, signals[p], objectMap, version)
    BY <1>1, <1>4, <2>1 DEF IInv, DataInv, SyncInv, Synchronised
  <2>3. snapshot.objects \in Content
    BY <2>1 DEF Answer
  <2>. QED  BY <1>1, <1>2, <1>4, <2>2, <2>3 DEF Sound, First
<1>5. CASE ~HasValidObjects(p) /\ ~Synchronised(p)
  <2>. DEFINE snapshot == Head(asyncReply[p])
  <2>1. /\ snapshot = asyncReply[p][1] /\ snapshot \in QueuedSnapshot
        /\ asyncReply[p] # <<>>
    BY <1>1, <1>5, HeadTailProperties DEF HasSnapshot, IInv, TypeOK
  <2>2. Behind(snapshot.objects, snapshot.version, Len(signals[p]) - snapshot.behind,
               signals[p], objectMap, version)
    BY <1>1, <1>5, <2>1 DEF IInv, DataInv, AsyncInv
  <2>3. Lags(snapshot.objects, snapshot.version, signals[p], objectMap, version)
    BY <2>2 DEF Behind, Lags
  <2>4. snapshot.objects \in Content
    BY <2>1 DEF QueuedSnapshot
  <2>. QED  BY <1>1, <1>2, <1>5, <2>3, <2>4 DEF Sound, First
<1>. QED  BY <1>1, <1>3, <1>4, <1>5

\* A process follows the map as soon as a snapshot is on its way to it.
LEMMA AwaitsFollows ==
  ASSUME IInv, NEW p \in Proc
  PROVE  View!Follows(p) <=> Awaits(p)
<1>1. View!Follows(p) <=> Known(p) \/ Upcoming(p) # <<>>
  BY DEF View!Follows
<1>2. CASE ~Awaits(p)
  BY <1>1, <1>2, UpcomingIs DEF Awaits, HasSnapshot, Known
<1>3. CASE Awaits(p) /\ HasValidObjects(p)
  BY <1>1, <1>3 DEF Awaits, Known
<1>4. CASE Awaits(p) /\ ~HasValidObjects(p)
  <2>1. LaterOf(p) \in Seq(Content) /\ Len(LaterOf(p)) >= 1
    BY <1>4, SoundFirst, LaterProperties DEF LaterOf
  <2>2. LaterOf(p) # <<>>
    BY <2>1, EmptySeq
  <2>. QED  BY <1>1, <1>4, <2>2, UpcomingIs
<1>. QED  BY <1>2, <1>3, <1>4

\* What the map shows of a process is as before.
Seen(p) ==
  /\ Shown(p)' = Shown(p)
  /\ Known(p)' <=> Known(p)
  /\ Upcoming(p)' = Upcoming(p)
  /\ p \in missed' <=> p \in missed

Same(p) == Seen(p) /\ (p \in refused' <=> p \in refused)

\* Answers without a map are not shown.
LEMMA SeenWhen ==
  ASSUME NEW p, objects'[p] = objects[p], registryVersion'[p] = registryVersion[p],
         signals'[p] = signals[p], asyncReply'[p] = asyncReply[p],
         syncReply'[p] = syncReply[p] \/ (~Synchronised(p) /\ ~Synchronised(p)'),
         p \in missed' <=> p \in missed
  PROVE  Seen(p)
<1>1. (HasValidObjects(p)' <=> HasValidObjects(p)) /\ (Synchronised(p)' <=> Synchronised(p))
  BY DEF HasValidObjects, Synchronised
<1>2. Upcoming(p)' = Upcoming(p)
  BY <1>1 DEF Upcoming
<1>. QED  BY <1>1, <1>2 DEF Seen, Known, Shown

LEMMA SameWhen ==
  ASSUME NEW p, objects'[p] = objects[p], registryVersion'[p] = registryVersion[p],
         signals'[p] = signals[p], asyncReply'[p] = asyncReply[p],
         syncReply'[p] = syncReply[p] \/ (~Synchronised(p) /\ ~Synchronised(p)'),
         p \in refused' <=> p \in refused, p \in missed' <=> p \in missed
  PROVE  Same(p)
BY SeenWhen DEF Same

\* Nothing is shown of a process that missed changes.
LEMMA SameMissed ==
  ASSUME NEW p, p \in missed, p \in missed', p \in refused' <=> p \in refused
  PROVE  Same(p)
BY DEF Same, Seen, Known, Shown, Upcoming

LEMMA AllSeen ==
  ASSUME TypeOK, TypeOK', \A p \in Proc : Seen(p)
  PROVE  /\ {p \in Proc : Known(p)}' = {p \in Proc : Known(p)}
         /\ [p \in Proc |-> Shown(p)]' = [p \in Proc |-> Shown(p)]
         /\ [p \in Proc |-> Upcoming(p)]' = [p \in Proc |-> Upcoming(p)]
         /\ missed' = missed
<1>1. /\ {p \in Proc : Known(p)}' = {p \in Proc : Known(p)}
      /\ [p \in Proc |-> Shown(p)]' = [p \in Proc |-> Shown(p)]
      /\ [p \in Proc |-> Upcoming(p)]' = [p \in Proc |-> Upcoming(p)]
  BY DEF Seen
<1>2. missed' = missed
  BY DEF Seen, TypeOK
<1>. QED  BY <1>1, <1>2

LEMMA AllSame ==
  ASSUME TypeOK, TypeOK', \A p \in Proc : Same(p)
  PROVE  (\A p \in Proc : Seen(p)) /\ refused' = refused
<1>1. refused' = refused
  BY DEF Same, TypeOK
<1>. QED  BY <1>1 DEF Same

LEMMA Stutters ==
  ASSUME TypeOK, TypeOK', UNCHANGED <<objectMap, signalsConnected>>, \A p \in Proc : Same(p)
  PROVE  UNCHANGED View!vars
<1>1. /\ {p \in Proc : Known(p)}' = {p \in Proc : Known(p)}
      /\ [p \in Proc |-> Shown(p)]' = [p \in Proc |-> Shown(p)]
      /\ [p \in Proc |-> Upcoming(p)]' = [p \in Proc |-> Upcoming(p)]
      /\ refused' = refused /\ missed' = missed
  BY AllSeen, AllSame
<1>. QED  BY <1>1 DEF View!vars

\* One process moves: what it shows, and is going to show, is this now.
Moves(p, shown, upcoming) ==
  /\ UNCHANGED <<objectMap, signalsConnected>>
  /\ \A q \in Proc \ {p} : Same(q)
  /\ Shown(p)' = shown
  /\ Upcoming(p)' = upcoming

LEMMA MovesTo ==
  ASSUME TypeOK, TypeOK', NEW p \in Proc, NEW shown, NEW upcoming,
         Moves(p, shown, upcoming)
  PROVE  /\ [q \in Proc |-> Shown(q)]' = [[q \in Proc |-> Shown(q)] EXCEPT ![p] = shown]
         /\ [q \in Proc |-> Upcoming(q)]' =
              [[q \in Proc |-> Upcoming(q)] EXCEPT ![p] = upcoming]
<1>1. [q \in Proc |-> Shown(q)]' = [[q \in Proc |-> Shown(q)] EXCEPT ![p] = shown]
  BY DEF Moves, Same, Seen
<1>2. [q \in Proc |-> Upcoming(q)]' =
        [[q \in Proc |-> Upcoming(q)] EXCEPT ![p] = upcoming]
  BY DEF Moves, Same, Seen
<1>. QED  BY <1>1, <1>2

\* The sets the process may enter or leave.
LEMMA MovesSets ==
  ASSUME TypeOK, TypeOK', NEW p \in Proc, NEW shown, NEW upcoming,
         Moves(p, shown, upcoming)
  PROVE  /\ Known(p)' => {q \in Proc : Known(q)}' = {q \in Proc : Known(q)} \union {p}
         /\ ~Known(p)' => {q \in Proc : Known(q)}' = {q \in Proc : Known(q)} \ {p}
         /\ (p \in refused' <=> p \in refused) => refused' = refused
         /\ p \notin refused' => refused' = refused \ {p}
         /\ (p \in missed' <=> p \in missed) => missed' = missed
         /\ p \notin missed' => missed' = missed \ {p}
<1>1. \A q \in Proc \ {p} : /\ Known(q)' <=> Known(q)
                            /\ q \in refused' <=> q \in refused
                            /\ q \in missed' <=> q \in missed
  BY DEF Moves, Same, Seen
<1>2. /\ Known(p)' => {q \in Proc : Known(q)}' = {q \in Proc : Known(q)} \union {p}
      /\ ~Known(p)' => {q \in Proc : Known(q)}' = {q \in Proc : Known(q)} \ {p}
  BY <1>1
<1>. /\ refused \subseteq Proc /\ refused' \subseteq Proc
     /\ missed \subseteq Proc /\ missed' \subseteq Proc
  BY DEF TypeOK
<1>3. /\ (p \in refused' <=> p \in refused) => refused' = refused
      /\ p \notin refused' => refused' = refused \ {p}
  <2>1. ASSUME p \in refused' <=> p \in refused
        PROVE  refused' = refused
    BY <1>1, <2>1
  <2>2. ASSUME p \notin refused'
        PROVE  refused' = refused \ {p}
    BY <1>1, <2>2
  <2>. QED  BY <2>1, <2>2
<1>4. /\ (p \in missed' <=> p \in missed) => missed' = missed
      /\ p \notin missed' => missed' = missed \ {p}
  <2>1. ASSUME p \in missed' <=> p \in missed
        PROVE  missed' = missed
    BY <1>1, <2>1
  <2>2. ASSUME p \notin missed'
        PROVE  missed' = missed \ {p}
    BY <1>1, <2>2
  <2>. QED  BY <2>1, <2>2
<1>. QED  BY <1>2, <1>3, <1>4

\* The process that moves is as lost, and as turned away, as before.
Stays(p) == (p \in refused' <=> p \in refused) /\ (p \in missed' <=> p \in missed)

\* The kinds of moves.
LEMMA MovesAdvance ==
  ASSUME TypeOK, TypeOK', NEW p \in Proc, Stays(p), Known(p)',
         NEW u, u \in Seq(Content), Len(u) >= 1, Upcoming(p) = u,
         Moves(p, u[1], Tail(u))
  PROVE  View!Advance(p)
<1>1. /\ {q \in Proc : Known(q)}' = {q \in Proc : Known(q)} \union {p}
      /\ refused' = refused /\ missed' = missed
  BY MovesSets DEF Stays
<1>2. /\ [q \in Proc |-> Shown(q)]' = [[q \in Proc |-> Shown(q)] EXCEPT ![p] = u[1]]
      /\ [q \in Proc |-> Upcoming(q)]' = [[q \in Proc |-> Upcoming(q)] EXCEPT ![p] = Tail(u)]
  BY MovesTo
<1>3. Tail(u) = SubSeq(u, 1 + 1, Len(u)) /\ 1 \in 1 .. Len(u)
  BY TailIsSubSeq, EmptySeq, LenProperties
<1>4. [q \in Proc |-> Upcoming(q)][p] = u
  OBVIOUS
<1>. QED  BY <1>1, <1>2, <1>3, <1>4 DEF View!Advance

LEMMA MovesFollow ==
  ASSUME IInv, TypeOK', NEW p \in Proc, ~Awaits(p), p \notin missed',
         p \in refused' <=> p \in refused,
         \/ ~Known(p)' /\ Moves(p, Shown(p), <<objectMap>>)
         \/ Known(p)' /\ Moves(p, objectMap, <<>>)
  PROVE  View!Follow(p)
<1>1. ~View!Follows(p) /\ TypeOK
  BY AwaitsFollows DEF IInv
<1>2. Upcoming(p) = <<>> /\ ~Known(p)
  BY UpcomingIs DEF Awaits, HasSnapshot, Known
<1>3. CASE ~Known(p)' /\ Moves(p, Shown(p), <<objectMap>>)
  <2>1. /\ {q \in Proc : Known(q)}' = {q \in Proc : Known(q)} \ {p}
        /\ refused' = refused /\ missed' = missed \ {p}
    BY <1>1, <1>3, MovesSets
  <2>2. /\ [q \in Proc |-> Shown(q)]' = [[q \in Proc |-> Shown(q)] EXCEPT ![p] = Shown(p)]
        /\ [q \in Proc |-> Upcoming(q)]' =
             [[q \in Proc |-> Upcoming(q)] EXCEPT ![p] = <<objectMap>>]
    BY <1>1, <1>3, MovesTo
  <2>3. /\ {q \in Proc : Known(q)} \ {p} = {q \in Proc : Known(q)}
        /\ [[q \in Proc |-> Shown(q)] EXCEPT ![p] = Shown(p)] = [q \in Proc |-> Shown(q)]
    BY <1>2
  <2>4. /\ {q \in Proc : Known(q)}' = {q \in Proc : Known(q)}
        /\ [q \in Proc |-> Shown(q)]' = [q \in Proc |-> Shown(q)]
    BY <2>1, <2>2, <2>3
  <2>. QED  BY <1>1, <2>1, <2>2, <2>4 DEF View!Follow
<1>4. CASE Known(p)' /\ Moves(p, objectMap, <<>>)
  <2>1. /\ {q \in Proc : Known(q)}' = {q \in Proc : Known(q)} \union {p}
        /\ refused' = refused /\ missed' = missed \ {p}
    BY <1>1, <1>4, MovesSets
  <2>2. /\ [q \in Proc |-> Shown(q)]' = [[q \in Proc |-> Shown(q)] EXCEPT ![p] = objectMap]
        /\ [q \in Proc |-> Upcoming(q)]' = [[q \in Proc |-> Upcoming(q)] EXCEPT ![p] = <<>>]
    BY <1>1, <1>4, MovesTo
  <2>3. [[q \in Proc |-> Upcoming(q)] EXCEPT ![p] = <<>>] = [q \in Proc |-> Upcoming(q)]
    BY <1>2
  <2>4. [q \in Proc |-> Upcoming(q)]' = [q \in Proc |-> Upcoming(q)]
    BY <2>2, <2>3
  <2>. QED  BY <1>1, <2>1, <2>2, <2>4 DEF View!Follow
<1>. QED  BY <1>3, <1>4

LEMMA MovesSkip ==
  ASSUME TypeOK, TypeOK', NEW p \in Proc, ~Known(p), ~Known(p)', Stays(p),
         NEW u, u \in Seq(Content), Len(u) >= 2, Upcoming(p) = u,
         Moves(p, Shown(p), <<u[Len(u)]>>)
  PROVE  View!SkipAhead(p)
<1>1. /\ {q \in Proc : Known(q)}' = {q \in Proc : Known(q)} \ {p}
      /\ refused' = refused /\ missed' = missed
  BY MovesSets DEF Stays
<1>2. /\ [q \in Proc |-> Shown(q)]' = [[q \in Proc |-> Shown(q)] EXCEPT ![p] = Shown(p)]
      /\ [q \in Proc |-> Upcoming(q)]' =
           [[q \in Proc |-> Upcoming(q)] EXCEPT ![p] = <<u[Len(u)]>>]
  <2>. DEFINE shown == Shown(p)
              upcoming == <<u[Len(u)]>>
  <2>1. Moves(p, shown, upcoming)
    OBVIOUS
  <2>. HIDE DEF shown, upcoming
  <2>2. /\ [q \in Proc |-> Shown(q)]' = [[q \in Proc |-> Shown(q)] EXCEPT ![p] = shown]
        /\ [q \in Proc |-> Upcoming(q)]' =
             [[q \in Proc |-> Upcoming(q)] EXCEPT ![p] = upcoming]
    BY <2>1, MovesTo
  <2>. QED  BY <2>2 DEF shown, upcoming
<1>3. /\ {q \in Proc : Known(q)} \ {p} = {q \in Proc : Known(q)}
      /\ [[q \in Proc |-> Shown(q)] EXCEPT ![p] = Shown(p)] = [q \in Proc |-> Shown(q)]
  <2>1. \A q \in Proc : q = p => ~Known(q)
    OBVIOUS
  <2>2. {q \in Proc : Known(q)} \ {p} = {q \in Proc : Known(q)}
    BY <2>1
  <2>3. [[q \in Proc |-> Shown(q)] EXCEPT ![p] = Shown(p)] = [q \in Proc |-> Shown(q)]
    OBVIOUS
  <2>. QED  BY <2>2, <2>3
<1>4. SubSeq(u, Len(u), Len(u)) = <<u[Len(u)]>>
  <2>. DEFINE last == SubSeq(u, Len(u), Len(u))
  <2>1. /\ Len(u) \in Nat /\ \A i \in Len(u) .. Len(u) : u[i] \in Content
    BY LenProperties, ElementOfSeq
  <2>2. /\ last \in Seq(Content) /\ Len(last) = 1 /\ last[1] = u[Len(u)]
    BY <2>1, SubSeqProperties
  <2>. HIDE DEF last
  <2>3. last = <<u[Len(u)]>>
    BY <2>2
  <2>. QED  BY <2>3 DEF last
<1>5. [q \in Proc |-> Upcoming(q)][p] = u /\ Len(u) \in 2 .. Len(u)
  BY LenProperties
<1>6. /\ {q \in Proc : Known(q)}' = {q \in Proc : Known(q)}
      /\ [q \in Proc |-> Shown(q)]' = [q \in Proc |-> Shown(q)]
  BY <1>1, <1>2, <1>3
<1>. QED  BY <1>1, <1>2, <1>4, <1>5, <1>6 DEF View!SkipAhead

LEMMA MovesLeave ==
  ASSUME TypeOK, TypeOK', NEW p \in Proc, Moves(p, Empty, <<>>), ~Known(p)',
         p \notin refused', p \notin missed'
  PROVE  View!Leave(p)
<1>1. /\ {q \in Proc : Known(q)}' = {q \in Proc : Known(q)} \ {p}
      /\ refused' = refused \ {p} /\ missed' = missed \ {p}
  BY MovesSets
<1>2. /\ [q \in Proc |-> Shown(q)]' = [[q \in Proc |-> Shown(q)] EXCEPT ![p] = Empty]
      /\ [q \in Proc |-> Upcoming(q)]' = [[q \in Proc |-> Upcoming(q)] EXCEPT ![p] = <<>>]
  BY MovesTo
<1>. QED  BY <1>1, <1>2 DEF View!Leave, View!Empty, Empty

\* Every move is a step of RegistryView.
LEMMA MoveIsStep ==
  ASSUME NEW p \in Proc, UNCHANGED <<objectMap, signalsConnected>>,
         \/ View!Advance(p) \/ View!Follow(p) \/ View!SkipAhead(p)
         \/ View!TurnAway(p) \/ View!Leave(p)
  PROVE  View!Next
BY DEF View!Next

-----------------------------------------------------------------------------
(***************************************************************************)
(* A process without a map has an empty one.                               *)
(***************************************************************************)
UnknownInv ==
  \A p \in Proc :
    /\ ~HasValidObjects(p) => objects[p] = Empty
    /\ syncReply[p] # <<>> /\ ~Synchronised(p) => Head(syncReply[p]).objects = Empty

LEMMA UnknownQuiet ==
  ASSUME UnknownInv, UNCHANGED replicaVars,
         \A p \in Proc : syncReply'[p] = syncReply[p] \/ syncReply'[p] = <<>>
  PROVE  UnknownInv'
BY DEF UnknownInv, HasValidObjects, Synchronised, replicaVars

LEMMA UnknownSignal ==
  ASSUME UnknownInv, TypeOK, NEW p, NEW signal \in Signal, OnSignal(p, signal),
         UNCHANGED syncReply
  PROVE  UnknownInv'
<1>1. signal.version # INVALID_REGISTRY_VERSION
  BY ConstantsAssumption
     DEF Signal, Version, INITIAL_REGISTRY_VERSION, INVALID_REGISTRY_VERSION
<1>2. \A q \in Proc : \/ /\ registryVersion'[q] = registryVersion[q]
                         /\ objects'[q] = objects[q]
                      \/ registryVersion'[q] = signal.version
  BY DEF OnSignal, replicaVars, TypeOK
<1>. QED  BY <1>1, <1>2 DEF UnknownInv, HasValidObjects, Synchronised

LEMMA UnknownUpdate ==
  ASSUME UnknownInv, TypeOK, NEW p \in Proc, NEW snapshot, UpdateObjects(p, snapshot),
         snapshot.version = INVALID_REGISTRY_VERSION => snapshot.objects = Empty,
         \A q \in Proc : syncReply'[q] = syncReply[q] \/ syncReply'[q] = <<>>
  PROVE  UnknownInv'
<1>1. \A q \in Proc : \/ /\ registryVersion'[q] = registryVersion[q]
                         /\ objects'[q] = objects[q]
                      \/ /\ registryVersion'[q] = snapshot.version
                         /\ objects'[q] = snapshot.objects
  BY DEF UpdateObjects, replicaVars, TypeOK
<1>. QED  BY <1>1 DEF UnknownInv, HasValidObjects, Synchronised

\* An answer to a blocking call is the only one.
LEMMA UnknownReply ==
  ASSUME UnknownInv, NEW p \in Proc, NEW reply, UNCHANGED replicaVars,
         reply.version = INVALID_REGISTRY_VERSION => reply.objects = Empty,
         \A q \in Proc \ {p} : syncReply'[q] = syncReply[q],
         syncReply'[p] = syncReply[p] \/ syncReply'[p] = <<reply>>
  PROVE  UnknownInv'
<1>1. Head(<<reply>>) = reply
  OBVIOUS
<1>2. ASSUME NEW q \in Proc
      PROVE  /\ ~HasValidObjects(q)' => objects'[q] = Empty
             /\ syncReply'[q] # <<>> /\ ~Synchronised(q)' => Head(syncReply'[q]).objects = Empty
  <2>1. CASE syncReply'[q] = syncReply[q]
    BY <2>1 DEF UnknownInv, HasValidObjects, Synchronised, replicaVars
  <2>2. CASE syncReply'[q] = <<reply>>
    BY <1>1, <2>2 DEF UnknownInv, HasValidObjects, Synchronised, replicaVars
  <2>. QED  BY <2>1, <2>2
<1>. QED  BY <1>2 DEF UnknownInv


-----------------------------------------------------------------------------
(***************************************************************************)
(* Every step of the registry is a step of RegistryView or none.           *)
(***************************************************************************)
ViewStep == View!Next \/ UNCHANGED View!vars

LEMMA UpcomingNext ==
  ASSUME NEW p
  PROVE  Upcoming(p)' = IF ~Awaits(p)' THEN <<>>
                        ELSE IF HasValidObjects(p)' THEN Tail(LaterOf(p)') ELSE LaterOf(p)'
BY DEF Upcoming, Awaits, HasSnapshot, LaterOf, First

LEMMA NothingLater ==
  ASSUME NEW map \in Content, NEW current \in Version, NEW queue, queue = <<>>
  PROVE  Later(map, current, queue) = <<map>> /\ Tail(<<map>>) = <<>>
<1>1. queue \in Seq(Signal) /\ Len(queue) = 0 /\ 0 \in 0 .. Len(queue)
  BY EmptySeq
<1>2. Numbered(queue, current)
  BY <1>1, ConstantsAssumption DEF Numbered
<1>3. Lags(map, current, queue, map, current)
  BY <1>1, BehindNow DEF Lags
<1>4. Sound(map, current, queue, map, current)
  BY <1>1, <1>2, <1>3 DEF Sound
<1>5. Tail(<<map>>) = <<>>
  OBVIOUS
<1>. QED  BY <1>4, <1>5, LaterNow

LEMMA VersionValid ==
  ASSUME NEW v \in Version
  PROVE  v # INVALID_REGISTRY_VERSION
BY DEF Version, INITIAL_REGISTRY_VERSION, INVALID_REGISTRY_VERSION

\* The processes a change cuts off.
Cut == IF signalsConnected THEN {} ELSE {p \in refused : View!Follows(p)}

LEMMA CutIs ==
  ASSUME IInv, NEW p \in Proc
  PROVE  /\ p \in Cut <=> ~signalsConnected /\ p \in refused /\ Awaits(p)
         /\ p \in missed \union Unheard <=> p \in missed \/ p \in Cut
<1>1. p \in Cut <=> ~signalsConnected /\ p \in refused /\ Awaits(p)
  BY AwaitsFollows DEF Cut
<1>2. p \in Unheard <=> ~signalsConnected /\ p \in refused /\ HasSnapshot(p)
  BY DEF Unheard
<1>. QED  BY <1>1, <1>2 DEF Awaits

\* A change of the map: the master's own replica is told at once, those that
\* are told of changes will be, the others are cut off.
LEMMA PublishView ==
  ASSUME IInv, IInv', NEW caller \in Proc, NEW path \in Path, Mastered, Room,
         Publish(ChangeSignal(caller, path)), UNCHANGED <<phase, callVars>>
  PROVE  View!Next
<1>. DEFINE signal == ChangeSignal(caller, path)
            service == signal.service
            known == {p \in Proc : Known(p)}
            view == [p \in Proc |-> Shown(p)]
            up == [p \in Proc |-> Upcoming(p)]
<1>1. /\ signal \in Signal /\ signal.version = NextVersion(version) /\ signal.path = path
      /\ Changes(objectMap, signal)
  BY ChangeSignalFacts DEF IInv
<1>2. /\ service \in Proc \union {NoProc} /\ service # objectMap[path]
      /\ objectMap[path] = NoProc \/ service = NoProc
  BY ConstantsAssumption DEF ChangeSignal
<1>. HIDE DEF signal
<1>3. PICK m \in Proc : m = nameOwner
  BY <1>1, PublishFacts DEF signal
<1>4. /\ version \in Version
      /\ objectMap' = Applied(objectMap, signal)
      /\ registryVersion' = [registryVersion EXCEPT ![m] = version']
      /\ objects' = [objects EXCEPT ![m] = objectMap']
      /\ \A q \in Proc : signals'[q] = IF signalsConnected /\ phase[q] = "replica"
                                       THEN Append(signals[q], signal) ELSE signals[q]
      /\ version' = NextVersion(version) /\ phase[m] = "master"
      /\ signalsConnected' = signalsConnected
      /\ refused' = refused /\ missed' = missed \union Unheard
  BY <1>1, <1>3, PublishFacts DEF signal
<1>5. objectMap' = [objectMap EXCEPT ![path] = service] /\ objectMap \in Content
  BY <1>1, <1>4, AppliedChanges DEF IInv, TypeOK
<1>6. version' \in Version /\ objectMap' \in Content
  BY <1>4, <1>1, <1>5, NextVersionType, AppliedType
<1>7. /\ registryVersion'[m] = version' /\ objects'[m] = objectMap'
      /\ registryVersion[m] = version /\ objects[m] = objectMap
      /\ signals[m] = <<>> /\ signals'[m] = <<>>
      /\ m \notin refused /\ m \notin missed /\ m \notin missed'
  BY <1>3, <1>4 DEF IInv, TypeOK, GlobalInv, MasterInv, LocalInv, GoneInv
<1>8. /\ HasValidObjects(m) /\ HasValidObjects(m)'
      /\ Known(m) /\ Known(m)' /\ Shown(m)' = objectMap' /\ m \notin Cut
  <2>1. HasValidObjects(m) /\ HasValidObjects(m)'
    BY <1>4, <1>6, <1>7, VersionValid DEF HasValidObjects
  <2>2. m \notin Cut
    BY <1>7, CutIs
  <2>. QED  BY <1>7, <2>1, <2>2 DEF Known, Shown
<1>9. Upcoming(m) = <<>> /\ Upcoming(m)' = <<>>
  <2>1. Upcoming(m) = Tail(Later(objectMap, version, <<>>))
    BY <1>7, <1>8 DEF Upcoming
  <2>2. Upcoming(m)' = Tail(Later(objectMap', version', <<>>))
    BY <1>7, <1>8 DEF Upcoming
  <2>. QED  BY <1>4, <1>5, <1>6, <2>1, <2>2, NothingLater
<1>10. ASSUME NEW q \in Proc, q # m
       PROVE  /\ objects'[q] = objects[q] /\ registryVersion'[q] = registryVersion[q]
              /\ asyncReply'[q] = asyncReply[q] /\ syncReply'[q] = syncReply[q]
  BY <1>4, <1>10 DEF callVars, IInv, TypeOK
<1>11. ASSUME NEW q \in Proc
       PROVE  q \in missed' <=> q \in missed \/ q \in Cut
  BY <1>4, CutIs
<1>12. ASSUME NEW q \in Proc, q # m, q \notin missed, q \notin Cut
       PROVE  /\ Known(q)' <=> Known(q)
              /\ Shown(q)' = Shown(q)
              /\ Upcoming(q)' = IF View!Follows(q) THEN Append(Upcoming(q), objectMap')
                                ELSE Upcoming(q)
  <2>1. /\ HasValidObjects(q)' <=> HasValidObjects(q)
        /\ Awaits(q)' <=> Awaits(q)
        /\ First(q)' = First(q)
        /\ Known(q)' <=> Known(q)
        /\ Shown(q)' = Shown(q)
    <3>1. /\ HasValidObjects(q)' <=> HasValidObjects(q)
          /\ Synchronised(q)' <=> Synchronised(q)
      BY <1>10, <1>12 DEF HasValidObjects, Synchronised
    <3>2. HasSnapshot(q)' <=> HasSnapshot(q)
      BY <1>10, <1>12, <3>1 DEF HasSnapshot
    <3>3. First(q)' = First(q)
      BY <1>10, <1>12, <3>1 DEF First
    <3>4. q \notin missed'
      BY <1>11, <1>12
    <3>. QED  BY <1>10, <1>12, <3>1, <3>2, <3>3, <3>4 DEF Awaits, Known, Shown
  <2>2. View!Follows(q) <=> Awaits(q)
    BY AwaitsFollows
  <2>3. CASE ~Awaits(q)
    BY <2>1, <2>2, <2>3, UpcomingIs, UpcomingNext
  <2>4. CASE Awaits(q)
    <3>1. /\ Sound(First(q)[1], First(q)[2], signals[q], objectMap, version)
          /\ phase[q] = "replica" /\ signalsConnected
      <4>1. /\ Sound(First(q)[1], First(q)[2], signals[q], objectMap, version)
            /\ phase[q] = "replica"
            /\ ~signalsConnected => q \in refused
        BY <1>3, <1>12, <2>4, SoundFirst
      <4>. QED  BY <1>12, <2>4, <4>1, CutIs
    <3>2. signals'[q] = Append(signals[q], signal)
      BY <1>4, <3>1
    <3>3. Len(signals[q]) <= MaxVersion - 3
      <4>1. Len(signals[q]) \in Nat
        BY LenProperties DEF IInv, TypeOK
      <4>2. Len(signals[q]) < MaxVersion - 2
        BY DEF Room
      <4>. QED  BY <4>1, <4>2, ConstantsAssumption
    <3>4. LaterOf(q)' = Append(LaterOf(q), objectMap')
      <4>1. LaterOf(q)' = Later(First(q)[1], First(q)[2], Append(signals[q], signal))
        <5>1. LaterOf(q)' = Later(First(q)'[1], First(q)'[2], signals'[q])
          BY Zenon DEF LaterOf
        <5>2. First(q)'[1] = First(q)[1] /\ First(q)'[2] = First(q)[2]
          BY <2>1
        <5>. QED  BY <3>2, <5>1, <5>2, Zenon
      <4>2. Later(First(q)[1], First(q)[2], Append(signals[q], signal)) =
              Append(Later(First(q)[1], First(q)[2], signals[q]), Applied(objectMap, signal))
        BY <1>1, <3>1, <3>3, LaterAppend
      <4>. QED  BY <1>4, <4>1, <4>2 DEF LaterOf
    <3>5. LaterOf(q) \in Seq(Content) /\ LaterOf(q) # <<>>
      BY <3>1, LaterProperties, EmptySeq DEF LaterOf
    <3>6. Tail(LaterOf(q)') = Append(Tail(LaterOf(q)), objectMap')
      BY <3>4, <3>5, HeadTailAppend
    <3>7. /\ Upcoming(q) = IF HasValidObjects(q) THEN Tail(LaterOf(q)) ELSE LaterOf(q)
          /\ Upcoming(q)' = IF HasValidObjects(q)' THEN Tail(LaterOf(q)') ELSE LaterOf(q)'
      <4>1. Upcoming(q) = IF HasValidObjects(q) THEN Tail(LaterOf(q)) ELSE LaterOf(q)
        BY <2>4, UpcomingIs
      <4>2. Awaits(q)'
        BY <2>1, <2>4
      <4>3. Upcoming(q)' = IF HasValidObjects(q)' THEN Tail(LaterOf(q)') ELSE LaterOf(q)'
        BY <4>2, UpcomingNext
      <4>. QED  BY <4>1, <4>3
    <3>8. Upcoming(q)' = Append(Upcoming(q), objectMap')
      <4>1. CASE HasValidObjects(q)
        BY <2>1, <3>6, <3>7, <4>1, Zenon
      <4>2. CASE ~HasValidObjects(q)
        BY <2>1, <3>4, <3>7, <4>2, Zenon
      <4>. QED  BY <4>1, <4>2, Zenon
    <3>. QED  BY <2>1, <2>2, <2>4, <3>8, Zenon
  <2>. QED  BY <2>1, <2>3, <2>4
<1>13. ASSUME NEW q \in Proc
       PROVE  /\ Known(q)' <=> Known(q) /\ q \notin Cut
              /\ Shown(q)' = IF q \in Cut THEN Empty
                             ELSE IF q = m THEN objectMap' ELSE Shown(q)
              /\ Upcoming(q)' = IF q \in Cut THEN <<>>
                                ELSE IF View!Follows(q) /\ q # m
                                     THEN Append(Upcoming(q), objectMap') ELSE Upcoming(q)
  <2>1. CASE q = m
    BY <1>8, <1>9, <2>1
  <2>2. CASE q # m /\ q \in missed
    <3>1. q \notin Cut /\ ~View!Follows(q)
      BY <2>2, CutIs, AwaitsFollows DEF Awaits
    <3>2. q \in missed'
      BY <1>11, <2>2
    <3>. QED  BY <2>2, <3>1, <3>2 DEF Known, Shown, Upcoming
  <2>3. CASE q # m /\ q \notin missed /\ q \in Cut
    <3>1. q \in missed'
      BY <1>11, <2>3
    <3>. QED  BY <2>3, <3>1 DEF Known, Shown, Upcoming
  <2>4. CASE q # m /\ q \notin missed /\ q \notin Cut
    BY <1>12, <2>4
  <2>. QED  BY <2>1, <2>2, <2>3, <2>4
<1>14. missed' = missed \union Cut
  <2>1. missed' \subseteq Proc /\ missed \subseteq Proc /\ Cut \subseteq Proc
    BY DEF IInv, TypeOK, Cut
  <2>. QED  BY <1>11, <2>1
<1>15. known' = known \ Cut
  BY <1>13
<1>. DEFINE direct == {m}
<1>16. direct \in SUBSET {p \in known \ Cut : up[p] = <<>>}
  BY <1>8, <1>9
<1>17. view' = [p \in Proc |-> IF p \in Cut THEN Empty
                               ELSE IF p \in direct THEN objectMap' ELSE view[p]]
  BY <1>13
<1>18. up' = [p \in Proc |-> IF p \in Cut THEN <<>>
                             ELSE IF View!Follows(p) /\ p \notin direct
                                  THEN Append(up[p], objectMap') ELSE up[p]]
  BY <1>13
<1>. HIDE DEF direct
<1>19. View!Change(path, service)
  <2>1. UNCHANGED <<signalsConnected, refused>>
    BY <1>4
  <2>. QED  BY <1>2, <1>5, <1>14, <1>15, <1>16, <1>17, <1>18, <2>1
            DEF View!Change, View!Empty, Empty, Cut
<1>. QED  BY <1>2, <1>19 DEF View!Next

LEMMA MasterChangeView ==
  ASSUME IInv, IInv', UnknownInv, NEW caller \in Proc, NEW path \in Path, Mastered,
         MasterChange(caller, path), UNCHANGED <<phase, callVars>>
  PROVE  ViewStep /\ UnknownInv'
<1>1. UNCHANGED <<syncReply, asyncReply>>
  BY DEF callVars
<1>2. CASE Room /\ Publish(ChangeSignal(caller, path))
  <2>1. OnSignal(nameOwner, ChangeSignal(caller, path)) /\ ChangeSignal(caller, path) \in Signal
    BY <1>2, ChangeSignalFacts DEF Publish, IInv
  <2>2. UnknownInv'
    BY <1>1, <2>1, UnknownSignal DEF IInv
  <2>. QED  BY <1>2, <2>2, PublishView DEF ViewStep
<1>3. CASE UNCHANGED <<masterVars, signals, replicaVars, historyVars>>
  <2>1. UNCHANGED <<objectMap, signalsConnected, signals, objects, registryVersion,
                    refused, missed>>
    BY <1>3 DEF masterVars, replicaVars, historyVars
  <2>2. \A p \in Proc : Same(p)
    BY <1>1, <2>1, SameWhen
  <2>3. UnknownInv'
    BY <1>1, <1>3, UnknownQuiet
  <2>. QED  BY <2>1, <2>2, <2>3, Stutters DEF ViewStep, IInv
<1>. QED  BY <1>2, <1>3, MasterChangeCases DEF IInv

\* Steps after which everything that is shown of a process is as before.
LEMMA AnswerView ==
  ASSUME IInv, IInv', UnknownInv',
         UNCHANGED <<objectMap, signalsConnected, objects, registryVersion, signals,
                     asyncReply, refused, missed>>,
         \A p \in Proc : \/ syncReply'[p] = syncReply[p]
                         \/ ~Synchronised(p) /\ ~Synchronised(p)'
  PROVE  ViewStep
<1>1. \A p \in Proc : Same(p)
  BY SameWhen
<1>. QED  BY <1>1, Stutters DEF ViewStep, IInv

LEMMA QuietView ==
  ASSUME IInv, IInv', UnknownInv,
         UNCHANGED <<objectMap, signalsConnected, objects, registryVersion, signals,
                     asyncReply, syncReply, refused, missed>>
  PROVE  ViewStep /\ UnknownInv'
<1>1. UnknownInv'
  BY UnknownQuiet DEF replicaVars
<1>. QED  BY <1>1, AnswerView

LEMMA ServiceView ==
  ASSUME IInv, IInv', UnknownInv, NEW p \in Proc, NEW path \in Path,
         RegisterService(p, path) \/ UnregisterService(p, path)
  PROVE  ViewStep /\ UnknownInv'
<1>1. UNCHANGED <<phase, callVars>>
  BY DEF RegisterService, UnregisterService
<1>2. CASE phase[p] = "master" /\ MasterChange(p, path)
  <2>1. Mastered
    BY <1>2, ConstantsAssumption DEF IInv, GlobalInv, RolesInv, Mastered
  <2>. QED  BY <1>1, <1>2, <2>1, MasterChangeView
<1>3. ASSUME NEW request, Call(p, request)
      PROVE  ViewStep /\ UnknownInv'
  BY <1>1, <1>3, QuietView DEF Call, masterVars, replicaVars, callVars, historyVars
<1>. QED  BY <1>2, <1>3 DEF RegisterService, UnregisterService, MasterChange

LEMMA HandleChangeView ==
  ASSUME IInv, IInv', UnknownInv, NEW p \in Proc,
         HandleRegisterObject(p) \/ HandleUnregisterObject(p)
  PROVE  ViewStep /\ UnknownInv'
<1>1. PICK member \in {"registerObject", "unregisterObject"} : Receives(p, member)
  BY DEF HandleRegisterObject, HandleUnregisterObject
<1>2. /\ Mastered /\ UNCHANGED <<phase, callVars>>
      /\ MasterChange(p, Head(requests[p]).path)
  BY DEF HandleRegisterObject, HandleUnregisterObject, MasterChange, Serving
<1>3. Head(requests[p]).path \in Path
  BY <1>1, ReceivesType DEF IInv
<1>. QED  BY <1>2, <1>3, MasterChangeView

\* The master starts with the map it has.
LEMMA MasterInitView ==
  ASSUME IInv, IInv', UnknownInv, NEW p \in Proc, MasterInit(p)
  PROVE  ViewStep /\ UnknownInv'
<1>. DEFINE v == NextVersion(INITIAL_REGISTRY_VERSION)
            snapshot == [objects |-> objectMap, version |-> v]
<1>1. /\ phase[p] = "naming" /\ UpdateObjects(p, snapshot)
      /\ UNCHANGED <<objectMap, signals, asyncReply, syncReply, signalsConnected, nameOwner,
                     refused, missed>>
      /\ phase' = [phase EXCEPT ![p] = "master"] /\ version' = v
  BY DEF MasterInit, callVars, historyVars
<1>2. p = nameOwner /\ ~Mastered
  BY <1>1 DEF IInv, GlobalInv, RolesInv, Mastered
<1>3. /\ ~HasSnapshot(p) /\ ~HasValidObjects(p) /\ signals[p] = <<>> /\ asyncReply[p] = <<>>
      /\ syncReply[p] = <<>> /\ p \notin missed
  BY <1>1, <1>2 DEF HasSnapshot, IInv, GlobalInv, StoppedInv, LocalInv, GoneInv
<1>4. ~Awaits(p) /\ p \notin missed'
  BY <1>1, <1>3 DEF Awaits
<1>5. v \in Version
  BY NextVersionType, ConstantsAssumption DEF Version, INITIAL_REGISTRY_VERSION
<1>. HIDE DEF v
<1>6. /\ registryVersion' = [registryVersion EXCEPT ![p] = v]
      /\ objects' = [objects EXCEPT ![p] = objectMap]
  BY <1>1, <1>3 DEF UpdateObjects
<1>7. /\ registryVersion'[p] = v /\ objects'[p] = objectMap
      /\ \A q \in Proc \ {p} : registryVersion'[q] = registryVersion[q] /\ objects'[q] = objects[q]
  BY <1>6 DEF IInv, TypeOK
<1>8. HasValidObjects(p)' /\ Known(p)' /\ Shown(p)' = objectMap
  BY <1>4, <1>5, <1>7, VersionValid DEF HasValidObjects, Known, Shown
<1>9. Upcoming(p)' = <<>>
  <2>1. Upcoming(p)' = Tail(Later(objectMap, v, <<>>))
    BY <1>1, <1>3, <1>4, <1>7, <1>8 DEF Upcoming
  <2>2. objectMap \in Content
    BY DEF IInv, TypeOK
  <2>. QED  BY <1>5, <2>1, <2>2, NothingLater
<1>10. \A q \in Proc \ {p} : Same(q)
  BY <1>1, <1>7, SameWhen
<1>11. Moves(p, objectMap, <<>>)
  BY <1>1, <1>8, <1>9, <1>10 DEF Moves
<1>12. View!Follow(p)
  BY <1>1, <1>4, <1>8, <1>11, MovesFollow DEF IInv
<1>13. snapshot.version # INVALID_REGISTRY_VERSION
  BY <1>5, VersionValid
<1>. HIDE DEF snapshot
<1>14. UnknownInv'
  BY <1>1, <1>13, UnknownUpdate DEF IInv
<1>. QED  BY <1>1, <1>12, <1>14, MoveIsStep DEF ViewStep

\* A snapshot of the current map is the last value that is to come.
LEMMA NewSnapshot ==
  ASSUME IInv, NEW p \in Proc, Mastered
  PROVE  Later(objectMap, version, signals[p]) = <<objectMap>>
<1>1. /\ objectMap \in Content /\ version \in Version /\ signals[p] \in Seq(Signal)
      /\ Numbered(signals[p], version) /\ 0 \in 0 .. Len(signals[p])
  BY LenProperties DEF IInv, TypeOK, GlobalInv, MasterInv, DataInv, QueueInv
<1>2. Lags(objectMap, version, signals[p], objectMap, version)
  BY <1>1, BehindNow DEF Lags
<1>. QED  BY <1>1, <1>2, LaterNow DEF Sound

\* Who waits for an answer has no map, and the answer is the only one.
LEMMA AnsweredView ==
  ASSUME IInv, UnknownInv, NEW p \in Proc, NEW member \in {"GetAllProperties", "getObjects"},
         Receives(p, member), NEW answer, Answered(p, answer),
         UNCHANGED <<blocked, phase, replicaVars>>,
         \A q \in Proc \ {p} : asyncReply'[q] = asyncReply[q],
         asyncReply'[p] = asyncReply[p] \/ AsksAsync(Head(requests[p])),
         answer.version = INVALID_REGISTRY_VERSION => answer.objects = Empty
  PROVE  /\ UnknownInv'
         /\ \A q \in Proc \ {p} : syncReply'[q] = syncReply[q]
         /\ AsksAsync(Head(requests[p])) => asyncReply[p] = <<>>
         /\ CallerIs(p, "waiting") =>
              /\ syncReply[p] = <<>> /\ syncReply'[p] = <<answer>>
              /\ ~HasValidObjects(p) /\ ~HasValidObjects(p)'
         /\ ~CallerIs(p, "waiting") => syncReply'[p] = syncReply[p]
<1>1. /\ \A q \in Proc \ {p} : syncReply'[q] = syncReply[q]
      /\ CallerIs(p, "waiting") <=> AsksWaiting(Head(requests[p])) /\ phase[p] = "replica"
      /\ CallerIs(p, "waiting") => syncReply'[p] = <<answer>> /\ blocked[p]
      /\ ~CallerIs(p, "waiting") => syncReply'[p] = syncReply[p]
  BY AnsweredFacts
<1>2. /\ AsksAsync(Head(requests[p])) => asyncReply[p] = <<>>
      /\ AsksWaiting(Head(requests[p])) /\ phase[p] = "replica" => syncReply[p] = <<>>
  BY <1>1, ReceivesCalls
<1>3. CallerIs(p, "waiting") => ~HasValidObjects(p) /\ ~HasValidObjects(p)'
  BY <1>1 DEF IInv, LocalInv, BlockedInv, HasValidObjects, replicaVars
<1>4. UnknownInv'
  BY <1>1, UnknownReply
<1>. QED  BY <1>1, <1>2, <1>3, <1>4

\* An answer without a map is not seen.
LEMMA WithoutMapView ==
  ASSUME NEW p, NEW member, syncReply[p] = <<>>, syncReply'[p] = <<WithoutMap(member)>>
  PROVE  ~Synchronised(p) /\ ~Synchronised(p)'
<1>. DEFINE answer == WithoutMap(member)
<1>1. answer.version = INVALID_REGISTRY_VERSION
  BY DEF WithoutMap
<1>. HIDE DEF answer
<1>2. syncReply'[p] = <<answer>> /\ Head(<<answer>>) = answer
  BY DEF answer
<1>. QED  BY <1>1, <1>2 DEF Synchronised

\* From the first GetAllProperties call on, changes are told.
LEMMA HandleGetAllPropertiesView ==
  ASSUME IInv, IInv', UnknownInv, NEW p \in Proc, HandleGetAllProperties(p)
  PROVE  ViewStep /\ UnknownInv'
<1>. DEFINE answer == WithoutMap("GetAllProperties")
<1>1. /\ Receives(p, "GetAllProperties") /\ Answered(p, answer) /\ signalsConnected' = TRUE
      /\ UNCHANGED <<objectMap, signals, asyncReply, blocked, phase, objects,
                     registryVersion, replicaVars, refused, missed>>
  BY DEF HandleGetAllProperties, replicaVars, historyVars
<1>2. answer.version = INVALID_REGISTRY_VERSION => answer.objects = Empty
  BY DEF WithoutMap
<1>. HIDE DEF answer
<1>3. /\ UnknownInv'
      /\ \A q \in Proc \ {p} : syncReply'[q] = syncReply[q]
      /\ CallerIs(p, "waiting") => syncReply[p] = <<>> /\ syncReply'[p] = <<answer>>
      /\ ~CallerIs(p, "waiting") => syncReply'[p] = syncReply[p]
  BY <1>1, <1>2, AnsweredView
<1>4. syncReply'[p] = syncReply[p] \/ (~Synchronised(p) /\ ~Synchronised(p)')
  BY <1>3, WithoutMapView DEF answer
<1>5. \A q \in Proc : Same(q)
  BY <1>1, <1>3, <1>4, SameWhen
<1>6. /\ {q \in Proc : Known(q)}' = {q \in Proc : Known(q)}
      /\ [q \in Proc |-> Shown(q)]' = [q \in Proc |-> Shown(q)]
      /\ [q \in Proc |-> Upcoming(q)]' = [q \in Proc |-> Upcoming(q)]
      /\ refused' = refused /\ missed' = missed
  BY <1>5, AllSeen, AllSame DEF IInv
<1>7. View!StartTelling
  BY <1>1, <1>6 DEF View!StartTelling
<1>. QED  BY <1>3, <1>7 DEF ViewStep, View!Next

\* The answer to a blocking call overtakes the asynchronous one: a process
\* that already follows the map skips the values in between.
LEMMA HandleGetObjectsView ==
  ASSUME IInv, IInv', UnknownInv, NEW p \in Proc, HandleGetObjects(p)
  PROVE  ViewStep /\ UnknownInv'
<1>. DEFINE answer == [member |-> "getObjects", objects |-> objectMap, version |-> version]
            reply == [behind |-> Len(signals[p]), objects |-> objectMap, version |-> version]
<1>1. /\ Mastered /\ Receives(p, "getObjects") /\ Answered(p, answer)
      /\ UNCHANGED <<objectMap, objects, registryVersion, replicaVars, signals, version, blocked,
                     phase, signalsConnected, refused>>
      /\ asyncReply' = IF CallerIs(p, "async")
                       THEN [asyncReply EXCEPT ![p] = Append(@, reply)] ELSE asyncReply
      /\ missed' = IF CallerIs(p, "waiting") THEN missed \ {p} ELSE missed
  BY DEF HandleGetObjects, Serving, masterVars, replicaVars
<1>2. /\ version \in Version /\ objectMap \in Content
      /\ Head(requests[p]).member = "getObjects"
      /\ ~(CallerIs(p, "async") /\ CallerIs(p, "waiting"))
  BY <1>1 DEF IInv, TypeOK, GlobalInv, MasterInv, Receives, CallerIs
<1>3. /\ answer.version # INVALID_REGISTRY_VERSION
      /\ answer.objects = objectMap /\ answer.version = version
      /\ reply.objects = objectMap /\ reply.version = version
  BY <1>2, VersionValid
<1>4. /\ \A q \in Proc \ {p} : asyncReply'[q] = asyncReply[q]
      /\ asyncReply'[p] = asyncReply[p] \/ AsksAsync(Head(requests[p]))
      /\ CallerIs(p, "async") => asyncReply'[p] = Append(asyncReply[p], reply)
  <2>. HIDE DEF reply
  <2>. QED  BY <1>1, <1>2 DEF IInv, TypeOK, AsksAsync, CallerIs
<1>. HIDE DEF answer, reply
<1>5. /\ UnknownInv'
      /\ \A q \in Proc \ {p} : syncReply'[q] = syncReply[q]
      /\ AsksAsync(Head(requests[p])) => asyncReply[p] = <<>>
      /\ CallerIs(p, "waiting") =>
           /\ syncReply[p] = <<>> /\ syncReply'[p] = <<answer>>
           /\ ~HasValidObjects(p) /\ ~HasValidObjects(p)'
      /\ ~CallerIs(p, "waiting") => syncReply'[p] = syncReply[p]
  BY <1>1, <1>3, <1>4, AnsweredView
<1>6. \A q \in Proc \ {p} : Same(q)
  BY <1>1, <1>4, <1>5, SameWhen
<1>7. Later(objectMap, version, signals[p]) = <<objectMap>>
  BY <1>1, NewSnapshot
<1>8. CASE ~CallerIs(p, "async") /\ ~CallerIs(p, "waiting")
  <2>1. \A q \in Proc : syncReply'[q] = syncReply[q]
    BY <1>5, <1>8
  <2>. QED  BY <1>1, <1>5, <1>8, <2>1, AnswerView
<1>9. CASE CallerIs(p, "async") /\ ~CallerIs(p, "waiting")
  <2>1. asyncReply'[p] = <<reply>> /\ Head(<<reply>>) = reply /\ asyncReply[p] = <<>>
    <3>1. asyncReply[p] = <<>>
      BY <1>2, <1>5, <1>9 DEF AsksAsync, CallerIs
    <3>. QED  BY <1>4, <1>9, <3>1
  <2>2. /\ HasValidObjects(p)' <=> HasValidObjects(p)
        /\ Synchronised(p)' <=> Synchronised(p)
        /\ objects'[p] = objects[p] /\ missed' = missed
    BY <1>1, <1>5, <1>9 DEF HasValidObjects, Synchronised
  <2>3. (Known(p)' <=> Known(p)) /\ Shown(p)' = Shown(p)
    BY <2>2 DEF Known, Shown
  <2>4. CASE p \in missed \/ HasValidObjects(p) \/ Synchronised(p)
    <3>1. Upcoming(p)' = Upcoming(p)
      BY <1>1, <1>5, <1>9, <2>2, <2>4 DEF Upcoming
    <3>2. \A q \in Proc : Same(q)
      BY <1>1, <1>6, <2>2, <2>3, <3>1 DEF Same, Seen
    <3>. QED  BY <1>1, <1>5, <3>2, Stutters DEF ViewStep, IInv
  <2>5. CASE p \notin missed /\ ~HasValidObjects(p) /\ ~Synchronised(p)
    <3>1. ~Awaits(p) /\ ~Known(p)' /\ p \notin missed'
      BY <2>1, <2>2, <2>3, <2>5 DEF Awaits, HasSnapshot, Known
    <3>2. Upcoming(p)' = Later(reply.objects, reply.version, signals[p])
      BY <1>1, <2>1, <2>2, <2>5 DEF Upcoming
    <3>3. Upcoming(p)' = <<objectMap>>
      BY <1>3, <1>7, <3>2
    <3>4. Moves(p, Shown(p), <<objectMap>>)
      BY <1>1, <1>6, <2>3, <3>3 DEF Moves
    <3>5. View!Follow(p)
      BY <1>1, <3>1, <3>4, MovesFollow DEF IInv
    <3>. QED  BY <1>1, <1>5, <3>5, MoveIsStep DEF ViewStep
  <2>. QED  BY <2>4, <2>5
<1>10. CASE CallerIs(p, "waiting")
  <2>1. /\ syncReply[p] = <<>> /\ syncReply'[p] = <<answer>> /\ Head(<<answer>>) = answer
        /\ ~HasValidObjects(p) /\ ~HasValidObjects(p)' /\ missed' = missed \ {p}
        /\ asyncReply'[p] = asyncReply[p]
    BY <1>1, <1>2, <1>5, <1>10
  <2>2. /\ ~Known(p) /\ ~Known(p)' /\ p \notin missed'
        /\ ~Synchronised(p) /\ Synchronised(p)'
    BY <1>3, <2>1 DEF Known, Synchronised
  <2>3. Shown(p)' = Shown(p)
    BY <1>1, <2>1 DEF Shown, UnknownInv
  <2>4. Upcoming(p)' = <<objectMap>>
    <3>1. Upcoming(p)' = Later(answer.objects, answer.version, signals[p])
      BY <1>1, <2>1, <2>2 DEF Upcoming
    <3>. QED  BY <1>3, <1>7, <3>1
  <2>5. Moves(p, Shown(p), <<objectMap>>)
    BY <1>1, <1>6, <2>3, <2>4 DEF Moves
  <2>6. CASE ~Awaits(p)
    <3>1. View!Follow(p)
      BY <1>1, <2>2, <2>5, <2>6, MovesFollow DEF IInv
    <3>. QED  BY <1>1, <1>5, <3>1, MoveIsStep DEF ViewStep
  <2>7. CASE Awaits(p)
    <3>. DEFINE u == LaterOf(p)
    <3>1. /\ u \in Seq(Content) /\ Len(u) \in Nat /\ Len(u) >= 1 /\ u[Len(u)] = objectMap
      BY <2>7, SoundFirst, LaterProperties DEF LaterOf
    <3>2. Upcoming(p) = u /\ Stays(p)
      BY <1>1, <2>1, <2>2, <2>7, UpcomingIs DEF Awaits, Stays
    <3>. HIDE DEF u
    <3>3. CASE Len(u) >= 2
      <4>1. Moves(p, Shown(p), <<u[Len(u)]>>)
        BY <2>5, <3>1
      <4>2. View!SkipAhead(p)
        BY <2>2, <3>1, <3>2, <3>3, <4>1, MovesSkip DEF IInv
      <4>. QED  BY <1>1, <1>5, <4>2, MoveIsStep DEF ViewStep
    <3>4. CASE Len(u) = 1
      <4>1. u = <<objectMap>>
        BY <3>1, <3>4
      <4>2. Same(p)
        BY <1>1, <2>2, <2>3, <2>4, <3>2, <4>1 DEF Same, Seen, Stays
      <4>3. \A q \in Proc : Same(q)
        BY <1>6, <4>2
      <4>. QED  BY <1>1, <1>5, <4>3, Stutters DEF ViewStep, IInv
    <3>5. Len(u) >= 2 \/ Len(u) = 1
      <4>1. ASSUME NEW n, n \in Nat, n >= 1
            PROVE  n >= 2 \/ n = 1
        BY <4>1
      <4>. QED  BY <3>1, <4>1, Zenon
    <3>. QED  BY <3>3, <3>4, <3>5, Zenon
  <2>. QED  BY <2>6, <2>7
<1>. QED  BY <1>8, <1>9, <1>10

\* A refused call for the map tells nothing; one that asked to be told of
\* changes is turned away.
LEMMA RefuseRequestView ==
  ASSUME IInv, IInv', UnknownInv, NEW p \in Proc, RefuseRequest(p)
  PROVE  ViewStep /\ UnknownInv'
<1>1. /\ ~signalsConnected
      /\ UNCHANGED <<objectMap, signalsConnected, objects, registryVersion, replicaVars, signals,
                     asyncReply, blocked, phase, missed>>
  <2>1. nameOwner # NoProc /\ phase[nameOwner] = "naming"
    BY DEF RefuseRequest
  <2>2. ~signalsConnected
    BY <2>1 DEF IInv, GlobalInv, StoppedInv, Mastered
  <2>. QED  BY <2>2 DEF RefuseRequest, masterVars, replicaVars
<1>2. CASE UNCHANGED <<syncReply, refused>>
  BY <1>1, <1>2, QuietView
<1>3. ASSUME NEW member \in {"GetAllProperties", "getObjects"}, Receives(p, member),
             Answered(p, WithoutMap(member))
      PROVE  /\ UnknownInv'
             /\ \A q \in Proc : \/ syncReply'[q] = syncReply[q]
                                \/ ~Synchronised(q) /\ ~Synchronised(q)'
  <2>. DEFINE answer == WithoutMap(member)
  <2>1. answer.version = INVALID_REGISTRY_VERSION => answer.objects = Empty
    BY DEF WithoutMap
  <2>2. Answered(p, answer)
    BY <1>3
  <2>. HIDE DEF answer
  <2>3. /\ UnknownInv'
        /\ \A q \in Proc \ {p} : syncReply'[q] = syncReply[q]
        /\ CallerIs(p, "waiting") => syncReply[p] = <<>> /\ syncReply'[p] = <<answer>>
        /\ ~CallerIs(p, "waiting") => syncReply'[p] = syncReply[p]
    BY <1>1, <1>3, <2>1, <2>2, AnsweredView
  <2>4. syncReply'[p] = syncReply[p] \/ (~Synchronised(p) /\ ~Synchronised(p)')
    BY <2>3, WithoutMapView DEF answer
  <2>. QED  BY <2>3, <2>4
<1>4. CASE /\ Receives(p, "getObjects") /\ Answered(p, WithoutMap("getObjects"))
           /\ UNCHANGED refused
  <2>1. /\ UnknownInv'
        /\ \A q \in Proc : \/ syncReply'[q] = syncReply[q]
                           \/ ~Synchronised(q) /\ ~Synchronised(q)'
    BY <1>3, <1>4
  <2>. QED  BY <1>1, <1>4, <2>1, AnswerView
<1>5. CASE /\ Receives(p, "GetAllProperties") /\ Answered(p, WithoutMap("GetAllProperties"))
           /\ refused' = IF phase[p] = "replica" THEN refused \union {p} ELSE refused
  <2>1. /\ UnknownInv'
        /\ \A q \in Proc : \/ syncReply'[q] = syncReply[q]
                           \/ ~Synchronised(q) /\ ~Synchronised(q)'
    BY <1>3, <1>5
  <2>2. CASE phase[p] # "replica"
    BY <1>1, <1>5, <2>1, <2>2, AnswerView
  <2>3. CASE phase[p] = "replica"
    <3>1. \A q \in Proc : Seen(q)
      BY <1>1, <2>1, SeenWhen
    <3>2. refused' = refused \union {p}
      BY <1>5, <2>3
    <3>3. View!TurnAway(p)
      BY <1>1, <3>1, <3>2, AllSeen DEF View!TurnAway, IInv
    <3>. QED  BY <1>1, <2>1, <3>3, MoveIsStep DEF ViewStep
  <2>. QED  BY <2>2, <2>3
<1>. QED  BY <1>2, <1>4, <1>5 DEF RefuseRequest

\* Asking is not seen yet, nor are the calls of the master's process.
LEMMA StartView ==
  ASSUME IInv, IInv', UnknownInv, NEW p \in Proc,
         StartStep(p) \/ SyncObjects(p) \/ MasterCalls(p) \/ CallEnds(p)
  PROVE  ViewStep /\ UnknownInv'
<1>1. UNCHANGED <<objectMap, signalsConnected, objects, registryVersion, signals, asyncReply,
                  syncReply, refused, missed>>
  BY DEF StartStep, InitAsMaster, InitAsReplica, SyncObjects, MasterCalls, CallEnds,
         MasterCallReturns, MasterCallTimesOut, masterVars, callVars, replicaVars, historyVars
<1>. QED  BY <1>1, QuietView

\* The end of the first blocking call, and the expiry of one.
LEMMA SyncPropertiesReturnView ==
  ASSUME IInv, IInv', UnknownInv, NEW p \in Proc, SyncPropertiesReturn(p)
  PROVE  ViewStep /\ UnknownInv'
<1>1. /\ syncReply[p] # <<>> /\ Head(syncReply[p]).member = "GetAllProperties"
      /\ syncReply' = [syncReply EXCEPT ![p] = Tail(@)]
      /\ UNCHANGED <<objectMap, signalsConnected, objects, registryVersion, replicaVars, signals,
                     asyncReply, refused, missed>>
  BY DEF SyncPropertiesReturn, masterVars, replicaVars, historyVars
<1>2. Tail(syncReply[p]) = <<>> /\ Head(syncReply[p]) = syncReply[p][1]
  BY <1>1, HeldAnswer
<1>3. syncReply'[p] = <<>> /\ \A q \in Proc \ {p} : syncReply'[q] = syncReply[q]
  BY <1>1, <1>2 DEF IInv, TypeOK
<1>4. ~Synchronised(p) /\ ~Synchronised(p)'
  BY <1>1, <1>2, <1>3 DEF Synchronised, IInv, DataInv, SyncInv
<1>5. \A q \in Proc : \/ syncReply'[q] = syncReply[q]
                      \/ ~Synchronised(q) /\ ~Synchronised(q)'
  BY <1>3, <1>4
<1>6. UnknownInv'
  BY <1>1, <1>3, UnknownQuiet
<1>. QED  BY <1>1, <1>5, <1>6, AnswerView

LEMMA SyncCallTimesOutView ==
  ASSUME IInv, IInv', UnknownInv, NEW p \in Proc, SyncCallTimesOut(p)
  PROVE  ViewStep /\ UnknownInv'
<1>1. PICK member \in {"GetAllProperties", "getObjects"} :
        syncReply' = [syncReply EXCEPT ![p] = <<WithoutMap(member)>>]
  BY DEF SyncCallTimesOut
<1>2. /\ syncReply[p] = <<>>
      /\ UNCHANGED <<objectMap, signalsConnected, objects, registryVersion, replicaVars, signals,
                     asyncReply, refused, missed>>
  BY DEF SyncCallTimesOut, masterVars, replicaVars, historyVars
<1>. DEFINE answer == WithoutMap(member)
<1>3. answer.version = INVALID_REGISTRY_VERSION => answer.objects = Empty
  BY DEF WithoutMap
<1>. HIDE DEF answer
<1>4. syncReply'[p] = <<answer>> /\ \A q \in Proc \ {p} : syncReply'[q] = syncReply[q]
  BY <1>1 DEF IInv, TypeOK, answer
<1>5. ~Synchronised(p) /\ ~Synchronised(p)'
  BY <1>2, <1>4, WithoutMapView DEF answer
<1>6. UnknownInv'
  BY <1>2, <1>3, <1>4, UnknownReply
<1>7. \A q \in Proc : \/ syncReply'[q] = syncReply[q]
                      \/ ~Synchronised(q) /\ ~Synchronised(q)'
  BY <1>4, <1>5
<1>. QED  BY <1>2, <1>6, <1>7, AnswerView
-----------------------------------------------------------------------------
\* A snapshot that is taken over is the first of the values to come.
LEMMA TakesSnapshot ==
  ASSUME IInv, IInv', NEW p \in Proc, Awaits(p), ~HasValidObjects(p),
         First(p)[2] # INVALID_REGISTRY_VERSION,
         UNCHANGED <<objectMap, signalsConnected>>, Stays(p), signals'[p] = signals[p],
         objects'[p] = First(p)[1], registryVersion'[p] = First(p)[2],
         \A q \in Proc \ {p} : Same(q)
  PROVE  ViewStep
<1>. DEFINE u == LaterOf(p)
<1>1. u \in Seq(Content) /\ Len(u) >= 1 /\ u[1] = First(p)[1]
  BY SoundFirst, LaterProperties DEF LaterOf
<1>2. Upcoming(p) = u
  BY UpcomingIs
<1>3. HasValidObjects(p)' /\ p \notin missed' /\ Known(p)' /\ Shown(p)' = u[1]
  BY <1>1 DEF HasValidObjects, Awaits, Stays, Known, Shown
<1>4. Upcoming(p)' = Tail(Later(objects'[p], registryVersion'[p], signals'[p]))
  BY <1>3 DEF Upcoming
<1>5. Upcoming(p)' = Tail(u)
  BY <1>4 DEF LaterOf
<1>. HIDE DEF u
<1>6. Moves(p, u[1], Tail(u))
  BY <1>3, <1>5 DEF Moves
<1>7. View!Advance(p)
  BY <1>1, <1>2, <1>3, <1>6, MovesAdvance DEF IInv
<1>. QED  BY <1>7, MoveIsStep DEF ViewStep

LEMMA SyncObjectsReturnView ==
  ASSUME IInv, IInv', UnknownInv, NEW p \in Proc, SyncObjectsReturn(p)
  PROVE  ViewStep /\ UnknownInv'
<1>. DEFINE snapshot == Head(syncReply[p])
<1>1. /\ blocked[p] /\ syncReply[p] # <<>> /\ ~HasValidObjects(p)
      /\ UpdateObjects(p, snapshot)
      /\ syncReply' = [syncReply EXCEPT ![p] = Tail(@)]
      /\ UNCHANGED <<objectMap, signalsConnected, signals, asyncReply, refused, missed>>
  BY DEF SyncObjectsReturn, masterVars, historyVars, IInv, LocalInv, BlockedInv
<1>2. syncReply'[p] = <<>> /\ \A q \in Proc \ {p} : syncReply'[q] = syncReply[q]
  <2>1. Tail(syncReply[p]) = <<>>
    BY <1>1, HeldAnswer
  <2>. QED  BY <1>1, <2>1 DEF IInv, TypeOK
<1>3. /\ registryVersion' = [registryVersion EXCEPT ![p] = snapshot.version]
      /\ objects' = [objects EXCEPT ![p] = snapshot.objects]
  BY <1>1 DEF UpdateObjects
<1>4. Synchronised(p) <=> snapshot.version # INVALID_REGISTRY_VERSION
  BY <1>1 DEF Synchronised
<1>5. snapshot.version = INVALID_REGISTRY_VERSION => snapshot.objects = Empty
  BY <1>1, <1>4 DEF UnknownInv
<1>6. First(p) = IF Synchronised(p) THEN <<snapshot.objects, snapshot.version>>
                 ELSE <<Head(asyncReply[p]).objects, Head(asyncReply[p]).version>>
  BY <1>1 DEF First
<1>7. Synchronised(p) /\ p \notin missed => Awaits(p)
  BY DEF Awaits, HasSnapshot
<1>. HIDE DEF snapshot
<1>8. UnknownInv'
  <2>1. \A q \in Proc : syncReply'[q] = syncReply[q] \/ syncReply'[q] = <<>>
    BY <1>2
  <2>. QED  BY <1>1, <1>5, <2>1, UnknownUpdate DEF IInv
<1>9. /\ registryVersion'[p] = snapshot.version /\ objects'[p] = snapshot.objects
      /\ \A q \in Proc \ {p} : registryVersion'[q] = registryVersion[q] /\ objects'[q] = objects[q]
  BY <1>3 DEF IInv, TypeOK
<1>10. \A q \in Proc \ {p} : Same(q)
  BY <1>1, <1>2, <1>9, SameWhen
<1>11. CASE Synchronised(p) /\ p \notin missed
  <2>1. First(p)[1] = snapshot.objects /\ First(p)[2] = snapshot.version
    BY <1>6, <1>11
  <2>2. First(p)[2] # INVALID_REGISTRY_VERSION /\ objects'[p] = First(p)[1]
        /\ registryVersion'[p] = First(p)[2] /\ signals'[p] = signals[p]
    BY <1>1, <1>4, <1>9, <1>11, <2>1
  <2>3. ViewStep
    BY <1>1, <1>7, <1>10, <1>11, <2>2, TakesSnapshot DEF Stays
  <2>. QED  BY <1>8, <2>3
<1>12. CASE ~Synchronised(p) /\ p \notin missed
  <2>1. /\ snapshot.version = INVALID_REGISTRY_VERSION
        /\ objects'[p] = Empty /\ objects[p] = Empty
    BY <1>1, <1>4, <1>5, <1>9, <1>12 DEF UnknownInv
  <2>2. ~HasValidObjects(p)' /\ ~Synchronised(p)'
    BY <1>2, <1>9, <2>1 DEF HasValidObjects, Synchronised
  <2>3. Upcoming(p)' = Upcoming(p)
    BY <1>1, <1>12, <2>2 DEF Upcoming
  <2>4. Same(p)
    BY <1>1, <2>1, <2>2, <2>3 DEF Same, Seen, Known, Shown
  <2>5. \A q \in Proc : Same(q)
    BY <1>10, <2>4
  <2>. QED  BY <1>1, <1>8, <2>5, Stutters DEF ViewStep, IInv
<1>13. CASE p \in missed
  <2>1. \A q \in Proc : Same(q)
    BY <1>1, <1>10, <1>13, SameMissed
  <2>. QED  BY <1>1, <1>8, <2>1, Stutters DEF ViewStep, IInv
<1>. QED  BY <1>11, <1>12, <1>13

LEMMA OnGetObjectsReplyView ==
  ASSUME IInv, IInv', UnknownInv, NEW p \in Proc, OnGetObjectsReply(p)
  PROVE  ViewStep /\ UnknownInv'
<1>. DEFINE snapshot == Head(asyncReply[p])
<1>1. /\ ~blocked[p] /\ asyncReply[p] # <<>>
      /\ UpdateObjects(p, snapshot)
      /\ asyncReply' = [asyncReply EXCEPT ![p] = Tail(@)]
      /\ UNCHANGED <<objectMap, signalsConnected, signals, syncReply, refused, missed>>
  BY DEF OnGetObjectsReply, masterVars, historyVars
<1>2. syncReply[p] = <<>> /\ ~Synchronised(p) /\ (p \notin missed => Awaits(p))
  BY <1>1 DEF IInv, DataInv, SyncInv, Synchronised, Awaits, HasSnapshot
<1>3. \A q \in Proc \ {p} : asyncReply'[q] = asyncReply[q]
  BY <1>1 DEF IInv, TypeOK
<1>4. snapshot.version # INVALID_REGISTRY_VERSION
  <2>1. snapshot \in QueuedSnapshot
    BY <1>1, HeadTailProperties DEF IInv, TypeOK
  <2>2. snapshot.version \in Version
    BY <2>1 DEF QueuedSnapshot
  <2>. QED  BY <2>2, VersionValid
<1>5. ~HasValidObjects(p) => First(p) = <<snapshot.objects, snapshot.version>>
  BY <1>2 DEF First
<1>. HIDE DEF snapshot
<1>6. UnknownInv'
  <2>1. \A q \in Proc : syncReply'[q] = syncReply[q] \/ syncReply'[q] = <<>>
    BY <1>1
  <2>. QED  BY <1>1, <1>4, <2>1, UnknownUpdate DEF IInv
<1>7. CASE HasValidObjects(p) /\ p \notin missed
  <2>1. UNCHANGED <<objects, registryVersion>>
    BY <1>1, <1>7 DEF UpdateObjects, replicaVars
  <2>2. Same(p)
    <3>1. HasValidObjects(p)'
      BY <1>7, <2>1 DEF HasValidObjects
    <3>2. Upcoming(p)' = Upcoming(p)
      BY <1>1, <1>7, <2>1, <3>1 DEF Upcoming
    <3>. QED  BY <1>1, <1>7, <2>1, <3>1, <3>2 DEF Same, Seen, Known, Shown
  <2>3. \A q \in Proc : Same(q)
    BY <1>1, <1>3, <2>1, <2>2, SameWhen
  <2>. QED  BY <1>1, <1>6, <2>3, Stutters DEF ViewStep, IInv
<1>8. CASE ~HasValidObjects(p) /\ p \notin missed
  <2>1. /\ registryVersion'[p] = snapshot.version /\ objects'[p] = snapshot.objects
        /\ \A q \in Proc \ {p} :
             registryVersion'[q] = registryVersion[q] /\ objects'[q] = objects[q]
    BY <1>1, <1>8 DEF UpdateObjects, IInv, TypeOK
  <2>2. First(p)[1] = snapshot.objects /\ First(p)[2] = snapshot.version
    BY <1>5, <1>8
  <2>3. \A q \in Proc \ {p} : Same(q)
    BY <1>1, <1>3, <2>1, SameWhen
  <2>4. /\ First(p)[2] # INVALID_REGISTRY_VERSION /\ objects'[p] = First(p)[1]
        /\ registryVersion'[p] = First(p)[2] /\ signals'[p] = signals[p]
    BY <1>1, <1>4, <2>1, <2>2
  <2>5. ViewStep
    BY <1>1, <1>2, <1>8, <2>3, <2>4, TakesSnapshot DEF Stays
  <2>. QED  BY <1>6, <2>5
<1>9. CASE p \in missed
  <2>1. \A q \in Proc \ {p} : registryVersion'[q] = registryVersion[q] /\ objects'[q] = objects[q]
    BY <1>1 DEF UpdateObjects, replicaVars, IInv, TypeOK
  <2>2. \A q \in Proc \ {p} : Same(q)
    BY <1>1, <1>3, <2>1, SameWhen
  <2>3. \A q \in Proc : Same(q)
    BY <1>1, <1>9, <2>2, SameMissed
  <2>. QED  BY <1>1, <1>6, <2>3, Stutters DEF ViewStep, IInv
<1>. QED  BY <1>7, <1>8, <1>9

LEMMA CrashView ==
  ASSUME IInv, IInv', UnknownInv, NEW p \in Proc, Crash(p)
  PROVE  ViewStep /\ UnknownInv'
<1>1. /\ UNCHANGED <<objectMap, signalsConnected>>
      /\ refused' = refused \ {p} /\ missed' = missed \ {p}
      /\ signals'[p] = <<>> /\ asyncReply'[p] = <<>> /\ syncReply'[p] = <<>>
      /\ objects'[p] = Empty /\ registryVersion'[p] = INVALID_REGISTRY_VERSION
  BY DEF Crash, masterVars, IInv, TypeOK
<1>2. \A q \in Proc \ {p} :
        /\ signals'[q] = signals[q] /\ asyncReply'[q] = asyncReply[q]
        /\ syncReply'[q] = syncReply[q]
        /\ registryVersion'[q] = registryVersion[q] /\ objects'[q] = objects[q]
  BY DEF Crash, IInv, TypeOK
<1>3. /\ ~HasValidObjects(p)' /\ ~Synchronised(p)'
      /\ ~Known(p)' /\ Shown(p)' = Empty /\ p \notin refused' /\ p \notin missed'
  BY <1>1 DEF HasValidObjects, Synchronised, Known, Shown
<1>4. Upcoming(p)' = <<>>
  BY <1>1, <1>3 DEF Upcoming
<1>5. \A q \in Proc \ {p} : Same(q)
  BY <1>1, <1>2, SameWhen
<1>6. Moves(p, Empty, <<>>)
  BY <1>1, <1>3, <1>4, <1>5 DEF Moves
<1>7. View!Leave(p)
  BY <1>3, <1>6, MovesLeave DEF IInv
<1>8. UnknownInv'
  BY <1>1, <1>2 DEF UnknownInv, HasValidObjects, Synchronised
<1>. QED  BY <1>1, <1>7, <1>8, MoveIsStep DEF ViewStep

\* A signal moves the view on when the version test accepts it; one that was
\* sent before the snapshot which is under way changes nothing.
LEMMA DeliverSignalView ==
  ASSUME IInv, IInv', UnknownInv, NEW p \in Proc, NEW member, DeliverSignal(p, member)
  PROVE  ViewStep /\ UnknownInv'
<1>. DEFINE queue == signals[p]
            signal == Head(queue)
            rest == Tail(queue)
<1>1. /\ ~blocked[p] /\ queue # <<>> /\ OnSignal(p, signal)
      /\ asyncReply[p] # <<>> => Head(asyncReply[p]).behind > 0
      /\ UNCHANGED <<objectMap, signalsConnected, syncReply, refused, missed>>
      /\ signals' = [signals EXCEPT ![p] = rest]
      /\ asyncReply' = IF asyncReply[p] = <<>> THEN asyncReply
                       ELSE [asyncReply EXCEPT ![p][1].behind = @ - 1]
  BY DEF DeliverSignal, SignalIsNext, masterVars, historyVars
<1>2. syncReply[p] = <<>> /\ ~Synchronised(p) /\ ~Synchronised(p)'
  BY <1>1 DEF IInv, DataInv, SyncInv, Synchronised
<1>3. queue \in Seq(Signal) /\ signal \in Signal
  <2>1. queue \in Seq(Signal)
    BY DEF IInv, TypeOK
  <2>. QED  BY <1>1, <2>1, HeadTailProperties
<1>4. signal.version # INVALID_REGISTRY_VERSION
  <2>1. signal.version \in Version
    BY <1>3 DEF Signal
  <2>. QED  BY <2>1, VersionValid
<1>5. /\ signals'[p] = rest
      /\ \A q \in Proc \ {p} : signals'[q] = signals[q] /\ asyncReply'[q] = asyncReply[q]
  BY <1>1 DEF IInv, TypeOK
<1>6. /\ \A q \in Proc \ {p} :
           registryVersion'[q] = registryVersion[q] /\ objects'[q] = objects[q]
      /\ IF Accepts(p, signal.version)
         THEN registryVersion'[p] = signal.version /\ objects'[p] = Applied(objects[p], signal)
         ELSE registryVersion'[p] = registryVersion[p] /\ objects'[p] = objects[p]
  BY <1>1 DEF OnSignal, replicaVars, IInv, TypeOK
<1>7. UnknownInv'
  <2>1. OnSignal(p, signal) /\ UNCHANGED syncReply
    BY <1>1
  <2>. HIDE DEF signal
  <2>. QED  BY <1>3, <2>1, UnknownSignal DEF IInv
<1>8. \A q \in Proc \ {p} : Same(q)
  BY <1>1, <1>5, <1>6, SameWhen
<1>9. ASSUME Same(p)
      PROVE  ViewStep /\ UnknownInv'
  <2>1. \A q \in Proc : Same(q)
    BY <1>8, <1>9
  <2>. QED  BY <1>1, <1>7, <2>1, Stutters DEF ViewStep, IInv
<1>10. CASE HasValidObjects(p) /\ p \notin missed
  <2>. DEFINE u == Later(objects[p], registryVersion[p], queue)
  <2>1. Sound(objects[p], registryVersion[p], queue, objectMap, version)
    <3>1. Awaits(p) /\ First(p)[1] = objects[p] /\ First(p)[2] = registryVersion[p]
      BY <1>10 DEF Awaits, HasSnapshot, First
    <3>. QED  BY <3>1, SoundFirst
  <2>2. Accepts(p, signal.version) <=> signal.version = NextVersion(registryVersion[p])
    BY <1>10 DEF Accepts
  <2>3. Upcoming(p) = Tail(u)
    BY <1>10 DEF Upcoming
  <2>4. u \in Seq(Content)
    BY <2>1, LaterProperties
  <2>5. ASSUME Accepts(p, signal.version)
        PROVE  ViewStep
    <3>1. Len(u) >= 2 /\ u[2] = Applied(objects[p], signal)
      BY <1>1, <2>1, <2>2, <2>5, LaterTakes
    <3>2. Later(Applied(objects[p], signal), signal.version, rest) = Tail(u)
      BY <1>1, <2>1, <2>2, <2>5, LaterTakes
    <3>3. /\ HasValidObjects(p)' /\ objects'[p] = u[2]
          /\ registryVersion'[p] = signal.version /\ objects'[p] = Applied(objects[p], signal)
          /\ p \notin missed' /\ Known(p)' /\ Shown(p)' = objects'[p]
      BY <1>1, <1>4, <1>6, <1>10, <2>5, <3>1 DEF HasValidObjects, Known, Shown
    <3>4. Upcoming(p)' = Tail(Tail(u))
      <4>1. Upcoming(p)' = Tail(Later(objects'[p], registryVersion'[p], signals'[p]))
        BY <3>3 DEF Upcoming
      <4>2. Later(objects'[p], registryVersion'[p], signals'[p]) = Tail(u)
        BY <1>5, <3>2, <3>3
      <4>. QED  BY <4>1, <4>2
    <3>. HIDE DEF u
    <3>. DEFINE t == Tail(u)
    <3>5. t \in Seq(Content) /\ Len(t) >= 1 /\ t[1] = objects'[p]
      <4>1. Len(u) \in Nat /\ u # <<>>
        BY <2>4, <3>1, LenProperties, EmptySeq
      <4>2. /\ t \in Seq(Content) /\ Len(t) = Len(u) - 1
            /\ \A i \in 1 .. Len(t) : t[i] = u[i + 1]
        BY <2>4, <4>1, HeadTailProperties
      <4>3. 1 \in 1 .. Len(t) /\ 1 + 1 = 2
        BY <3>1, <4>1, <4>2
      <4>4. t[1] = u[2]
        BY <4>2, <4>3
      <4>. QED  BY <3>1, <3>3, <4>1, <4>2, <4>4
    <3>6. Upcoming(p) = t /\ Upcoming(p)' = Tail(t)
      BY <2>3, <3>4
    <3>. HIDE DEF t
    <3>7. Moves(p, t[1], Tail(t)) /\ Stays(p)
      BY <1>1, <1>8, <3>3, <3>5, <3>6 DEF Moves, Stays
    <3>8. View!Advance(p)
      BY <3>3, <3>5, <3>6, <3>7, MovesAdvance DEF IInv
    <3>. QED  BY <1>1, <3>8, MoveIsStep DEF ViewStep
  <2>6. ASSUME ~Accepts(p, signal.version)
        PROVE  Same(p)
    <3>1. registryVersion'[p] = registryVersion[p] /\ objects'[p] = objects[p]
      BY <1>6, <2>6
    <3>2. Later(objects[p], registryVersion[p], rest) = u
      BY <1>1, <2>1, <2>2, <2>6, LaterSkips
    <3>3. HasValidObjects(p)' /\ p \notin missed'
      BY <1>1, <1>10, <3>1 DEF HasValidObjects
    <3>4. Upcoming(p)' = Tail(Later(objects'[p], registryVersion'[p], signals'[p]))
      BY <3>3 DEF Upcoming
    <3>5. Upcoming(p)' = Upcoming(p)
      BY <1>5, <2>3, <3>1, <3>2, <3>4
    <3>. QED  BY <1>1, <1>10, <3>1, <3>3, <3>5 DEF Same, Seen, Known, Shown
  <2>. QED  BY <1>7, <1>9, <2>5, <2>6
<1>11. CASE ~HasValidObjects(p) /\ p \notin missed
  <2>1. registryVersion'[p] = registryVersion[p] /\ objects'[p] = objects[p]
    BY <1>6, <1>11 DEF Accepts
  <2>2. ~HasValidObjects(p)'
    BY <1>11, <2>1 DEF HasValidObjects
  <2>3. CASE asyncReply[p] = <<>>
    <3>1. asyncReply'[p] = <<>>
      BY <1>1, <2>3
    <3>2. Upcoming(p)' = Upcoming(p)
      BY <1>1, <1>2, <1>11, <2>2, <2>3, <3>1 DEF Upcoming
    <3>3. Same(p)
      BY <1>1, <1>11, <2>1, <2>2, <3>2 DEF Same, Seen, Known, Shown
    <3>. QED  BY <1>9, <3>3
  <2>4. CASE asyncReply[p] # <<>>
    <3>. DEFINE reply == Head(asyncReply[p])
                reply1 == Head(asyncReply'[p])
                lag == Len(queue) - reply.behind
    <3>1. /\ Len(asyncReply[p]) = 1 /\ asyncReply[p][1] = reply /\ reply \in QueuedSnapshot
          /\ Behind(reply.objects, reply.version, lag, queue, objectMap, version)
      <4>1. asyncReply[p] \in Seq(QueuedSnapshot)
        BY DEF IInv, TypeOK
      <4>2. /\ Len(asyncReply[p]) = 1 /\ asyncReply[p][1] = reply
        BY <2>4, <4>1, HeadTailProperties DEF IInv, DataInv, AsyncInv
      <4>3. reply \in QueuedSnapshot
        BY <2>4, <4>1, HeadTailProperties
      <4>4. Behind(asyncReply[p][1].objects, asyncReply[p][1].version,
                   Len(signals[p]) - asyncReply[p][1].behind, signals[p], objectMap, version)
        BY <1>2, <1>11, <2>4 DEF IInv, DataInv, AsyncInv
      <4>. QED  BY <4>2, <4>3, <4>4
    <3>2. /\ asyncReply'[p] # <<>>
          /\ reply1.objects = reply.objects /\ reply1.version = reply.version
      <4>1. /\ asyncReply'[p] \in Seq(QueuedSnapshot) /\ asyncReply[p] \in Seq(QueuedSnapshot)
        BY DEF IInv, TypeOK
      <4>2. asyncReply'[p] = [asyncReply[p] EXCEPT ![1] = [reply EXCEPT !.behind = @ - 1]]
        BY <1>1, <2>4, <3>1 DEF IInv, TypeOK
      <4>3. /\ Len(asyncReply'[p]) = 1
            /\ asyncReply'[p][1] = [reply EXCEPT !.behind = @ - 1]
        BY <3>1, <4>1, <4>2
      <4>4. asyncReply'[p] # <<>> /\ reply1 = asyncReply'[p][1]
        BY <4>1, <4>3, EmptySeq, HeadTailProperties
      <4>. QED  BY <3>1, <4>3, <4>4 DEF QueuedSnapshot
    <3>3. Sound(reply.objects, reply.version, queue, objectMap, version)
      <4>1. Awaits(p) /\ First(p) = <<reply.objects, reply.version>>
        BY <1>2, <1>11, <2>4 DEF Awaits, HasSnapshot, First
      <4>2. First(p)[1] = reply.objects /\ First(p)[2] = reply.version
        BY <4>1
      <4>. QED  BY <4>1, <4>2, SoundFirst
    <3>4. signal.version # NextVersion(reply.version)
      <4>1. lag # Len(queue)
        <5>1. reply.behind \in Nat /\ reply.behind > 0
          BY <1>1, <2>4, <3>1 DEF QueuedSnapshot
        <5>2. Len(queue) \in Nat
          BY <1>3, LenProperties
        <5>. QED  BY <5>1, <5>2
      <4>2. Numbered(queue, version) /\ version \in Version
        BY <3>3 DEF Sound
      <4>. HIDE DEF lag
      <4>. QED  BY <1>1, <1>3, <3>1, <4>1, <4>2, AcceptsHead
    <3>5. Later(reply.objects, reply.version, rest) = Later(reply.objects, reply.version, queue)
      BY <1>1, <3>3, <3>4, LaterSkips
    <3>6. Upcoming(p) = Later(reply.objects, reply.version, queue)
      BY <1>2, <1>11, <2>4 DEF Upcoming
    <3>7. Upcoming(p)' = Later(reply1.objects, reply1.version, signals'[p])
      BY <1>1, <1>2, <1>11, <2>2, <3>2 DEF Upcoming
    <3>8. Upcoming(p)' = Upcoming(p)
      BY <1>5, <3>2, <3>5, <3>6, <3>7
    <3>9. Same(p)
      BY <1>1, <1>11, <2>1, <2>2, <3>8 DEF Same, Seen, Known, Shown
    <3>. QED  BY <1>9, <3>9
  <2>. QED  BY <2>3, <2>4
<1>12. CASE p \in missed
  <2>1. Same(p)
    BY <1>1, <1>12, SameMissed
  <2>. QED  BY <1>9, <2>1
<1>. QED  BY <1>10, <1>11, <1>12

-----------------------------------------------------------------------------
(***************************************************************************)
(* The refinement.                                                         *)
(***************************************************************************)
LEMMA ViewInit == Init => View!Init /\ UnknownInv
<1>. SUFFICES ASSUME Init
              PROVE  View!Init /\ UnknownInv
  OBVIOUS
<1>1. \A p \in Proc : /\ ~HasValidObjects(p) /\ ~Synchronised(p)
                      /\ syncReply[p] = <<>> /\ asyncReply[p] = <<>> /\ objects[p] = Empty
  BY DEF Init, HasValidObjects, Synchronised
<1>2. \A p \in Proc : ~Known(p) /\ Shown(p) = Empty /\ Upcoming(p) = <<>>
  BY <1>1 DEF Init, Known, Shown, Upcoming
<1>3. /\ {p \in Proc : Known(p)} = {}
      /\ [p \in Proc |-> Shown(p)] = [p \in Proc |-> Empty]
      /\ [p \in Proc |-> Upcoming(p)] = [p \in Proc |-> <<>>]
  BY <1>2
<1>4. /\ objectMap = View!Empty /\ Empty = View!Empty
      /\ signalsConnected = FALSE /\ refused = {} /\ missed = {}
  BY DEF Init, Empty, View!Empty
<1>5. UnknownInv
  BY <1>1 DEF UnknownInv
<1>. QED  BY <1>3, <1>4, <1>5 DEF View!Init

LEMMA StepView ==
  ASSUME IInv, UnknownInv, [Next]_vars
  PROVE  ViewStep /\ UnknownInv'
<1>1. IInv'
  BY IInvStep
<1>2. ASSUME NEW p \in Proc, \/ StartStep(p) \/ MasterInit(p) \/ SyncObjects(p)
                            \/ SyncCallTimesOut(p) \/ MasterCalls(p) \/ CallEnds(p)
      PROVE  ViewStep /\ UnknownInv'
  BY <1>1, <1>2, StartView, MasterInitView, SyncCallTimesOutView
<1>3. ASSUME NEW p \in Proc, ServiceStep(p)
      PROVE  ViewStep /\ UnknownInv'
  BY <1>1, <1>3, ServiceView DEF ServiceStep
<1>4. ASSUME NEW p \in Proc, HandleStep(p)
      PROVE  ViewStep /\ UnknownInv'
  BY <1>1, <1>4, HandleChangeView, HandleGetAllPropertiesView, HandleGetObjectsView,
     RefuseRequestView DEF HandleStep
<1>5. ASSUME NEW p \in Proc, DeliverStep(p) \/ Crash(p)
      PROVE  ViewStep /\ UnknownInv'
  BY <1>1, <1>5, DeliverSignalView, OnGetObjectsReplyView, SyncPropertiesReturnView,
     SyncObjectsReturnView, CrashView
     DEF DeliverStep, OnObjectAdded, OnObjectRemoved
<1>6. CASE UNCHANGED vars
  <2>1. UNCHANGED <<objectMap, signalsConnected, objects, registryVersion, signals, asyncReply,
                    syncReply, refused, missed>>
    BY <1>6 DEF vars, masterVars, callVars, replicaVars, historyVars
  <2>. QED  BY <1>1, <2>1, QuietView
<1>. QED  BY <1>2, <1>3, <1>4, <1>5, <1>6 DEF Next

\* A process without a map, and one whose blocking call the bus answered,
\* have no entries.
THEOREM UnknownIsEmpty == Spec => []UnknownInv
<1>1. Init => IInv /\ UnknownInv
  BY IInvInit, ViewInit
<1>2. (IInv /\ UnknownInv) /\ [Next]_vars => (IInv /\ UnknownInv)'
  BY IInvStep, StepView
<1>. QED  BY <1>1, <1>2, PTL DEF Spec

\* DBusObjectRegistry implements RegistryView for any processes, paths,
\* versions and queue bounds: there is one map that changes an entry at a
\* time, and each replica runs through its values in their order, from
\* whichever snapshot reaches it first, never back, whatever signals it
\* ignores, answers overtake each other, calls are refused or expire and
\* processes die.  The exception is RegistryView's own: while nobody has been
\* told of changes, a process that was turned away when it asked for them, but
\* got the map all the same, is lost at the next change.
THEOREM Refinement == Spec => RefinesRegistryView
<1>1. Init => View!Init
  BY ViewInit
<1>2. IInv /\ UnknownInv /\ [Next]_vars => [View!Next]_View!vars
  BY StepView DEF ViewStep
<1>. QED  BY <1>1, <1>2, Invariance, UnknownIsEmpty, PTL DEF Spec, RefinesRegistryView, View!Spec
=============================================================================
