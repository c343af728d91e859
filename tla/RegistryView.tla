---------------------------- MODULE RegistryView ----------------------------
(***************************************************************************)
(* What the object registry promises to a process, without messages,       *)
(* versions or a master: one map that changes an entry at a time, and in   *)
(* each process a view that is unknown at first and then runs through the  *)
(* map's later values in their order, never back, possibly skipping some   *)
(* only while it is still unknown or by jumping to a newer one.            *)
(*                                                                         *)
(* The promise has one gap: as long as nobody has been told of changes, a  *)
(* process that was turned away when it asked to be told, and that follows *)
(* the map all the same, is lost at the next change.                       *)
(***************************************************************************)
EXTENDS Integers, Sequences

CONSTANTS Proc, NoProc, Path

VARIABLES
  registry,    \* the one map
  known,       \* the processes that have a view
  view,        \* their views
  upcoming,    \* the values of the map each process is still going to see
  told,        \* changes are told to the processes
  turnedAway,  \* the processes that asked to be told in vain
  lost         \* the processes of which nothing is promised any more

vars == <<registry, known, view, upcoming, told, turnedAway, lost>>

Empty == [path \in Path |-> NoProc]

Init ==
  /\ registry = Empty
  /\ known = {}
  /\ view = [p \in Proc |-> Empty]
  /\ upcoming = [p \in Proc |-> <<>>]
  /\ told = FALSE
  /\ turnedAway = {}
  /\ lost = {}

Follows(p) == p \in known \/ upcoming[p] # <<>>

\* An entry appears or disappears; it never passes from one process straight
\* to another.  "Direct" processes see the change at once, the others that
\* follow the map are going to see it, but for those it cuts off.
Change(path, service) ==
  LET cut == IF told THEN {} ELSE {p \in turnedAway : Follows(p)}
  IN  /\ service # registry[path]
      /\ registry[path] = NoProc \/ service = NoProc
      /\ registry' = [registry EXCEPT ![path] = service]
      /\ known' = known \ cut
      /\ lost' = lost \union cut
      /\ UNCHANGED <<told, turnedAway>>
      /\ \E direct \in SUBSET {p \in known \ cut : upcoming[p] = <<>>} :
           /\ view' = [p \in Proc |->
                IF p \in cut THEN Empty
                ELSE IF p \in direct THEN registry' ELSE view[p]]
           /\ upcoming' = [p \in Proc |->
                IF p \in cut THEN <<>>
                ELSE IF Follows(p) /\ p \notin direct
                THEN Append(upcoming[p], registry') ELSE upcoming[p]]

\* A process without a view starts to follow the map, from its current value.
Follow(p) ==
  /\ ~Follows(p)
  /\ lost' = lost \ {p}
  /\ UNCHANGED turnedAway
  /\ \/ /\ UNCHANGED <<known, view>>
        /\ upcoming' = [upcoming EXCEPT ![p] = <<registry>>]
     \/ /\ known' = known \union {p}
        /\ view' = [view EXCEPT ![p] = registry]
        /\ UNCHANGED upcoming

\* The view moves on to one of the upcoming values.
Advance(p) ==
  /\ known' = known \union {p}
  /\ \E n \in 1 .. Len(upcoming[p]) :
       /\ view' = [view EXCEPT ![p] = upcoming[p][n]]
       /\ upcoming' = [upcoming EXCEPT ![p] = SubSeq(@, n + 1, Len(@))]
  /\ UNCHANGED <<turnedAway, lost>>

\* A process that has no view yet may be given a newer value to start from.
SkipAhead(p) ==
  /\ p \notin known
  /\ \E n \in 2 .. Len(upcoming[p]) :
       upcoming' = [upcoming EXCEPT ![p] = SubSeq(@, n, Len(@))]
  /\ UNCHANGED <<known, view, turnedAway, lost>>

\* Only before anybody is told of changes can a process be turned away.
TurnAway(p) ==
  /\ ~told
  /\ turnedAway' = turnedAway \union {p}
  /\ UNCHANGED <<known, view, upcoming, lost>>

Leave(p) ==
  /\ known' = known \ {p}
  /\ view' = [view EXCEPT ![p] = Empty]
  /\ upcoming' = [upcoming EXCEPT ![p] = <<>>]
  /\ turnedAway' = turnedAway \ {p}
  /\ lost' = lost \ {p}

StartTelling ==
  /\ told' = TRUE
  /\ UNCHANGED <<registry, known, view, upcoming, turnedAway, lost>>

Next ==
  \/ StartTelling
  \/ \E path \in Path, service \in Proc \union {NoProc} : Change(path, service)
  \/ /\ UNCHANGED <<registry, told>>
     /\ \E p \in Proc :
          Follow(p) \/ Advance(p) \/ SkipAhead(p) \/ TurnAway(p) \/ Leave(p)

Spec == Init /\ [][Next]_vars
=============================================================================
