------------------------------ MODULE ModelRows ------------------------------
(***************************************************************************)
(* A model property over IPC: the rows of a service's model, the proxy     *)
(* that fetches them in windows and caches them, and a view of the proxy.  *)
(*                                                                         *)
(* The service sends a signal for every change of its model.  The proxy    *)
(* keeps the number of rows and a cache of rows.  A row that a view reads  *)
(* and that is not cached is either fetched with a blocking call or        *)
(* requested; then the view gets an invalid item, a placeholder, which the *)
(* proxy replaces by signalling a change of the row when the answer comes. *)
(* Rows are counted from 0, as in the code.                                *)
(***************************************************************************)
EXTENDS MostRecentlyUsedCache, FiniteSetsExt

CONSTANTS
  Value,
  Placeholder,      \* the invalid item given for a row that is not cached
  Unread,           \* a row of the view that no delegate shows
  PrefetchCount,    \* PREFETCH_ITEM_COUNT
  InitialRows,      \* what the model holds at first and after a reset
  MaxRows,          \* bound: rows of the service's model
  MaxChanges,       \* bound: changes of the service's model, and withdrawals
  MaxShown,         \* bound: rows the view shows at a time
  MaxInbox,         \* bound: messages waiting in the client when the service changes
  MaxRequests       \* bound: requests under way when the view reads one more row

ASSUME ConstantsAssumption ==
  /\ Placeholder \notin Value /\ Unread \notin Value /\ Placeholder # Unread
  /\ PrefetchCount \in Nat \ {0}
  /\ Capacity >= 2 * PrefetchCount + 1
  /\ InitialRows \subseteq UNION {[1 .. n -> Value] : n \in 0 .. MaxRows}
  /\ MaxChanges \in Nat /\ MaxShown \in Nat
  /\ MaxRows \in Nat \ {0} /\ MaxInbox \in Nat \ {0} /\ MaxRequests \in Nat \ {0}

VARIABLES
  rows,         \* the service's model
  changes,      \* how often it has changed or was withdrawn
  exported,     \* an adapter exports the service
  listened,     \* m_signalsConnected of that adapter
  inbox,        \* what the client's event loop has yet to deliver, FIFO
  synchronous,  \* isSynchronous() of the proxy
  proxy,        \* the proxy, what it has sent, and the view of its model
  history       \* what has happened to the proxy that its code does not repair

vars == <<rows, changes, exported, listened, inbox, synchronous, proxy, history>>

-----------------------------------------------------------------------------
Row == 0 .. MaxRows - 1
Rows == UNION {[1 .. n -> Value] : n \in 0 .. MaxRows}
Shown == Value \union {Placeholder, Unread}

Request ==
  [kind : {"properties"}] \union [kind : {"rows"}, first : Row, last : Row]

Message ==
  [kind : {"added", "removed"}]
    \union [kind : {"snapshot", "reset"}, size : 0 .. MaxRows]
    \union [kind : {"answer", "changed"}, first : Row, items : Rows]
    \union [kind : {"inserted", "deleted"}, first : Row, last : Row]
    \union [kind : {"moved"}, first : Row, destination : 0 .. MaxRows]

Structural == {"inserted", "deleted", "moved", "reset", "snapshot"}

\* The list and the index of the cache agree as well.
TypeOK ==
  /\ rows \in Rows
  /\ changes \in 0 .. MaxChanges
  /\ exported \in BOOLEAN /\ listened \in BOOLEAN /\ synchronous \in BOOLEAN
  /\ inbox \in Seq(Message)
  /\ history \subseteq {"renewed", "overtaken", "shuffled"}
  /\ proxy.known \in BOOLEAN /\ proxy.attached \in BOOLEAN
  /\ proxy.size \in Int
  /\ WellFormed(proxy.cache) /\ DOMAIN proxy.cache.items \subseteq Row
  /\ \A i \in DOMAIN proxy.cache.items : proxy.cache.items[i] \in Value
  /\ proxy.asked \subseteq Row /\ proxy.placeholders \subseteq Row
  /\ proxy.requests \in Seq(Request)
  /\ proxy.view \in Seq(Shown)

Init ==
  /\ rows \in InitialRows
  /\ changes = 0
  /\ exported = FALSE
  /\ listened = FALSE
  /\ inbox = <<>>
  /\ synchronous \in BOOLEAN
  /\ proxy = [known |-> FALSE,         \* m_serviceName is set: subscribed to the adapter
              size |-> 0,
              cache |-> EmptyCache,
              asked |-> {},            \* m_itemsRequestedFromServer
              placeholders |-> {},     \* m_itemsRequestedLocally
              requests |-> <<>>,       \* calls the service has not handled, FIFO
              attached |-> FALSE,      \* the view shows this model
              view |-> <<>>]
  /\ history = {}

-----------------------------------------------------------------------------
(***************************************************************************)
(* The proxy's model.  Each operator gives the proxy after a call.         *)
(***************************************************************************)
Held(p, i) == Exists(p.cache, i) \/ i \in p.asked

\* The window stops one row short of the end of the model.
MutantRequestItems(p, index) ==
  LET start == Max({0, index - PrefetchCount})
      first == Min({i \in start .. p.size : i = p.size \/ ~Held(p, i)})
      last == Max({first} \union
                  {i \in first .. Min({first + 2 * PrefetchCount, p.size - 2}) : ~Held(p, i)})
  IN  IF first - index < PrefetchCount /\ first < p.size - 1
      THEN [p EXCEPT !.requests = Append(@, [kind |-> "rows", first |-> first, last |-> last]),
                     !.asked = @ \union (first .. last)]
      ELSE p

\* The end of the model does not end the window.
MutantWindow(p, index) ==
  LET start == Max({0, index - PrefetchCount})
      first == Min({i \in start .. p.size : i = p.size \/ ~Held(p, i)})
      last == Max({i \in first .. first + 2 * PrefetchCount : ~Held(p, i)})
  IN  IF first - index < PrefetchCount /\ first # p.size
      THEN [p EXCEPT !.requests = Append(@, [kind |-> "rows", first |-> first, last |-> last]),
                     !.asked = @ \union (first .. last)]
      ELSE p

\* requestItemsAsync(): ask for a window around the index, without the rows
\* at its ends that are cached or asked for.
RequestItems(p, index) ==
  LET start == Max({0, index - PrefetchCount})
      first == Min({i \in start .. p.size : i = p.size \/ ~Held(p, i)})
      last == Max({i \in first .. Min({first + 2 * PrefetchCount, p.size - 1}) : ~Held(p, i)})
  IN  IF first - index < PrefetchCount /\ first # p.size
      THEN [p EXCEPT !.requests = Append(@, [kind |-> "rows", first |-> first, last |-> last]),
                     !.asked = @ \union (first .. last)]
      ELSE p

InsertItems(p, first, items) ==
  LET cached[n \in 0 .. Len(items)] ==
        IF n = 0 THEN p.cache ELSE Insert(cached[n - 1], first + n - 1, items[n])
  IN  [p EXCEPT !.cache = cached[Len(items)]]

\* handleModelRequest(): rows out of range are left out.
Served(first, last) ==
  LET from == Max({first, 0})
      to == Min({last, Len(rows) - 1})
  IN  [kind |-> "answer", first |-> from, items |-> SubSeq(rows, from + 1, to + 1)]

\* The blocking call of a synchronous proxy; an error leaves it as it was.
Fetch(p, row) ==
  LET from == IF row > PrefetchCount THEN row - PrefetchCount ELSE 0
      to == IF row < p.size - PrefetchCount THEN row + PrefetchCount ELSE p.size - 1
      first == Min({i \in from .. to : i = to \/ ~Exists(p.cache, i)})
      last == Max({i \in first .. to : i = first \/ ~Exists(p.cache, i)})
      answer == Served(first, last)
  IN  IF p.known /\ exported THEN InsertItems(p, answer.first, answer.items) ELSE p

Obtain(p, row) ==
  CASE Exists(p.cache, row) -> p
    [] ~Exists(p.cache, row) /\ synchronous -> Fetch(p, row)
    [] OTHER -> [RequestItems(p, row) EXCEPT !.placeholders = @ \union {row}]

\* Both conditions test the next index.
Prefetch(p, row) ==
  LET next == Min({p.size, row + PrefetchCount})
      previous == Max({0, row - PrefetchCount})
      ahead == IF ~Held(p, next) THEN RequestItems(p, next) ELSE p
  IN  IF ~Exists(ahead.cache, next) /\ previous \notin ahead.asked
      THEN RequestItems(ahead, previous)
      ELSE ahead

\* A delegate of the view reads a row: modelData().
ReadRow(p, row) ==
  LET q == Prefetch(Obtain(p, row), row)
  IN  IF Exists(q.cache, row)
      THEN [q EXCEPT !.view[row + 1] = Lookup(q.cache, row), !.cache = Touch(@, row)]
      ELSE [q EXCEPT !.view[row + 1] = Placeholder]

ReadAgain(p, row) ==
  IF row < Len(p.view) /\ p.view[row + 1] # Unread THEN ReadRow(p, row) ELSE p

\* The signal dataChanged(first, last): delegates read their rows again.
DataChanged(p, first, last) ==
  LET read[n \in 0 .. last - first + 1] ==
        IF n = 0 THEN p ELSE ReadAgain(read[n - 1], first + n - 1)
  IN  read[last - first + 1]

\* Items that a signal brought already stay requested.
MutantTakeNew(p, first, items) ==
  LET Take(q, n) ==
        LET i == first + n - 1
            known == Exists(q.cache, i) /\ Lookup(q.cache, i) = items[n]
            stored == [q EXCEPT !.cache = Insert(@, i, items[n]), !.asked = @ \ {i}]
        IN  CASE known -> [q EXCEPT !.cache = Touch(@, i)]
              [] ~known /\ i \in q.placeholders ->
                   [DataChanged(stored, i, i) EXCEPT !.placeholders = @ \ {i}]
              [] OTHER -> stored
      taken[n \in 0 .. Len(items)] == IF n = 0 THEN p ELSE Take(taken[n - 1], n)
  IN  taken[Len(items)]

TakeItem(p, i, item) ==
  LET known == Exists(p.cache, i) /\ Lookup(p.cache, i) = item
      stored == [p EXCEPT !.cache = IF known THEN Touch(@, i) ELSE Insert(@, i, item)]
      told == IF ~known /\ i \in p.placeholders
              THEN [DataChanged(stored, i, i) EXCEPT !.placeholders = @ \ {i}]
              ELSE stored
  IN  [told EXCEPT !.asked = @ \ {i}]

TakeAnswer(p, first, items) ==
  LET taken[n \in 0 .. Len(items)] ==
        IF n = 0 THEN p ELSE TakeItem(taken[n - 1], first + n - 1, items[n])
  IN  taken[Len(items)]

Clear(p) == [p EXCEPT !.cache = EmptyCache, !.asked = {}, !.placeholders = {}]

Reset(p, size) ==
  [p EXCEPT !.size = size, !.attached = TRUE, !.view = [n \in 1 .. size |-> Unread]]

-----------------------------------------------------------------------------
(***************************************************************************)
(* Changes of a sequence of rows, the service's or the view's.             *)
(***************************************************************************)
Inserted(s, first, items) == SubSeq(s, 1, first) \o items \o SubSeq(s, first + 1, Len(s))

Deleted(s, first, last) == SubSeq(s, 1, first) \o SubSeq(s, last + 2, Len(s))

\* Row "first" goes before the row that was "destination".
Moved(s, first, destination) ==
  LET d == IF destination > first THEN destination - 1 ELSE destination
  IN  Inserted(Deleted(s, first, first), d, SubSeq(s, first + 1, first + 1))

-----------------------------------------------------------------------------
(***************************************************************************)
(* The service: its model and its adapter.                                 *)
(***************************************************************************)
Room == Len(inbox) < MaxInbox

\* The model becomes "new" and its adapter sends a signal about it.
Changes(new, message) ==
  /\ exported /\ Room /\ changes < MaxChanges
  /\ rows' = new
  /\ changes' = changes + 1
  /\ inbox' = IF listened /\ proxy.known THEN Append(inbox, message) ELSE inbox
  /\ UNCHANGED <<exported, listened, synchronous, proxy, history>>

\* connectModel() reads the changed items when the model signals them.
ChangeRow(i, v) ==
  /\ i < Len(rows) /\ rows[i + 1] # v
  /\ Changes([rows EXCEPT ![i + 1] = v], [kind |-> "changed", first |-> i, items |-> <<v>>])

InsertRow(i, v) ==
  /\ i <= Len(rows) /\ Len(rows) < MaxRows
  /\ Changes(Inserted(rows, i, <<v>>), [kind |-> "inserted", first |-> i, last |-> i])

DeleteRows(i, j) ==
  /\ i <= j /\ j < Len(rows)
  /\ Changes(Deleted(rows, i, j), [kind |-> "deleted", first |-> i, last |-> j])

MoveRow(i, d) ==
  /\ i < Len(rows) /\ d <= Len(rows) /\ d \notin {i, i + 1}
  /\ Changes(Moved(rows, i, d), [kind |-> "moved", first |-> i, destination |-> d])

ResetRows(new) == Changes(new, [kind |-> "reset", size |-> Len(new)])

\* Another client may be the first to make the adapter connect the model.
Export ==
  /\ ~exported /\ Room
  /\ exported' = TRUE
  /\ listened' \in BOOLEAN
  /\ inbox' = Append(inbox, [kind |-> "added"])
  /\ UNCHANGED <<rows, changes, synchronous, proxy, history>>

Withdraw ==
  /\ exported /\ Room /\ changes < MaxChanges
  /\ exported' = FALSE
  /\ listened' = FALSE
  /\ changes' = changes + 1
  /\ inbox' = Append(inbox, [kind |-> "removed"])
  /\ history' = history \union {"renewed"}
  /\ UNCHANGED <<rows, synchronous, proxy>>

HandleRequest ==
  /\ exported /\ proxy.requests # <<>>
  /\ LET request == Head(proxy.requests)
     IN  /\ inbox' = Append(inbox, IF request.kind = "properties"
                                   THEN [kind |-> "snapshot", size |-> Len(rows)]
                                   ELSE Served(request.first, request.last))
         /\ listened' = (listened \/ request.kind = "properties")
  /\ proxy' = [proxy EXCEPT !.requests = Tail(@)]
  /\ UNCHANGED <<rows, changes, exported, synchronous, history>>

\* The bus answers with an error, which asyncCall() drops.
RefuseRequest ==
  /\ ~exported /\ proxy.requests # <<>>
  /\ proxy' = [proxy EXCEPT !.requests = Tail(@)]
  /\ UNCHANGED <<rows, changes, exported, listened, inbox, synchronous, history>>

-----------------------------------------------------------------------------
(***************************************************************************)
(* The client: the proxy's slots and the view.                             *)
(***************************************************************************)
Delivers(kind) ==
  /\ inbox # <<>> /\ Head(inbox).kind = kind
  /\ inbox' = Tail(inbox)

\* onServiceNameKnown() and requestPropertyValues().
OnAdded ==
  /\ Delivers("added")
  /\ IF synchronous
     THEN /\ proxy' = IF exported THEN Reset([proxy EXCEPT !.known = TRUE], Len(rows))
                      ELSE [proxy EXCEPT !.known = TRUE]
          /\ listened' = (listened \/ exported)
     ELSE /\ proxy' = [proxy EXCEPT !.known = TRUE,
                                    !.requests = Append(@, [kind |-> "properties"])]
          /\ UNCHANGED listened
  /\ UNCHANGED <<rows, changes, exported, synchronous, history>>

\* setServiceAvailable(false): views turn to another provider.  The proxy
\* forgets neither its size nor its rows.
OnRemoved ==
  /\ Delivers("removed")
  /\ proxy' = [proxy EXCEPT !.known = FALSE, !.attached = FALSE, !.view = <<>>]
  /\ UNCHANGED <<rows, changes, exported, listened, synchronous, history>>

OnSnapshot ==
  /\ Delivers("snapshot")
  /\ proxy' = Reset(proxy, Head(inbox).size)
  /\ history' = history \ {"shuffled"}
  /\ UNCHANGED <<rows, changes, exported, listened, synchronous>>

OnAnswer ==
  /\ Delivers("answer")
  /\ proxy' = TakeAnswer(proxy, Head(inbox).first, Head(inbox).items)
  /\ UNCHANGED <<rows, changes, exported, listened, synchronous, history>>

\* The view follows the proxy's model as long as it shows it.
ViewOf(p, change(_)) == IF p.attached THEN change(p.view) ELSE p.view

\* Rows move under the placeholders that the proxy remembers by index.
Shuffles ==
  history' = IF \E n \in DOMAIN proxy.view : proxy.view[n] = Placeholder
             THEN history \union {"shuffled"} ELSE history

OnChanged ==
  /\ Delivers("changed")
  /\ LET message == Head(inbox)
     IN  proxy' = DataChanged(InsertItems(proxy, message.first, message.items),
                              message.first, message.first + Len(message.items) - 1)
  /\ UNCHANGED <<rows, changes, exported, listened, synchronous, history>>

\* The rows behind the inserted ones stay cached.
MutantOnInserted ==
  /\ Delivers("inserted")
  /\ LET message == Head(inbox)
         new == [n \in 1 .. message.last - message.first + 1 |-> Unread]
     IN  proxy' = [proxy EXCEPT !.size = @ + Len(new),
                                !.view = ViewOf(proxy, LAMBDA s : Inserted(s, message.first, new))]
  /\ Shuffles
  /\ UNCHANGED <<rows, changes, exported, listened, synchronous>>

OnInserted ==
  /\ Delivers("inserted")
  /\ LET message == Head(inbox)
         new == [n \in 1 .. message.last - message.first + 1 |-> Unread]
     IN  proxy' = Clear([proxy EXCEPT
                    !.size = @ + Len(new),
                    !.view = ViewOf(proxy, LAMBDA s : Inserted(s, message.first, new))])
  /\ Shuffles
  /\ UNCHANGED <<rows, changes, exported, listened, synchronous>>

OnDeleted ==
  /\ Delivers("deleted")
  /\ LET message == Head(inbox)
     IN  proxy' = [proxy EXCEPT
                    !.cache = EmptyCache,
                    !.size = @ - message.last + message.first - 1,
                    !.view = ViewOf(proxy, LAMBDA s : Deleted(s, message.first, message.last))]
  /\ Shuffles
  /\ UNCHANGED <<rows, changes, exported, listened, synchronous>>

\* The cache is not cleared.
MutantOnMoved ==
  /\ Delivers("moved")
  /\ LET message == Head(inbox)
     IN  proxy' = [proxy EXCEPT
                    !.view = ViewOf(proxy, LAMBDA s :
                               Moved(s, message.first, message.destination))]
  /\ Shuffles
  /\ UNCHANGED <<rows, changes, exported, listened, synchronous>>

OnMoved ==
  /\ Delivers("moved")
  /\ LET message == Head(inbox)
     IN  proxy' = [proxy EXCEPT
                    !.cache = EmptyCache,
                    !.view = ViewOf(proxy, LAMBDA s :
                               Moved(s, message.first, message.destination))]
  /\ Shuffles
  /\ UNCHANGED <<rows, changes, exported, listened, synchronous>>

\* The last of the queued changes, a reset repairs all but the effects of a
\* withdrawal.
OnReset ==
  /\ Delivers("reset")
  /\ proxy' = LET p == Clear([proxy EXCEPT !.size = Head(inbox).size])
              IN  IF p.attached THEN Reset(p, p.size) ELSE p
  /\ history' = history \ (IF Len(inbox) = 1 THEN {"shuffled", "overtaken"} ELSE {"shuffled"})
  /\ UNCHANGED <<rows, changes, exported, listened, synchronous>>

\* A delegate is created.  A blocking call overtakes what waits in the inbox.
Show(row) ==
  /\ proxy.attached /\ row < Len(proxy.view) /\ row < proxy.size
  /\ proxy.view[row + 1] = Unread
  /\ Len(proxy.requests) < MaxRequests
  /\ Cardinality({n \in DOMAIN proxy.view : proxy.view[n] # Unread}) < MaxShown
  /\ proxy' = ReadRow(proxy, row)
  /\ history' = IF synchronous /\ \E n \in DOMAIN inbox : inbox[n].kind \in Structural
                THEN history \union {"overtaken"} ELSE history
  /\ UNCHANGED <<rows, changes, exported, listened, inbox, synchronous>>

\* The row scrolls out of the view.
Hide(row) ==
  /\ row < Len(proxy.view) /\ proxy.view[row + 1] # Unread
  /\ proxy' = [proxy EXCEPT !.view[row + 1] = Unread]
  /\ UNCHANGED <<rows, changes, exported, listened, inbox, synchronous, history>>

-----------------------------------------------------------------------------
ServiceStep ==
  \/ \E i \in Row, v \in Value : ChangeRow(i, v) \/ InsertRow(i, v)
  \/ \E i, j \in Row : DeleteRows(i, j)
  \/ \E i \in Row, d \in 0 .. MaxRows : MoveRow(i, d)
  \/ \E new \in InitialRows : ResetRows(new)
  \/ Export \/ Withdraw

HandleStep == HandleRequest \/ RefuseRequest

DeliverStep ==
  \/ OnAdded \/ OnRemoved \/ OnSnapshot \/ OnAnswer \/ OnChanged
  \/ OnInserted \/ OnDeleted \/ OnMoved \/ OnReset

ViewStep == \E row \in Row : Show(row) \/ Hide(row)

Next == ServiceStep \/ HandleStep \/ DeliverStep \/ ViewStep

Spec == Init /\ [][Next]_vars

\* The service's process and the client's event loop run.  Nothing obliges
\* the model to change, the service to stay or the view to scroll.
Fairness ==
  /\ <>[](proxy.requests # <<>>) => []<><<HandleStep>>_vars
  /\ <>[](inbox # <<>>) => []<><<DeliverStep>>_vars

FairSpec == Spec /\ Fairness

-----------------------------------------------------------------------------
(***************************************************************************)
(* Correctness.                                                            *)
(***************************************************************************)
Following ==
  /\ exported /\ proxy.known /\ proxy.attached
  /\ inbox = <<>> /\ proxy.requests = <<>>

\* Once everything is delivered the view has as many rows as the service's
\* model and shows the service's items, except where a row was read with a
\* blocking call ahead of a queued insertion, removal or move, or the
\* service was withdrawn, and the model has not been reset since.
RowsAgree ==
  Following /\ history \intersect {"renewed", "overtaken"} = {} =>
    /\ Len(proxy.view) = Len(rows) /\ proxy.size = Len(rows)
    /\ \A n \in DOMAIN rows : proxy.view[n] \in {rows[n], Placeholder, Unread}

\* The cache holds only the service's present items, also when blocking
\* calls were overtaking.
CacheIsCurrent ==
  Following /\ "renewed" \notin history =>
    \A i \in DOMAIN proxy.cache.items : i < Len(rows) /\ Lookup(proxy.cache, i) = rows[i + 1]

\* A row is not remembered as asked for when no answer is under way: nobody
\* would ask for it again.
RequestsAnswered ==
  Following /\ "renewed" \notin history => \A i \in proxy.asked : i >= Len(rows)

\* "Remind that we delivered an invalid item for this index"
\* (IPCProxyModelProperty.h): a proxy that has all answers has told the view
\* about each of them.
InvalidItemsReminded ==
  Following /\ "renewed" \notin history =>
    \A n \in DOMAIN proxy.view : proxy.view[n] # Placeholder

\* A row that shows a placeholder gets its item in the end, although reading
\* one row makes the proxy ask for others: prefetching does not go on forever.
RowsArrive ==
  \A n \in 1 .. MaxRows :
    (n \in DOMAIN proxy.view /\ proxy.view[n] = Placeholder /\ history = {})
      ~> (n \notin DOMAIN proxy.view \/ proxy.view[n] # Placeholder \/ history # {})
=============================================================================
