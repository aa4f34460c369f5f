-------------------------- MODULE TaskNotifications --------------------------
(***************************************************************************)
(* The notifications of settled runs, from the row to the badge in the       *)
(* browser: backend/services/task_notifications.py, its routes,              *)
(* backend/services/realtime_events.py, and the notification store of the    *)
(* frontend.  That a run settles once and is announced once is shown in      *)
(* InspectionTasks; here every run that settles has one notification, until   *)
(* its task is deleted.                                                      *)
(*                                                                         *)
(* Server steps end where the database or a socket is awaited.  Sockets      *)
(* deliver in order; responses of requests arrive whenever they do.          *)
(***************************************************************************)
EXTENDS Naturals, Sequences, FiniteSets

CONSTANTS
    Notes,       \* identifiers of notifications, one per settled run
    Clients,     \* browser pages
    Limit,       \* how many notifications a list has (50 in the code)
    Budgets      \* bounds: Budgets[k].connects, .closes and .requests of a page, to choose from

ASSUME NotesAssumption ==
    Limit \in Nat /\ Budgets \subseteq [Clients -> [connects: Nat, closes: Nat, requests: Nat]]

VARIABLES
    rows,        \* task_notifications, oldest first
    readRows,    \* those with a read_at
    publisher,   \* publisher[n]: the coroutine that announces n
    registered,  \* _connections of the realtime manager
    socket,      \* socket[k]: the connection of page k, and the events on their way
    page,        \* page[k]: what page k shows
    request,     \* request[k]: the REST request of page k
    left,        \* bound: left[k]: what page k may still do
    disturbed    \* history: pages something overlapped with, see UndisturbedPageIsTrue

noteRows == <<rows, readRows>>
notesVars == <<rows, readRows, publisher, registered, socket, page, request, left, disturbed>>

-----------------------------------------------------------------------------

Ids(s) == {s[i] : i \in DOMAIN s}
Unread == Cardinality(Ids(rows) \ readRows)

\* A list from which n is taken (it is in a list once at most; Services_proofs shows it).
Place(list, n) == IF n \in Ids(list) THEN CHOOSE i \in DOMAIN list : list[i] = n ELSE Len(list) + 1
Without(list, n) == SubSeq(list, 1, Place(list, n) - 1) \o SubSeq(list, Place(list, n) + 1, Len(list))

\* The newest rows, newest first.
Newest == [i \in 1..(IF Len(rows) < Limit THEN Len(rows) ELSE Limit) |-> rows[Len(rows) + 1 - i]]

NoteEvents == [note: Notes, count: Nat]
\* due (history): the pages of the snapshot that have kept their connection since.
PublisherStates == [pc: {"none", "inserted", "sending", "done"}, count: Nat,
                    todo: SUBSET Clients, stale: SUBSET Clients, due: SUBSET Clients]
NewPublisher == [pc |-> "none", count |-> 0, todo |-> {}, stale |-> {}, due |-> {}]

\* A page: its list, newest first, which of them it shows as read, the badge; got
\* (history): the notifications it was told of.
Pages == [list: Seq(Notes), read: SUBSET Notes, badge: Nat, loaded: BOOLEAN,
          got: SUBSET Notes]
NewPage == [list |-> <<>>, read |-> {}, badge |-> 0, loaded |-> FALSE,
            got |-> {}]

Requests == [kind: {"none", "list", "count", "fetched", "read", "readAll"},
             list: Seq(Notes), read: SUBSET Notes, badge: Nat, note: SUBSET Notes]
NewRequest == [kind |-> "none", list |-> <<>>, read |-> {}, badge |-> 0, note |-> {}]

NotesTypeOK ==
    /\ rows \in Seq(Notes)
    /\ readRows \subseteq Notes
    /\ publisher \in [Notes -> PublisherStates]
    /\ registered \subseteq Clients
    /\ socket \in [Clients -> [up: BOOLEAN, chan: Seq(NoteEvents)]]
    /\ left \in [Clients -> [connects: Nat, closes: Nat, requests: Nat]]
    /\ page \in [Clients -> Pages]
    /\ request \in [Clients -> Requests]
    /\ disturbed \subseteq Clients

NotesInit ==
    /\ rows = <<>> /\ readRows = {}
    /\ publisher = [n \in Notes |-> NewPublisher]
    /\ registered = {}
    /\ socket = [k \in Clients |-> [up |-> FALSE, chan |-> <<>>]]
    /\ left \in Budgets
    /\ page = [k \in Clients |-> NewPage]
    /\ request = [k \in Clients |-> NewRequest]
    /\ disturbed = {}

\* An announcement, an event or a response is on its way to page k.
OnItsWay(k) ==
    \/ \E n \in Notes : \/ publisher[n].pc = "inserted"
                        \/ publisher[n].pc = "sending" /\ k \in publisher[n].todo
    \/ socket[k].chan # <<>>
    \/ request[k].kind # "none"

\* The rows change: this disturbs the pages to which something is on its way, and
\* the pages of others, who are not told.
DisturbedBy(others) == disturbed' = disturbed \cup {k \in Clients : OnItsWay(k)} \cup others

-----------------------------------------------------------------------------
(* Announcing a run: create_task_notification_for_run, broadcast.            *)

\* The row is committed.  A page that is loading or being told of another one is
\* racing with it.
Insert(n) ==
    /\ publisher[n].pc = "none"
    /\ rows' = Append(rows, n)
    /\ publisher' = [publisher EXCEPT ![n].pc = "inserted"]
    /\ DisturbedBy({})
    /\ UNCHANGED <<readRows, registered, socket, page, request, left>>

\* Mutated form: its own notification is not counted.
CountAndSnapshot_Others(n) ==
    /\ publisher[n].pc = "inserted"
    /\ publisher' = [publisher EXCEPT ![n].pc = "sending", ![n].todo = registered,
                        ![n].due = {k \in registered : socket[k].up},
                        ![n].count = Cardinality(Ids(rows) \ (readRows \cup {n}))]
    /\ disturbed' = disturbed \cup (Clients \ registered)
    /\ UNCHANGED <<noteRows, registered, socket, page, request, left>>

\* The row is refreshed, the unread rows are counted, in a query of its own, and broadcast takes a snapshot
\* of the connections.  Pages that are not in it will not hear of the notification.
CountAndSnapshot(n) ==
    /\ publisher[n].pc = "inserted"
    /\ publisher' = [publisher EXCEPT ![n].pc = "sending", ![n].todo = registered,
                        ![n].due = {k \in registered : socket[k].up},
                        ![n].count = Unread]
    /\ disturbed' = disturbed \cup (Clients \ registered)
    /\ UNCHANGED <<noteRows, registered, socket, page, request, left>>

\* send_text, in any order; a closed socket raises.
Send(n, k) ==
    /\ publisher[n].pc = "sending" /\ k \in publisher[n].todo
    /\ IF socket[k].up
       THEN /\ socket' = [socket EXCEPT ![k].chan =
                             Append(@, [note |-> n, count |-> publisher[n].count])]
            /\ publisher' = [publisher EXCEPT ![n].todo = @ \ {k}]
            /\ UNCHANGED disturbed
       ELSE /\ publisher' = [publisher EXCEPT ![n].todo = @ \ {k}, ![n].stale = @ \cup {k}]
            /\ disturbed' = disturbed \cup {k}
            /\ UNCHANGED socket
    /\ UNCHANGED <<noteRows, registered, page, request, left>>

\* Mutated form: the loop ends at the first socket that raises.
FinishBroadcast_AtFirstStale(n) ==
    /\ publisher[n].pc = "sending"
    /\ publisher[n].todo = {} \/ publisher[n].stale # {}
    /\ publisher' = [publisher EXCEPT ![n].pc = "done", ![n].todo = {}, ![n].stale = {}]
    /\ registered' = registered \ publisher[n].stale
    /\ UNCHANGED <<noteRows, socket, page, request, disturbed, left>>

\* The sockets that raised are dropped.
FinishBroadcast(n) ==
    /\ publisher[n].pc = "sending" /\ publisher[n].todo = {}
    /\ publisher' = [publisher EXCEPT ![n].pc = "done", ![n].stale = {}]
    /\ registered' = registered \ publisher[n].stale
    /\ UNCHANGED <<noteRows, socket, page, request, disturbed, left>>

\* The new row is refreshed first, which raises when it has been deleted already; the
\* task executor logs it, and nobody is told.
RefreshFails(n) ==
    /\ publisher[n].pc = "inserted" /\ n \notin Ids(rows)
    /\ publisher' = [publisher EXCEPT ![n].pc = "done"]
    /\ UNCHANGED <<noteRows, registered, socket, page, request, left, disturbed>>

-----------------------------------------------------------------------------
(* The socket of a page: it reconnects by itself, and loads nothing again.   *)

\* The chat handler registers the socket.
Connect(k) ==
    /\ ~socket[k].up /\ left[k].connects > 0
    /\ k \notin registered
    /\ left' = [left EXCEPT ![k].connects = @ - 1]
    /\ socket' = [socket EXCEPT ![k].up = TRUE]
    /\ registered' = registered \cup {k}
    /\ UNCHANGED <<noteRows, publisher, page, request, disturbed>>

\* The connection is lost, and the events on it.
LoseConnection(k) ==
    /\ socket[k].up /\ left[k].closes > 0
    /\ left' = [left EXCEPT ![k].closes = @ - 1]
    /\ socket' = [socket EXCEPT ![k] = [up |-> FALSE, chan |-> <<>>]]
    /\ disturbed' = IF socket[k].chan = <<>> THEN disturbed ELSE disturbed \cup {k}
    /\ publisher' = [n \in Notes |-> [publisher[n] EXCEPT !.due = @ \ {k}]]
    /\ UNCHANGED <<noteRows, registered, page, request>>

\* The chat handler notices that its socket is closed.
UnregisterSocket(k) ==
    /\ k \in registered /\ ~socket[k].up
    /\ registered' = registered \ {k}
    /\ UNCHANGED <<noteRows, publisher, socket, page, request, disturbed, left>>

\* replaceNotification: the notification comes first, and goes from where it was.
Listed(list, n) == <<n>> \o Without(list, n)

\* handleTaskNotificationEvent: the notification comes first, unread as it was, and
\* the badge shows what the server counted.
Receive(k) ==
    /\ socket[k].chan # <<>>
    /\ LET e == Head(socket[k].chan)
       IN  page' = [page EXCEPT ![k].list = Listed(@, e.note), ![k].read = @ \ {e.note},
                                ![k].badge = e.count, ![k].got = @ \cup {e.note}]
    /\ socket' = [socket EXCEPT ![k].chan = Tail(@)]
    /\ UNCHANGED <<noteRows, publisher, registered, request, disturbed, left>>

-----------------------------------------------------------------------------
(* The requests of a page.                                                   *)

Spend(k) == left[k].requests > 0 /\ left' = [left EXCEPT ![k].requests = @ - 1]
Ask(k) == request[k].kind = "none" /\ Spend(k)

\* fetchTaskNotifications, once, when the workspace opens: the newest rows ...
FetchRows(k) ==
    /\ Ask(k) /\ ~page[k].loaded
    /\ request' = [request EXCEPT ![k].kind = "list", ![k].list = Newest, ![k].read = readRows]
    /\ disturbed' = IF OnItsWay(k) \/ Len(rows) > Limit THEN disturbed \cup {k}
                    ELSE disturbed \ {k}
    /\ UNCHANGED <<noteRows, publisher, registered, socket, page>>

\* ... and, in a second query, how many are unread.
FetchCount(k) ==
    /\ request[k].kind = "list"
    /\ request' = [request EXCEPT ![k].kind = "fetched", ![k].badge = Unread]
    /\ UNCHANGED <<noteRows, publisher, registered, socket, page, disturbed, left>>

\* The answer replaces what the page shows.
Fetched(k) ==
    /\ request[k].kind = "fetched"
    /\ page' = [page EXCEPT ![k].list = request[k].list, ![k].read = request[k].read,
                            ![k].badge = request[k].badge, ![k].loaded = TRUE]
    /\ request' = [request EXCEPT ![k] = NewRequest]
    /\ UNCHANGED <<noteRows, publisher, registered, socket, disturbed, left>>

\* POST .../read of a listed notification, and its commit; of one that is deleted it is
\* 404, and the page stays as it is.
ReadNote(k, n) ==
    /\ Ask(k)
    /\ n \in (Ids(page[k].list) \ page[k].read) \cap Ids(rows)
    /\ readRows' = readRows \cup {n}
    /\ request' = [request EXCEPT ![k].kind = "read", ![k].note = {n}]
    /\ DisturbedBy(Clients \ {k})
    /\ UNCHANGED <<rows, publisher, registered, socket, page>>

\* POST /read-all, and its commit.
ReadAllNotes(k) ==
    /\ Ask(k)
    /\ readRows' = Ids(rows)
    /\ request' = [request EXCEPT ![k].kind = "readAll"]
    /\ DisturbedBy(Clients \ {k})
    /\ UNCHANGED <<rows, publisher, registered, socket, page>>

\* Mutated form: the badge is counted down.
ReadAnswered_CountsDown(k) ==
    /\ request[k].kind = "read"
    /\ page' = [page EXCEPT ![k].read = @ \cup (request[k].note \cap Ids(page[k].list)),
                            ![k].badge = @ - 1]
    /\ request' = [request EXCEPT ![k] = NewRequest]
    /\ UNCHANGED <<noteRows, publisher, registered, socket, disturbed, left>>

\* The answer: the badge is recomputed from the list, which may be cut.
ReadAnswered(k) ==
    /\ request[k].kind = "read"
    /\ LET read == page[k].read \cup (request[k].note \cap Ids(page[k].list))
       IN  page' = [page EXCEPT ![k].read = read,
                                ![k].badge = Cardinality(Ids(page[k].list) \ read)]
    /\ request' = [request EXCEPT ![k] = NewRequest]
    /\ UNCHANGED <<noteRows, publisher, registered, socket, disturbed, left>>

\* The row was deleted between the commit and its refresh: 500.
ReadFails(k) ==
    /\ request[k].kind = "read" /\ request[k].note \cap Ids(rows) = {}
    /\ request' = [request EXCEPT ![k] = NewRequest]
    /\ UNCHANGED <<noteRows, publisher, registered, socket, page, disturbed, left>>

ReadAllAnswered(k) ==
    /\ request[k].kind = "readAll"
    /\ page' = [page EXCEPT ![k].read = Ids(page[k].list), ![k].badge = 0]
    /\ request' = [request EXCEPT ![k] = NewRequest]
    /\ UNCHANGED <<noteRows, publisher, registered, socket, disturbed, left>>

\* delete_inspection_task, asked for by page k: the notifications of its runs go with
\* the task, and no page is told or loads again.  Those of one task go in one commit;
\* here one after the other, which only adds states.
DeleteNote(k, n) ==
    /\ Spend(k)
    /\ n \in Ids(rows)
    /\ rows' = Without(rows, n)
    /\ readRows' = readRows \ {n}
    /\ DisturbedBy({c \in Clients : page[c].loaded})
    /\ UNCHANGED <<publisher, registered, socket, page, request>>

-----------------------------------------------------------------------------

Announce(n) == CountAndSnapshot(n) \/ (\E k \in Clients : Send(n, k))
               \/ FinishBroadcast(n) \/ RefreshFails(n)

Answer(k) == FetchCount(k) \/ Fetched(k) \/ ReadAnswered(k) \/ ReadFails(k) \/ ReadAllAnswered(k)

NotesNext ==
    \/ \E n \in Notes : Insert(n) \/ Announce(n)
    \/ \E k \in Clients :
          \/ Connect(k) \/ LoseConnection(k) \/ UnregisterSocket(k) \/ Receive(k)
          \/ FetchRows(k) \/ Answer(k) \/ ReadAllNotes(k)
          \/ \E n \in Notes : ReadNote(k, n) \/ DeleteNote(k, n)

NotesSpec == NotesInit /\ [][NotesNext]_notesVars

-----------------------------------------------------------------------------
(* Properties.                                                               *)

\* A page shows exactly the rows, which are read, and how many are not, once it has
\* loaded and nothing is on its way to it - unless, since it loaded, the rows changed
\* while something was on its way, an event did not reach it, another page read
\* rows, a task was deleted (no page is told), or it got a list that was cut.
UndisturbedPageIsTrue ==
    \A k \in Clients \ disturbed :
        page[k].loaded /\ ~OnItsWay(k) =>
            /\ page[k].list = [i \in DOMAIN rows |-> rows[Len(rows) + 1 - i]]
            /\ page[k].read = readRows
            /\ page[k].badge = Unread

\* A page that is registered when a notification is broadcast, and keeps its
\* connection, has been told of it when the broadcast ends, or is about to be; the
\* dead socket of another page does not prevent that.
OnlineIsTold ==
    \A n \in Notes : publisher[n].pc = "done" =>
        \A k \in publisher[n].due :
            n \in page[k].got \/ \E i \in DOMAIN socket[k].chan : socket[k].chan[i].note = n
=============================================================================
