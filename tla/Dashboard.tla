------------------------------ MODULE Dashboard ------------------------------
(***************************************************************************)
(* Dashboard: one open tab.  The server commits a change and then emits an *)
(* event; the socket of the tab hears the events in the order in which all *)
(* of them are published (WsGateway, SameOrder) while it is connected; the *)
(* page that is open fetches its list again when it hears an event of its  *)
(* own, when its filter changes and when it opens.                         *)
(***************************************************************************)
EXTENDS Naturals, Sequences, Functions

CONSTANTS
    Pages,       \* the pages visited, of "logs", "mailboxes", "clients", "other"
    Kinds,       \* the kinds of change that occur, named by their events
    Filters,     \* the filters of the logs page
    AnyLog,      \* the one it opens with
    MaxChanges,  \* bound: changes committed
    MaxIssued    \* bound: lists one page asks for

ASSUME DashboardAssumption ==
    /\ "other" \in Pages /\ AnyLog \in Filters
    /\ MaxChanges \in Nat /\ MaxIssued \in Nat \ {0}

VARIABLES
    version,   \* how many changes of each kind are committed
    pending,   \* those committed and not emitted
    emitted,   \* the events published, in order
    at,        \* how many of them the socket has passed
    socket,    \* "off", "connecting" or "on"
    users,     \* socketUsers: how many useSocket hooks are at work
    page, filter,
    requests,  \* the lists asked for and not answered
    issued,    \* how many were asked for since the page was opened
    shown,     \* the answer that is shown
    covered,   \* how many events there were when the newest was asked for
    gap        \* whether an event that followed may never be heard

serverVars == <<version, pending, emitted>>
socketVars == <<at, socket, users>>
listVars == <<requests, issued, shown, covered, gap>>
dashboardVars == <<serverVars, socketVars, page, filter, listVars>>

Changes == [kind : Kinds, id : Nat]
Versions == [Kinds -> Nat]

(* What each list shows changes of, table by table in the order of reading. *)
ListEvents == {"email_event"}
ListMailboxes == {"mailboxAdded", "mailboxUpdated"}
ListClients == <<{"clientAdded"}, ListMailboxes>>

Lists(p) == CASE p = "logs" -> <<ListEvents>>
              [] p = "mailboxes" -> <<ListMailboxes>>
              [] p = "clients" -> ListClients
              [] OTHER -> <<>>

(* The events the pages fetch their lists on. *)
LogsHear == {"email_event"}
MailboxesHear == {"mailboxAdded", "mailboxUpdated"}
ClientsHear == {"clientAdded", "mailboxAdded"}

Hears(p) == CASE p = "logs" -> LogsHear
              [] p = "mailboxes" -> MailboxesHear
              [] p = "clients" -> ClientsHear
              [] OTHER -> {}

(* A page that hears events calls useSocket with the handler that does.    *)
UsesSocket(p) == Hears(p) # {}

Requests == [no : 1 .. MaxIssued, filter : Filters, ver : Versions,
             left : {Lists(p) : p \in Pages} \cup {<<>>, <<ListMailboxes>>}]
Nothing == [no |-> 0, filter |-> AnyLog, ver |-> [k \in Kinds |-> 0], left |-> <<>>]

DashboardTypeOK ==
    /\ version \in Versions
    /\ pending \subseteq Changes
    /\ emitted \in Seq(Changes)
    /\ at \in 0 .. Len(emitted)
    /\ socket \in {"off", "connecting", "on"}
    /\ users \in {0, 1}
    /\ page \in Pages /\ filter \in Filters
    /\ requests \subseteq Requests
    /\ issued \in 0 .. MaxIssued
    /\ shown \in Requests \cup {Nothing}
    /\ covered \in 0 .. Len(emitted)
    /\ gap \in BOOLEAN

-----------------------------------------------------------------------------
(* The effects that share the one socket, on a record of socket and users. *)
(* connect() while the connection is being made changes nothing.           *)
Connecting(s) == IF s = "on" THEN s ELSE "connecting"

(* The hook of page p ends: its last user disconnects the socket.          *)
HookCleanup(p, l) ==
    IF ~UsesSocket(p) THEN l
    ELSE [users |-> l.users - 1,
          socket |-> IF l.users - 1 <= 0 THEN "off" ELSE l.socket]

(* Mutant: only the first user of the tab connects, not the hook.          *)
HookEffect_CountsOnly(p, l) ==
    IF ~UsesSocket(p) THEN l ELSE [l EXCEPT !.users = @ + 1]

(* The hook of page p begins. *)
HookEffect(p, l) ==
    IF ~UsesSocket(p) THEN l
    ELSE [users |-> l.users + 1, socket |-> Connecting(l.socket)]

(* The provider connects the socket whenever the path is another, is not   *)
(* counted as a user and never disconnects.                                *)
ProviderEffect(l) == [l EXCEPT !.socket = Connecting(@)]

(* React runs the cleanups first, then the effects, those of the page      *)
(* before those of the provider around it.                                 *)
Link == [users |-> users, socket |-> socket]
LinkBecomes(l) == users' = l.users /\ socket' = l.socket

(* The list of p is asked for with filter f, beside those in olds. *)
Ask(p, f, olds) ==
    /\ issued < MaxIssued
    /\ issued' = issued + 1
    /\ requests' = olds \cup {[no |-> issued + 1, filter |-> f,
                               ver |-> [k \in Kinds |-> 0], left |-> Lists(p)]}
    /\ covered' = Len(emitted)
    /\ gap' = FALSE
    /\ UNCHANGED shown

Open(p) ==
    /\ page' = p
    /\ filter' = AnyLog
    /\ shown' = Nothing
    /\ covered' = Len(emitted)
    /\ gap' = FALSE
    /\ IF UsesSocket(p)
       THEN /\ issued' = 1
            /\ requests' = {[no |-> 1, filter |-> AnyLog,
                             ver |-> [k \in Kinds |-> 0], left |-> Lists(p)]}
       ELSE issued' = 0 /\ requests' = {}

DashboardInit ==
    /\ version = [k \in Kinds |-> 0]
    /\ pending = {} /\ emitted = <<>> /\ at = 0
    /\ socket = "connecting" /\ users = 0
    /\ page = "other" /\ filter = AnyLog
    /\ requests = {} /\ issued = 0 /\ shown = Nothing
    /\ covered = 0 /\ gap = FALSE

-----------------------------------------------------------------------------
(* Mutant: the event is emitted before the save. *)
Commit_EmitsFirst(k) ==
    /\ SumFunction(version) < MaxChanges
    /\ \/ /\ [kind |-> k, id |-> version[k] + 1] \notin pending
          /\ pending' = pending \cup {[kind |-> k, id |-> version[k] + 1]}
          /\ emitted' = Append(emitted, [kind |-> k, id |-> version[k] + 1])
          /\ UNCHANGED version
       \/ /\ [kind |-> k, id |-> version[k] + 1] \in pending
          /\ version' = [version EXCEPT ![k] = @ + 1]
          /\ pending' = pending \ {[kind |-> k, id |-> version'[k]]}
          /\ UNCHANGED emitted
    /\ UNCHANGED <<socketVars, page, filter, listVars>>

(* Some request changes the database: save, awaited. *)
Commit(k) ==
    /\ SumFunction(version) < MaxChanges
    /\ version' = [version EXCEPT ![k] = @ + 1]
    /\ pending' = pending \cup {[kind |-> k, id |-> version'[k]]}
    /\ UNCHANGED <<emitted, socketVars, page, filter, listVars>>

(* It then emits; or its process dies first, and nobody is told. *)
Emit(c) ==
    /\ pending' = pending \ {c}
    /\ \/ emitted' = Append(emitted, c) /\ UNCHANGED listVars
       \/ gap' = TRUE /\ UNCHANGED <<emitted, requests, issued, shown, covered>>
    /\ UNCHANGED <<version, socketVars, page, filter>>

(* One table is read for a list.  The list of clients reads two. *)
Read(r) ==
    /\ r.left # <<>>
    /\ LET kinds == Head(r.left)
           read == [r EXCEPT !.left = Tail(@),
                             !.ver = [k \in Kinds |-> IF k \in kinds
                                                      THEN version[k] ELSE @[k]]]
       IN requests' = (requests \ {r}) \cup {read}
    /\ UNCHANGED <<serverVars, socketVars, page, filter, issued, shown, covered,
                   gap>>

(* The list arrives, whichever was asked for first. *)
Arrive(r) ==
    /\ r.left = <<>>
    /\ requests' = requests \ {r}
    /\ shown' = r
    /\ UNCHANGED <<serverVars, socketVars, page, filter, issued, covered, gap>>

(* The request fails, and the page goes on showing what it has. *)
Fail(r) ==
    /\ requests' = requests \ {r}
    /\ UNCHANGED <<serverVars, socketVars, page, filter, issued, shown, covered,
                   gap>>

-----------------------------------------------------------------------------
(* The connection is made, to a process that may be behind or ahead of the *)
(* one before: it goes on from any point.                                  *)
Connect(k) ==
    /\ socket = "connecting"
    /\ socket' = "on"
    /\ at' = k
    /\ gap' = (gap \/ (k > at /\ k > covered))
    /\ UNCHANGED <<serverVars, users, page, filter, requests, issued, shown, covered>>

(* The connection breaks; socket.io tries again. *)
Drop ==
    /\ socket = "on"
    /\ socket' = "connecting"
    /\ UNCHANGED <<serverVars, at, users, page, filter, listVars>>

(* The next event is heard by the page. *)
Hear ==
    /\ socket = "on"
    /\ at < Len(emitted)
    /\ at' = at + 1
    /\ IF emitted[at + 1].kind \in Hears(page)
       THEN Ask(page, filter, requests) ELSE UNCHANGED listVars
    /\ UNCHANGED <<serverVars, socket, users, page, filter>>

(* Another page: the old one's requests are answered to nobody. *)
Navigate(p) ==
    /\ p # page
    /\ Open(p)
    /\ LinkBecomes(ProviderEffect(HookEffect(p, HookCleanup(page, Link))))
    /\ UNCHANGED <<serverVars, at>>

(* Mutant: the list is not asked for again. *)
SetFilter_NoFetch(f) ==
    /\ page = "logs" /\ f # filter
    /\ filter' = f
    /\ UNCHANGED <<serverVars, socketVars, page, listVars>>

(* A new filter makes a new handler: the hook ends and begins again.  The  *)
(* path is the same, and the provider does nothing.                        *)
SetFilter(f) ==
    /\ page = "logs" /\ f # filter
    /\ filter' = f
    /\ Ask(page, f, requests)
    /\ LinkBecomes(HookEffect(page, HookCleanup(page, Link)))
    /\ UNCHANGED <<serverVars, at, page>>

(* The page's own writes, each a Commit like any other, are answered: the  *)
(* list is asked for again, of mailboxes whether the write failed or not.  *)
(* And the refresh button of the logs.                                     *)
RefreshMailbox == page = "mailboxes" /\ Ask(page, filter, requests)
AddClient == page = "clients" /\ Ask(page, filter, requests)
RefreshLogs == page = "logs" /\ Ask(page, filter, requests)

Refresh ==
    /\ RefreshMailbox \/ AddClient \/ RefreshLogs
    /\ UNCHANGED <<serverVars, socketVars, page, filter>>

(* The tab is loaded again. *)
Reload ==
    /\ Open(page)
    /\ LinkBecomes(ProviderEffect(HookEffect(page, [users |-> 0, socket |-> "off"])))
    /\ UNCHANGED <<serverVars, at>>

DashboardNext ==
    \/ \E k \in Kinds : Commit(k)
    \/ \E c \in pending : Emit(c)
    \/ \E r \in requests : Read(r) \/ Arrive(r) \/ Fail(r)
    \/ \E k \in 0 .. Len(emitted) : Connect(k)
    \/ Drop \/ Hear \/ Refresh \/ Reload
    \/ \E p \in Pages : Navigate(p)
    \/ \E f \in Filters : SetFilter(f)

DashboardSpec == DashboardInit /\ [][DashboardNext]_dashboardVars

-----------------------------------------------------------------------------
(* Nothing is under way: no change to announce, no list to come, and no    *)
(* connection: the socket has passed every event or is disconnected, and   *)
(* then nobody will connect it while the page stays as it is.              *)
Quiet ==
    /\ pending = {} /\ requests = {}
    /\ socket = "off" \/ (socket = "on" /\ at = Len(emitted))

(* The answer on show is to the newest request (it did not fail and no     *)
(* older answer came after it), and no event since was lost.               *)
Undisturbed == shown.no = issued /\ ~gap

(* A quiet page shows the present, through its present filter: whatever    *)
(* was committed before the list was read is in it, and whatever was       *)
(* committed after was heard of and made the page fetch again.  On no path *)
(* of pages and filters is a page left with the socket its predecessor     *)
(* disconnected.                                                           *)
QuietIsCurrent ==
    Quiet /\ Undisturbed /\ UsesSocket(page) =>
        /\ shown.filter = filter
        /\ \A k \in Kinds \cap Hears(page) : shown.ver[k] = version[k]

=============================================================================
