----------------------------- MODULE UnreadLogs -----------------------------
(***************************************************************************)
(* UnreadLogs: the counter beside "Logs" in the sidebar of one tab.  The   *)
(* provider counts the email_events that the tab hears while another page  *)
(* is open; it remembers their ids, because a tab that connects again may  *)
(* hear an event again.  The counter is in localStorage, the ids are not.  *)
(* (When a tab is loaded, and by whom it is left, Tab says.)               *)
(***************************************************************************)
EXTENDS Naturals, FiniteSets

CONSTANT MaxEvents   \* bound: the events published

ASSUME UnreadAssumption == MaxEvents \in Nat

VARIABLES
    emitted,   \* how many events were published; they are 1 .. emitted
    at,        \* the last the connection passed on
    heard,     \* the events this tab heard since it was loaded
    logsOpen,  \* whether the path is /dashboard/logs
    unread,    \* unreadCount
    seen,      \* seenEventIdsRef
    found      \* unreadCount when the tab was loaded or the logs opened last
unreadVars == <<emitted, at, heard, logsOpen, unread, seen, found>>

UnreadTypeOK ==
    /\ emitted \in 0 .. MaxEvents
    /\ at \in 0 .. emitted
    /\ heard \subseteq 1 .. emitted
    /\ logsOpen \in BOOLEAN
    /\ unread \in Nat
    /\ seen \subseteq heard
    /\ found \in Nat

UnreadInit ==
    /\ emitted = 0 /\ at = 0
    /\ heard = {} /\ seen = {}
    /\ logsOpen = FALSE
    /\ unread = 0
    /\ found = 0

increment == unread' = unread + 1
reset == unread' = 0 /\ found' = 0

-----------------------------------------------------------------------------
Publish ==
    /\ emitted < MaxEvents
    /\ emitted' = emitted + 1
    /\ UNCHANGED <<at, heard, logsOpen, unread, seen, found>>

(* The socket connects to a process that is behind or ahead. *)
Reconnect(k) ==
    /\ at' = k
    /\ UNCHANGED <<emitted, heard, logsOpen, unread, seen, found>>

(* Mutant: the id is not remembered. *)
Handler_Forgets(e) ==
    IF e \notin seen /\ ~logsOpen
    THEN increment /\ UNCHANGED seen
    ELSE UNCHANGED <<unread, seen>>

(* handler *)
Handler(e) ==
    IF e \notin seen /\ ~logsOpen
    THEN seen' = seen \cup {e} /\ increment
    ELSE UNCHANGED <<unread, seen>>

Hear ==
    /\ at < emitted
    /\ at' = at + 1
    /\ heard' = heard \cup {at + 1}
    /\ Handler(at + 1)
    /\ UNCHANGED <<emitted, logsOpen, found>>

(* The logs page resets the counter when it is mounted. *)
OpenLogs ==
    /\ ~logsOpen
    /\ logsOpen' = TRUE
    /\ reset
    /\ UNCHANGED <<emitted, at, heard, seen>>

LeaveLogs ==
    /\ logsOpen
    /\ logsOpen' = FALSE
    /\ UNCHANGED <<emitted, at, heard, unread, seen, found>>

(* The document is loaded and connects; the logs page is mounted, if it is *)
(* open and somebody is signed in.                                         *)
LoadTab(k, signedIn) ==
    /\ at' = k
    /\ heard' = {} /\ seen' = {}
    /\ IF logsOpen /\ signedIn THEN reset ELSE found' = unread /\ UNCHANGED unread
    /\ UNCHANGED <<emitted, logsOpen>>

UnreadNext ==
    \/ Publish \/ Hear \/ OpenLogs \/ LeaveLogs
    \/ \E k \in 0 .. emitted :
         Reconnect(k) \/ \E signedIn \in BOOLEAN : LoadTab(k, signedIn)

UnreadSpec == UnreadInit /\ [][UnreadNext]_unreadVars

-----------------------------------------------------------------------------
(* Since the logs were opened or the tab loaded, the counter grew by no    *)
(* more than there are events the tab heard since it was loaded, however   *)
(* often it heard them.                                                    *)
UnreadOnce == unread <= found + Cardinality(heard)

=============================================================================
