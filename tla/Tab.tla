--------------------------------- MODULE Tab ---------------------------------
(***************************************************************************)
(* Tab: the session and the unread counter in one tab of a browser.  The   *)
(* provider that counts is part of the root layout: it goes on counting on *)
(* the login page, and keeps the ids it has seen when the router replaces  *)
(* one page by another.  Only a document that is loaded forgets them, and  *)
(* a 401 or a logout loads one.                                            *)
(***************************************************************************)
EXTENDS Session, UnreadLogs

ASSUME OneTab == \A t, u \in Tabs : t = u

tabVars == <<vars, unreadVars>>

TabInit == Init /\ UnreadInit

(* The path is no longer that of the logs. *)
CloseLogs == IF logsOpen THEN LeaveLogs ELSE UNCHANGED unreadVars

-----------------------------------------------------------------------------
(* The document is loaded, with the token of the storage. *)
LoadDocument(t) ==
    /\ Load(t)
    /\ \E k \in 0 .. emitted : LoadTab(k, stored # None)

(* The tab is sent to the login page, by its layout, a click or a 401. *)
ToLogin(t) ==
    /\ LeaveDashboard(t) \/ Logout(t) \/ Unauthorized(t)
    /\ CloseLogs

(* What the counter does not notice. *)
SessionOnly(t) ==
    /\ \/ Reload(t) \/ EnterDashboard(t) \/ Request(t) \/ Answer(t)
       \/ \E tok \in Tokens : Login(t, tok)
    /\ UNCHANGED unreadVars

(* The links of the sidebar. *)
BrowseLogs(t) ==
    /\ t \notin loading /\ path[t] = "dashboard" /\ mem[t] # None
    /\ OpenLogs \/ LeaveLogs
    /\ UNCHANGED vars

Listen(t) ==
    /\ t \notin loading
    /\ Hear \/ \E k \in 0 .. emitted : Reconnect(k)
    /\ UNCHANGED vars

TabNext ==
    \/ \E t \in Tabs :
         LoadDocument(t) \/ ToLogin(t) \/ SessionOnly(t) \/ BrowseLogs(t) \/ Listen(t)
    \/ \E tok \in Tokens : Expire(tok) /\ UNCHANGED unreadVars
    \/ Publish /\ UNCHANGED vars

TabSpec == TabInit /\ [][TabNext]_tabVars

=============================================================================
