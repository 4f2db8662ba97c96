------------------------------- MODULE Console -------------------------------
(***************************************************************************)
(* Console: the pages of the dashboard that keep their state to themselves.*)
(* A page's state is made when it is mounted and gone when it is left, and *)
(* the tables that the four of them read are different ones: a behaviour   *)
(* is that of one page, with what goes on around it.                       *)
(***************************************************************************)
EXTENDS LogsPage, ClientsPage, ComposePage, TokenExpiry

VARIABLE page

vars == <<page, logsVars, clientsVars, composeVars, expiryVars>>

Init ==
    /\ page \in {"logs", "clients", "compose", "expiry"}
    /\ LogsInit /\ ClientsInit /\ ComposeInit /\ ExpiryInit

OnLogs ==
    /\ page = "logs" /\ LogsNext
    /\ UNCHANGED <<page, clientsVars, composeVars, expiryVars>>

OnClients ==
    /\ page = "clients" /\ ClientsNext
    /\ UNCHANGED <<page, logsVars, composeVars, expiryVars>>

OnCompose ==
    /\ page = "compose" /\ ComposeNext
    /\ UNCHANGED <<page, logsVars, clientsVars, expiryVars>>

(* The pages that show whose token is expired. *)
OnExpiry ==
    /\ page = "expiry" /\ ExpiryNext
    /\ UNCHANGED <<page, logsVars, clientsVars, composeVars>>

Next == OnLogs \/ OnClients \/ OnCompose \/ OnExpiry

Spec == Init /\ [][Next]_vars

=============================================================================
