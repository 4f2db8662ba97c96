----------------------------- MODULE ClientsPage -----------------------------
(***************************************************************************)
(* ClientsPage: adding clients.  Nothing but this page keeps two clients   *)
(* from having one domain: table client has no such index, and the server  *)
(* does not look.  The page compares the domain in its form with the list  *)
(* on show, which is the newest clients as of when it was read.            *)
(***************************************************************************)
EXTENDS Naturals, Sequences, FiniteSets

CONSTANTS
    Domains,    \* domains, apart from their spelling
    Spellings,  \* the ways to spell one: capitals, spaces around it
    Take,       \* how many clients the server lists (100)
    NoEntry,    \* a form that is not filled in
    MaxClients, \* bound: clients stored
    MaxLists,   \* bound: lists asked for in one visit of the page
    MaxFaults   \* bound: faults

ASSUME ClientsAssumption ==
    /\ NoEntry \notin Domains \X Spellings
    /\ Take \in Nat \ {0} /\ MaxLists \in Nat \ {0}
    /\ MaxClients \in Nat /\ MaxFaults \in Nat

VARIABLES
    clients,    \* table client, in the order of creation
    form,       \* the domain typed, with the rest of the form
    modal,      \* whether the form is open
    adding,     \* handleAdd: how far it is, with what, awaiting which list
    abandoned,  \* the POSTs nobody awaits that have yet to be handled
    lists,      \* the GETs of this visit
    listed,     \* how many of them there were
    shown,      \* the clients there were when the list on show was read
    opening,    \* whether the first list is awaited
    faults      \* what went wrong

clientsVars ==
    <<clients, form, modal, adding, abandoned, lists, listed, shown, opening, faults>>

Entries == Domains \X Spellings
Domain(entry) == entry[1]
Idle == [step |-> "idle", entry |-> NoEntry, list |-> 0]
Lists == [no : 1 .. MaxLists, read : BOOLEAN, count : Nat]

ClientsTypeOK ==
    /\ clients \in Seq(Entries)
    /\ form \in Entries \cup {NoEntry}
    /\ modal \in BOOLEAN /\ opening \in BOOLEAN
    /\ adding \in [step : {"idle", "posted", "saved", "listing"},
                   entry : Entries \cup {NoEntry}, list : 0 .. MaxLists]
    /\ abandoned \subseteq (1 .. MaxFaults) \X Entries
    /\ lists \subseteq Lists
    /\ listed \in 0 .. MaxLists
    /\ shown \in 0 .. Len(clients)
    /\ faults \in 0 .. MaxFaults

Fault == faults < MaxFaults /\ faults' = faults + 1

-----------------------------------------------------------------------------
(* findAll: the newest Take of the first n clients. *)
FirstPage(n) == {clients[i] : i \in {k \in 1 .. n : k + Take > n}}

OnShow == FirstPage(shown)

(* Mutant: compared as they are spelled. *)
IsDuplicate_Raw(entry) == entry \in OnShow

(* isDuplicateDomain *)
IsDuplicate(entry) == \E c \in OnShow : Domain(c) = Domain(entry)

(* The button of the form is enabled. *)
CanAdd == adding = Idle /\ form # NoEntry /\ ~IsDuplicate(form)

(* fetchClients *)
FetchClients ==
    /\ listed < MaxLists
    /\ listed' = listed + 1
    /\ lists' = lists \cup {[no |-> listed + 1, read |-> FALSE, count |-> 0]}

FirstList == {[no |-> 1, read |-> FALSE, count |-> 0]}

-----------------------------------------------------------------------------
ClientsInit ==
    /\ clients = <<>>
    /\ form = NoEntry /\ modal = FALSE
    /\ adding = Idle /\ abandoned = {}
    /\ lists = FirstList /\ listed = 1
    /\ shown = 0 /\ opening = TRUE
    /\ faults = 0

(* The page is left and opened again.  It is a fault to leave a POST behind*)
(* that is not answered; what was typed is gone.                           *)
ReopenClients ==
    /\ IF adding.step = "posted"
       THEN Fault /\ abandoned' = abandoned \cup {<<faults + 1, adding.entry>>}
       ELSE UNCHANGED <<faults, abandoned>>
    /\ form' = NoEntry /\ modal' = FALSE
    /\ adding' = Idle
    /\ lists' = FirstList /\ listed' = 1
    /\ shown' = 0 /\ opening' = TRUE
    /\ UNCHANGED clients

OpenModal(open) ==
    /\ ~opening /\ modal # open
    /\ modal' = open
    /\ UNCHANGED <<clients, form, adding, abandoned, lists, listed, shown,
                   opening, faults>>

TypeClient(f) ==
    /\ modal /\ f # form
    /\ form' = f
    /\ UNCHANGED <<clients, modal, adding, abandoned, lists, listed, shown,
                   opening, faults>>

(* handleAdd, up to the POST. *)
HandleAdd ==
    /\ modal /\ CanAdd
    /\ adding' = [Idle EXCEPT !.step = "posted", !.entry = form]
    /\ UNCHANGED <<clients, form, modal, abandoned, lists, listed, shown,
                   opening, faults>>

(* create of ClientsService saves the client. *)
SaveClient ==
    /\ adding.step = "posted" /\ Len(clients) < MaxClients
    /\ clients' = Append(clients, adding.entry)
    /\ adding' = [adding EXCEPT !.step = "saved"]
    /\ UNCHANGED <<form, modal, abandoned, lists, listed, shown, opening, faults>>

SaveAbandoned(p) ==
    /\ Len(clients) < MaxClients
    /\ clients' = Append(clients, p[2])
    /\ abandoned' = abandoned \ {p}
    /\ UNCHANGED <<form, modal, adding, lists, listed, shown, opening, faults>>

LoseAbandoned(p) ==
    /\ abandoned' = abandoned \ {p}
    /\ UNCHANGED <<clients, form, modal, adding, lists, listed, shown, opening, faults>>

(* Another admin, in a browser of their own, adds a client. *)
OtherAdds(entry) ==
    /\ Len(clients) < MaxClients /\ Fault
    /\ clients' = Append(clients, entry)
    /\ UNCHANGED <<form, modal, adding, abandoned, lists, listed, shown, opening>>

(* handleAdd goes on: the POST was answered. *)
Added ==
    /\ adding.step = "saved"
    /\ modal' = FALSE /\ form' = NoEntry
    /\ FetchClients
    /\ adding' = [Idle EXCEPT !.step = "listing", !.list = listed + 1]
    /\ UNCHANGED <<clients, abandoned, shown, opening, faults>>

(* The POST is refused. *)
AddFails ==
    /\ adding.step = "posted"
    /\ adding' = Idle
    /\ UNCHANGED <<clients, form, modal, abandoned, lists, listed, shown, opening, faults>>

(* The answer is lost, when the client is saved already or may be yet. *)
LoseAdded ==
    /\ adding.step \in {"posted", "saved"}
    /\ Fault
    /\ abandoned' = IF adding.step = "saved" THEN abandoned
                    ELSE abandoned \cup {<<faults + 1, adding.entry>>}
    /\ adding' = Idle
    /\ UNCHANGED <<clients, form, modal, lists, listed, shown, opening>>

-----------------------------------------------------------------------------
(* A clientAdded or a mailboxAdded is heard, from whomever. *)
ClientsEvent ==
    /\ FetchClients
    /\ UNCHANGED <<clients, form, modal, adding, abandoned, shown, opening, faults>>

ReadClients(a) ==
    /\ ~a.read
    /\ lists' = (lists \ {a}) \cup {[a EXCEPT !.read = TRUE, !.count = Len(clients)]}
    /\ UNCHANGED <<clients, form, modal, adding, abandoned, listed, shown,
                   opening, faults>>

(* What awaited the list goes on, and ends. *)
ListDone(a) ==
    /\ opening' = (opening /\ a.no # 1)
    /\ adding' = IF adding.step = "listing" /\ adding.list = a.no THEN Idle ELSE adding

(* A list arrives, in any order; it is a fault if a newer one is on show. *)
ShowClients(a) ==
    /\ a.read
    /\ IF a.count < shown THEN Fault ELSE UNCHANGED faults
    /\ shown' = a.count
    /\ lists' = lists \ {a}
    /\ ListDone(a)
    /\ UNCHANGED <<clients, form, modal, abandoned, listed>>

ListClientsFails(a) ==
    /\ Fault
    /\ lists' = lists \ {a}
    /\ ListDone(a)
    /\ UNCHANGED <<clients, form, modal, abandoned, listed, shown>>

ClientsNext ==
    \/ ReopenClients \/ HandleAdd \/ SaveClient \/ Added \/ AddFails \/ LoseAdded
    \/ ClientsEvent
    \/ \E open \in BOOLEAN : OpenModal(open)
    \/ \E f \in Entries \cup {NoEntry} : TypeClient(f)
    \/ \E entry \in Entries : OtherAdds(entry)
    \/ \E p \in abandoned : SaveAbandoned(p) \/ LoseAbandoned(p)
    \/ \E a \in lists : ReadClients(a) \/ ShowClients(a) \/ ListClientsFails(a)

ClientsSpec == ClientsInit /\ [][ClientsNext]_clientsVars

-----------------------------------------------------------------------------
(* The clients added although one with their domain was among the Take     *)
(* clients before them.                                                    *)
Duplicates ==
    {i \in 1 .. Len(clients) :
        \E j \in 1 .. i - 1 :
            j + Take >= i /\ Domain(clients[j]) = Domain(clients[i])}

(* The check on the page lets no such client through, however the POSTs,   *)
(* the events and the lists interleave, but for one per fault: an answer   *)
(* lost, a list failed or overtaken, a POST left behind, another admin.    *)
DuplicatesCostFaults == Cardinality(Duplicates) <= faults

=============================================================================
