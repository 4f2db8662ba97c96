----------------------------- MODULE TokenExpiry -----------------------------
(***************************************************************************)
(* TokenExpiry: who takes a mailbox's token for expired, and when.  Places  *)
(* all over the code compare tokenExpiresAt with a clock of their own     *)
(* reading, not all in the same way; a page goes on showing the verdict it *)
(* was sent, or passed itself, until it asks again.                        *)
(***************************************************************************)
EXTENDS Integers, Sequences, FiniteSets

CONSTANTS
    Mailboxes, Clients,
    ClientOf,   \* the client of each mailbox
    Lifetimes,  \* bound: the lives of tokens, one of them what a refresh gives
    MaxNow,     \* bound: the time
    Never,      \* the provider named no expiry: tokenExpiresAt is null
    Absent      \* the mailbox is not linked

ASSUME ExpiryAssumption ==
    /\ ClientOf \in [Mailboxes -> Clients]
    /\ Lifetimes \subseteq Nat \ {0}
    /\ MaxNow \in Nat
    /\ Never \notin Int /\ Absent \notin Int /\ Never # Absent

VARIABLES
    now,      \* the clock; browsers and servers agree on it
    expiry,   \* tokenExpiresAt of each row of table mailbox
    request,  \* the list a page waits for
    board     \* the page, the mailboxes it calls expired and the rows they were

expiryVars == <<now, expiry, request, board>>

Expiries == Nat \cup {Never, Absent}
TokenRows == [Mailboxes -> Expiries]
Pages == {"mailboxes", "clients", "settings"}

(* What is left to do for a list.  The list of clients is judged by a      *)
(* clock read before the mailboxes, the list of mailboxes by one read      *)
(* after them, and the settings page judges what has arrived.              *)
Plan == [mailboxes |-> <<"rows", "clock">>, clients |-> <<"clock", "rows">>,
         settings |-> <<"rows">>]
Request(p) == [page |-> p, left |-> Plan[p], at |-> 0, of |-> [m \in Mailboxes |-> Absent]]
NoRequest == [page |-> "none", left |-> <<>>, at |-> 0, of |-> [m \in Mailboxes |-> Absent]]
Blank == [page |-> "none", expired |-> {}, of |-> [m \in Mailboxes |-> Absent]]

ExpiryTypeOK ==
    /\ now \in Nat
    /\ expiry \in TokenRows
    /\ request \in [page : Pages \cup {"none"}, left : Seq({"rows", "clock"}),
                    at : Nat, of : TokenRows]
    /\ board \in [page : Pages \cup {"none"}, expired : SUBSET Mailboxes, of : TokenRows]

Known(e) == e \notin {Never, Absent}

-----------------------------------------------------------------------------
(* The verdicts, on an expiry e at time t.                                 *)

(* processSend of MailService; a missing mailbox counts as expired. *)
SendRefused(e, t) == e = Absent \/ (Known(e) /\ e < t)

(* The webhooks, where no expiry is configured for all mailboxes. *)
InboundRefused(e, t) == Known(e) /\ e <= t

(* findAll of MailboxesService and of ClientsService. *)
MailboxActive(e, t) == e = Never \/ (Known(e) /\ e > t)

(* Mutant: every mailbox of the client must be active. *)
ClientActive_Every(of, c, t) ==
    \A m \in Mailboxes :
        ClientOf[m] = c => (of[m] = Never \/ (Known(of[m]) /\ of[m] > t))

ClientActive(of, c, t) ==
    \E m \in Mailboxes :
        ClientOf[m] = c /\ (of[m] = Never \/ (Known(of[m]) /\ of[m] > t))

(* The settings page passes its own. *)
SettingsExpired(e, t) == e = Never \/ (Known(e) /\ e < t)

(* What the list of page p calls expired, its rows being of and the time t.*)
Judge(p, of, t) ==
    {m \in Mailboxes :
        /\ of[m] # Absent
        /\ CASE p = "mailboxes" -> ~MailboxActive(of[m], t)
             [] p = "clients" -> ~ClientActive(of, ClientOf[m], t)
             [] p = "settings" -> SettingsExpired(of[m], t)}

-----------------------------------------------------------------------------
ExpiryInit ==
    /\ now = 0
    /\ expiry = [m \in Mailboxes |-> Absent]
    /\ request = NoRequest
    /\ board = Blank

Tick ==
    /\ now < MaxNow
    /\ now' = now + 1
    /\ UNCHANGED <<expiry, request, board>>

(* saveTokens: the account is linked, or linked again. *)
LinkToken(m, e) ==
    /\ expiry' = [expiry EXCEPT ![m] = e]
    /\ UNCHANGED <<now, request, board>>

(* refreshTokenExpiry *)
RefreshToken(m, life) ==
    /\ expiry[m] # Absent
    /\ expiry' = [expiry EXCEPT ![m] = now + life]
    /\ UNCHANGED <<now, request, board>>

(* A page is opened, or fetches its list again; the settings page is only  *)
(* ever opened.                                                            *)
AskList(p) ==
    /\ request' = Request(p)
    /\ board' = IF board.page = p /\ p # "settings" THEN board ELSE Blank
    /\ UNCHANGED <<now, expiry>>

Doing(step) == request.left # <<>> /\ Head(request.left) = step

ReadClock ==
    /\ Doing("clock")
    /\ request' = [request EXCEPT !.left = Tail(@), !.at = now]
    /\ UNCHANGED <<now, expiry, board>>

ReadRows ==
    /\ Doing("rows")
    /\ request' = [request EXCEPT !.left = Tail(@), !.of = expiry]
    /\ UNCHANGED <<now, expiry, board>>

(* The answer arrives and is rendered. *)
Render ==
    /\ request.page # "none" /\ request.left = <<>>
    /\ board' = [page |-> request.page, of |-> request.of,
                 expired |-> Judge(request.page, request.of,
                     IF request.page = "settings" THEN now ELSE request.at)]
    /\ request' = NoRequest
    /\ UNCHANGED <<now, expiry>>

(* The request fails: the page keeps what it shows. *)
ListFails ==
    /\ request.page # "none"
    /\ request' = NoRequest
    /\ UNCHANGED <<now, expiry, board>>

ExpiryNext ==
    \/ Tick \/ ReadClock \/ ReadRows \/ Render \/ ListFails
    \/ \E m \in Mailboxes, life \in Lifetimes :
         RefreshToken(m, life) \/ LinkToken(m, now + life) \/ LinkToken(m, Never)
    \/ \E p \in Pages : AskList(p)

ExpirySpec == ExpiryInit /\ [][ExpiryNext]_expiryVars

-----------------------------------------------------------------------------
(* What a page calls expired is refused, however long ago the page was     *)
(* sent its list and however late it was judged: only a refresh or a new   *)
(* link makes the mailbox work again, and the page then shows old rows.    *)
(* (On the settings page, that is about the expiries that are known.)      *)
ExpiredIsRefused ==
    \A m \in board.expired :
        \/ expiry[m] # board.of[m]
        \/ expiry[m] = Never /\ board.page = "settings"
        \/ /\ InboundRefused(expiry[m], now)
           /\ SendRefused(expiry[m], now) \/ expiry[m] = now

=============================================================================
