--------------------------- MODULE MailboxLinking ---------------------------
(***************************************************************************)
(* Connecting mailboxes: MailboxesService.saveTokens and                   *)
(* refreshTokenExpiry as concurrent requests over the tables client and    *)
(* mailbox.  Each await is a step.  repo.save is TypeORM's: it loads the   *)
(* row again, compares every column of the entity in hand with it, and     *)
(* updates the columns that differ, so an entity read early writes back    *)
(* whatever another request changed in between.                            *)
(***************************************************************************)
EXTENDS Naturals, FiniteSets

CONSTANTS
    Requests,    \* the requests that may be made
    Emails,      \* accounts
    NoEmail,     \* a body without an email
    Providers,   \* what provider names are normalised to
    NoProvider,  \* a body without a provider, and '' in a provider column
    Clients,     \* client ids
    NoClient,    \* no clientId given, or a null clientId column
    Ids,         \* bound: mailbox ids the database hands out
    SeedIds,     \* bound: the ids of mailboxes earlier requests linked
    Seed         \* who wrote the tokens of those

ASSUME LinkingAssumption ==
    /\ Ids \subseteq Nat /\ SeedIds \subseteq Ids
    /\ NoEmail \notin Emails
    /\ NoProvider \notin Providers
    /\ "absent" \notin Providers \cup {NoProvider}
    /\ NoClient \notin Clients
    /\ Seed \notin Requests
    /\ "null" \notin Requests
    /\ "undefined" \notin Requests \cup {Seed}

VARIABLES
    emailProvider,  \* per client: no row, '' (not bound), or its provider
    mailbox,        \* per id: no row, or the row
    pc,             \* where each request is
    args,           \* what it asks for
    ent,            \* the mailbox entity it holds
    target,         \* the id of that entity
    dirty,          \* the columns save found to differ
    reply,          \* what it answered
    board,          \* per id: the row the dashboards were last sent
    overlapped      \* history: whether two requests overlapped so far

tables == <<emailProvider, mailbox>>
locals == <<args, ent, target, dirty>>
vars == <<tables, pc, locals, reply, board, overlapped>>

NoRow == [none |-> TRUE]
Writers == Requests \cup {Seed}
Columns == {"accessToken", "refreshToken", "tokenExpiresAt"}

(* A token or an expiry is known by the request it came with. *)
Row == [email : Emails, provider : Providers \cup {NoProvider},
        client : Clients \cup {NoClient},
        accessToken : Writers, refreshToken : Writers \cup {"null"},
        tokenExpiresAt : Writers]

(* An entity in hand is a row whose accessToken may have been unset.       *)
Entity == Row \cup [email : Emails, provider : Providers \cup {NoProvider},
                    client : Clients \cup {NoClient},
                    accessToken : {"undefined"},
                    refreshToken : Writers \cup {"null"},
                    tokenExpiresAt : Writers]

(* The body of POST /mailboxes/tokens is of type any: each field may be    *)
(* missing.  The callback of a provider names all but, maybe, the client   *)
(* and a new refresh token.                                                *)
LinkArgs == [kind : {"link"}, email : Emails \cup {NoEmail},
             provider : Providers \cup {NoProvider},
             client : Clients \cup {NoClient},
             hasAccess : BOOLEAN, hasRefresh : BOOLEAN]
RefreshArgs == [kind : {"refresh"}, id : Ids]
NoArgs == [kind |-> "none"]

Stored(id) == mailbox[id] # NoRow
ActiveRequests == {r \in Requests : pc[r] \notin {"new", "over"}}

TypeOK ==
    /\ emailProvider \in [Clients -> Providers \cup {NoProvider, "absent"}]
    /\ mailbox \in [Ids -> Row \cup {NoRow}]
    /\ pc \in [Requests -> {"new", "client", "bind", "find", "select", "update",
                            "insert", "reread", "emit", "over"}]
    /\ args \in [Requests -> LinkArgs \cup RefreshArgs \cup {NoArgs}]
    /\ ent \in [Requests -> Entity \cup {NoRow}]
    /\ target \in [Requests -> Ids]
    /\ dirty \in [Requests -> SUBSET Columns]
    /\ reply \in [Requests -> {"none", "done", "conflict", "notFound", "error"}]
    /\ board \in [Ids -> Row \cup {NoRow}]
    /\ overlapped \in BOOLEAN

SeedRows == [email : Emails, provider : Providers \cup {NoProvider},
             client : Clients \cup {NoClient},
             accessToken : {Seed}, refreshToken : {Seed}, tokenExpiresAt : {Seed}]

(* The tables that requests one after the other can have left: no account  *)
(* twice, and a client bound to the provider its mailboxes name, if any.   *)
Init ==
    /\ emailProvider \in [Clients -> Providers \cup {NoProvider, "absent"}]
    /\ mailbox \in [Ids -> SeedRows \cup {NoRow}]
    /\ \A i \in Ids : Stored(i) => i \in SeedIds
    /\ \A i, k \in Ids : i < k /\ Stored(k) => Stored(i) /\ mailbox[i] # mailbox[k]
    /\ \A i \in Ids : Stored(i) /\ mailbox[i].client # NoClient =>
         LET bound == emailProvider[mailbox[i].client]
         IN  bound # "absent" /\ mailbox[i].provider \in {NoProvider, bound}
    /\ pc = [r \in Requests |-> "new"]
    /\ args = [r \in Requests |-> NoArgs]
    /\ ent = [r \in Requests |-> NoRow]
    /\ target \in [Requests -> {id \in Ids : \A i \in Ids : id <= i}]
    /\ dirty = [r \in Requests |-> {}]
    /\ reply = [r \in Requests |-> "none"]
    /\ board = mailbox
    /\ overlapped = FALSE

Goto(r, where) == pc' = [pc EXCEPT ![r] = where]

Answer(r, text) ==
    /\ Goto(r, "over")
    /\ reply' = [reply EXCEPT ![r] = text]

-----------------------------------------------------------------------------
Links(r) == args[r].kind = "link"

(* ClientsService.create, with or without a provider.  The id is a new     *)
(* uuid: nobody has asked for it before.                                   *)
CreateClient(c) ==
    /\ emailProvider[c] = "absent"
    /\ \A r \in Requests : Links(r) => args[r].client # c
    /\ \E p \in Providers \cup {NoProvider} :
         emailProvider' = [emailProvider EXCEPT ![c] = p]
    /\ UNCHANGED <<overlapped, mailbox, pc, locals, reply, board>>

Begin(r) ==
    /\ pc[r] = "new"
    /\ \/ \E a \in LinkArgs :
            /\ args' = [args EXCEPT ![r] = a]
            /\ Goto(r, IF a.client = NoClient THEN "find" ELSE "client")
       \/ \E a \in RefreshArgs :
            /\ args' = [args EXCEPT ![r] = a]
            /\ Goto(r, "find")
    /\ overlapped' = (overlapped \/ ActiveRequests # {})
    /\ UNCHANGED <<tables, ent, target, dirty, reply, board>>

(* Mutant: the client's provider is not compared with the mailbox's. *)
ReadClient_NoConflict(r) ==
    /\ pc[r] = "client"
    /\ Goto(r, IF emailProvider[args[r].client] = NoProvider THEN "bind"
                                                             ELSE "find")
    /\ UNCHANGED <<overlapped, tables, locals, reply, board>>

(* An unknown client is let through, one bound to another provider than    *)
(* the one named, or when none is, is a conflict.                          *)
ReadClient(r) ==
    /\ pc[r] = "client"
    /\ LET bound == emailProvider[args[r].client] IN
       \/ bound = NoProvider /\ Goto(r, "bind") /\ UNCHANGED reply
       \/ /\ bound # NoProvider
          /\ bound \in {"absent", args[r].provider}
          /\ Goto(r, "find")
          /\ UNCHANGED reply
       \/ /\ bound \notin {"absent", NoProvider, args[r].provider}
          /\ Answer(r, "conflict")
    /\ UNCHANGED <<overlapped, tables, locals, board>>

(* clients.save: emailProvider is updated, whatever it is by now; without  *)
(* a provider it stays or becomes ''.                                      *)
BindClient(r) ==
    /\ pc[r] = "bind"
    /\ emailProvider' = [emailProvider EXCEPT ![args[r].client] = args[r].provider]
    /\ Goto(r, "find")
    /\ UNCHANGED <<overlapped, mailbox, locals, reply, board>>

(* The filter of repo.findOne, which skips what is undefined: any email,   *)
(* provider or client will do for a body that does not name one.           *)
Matches(row, a) ==
    /\ a.email \in {NoEmail, row.email}
    /\ a.provider \in {NoProvider, row.provider}
    /\ a.client \in {NoClient, row.client}

Candidates(r) == {id \in Ids : Stored(id) /\ Matches(mailbox[id], args[r])}

(* Mutant: the expiry of the stored row is kept. *)
Renewed_KeepsExpiry(r, row) ==
    [row EXCEPT !.accessToken = IF args[r].hasAccess THEN r ELSE "undefined",
                !.refreshToken = IF args[r].hasRefresh THEN r ELSE @]

(* What saveTokens does to the row it found: the access token is assigned  *)
(* even when there is none, the refresh token is not.                      *)
Renewed(r, row) ==
    [row EXCEPT !.accessToken = IF args[r].hasAccess THEN r ELSE "undefined",
                !.refreshToken = IF args[r].hasRefresh THEN r ELSE @,
                !.tokenExpiresAt = r]

(* Mutant: the clientId is left out of the filter. *)
FindMailbox_AnyClient(r) ==
    /\ pc[r] = "find"
    /\ Links(r)
    /\ LET found == {id \in Ids :
                       /\ Stored(id)
                       /\ args[r].email \in {NoEmail, mailbox[id].email}
                       /\ args[r].provider \in {NoProvider, mailbox[id].provider}}
       IN
       \/ \E id \in found :
            /\ ent' = [ent EXCEPT ![r] = Renewed(r, mailbox[id])]
            /\ target' = [target EXCEPT ![r] = id]
            /\ Goto(r, "select")
       \/ found = {} /\ Goto(r, "insert") /\ UNCHANGED <<ent, target>>
    /\ UNCHANGED <<overlapped, tables, args, dirty, reply, board>>

(* Mutant: a missing clientId is compared as SQL compares NULL. *)
FindMailbox_SqlNull(r) ==
    /\ pc[r] = "find"
    /\ Links(r)
    /\ LET found == IF args[r].client = NoClient THEN {} ELSE Candidates(r) IN
       \/ \E id \in found :
            /\ ent' = [ent EXCEPT ![r] = Renewed(r, mailbox[id])]
            /\ target' = [target EXCEPT ![r] = id]
            /\ Goto(r, "select")
       \/ found = {} /\ Goto(r, "insert") /\ UNCHANGED <<ent, target>>
    /\ UNCHANGED <<overlapped, tables, args, dirty, reply, board>>

FindMailbox(r) ==
    /\ pc[r] = "find"
    /\ Links(r)
    /\ \/ \E id \in Candidates(r) :
            /\ ent' = [ent EXCEPT ![r] = Renewed(r, mailbox[id])]
            /\ target' = [target EXCEPT ![r] = id]
            /\ Goto(r, "select")
       \/ /\ Candidates(r) = {}
          /\ Goto(r, "insert")
          /\ UNCHANGED <<ent, target>>
    /\ UNCHANGED <<overlapped, tables, args, dirty, reply, board>>

(* Mutant: the refresh token is dropped with the old expiry. *)
FindById_DropsToken(r) ==
    /\ pc[r] = "find"
    /\ args[r].kind = "refresh"
    /\ LET id == args[r].id IN
       \/ /\ Stored(id)
          /\ ent' = [ent EXCEPT ![r] = [mailbox[id] EXCEPT !.tokenExpiresAt = r,
                                                          !.refreshToken = "null"]]
          /\ target' = [target EXCEPT ![r] = id]
          /\ Goto(r, "select")
          /\ UNCHANGED reply
       \/ /\ ~Stored(id)
          /\ Answer(r, "notFound")
          /\ UNCHANGED <<ent, target>>
    /\ UNCHANGED <<overlapped, tables, args, dirty, board>>

(* refreshTokenExpiry: the row by its id, with a new expiry. *)
FindById(r) ==
    /\ pc[r] = "find"
    /\ args[r].kind = "refresh"
    /\ LET id == args[r].id IN
       \/ /\ Stored(id)
          /\ ent' = [ent EXCEPT ![r] = [mailbox[id] EXCEPT !.tokenExpiresAt = r]]
          /\ target' = [target EXCEPT ![r] = id]
          /\ Goto(r, "select")
          /\ UNCHANGED reply
       \/ /\ ~Stored(id)
          /\ Answer(r, "notFound")
          /\ UNCHANGED <<ent, target>>
    /\ UNCHANGED <<overlapped, tables, args, dirty, board>>

(* repo.save of a stored entity, first half: what differs from the row,    *)
(* but for what is undefined.                                              *)
SelectForSave(r) ==
    /\ pc[r] = "select"
    /\ dirty' = [dirty EXCEPT ![r] =
                   {col \in Columns : ent[r][col] \notin
                                        {"undefined", mailbox[target[r]][col]}}]
    /\ Goto(r, "update")
    /\ UNCHANGED <<overlapped, tables, args, ent, target, reply, board>>

(* Second half: UPDATE mailbox SET the columns found to differ. *)
UpdateRow(r) ==
    /\ pc[r] = "update"
    /\ mailbox' = [mailbox EXCEPT ![target[r]] =
                     [x \in DOMAIN @ |-> IF x \in dirty[r] THEN ent[r][x]
                                                           ELSE @[x]]]
    /\ Goto(r, "reread")
    /\ UNCHANGED <<overlapped, emailProvider, locals, reply, board>>

NewRow(r) ==
    [email |-> args[r].email, provider |-> args[r].provider,
     client |-> args[r].client, accessToken |-> r,
     refreshToken |-> IF args[r].hasRefresh THEN r ELSE "null",
     tokenExpiresAt |-> r]

(* Columns email and accessToken are NOT NULL. *)
Incomplete(a) == a.email = NoEmail \/ ~a.hasAccess

(* The constraints of the table: the client exists, and no other row has   *)
(* the same email, provider and client; a null client equals no other.     *)
Refused(row) ==
    /\ row.client # NoClient
    /\ \/ emailProvider[row.client] = "absent"
       \/ \E id \in Ids : Stored(id) /\ mailbox[id].email = row.email
                                     /\ mailbox[id].provider = row.provider
                                     /\ mailbox[id].client = row.client

(* repo.save of a new entity. *)
InsertRow(r) ==
    /\ pc[r] = "insert"
    /\ \/ /\ ~Incomplete(args[r]) /\ ~Refused(NewRow(r))
          /\ \E id \in Ids :
               /\ ~Stored(id)
               /\ \A i \in Ids : i < id => Stored(i)
               /\ mailbox' = [mailbox EXCEPT ![id] = NewRow(r)]
               /\ target' = [target EXCEPT ![r] = id]
          /\ Goto(r, "reread")
          /\ UNCHANGED reply
       \/ /\ Incomplete(args[r]) \/ Refused(NewRow(r))
          /\ Answer(r, "error")
          /\ UNCHANGED <<mailbox, target>>
    /\ UNCHANGED <<overlapped, emailProvider, args, ent, dirty, board>>

(* The row is read again with its client ... *)
Reread(r) ==
    /\ pc[r] = "reread"
    /\ ent' = [ent EXCEPT ![r] = mailbox[target[r]]]
    /\ Goto(r, "emit")
    /\ UNCHANGED <<overlapped, tables, args, target, dirty, reply, board>>

(* Mutant: a refresh is not announced. *)
EmitRow_LinksOnly(r) ==
    /\ pc[r] = "emit"
    /\ board' = IF Links(r) THEN [board EXCEPT ![target[r]] = ent[r]] ELSE board
    /\ Answer(r, "done")
    /\ UNCHANGED <<overlapped, tables, locals>>

(* ... and goes to every dashboard as mailboxAdded or mailboxUpdated. *)
EmitRow(r) ==
    /\ pc[r] = "emit"
    /\ board' = [board EXCEPT ![target[r]] = ent[r]]
    /\ Answer(r, "done")
    /\ UNCHANGED <<overlapped, tables, locals>>

(* A call of the database fails or the process dies: the rest is not done. *)
Abort(r) ==
    /\ pc[r] \notin {"new", "over"}
    /\ Answer(r, "error")
    /\ UNCHANGED <<overlapped, tables, locals, board>>

Next ==
    \/ \E c \in Clients : CreateClient(c)
    \/ \E r \in Requests :
         \/ Begin(r) \/ ReadClient(r) \/ BindClient(r)
         \/ FindMailbox(r) \/ FindById(r)
         \/ SelectForSave(r) \/ UpdateRow(r) \/ InsertRow(r)
         \/ Reread(r) \/ EmitRow(r) \/ Abort(r)

Spec == Init /\ [][Next]_vars

-----------------------------------------------------------------------------
(* Whatever entities are written back late, the tokens of a row were       *)
(* granted to a link that named no other email, provider or client.        *)
TokensMatchAccount ==
    \A id \in Ids, col \in {"accessToken", "refreshToken"} :
        Stored(id) /\ mailbox[id][col] \in Requests =>
            LET a == args[mailbox[id][col]]
            IN  a.kind = "link" /\ Matches(mailbox[id], a)

(* What a dashboard shows of a mailbox is its row as it is, once every     *)
(* request has been answered with the mailbox or turned away unchanged and *)
(* no two overlapped.                                                      *)
BoardsAgree ==
    /\ ~overlapped
    /\ \A r \in Requests : pc[r] \in {"new", "over"}
    /\ \A r \in Requests : reply[r] # "error"
    => board = mailbox

(* All mailboxes of a client that have a provider are of the one the       *)
(* client is bound to, wherever requests were cut off and whatever they    *)
(* left out.  (Two that overlap may both find the client unbound.)         *)
ClientProviderConsistent ==
    \A id \in Ids :
        /\ ~overlapped /\ Stored(id)
        /\ mailbox[id].client # NoClient
        /\ mailbox[id].provider # NoProvider
        => emailProvider[mailbox[id].client] = mailbox[id].provider

(* No two mailboxes have the same email, provider and clientId, but for    *)
(* those without a client that requests inserted at the same time: a null  *)
(* clientId is beyond the unique constraint.                               *)
NoDuplicateMailbox ==
    \A i, k \in Ids :
        /\ Stored(i) /\ Stored(k)
        /\ mailbox[i].email = mailbox[k].email
        /\ mailbox[i].provider = mailbox[k].provider
        /\ mailbox[i].client = mailbox[k].client
        => i = k \/ (overlapped /\ mailbox[i].client = NoClient)

(* Refreshing a mailbox extends its expiry and leaves its tokens alone,    *)
(* unless a link replaced them in between.                                 *)
RefreshKeepsTokens ==
    [][\A r \in Requests :
         /\ args[r].kind = "refresh" /\ pc[r] = "update" /\ pc'[r] = "reread"
         /\ ~overlapped
         => \A col \in {"accessToken", "refreshToken"} :
              mailbox'[target[r]][col] = mailbox[target[r]][col]]_vars

(* The expiry of a row is that of its access token, or was set by a        *)
(* refresh or by a link that brought no access token, as long as nobody    *)
(* wrote a row read before another write.                                  *)
ExpiryBelongsToToken ==
    \A id \in Ids :
        LET row == mailbox[id] IN
        Stored(id) /\ ~overlapped =>
            \/ row.tokenExpiresAt = row.accessToken
            \/ /\ row.tokenExpiresAt # Seed
               /\ \/ args[row.tokenExpiresAt].kind = "refresh"
                  \/ ~args[row.tokenExpiresAt].hasAccess

=============================================================================
