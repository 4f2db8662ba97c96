------------------------ MODULE MailboxLinkingProofs ------------------------
(***************************************************************************)
(* MailboxLinking for every set of requests, accounts and clients.  Each   *)
(* part of the inductive invariant Inv is preserved by every action, given *)
(* the parts its lemma names.                                              *)
(***************************************************************************)
EXTENDS MailboxLinking, TLAPS

Active(r) == pc[r] \notin {"new", "over"}
Holding(r) == pc[r] \in {"select", "update", "reread", "emit"}
Saving(r) == pc[r] \in {"select", "update"}

(* A link that brings no access token. *)
Tokenless(r) == ~args[r].hasAccess

(* Where a request is tells what it asks for; it is answered at its end,   *)
(* and alone as long as no two overlapped.                                 *)
ProgressInv ==
    \A r \in Requests :
        /\ pc[r] # "new" => args[r] \in LinkArgs \cup RefreshArgs
        /\ pc[r] \in {"client", "bind", "insert"} => Links(r)
        /\ pc[r] \in {"client", "bind"} => args[r].client # NoClient
        /\ pc[r] # "over" => reply[r] = "none"
        /\ \A q \in Requests : Active(r) /\ Active(q) => r = q \/ overlapped

(* The account of a row, which no request ever changes. *)
SameAccount(row, other) ==
    /\ row.email = other.email
    /\ row.provider = other.provider
    /\ row.client = other.client

(* The rows that requests hold are stored, and a row about to be saved is  *)
(* of the account that is stored; an access token it lacks is not written. *)
EntityInv ==
    \A r \in Requests :
        /\ Holding(r) => Stored(target[r])
        /\ Saving(r) => ent[r] \in Entity /\ SameAccount(ent[r], mailbox[target[r]])
        /\ pc[r] = "update" /\ "accessToken" \in dirty[r] =>
             ent[r].accessToken # "undefined"
        /\ pc[r] = "emit" => ent[r] \in Row

(* Tokens that a request brought are of the account it asked for. *)
OwnTokens(row) ==
    \A col \in {"accessToken", "refreshToken"} :
        row[col] \in Requests =>
            /\ pc[row[col]] # "new"
            /\ Links(row[col])
            /\ Matches(row, args[row[col]])

TokensInv ==
    /\ \A id \in Ids : Stored(id) => OwnTokens(mailbox[id])
    /\ \A r \in Requests : Saving(r) => OwnTokens(ent[r])

(* A client is bound to the provider of its mailboxes, and to the one of a *)
(* link that was let through; a link that will bind it found it unbound.   *)
ClientInv ==
    /\ ClientProviderConsistent
    /\ ~overlapped =>
         \A r \in Requests :
             LET bound == emailProvider[args[r].client] IN
             /\ pc[r] = "bind" => bound = NoProvider
             /\ pc[r] \in {"find", "insert"} /\ Links(r) /\ args[r].client # NoClient
                  => bound \in {"absent", args[r].provider}

(* A link that found no mailbox goes on to insert one while there is none. *)
AccountInv ==
    /\ NoDuplicateMailbox
    /\ ~overlapped =>
         \A r \in Requests, id \in Ids :
             pc[r] = "insert" /\ Stored(id) => ~Matches(mailbox[id], args[r])

(* What a request saves has its own expiry, and its own token if it links  *)
(* with one; if it refreshes, the tokens of the row.  All that differs and *)
(* is known is written.                                                    *)
ExpiryInv ==
    /\ \A id \in Ids : Stored(id) /\ mailbox[id].tokenExpiresAt \in Requests =>
                           pc[mailbox[id].tokenExpiresAt] # "new"
    /\ ExpiryBelongsToToken
    /\ \A r \in Requests : Saving(r) =>
         /\ ent[r].tokenExpiresAt = r
         /\ Links(r) =>
              /\ ent[r].accessToken \in {r, "undefined"}
              /\ ent[r].accessToken # r => Tokenless(r)
         /\ ~Links(r) /\ ~overlapped =>
              \A col \in {"accessToken", "refreshToken"} :
                  ent[r][col] = mailbox[target[r]][col]
         /\ pc[r] = "update" /\ ~overlapped =>
              \A col \in Columns \ dirty[r] :
                  ent[r][col] \in {"undefined", mailbox[target[r]][col]}

(* A row that is not as the dashboards have it is about to be sent, or the *)
(* request that changed it was cut off.                                    *)
BoardInv ==
    ~overlapped /\ (\A r \in Requests : reply[r] # "error") =>
        /\ \A id \in Ids :
             \/ board[id] = mailbox[id]
             \/ \E r \in Requests : pc[r] \in {"reread", "emit"} /\ target[r] = id
        /\ \A r \in Requests : pc[r] = "emit" => ent[r] = mailbox[target[r]]

Inv == TypeOK /\ ProgressInv /\ EntityInv /\ TokensInv /\ ClientInv /\ AccountInv
         /\ ExpiryInv /\ BoardInv

-----------------------------------------------------------------------------
(* What the actions do to rows, without the columns' names.                *)
Rest == <<emailProvider, dirty, board, overlapped>>

(* A request begins, with the arguments a. *)
Begins(r, a) ==
    /\ pc[r] = "new"
    /\ args' = [args EXCEPT ![r] = a]
    /\ \/ a.kind # "link" /\ pc' = [pc EXCEPT ![r] = "find"]
       \/ a.kind = "link" /\ a.client = NoClient /\ pc' = [pc EXCEPT ![r] = "find"]
       \/ a.kind = "link" /\ a.client # NoClient /\ pc' = [pc EXCEPT ![r] = "client"]
    /\ overlapped' = (overlapped \/ \E q \in Requests : Active(q))
    /\ UNCHANGED <<emailProvider, mailbox, ent, target, dirty, reply, board>>

(* It finds the mailbox id, and changes it in memory to row. *)
Loads(r, id, row) ==
    /\ pc[r] = "find" /\ pc' = [pc EXCEPT ![r] = "select"]
    /\ Stored(id)
    /\ ent' = [ent EXCEPT ![r] = row]
    /\ target' = [target EXCEPT ![r] = id]
    /\ SameAccount(row, mailbox[id])
    /\ row.tokenExpiresAt = r
    /\ Links(r) =>
         /\ Matches(mailbox[id], args[r])
         /\ row.accessToken \in {r, "undefined"}
         /\ row.accessToken # r => Tokenless(r)
         /\ row.refreshToken \in {r, mailbox[id].refreshToken}
    /\ ~Links(r) =>
         /\ row.accessToken = mailbox[id].accessToken
         /\ row.refreshToken = mailbox[id].refreshToken
    /\ UNCHANGED <<mailbox, args, reply, Rest>>

(* A link that finds none. *)
LoadsNone(r) ==
    /\ pc[r] = "find" /\ Links(r) /\ pc' = [pc EXCEPT ![r] = "insert"]
    /\ \A id \in Ids : Stored(id) => ~Matches(mailbox[id], args[r])
    /\ UNCHANGED <<mailbox, args, ent, target, reply, Rest>>

(* It is answered without having changed anything in this step. *)
Ends(r, text) ==
    /\ Active(r) /\ pc' = [pc EXCEPT ![r] = "over"]
    /\ text = "error" \/ pc[r] = "find"
    /\ reply' = [reply EXCEPT ![r] = text]
    /\ UNCHANGED <<mailbox, args, ent, target, Rest>>

(* It updates its row to row. *)
Saves(r, row) ==
    /\ pc[r] = "update" /\ pc' = [pc EXCEPT ![r] = "reread"]
    /\ mailbox' = [mailbox EXCEPT ![target[r]] = row]
    /\ SameAccount(row, mailbox[target[r]])
    /\ row.accessToken = IF "accessToken" \in dirty[r]
                         THEN ent[r].accessToken ELSE mailbox[target[r]].accessToken
    /\ row.refreshToken = IF "refreshToken" \in dirty[r]
                          THEN ent[r].refreshToken ELSE mailbox[target[r]].refreshToken
    /\ row.tokenExpiresAt = IF "tokenExpiresAt" \in dirty[r]
                            THEN ent[r].tokenExpiresAt
                            ELSE mailbox[target[r]].tokenExpiresAt
    /\ UNCHANGED <<args, ent, target, reply, Rest>>

(* It inserts row, which the constraints admit. *)
Inserts(r, id, row) ==
    /\ pc[r] = "insert" /\ pc' = [pc EXCEPT ![r] = "reread"]
    /\ ~Stored(id) /\ ~Refused(row)
    /\ mailbox' = [mailbox EXCEPT ![id] = row]
    /\ target' = [target EXCEPT ![r] = id]
    /\ Matches(row, args[r])
    /\ row.client = args[r].client /\ row.provider = args[r].provider
    /\ row.accessToken = r /\ row.refreshToken \in {r, "null"} /\ row.tokenExpiresAt = r
    /\ UNCHANGED <<args, ent, reply, Rest>>

(* The steps of the system in these terms. *)
Step ==
    \/ \E c \in Clients : CreateClient(c)
    \/ \E r \in Requests :
         \/ \E a \in LinkArgs \cup RefreshArgs : Begins(r, a)
         \/ ReadClient(r) \/ BindClient(r)
         \/ \E id \in Ids, row \in Entity : Loads(r, id, row)
         \/ LoadsNone(r)
         \/ SelectForSave(r)
         \/ \E row \in Row : Saves(r, row)
         \/ \E id \in Ids, row \in Row : Inserts(r, id, row)
         \/ Reread(r) \/ EmitRow(r)
         \/ \E text \in {"notFound", "error"} : Ends(r, text)

(* The value that stands for no row is not one. *)
LEMMA NoRowIsNoRow == NoRow \notin Row
BY DEF NoRow, Row

(* What is read from the table can be held in hand.                        *)
LEMMA RowsAreEntities == Row \subseteq Entity
BY DEF Row, Entity

LEMMA StoredIsRow ==
    ASSUME TypeOK, NEW id \in Ids, Stored(id) PROVE mailbox[id] \in Row
BY DEF TypeOK, Stored

(* What a link has loaded has its own token, the row's, or none.           *)
LEMMA LinkLoads ==
    ASSUME NEW r \in Requests, NEW id, NEW row, Loads(r, id, row), Links(r)
    PROVE  /\ Matches(mailbox[id], args[r]) /\ SameAccount(row, mailbox[id])
           /\ row.accessToken \in {r, "undefined"}
           /\ row.refreshToken \in {r, mailbox[id].refreshToken}
BY DEF Loads

(* The arguments of a link ... *)
LEMMA LinkIsLink == \A a \in LinkArgs : a.kind = "link"
BY DEF LinkArgs

(* ... and of a refresh, told apart by their kind. *)
LEMMA RefreshIsNoLink == \A a \in RefreshArgs : a.kind # "link" /\ a.id \in Ids
BY DEF RefreshArgs

(* Begin, as the proofs use it: the request has arguments and its first place. *)
LEMMA BeginBegins ==
    ASSUME NEW r \in Requests, Begin(r)
    PROVE  \E a \in LinkArgs \cup RefreshArgs : Begins(r, a)
<1>1. ASSUME NEW a \in LinkArgs, args' = [args EXCEPT ![r] = a],
             Goto(r, IF a.client = NoClient THEN "find" ELSE "client")
      PROVE  Begins(r, a)
  BY <1>1, LinkIsLink DEF Begin, Begins, Goto, tables, ActiveRequests, Active
<1>2. ASSUME NEW a \in RefreshArgs, args' = [args EXCEPT ![r] = a], Goto(r, "find")
      PROVE  Begins(r, a)
  BY <1>2, RefreshIsNoLink DEF Begin, Begins, Goto, tables, ActiveRequests,
     Active
<1> QED BY <1>1, <1>2 DEF Begin

(* The lookup of a link finds a row of its account, or there is none. *)
LEMMA FindMailboxLoads ==
    ASSUME TypeOK, ProgressInv, NEW r \in Requests, FindMailbox(r)
    PROVE  LoadsNone(r) \/ \E id \in Ids, row \in Entity : Loads(r, id, row)
<1> DEFINE Token(row) ==
      /\ row.accessToken \in {r, "undefined"}
      /\ row.accessToken # r => Tokenless(r)
<1>1. ASSUME NEW row \in Row, NEW new, new = Renewed(r, row)
      PROVE  /\ new \in Entity /\ SameAccount(new, row)
             /\ Token(new) /\ new.tokenExpiresAt = r
             /\ new.refreshToken \in {r, row.refreshToken}
  <2>1. ASSUME NEW a, NEW b, a \in Writers \cup {"undefined"},
               b \in Writers \cup {"null"},
               new = [row EXCEPT !.accessToken = a, !.refreshToken = b,
                                 !.tokenExpiresAt = r]
        PROVE  /\ new \in Entity /\ SameAccount(new, row)
               /\ new.accessToken = a /\ new.refreshToken = b
               /\ new.tokenExpiresAt = r
    BY <2>1 DEF Row, Entity, Writers, SameAccount
  <2>2. row.refreshToken \in Writers \cup {"null"} /\ r \in Writers
    BY DEF Row, Writers
  <2> DEFINE refresh == IF args[r].hasRefresh THEN r ELSE row.refreshToken
  <2>3. refresh \in {r, row.refreshToken}
    OBVIOUS
  <2> HIDE DEF refresh
  <2>4. CASE args[r].hasAccess
    <3>1. new = [row EXCEPT !.accessToken = r, !.refreshToken = refresh,
                            !.tokenExpiresAt = r]
      BY <1>1, <2>4 DEF Renewed, refresh
    <3>2. /\ new \in Entity /\ SameAccount(new, row)
          /\ new.accessToken = r /\ new.refreshToken = refresh
          /\ new.tokenExpiresAt = r
      BY <2>1, <2>2, <2>3, <3>1
    <3> QED BY <2>3, <3>2
  <2>5. CASE ~args[r].hasAccess
    <3>1. new = [row EXCEPT !.accessToken = "undefined",
                            !.refreshToken = refresh, !.tokenExpiresAt = r]
      BY <1>1, <2>5 DEF Renewed, refresh
    <3>2. Tokenless(r)
      BY <2>5 DEF Tokenless
    <3> QED BY <2>1, <2>2, <2>3, <3>1, <3>2
  <2> QED BY <2>4, <2>5
<1>2. ASSUME NEW id \in Candidates(r), ent' = [ent EXCEPT ![r] = Renewed(r, mailbox[id])],
             target' = [target EXCEPT ![r] = id], Goto(r, "select")
      PROVE  id \in Ids /\ \E row \in Entity : Loads(r, id, row)
  <2>1. id \in Ids /\ Stored(id) /\ Matches(mailbox[id], args[r])
    BY DEF Candidates
  <2>2. mailbox[id] \in Row
    BY <2>1 DEF TypeOK, Stored
  <2> DEFINE new == Renewed(r, mailbox[id])
  <2>3. /\ new \in Entity /\ SameAccount(new, mailbox[id])
        /\ Token(new) /\ new.tokenExpiresAt = r
        /\ new.refreshToken \in {r, mailbox[id].refreshToken}
    BY <1>1, <2>2
  <2>4. ent' = [ent EXCEPT ![r] = new]
    BY <1>2
  <2> HIDE DEF new
  <2>7. Links(r) /\ pc[r] = "find"
    BY <1>2 DEF FindMailbox
  <2>8. UNCHANGED <<mailbox, args, reply, Rest>>
    BY <1>2 DEF FindMailbox, Rest, tables
  <2>9. pc' = [pc EXCEPT ![r] = "select"]
    BY <1>2 DEF Goto
  <2>10. target' = [target EXCEPT ![r] = id]
    BY <1>2
  <2>5. Loads(r, id, new)
    BY <2>1, <2>3, <2>4, <2>7, <2>8, <2>9, <2>10 DEF Loads
  <2> QED BY <2>1, <2>3, <2>5
<1>3. ASSUME Candidates(r) = {}, Goto(r, "insert"), UNCHANGED <<ent, target>>
      PROVE  LoadsNone(r)
  BY <1>3 DEF FindMailbox, LoadsNone, Candidates, Goto, Rest, tables
<1> QED BY <1>2, <1>3 DEF FindMailbox

(* The lookup of a refresh finds the row, whose tokens it keeps, or ends. *)
LEMMA FindByIdLoads ==
    ASSUME TypeOK, ProgressInv, NEW r \in Requests, FindById(r)
    PROVE  Ends(r, "notFound") \/ \E id \in Ids, row \in Entity : Loads(r, id, row)
<1>1. args[r].id \in Ids /\ ~Links(r) /\ pc[r] = "find"
  BY LinkIsLink, RefreshIsNoLink DEF FindById, ProgressInv, Links
<1>2. ASSUME NEW row \in Row, NEW new, new = [row EXCEPT !.tokenExpiresAt = r]
      PROVE  /\ new \in Entity /\ SameAccount(new, row) /\ new.tokenExpiresAt = r
             /\ new.accessToken = row.accessToken /\ new.refreshToken = row.refreshToken
  BY <1>2 DEF Row, Entity, Writers, SameAccount
<1>3. CASE Stored(args[r].id)
  <2> DEFINE id == args[r].id
             new == [mailbox[id] EXCEPT !.tokenExpiresAt = r]
  <2>1. mailbox[id] \in Row
    BY <1>1, <1>3 DEF TypeOK, Stored
  <2>2. /\ new \in Entity /\ SameAccount(new, mailbox[id]) /\ new.tokenExpiresAt = r
        /\ new.accessToken = mailbox[id].accessToken
        /\ new.refreshToken = mailbox[id].refreshToken
    BY <1>2, <2>1
  <2>3. ent' = [ent EXCEPT ![r] = new]
    BY <1>3 DEF FindById
  <2> HIDE DEF new
  <2>4. Loads(r, id, new)
    BY <1>1, <1>3, <2>2, <2>3 DEF FindById, Loads, Goto, Rest, tables
  <2> QED BY <1>1, <2>2, <2>4
<1>4. CASE ~Stored(args[r].id)
  BY <1>1, <1>4 DEF FindById, Ends, Answer, Active, Goto, Rest, tables
<1> QED BY <1>3, <1>4

(* The update writes what was found to differ and keeps the account. *)
LEMMA UpdateSaves ==
    ASSUME TypeOK, EntityInv, NEW r \in Requests, UpdateRow(r)
    PROVE  \E row \in Row : Saves(r, row)
<1>1. ASSUME NEW old \in Row, NEW e \in Entity, NEW d \in SUBSET Columns, NEW new,
             "accessToken" \in d => e.accessToken # "undefined",
             new = [x \in DOMAIN old |-> IF x \in d THEN e[x] ELSE old[x]]
      PROVE  /\ new \in Row /\ SameAccount(new, old)
             /\ new.accessToken = IF "accessToken" \in d THEN e.accessToken
                                                          ELSE old.accessToken
             /\ new.refreshToken = IF "refreshToken" \in d THEN e.refreshToken
                                                            ELSE old.refreshToken
             /\ new.tokenExpiresAt = IF "tokenExpiresAt" \in d
                                     THEN e.tokenExpiresAt ELSE old.tokenExpiresAt
  BY <1>1 DEF Row, Entity, Columns, SameAccount
<1> DEFINE old == mailbox[target[r]]
<1>2. /\ target[r] \in Ids /\ old \in Row
      /\ ent[r] \in Entity /\ dirty[r] \in SUBSET Columns
      /\ "accessToken" \in dirty[r] => ent[r].accessToken # "undefined"
  BY DEF UpdateRow, TypeOK, EntityInv, Holding, Saving, Stored
<1>4. PICK new : /\ mailbox' = [mailbox EXCEPT ![target[r]] = new]
                /\ new = [x \in DOMAIN old |-> IF x \in dirty[r] THEN ent[r][x]
                                                                 ELSE old[x]]
  BY <1>2 DEF UpdateRow, TypeOK
<1> HIDE DEF old
<1>3. /\ new \in Row /\ SameAccount(new, old)
      /\ new.accessToken = IF "accessToken" \in dirty[r] THEN ent[r].accessToken
                                                          ELSE old.accessToken
      /\ new.refreshToken = IF "refreshToken" \in dirty[r] THEN ent[r].refreshToken
                                                            ELSE old.refreshToken
      /\ new.tokenExpiresAt = IF "tokenExpiresAt" \in dirty[r]
                              THEN ent[r].tokenExpiresAt ELSE old.tokenExpiresAt
  BY <1>1, <1>2, <1>4
<1>5. Saves(r, new)
  BY <1>3, <1>4 DEF UpdateRow, Saves, Goto, Rest, locals, old
<1> QED BY <1>3, <1>5

(* The insert adds a row of the link's account with its tokens, or fails. *)
LEMMA InsertInserts ==
    ASSUME TypeOK, ProgressInv, NEW r \in Requests, InsertRow(r)
    PROVE  Ends(r, "error") \/ \E id \in Ids, row \in Row : Inserts(r, id, row)
<1>1. args[r] \in LinkArgs
  BY LinkIsLink, RefreshIsNoLink DEF InsertRow, ProgressInv, Links
<1>3. CASE Incomplete(args[r]) \/ Refused(NewRow(r))
  BY <1>3 DEF InsertRow, Ends, Answer, Active, Goto, Rest
<1>4. CASE ~Incomplete(args[r]) /\ ~Refused(NewRow(r))
  <2>0. /\ NewRow(r) \in Row /\ args[r].hasAccess
        /\ Matches(NewRow(r), args[r]) /\ NewRow(r).client = args[r].client
        /\ NewRow(r).provider = args[r].provider
        /\ NewRow(r).accessToken = r /\ NewRow(r).tokenExpiresAt = r
        /\ NewRow(r).refreshToken \in {r, "null"}
    BY <1>1, <1>4 DEF NewRow, Row, Writers, LinkArgs, Matches, Incomplete
  <2> DEFINE row == NewRow(r)
  <2>1. PICK id \in Ids : /\ ~Stored(id)
                          /\ mailbox' = [mailbox EXCEPT ![id] = row]
                          /\ target' = [target EXCEPT ![r] = id]
    BY <1>4 DEF InsertRow
  <2>2. row \in Row /\ ~Refused(row) /\ Matches(row, args[r])
        /\ row.client = args[r].client /\ row.provider = args[r].provider
        /\ row.accessToken = r /\ row.tokenExpiresAt = r /\ row.refreshToken \in {r, "null"}
    BY <2>0, <1>4
  <2>3. /\ pc[r] = "insert" /\ pc' = [pc EXCEPT ![r] = "reread"]
        /\ UNCHANGED <<args, ent, reply, Rest>>
    BY <1>4 DEF InsertRow, Goto, Rest
  <2> HIDE DEF row
  <2>4. Inserts(r, id, row)
    BY <2>0, <2>1, <2>2, <2>3 DEF Inserts
  <2> QED BY <2>2, <2>4
<1> QED BY <1>3, <1>4

(* Every action is one of those steps. *)
LEMMA NextIsStep ==
    ASSUME TypeOK, ProgressInv, EntityInv, Next
    PROVE  Step
<1>1. ASSUME NEW r \in Requests, Abort(r)
      PROVE  Ends(r, "error")
  BY <1>1 DEF Abort, Answer, Goto, Ends, Active, Rest, tables, locals
<1>2. CASE \E c \in Clients : CreateClient(c)
  BY <1>2 DEF Step
<1>3. ASSUME NEW r \in Requests,
             Begin(r) \/ FindMailbox(r) \/ FindById(r) \/ UpdateRow(r) \/ InsertRow(r)
      PROVE  Step
  BY <1>3, BeginBegins, FindMailboxLoads, FindByIdLoads, UpdateSaves,
     InsertInserts DEF Step
<1>4. ASSUME NEW r \in Requests,
             \/ ReadClient(r) \/ BindClient(r) \/ SelectForSave(r)
             \/ Reread(r) \/ EmitRow(r)
      PROVE  Step
  BY <1>4 DEF Step
<1> QED BY <1>1, <1>2, <1>3, <1>4 DEF Next, Step

(* The tables that serial requests left satisfy every part of Inv. *)
LEMMA InitInv == Init => Inv
<1> SUFFICES ASSUME Init PROVE Inv
  OBVIOUS
<1> USE LinkingAssumption, NoRowIsNoRow DEF Init
<1>1. TypeOK
  <2>1. SeedRows \subseteq Row
    BY DEF SeedRows, Row, Writers
  <2>2. mailbox \in [Ids -> Row \cup {NoRow}]
    BY <2>1
  <2>3. target \in [Requests -> Ids]
    OBVIOUS
  <2> QED BY <2>2, <2>3 DEF TypeOK
<1>2. ProgressInv /\ EntityInv
  BY DEF ProgressInv, EntityInv, Holding, Saving, Active
<1>0. \A id \in Ids : Stored(id) =>
         /\ mailbox[id] \in SeedRows
         /\ mailbox[id].accessToken = Seed /\ mailbox[id].refreshToken = Seed
         /\ mailbox[id].tokenExpiresAt = Seed
  BY DEF Stored, SeedRows
<1>3. TokensInv
  BY <1>0 DEF TokensInv, OwnTokens, Saving
<1>4. ClientInv
  BY DEF ClientInv, ClientProviderConsistent, Stored
<1>5. AccountInv
  <2>1. ASSUME NEW i \in Ids, NEW k \in Ids, Stored(i), Stored(k),
               SameAccount(mailbox[i], mailbox[k])
        PROVE  mailbox[i] = mailbox[k]
    BY <1>0, <2>1 DEF SameAccount, SeedRows
  <2>2. \A i, k \in Ids : i = k \/ i < k \/ k < i
    OBVIOUS
  <2> QED BY <2>1, <2>2 DEF AccountInv, NoDuplicateMailbox, SameAccount
<1>6. ExpiryInv /\ BoardInv
  BY <1>0 DEF ExpiryInv, ExpiryBelongsToToken, BoardInv, Saving
<1> QED BY <1>1, <1>2, <1>3, <1>4, <1>5, <1>6 DEF Inv

(* A step keeps every variable in its type; what a client is bound to is  *)
(* the provider a link named.                                              *)
LEMMA TypeOKStep ==
    ASSUME TypeOK, ProgressInv, EntityInv, Step
    PROVE  TypeOK'
<1> USE LinkingAssumption DEF TypeOK, Goto
<1>1. ASSUME NEW c \in Clients, CreateClient(c)
      PROVE  TypeOK'
  BY <1>1 DEF CreateClient, tables, locals
<1>2. ASSUME NEW r \in Requests, NEW a \in LinkArgs \cup RefreshArgs, Begins(r, a)
      PROVE  TypeOK'
  BY <1>2 DEF Begins
<1>3. ASSUME NEW r \in Requests, ReadClient(r)
      PROVE  TypeOK'
  BY <1>3 DEF ReadClient, Answer, tables, locals
<1>4. ASSUME NEW r \in Requests, BindClient(r)
      PROVE  TypeOK'
  <2>1. args[r] \in LinkArgs
    BY <1>4, LinkIsLink, RefreshIsNoLink DEF BindClient, ProgressInv, Links
  <2>2. args[r].provider \in Providers \cup {NoProvider}
    BY <2>1 DEF LinkArgs
  <2> QED BY <1>4, <2>2 DEF BindClient, locals
<1>5. ASSUME NEW r \in Requests, NEW id \in Ids, NEW row \in Entity, Loads(r, id, row)
      PROVE  TypeOK'
  BY <1>5 DEF Loads, Rest
<1>6. ASSUME NEW r \in Requests, LoadsNone(r)
      PROVE  TypeOK'
  BY <1>6 DEF LoadsNone, Rest
<1>7. ASSUME NEW r \in Requests, SelectForSave(r)
      PROVE  TypeOK'
  BY <1>7 DEF SelectForSave, tables
<1>8. ASSUME NEW r \in Requests, NEW row \in Row, Saves(r, row)
      PROVE  TypeOK'
  BY <1>8 DEF Saves, Rest
<1>9. ASSUME NEW r \in Requests, NEW id \in Ids, NEW row \in Row,
             Inserts(r, id, row)
      PROVE  TypeOK'
  BY <1>9 DEF Inserts, Rest
<1>10. ASSUME NEW r \in Requests, Reread(r)
      PROVE  TypeOK'
  BY <1>10, RowsAreEntities DEF Reread, tables
<1>11. ASSUME NEW r \in Requests, EmitRow(r)
      PROVE  TypeOK'
  BY <1>11 DEF EmitRow, Answer, tables, locals, EntityInv
<1>12. ASSUME NEW r \in Requests, NEW text \in {"notFound", "error"}, Ends(r, text)
      PROVE  TypeOK'
  BY <1>12 DEF Ends, Rest
<1> HIDE DEF TypeOK
<1> QED BY <1>1, <1>2, <1>3, <1>4, <1>5, <1>6, <1>7, <1>8, <1>9,
           <1>10, <1>11, <1>12 DEF Step

(* A step keeps a request's arguments and its place in agreement; one that *)
(* begins while another is active has overlapped.                          *)
LEMMA ProgressInvStep ==
    ASSUME TypeOK, ProgressInv, EntityInv, Step
    PROVE  ProgressInv'
<1> USE LinkingAssumption, LinkIsLink, RefreshIsNoLink DEF TypeOK,
        ProgressInv, Links, Goto, Active
<1>1. ASSUME NEW c \in Clients, CreateClient(c)
      PROVE  ProgressInv'
  BY <1>1 DEF CreateClient, tables, locals
<1>2. ASSUME NEW r \in Requests, NEW a \in LinkArgs \cup RefreshArgs, Begins(r, a)
      PROVE  ProgressInv'
  <2>1. a.kind = "link" => a \in LinkArgs
    BY RefreshIsNoLink
  <2>2. \A q \in Requests : q # r => pc'[q] = pc[q] /\ args'[q] = args[q]
    BY <1>2 DEF Begins
  <2>3. /\ pc'[r] \in {"find", "client"} /\ args'[r] = a /\ reply'[r] = "none"
        /\ pc'[r] = "client" => a.kind = "link" /\ a.client # NoClient
    BY <1>2 DEF Begins
  <2>4. \A q \in Requests : Active(q) => overlapped'
    BY <1>2 DEF Begins
  <2>5. ~overlapped' => ~overlapped
    BY <1>2 DEF Begins
  <2> QED BY <1>2, <2>2, <2>3, <2>4, <2>5 DEF Begins
<1>3. ASSUME NEW r \in Requests, ReadClient(r)
      PROVE  ProgressInv'
  BY <1>3 DEF ReadClient, Answer, tables, locals
<1>4. ASSUME NEW r \in Requests, BindClient(r)
      PROVE  ProgressInv'
  BY <1>4 DEF BindClient, locals
<1>5. ASSUME NEW r \in Requests, NEW id \in Ids, NEW row \in Entity, Loads(r, id, row)
      PROVE  ProgressInv'
  BY <1>5 DEF Loads, Rest
<1>6. ASSUME NEW r \in Requests, LoadsNone(r)
      PROVE  ProgressInv'
  BY <1>6 DEF LoadsNone, Rest
<1>7. ASSUME NEW r \in Requests, SelectForSave(r)
      PROVE  ProgressInv'
  BY <1>7 DEF SelectForSave, tables
<1>8. ASSUME NEW r \in Requests, NEW row \in Row, Saves(r, row)
      PROVE  ProgressInv'
  BY <1>8 DEF Saves, Rest
<1>9. ASSUME NEW r \in Requests, NEW id \in Ids, NEW row \in Row,
             Inserts(r, id, row)
      PROVE  ProgressInv'
  BY <1>9 DEF Inserts, Rest
<1>10. ASSUME NEW r \in Requests, Reread(r)
      PROVE  ProgressInv'
  BY <1>10 DEF Reread, tables
<1>11. ASSUME NEW r \in Requests, EmitRow(r)
      PROVE  ProgressInv'
  BY <1>11 DEF EmitRow, Answer, tables, locals
<1>12. ASSUME NEW r \in Requests, NEW text \in {"notFound", "error"}, Ends(r, text)
      PROVE  ProgressInv'
  BY <1>12 DEF Ends, Rest
<1> HIDE DEF ProgressInv
<1> QED BY <1>1, <1>2, <1>3, <1>4, <1>5, <1>6, <1>7, <1>8, <1>9,
           <1>10, <1>11, <1>12 DEF Step

(* A step keeps the rows in hand stored, since no row is ever deleted or   *)
(* changes its account.                                                    *)
LEMMA EntityInvStep ==
    ASSUME TypeOK, ProgressInv, EntityInv, Step
    PROVE  EntityInv'
<1> USE LinkingAssumption, NoRowIsNoRow DEF TypeOK, EntityInv, SameAccount,
        Holding, Saving, Stored, Goto
<1>1. ASSUME NEW c \in Clients, CreateClient(c)
      PROVE  EntityInv'
  BY <1>1 DEF CreateClient, tables, locals
<1>2. ASSUME NEW r \in Requests, NEW a \in LinkArgs \cup RefreshArgs, Begins(r, a)
      PROVE  EntityInv'
  BY <1>2 DEF Begins
<1>3. ASSUME NEW r \in Requests, ReadClient(r)
      PROVE  EntityInv'
  BY <1>3 DEF ReadClient, Answer, tables, locals
<1>4. ASSUME NEW r \in Requests, BindClient(r)
      PROVE  EntityInv'
  BY <1>4 DEF BindClient, locals
<1>5. ASSUME NEW r \in Requests, NEW id \in Ids, NEW row \in Entity, Loads(r, id, row)
      PROVE  EntityInv'
  BY <1>5 DEF Loads, Rest
<1>6. ASSUME NEW r \in Requests, LoadsNone(r)
      PROVE  EntityInv'
  BY <1>6 DEF LoadsNone, Rest
<1>7. ASSUME NEW r \in Requests, SelectForSave(r)
      PROVE  EntityInv'
  BY <1>7 DEF SelectForSave, tables
<1>8. ASSUME NEW r \in Requests, NEW row \in Row, Saves(r, row)
      PROVE  EntityInv'
  BY <1>8 DEF Saves, Rest
<1>9. ASSUME NEW r \in Requests, NEW id \in Ids, NEW row \in Row,
             Inserts(r, id, row)
      PROVE  EntityInv'
  BY <1>9 DEF Inserts, Rest
<1>10. ASSUME NEW r \in Requests, Reread(r)
      PROVE  EntityInv'
  <2>1. /\ ent' = [ent EXCEPT ![r] = mailbox[target[r]]]
        /\ pc' = [pc EXCEPT ![r] = "emit"] /\ pc[r] = "reread"
        /\ UNCHANGED <<mailbox, target, dirty>>
    BY <1>10 DEF Reread, tables
  <2>2. target[r] \in Ids /\ mailbox[target[r]] # NoRow
    BY <1>10 DEF Reread
  <2>3. mailbox[target[r]] \in Row
    BY <2>2, StoredIsRow
  <2> QED BY <2>1, <2>3
<1>11. ASSUME NEW r \in Requests, EmitRow(r)
      PROVE  EntityInv'
  BY <1>11 DEF EmitRow, Answer, tables, locals
<1>12. ASSUME NEW r \in Requests, NEW text \in {"notFound", "error"}, Ends(r, text)
      PROVE  EntityInv'
  BY <1>12 DEF Ends, Rest, Active
<1> HIDE DEF EntityInv
<1> QED BY <1>1, <1>2, <1>3, <1>4, <1>5, <1>6, <1>7, <1>8, <1>9,
           <1>10, <1>11, <1>12 DEF Step

(* A step writes tokens only to rows of their account.                     *)
LEMMA TokensInvStep ==
    ASSUME TypeOK, ProgressInv, EntityInv, TokensInv, Step
    PROVE  TokensInv'
<1> USE LinkingAssumption, NoRowIsNoRow DEF TypeOK, EntityInv, TokensInv,
        OwnTokens, SameAccount, Matches, Holding, Saving, Stored, Goto, Links
<1>1. ASSUME NEW c \in Clients, CreateClient(c)
      PROVE  TokensInv'
  BY <1>1 DEF CreateClient, tables, locals
<1>2. ASSUME NEW r \in Requests, NEW a \in LinkArgs \cup RefreshArgs, Begins(r, a)
      PROVE  TokensInv'
  BY <1>2 DEF Begins
<1>3. ASSUME NEW r \in Requests, ReadClient(r)
      PROVE  TokensInv'
  BY <1>3 DEF ReadClient, Answer, tables, locals
<1>4. ASSUME NEW r \in Requests, BindClient(r)
      PROVE  TokensInv'
  BY <1>4 DEF BindClient, locals
<1>5. ASSUME NEW r \in Requests, NEW id \in Ids, NEW row \in Entity, Loads(r, id, row)
      PROVE  TokensInv'
  <2>1. /\ ent' = [ent EXCEPT ![r] = row] /\ pc' = [pc EXCEPT ![r] = "select"]
        /\ pc[r] = "find" /\ UNCHANGED <<mailbox, args>>
    BY <1>5 DEF Loads, Rest
  <2>2. CASE Links(r)
    <3>1. /\ Matches(mailbox[id], args[r]) /\ SameAccount(row, mailbox[id])
          /\ row.accessToken \in {r, "undefined"}
          /\ row.refreshToken \in {r, mailbox[id].refreshToken}
      BY <1>5, <2>2, LinkLoads
    <3>2. OwnTokens(mailbox[id])
      BY <1>5 DEF Loads
    <3> QED BY <2>1, <2>2, <3>1, <3>2
  <2>3. CASE ~Links(r)
    BY <1>5, <2>1, <2>3 DEF Loads
  <2> QED BY <2>2, <2>3
<1>6. ASSUME NEW r \in Requests, LoadsNone(r)
      PROVE  TokensInv'
  BY <1>6 DEF LoadsNone, Rest
<1>7. ASSUME NEW r \in Requests, SelectForSave(r)
      PROVE  TokensInv'
  BY <1>7 DEF SelectForSave, tables
<1>8. ASSUME NEW r \in Requests, NEW row \in Row, Saves(r, row)
      PROVE  TokensInv'
  BY <1>8 DEF Saves, Rest
<1>9. ASSUME NEW r \in Requests, NEW id \in Ids, NEW row \in Row,
             Inserts(r, id, row)
      PROVE  TokensInv'
  BY <1>9 DEF Inserts, Rest, ProgressInv
<1>10. ASSUME NEW r \in Requests, Reread(r)
      PROVE  TokensInv'
  BY <1>10 DEF Reread, tables
<1>11. ASSUME NEW r \in Requests, EmitRow(r)
      PROVE  TokensInv'
  BY <1>11 DEF EmitRow, Answer, tables, locals
<1>12. ASSUME NEW r \in Requests, NEW text \in {"notFound", "error"}, Ends(r, text)
      PROVE  TokensInv'
  BY <1>12 DEF Ends, Rest, Active
<1> HIDE DEF TokensInv
<1> QED BY <1>1, <1>2, <1>3, <1>4, <1>5, <1>6, <1>7, <1>8, <1>9,
           <1>10, <1>11, <1>12 DEF Step

(* A step leaves the mailboxes of a client with the provider it is bound   *)
(* to, while no two requests overlap.                                      *)
LEMMA ClientInvStep ==
    ASSUME TypeOK, ProgressInv, EntityInv, ClientInv, Step
    PROVE  ClientInv'
<1> USE LinkingAssumption, NoRowIsNoRow DEF TypeOK, ProgressInv, EntityInv,
        ClientInv, ClientProviderConsistent, SameAccount, Matches, Holding,
        Saving, Stored, Goto, Links, Active
<1>1. ASSUME NEW c \in Clients, CreateClient(c)
      PROVE  ClientInv'
  <2>1. \A id \in Ids : Stored(id) =>
           mailbox[id].provider \in Providers \cup {NoProvider}
    BY DEF Row
  <2>2. \A id \in Ids : Stored(id) /\ ~overlapped /\ mailbox[id].client = c =>
           mailbox[id].provider = NoProvider
    <3> SUFFICES ASSUME NEW id \in Ids, Stored(id), ~overlapped,
                        mailbox[id].client = c, mailbox[id].provider # NoProvider
                 PROVE  FALSE
      OBVIOUS
    <3>1. emailProvider[c] = mailbox[id].provider
      OBVIOUS
    <3> QED BY <1>1, <2>1, <3>1 DEF CreateClient
  <2>3. \A q \in Requests : Links(q) => args[q].client # c
    BY <1>1 DEF CreateClient
  <2>4. \A d : d # c /\ d \in Clients => emailProvider'[d] = emailProvider[d]
    BY <1>1 DEF CreateClient
  <2>5. \A q \in Requests : Links(q) /\ pc[q] # "new" => args[q].client \in Clients \cup {NoClient}
    BY LinkIsLink, RefreshIsNoLink DEF LinkArgs
  <2>6. \A id \in Ids : Stored(id) => mailbox[id].client \in Clients \cup {NoClient}
    BY DEF Row
  <2> QED BY <1>1, <2>2, <2>3, <2>4, <2>5, <2>6 DEF CreateClient, tables,
             locals
<1>2. ASSUME NEW r \in Requests, NEW a \in LinkArgs \cup RefreshArgs, Begins(r, a)
      PROVE  ClientInv'
  BY <1>2 DEF Begins
<1>3. ASSUME NEW r \in Requests, ReadClient(r)
      PROVE  ClientInv'
  BY <1>3 DEF ReadClient, Answer, tables, locals
<1>4. ASSUME NEW r \in Requests, BindClient(r)
      PROVE  ClientInv'
  <2>1. args[r] \in LinkArgs
    BY <1>4, LinkIsLink, RefreshIsNoLink DEF BindClient
  <2>2. args[r].client \in Clients
    BY <1>4, <2>1 DEF BindClient, LinkArgs
  <2>3. \A id \in Ids : Stored(id) => mailbox[id] \in Row
    OBVIOUS
  <2>4. \A id \in Ids :
           Stored(id) /\ ~overlapped /\ mailbox[id].client = args[r].client =>
               mailbox[id].provider = NoProvider
    BY <1>4, <2>2, <2>3 DEF BindClient, Row
  <2>5. ~overlapped => \A q \in Requests : Active(q) => q = r
    BY <1>4 DEF BindClient
  <2>6. emailProvider'[args[r].client] = args[r].provider
    BY <1>4, <2>2 DEF BindClient
  <2>7. \A d \in Clients : d # args[r].client => emailProvider'[d] = emailProvider[d]
    BY <1>4 DEF BindClient
  <2>8. \A id \in Ids : Stored(id) => mailbox[id].client \in Clients \cup {NoClient}
    BY <2>3 DEF Row
  <2>9. pc' = [pc EXCEPT ![r] = "find"] /\ UNCHANGED <<mailbox, args, overlapped>>
    BY <1>4 DEF BindClient, locals
  <2>10. ClientProviderConsistent'
    BY <2>4, <2>7, <2>8, <2>9
  <2>11. ASSUME ~overlapped', NEW q \in Requests
         PROVE  /\ pc'[q] # "bind"
                /\ pc'[q] \in {"find", "insert"} => q = r
    BY <2>5, <2>9, <2>11
  <2> QED BY <2>6, <2>9, <2>10, <2>11
<1>5. ASSUME NEW r \in Requests, NEW id \in Ids, NEW row \in Entity, Loads(r, id, row)
      PROVE  ClientInv'
  BY <1>5 DEF Loads, Rest
<1>6. ASSUME NEW r \in Requests, LoadsNone(r)
      PROVE  ClientInv'
  BY <1>6 DEF LoadsNone, Rest
<1>7. ASSUME NEW r \in Requests, SelectForSave(r)
      PROVE  ClientInv'
  BY <1>7 DEF SelectForSave, tables
<1>8. ASSUME NEW r \in Requests, NEW row \in Row, Saves(r, row)
      PROVE  ClientInv'
  BY <1>8 DEF Saves, Rest
<1>9. ASSUME NEW r \in Requests, NEW id \in Ids, NEW row \in Row,
             Inserts(r, id, row)
      PROVE  ClientInv'
  BY <1>9 DEF Inserts, Rest, Refused
<1>10. ASSUME NEW r \in Requests, Reread(r)
      PROVE  ClientInv'
  BY <1>10 DEF Reread, tables
<1>11. ASSUME NEW r \in Requests, EmitRow(r)
      PROVE  ClientInv'
  BY <1>11 DEF EmitRow, Answer, tables, locals
<1>12. ASSUME NEW r \in Requests, NEW text \in {"notFound", "error"}, Ends(r, text)
      PROVE  ClientInv'
  BY <1>12 DEF Ends, Rest
<1> HIDE DEF ClientInv
<1> QED BY <1>1, <1>2, <1>3, <1>4, <1>5, <1>6, <1>7, <1>8, <1>9,
           <1>10, <1>11, <1>12 DEF Step

(* A step makes no second row of an account with a client: the constraint  *)
(* refuses it, and without a client the link that inserts is alone.        *)
LEMMA AccountInvStep ==
    ASSUME TypeOK, ProgressInv, EntityInv, AccountInv, Step
    PROVE  AccountInv'
<1> USE LinkingAssumption, NoRowIsNoRow DEF TypeOK, ProgressInv, EntityInv,
        AccountInv, NoDuplicateMailbox, SameAccount, Matches, Holding, Saving,
        Stored, Goto, Links, Active
<1>1. ASSUME NEW c \in Clients, CreateClient(c)
      PROVE  AccountInv'
  BY <1>1 DEF CreateClient, tables, locals
<1>2. ASSUME NEW r \in Requests, NEW a \in LinkArgs \cup RefreshArgs, Begins(r, a)
      PROVE  AccountInv'
  BY <1>2 DEF Begins
<1>3. ASSUME NEW r \in Requests, ReadClient(r)
      PROVE  AccountInv'
  BY <1>3 DEF ReadClient, Answer, tables, locals
<1>4. ASSUME NEW r \in Requests, BindClient(r)
      PROVE  AccountInv'
  BY <1>4 DEF BindClient, locals
<1>5. ASSUME NEW r \in Requests, NEW id \in Ids, NEW row \in Entity, Loads(r, id, row)
      PROVE  AccountInv'
  BY <1>5 DEF Loads, Rest
<1>6. ASSUME NEW r \in Requests, LoadsNone(r)
      PROVE  AccountInv'
  BY <1>6 DEF LoadsNone, Rest
<1>7. ASSUME NEW r \in Requests, SelectForSave(r)
      PROVE  AccountInv'
  BY <1>7 DEF SelectForSave, tables
<1>8. ASSUME NEW r \in Requests, NEW row \in Row, Saves(r, row)
      PROVE  AccountInv'
  BY <1>8 DEF Saves, Rest
<1>9. ASSUME NEW r \in Requests, NEW id \in Ids, NEW row \in Row,
             Inserts(r, id, row)
      PROVE  AccountInv'
  BY <1>9 DEF Inserts, Rest, Refused
<1>10. ASSUME NEW r \in Requests, Reread(r)
      PROVE  AccountInv'
  BY <1>10 DEF Reread, tables
<1>11. ASSUME NEW r \in Requests, EmitRow(r)
      PROVE  AccountInv'
  BY <1>11 DEF EmitRow, Answer, tables, locals
<1>12. ASSUME NEW r \in Requests, NEW text \in {"notFound", "error"}, Ends(r, text)
      PROVE  AccountInv'
  BY <1>12 DEF Ends, Rest
<1> HIDE DEF AccountInv
<1> QED BY <1>1, <1>2, <1>3, <1>4, <1>5, <1>6, <1>7, <1>8, <1>9,
           <1>10, <1>11, <1>12 DEF Step

(* A step writes an expiry with the token it came with, or by a refresh.   *)
LEMMA ExpiryInvStep ==
    ASSUME TypeOK, ProgressInv, EntityInv, ExpiryInv, Step
    PROVE  ExpiryInv'
<1> USE LinkingAssumption, NoRowIsNoRow DEF TypeOK, ProgressInv, EntityInv,
        ExpiryInv, ExpiryBelongsToToken, Holding, Saving, Stored, Columns,
        Goto, Links, Active, Tokenless
<1>1. ASSUME NEW c \in Clients, CreateClient(c)
      PROVE  ExpiryInv'
  BY <1>1 DEF CreateClient, tables, locals
<1>2. ASSUME NEW r \in Requests, NEW a \in LinkArgs \cup RefreshArgs, Begins(r, a)
      PROVE  ExpiryInv'
  BY <1>2 DEF Begins
<1>3. ASSUME NEW r \in Requests, ReadClient(r)
      PROVE  ExpiryInv'
  BY <1>3 DEF ReadClient, Answer, tables, locals
<1>4. ASSUME NEW r \in Requests, BindClient(r)
      PROVE  ExpiryInv'
  BY <1>4 DEF BindClient, locals
<1>5. ASSUME NEW r \in Requests, NEW id \in Ids, NEW row \in Entity, Loads(r, id, row)
      PROVE  ExpiryInv'
  BY <1>5 DEF Loads, Rest
<1>6. ASSUME NEW r \in Requests, LoadsNone(r)
      PROVE  ExpiryInv'
  BY <1>6 DEF LoadsNone, Rest
<1>7. ASSUME NEW r \in Requests, SelectForSave(r)
      PROVE  ExpiryInv'
  BY <1>7 DEF SelectForSave, tables
<1>8. ASSUME NEW r \in Requests, NEW row \in Row, Saves(r, row)
      PROVE  ExpiryInv'
  <2>1. /\ target[r] \in Ids /\ Active(r)
        /\ pc' = [pc EXCEPT ![r] = "reread"]
        /\ UNCHANGED <<args, ent, target, dirty, overlapped>>
        /\ mailbox' = [mailbox EXCEPT ![target[r]] = row]
    BY <1>8 DEF Saves, Rest
  <2>2. Stored(target[r])
    BY <1>8 DEF Saves
  <2>3. /\ ent[r].tokenExpiresAt = r
        /\ row.tokenExpiresAt \in {r, mailbox[target[r]].tokenExpiresAt}
    BY <1>8 DEF Saves
  <2>4. ~overlapped => row.tokenExpiresAt = r
    BY <1>8, <2>3 DEF Saves
  <2>5. ~overlapped /\ Links(r) => row.accessToken = r \/ ~args[r].hasAccess
    BY <1>8 DEF Saves
  <2>6. ~Links(r) => args[r].kind = "refresh"
    BY <1>8 DEF Saves, RefreshArgs, LinkArgs
  <2>7. \A id \in Ids : Stored(id)' /\ mailbox'[id].tokenExpiresAt \in Requests =>
                           pc'[mailbox'[id].tokenExpiresAt] # "new"
    BY <2>1, <2>3, <2>2
  <2>8. ExpiryBelongsToToken'
    BY <2>1, <2>4, <2>5, <2>6
  <2>9. ASSUME NEW q \in Requests, Saving(q)'
        PROVE  Saving(q) /\ (~overlapped' => FALSE)
    BY <2>1, <2>9
  <2> QED BY <2>1, <2>7, <2>8, <2>9
<1>9. ASSUME NEW r \in Requests, NEW id \in Ids, NEW row \in Row,
             Inserts(r, id, row)
      PROVE  ExpiryInv'
  BY <1>9 DEF Inserts, Rest
<1>10. ASSUME NEW r \in Requests, Reread(r)
      PROVE  ExpiryInv'
  BY <1>10 DEF Reread, tables
<1>11. ASSUME NEW r \in Requests, EmitRow(r)
      PROVE  ExpiryInv'
  BY <1>11 DEF EmitRow, Answer, tables, locals
<1>12. ASSUME NEW r \in Requests, NEW text \in {"notFound", "error"}, Ends(r, text)
      PROVE  ExpiryInv'
  BY <1>12 DEF Ends, Rest
<1> HIDE DEF ExpiryInv
<1> QED BY <1>1, <1>2, <1>3, <1>4, <1>5, <1>6, <1>7, <1>8, <1>9,
           <1>10, <1>11, <1>12 DEF Step

(* A step that changes a row leaves its request on the way to send it.     *)
LEMMA BoardInvStep ==
    ASSUME TypeOK, ProgressInv, EntityInv, BoardInv, Step
    PROVE  BoardInv'
<1> USE LinkingAssumption DEF TypeOK, ProgressInv, EntityInv, BoardInv,
        Holding, Goto, Active
<1>1. ASSUME NEW c \in Clients, CreateClient(c)
      PROVE  BoardInv'
  BY <1>1 DEF CreateClient, tables, locals
<1>2. ASSUME NEW r \in Requests, NEW a \in LinkArgs \cup RefreshArgs, Begins(r, a)
      PROVE  BoardInv'
  BY <1>2 DEF Begins
<1>3. ASSUME NEW r \in Requests, ReadClient(r)
      PROVE  BoardInv'
  BY <1>3 DEF ReadClient, Answer, tables, locals
<1>4. ASSUME NEW r \in Requests, BindClient(r)
      PROVE  BoardInv'
  BY <1>4 DEF BindClient, locals
<1>5. ASSUME NEW r \in Requests, NEW id \in Ids, NEW row \in Entity, Loads(r, id, row)
      PROVE  BoardInv'
  BY <1>5 DEF Loads, Rest
<1>6. ASSUME NEW r \in Requests, LoadsNone(r)
      PROVE  BoardInv'
  BY <1>6 DEF LoadsNone, Rest
<1>7. ASSUME NEW r \in Requests, SelectForSave(r)
      PROVE  BoardInv'
  BY <1>7 DEF SelectForSave, tables
<1>8. ASSUME NEW r \in Requests, NEW row \in Row, Saves(r, row)
      PROVE  BoardInv'
  BY <1>8 DEF Saves, Rest
<1>9. ASSUME NEW r \in Requests, NEW id \in Ids, NEW row \in Row,
             Inserts(r, id, row)
      PROVE  BoardInv'
  BY <1>9 DEF Inserts, Rest
<1>10. ASSUME NEW r \in Requests, Reread(r)
      PROVE  BoardInv'
  BY <1>10 DEF Reread, tables
<1>11. ASSUME NEW r \in Requests, EmitRow(r)
      PROVE  BoardInv'
  BY <1>11 DEF EmitRow, Answer, tables, locals
<1>12. ASSUME NEW r \in Requests, NEW text \in {"notFound", "error"}, Ends(r, text)
      PROVE  BoardInv'
  BY <1>12 DEF Ends, Rest
<1> HIDE DEF BoardInv
<1> QED BY <1>1, <1>2, <1>3, <1>4, <1>5, <1>6, <1>7, <1>8, <1>9,
           <1>10, <1>11, <1>12 DEF Step


(* Inv holds in every reachable state. *)
THEOREM Invariance == Spec => []Inv
<1>1. ASSUME Inv, [Next]_vars PROVE Inv'
  <2>1. CASE Next
    BY <1>1, <2>1, NextIsStep, TypeOKStep, ProgressInvStep, EntityInvStep,
       TokensInvStep,
       ClientInvStep, AccountInvStep, ExpiryInvStep, BoardInvStep DEF Inv
  <2>2. CASE UNCHANGED vars
    BY <1>1, <2>2 DEF vars, tables, locals, Inv, TypeOK, ProgressInv,
       EntityInv,
       TokensInv, OwnTokens, ClientInv, ClientProviderConsistent, AccountInv,
       NoDuplicateMailbox, ExpiryInv, ExpiryBelongsToToken, BoardInv, Links,
       Matches, SameAccount, Stored, Active, Holding, Saving, Tokenless
  <2> QED BY <1>1, <2>1, <2>2
<1> QED BY <1>1, InitInv, PTL DEF Spec

(* Every variable keeps its type. *)
THEOREM TypeCorrect == Spec => []TypeOK
<1>1. Inv => TypeOK
  BY DEF Inv
<1> QED BY <1>1, Invariance, PTL

(* saveTokens and refreshTokenExpiry never write a token to a mailbox with *)
(* another email, provider or client than the link that brought it named,  *)
(* however stale the entity they write back.                               *)
THEOREM TokensMatch == Spec => []TokensMatchAccount
<1>1. Inv => TokensMatchAccount
  BY DEF Inv, TokensInv, OwnTokens, TokensMatchAccount, Links
<1> QED BY <1>1, Invariance, PTL

(* The check of saveTokens and its binding keep the mailboxes of a client  *)
(* that have a provider with the one it is bound to, as long as requests   *)
(* do not overlap.                                                         *)
THEOREM ClientHasOneProvider == Spec => []ClientProviderConsistent
<1>1. Inv => ClientProviderConsistent
  BY DEF Inv, ClientInv
<1> QED BY <1>1, Invariance, PTL

(* findOne before the insert and the unique constraint leave no duplicate  *)
(* but those without a client, of links that overlapped.                   *)
THEOREM NoDuplicates == Spec => []NoDuplicateMailbox
<1>1. Inv => NoDuplicateMailbox
  BY DEF Inv, AccountInv
<1> QED BY <1>1, Invariance, PTL

(* The expiry of a mailbox is that of its access token, or was set by a    *)
(* refresh or by a link without an access token.                           *)
THEOREM ExpiryIsOfToken == Spec => []ExpiryBelongsToToken
<1>1. Inv => ExpiryBelongsToToken
  BY DEF Inv, ExpiryInv
<1> QED BY <1>1, Invariance, PTL

(* The announcement of the row read again brings the dashboards up to date.*)
THEOREM DashboardsAgree == Spec => []BoardsAgree
<1>1. Inv => BoardsAgree
  <2> SUFFICES ASSUME Inv, ~overlapped,
                      \A r \in Requests : pc[r] \in {"new", "over"},
                      \A r \in Requests : reply[r] # "error"
               PROVE  board = mailbox
    BY DEF BoardsAgree
  <2>1. \A id \in Ids : board[id] = mailbox[id]
    BY DEF Inv, BoardInv
  <2> QED BY <2>1 DEF Inv, TypeOK
<1> QED BY <1>1, Invariance, PTL

(* What refreshTokenExpiry writes back leaves the tokens of the row.       *)
THEOREM RefreshLeavesTokens == Spec => RefreshKeepsTokens
<1> DEFINE Kept ==
      \A r \in Requests :
         /\ args[r].kind = "refresh" /\ pc[r] = "update" /\ pc'[r] = "reread"
         /\ ~overlapped
         => \A col \in {"accessToken", "refreshToken"} :
              mailbox'[target[r]][col] = mailbox[target[r]][col]
<1>1. ASSUME Inv, [Next]_vars PROVE [Kept]_vars
  <2> SUFFICES ASSUME NEW r \in Requests, Next, ~overlapped,
                      args[r].kind = "refresh", pc[r] = "update", pc'[r] = "reread"
               PROVE  \A col \in {"accessToken", "refreshToken"} :
                        mailbox'[target[r]][col] = mailbox[target[r]][col]
    BY <1>1
  <2>1. UpdateRow(r)
    BY <1>1 DEF Inv, TypeOK, Next, CreateClient, Begin, ReadClient, BindClient,
       FindMailbox, FindById, SelectForSave, UpdateRow, InsertRow, Reread,
       EmitRow, Abort, Answer, Goto
  <2>2. PICK row \in Row : Saves(r, row)
    BY <1>1, <2>1, UpdateSaves DEF Inv
  <2>3. /\ ent[r].accessToken = mailbox[target[r]].accessToken
        /\ ent[r].refreshToken = mailbox[target[r]].refreshToken
    BY <1>1 DEF Inv, ExpiryInv, Saving, Links
  <2>4. mailbox'[target[r]] = row
    BY <1>1, <2>2 DEF Saves, Inv, TypeOK
  <2> QED BY <2>2, <2>3, <2>4 DEF Saves
<1> QED BY <1>1, Invariance, PTL DEF Spec, RefreshKeepsTokens


=============================================================================
