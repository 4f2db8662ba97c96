---------------------------- MODULE AccessProofs -----------------------------
(***************************************************************************)
(* Who is signed in, in general.  Session and Tab, for every set of tokens *)
(* and number of events: the types, and for a browser with one tab that    *)
(* what the tab sends is what it shows; with the counter beside it the     *)
(* session is still the one of Session, and what a tab hears again is not  *)
(* counted again.  Then Accounts, for any number of starts and changes:    *)
(* only a finished change clears the flag of a password, only the current  *)
(* one is replaced, and a reset takes.                                     *)
(***************************************************************************)
EXTENDS Tab, Accounts, TLAPS, FiniteSetTheorems

(* The empty browser. *)
LEMMA InitTypes == Init => TypeOK
BY DEF Init, TypeOK

(* A token is only ever copied from where one is already.                  *)
LEMMA TypeOKStep == TypeOK /\ [Next]_vars => TypeOK'
<1> SUFFICES ASSUME TypeOK, [Next]_vars PROVE TypeOK'
  OBVIOUS
<1> USE DEF TypeOK, server, browser, GoTo, Bearer
<1>1. ASSUME NEW t \in Tabs, Load(t) PROVE TypeOK'
  BY <1>1 DEF Load
<1>2. ASSUME NEW t \in Tabs, Reload(t) PROVE TypeOK'
  BY <1>2 DEF Reload
<1>3. ASSUME NEW t \in Tabs, EnterDashboard(t) \/ LeaveDashboard(t) PROVE TypeOK'
  BY <1>3 DEF EnterDashboard, LeaveDashboard
<1>4. ASSUME NEW t \in Tabs, Logout(t) PROVE TypeOK'
  BY <1>4 DEF Logout
<1>5. ASSUME NEW t \in Tabs, Request(t) \/ Answer(t) PROVE TypeOK'
  BY <1>5 DEF Request, Answer
<1>6. ASSUME NEW t \in Tabs, Unauthorized(t) PROVE TypeOK'
  BY <1>6 DEF Unauthorized
<1>7. ASSUME NEW t \in Tabs, NEW tok \in Tokens, Login(t, tok) PROVE TypeOK'
  BY <1>7 DEF Login, Sign, SignedIn
<1>8. ASSUME NEW tok \in Tokens, Expire(tok) PROVE TypeOK'
  BY <1>8 DEF Expire
<1>9. ASSUME UNCHANGED vars PROVE TypeOK'
  BY <1>9 DEF vars
<1> QED BY <1>1, <1>2, <1>3, <1>4, <1>5, <1>6, <1>7, <1>8, <1>9 DEF Next

(* The three copies of the token only ever hold tokens the server signed.  *)
THEOREM TypeCorrectness == Spec => []TypeOK
<1>1. Init => TypeOK
  BY InitTypes
<1> QED BY <1>1, TypeOKStep, PTL DEF Spec

-----------------------------------------------------------------------------
(* The copies of a single tab: memory and storage agree, localStorage may  *)
(* lack a token, but only one the server does not accept any more; and     *)
(* only such a token is sent without being answered.                       *)
CopiesAgree ==
    /\ local \in {stored, None}
    /\ local = None => stored \notin valid
    /\ \A t \in Tabs \ loading :
         /\ mem[t] = stored
         /\ header[t] \in {mem[t], None}
         /\ local = None /\ mem[t] = None => header[t] = None
         /\ sent[t] \in {stored, None, "nothing"}
         /\ sent[t] = None => stored \notin valid
         /\ mem[t] = None => sent[t] = "nothing"
    /\ \A t \in loading : sent[t] = "nothing"
(* In every step the copies keep agreeing: a token that is no longer       *)
(* accepted is never accepted again.                                       *)
LEMMA CopiesAgreeStep ==
    ASSUME \A t, u \in Tabs : t = u,
           TypeOK, CopiesAgree, [Next]_vars
    PROVE  CopiesAgree'
<1> USE SessionAssumption DEF TypeOK, CopiesAgree, server, browser, GoTo, Bearer
<1>1. ASSUME NEW t \in Tabs, Load(t) PROVE CopiesAgree'
  BY <1>1 DEF Load
<1>2. ASSUME NEW t \in Tabs, Reload(t) PROVE CopiesAgree'
  BY <1>2 DEF Reload
<1>3. ASSUME NEW t \in Tabs, EnterDashboard(t) \/ LeaveDashboard(t)
      PROVE  CopiesAgree'
  BY <1>3 DEF EnterDashboard, LeaveDashboard
<1>4. ASSUME NEW t \in Tabs, Logout(t) PROVE CopiesAgree'
  BY <1>4 DEF Logout
<1>5. ASSUME NEW t \in Tabs, Request(t) \/ Answer(t) PROVE CopiesAgree'
  BY <1>5 DEF Request, Answer
<1>6. ASSUME NEW t \in Tabs, Unauthorized(t) PROVE CopiesAgree'
  BY <1>6 DEF Unauthorized
<1>7. ASSUME NEW t \in Tabs, NEW tok \in Tokens, Login(t, tok)
      PROVE  CopiesAgree'
  BY <1>7 DEF Login, Sign, SignedIn
<1>8. ASSUME NEW tok \in Tokens, Expire(tok) PROVE CopiesAgree'
  BY <1>8 DEF Expire
<1>9. ASSUME UNCHANGED vars PROVE CopiesAgree'
  BY <1>9 DEF vars
<1> QED BY <1>1, <1>2, <1>3, <1>4, <1>5, <1>6, <1>7, <1>8, <1>9 DEF Next

(* A single tab sends the token it shows as long as the server accepts it, *)
(* and none when it shows nobody signed in, through any number of logins,  *)
(* reloads, expired tokens, refusals and logouts.                          *)
THEOREM OneTabSendsWhatItShows ==
    ASSUME \A t, u \in Tabs : t = u
    PROVE  Spec => []SendsWhatItShows
<1>1. Init => CopiesAgree
  BY DEF Init, CopiesAgree
<1>2. TypeOK /\ CopiesAgree /\ [Next]_vars => CopiesAgree'
  BY CopiesAgreeStep
<1>3. TypeOK /\ CopiesAgree => SendsWhatItShows
  BY SessionAssumption DEF TypeOK, CopiesAgree, SendsWhatItShows, Bearer
<1> QED BY <1>1, <1>2, <1>3, TypeCorrectness, PTL DEF Spec

-----------------------------------------------------------------------------
(* What the counter does, the session does not notice; and the counter     *)
(* takes part in steps of the session, but keeps none from happening.      *)
LEMMA TabStepIsSessionStep == [TabNext]_tabVars => [Next]_vars
<1> SUFFICES ASSUME [TabNext]_tabVars PROVE [Next]_vars
  OBVIOUS
<1>1. ASSUME NEW t \in Tabs, LoadDocument(t) PROVE Next
  BY <1>1 DEF LoadDocument, Next
<1>2. ASSUME NEW t \in Tabs, ToLogin(t) PROVE Next
  BY <1>2 DEF ToLogin, Next
<1>3. ASSUME NEW t \in Tabs, SessionOnly(t) PROVE Next
  BY <1>3 DEF SessionOnly, Next
<1>4. ASSUME NEW t \in Tabs, BrowseLogs(t) \/ Listen(t) PROVE UNCHANGED vars
  BY <1>4 DEF BrowseLogs, Listen
<1>5. ASSUME NEW tok \in Tokens, Expire(tok) PROVE Next
  BY <1>5 DEF Next
<1>6. CASE UNCHANGED tabVars
  BY <1>6 DEF tabVars
<1> QED BY <1>1, <1>2, <1>3, <1>4, <1>5, <1>6 DEF TabNext

(* A tab with the counter in it is a browser of one tab: every behaviour   *)
(* of the layout, with its provider and its sidebar, is one of the         *)
(* session alone.                                                          *)
THEOREM TabImplementsSession == TabSpec => Spec
<1>1. TabInit => Init
  BY DEF TabInit
<1> QED BY <1>1, TabStepIsSessionStep, PTL DEF TabSpec, Spec

(* What the tab sends is what it shows, with the provider of the counter   *)
(* in it: the token of the user that it shows as signed in, while the      *)
(* server accepts that token.                                              *)
THEOREM TabSendsWhatItShows == TabSpec => []SendsWhatItShows
<1>1. Spec => []SendsWhatItShows
  BY OneTab, OneTabSendsWhatItShows
<1> QED BY <1>1, TabImplementsSession, PTL

-----------------------------------------------------------------------------
(* The ids that are remembered are of events heard since the tab was       *)
(* loaded, and each of them was counted at most once since then.           *)
Counted ==
    /\ emitted \in Nat /\ at \in Nat
    /\ IsFiniteSet(heard) /\ seen \subseteq heard
    /\ unread \in Nat /\ found \in Nat
    /\ unread <= found + Cardinality(seen)

(* An event is counted only together with an id that was not there.        *)
LEMMA HearIsCounted ==
    ASSUME Counted, Hear
    PROVE  Counted'
<1> DEFINE e == at + 1
<1>1. IsFiniteSet(seen) /\ Cardinality(seen) \in Nat
  BY FS_Subset, FS_CardinalityType DEF Counted
<1>2. emitted' \in Nat /\ at' \in Nat /\ found' = found /\ heard' = heard \cup {e}
  BY DEF Hear, Counted
<1>3. IsFiniteSet(heard')
  BY <1>2, FS_AddElement DEF Counted
<1>4. CASE e \notin seen /\ ~logsOpen
  <2>1. seen' = seen \cup {e} /\ unread' = unread + 1
    BY <1>4 DEF Hear, Handler, increment
  <2>2. Cardinality(seen') = Cardinality(seen) + 1
    BY <1>1, <1>4, <2>1, FS_AddElement
  <2> HIDE DEF e
  <2> QED BY <1>1, <1>2, <1>3, <2>1, <2>2 DEF Counted
<1>5. CASE ~(e \notin seen /\ ~logsOpen)
  <2>1. seen' = seen /\ unread' = unread
    BY <1>5 DEF Hear, Handler
  <2> HIDE DEF e
  <2> QED BY <1>2, <1>3, <2>1 DEF Counted
<1> QED BY <1>4, <1>5

(* Loading the document empties what it heard and remembers together.      *)
LEMMA LoadIsCounted ==
    ASSUME Counted, NEW k \in 0 .. emitted, NEW signedIn, LoadTab(k, signedIn)
    PROVE  Counted'
<1>1. IsFiniteSet({}) /\ Cardinality({}) = 0
  BY FS_EmptySet
<1>2. emitted' \in Nat /\ at' \in Nat /\ heard' = {} /\ seen' = {}
  BY DEF LoadTab, Counted
<1>3. unread' \in Nat /\ found' = unread'
  BY DEF LoadTab, reset, Counted
<1> QED BY <1>1, <1>2, <1>3 DEF Counted

(* Opening the logs only lowers the counter.                               *)
LEMMA OpenIsCounted == Counted /\ OpenLogs => Counted'
<1> SUFFICES ASSUME Counted, OpenLogs PROVE Counted'
  OBVIOUS
<1>1. Cardinality(seen) \in Nat
  BY FS_Subset, FS_CardinalityType DEF Counted
<1>2. UNCHANGED <<emitted, at, heard, seen>> /\ unread' = 0 /\ found' = 0
  BY DEF OpenLogs, reset
<1> QED BY <1>1, <1>2 DEF Counted

LEMMA CountedStep == Counted /\ [TabNext]_tabVars => Counted'
<1> SUFFICES ASSUME Counted, [TabNext]_tabVars PROVE Counted'
  OBVIOUS
<1>1. ASSUME UNCHANGED unreadVars PROVE Counted'
  BY <1>1 DEF unreadVars, Counted
<1>2. ASSUME LeaveLogs PROVE Counted'
  BY <1>2 DEF LeaveLogs, Counted
<1>3. ASSUME Publish PROVE Counted'
  BY <1>3 DEF Publish, Counted
<1>4. ASSUME NEW k \in 0 .. emitted, Reconnect(k) PROVE Counted'
  BY <1>4 DEF Reconnect, Counted
<1>5. ASSUME NEW t \in Tabs, LoadDocument(t) PROVE Counted'
  BY <1>5, LoadIsCounted DEF LoadDocument
<1>6. ASSUME NEW t \in Tabs, ToLogin(t) PROVE Counted'
  BY <1>1, <1>2, <1>6 DEF ToLogin, CloseLogs
<1>7. ASSUME NEW t \in Tabs, SessionOnly(t) PROVE Counted'
  BY <1>1, <1>7 DEF SessionOnly
<1>8. ASSUME NEW t \in Tabs, BrowseLogs(t) PROVE Counted'
  BY <1>2, <1>8, OpenIsCounted DEF BrowseLogs
<1>9. ASSUME NEW t \in Tabs, Listen(t) PROVE Counted'
  BY <1>4, <1>9, HearIsCounted DEF Listen
<1>10. CASE UNCHANGED tabVars
  BY <1>1, <1>10 DEF tabVars
<1> QED BY <1>1, <1>3, <1>5, <1>6, <1>7, <1>8, <1>9, <1>10 DEF TabNext

(* An event the tab hears again, over any number of connections, is not    *)
(* counted again: the counter grows by no more than the tab has heard.     *)
THEOREM EventsAreCountedOnce == TabSpec => []UnreadOnce
<1>1. TabInit => Counted
  BY FS_EmptySet DEF TabInit, UnreadInit, Counted
<1>2. Counted => UnreadOnce
  <2> SUFFICES ASSUME Counted PROVE UnreadOnce
    OBVIOUS
  <2>1. /\ Cardinality(seen) <= Cardinality(heard)
        /\ Cardinality(seen) \in Nat /\ Cardinality(heard) \in Nat
    BY FS_Subset, FS_CardinalityType DEF Counted
  <2> QED BY <2>1 DEF Counted, UnreadOnce
<1> QED BY <1>1, <1>2, CountedStep, PTL DEF TabSpec

-----------------------------------------------------------------------------
(* Accounts: what a change of the password saves. *)
ChosenRows == [hash : Chosen \cup {Configured}, mustChange : {FALSE}]

(* Every start and every change is about to save what it was asked to.     *)
Asked ==
    /\ \A s \in Starts : step[s] \in {"select", "update"} =>
         entity[s] = [hash |-> env[s].password, mustChange |-> TRUE]
    /\ \A c \in Changes : step[c] \in {"select", "update"} =>
         entity[c] \in ChosenRows

(* As long as no two overlapped, one at most is at work, and the row is    *)
(* still the one that it compared and selected.                            *)
Alone ==
    /\ \A a, b \in Actors : step[a] \notin Finished /\ step[b] \notin Finished => a = b
    /\ \A a \in Actors : step[a] = "update" => row[a] = user
    /\ \A c \in Changes : step[c] \in {"select", "update"} => checked[c] = user.hash

(* And then a password without the flag is what a finished change chose.   *)
Unflagged ==
    user # NoUser /\ ~user.mustChange =>
        \E c \in Changes : step[c] = "done" /\ entity[c].hash = user.hash

AccountsInv == AccountsTypeOK /\ Asked /\ (~overlapped => Alone /\ Unflagged)

(* Rows and the columns they are made of.                                  *)
LEMMA RowColumns ==
    /\ \A u \in Rows \cup {NoUser} : u.mustChange \in BOOLEAN
    /\ \A hash \in Passwords, flag \in BOOLEAN :
         [hash |-> hash, mustChange |-> flag] \in Rows
    /\ \A hash \in Chosen \cup {Configured} :
         [hash |-> hash, mustChange |-> FALSE] \in ChosenRows
<1>1. \A u \in Rows : u.mustChange \in BOOLEAN
  BY DEF Rows
<1>2. NoUser.mustChange \in BOOLEAN
  BY DEF NoUser
<1>3. \A hash \in Passwords, flag \in BOOLEAN :
         [hash |-> hash, mustChange |-> flag] \in Rows
  BY DEF Rows
<1>4. \A hash \in Chosen \cup {Configured} :
         [hash |-> hash, mustChange |-> FALSE] \in ChosenRows
  BY DEF ChosenRows
<1> QED BY <1>1, <1>2, <1>3, <1>4

(* Saving an entity puts just that entity into the row, if the row is the  *)
(* one that was selected: the column that is not written has its value.    *)
LEMMA SaveIsWhole ==
    ASSUME AccountsInv, ~overlapped, NEW a \in Actors, UpdateRow(a)
    PROVE  /\ step[a] = "update" /\ entity[a] \in Rows
           /\ user' = [hash |-> entity[a].hash, mustChange |-> entity[a].mustChange]
<1> USE DEF AccountsInv, AccountsTypeOK, Alone
<1>1. step[a] = "update" /\ row[a] = user
  BY DEF UpdateRow
<1>2. ASSUME a \in Starts PROVE entity[a] \in Rows
  <2>1. entity[a] = [hash |-> env[a].password, mustChange |-> TRUE]
        /\ env[a].password \in Passwords
    BY <1>1, <1>2 DEF Asked, Environments, Passwords
  <2> QED BY <2>1, RowColumns
<1>3. ASSUME a \in Changes PROVE entity[a] \in Rows
  <2>1. entity[a] \in ChosenRows
    BY <1>1, <1>3 DEF Asked
  <2> QED BY <2>1 DEF ChosenRows, Rows, Passwords
<1>4. entity[a] \in Rows
  BY <1>2, <1>3 DEF Actors
<1>5. entity[a].mustChange \in BOOLEAN /\ user.mustChange \in BOOLEAN
  BY <1>4, RowColumns
<1>6. (IF entity[a].mustChange # user.mustChange THEN entity[a].mustChange
                                                ELSE user.mustChange)
        = entity[a].mustChange
  BY <1>5
<1>7. user' = [hash |-> entity[a].hash,
               mustChange |-> IF entity[a].mustChange # user.mustChange
                              THEN entity[a].mustChange ELSE user.mustChange]
  BY <1>1 DEF UpdateRow
<1> QED BY <1>1, <1>4, <1>6, <1>7

LEMMA AccountsTypesStep ==
    ASSUME AccountsTypeOK, Asked, [AccountsNext]_accountsVars
    PROVE  AccountsTypeOK'
<1> USE DEF AccountsTypeOK, Goes, Begin
<1>1. \A s \in Starts : s \in Actors /\ env[s].password \in Passwords
  BY DEF Actors, Environments, Passwords
<1>2. ASSUME NEW s \in Starts, CountUsers(s) PROVE AccountsTypeOK'
  BY <1>2 DEF CountUsers
<1>3. ASSUME NEW s \in Starts, CreateAdmin(s) PROVE AccountsTypeOK'
  <2>1. DefaultPassword(s) \in Passwords
    BY <1>1 DEF DefaultPassword, Passwords
  <2>2. [hash |-> DefaultPassword(s), mustChange |-> TRUE] \in Rows
    BY <2>1, RowColumns
  <2>3. user' \in Rows \cup {NoUser}
    BY <1>3, <2>2 DEF CreateAdmin
  <2> QED BY <1>3, <2>3 DEF CreateAdmin
<1>4. ASSUME NEW s \in Starts, FindForReset(s) PROVE AccountsTypeOK'
  <2>1. [hash |-> env[s].password, mustChange |-> TRUE] \in Rows
    BY <1>1 DEF Rows
  <2> QED BY <1>4, <2>1 DEF FindForReset
<1>5. ASSUME NEW c \in Changes, NEW current \in Passwords,
             NEW new \in Passwords, ChangePassword(c, current, new)
      PROVE  AccountsTypeOK'
  <2>1. [hash |-> new, mustChange |-> FALSE] \in Rows
    BY DEF Rows, Passwords
  <2> QED BY <1>5, <2>1 DEF ChangePassword
<1>6. ASSUME NEW a \in Actors, SelectForSave(a) PROVE AccountsTypeOK'
  BY <1>6 DEF SelectForSave
<1>7. ASSUME NEW a \in Actors, UpdateRow(a) PROVE AccountsTypeOK'
  <2>1. entity[a] \in Rows
    <3>1. CASE a \in Starts
      <4>1. entity[a] = [hash |-> env[a].password, mustChange |-> TRUE]
        BY <1>7, <3>1 DEF UpdateRow, Asked
      <4>2. env[a].password \in Passwords
        BY <1>1, <3>1
      <4> QED BY <4>1, <4>2, RowColumns
    <3>2. CASE a \in Changes
      BY <1>7, <3>2 DEF UpdateRow, Asked, ChosenRows, Rows, Passwords
    <3> QED BY <3>1, <3>2 DEF Actors
  <2>2. user.mustChange \in BOOLEAN /\ entity[a].mustChange \in BOOLEAN
        /\ entity[a].hash \in Passwords
    BY <2>1, RowColumns DEF Rows
  <2>3. user' \in Rows
    BY <1>7, <2>2, RowColumns DEF UpdateRow
  <2> QED BY <1>7, <2>3 DEF UpdateRow
<1>8. CASE UNCHANGED accountsVars
  BY <1>8 DEF accountsVars
<1> QED BY <1>2, <1>3, <1>4, <1>5, <1>6, <1>7, <1>8 DEF AccountsNext

LEMMA AskedStep ==
    ASSUME AccountsTypeOK, Asked, [AccountsNext]_accountsVars
    PROVE  Asked'
<1> USE AccountsAssumption DEF AccountsTypeOK, Asked, Goes, Begin, Actors
<1>1. ASSUME NEW s \in Starts, CountUsers(s) \/ CreateAdmin(s) PROVE Asked'
  BY <1>1 DEF CountUsers, CreateAdmin
<1>5. ASSUME NEW s \in Starts, FindForReset(s) PROVE Asked'
  <2>1. /\ UNCHANGED env
        /\ \A a \in Actors : a # s => entity'[a] = entity[a] /\ step'[a] = step[a]
    BY <1>5 DEF FindForReset
  <2>2. step'[s] \in {"select", "update"} =>
          entity'[s] = [hash |-> env[s].password, mustChange |-> TRUE]
    BY <1>5 DEF FindForReset
  <2>3. s \notin Changes
    OBVIOUS
  <2> QED BY <2>1, <2>2, <2>3
<1>2. ASSUME NEW c \in Changes, NEW current \in Passwords,
             NEW new \in Passwords, ChangePassword(c, current, new)
      PROVE  Asked'
  <2>1. /\ UNCHANGED env
        /\ \A a \in Actors : a # c => entity'[a] = entity[a] /\ step'[a] = step[a]
    BY <1>2 DEF ChangePassword
  <2>2. /\ step'[c] \in {"select", "refused"}
        /\ step'[c] = "select" =>
             new \in Chosen \cup {Configured} /\ entity'[c] = [hash |-> new, mustChange |-> FALSE]
    BY <1>2 DEF ChangePassword, Accepts, Strong, Passwords
  <2>3. step'[c] = "select" =>
          entity'[c] \in ChosenRows
    BY <2>2, RowColumns
  <2>4. c \notin Starts
    OBVIOUS
  <2> QED BY <2>1, <2>2, <2>3, <2>4
<1>3. ASSUME NEW a \in Actors, SelectForSave(a) \/ UpdateRow(a) PROVE Asked'
  BY <1>3 DEF SelectForSave, UpdateRow
<1>4. CASE UNCHANGED accountsVars
  BY <1>4 DEF accountsVars
<1> QED BY <1>1, <1>2, <1>3, <1>4, <1>5 DEF AccountsNext

LEMMA AloneStep ==
    ASSUME AccountsInv, [AccountsNext]_accountsVars, ~overlapped'
    PROVE  Alone'
<1> USE AccountsAssumption DEF AccountsTypeOK, Alone, Finished, Goes, Begin, Actors
<1>1. AccountsTypeOK /\ Asked /\ AccountsTypeOK'
  BY AccountsTypesStep DEF AccountsInv
<1>2. ~overlapped /\ Alone
  BY DEF AccountsInv, AccountsNext, accountsVars, CountUsers, CreateAdmin, FindForReset,
         ChangePassword, SelectForSave, UpdateRow
<1>3. ASSUME NEW s \in Starts, CountUsers(s) PROVE Alone'
  BY <1>1, <1>2, <1>3 DEF CountUsers
<1>4. ASSUME NEW s \in Starts, CreateAdmin(s) PROVE Alone'
  BY <1>1, <1>2, <1>4 DEF CreateAdmin
<1>5. ASSUME NEW s \in Starts, FindForReset(s) PROVE Alone'
  BY <1>1, <1>2, <1>5 DEF FindForReset
<1>6. ASSUME NEW c \in Changes, NEW current \in Passwords,
             NEW new \in Passwords, ChangePassword(c, current, new)
      PROVE  Alone'
  <2>1. /\ UNCHANGED <<user, row>>
        /\ \A a \in Actors : a # c => step'[a] = step[a]
        /\ \A d \in Changes : d # c => checked'[d] = checked[d]
    BY <1>1, <1>6 DEF ChangePassword
  <2>2. \A a \in Actors : step[a] \in Finished
    BY <1>1, <1>2, <1>6 DEF ChangePassword
  <2>3. /\ step'[c] \in {"select", "refused"}
        /\ step'[c] = "select" => checked'[c] = user.hash
    BY <1>1, <1>6 DEF ChangePassword, Accepts
  <2> QED BY <1>2, <2>1, <2>2, <2>3
<1>7. ASSUME NEW a \in Actors, SelectForSave(a) PROVE Alone'
  BY <1>1, <1>2, <1>7 DEF SelectForSave
<1>8. ASSUME NEW a \in Actors, UpdateRow(a) PROVE Alone'
  <2>1. /\ step[a] = "update" /\ entity[a] \in Rows
        /\ user' = [hash |-> entity[a].hash, mustChange |-> entity[a].mustChange]
    BY <1>2, <1>8, SaveIsWhole
  <2>3. \A b \in Actors : b # a => /\ step'[b] = step[b]
                                  /\ step[b] \in {"idle", "done", "refused"}
    BY <1>1, <1>2, <1>8, <2>1 DEF UpdateRow
  <2>4. step'[a] = "done"
    BY <1>1, <1>8 DEF UpdateRow
  <2> QED BY <2>3, <2>4
<1>9. CASE UNCHANGED accountsVars
  BY <1>2, <1>9 DEF accountsVars
<1> QED BY <1>3, <1>4, <1>5, <1>6, <1>7, <1>8, <1>9 DEF AccountsNext

(* What a finished change chose stays; a start that writes sets the flag.  *)
LEMMA UnflaggedStep ==
    ASSUME AccountsInv, [AccountsNext]_accountsVars, ~overlapped'
    PROVE  Unflagged'
<1> USE DEF Goes, Begin
<1>1. AccountsTypeOK /\ Asked
  BY DEF AccountsInv
<1>2. ~overlapped /\ Alone /\ Unflagged
  BY <1>1 DEF AccountsTypeOK, AccountsInv, AccountsNext, accountsVars, CountUsers, CreateAdmin, FindForReset,
         ChangePassword, SelectForSave, UpdateRow
<1>3. \A c \in Changes : c \in Actors /\ c \notin Starts
  BY AccountsAssumption DEF Actors
<1>4. ASSUME UNCHANGED user,
             \A c \in Changes : step[c] = "done" => step'[c] = "done" /\ entity'[c] = entity[c]
      PROVE  Unflagged'
  BY <1>2, <1>4 DEF Unflagged
<1>5. ASSUME NEW s \in Starts, CountUsers(s) \/ FindForReset(s) PROVE Unflagged'
  <2>1. UNCHANGED user /\ \A a \in Actors : a # s => step'[a] = step[a] /\ entity'[a] = entity[a]
    BY <1>1, <1>5 DEF CountUsers, FindForReset, AccountsTypeOK
  <2> QED BY <1>3, <1>4, <2>1
<1>6. ASSUME NEW s \in Starts, CreateAdmin(s) PROVE Unflagged'
  <2>1. UNCHANGED entity /\ \A a \in Actors : a # s => step'[a] = step[a]
    BY <1>1, <1>6 DEF CreateAdmin, AccountsTypeOK
  <2>2. CASE user = NoUser
    BY <1>6, <2>2 DEF CreateAdmin, Unflagged
  <2>3. CASE user # NoUser
    BY <1>3, <1>4, <1>6, <2>1, <2>3 DEF CreateAdmin
  <2> QED BY <2>2, <2>3
<1>7. ASSUME NEW c \in Changes, NEW current \in Passwords, NEW new \in Passwords,
             ChangePassword(c, current, new)
      PROVE  Unflagged'
  <2>1. UNCHANGED user /\ step[c] # "done"
    BY <1>7 DEF ChangePassword
  <2>2. \A a \in Actors : a # c => step'[a] = step[a] /\ entity'[a] = entity[a]
    BY <1>1, <1>7 DEF ChangePassword, AccountsTypeOK
  <2> QED BY <1>3, <1>4, <2>1, <2>2
<1>8. ASSUME NEW a \in Actors, SelectForSave(a) PROVE Unflagged'
  <2>1. UNCHANGED <<user, entity>> /\ step[a] # "done"
        /\ \A b \in Actors : b # a => step'[b] = step[b]
    BY <1>1, <1>8 DEF SelectForSave, AccountsTypeOK
  <2> QED BY <1>3, <1>4, <2>1
<1>9. ASSUME NEW a \in Actors, UpdateRow(a) PROVE Unflagged'
  <2>1. /\ step[a] = "update"
        /\ user' = [hash |-> entity[a].hash, mustChange |-> entity[a].mustChange]
    BY <1>2, <1>9, SaveIsWhole
  <2>2. step'[a] = "done" /\ UNCHANGED entity
    BY <1>1, <1>9 DEF UpdateRow, AccountsTypeOK
  <2>3. CASE a \in Starts
    <3>1. entity[a] = [hash |-> env[a].password, mustChange |-> TRUE]
      BY <1>1, <2>1, <2>3 DEF Asked
    <3>2. user'.mustChange = TRUE
      BY <2>1, <3>1
    <3> QED BY <3>2 DEF Unflagged
  <2>4. CASE a \in Changes
    BY <2>1, <2>2, <2>4 DEF Unflagged
  <2> QED BY <2>3, <2>4 DEF Actors
<1>10. CASE UNCHANGED accountsVars
  BY <1>4, <1>10 DEF accountsVars
<1> QED BY <1>5, <1>6, <1>7, <1>8, <1>9, <1>10 DEF AccountsNext

LEMMA AccountsInvAlways == AccountsSpec => []AccountsInv
<1>1. AccountsInit => AccountsInv
  <2> SUFFICES ASSUME AccountsInit PROVE AccountsInv
    OBVIOUS
  <2>1. AccountsTypeOK
    BY DEF AccountsInit, AccountsTypeOK
  <2>2. \A a \in Actors : step[a] = "idle"
    BY DEF AccountsInit
  <2>3. Unflagged
    BY DEF AccountsInit, Unflagged
  <2>4. Asked /\ Alone
    BY <2>2, AccountsAssumption DEF Asked, Alone, Finished, Actors
  <2> QED BY <2>1, <2>3, <2>4 DEF AccountsInv
<1>2. AccountsInv /\ [AccountsNext]_accountsVars => AccountsInv'
  BY AccountsTypesStep, AskedStep, AloneStep, UnflaggedStep DEF AccountsInv
<1> QED BY <1>1, <1>2, PTL DEF AccountsSpec

(* However many processes start and change requests there are: only a      *)
(* finished change clears the flag, for the password that it chose, unless *)
(* two of them overlapped.                                                 *)
THEOREM OnlyUsersClearTheFlag == AccountsSpec => []UnflaggedIsChosen
<1>1. AccountsInv => UnflaggedIsChosen
  BY DEF AccountsInv, Unflagged, UnflaggedIsChosen
<1> QED BY <1>1, AccountsInvAlways, PTL

(* A request that changes the password replaces the one it was given as    *)
(* the current one.                                                        *)
THEOREM OnlyCurrentIsReplaced == AccountsSpec => CurrentIsChecked
<1>1. ASSUME AccountsInv, [AccountsNext]_accountsVars
      PROVE  [\A c \in Changes : step[c] = "update" /\ step'[c] = "done" /\ ~overlapped
                                   => checked[c] = user.hash]_accountsVars
  BY <1>1 DEF AccountsInv, Alone
<1> QED BY <1>1, AccountsInvAlways, PTL DEF AccountsSpec, CurrentIsChecked

(* A start that resets the password leaves the configured one in the row,  *)
(* to be changed.                                                          *)
THEOREM ResetsTake == AccountsSpec => ResetTakes
<1>1. ASSUME AccountsInv, [AccountsNext]_accountsVars
      PROVE  [\A s \in Starts :
                step[s] = "update" /\ step'[s] = "done" /\ ~overlapped
                  => user' = [hash |-> env[s].password, mustChange |-> TRUE]]_accountsVars
  <2> SUFFICES ASSUME AccountsNext, NEW s \in Starts, step[s] = "update",
                      step'[s] = "done", ~overlapped
               PROVE  user' = [hash |-> env[s].password, mustChange |-> TRUE]
    BY <1>1
  <2>1. s \in Actors /\ AccountsTypeOK
    BY <1>1 DEF AccountsInv, Actors
  <2>2. UpdateRow(s)
    BY <2>1 DEF AccountsTypeOK, AccountsNext, Goes, Begin, Actors, CountUsers, CreateAdmin,
                FindForReset, ChangePassword, SelectForSave, UpdateRow
  <2>3. entity[s] = [hash |-> env[s].password, mustChange |-> TRUE]
    BY <1>1 DEF AccountsInv, Asked
  <2>4. user' = [hash |-> entity[s].hash, mustChange |-> entity[s].mustChange]
    BY <1>1, <2>1, <2>2, SaveIsWhole
  <2> QED BY <2>3, <2>4
<1> QED BY <1>1, AccountsInvAlways, PTL DEF AccountsSpec, ResetTakes

=============================================================================
