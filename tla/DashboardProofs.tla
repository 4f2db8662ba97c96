--------------------------- MODULE DashboardProofs ---------------------------
(***************************************************************************)
(* What the open pages show, in general.  First Dashboard: for any pages,  *)
(* filters, changes and requests, a quiet page shows the present.  Then    *)
(* OAuthFlow: for any number of pages, addresses, clients, providers,      *)
(* flows and secrets, whatever flows come back, in whatever order, a       *)
(* mailbox is what one of them asked for.                                  *)
(***************************************************************************)
EXTENDS Dashboard, OAuthFlow, TLAPS

(* Dashboard: what the list r has still to read.                           *)
Unread(r, k) == \E i \in 1 .. Len(r.left) : k \in r.left[i]

(* The lists asked for and the one shown are numbered up to the newest and *)
(* show nothing that is not committed.                                     *)
Numbered ==
    /\ UsesSocket(page) => issued >= 1
    /\ shown.left = <<>>
    /\ \A r \in requests \cup {shown} :
         r.no <= issued /\ \A k \in Kinds : r.ver[k] <= version[k]

(* The newest list is asked for with the present filter.                   *)
OfThisFilter ==
    UsesSocket(page) => \A r \in requests \cup {shown} : r.no = issued => r.filter = filter

(* Unless some may be lost, the events of the page that followed the       *)
(* newest request have yet to be heard.                                    *)
ToBeHeard ==
    ~gap => \A n \in covered + 1 .. Len(emitted) :
              emitted[n].kind \in Hears(page) => at < n

(* Unless some may be lost, each change that the newest list has missed    *)
(* has yet to be announced, or was after the list was asked for.           *)
ToBeTold ==
    ~gap => \A r \in requests \cup {shown}, k \in Kinds \cap Hears(page) :
              r.no = issued /\ ~Unread(r, k) =>
                \A i \in r.ver[k] + 1 .. version[k] :
                  \/ [kind |-> k, id |-> i] \in pending
                  \/ \E n \in covered + 1 .. Len(emitted) :
                       emitted[n] = [kind |-> k, id |-> i]

(* The hook of the present page, and no other, is counted, and somebody    *)
(* has connected the socket since it was disconnected.                     *)
SocketWanted ==
    /\ users = IF UsesSocket(page) THEN 1 ELSE 0
    /\ socket \in {"connecting", "on"}

DashboardInv ==
    /\ DashboardTypeOK /\ SocketWanted
    /\ Numbered /\ OfThisFilter /\ ToBeHeard /\ ToBeTold

(* A page fetches, on every event that it hears, a list that shows changes *)
(* of that kind.                                                           *)
LEMMA HeardIsListed ==
    ASSUME NEW p, NEW k \in Hears(p)
    PROVE  \E i \in 1 .. Len(Lists(p)) : k \in Lists(p)[i]
<1> USE DEF Hears, Lists, LogsHear, MailboxesHear, ClientsHear, ListEvents,
            ListMailboxes, ListClients
<1>1. CASE p = "logs"
  BY <1>1
<1>2. CASE p = "mailboxes"
  BY <1>2
<1>3. CASE p = "clients"
  <2>1. Len(Lists(p)) = 2 /\ Lists(p)[1] = {"clientAdded"}
        /\ Lists(p)[2] = {"mailboxAdded", "mailboxUpdated"}
    BY <1>3
  <2>2. k \in Lists(p)[1] \/ k \in Lists(p)[2]
    BY <1>3, <2>1
  <2> QED BY <2>1, <2>2
<1>4. CASE p \notin {"logs", "mailboxes", "clients"}
  BY <1>4
<1> QED BY <1>1, <1>2, <1>3, <1>4

(* What is left of a list, table by table.                                 *)
Tables == {ListEvents, ListMailboxes, {"clientAdded"}}
Lefts == {Lists(p) : p \in Pages} \cup {<<>>, <<ListMailboxes>>}

LEMMA LeftsAreSequences ==
    ASSUME NEW l \in Lefts
    PROVE  l \in Seq(Tables) /\ (l # <<>> => Tail(l) \in Lefts)
<1>1. /\ ListEvents \in Tables /\ ListMailboxes \in Tables
      /\ {"clientAdded"} \in Tables
  BY DEF Tables
<1> HIDE DEF ListEvents, ListMailboxes, Tables
<1>2. l \in {<<>>, <<ListEvents>>, <<ListMailboxes>>, <<{"clientAdded"}, ListMailboxes>>}
  BY DEF Lefts, Lists, ListClients
<1>3. CASE l = <<>>
  BY <1>3
<1>4. CASE l \in {<<ListEvents>>, <<ListMailboxes>>}
  <2>1. PICK t \in Tables : l = <<t>>
    BY <1>1, <1>4
  <2>2. l \in Seq(Tables) /\ Len(l) = 1
    BY <2>1
  <2>3. Tail(l) = <<>>
    BY <2>1
  <2> QED BY <2>2, <2>3 DEF Lefts
<1>5. CASE l = <<{"clientAdded"}, ListMailboxes>>
  <2>1. l \in Seq(Tables) /\ Tail(l) = <<ListMailboxes>>
    BY <1>1, <1>5
  <2> QED BY <2>1 DEF Lefts
<1> QED BY <1>2, <1>3, <1>4, <1>5

(* A list that is asked for is the newest, of the present page and filter, *)
(* and has everything still to read.                                       *)
LEMMA AskedForNow ==
    ASSUME DashboardTypeOK, NEW f \in Filters, Ask(page, f, requests)
    PROVE  /\ issued' = issued + 1 /\ issued' \in 1 .. MaxIssued
           /\ \E new \in Requests :
                /\ requests' = requests \cup {new}
                /\ new.no = issued + 1 /\ new.filter = f /\ new.left = Lists(page)
                /\ \A k \in Kinds : new.ver[k] = 0
           /\ covered' = Len(emitted) /\ ~gap' /\ UNCHANGED shown
<1>1. issued + 1 \in 1 .. MaxIssued /\ issued' = issued + 1
  BY DashboardAssumption DEF Ask, DashboardTypeOK
<1> DEFINE new == [no |-> issued + 1, filter |-> f,
                   ver |-> [k \in Kinds |-> 0], left |-> Lists(page)]
<1>2. new \in Requests
  BY <1>1 DEF DashboardTypeOK, Requests, Versions
<1>3. /\ new.no = issued + 1 /\ new.filter = f /\ new.left = Lists(page)
      /\ \A k \in Kinds : new.ver[k] = 0
  OBVIOUS
<1>4. /\ requests' = requests \cup {new}
      /\ covered' = Len(emitted) /\ ~gap' /\ UNCHANGED shown
  BY DEF Ask
<1> HIDE DEF new
<1> QED BY <1>1, <1>2, <1>3, <1>4

(* The list a page opens with, if it has one.                              *)
LEMMA OpenedNow ==
    ASSUME DashboardTypeOK, NEW p \in Pages, Open(p)
    PROVE  /\ page' = p /\ filter' = AnyLog /\ shown' = Nothing
           /\ covered' = Len(emitted) /\ ~gap'
           /\ issued' \in 0 .. MaxIssued /\ (UsesSocket(p) => issued' = 1)
           /\ requests' \subseteq Requests
           /\ \A r \in requests' :
                /\ UsesSocket(p) /\ r.no = 1 /\ r.filter = AnyLog /\ r.left = Lists(p)
                /\ \A k \in Kinds : r.ver[k] = 0
<1>1. 1 \in 1 .. MaxIssued /\ 0 \in 0 .. MaxIssued /\ 1 \in 0 .. MaxIssued
  BY DashboardAssumption
<1> DEFINE new == [no |-> 1, filter |-> AnyLog,
                   ver |-> [k \in Kinds |-> 0], left |-> Lists(p)]
<1>2. new \in Requests
  BY <1>1, DashboardAssumption DEF Requests, Versions
<1>3. /\ new.no = 1 /\ new.filter = AnyLog /\ new.left = Lists(p)
      /\ \A k \in Kinds : new.ver[k] = 0
  OBVIOUS
<1>4. IF UsesSocket(p) THEN issued' = 1 /\ requests' = {new}
                       ELSE issued' = 0 /\ requests' = {}
  BY DEF Open
<1> HIDE DEF new
<1> QED BY <1>1, <1>2, <1>3, <1>4 DEF Open

LEMMA NothingIsThere ==
    /\ Nothing.no = 0 /\ Nothing.left = <<>> /\ Nothing.filter = AnyLog
    /\ \A k \in Kinds : Nothing.ver[k] = 0
BY DEF Nothing

-----------------------------------------------------------------------------
(* Reading a table puts the present version of what it shows into the list *)
(* and leaves that much less to be read.                                   *)
LEMMA ReadNow ==
    ASSUME DashboardTypeOK, NEW r \in requests, Read(r)
    PROVE  \E read \in Requests :
             /\ requests' = (requests \ {r}) \cup {read}
             /\ read.no = r.no /\ read.filter = r.filter
             /\ \A k \in Kinds :
                  \/ read.ver[k] = version[k]
                  \/ read.ver[k] = r.ver[k] /\ (Unread(r, k) => Unread(read, k))
<1> DEFINE kinds == Head(r.left)
           read == [r EXCEPT !.left = Tail(@),
                             !.ver = [k \in Kinds |-> IF k \in kinds
                                                      THEN version[k] ELSE @[k]]]
<1>1. r \in Requests /\ r.left \in Lefts /\ r.left # <<>> /\ version \in Versions
  BY DEF DashboardTypeOK, Requests, Lefts, Read
<1>2. r.left \in Seq(Tables) /\ Tail(r.left) \in Lefts
  BY <1>1, LeftsAreSequences
<1>3. [k \in Kinds |-> IF k \in kinds THEN version[k] ELSE r.ver[k]] \in Versions
  BY <1>1 DEF Requests, Versions
<1>4. /\ read \in Requests
      /\ read.no = r.no /\ read.filter = r.filter /\ read.left = Tail(r.left)
      /\ read.ver = [k \in Kinds |-> IF k \in kinds THEN version[k] ELSE r.ver[k]]
  BY <1>1, <1>2, <1>3 DEF Requests, Lefts
<1>5. requests' = (requests \ {r}) \cup {read}
  BY DEF Read
<1> HIDE DEF read
<1>6. ASSUME NEW k \in Kinds, k \notin kinds, Unread(r, k)
      PROVE  Unread(read, k)
  <2>1. PICK i \in 1 .. Len(r.left) : k \in r.left[i]
    BY <1>6 DEF Unread
  <2>2. i # 1
    BY <1>1, <1>2, <1>6, <2>1
  <2>3. i - 1 \in 1 .. Len(Tail(r.left)) /\ Tail(r.left)[i - 1] = r.left[i]
    BY <1>1, <1>2, <2>1, <2>2
  <2> QED BY <1>4, <2>1, <2>3 DEF Unread
<1> HIDE DEF kinds
<1>7. ASSUME NEW k \in Kinds
      PROVE  \/ read.ver[k] = version[k]
             \/ read.ver[k] = r.ver[k] /\ (Unread(r, k) => Unread(read, k))
  <2>1. CASE k \in kinds
    BY <1>4, <2>1
  <2>2. CASE k \notin kinds
    BY <1>4, <1>6, <2>2
  <2> QED BY <2>1, <2>2
<1> QED BY <1>4, <1>5, <1>7

(* Cleanups before effects, the old page's before the new one's: the new   *)
(* page's hook, or else the provider, connects what the old page's hook    *)
(* disconnected.                                                           *)
LEMMA LinkMoves ==
    ASSUME SocketWanted, NEW p
    PROVE  /\ LET l == ProviderEffect(HookEffect(p, HookCleanup(page, Link)))
              IN /\ l.users = IF UsesSocket(p) THEN 1 ELSE 0
                 /\ l.socket \in {"connecting", "on"}
           /\ LET l == HookEffect(page, HookCleanup(page, Link))
              IN /\ l.users = IF UsesSocket(page) THEN 1 ELSE 0
                 /\ l.socket \in {"connecting", "on"}
           /\ LET l == ProviderEffect(HookEffect(p, [users |-> 0, socket |-> "off"]))
              IN /\ l.users = IF UsesSocket(p) THEN 1 ELSE 0
                 /\ l.socket \in {"connecting", "on"}
<1> HIDE DEF UsesSocket
<1> USE DEF SocketWanted, ProviderEffect, HookEffect, HookCleanup, Connecting, Link
<1>1. CASE UsesSocket(page)
  <2>1. HookCleanup(page, Link) = [users |-> 0, socket |-> "off"]
    BY <1>1
  <2>2. CASE UsesSocket(p)
    BY <1>1, <2>1, <2>2
  <2>3. CASE ~UsesSocket(p)
    BY <1>1, <2>1, <2>3
  <2> QED BY <2>2, <2>3
<1>2. CASE ~UsesSocket(page)
  <2>1. HookCleanup(page, Link) = [users |-> 0, socket |-> socket]
    BY <1>2
  <2>2. CASE UsesSocket(p)
    BY <1>2, <2>1, <2>2
  <2>3. CASE ~UsesSocket(p)
    BY <1>2, <2>1, <2>3
  <2> QED BY <2>2, <2>3
<1> QED BY <1>1, <1>2

LEMMA SocketWantedStep ==
    ASSUME SocketWanted, [DashboardNext]_dashboardVars
    PROVE  SocketWanted'
<1> USE DEF serverVars, socketVars
<1> HIDE DEF UsesSocket
<1>1. CASE UNCHANGED <<page, socketVars>>
  BY <1>1 DEF SocketWanted
<1>2. ASSUME NEW k, Connect(k) PROVE SocketWanted'
  BY <1>2 DEF Connect, SocketWanted
<1>3. CASE Drop \/ Hear
  BY <1>3 DEF Drop, Hear, SocketWanted
<1>4. ASSUME NEW p \in Pages, Navigate(p) PROVE SocketWanted'
  <2>1. page' = p /\ LinkBecomes(ProviderEffect(HookEffect(p, HookCleanup(page, Link))))
    BY <1>4 DEF Navigate, Open
  <2> QED BY <2>1, LinkMoves DEF LinkBecomes, SocketWanted
<1>5. ASSUME NEW f \in Filters, SetFilter(f) PROVE SocketWanted'
  <2>1. page' = page /\ LinkBecomes(HookEffect(page, HookCleanup(page, Link)))
    BY <1>5 DEF SetFilter
  <2> QED BY <2>1, LinkMoves DEF LinkBecomes, SocketWanted
<1>6. CASE Reload
  <2>1. /\ page' = page
        /\ LinkBecomes(ProviderEffect(HookEffect(page, [users |-> 0, socket |-> "off"])))
    BY <1>6 DEF Reload, Open
  <2> QED BY <2>1, LinkMoves DEF LinkBecomes, SocketWanted
<1> QED BY <1>1, <1>2, <1>3, <1>4, <1>5, <1>6
        DEF DashboardNext, dashboardVars, Commit, Emit, Read, Arrive, Fail, Refresh

LEMMA DashboardTypesStep ==
    ASSUME DashboardTypeOK, SocketWanted, [DashboardNext]_dashboardVars
    PROVE  DashboardTypeOK'
<1> USE DashboardAssumption DEF serverVars, socketVars, listVars
<1>15. users' \in {0, 1} /\ socket' \in {"off", "connecting", "on"}
  BY SocketWantedStep DEF SocketWanted
<1>1. ASSUME NEW k \in Kinds, Commit(k) PROVE DashboardTypeOK'
  <2>1. version' \in Versions
    BY <1>1 DEF Commit, DashboardTypeOK, Versions
  <2>2. [kind |-> k, id |-> version'[k]] \in Changes
    BY <2>1 DEF Versions, Changes
  <2> QED BY <1>1, <2>1, <2>2 DEF Commit, DashboardTypeOK
<1>2. ASSUME NEW c \in pending, Emit(c) PROVE DashboardTypeOK'
  <2>1. CASE emitted' = Append(emitted, c) /\ UNCHANGED listVars
    <3>1. emitted' \in Seq(Changes) /\ Len(emitted') = Len(emitted) + 1
          /\ Len(emitted) \in Nat
      BY <2>1 DEF DashboardTypeOK
    <3>2. at' \in 0 .. Len(emitted') /\ covered' \in 0 .. Len(emitted')
      BY <1>2, <2>1, <3>1 DEF Emit, DashboardTypeOK
    <3> QED BY <1>2, <2>1, <3>1, <3>2 DEF Emit, DashboardTypeOK
  <2>2. CASE gap' = TRUE /\ UNCHANGED <<emitted, requests, issued, shown, covered>>
    BY <1>2, <2>2 DEF Emit, DashboardTypeOK
  <2> QED BY <1>2, <2>1, <2>2 DEF Emit
<1>3. ASSUME NEW r \in requests, Read(r) PROVE DashboardTypeOK'
  <2>1. requests' \subseteq Requests
    BY <1>3, ReadNow DEF DashboardTypeOK
  <2> QED BY <1>3, <2>1 DEF Read, DashboardTypeOK
<1>4. ASSUME NEW r \in requests, Arrive(r) \/ Fail(r) PROVE DashboardTypeOK'
  BY <1>4 DEF Arrive, Fail, DashboardTypeOK
<1>5. ASSUME NEW k \in 0 .. Len(emitted), Connect(k) PROVE DashboardTypeOK'
  BY <1>5 DEF Connect, DashboardTypeOK
<1>6. CASE Drop
  BY <1>6 DEF Drop, DashboardTypeOK
<1>7. ASSUME NEW f \in Filters, Ask(page, f, requests), filter' = f, UNCHANGED page,
             UNCHANGED serverVars, at' \in 0 .. Len(emitted)
      PROVE  DashboardTypeOK'
  <2>1. requests' \subseteq Requests
    BY <1>7, AskedForNow DEF DashboardTypeOK
  <2>3. issued' \in 0 .. MaxIssued
    BY <1>7, AskedForNow
  <2>2. covered' \in 0 .. Len(emitted') /\ gap' \in BOOLEAN /\ UNCHANGED shown
    <3>1. covered' = Len(emitted) /\ ~gap' /\ UNCHANGED shown
      BY <1>7, AskedForNow
    <3>2. gap' = FALSE /\ Len(emitted) \in Nat /\ UNCHANGED emitted
      BY <1>7 DEF Ask, DashboardTypeOK
    <3>3. Len(emitted) \in 0 .. Len(emitted)
      BY <3>2
    <3> QED BY <3>1, <3>2, <3>3
  <2> QED BY <1>7, <1>15, <2>1, <2>2, <2>3 DEF DashboardTypeOK
<1>8. CASE Hear
  <2>1. at' \in 0 .. Len(emitted)
    BY <1>8 DEF Hear, DashboardTypeOK
  <2>2. CASE Ask(page, filter, requests)
    BY <1>7, <1>8, <2>1, <2>2 DEF Hear, DashboardTypeOK
  <2>3. CASE UNCHANGED listVars
    BY <1>8, <2>1, <2>3 DEF Hear, DashboardTypeOK
  <2> QED BY <1>8, <2>2, <2>3 DEF Hear
<1>9. CASE Refresh
  BY <1>7, <1>9 DEF Refresh, RefreshMailbox, AddClient, RefreshLogs, DashboardTypeOK
<1>10. ASSUME NEW f \in Filters, SetFilter(f) PROVE DashboardTypeOK'
  BY <1>7, <1>10 DEF SetFilter, DashboardTypeOK
<1>11. ASSUME NEW p \in Pages, Open(p), UNCHANGED <<serverVars, at>>
       PROVE  DashboardTypeOK'
  <2>1. /\ page' = p /\ filter' \in Filters /\ shown' = Nothing
        /\ issued' \in 0 .. MaxIssued /\ requests' \subseteq Requests
    BY <1>11, OpenedNow
  <2>2. covered' \in 0 .. Len(emitted') /\ gap' = FALSE
    BY <1>11 DEF Open, DashboardTypeOK
  <2> QED BY <1>11, <1>15, <2>1, <2>2 DEF DashboardTypeOK
<1>12. ASSUME NEW p \in Pages, Navigate(p) PROVE DashboardTypeOK'
  BY <1>11, <1>12 DEF Navigate
<1>13. CASE Reload
  BY <1>11, <1>13 DEF Reload, DashboardTypeOK
<1>14. CASE UNCHANGED dashboardVars
  BY <1>14 DEF dashboardVars, DashboardTypeOK
<1> QED BY <1>1, <1>2, <1>3, <1>4, <1>5, <1>6, <1>8, <1>9, <1>10, <1>12, <1>13, <1>14
        DEF DashboardNext

-----------------------------------------------------------------------------
ListsInv == Numbered /\ OfThisFilter /\ ToBeHeard /\ ToBeTold

(* When a list is asked for, no event has followed it yet.                 *)
LEMMA AskKeeps ==
    ASSUME DashboardTypeOK, Numbered, NEW f \in Filters, Ask(page, f, requests),
           filter' = f, UNCHANGED page, UNCHANGED serverVars
    PROVE  ListsInv'
<1> USE DEF serverVars
<1>1. PICK new \in Requests :
        /\ requests' = requests \cup {new}
        /\ new.no = issued + 1 /\ new.filter = f /\ new.left = Lists(page)
        /\ \A k \in Kinds : new.ver[k] = 0
  BY AskedForNow
<1>2. /\ issued' = issued + 1 /\ issued \in Nat /\ covered' = Len(emitted) /\ ~gap'
      /\ UNCHANGED shown /\ Len(emitted) \in Nat /\ UNCHANGED <<version, pending, emitted>>
  BY AskedForNow DEF DashboardTypeOK
<1>3. \A r \in requests \cup {shown} :
        r.no \in Nat /\ r.no <= issued /\ \A k \in Kinds : r.ver[k] <= version[k]
  BY NothingIsThere DEF Numbered, DashboardTypeOK, Requests
<1>4. \A r \in requests' \cup {shown'} : r.no = issued' => r = new
  BY <1>1, <1>2, <1>3
<1>5. \A k \in Kinds : version[k] \in Nat
  BY DEF DashboardTypeOK, Versions
<1>6. Numbered'
  BY <1>1, <1>2, <1>3, <1>5 DEF Numbered
<1>7. OfThisFilter'
  BY <1>1, <1>4 DEF OfThisFilter
<1>8. ToBeHeard'
  BY <1>2 DEF ToBeHeard
<1>9. \A k \in Hears(page) : Unread(new, k)
  BY <1>1, HeardIsListed DEF Unread
<1>10. ToBeTold'
  BY <1>4, <1>9 DEF ToBeTold
<1> QED BY <1>6, <1>7, <1>8, <1>10 DEF ListsInv

LEMMA OpenKeeps ==
    ASSUME DashboardTypeOK, NEW p \in Pages, Open(p), UNCHANGED serverVars
    PROVE  ListsInv'
<1> USE DEF serverVars
<1>1. /\ page' = p /\ filter' = AnyLog /\ shown' = Nothing
      /\ covered' = Len(emitted) /\ ~gap'
      /\ issued' \in Nat /\ (UsesSocket(p) => issued' = 1)
      /\ \A r \in requests' :
           /\ UsesSocket(p) /\ r.no = 1 /\ r.filter = AnyLog /\ r.left = Lists(p)
           /\ \A k \in Kinds : r.ver[k] = 0
  BY OpenedNow
<1>2. Len(emitted) \in Nat /\ UNCHANGED <<version, pending, emitted>>
      /\ \A k \in Kinds : version[k] \in Nat
  BY DEF DashboardTypeOK, Versions
<1>3. Numbered'
  BY <1>1, <1>2, NothingIsThere DEF Numbered
<1>4. OfThisFilter'
  BY <1>1, NothingIsThere DEF OfThisFilter
<1>5. ToBeHeard'
  BY <1>1, <1>2 DEF ToBeHeard
<1>6. \A r \in requests', k \in Hears(p) : Unread(r, k)
  BY <1>1, HeardIsListed DEF Unread
<1>7. \A k \in Hears(p) : issued' = 1
  BY <1>1 DEF UsesSocket
<1>8. ToBeTold'
  BY <1>1, <1>6, <1>7, NothingIsThere DEF ToBeTold
<1> QED BY <1>3, <1>4, <1>5, <1>8 DEF ListsInv

(* A change is announced from when it is committed.                        *)
LEMMA CommitKeeps ==
    ASSUME DashboardTypeOK, ListsInv, NEW k \in Kinds, Commit(k)
    PROVE  ListsInv'
<1> USE DEF ListsInv, socketVars, listVars
<1>1. /\ version' = [version EXCEPT ![k] = @ + 1] /\ version \in [Kinds -> Nat]
      /\ pending' = pending \cup {[kind |-> k, id |-> version[k] + 1]}
      /\ UNCHANGED <<emitted, at, page, filter, requests, issued, shown, covered, gap>>
  BY DEF Commit, DashboardTypeOK, Versions
<1>2. \A r \in requests \cup {shown}, l \in Kinds : r.ver[l] \in Nat
  BY NothingIsThere DEF DashboardTypeOK, Requests, Versions
<1>3. \A l \in Kinds : version'[l] = IF l = k THEN version[k] + 1 ELSE version[l]
  BY <1>1
<1>4. Numbered'
  BY <1>1, <1>2, <1>3 DEF Numbered
<1>5. OfThisFilter' /\ ToBeHeard'
  BY <1>1 DEF OfThisFilter, ToBeHeard
<1>6. ToBeTold'
  <2> SUFFICES ASSUME ~gap, NEW r \in requests \cup {shown},
                      NEW l \in Kinds \cap Hears(page), r.no = issued, ~Unread(r, l),
                      NEW i \in r.ver[l] + 1 .. version'[l]
               PROVE  \/ [kind |-> l, id |-> i] \in pending'
                      \/ \E n \in covered + 1 .. Len(emitted) :
                           emitted[n] = [kind |-> l, id |-> i]
    BY <1>1 DEF ToBeTold, Unread
  <2>1. CASE i <= version[l]
    <3>1. i \in r.ver[l] + 1 .. version[l]
      BY <1>1, <1>2, <2>1
    <3> QED BY <1>1, <3>1 DEF ToBeTold
  <2>2. CASE ~(i <= version[l])
    <3>1. l = k /\ i = version[k] + 1
      BY <1>1, <1>2, <1>3, <2>2
    <3> QED BY <1>1, <3>1
  <2> QED BY <2>1, <2>2
<1> QED BY <1>4, <1>5, <1>6

(* What is announced follows the newest request, and has not been heard.   *)
LEMMA EmitKeeps ==
    ASSUME DashboardTypeOK, ListsInv, NEW c \in pending, Emit(c)
    PROVE  ListsInv'
<1> USE DEF ListsInv, socketVars, listVars
<1>1. /\ pending' = pending \ {c} /\ UNCHANGED <<version, at, page, filter>>
      /\ UNCHANGED <<requests, issued, shown, covered>>
  BY DEF Emit
<1>2. Numbered' /\ OfThisFilter'
  BY <1>1 DEF Numbered, OfThisFilter
<1>3. CASE gap'
  BY <1>2, <1>3 DEF ToBeHeard, ToBeTold
<1>4. CASE ~gap'
  <2>1. emitted' = Append(emitted, c) /\ UNCHANGED gap /\ emitted \in Seq(Changes)
        /\ c \in Changes /\ at \in 0 .. Len(emitted) /\ covered \in 0 .. Len(emitted)
    BY <1>4 DEF Emit, DashboardTypeOK
  <2>2. /\ Len(emitted') = Len(emitted) + 1 /\ emitted'[Len(emitted) + 1] = c
        /\ Len(emitted) \in Nat
        /\ \A n \in 1 .. Len(emitted) : emitted'[n] = emitted[n]
    BY <2>1
  <2>3. ToBeHeard'
    BY <1>1, <1>4, <2>1, <2>2 DEF ToBeHeard
  <2>4. ToBeTold'
    <3> SUFFICES ASSUME NEW r \in requests \cup {shown}, NEW k \in Kinds \cap Hears(page),
                        r.no = issued, ~Unread(r, k),
                        NEW i \in r.ver[k] + 1 .. version[k]
                 PROVE  \/ [kind |-> k, id |-> i] \in pending'
                        \/ \E n \in covered + 1 .. Len(emitted') :
                             emitted'[n] = [kind |-> k, id |-> i]
      BY <1>1 DEF ToBeTold, Unread
    <3> DEFINE d == [kind |-> k, id |-> i]
    <3>1. d \in pending \/ \E n \in covered + 1 .. Len(emitted) : emitted[n] = d
      BY <1>4, <2>1 DEF ToBeTold
    <3> HIDE DEF d
    <3>2. CASE d = c
      <4>1. Len(emitted') \in covered + 1 .. Len(emitted') /\ emitted'[Len(emitted')] = d
        BY <2>1, <2>2, <3>2
      <4> QED BY <4>1 DEF d
    <3>3. CASE d \in pending /\ d # c
      BY <1>1, <3>3 DEF d
    <3>4. CASE \E n \in covered + 1 .. Len(emitted) : emitted[n] = d
      <4>1. PICK n \in covered + 1 .. Len(emitted) : emitted[n] = d
        BY <3>4
      <4>2. n \in covered + 1 .. Len(emitted') /\ emitted'[n] = d
        BY <2>1, <2>2, <4>1
      <4> QED BY <4>2 DEF d
    <3> QED BY <3>1, <3>2, <3>3, <3>4
  <2> QED BY <1>2, <2>3, <2>4
<1> QED BY <1>3, <1>4

LEMMA ReadKeeps ==
    ASSUME DashboardTypeOK, ListsInv, NEW r \in requests, Read(r)
    PROVE  ListsInv'
<1> USE DEF ListsInv, serverVars, socketVars
<1>1. PICK read \in Requests :
        /\ requests' = (requests \ {r}) \cup {read}
        /\ read.no = r.no /\ read.filter = r.filter
        /\ \A k \in Kinds :
             \/ read.ver[k] = version[k]
             \/ read.ver[k] = r.ver[k] /\ (Unread(r, k) => Unread(read, k))
  BY ReadNow
<1>2. /\ UNCHANGED <<version, pending, emitted, at, page, filter>>
      /\ UNCHANGED <<issued, shown, covered, gap>>
  BY DEF Read
<1>3. \A k \in Kinds : version[k] \in Nat
  BY DEF DashboardTypeOK, Versions
<1>4. Numbered'
  BY <1>1, <1>2, <1>3 DEF Numbered
<1>5. OfThisFilter'
  BY <1>1, <1>2 DEF OfThisFilter
<1>6. ToBeHeard'
  BY <1>2 DEF ToBeHeard
<1>7. ToBeTold'
  <2> SUFFICES ASSUME ~gap, NEW q \in (requests \ {r}) \cup {read, shown},
                      NEW k \in Kinds \cap Hears(page), q.no = issued, ~Unread(q, k),
                      NEW i \in q.ver[k] + 1 .. version[k]
               PROVE  \/ [kind |-> k, id |-> i] \in pending
                      \/ \E n \in covered + 1 .. Len(emitted) :
                           emitted[n] = [kind |-> k, id |-> i]
    BY <1>1, <1>2 DEF ToBeTold, Unread
  <2>1. CASE q = read
    <3>1. read.ver[k] # version[k]
      BY <1>3, <2>1
    <3>2. read.ver[k] = r.ver[k] /\ ~Unread(r, k)
      BY <1>1, <2>1, <3>1
    <3> QED BY <1>1, <2>1, <3>2 DEF ToBeTold
  <2>2. CASE q \in requests \cup {shown}
    BY <2>2 DEF ToBeTold
  <2> QED BY <2>1, <2>2
<1> QED BY <1>4, <1>5, <1>6, <1>7

(* Nothing else happens to the lists.                                      *)
LEMMA OthersKeep ==
    ASSUME DashboardTypeOK, ListsInv,
           \/ \E r \in requests : Arrive(r) \/ Fail(r)
           \/ \E k \in 0 .. Len(emitted) : Connect(k)
           \/ Drop
           \/ Hear /\ emitted[at + 1].kind \notin Hears(page)
           \/ UNCHANGED dashboardVars
    PROVE  ListsInv'
<1> USE DEF ListsInv, serverVars, socketVars, listVars
<1>1. ASSUME NEW r \in requests, Arrive(r) \/ Fail(r) PROVE ListsInv'
  <2>1. /\ UNCHANGED <<version, pending, emitted, at, page, filter, issued, covered, gap>>
        /\ requests' \cup {shown'} \subseteq requests \cup {shown}
        /\ shown'.left = <<>>
    BY <1>1 DEF Arrive, Fail, Numbered
  <2>2. Numbered' /\ OfThisFilter' /\ ToBeHeard'
    BY <2>1 DEF Numbered, OfThisFilter, ToBeHeard
  <2>3. ToBeTold'
    BY <2>1 DEF ToBeTold, Unread
  <2> QED BY <2>2, <2>3
<1>2. ASSUME UNCHANGED <<version, pending, emitted, page, filter, requests, issued, shown,
                         covered>>, gap => gap',
             ToBeHeard'
      PROVE  ListsInv'
  <2>1. Numbered' /\ OfThisFilter'
    BY <1>2 DEF Numbered, OfThisFilter
  <2>2. ToBeTold'
    BY <1>2 DEF ToBeTold, Unread
  <2> QED BY <1>2, <2>1, <2>2
<1>3. ASSUME NEW k \in 0 .. Len(emitted), Connect(k) PROVE ListsInv'
  <2>1. ToBeHeard'
    <3> SUFFICES ASSUME ~gap', NEW n \in covered + 1 .. Len(emitted),
                        emitted[n].kind \in Hears(page)
                 PROVE  k < n
      BY <1>3 DEF Connect, ToBeHeard
    <3>1. ~gap /\ ~(k > at /\ k > covered)
      BY <1>3 DEF Connect
    <3>2. at < n /\ covered < n /\ at \in Nat /\ covered \in Nat
      BY <3>1 DEF ToBeHeard, DashboardTypeOK
    <3> QED BY <3>1, <3>2
  <2> QED BY <1>2, <1>3, <2>1 DEF Connect
<1>4. ASSUME Drop \/ UNCHANGED dashboardVars PROVE ListsInv'
  <2>1. ToBeHeard'
    BY <1>4 DEF Drop, dashboardVars, ToBeHeard
  <2> QED BY <1>2, <1>4, <2>1 DEF Drop, dashboardVars
<1>5. ASSUME Hear, emitted[at + 1].kind \notin Hears(page) PROVE ListsInv'
  <2>1. UNCHANGED <<serverVars, socket, users, page, filter, listVars>> /\ at' = at + 1
    BY <1>5 DEF Hear
  <2>2. ToBeHeard'
    BY <1>5, <2>1 DEF ToBeHeard, DashboardTypeOK
  <2> QED BY <1>2, <2>1, <2>2
<1> QED BY <1>1, <1>3, <1>4, <1>5

LEMMA ListsStep ==
    ASSUME DashboardTypeOK, ListsInv, [DashboardNext]_dashboardVars
    PROVE  ListsInv'
<1>1. ASSUME NEW k \in Kinds, Commit(k) PROVE ListsInv'
  BY <1>1, CommitKeeps
<1>2. ASSUME NEW c \in pending, Emit(c) PROVE ListsInv'
  BY <1>2, EmitKeeps
<1>3. ASSUME NEW r \in requests, Read(r) PROVE ListsInv'
  BY <1>3, ReadKeeps
<1>4. CASE Hear
  <2>1. CASE emitted[at + 1].kind \in Hears(page)
    BY <1>4, <2>1, AskKeeps DEF Hear, ListsInv, DashboardTypeOK
  <2>2. CASE emitted[at + 1].kind \notin Hears(page)
    BY <1>4, <2>2, OthersKeep
  <2> QED BY <2>1, <2>2
<1>5. CASE Refresh
  <2>1. Ask(page, filter, requests) /\ UNCHANGED <<serverVars, page, filter>>
    BY <1>5 DEF Refresh, RefreshMailbox, AddClient, RefreshLogs
  <2> QED BY <2>1, AskKeeps DEF ListsInv, DashboardTypeOK
<1>6. ASSUME NEW f \in Filters, SetFilter(f) PROVE ListsInv'
  BY <1>6, AskKeeps DEF SetFilter, ListsInv
<1>7. ASSUME NEW p \in Pages, Navigate(p) PROVE ListsInv'
  BY <1>7, OpenKeeps DEF Navigate
<1>8. CASE Reload
  BY <1>8, OpenKeeps DEF Reload, DashboardTypeOK
<1> QED BY <1>1, <1>2, <1>3, <1>4, <1>5, <1>6, <1>7, <1>8, OthersKeep DEF DashboardNext

LEMMA DashboardInvAlways == DashboardSpec => []DashboardInv
<1>1. DashboardInit => DashboardTypeOK /\ SocketWanted /\ ListsInv
  <2> SUFFICES ASSUME DashboardInit PROVE DashboardTypeOK /\ SocketWanted /\ ListsInv
    OBVIOUS
  <2> USE DashboardAssumption, NothingIsThere DEF DashboardInit
  <2>1. [k \in Kinds |-> 0] \in Versions
    BY DEF Versions
  <2>2. page \in Pages
    OBVIOUS
  <2>6. /\ emitted \in Seq(Changes) /\ 0 \in 0 .. MaxIssued
        /\ at \in 0 .. Len(emitted) /\ covered \in 0 .. Len(emitted)
    OBVIOUS
  <2>3. DashboardTypeOK
    <3>1. shown \in Requests \cup {Nothing} /\ gap \in BOOLEAN /\ filter \in Filters
      OBVIOUS
    <3> QED BY <2>1, <2>2, <2>6, <3>1 DEF DashboardTypeOK
  <2>4. ~UsesSocket(page) /\ Hears(page) = {}
    BY DEF UsesSocket, Hears
  <2>5. ListsInv
    BY <2>4 DEF ListsInv, Numbered, OfThisFilter, ToBeHeard, ToBeTold
  <2> QED BY <2>3, <2>4, <2>5 DEF SocketWanted
<1>3. DashboardTypeOK /\ ListsInv /\ SocketWanted <=> DashboardInv
  BY DEF DashboardInv, ListsInv
<1> QED BY <1>1, <1>3, SocketWantedStep, DashboardTypesStep, ListsStep, PTL DEF DashboardSpec

(* A page with nothing under way shows the present through its present     *)
(* filter, unless its newest list failed or was overtaken or an event was  *)
(* lost: for any pages, kinds, filters and numbers of changes and requests.*)
THEOREM QuietPagesAreCurrent == DashboardSpec => []QuietIsCurrent
<1>1. DashboardInv => QuietIsCurrent
  <2> SUFFICES ASSUME DashboardInv, Quiet, Undisturbed, UsesSocket(page)
               PROVE  /\ shown.filter = filter
                      /\ \A k \in Kinds \cap Hears(page) : shown.ver[k] = version[k]
    BY DEF QuietIsCurrent
  <2>1. shown.no = issued /\ ~gap /\ shown.left = <<>> /\ pending = {} /\ at = Len(emitted)
    BY DEF Undisturbed, Quiet, DashboardInv, SocketWanted, Numbered
  <2>2. shown.filter = filter
    BY <2>1 DEF DashboardInv, OfThisFilter
  <2>3. ASSUME NEW k \in Kinds \cap Hears(page) PROVE shown.ver[k] = version[k]
    <3>1. shown.ver[k] \in Nat /\ version[k] \in Nat /\ shown.ver[k] <= version[k]
      BY NothingIsThere DEF DashboardInv, DashboardTypeOK, Numbered, Requests, Versions
    <3>2. ~Unread(shown, k)
      BY <2>1 DEF Unread
    <3>3. ASSUME version[k] \in shown.ver[k] + 1 .. version[k] PROVE FALSE
      <4>1. PICK n \in covered + 1 .. Len(emitted) :
              emitted[n] = [kind |-> k, id |-> version[k]]
        BY <2>1, <3>2, <3>3 DEF DashboardInv, ToBeTold
      <4>2. emitted[n].kind \in Hears(page)
        BY <4>1
      <4>3. at < n
        BY <2>1, <4>2 DEF DashboardInv, ToBeHeard
      <4> QED BY <2>1, <4>3 DEF DashboardInv, DashboardTypeOK
    <3> QED BY <3>1, <3>3
  <2> QED BY <2>2, <2>3
<1> QED BY <1>1, DashboardInvAlways, PTL

-----------------------------------------------------------------------------
(* A code stands for the account that consented. *)
CodesHaveAccounts ==
    \A f \in DOMAIN flows :
        flows[f].at \in {"code", "exchanged", "used", "lost"}
            => flows[f].account \in Accounts

FlowInv == TypeOK /\ CodesHaveAccounts /\ LinkedAsAsked /\ ConnectedIsLinked

(* A callback changes how far its own flow got and what it was answered,   *)
(* and nothing of what any flow asked for.                                 *)
LEMMA BecomesMoves ==
    ASSUME TypeOK, NEW f \in DOMAIN flows,
           NEW stage \in {"away", "denied", "code", "exchanged", "used", "lost"},
           NEW answer \in {"none", "connected", "error"}, Becomes(f, stage, answer)
    PROVE  /\ flows' \in Seq(Flow) /\ DOMAIN flows' = DOMAIN flows
           /\ \A g \in DOMAIN flows :
                /\ flows'[g].state = flows[g].state
                /\ flows'[g].provider = flows[g].provider
                /\ flows'[g].account = flows[g].account
           /\ \A g \in DOMAIN flows \ {f} : flows'[g] = flows[g]
           /\ flows'[f].at = stage /\ flows'[f].answer = answer
<1>1. flows \in Seq(Flow) /\ flows[f] \in Flow
  BY DEF TypeOK
<1>2. [flows[f] EXCEPT !.at = stage, !.answer = answer] \in Flow
  BY <1>1 DEF Flow
<1>3. flows' = [flows EXCEPT ![f] = [flows[f] EXCEPT !.at = stage, !.answer = answer]]
  BY <1>1 DEF Becomes, Flow
<1>4. flows' \in Seq(Flow) /\ DOMAIN flows' = DOMAIN flows
  BY <1>1, <1>2, <1>3
<1> QED BY <1>1, <1>3, <1>4 DEF Flow

(* As long as no flow comes back, the mailboxes stay what was asked for.   *)
LEMMA WaitingKeepsInv ==
    ASSUME FlowInv, NEW f \in DOMAIN flows,
           NEW stage \in {"denied", "code", "exchanged", "used", "lost"},
           NEW answer \in {"none", "connected", "error"}, Becomes(f, stage, answer),
           flows[f].at \in {"used", "lost"} => stage = flows[f].at,
           stage \in {"exchanged", "used", "lost"} =>
               flows[f].at \in {"code", "exchanged", "used", "lost"},
           stage = "code" => flows[f].at = "code",
           answer = "connected" => flows[f].answer = "connected",
           UNCHANGED <<listed, rows, bound, secret>>
    PROVE  FlowInv'
<1> USE DEF FlowInv
<1>1. TypeOK'
  BY BecomesMoves DEF TypeOK
<1>2. CodesHaveAccounts'
  BY BecomesMoves DEF CodesHaveAccounts
<1>3. LinkedAsAsked'
  BY BecomesMoves DEF LinkedAsAsked
<1>4. ConnectedIsLinked'
  BY BecomesMoves DEF ConnectedIsLinked
<1> QED BY <1>1, <1>2, <1>3, <1>4

(* A flow that comes back leaves at most the mailbox it asked for.         *)
LEMMA SavingKeepsInv ==
    ASSUME FlowInv, NEW f \in DOMAIN flows, flows[f].at = "exchanged",
           NEW stage \in {"used", "lost"},
           NEW answer \in {"none", "connected", "error"}, Becomes(f, stage, answer),
           SavePart(Decoded(f)),
           answer = "connected" =>
               SaveTokens(Decoded(f)) \/ flows[f].answer = "connected",
           UNCHANGED <<listed, secret>>
    PROVE  FlowInv'
<1> USE DEF FlowInv
<1>1. Decoded(f) \in Mailbox
  <2>1. flows[f] \in Flow
    BY DEF TypeOK
  <2>2. flows[f].account \in Accounts
    BY DEF CodesHaveAccounts
  <2> QED BY <2>1, <2>2 DEF Decoded, Mailbox, Flow, State
<1>2. /\ rows' \subseteq rows \cup {Decoded(f)}
      /\ bound' \in [Clients -> Providers \cup {"none"}]
      /\ \A r \in rows : \E s \in rows' :
           s.email = r.email /\ s.client = r.client /\ s.provider = r.provider
      /\ SaveTokens(Decoded(f)) => Decoded(f) \in rows'
  <2>1. CASE UNCHANGED <<rows, bound>>
    BY <2>1 DEF TypeOK, SaveTokens
  <2>2. CASE BindClient(Decoded(f)) /\ UNCHANGED rows
    BY <1>1, <2>2 DEF TypeOK, SaveTokens, BindClient, Mailbox
  <2>3. CASE SaveTokens(Decoded(f))
    BY <1>1, <2>3 DEF TypeOK, SaveTokens, BindClient, Mailbox
  <2> QED BY <2>1, <2>2, <2>3 DEF SavePart
<1>3. TypeOK'
  BY <1>1, <1>2, BecomesMoves DEF TypeOK
<1>4. CodesHaveAccounts'
  BY BecomesMoves DEF CodesHaveAccounts
<1>5. LinkedAsAsked'
  BY <1>2, BecomesMoves DEF LinkedAsAsked, Decoded
<1>6. ConnectedIsLinked'
  BY <1>2, BecomesMoves DEF ConnectedIsLinked, Decoded
<1> QED BY <1>3, <1>4, <1>5, <1>6

(* Flows start, wait, come back and are lost. *)
LEMMA FlowInvStep ==
    ASSUME FlowInv, [Next]_vars
    PROVE  FlowInv'
<1> USE OAuthAssumption
<1>1. ASSUME NEW d \in Dashboards, FetchMailboxes(d) PROVE FlowInv'
  BY <1>1 DEF FetchMailboxes, FlowInv, TypeOK, CodesHaveAccounts,
              LinkedAsAsked, ConnectedIsLinked, Mailbox
<1>2. ASSUME NEW d \in Dashboards, NEW e \in Emails, NEW c \in Clients,
             NEW p \in Providers, HandleConnect(d, e, c, p)
      PROVE  FlowInv'
  <2> DEFINE new == [state |-> RedirectState(e, c), provider |-> p,
                     at |-> "away", account |-> "none", answer |-> "none"]
  <2>1. flows' = Append(flows, new) /\ new \in Flow /\ flows \in Seq(Flow)
    BY <1>2 DEF HandleConnect, FlowInv, TypeOK, Flow, State, RedirectState
  <2>2. /\ flows' \in Seq(Flow) /\ DOMAIN flows' = DOMAIN flows \cup {Len(flows) + 1}
        /\ \A g \in DOMAIN flows : flows'[g] = flows[g]
        /\ flows'[Len(flows) + 1] = new
    BY <2>1
  <2>3. UNCHANGED <<listed, rows, bound, secret>>
    BY <1>2 DEF HandleConnect
  <2>4. TypeOK' /\ CodesHaveAccounts'
    BY <2>2, <2>3 DEF FlowInv, TypeOK, CodesHaveAccounts
  <2>5. LinkedAsAsked' /\ ConnectedIsLinked'
    BY <2>2, <2>3 DEF FlowInv, LinkedAsAsked, ConnectedIsLinked
  <2> QED BY <2>4, <2>5 DEF FlowInv
<1>3. ASSUME NEW f \in DOMAIN flows, NEW a \in Accounts, Consent(f, a)
      PROVE  FlowInv'
  <2> USE DEF FlowInv
  <2>1. flows \in Seq(Flow) /\ flows[f] \in Flow
    BY DEF TypeOK
  <2>2. /\ flows' = [flows EXCEPT ![f] =
                       [flows[f] EXCEPT !.at = "code", !.account = a]]
        /\ flows[f].at = "away"
        /\ UNCHANGED <<listed, rows, bound, secret>>
    BY <1>3, <2>1 DEF Consent, Flow
  <2>3. [flows[f] EXCEPT !.at = "code", !.account = a] \in Flow
    BY <2>1 DEF Flow
  <2>4. /\ flows' \in Seq(Flow) /\ DOMAIN flows' = DOMAIN flows
        /\ \A g \in DOMAIN flows \ {f} : flows'[g] = flows[g]
        /\ flows'[f] = [flows[f] EXCEPT !.at = "code", !.account = a]
    BY <2>1, <2>2, <2>3
  <2>5. /\ flows' \in Seq(Flow) /\ DOMAIN flows' = DOMAIN flows
        /\ \A g \in DOMAIN flows \ {f} : flows'[g] = flows[g]
        /\ flows'[f].at = "code" /\ flows'[f].account = a
        /\ flows'[f].state = flows[f].state /\ flows'[f].answer = flows[f].answer
        /\ flows'[f].provider = flows[f].provider
    BY <2>1, <2>4 DEF Flow
  <2>6. TypeOK' /\ CodesHaveAccounts'
    BY <2>2, <2>5 DEF TypeOK, CodesHaveAccounts
  <2>7. LinkedAsAsked'
    BY <2>2, <2>5 DEF LinkedAsAsked
  <2>8. ConnectedIsLinked'
    BY <2>2, <2>5 DEF ConnectedIsLinked
  <2> QED BY <2>6, <2>7, <2>8
<1>4. ASSUME NEW f \in DOMAIN flows, Deny(f) \/ CallbackFails(f) \/ Exchange(f)
      PROVE  FlowInv'
  <2>1. flows[f] \in Flow
    BY DEF FlowInv, TypeOK
  <2>2. flows[f].answer \in {"none", "connected", "error"}
    BY <2>1 DEF Flow
  <2>3. CASE Deny(f)
    BY <2>3, WaitingKeepsInv DEF Deny
  <2>4. CASE CallbackFails(f)
    BY <2>4, WaitingKeepsInv DEF CallbackFails
  <2>5. CASE Exchange(f)
    BY <2>2, <2>5, WaitingKeepsInv DEF Exchange
  <2> QED BY <1>4, <2>3, <2>4, <2>5
<1>5. ASSUME NEW f \in DOMAIN flows, Save(f) \/ Crash(f) PROVE FlowInv'
  <2>1. flows[f] \in Flow
    BY DEF FlowInv, TypeOK
  <2>2. flows[f].answer \in {"none", "connected", "error"}
    BY <2>1 DEF Flow
  <2>3. CASE Save(f)
    BY <2>3, SavingKeepsInv DEF Save, SavePart
  <2>4. CASE Crash(f)
    BY <2>2, <2>4, SavingKeepsInv DEF Crash
  <2> QED BY <1>5, <2>3, <2>4
<1>6. ASSUME Rotate PROVE FlowInv'
  BY <1>6 DEF Rotate, FlowInv, TypeOK, CodesHaveAccounts, LinkedAsAsked,
              ConnectedIsLinked
<1>7. ASSUME UNCHANGED vars PROVE FlowInv'
  BY <1>7 DEF vars, FlowInv, TypeOK, CodesHaveAccounts, LinkedAsAsked,
              ConnectedIsLinked
<1> QED BY <1>1, <1>2, <1>3, <1>4, <1>5, <1>6, <1>7 DEF Next

(* The invariant holds throughout every execution. *)
THEOREM FlowInvariance == Spec => []FlowInv
<1>1. Init => FlowInv
  BY OAuthAssumption DEF Init, FlowInv, TypeOK, CodesHaveAccounts,
                         LinkedAsAsked, ConnectedIsLinked
<1> QED BY <1>1, FlowInvStep, PTL DEF Spec

(* The variables keep their types. *)
THEOREM TypeCorrectness == Spec => []TypeOK
<1>1. FlowInv => TypeOK
  BY DEF FlowInv
<1> QED BY <1>1, FlowInvariance, PTL

(* Each mailbox has the address, client, provider and account of one flow. *)
THEOREM MailboxesAreLinkedAsAsked == Spec => []LinkedAsAsked
<1>1. FlowInv => LinkedAsAsked
  BY DEF FlowInv
<1> QED BY <1>1, FlowInvariance, PTL

(* A browser that is told "connected" finds its mailbox. *)
THEOREM ConnectedMailboxesExist == Spec => []ConnectedIsLinked
<1>1. FlowInv => ConnectedIsLinked
  BY DEF FlowInv
<1> QED BY <1>1, FlowInvariance, PTL

=============================================================================
