---------------------------- MODULE ConsoleProofs ----------------------------
(***************************************************************************)
(* Console for all files, drafts, mailboxes, clients and lives of tokens,  *)
(* and without a bound on how often a button is pressed: no draft vanishes *)
(* from the compose page or goes out twice by itself, no file is left      *)
(* behind unnoticed, and what a page calls expired is refused.             *)
(***************************************************************************)
EXTENDS Console, TLAPS, FiniteSetTheorems

(* What goes on around one page is no step of another's: each page behaves *)
(* as it would alone.                                                      *)
THEOREM PagesAreTheirOwn ==
    Spec => LogsSpec /\ ClientsSpec /\ ComposeSpec /\ ExpirySpec
<1>1. Init => LogsInit /\ ClientsInit /\ ComposeInit /\ ExpiryInit
  BY DEF Init
<1>2. [Next]_vars => /\ [LogsNext]_logsVars /\ [ClientsNext]_clientsVars
                     /\ [ComposeNext]_composeVars /\ [ExpiryNext]_expiryVars
  <2> SUFFICES ASSUME [Next]_vars
               PROVE  /\ [LogsNext]_logsVars /\ [ClientsNext]_clientsVars
                      /\ [ComposeNext]_composeVars /\ [ExpiryNext]_expiryVars
    OBVIOUS
  <2>1. CASE OnLogs
    BY <2>1 DEF OnLogs
  <2>2. CASE OnClients
    BY <2>2 DEF OnClients
  <2>3. CASE OnCompose
    BY <2>3 DEF OnCompose
  <2>4. CASE OnExpiry
    BY <2>4 DEF OnExpiry
  <2>5. CASE UNCHANGED vars
    BY <2>5 DEF vars
  <2> QED BY <2>1, <2>2, <2>3, <2>4, <2>5 DEF Next
<1> QED BY <1>1, <1>2, PTL DEF Spec, LogsSpec, ClientsSpec, ComposeSpec, ExpirySpec

-----------------------------------------------------------------------------
(* What a query that was run found are the newest of the rows it selects,  *)
(* in the table as it was.                                                 *)
Answered(q) == q.got \in Newest({r \in q.of : Selects(q.filter, r)})

LogsInv ==
    /\ LogsTypeOK
    /\ IsFiniteSet(rows)
    /\ \A q \in queries : q.read => Answered(q)
    /\ Answered(logs)

(* There is nothing to find in an empty table. *)
LEMMA NothingIsNewest == \A n \in Nat, f \in Filters : Answered(Query(n, f))
<1>1. IsFiniteSet({}) /\ Cardinality({}) = 0
  BY FS_EmptySet
<1> QED BY <1>1, LogsAssumption DEF Answered, Newest, Query

(* The filters, the rows and the answers keep their types, and an answer   *)
(* is made of the rows there are when the query is run.                    *)
LEMMA LogsInvStep ==
    ASSUME LogsInv, [LogsNext]_logsVars
    PROVE  LogsInv'
<1> USE LogsAssumption DEF LogsInv, LogsTypeOK
<1>1. NoFilter \in Filters
  BY DEF NoFilter, Filters
<1>2. ASSUME NEW n \in 0 .. MaxQueries, NEW f \in Filters
      PROVE  Query(n, f) \in Answers /\ Query(n, f).read = FALSE
  BY DEF Query, Answers
<1>3. ASSUME NEW f \in Filters, fetchLogs(f), chosen' \in Filters PROVE LogsInv'
  <2>1. asked + 1 \in 0 .. MaxQueries
    BY <1>3 DEF fetchLogs
  <2> QED BY <1>2, <1>3, <2>1 DEF fetchLogs, Answered
<1>4. CASE StoreEvent
  <2>1. PICK p \in Providers, plain \in BOOLEAN, o \in Owners, t \in Times :
          /\ Cardinality(rows) < MaxRows
          /\ rows' = rows \cup {[no |-> Cardinality(rows) + 1, provider |-> p,
                                 plain |-> plain, owner |-> o, time |-> t]}
    BY <1>4 DEF StoreEvent
  <2> DEFINE row == [no |-> Cardinality(rows) + 1, provider |-> p,
                     plain |-> plain, owner |-> o, time |-> t]
  <2>2. Cardinality(rows) + 1 \in 1 .. MaxRows
    BY <2>1, FS_CardinalityType
  <2>3. row \in Rows
    BY <2>2 DEF Rows
  <2>4. rows' = rows \cup {row}
    BY <2>1
  <2> HIDE DEF row
  <2>5. IsFiniteSet(rows') /\ rows' \subseteq Rows
    BY <2>3, <2>4, FS_AddElement
  <2>6. UNCHANGED <<zone, chosen, queries, asked, logs, loading>>
    BY <1>4 DEF StoreEvent
  <2> QED BY <2>5, <2>6 DEF Answered
<1>5. CASE RefreshLogs
  BY <1>3, <1>5 DEF RefreshLogs
<1>6. CASE ReopenLogs
  <2>1. /\ Query(1, NoFilter) \in Answers /\ Query(1, NoFilter).read = FALSE
        /\ Query(0, NoFilter) \in Answers /\ 1 \in 0 .. MaxQueries
    <3>1. 0 \in 0 .. MaxQueries /\ 1 \in 0 .. MaxQueries
      OBVIOUS
    <3> QED BY <1>1, <1>2, <3>1
  <2>2. /\ queries' = {Query(1, NoFilter)} /\ asked' = 1 /\ chosen' = NoFilter
        /\ logs' = [Query(0, NoFilter) EXCEPT !.read = TRUE] /\ loading' = TRUE
        /\ UNCHANGED <<rows, zone>>
    BY <1>6 DEF ReopenLogs
  <2>3. logs' \in Answers /\ Answered(logs')
    <3>1. Answered(Query(0, NoFilter))
      BY <1>1, NothingIsNewest
    <3> QED BY <2>1, <2>2, <3>1 DEF Answers, Answered, Query
  <2>4. Answered(logs)'
    BY <2>3 DEF Answered
  <2> QED BY <1>1, <2>1, <2>2, <2>3, <2>4
<1>7. ASSUME NEW f \in Filters, SelectFilter(f) PROVE LogsInv'
  BY <1>3, <1>7 DEF SelectFilter
<1>8. ASSUME NEW q \in queries, ListEvents(q) PROVE LogsInv'
  <2>1. PICK got \in Newest({r \in rows : Selects(q.filter, r)}) :
          queries' = (queries \ {q}) \cup
                        {[q EXCEPT !.read = TRUE, !.of = rows, !.got = got]}
    BY <1>8 DEF ListEvents
  <2> DEFINE a == [q EXCEPT !.read = TRUE, !.of = rows, !.got = got]
  <2>2. got \subseteq Rows
    BY <2>1 DEF Newest
  <2>3. a \in Answers
    BY <2>2 DEF Answers
  <2>4. Answered(a)
    BY <2>1 DEF Answered, Answers
  <2>5. queries' = (queries \ {q}) \cup {a}
    BY <2>1
  <2> HIDE DEF a
  <2>6. UNCHANGED <<rows, zone, chosen, asked, logs, loading>>
    BY <1>8 DEF ListEvents
  <2> QED BY <2>3, <2>4, <2>5, <2>6 DEF Answered
<1>9. ASSUME NEW q \in queries, LogsArrive(q) \/ LogsFail(q) PROVE LogsInv'
  BY <1>9 DEF LogsArrive, LogsFail, Answered
<1>10. CASE UNCHANGED logsVars
  BY <1>10 DEF logsVars, Answered
<1> QED BY <1>4, <1>5, <1>6, <1>7, <1>8, <1>9, <1>10 DEF LogsNext

LEMMA LogsInvAlways == LogsSpec => []LogsInv
<1>1. ASSUME LogsInit PROVE LogsInv
  <2> USE <1>1, LogsAssumption
  <2>1. NoFilter \in Filters
    BY DEF NoFilter, Filters
  <2>2. Query(1, NoFilter) \in Answers /\ Query(1, NoFilter).read = FALSE
    BY <2>1 DEF Query, Answers
  <2>3. Answered(Query(0, NoFilter)) /\ Query(0, NoFilter) \in Answers
    BY <2>1, NothingIsNewest DEF Query, Answers
  <2>4. logs \in Answers /\ Answered(logs)
    BY <2>3 DEF LogsInit, Answers, Answered, Query
  <2>5. IsFiniteSet(rows) /\ rows = {}
    BY FS_EmptySet DEF LogsInit
  <2> QED BY <2>1, <2>2, <2>4, <2>5 DEF LogsInit, LogsInv, LogsTypeOK
<1> QED BY <1>1, LogsInvStep, PTL DEF LogsSpec

(* The newest rows of a set include each that has less than Limit others   *)
(* as new.                                                                 *)
LEMMA NewEnough ==
    ASSUME NEW S, IsFiniteSet(S), \A s \in S : s.time \in Int,
           NEW T \in Newest(S), NEW r \in S,
           Cardinality({s \in S : s.time >= r.time}) <= Limit
    PROVE  r \in T
<1> SUFFICES ASSUME r \notin T PROVE FALSE
  OBVIOUS
<1> DEFINE U == {s \in S : s.time >= r.time}
<1>1. /\ T \in SUBSET S
      /\ Cardinality(T) = IF Cardinality(S) < Limit THEN Cardinality(S) ELSE Limit
      /\ \A x \in T, s \in S \ T : s.time <= x.time
  BY DEF Newest
<1>2. T \subseteq U \ {r} /\ r \in U /\ U \in SUBSET S
  BY <1>1
<1>3. IsFiniteSet(U) /\ Cardinality(U) \in Nat /\ Cardinality(S) \in Nat
  BY <1>2, FS_Subset, FS_CardinalityType
<1>4. IsFiniteSet(U \ {r}) /\ Cardinality(U \ {r}) = Cardinality(U) - 1
  BY <1>2, <1>3, FS_RemoveElement
<1>5. T \in SUBSET (U \ {r})
  BY <1>2
<1>6. Cardinality(T) <= Cardinality(U \ {r})
  BY <1>4, <1>5, FS_Subset
<1> HIDE DEF U
<1>7. Cardinality(U) <= Limit
  BY DEF U
<1>8. Cardinality(T) = Cardinality(S)
  BY <1>1, <1>3, <1>4, <1>6, <1>7, LogsAssumption
<1> QED BY <1>1, <1>8, FS_Subset

(* A day is 24 hours from its midnight. *)
LEMMA DayOfHour ==
    ASSUME NEW t \in Int, NEW d \in Int
    PROVE  InDay(t, d) <=> t \div 24 = d
BY DEF InDay

(* The hours of a day that the browser counts to another day than the one  *)
(* that begins when the day does in UTC.                                   *)
LEMMA HoursOfAnotherDay ==
    ASSUME NEW t \in Int, NEW d \in Int, t \div 24 = d, zone \in -12 .. 14,
           LocalDay(t) # LocalDay(24 * d)
    PROVE  \/ zone > 0 /\ t - 24 * d >= 24 - zone
           \/ zone < 0 /\ t - 24 * d >= -zone
<1>1. t - 24 * d \in 0 .. 23
  OBVIOUS
<1>2. CASE zone >= 0
  <2>1. (24 * d + zone) \div 24 = d
    BY <1>2
  <2>2. t + zone < 24 * d + 24 => (t + zone) \div 24 = d
    BY <1>1, <1>2
  <2> QED BY <1>1, <1>2, <2>1, <2>2 DEF LocalDay
<1>3. CASE zone < 0
  <2>1. (24 * d + zone) \div 24 = d - 1
    BY <1>3
  <2>2. t + zone < 24 * d => (t + zone) \div 24 = d - 1
    BY <1>1, <1>3
  <2> QED BY <1>1, <1>3, <2>1, <2>2 DEF LocalDay
<1> QED BY <1>2, <1>3

(* The rows the server selects are those the user wants. *)
LEMMA SelectsWanted ==
    LogsInv => {r \in rows : Selects(chosen, r)} = Wanted
<1> SUFFICES ASSUME LogsInv, NEW r \in rows
             PROVE  Selects(chosen, r) <=>
                      /\ chosen.provider # All => chosen.provider = r.provider
                      /\ chosen.owner # All => chosen.owner = r.owner
                      /\ chosen.date # All => r.time \div 24 = chosen.date
  BY DEF Wanted
<1>1. /\ r.time \in Int /\ (chosen.date # All => chosen.date \in Int)
      /\ r.provider # All /\ r.owner # All
  BY LogsAssumption DEF LogsInv, LogsTypeOK, Rows, Filters
<1>2. chosen.date # All => (InDay(r.time, chosen.date) <=> r.time \div 24 = chosen.date)
  BY <1>1, DayOfHour
<1> QED BY <1>1, <1>2 DEF Selects

(* Between them, the server's filter and the page's hide no row that is    *)
(* due, whatever is stored and however late the answers, except by the     *)
(* browser's zone.                                                         *)
THEOREM OnlyZonesHideRows == Spec => []MissingByZone
<1>1. LogsInv => MissingByZone
  <2> SUFFICES ASSUME LogsInv, LogsSettled, NEW r \in Due, r \notin Table
               PROVE  /\ chosen.date # All
                      /\ \/ zone > 0 /\ r.time - 24 * chosen.date >= 24 - zone
                         \/ zone < 0 /\ r.time - 24 * chosen.date >= -zone
    BY DEF MissingByZone
  <2>1. /\ r \in Wanted /\ (chosen.provider # All => r.plain)
        /\ Cardinality({s \in Wanted : s.time >= r.time}) <= Limit
    BY DEF Due
  <2>2. /\ r \in rows /\ r.time \in Int /\ (chosen.date # All => chosen.date \in Int)
        /\ r.owner # All /\ zone \in -12 .. 14
    BY <2>1, LogsAssumption DEF Wanted, LogsInv, LogsTypeOK, Rows, Filters
  <2>3. IsFiniteSet(Wanted) /\ \A s \in Wanted : s.time \in Int
    <3>1. Wanted \in SUBSET rows
      BY DEF Wanted
    <3>2. IsFiniteSet(Wanted)
      BY <3>1, FS_Subset DEF LogsInv
    <3> QED BY <3>1, <3>2, LogsAssumption DEF LogsInv, LogsTypeOK, Rows
  <2>4. logs.got \in Newest(Wanted)
    BY SelectsWanted DEF LogsInv, Answered, LogsSettled
  <2>5. r \in logs.got
    BY <2>1, <2>3, <2>4, NewEnough
  <2>6. ~Keeps(chosen, r)
    BY <2>5 DEF Table, filteredLogs, LogsSettled
  <2>7. /\ chosen.provider # All => chosen.provider = r.provider /\ r.plain
        /\ chosen.owner \in {All, r.owner}
        /\ chosen.date # All => r.time \div 24 = chosen.date
    BY <2>1 DEF Wanted
  <2>8. chosen.date # All /\ LocalDay(r.time) # LocalDay(24 * chosen.date)
    BY <2>6, <2>7 DEF Keeps
  <2> QED BY <2>2, <2>7, <2>8, HoursOfAnotherDay
<1> QED BY <1>1, LogsInvAlways, PagesAreTheirOwn, PTL

-----------------------------------------------------------------------------
(* Clients: whether a list of the first n of the clients cs shows the      *)
(* domain d, and whether there is a client after the first n, or after     *)
(* more of them, whose domain the list of them does not show: a page that  *)
(* shows that list lets its domain through.                                *)
Seen(cs, d, n) == \E k \in 1 .. n : k + Take > n /\ Domain(cs[k]) = d
Stale(cs, n) ==
    \E b \in n .. Len(cs), j \in 1 .. Len(cs) : b < j /\ ~Seen(cs, Domain(cs[j]), b)

(* The first list is awaited while the page opens, and handleAdd awaits    *)
(* one of those asked for.                                                 *)
ListsInv ==
    /\ \A a \in lists : a.no <= listed /\ a.count <= Len(clients)
    /\ \A a, b \in lists : a.no = b.no => a = b
    /\ opening => adding = Idle /\ ~modal /\ \E a \in lists : a.no = 1
    /\ adding.step = "listing" => \E a \in lists : a.no = adding.list
    /\ adding.step = "posted" => adding.entry \in Entries

(* The page may let a duplicate through without another fault: by the list *)
(* that it awaits, by the list on show, or as it has already.              *)
Exposed ==
    \/ \E a \in lists : /\ a.read /\ Stale(clients, a.count)
                        /\ \/ opening /\ a.no = 1
                           \/ adding.step = "listing" /\ a.no = adding.list
    \/ ~opening /\ adding.step \in {"idle", "posted"} /\ Stale(clients, shown)
    \/ adding.step = "posted" /\ Seen(clients, Domain(adding.entry), Len(clients))

(* A fault pays for one duplicate: the one there is, that of a POST nobody *)
(* awaits, or that to which the page is exposed.                           *)
Paid == Cardinality(Duplicates) + Cardinality(abandoned)
            + (IF Exposed THEN 1 ELSE 0) <= faults

ClientsInv == ClientsTypeOK /\ IsFiniteSet(abandoned) /\ ListsInv /\ Paid

(* A list of the first n clients is the same when more are stored.         *)
LEMMA SeenAppend ==
    ASSUME NEW cs \in Seq(Entries), NEW e \in Entries, NEW d, NEW n \in 0 .. Len(cs)
    PROVE  Seen(Append(cs, e), d, n) <=> Seen(cs, d, n)
BY DEF Seen

(* The newest list shows the newest client, and nothing new besides.       *)
LEMMA SeenNewest ==
    ASSUME NEW cs \in Seq(Entries), NEW e \in Entries, NEW d,
           Seen(Append(cs, e), d, Len(cs) + 1)
    PROVE  d = Domain(e) \/ Seen(cs, d, Len(cs))
<1>1. PICK k \in 1 .. Len(cs) + 1 : k + Take > Len(cs) + 1 /\ Domain(Append(cs, e)[k]) = d
  BY DEF Seen
<1>2. CASE k = Len(cs) + 1
  BY <1>1, <1>2
<1>3. CASE k # Len(cs) + 1
  <2>1. k \in 1 .. Len(cs) /\ Append(cs, e)[k] = cs[k] /\ k + Take > Len(cs)
    BY <1>1, <1>3, ClientsAssumption
  <2> QED BY <1>1, <2>1 DEF Seen
<1> QED BY <1>2, <1>3

(* What is on the newest list and not on an older one came in between.     *)
LEMMA MissedIsStale ==
    ASSUME NEW cs \in Seq(Entries), NEW d, NEW n \in 0 .. Len(cs),
           ~Seen(cs, d, n), Seen(cs, d, Len(cs))
    PROVE  Stale(cs, n)
<1>1. PICK k \in 1 .. Len(cs) : k + Take > Len(cs) /\ Domain(cs[k]) = d
  BY DEF Seen
<1>2. ~(k <= n)
  BY <1>1, ClientsAssumption DEF Seen
<1> QED BY <1>1, <1>2 DEF Stale

(* A newer list is no staler, and the newest is not.                       *)
LEMMA NewerIsNoStaler ==
    ASSUME NEW cs \in Seq(Entries), NEW n \in 0 .. Len(cs), NEW m \in n .. Len(cs),
           Stale(cs, m)
    PROVE  Stale(cs, n)
<1>1. PICK b \in m .. Len(cs), j \in 1 .. Len(cs) : b < j /\ ~Seen(cs, Domain(cs[j]), b)
  BY DEF Stale
<1>2. b \in n .. Len(cs)
  OBVIOUS
<1> QED BY <1>1, <1>2 DEF Stale

LEMMA NewestIsNotStale ==
    ASSUME NEW cs \in Seq(Entries)
    PROVE  ~Stale(cs, Len(cs))
BY DEF Stale

(* A client that is a duplicate when it is stored makes no list stale.     *)
LEMMA DuplicatesAreShown ==
    ASSUME NEW cs \in Seq(Entries), NEW e \in Entries, NEW n \in 0 .. Len(cs),
           ~Stale(cs, n), Seen(cs, Domain(e), Len(cs))
    PROVE  ~Stale(Append(cs, e), n)
<1> SUFFICES ASSUME NEW b \in n .. Len(cs) + 1, NEW j \in 1 .. Len(cs) + 1, b < j,
                    ~Seen(Append(cs, e), Domain(Append(cs, e)[j]), b)
             PROVE  FALSE
  BY DEF Stale
<1>1. b \in n .. Len(cs) /\ b \in 0 .. Len(cs)
  OBVIOUS
<1>2. ~Seen(cs, Domain(Append(cs, e)[j]), b)
  BY <1>1, SeenAppend
<1>3. CASE j = Len(cs) + 1
  <2>1. ~Seen(cs, Domain(e), b)
    BY <1>2, <1>3
  <2>2. Stale(cs, b)
    BY <1>1, <2>1, MissedIsStale
  <2> QED BY <1>1, <2>2, NewerIsNoStaler
<1>4. CASE j # Len(cs) + 1
  <2>1. j \in 1 .. Len(cs) /\ Append(cs, e)[j] = cs[j]
    BY <1>4
  <2> QED BY <1>1, <1>2, <2>1 DEF Stale
<1> QED BY <1>3, <1>4

(* A client that is stored is one duplicate more, if the newest list shows *)
(* its domain.                                                             *)
LEMMA DuplicatesGrow ==
    ASSUME clients \in Seq(Entries), NEW e \in Entries, clients' = Append(clients, e)
    PROVE  /\ Cardinality(Duplicates) \in Nat
           /\ Cardinality(Duplicates') <=
                Cardinality(Duplicates)
                    + (IF Seen(clients, Domain(e), Len(clients)) THEN 1 ELSE 0)
<1> DEFINE n == Len(clients)
           new == IF Seen(clients, Domain(e), n) THEN {n + 1} ELSE {}
<1>1. n \in Nat /\ Len(clients') = n + 1 /\ clients'[n + 1] = e
      /\ \A k \in 1 .. n : clients'[k] = clients[k]
  OBVIOUS
<1>2. IsFiniteSet(Duplicates) /\ Cardinality(Duplicates) \in Nat
  <2>1. IsFiniteSet(1 .. n) /\ Duplicates \in SUBSET (1 .. n)
    BY <1>1, FS_Interval DEF Duplicates
  <2> QED BY <2>1, FS_Subset, FS_CardinalityType
<1>3. ASSUME NEW i \in Duplicates' PROVE i \in Duplicates \cup new
  <2>1. i \in 1 .. n + 1
    BY <1>1 DEF Duplicates
  <2>2. PICK j \in 1 .. i - 1 : j + Take >= i /\ Domain(clients'[j]) = Domain(clients'[i])
    BY DEF Duplicates
  <2>3. j \in 1 .. n /\ clients'[j] = clients[j]
    BY <1>1, <2>1, <2>2
  <2>4. CASE i \in 1 .. n
    BY <1>1, <2>2, <2>3, <2>4 DEF Duplicates
  <2>5. CASE i = n + 1
    <3>1. j + Take > n /\ Domain(clients[j]) = Domain(e)
      BY <1>1, <2>2, <2>3, <2>5, ClientsAssumption
    <3> QED BY <2>3, <2>5, <3>1 DEF Seen
  <2> QED BY <2>1, <2>4, <2>5
<1>4. /\ IsFiniteSet(Duplicates \cup new)
      /\ Cardinality(Duplicates \cup new) <=
           Cardinality(Duplicates) + (IF Seen(clients, Domain(e), n) THEN 1 ELSE 0)
  <2>1. CASE Seen(clients, Domain(e), n)
    <3>1. /\ IsFiniteSet(Duplicates \cup {n + 1})
          /\ Cardinality(Duplicates \cup {n + 1}) <= Cardinality(Duplicates) + 1
      <4>1. Cardinality(Duplicates \cup {n + 1})
              = IF n + 1 \in Duplicates THEN Cardinality(Duplicates)
                                        ELSE Cardinality(Duplicates) + 1
        BY <1>2, FS_AddElement
      <4> QED BY <1>2, <4>1, FS_AddElement
    <3> QED BY <2>1, <3>1
  <2>2. CASE ~Seen(clients, Domain(e), n)
    BY <1>2, <2>2
  <2> QED BY <2>1, <2>2
<1>5. /\ Cardinality(Duplicates') <= Cardinality(Duplicates \cup new)
      /\ Cardinality(Duplicates \cup new) \in Nat /\ Cardinality(Duplicates') \in Nat
  BY <1>3, <1>4, FS_Subset, FS_CardinalityType
<1> HIDE DEF new
<1> QED BY <1>2, <1>4, <1>5

-----------------------------------------------------------------------------
(* A list that is asked for has a number of its own.                       *)
LEMMA ListAskedFor ==
    ASSUME lists \subseteq Lists, listed \in 0 .. MaxLists, FetchClients
    PROVE  /\ listed' = listed + 1 /\ listed' \in 1 .. MaxLists
           /\ \E new \in Lists : /\ lists' = lists \cup {new}
                                /\ new.no = listed' /\ ~new.read /\ new.count = 0
<1>1. listed + 1 \in 1 .. MaxLists /\ listed' = listed + 1
  BY ClientsAssumption DEF FetchClients
<1> DEFINE new == [no |-> listed + 1, read |-> FALSE, count |-> 0]
<1>2. new \in Lists /\ new.no = listed + 1 /\ ~new.read /\ new.count = 0
  BY <1>1 DEF Lists
<1>3. lists' = lists \cup {new}
  BY DEF FetchClients
<1> HIDE DEF new
<1> QED BY <1>1, <1>2, <1>3

LEMMA FirstListAskedFor ==
    /\ FirstList \subseteq Lists
    /\ \A a \in FirstList : a.no = 1 /\ ~a.read /\ a.count = 0
    /\ \E a \in FirstList : a.no = 1
    /\ \A a, b \in FirstList : a = b
<1>1. 1 \in 1 .. MaxLists
  BY ClientsAssumption
<1> QED BY <1>1 DEF FirstList, Lists

LEMMA ClientsTypesStep ==
    ASSUME ClientsTypeOK, ListsInv, [ClientsNext]_clientsVars
    PROVE  ClientsTypeOK'
<1> USE ClientsAssumption
        DEF ClientsTypeOK, Idle, Fault, ListDone
<1>1. Len(clients) \in Nat /\ 0 \in 0 .. MaxLists /\ 1 \in 0 .. MaxLists
  OBVIOUS
<1>2. ASSUME NEW e \in Entries, clients' = Append(clients, e)
      PROVE  clients' \in Seq(Entries) /\ Len(clients') = Len(clients) + 1
  BY <1>2
<1>3. CASE ReopenClients
  <2>1. adding' \in [step : {"idle", "posted", "saved", "listing"},
                    entry : Entries \cup {NoEntry}, list : 0 .. MaxLists]
    BY <1>1, <1>3 DEF ReopenClients
  <2>2. faults' \in 0 .. MaxFaults
    BY <1>3 DEF ReopenClients
  <2>3. abandoned' \subseteq (1 .. MaxFaults) \X Entries
    <3>1. CASE adding.step = "posted"
      <4>1. adding.entry \in Entries /\ faults + 1 \in 1 .. MaxFaults
        BY <1>3, <3>1 DEF ReopenClients, ListsInv
      <4> QED BY <1>3, <3>1, <4>1 DEF ReopenClients
    <3> QED BY <1>3, <3>1 DEF ReopenClients
  <2>4. lists' \subseteq Lists /\ listed' \in 0 .. MaxLists
    BY <1>1, <1>3, FirstListAskedFor DEF ReopenClients
  <2>5. shown' \in 0 .. Len(clients')
    BY <1>1, <1>3 DEF ReopenClients
  <2> QED BY <1>3, <2>1, <2>2, <2>3, <2>4, <2>5 DEF ReopenClients
<1>4. CASE HandleAdd
  BY <1>4 DEF HandleAdd, CanAdd
<1>5. CASE SaveClient
  BY <1>1, <1>2, <1>5 DEF SaveClient, ListsInv
<1>6. CASE Added
  <2>1. adding' = [Idle EXCEPT !.step = "listing", !.list = listed + 1]
    BY <1>6 DEF Added
  <2>2. adding' \in [step : {"idle", "posted", "saved", "listing"},
                    entry : Entries \cup {NoEntry}, list : 0 .. MaxLists]
    <3>1. listed + 1 \in 0 .. MaxLists
      BY <1>6, ListAskedFor DEF Added
    <3> QED BY <2>1, <3>1
  <2> QED BY <1>1, <1>6, <2>2, ListAskedFor DEF Added
<1>7. CASE AddFails
  BY <1>7 DEF AddFails
<1>8. CASE LoseAdded
  BY <1>8 DEF LoseAdded, ListsInv
<1>9. CASE ClientsEvent
  BY <1>1, <1>9, ListAskedFor DEF ClientsEvent
<1>10. ASSUME NEW open \in BOOLEAN, OpenModal(open) PROVE ClientsTypeOK'
  BY <1>10 DEF OpenModal
<1>11. ASSUME NEW f \in Entries \cup {NoEntry}, TypeClient(f) PROVE ClientsTypeOK'
  BY <1>11 DEF TypeClient
<1>12. ASSUME NEW entry \in Entries, OtherAdds(entry) PROVE ClientsTypeOK'
  BY <1>1, <1>2, <1>12 DEF OtherAdds
<1>13. ASSUME NEW p \in abandoned, SaveAbandoned(p) PROVE ClientsTypeOK'
  BY <1>1, <1>2, <1>13 DEF SaveAbandoned
<1>14. ASSUME NEW p \in abandoned, LoseAbandoned(p) PROVE ClientsTypeOK'
  BY <1>14 DEF LoseAbandoned
<1>15. ASSUME NEW a \in lists, ReadClients(a) PROVE ClientsTypeOK'
  BY <1>1, <1>15 DEF ReadClients, Lists
<1>16. ASSUME NEW a \in lists, ShowClients(a) PROVE ClientsTypeOK'
  BY <1>1, <1>16 DEF ShowClients, ListsInv, Lists
<1>17. ASSUME NEW a \in lists, ListClientsFails(a) PROVE ClientsTypeOK'
  BY <1>17 DEF ListClientsFails
<1>18. CASE UNCHANGED clientsVars
  BY <1>18 DEF clientsVars
<1> QED BY <1>3, <1>4, <1>5, <1>6, <1>7, <1>8, <1>9, <1>10, <1>11, <1>12, <1>13,
           <1>14, <1>15, <1>16, <1>17, <1>18 DEF ClientsNext

LEMMA ListsInvStep ==
    ASSUME ClientsTypeOK, ListsInv, [ClientsNext]_clientsVars
    PROVE  ListsInv'
<1> USE ClientsAssumption
        DEF ClientsTypeOK, ListsInv, Idle, ListDone
<1>1. Len(clients) \in Nat
  OBVIOUS
<1>2. ASSUME NEW e \in Entries, clients' = Append(clients, e)
      PROVE  Len(clients') = Len(clients) + 1
  BY <1>2
<1>3. CASE ReopenClients
  BY <1>1, <1>3, FirstListAskedFor DEF ReopenClients
<1>4. CASE HandleAdd
  BY <1>4 DEF HandleAdd, CanAdd
<1>5. CASE SaveClient
  BY <1>1, <1>2, <1>5 DEF SaveClient, Lists
<1>6. CASE Added
  <2>1. PICK new \in Lists : /\ listed' = listed + 1 /\ lists' = lists \cup {new}
                            /\ new.no = listed' /\ new.count = 0
    BY <1>6, ListAskedFor DEF Added
  <2>2. UNCHANGED clients
    BY <1>6 DEF Added
  <2>3. /\ \A a \in lists' : a.no <= listed' /\ a.count <= Len(clients')
        /\ \A a, b \in lists' : a.no = b.no => a = b
        /\ \E a \in lists' : a.no = listed'
        /\ lists \subseteq lists'
    BY <1>1, <2>1, <2>2 DEF Lists
  <2>4. ~opening' /\ adding'.step = "listing" /\ adding'.list = listed'
    BY <1>6, <2>1 DEF Added
  <2> QED BY <2>3, <2>4
<1>7. CASE AddFails
  BY <1>7 DEF AddFails
<1>8. CASE LoseAdded
  BY <1>8 DEF LoseAdded
<1>9. CASE ClientsEvent
  <2>1. PICK new \in Lists : /\ listed' = listed + 1 /\ lists' = lists \cup {new}
                            /\ new.no = listed' /\ new.count = 0
    BY <1>9, ListAskedFor DEF ClientsEvent
  <2>2. UNCHANGED clients
    BY <1>9 DEF ClientsEvent
  <2>3. /\ \A a \in lists' : a.no <= listed' /\ a.count <= Len(clients')
        /\ \A a, b \in lists' : a.no = b.no => a = b
        /\ \E a \in lists' : a.no = listed'
        /\ lists \subseteq lists'
    BY <1>1, <2>1, <2>2 DEF Lists
  <2>4. UNCHANGED <<adding, modal, opening>>
    BY <1>9 DEF ClientsEvent
  <2> QED BY <2>3, <2>4
<1>10. ASSUME NEW open \in BOOLEAN, OpenModal(open) PROVE ListsInv'
  BY <1>10 DEF OpenModal
<1>11. ASSUME NEW f \in Entries \cup {NoEntry}, TypeClient(f) PROVE ListsInv'
  BY <1>11 DEF TypeClient
<1>12. ASSUME NEW entry \in Entries, OtherAdds(entry) PROVE ListsInv'
  BY <1>1, <1>2, <1>12 DEF OtherAdds, Lists
<1>13. ASSUME NEW p \in abandoned, SaveAbandoned(p) PROVE ListsInv'
  BY <1>1, <1>2, <1>13 DEF SaveAbandoned, Lists
<1>14. ASSUME NEW p \in abandoned, LoseAbandoned(p) PROVE ListsInv'
  BY <1>14 DEF LoseAbandoned
<1>15. ASSUME NEW a \in lists, ReadClients(a) PROVE ListsInv'
  <2> DEFINE b == [a EXCEPT !.read = TRUE, !.count = Len(clients)]
  <2>1. b.no = a.no /\ b.count = Len(clients)
    BY DEF Lists
  <2>2. lists' = (lists \ {a}) \cup {b}
    BY <1>15 DEF ReadClients
  <2> HIDE DEF b
  <2> QED BY <1>1, <1>15, <2>1, <2>2 DEF ReadClients, Lists
<1>16. ASSUME NEW a \in lists, ShowClients(a) \/ ListClientsFails(a) PROVE ListsInv'
  BY <1>1, <1>16 DEF ShowClients, ListClientsFails
<1>17. CASE UNCHANGED clientsVars
  BY <1>17 DEF clientsVars
<1> QED BY <1>3, <1>4, <1>5, <1>6, <1>7, <1>8, <1>9, <1>10, <1>11, <1>12, <1>13,
           <1>14, <1>15, <1>16, <1>17 DEF ClientsNext

(* A step that stores nothing exposes the page only if it is a fault: a    *)
(* list that is asked for will be read after what is stored by then.       *)
LEMMA FaultsExpose ==
    ASSUME ClientsTypeOK, ListsInv, ClientsNext, UNCHANGED clients
    PROVE  faults' = faults + 1 \/ (Exposed' => Exposed)
<1> USE ClientsAssumption
        DEF ClientsTypeOK, ListsInv, Exposed, Lists, Idle, FetchClients, FirstList,
            ListDone, Fault
<1>1. ~Stale(clients, Len(clients))
  BY NewestIsNotStale
<1>2. CASE ReopenClients
  BY <1>2 DEF ReopenClients
<1>3. CASE HandleAdd
  <2>1. ~Seen(clients, Domain(form), shown)
    BY <1>3 DEF HandleAdd, CanAdd, IsDuplicate, OnShow, FirstPage, Seen
  <2>2. Seen(clients, Domain(form), Len(clients)) => Stale(clients, shown)
    BY <2>1, MissedIsStale
  <2> QED BY <1>3, <2>2 DEF HandleAdd, CanAdd
<1>4. CASE Added
  BY <1>4 DEF Added
<1>5. CASE AddFails
  BY <1>5 DEF AddFails
<1>6. CASE LoseAdded
  BY <1>6 DEF LoseAdded
<1>7. CASE ClientsEvent
  BY <1>7 DEF ClientsEvent
<1>8. CASE \E open \in BOOLEAN : OpenModal(open)
  BY <1>8 DEF OpenModal
<1>9. CASE \E f \in Entries \cup {NoEntry} : TypeClient(f)
  BY <1>9 DEF TypeClient
<1>10. CASE \E entry \in Entries : OtherAdds(entry)
  BY <1>10 DEF OtherAdds
<1>11. ASSUME NEW p \in abandoned, LoseAbandoned(p) PROVE Exposed' => Exposed
  BY <1>11 DEF LoseAbandoned
<1>12. ASSUME NEW a \in lists, ReadClients(a) PROVE Exposed' => Exposed
  BY <1>1, <1>12 DEF ReadClients
<1>13. ASSUME NEW a \in lists, ShowClients(a), UNCHANGED faults
       PROVE  Exposed' => Exposed
  <2>1. shown <= a.count /\ shown \in 0 .. Len(clients) /\ a.count \in shown .. Len(clients)
    BY <1>13 DEF ShowClients
  <2>2. Stale(clients, a.count) => Stale(clients, shown)
    BY <2>1, NewerIsNoStaler
  <2> QED BY <1>13, <2>2 DEF ShowClients
<1>14. ASSUME NEW a \in lists, ShowClients(a) PROVE faults' = faults + 1 \/ UNCHANGED faults
  BY <1>14 DEF ShowClients
<1>15. CASE \E a \in lists : ListClientsFails(a)
  BY <1>15 DEF ListClientsFails
<1>16. ASSUME NEW p \in abandoned, SaveAbandoned(p) PROVE FALSE
  <2>1. Len(Append(clients, p[2])) = Len(clients) + 1 /\ Len(clients) \in Nat
    BY <1>16
  <2> QED BY <1>16, <2>1 DEF SaveAbandoned
<1>17. CASE SaveClient
  <2>1. Len(Append(clients, adding.entry)) = Len(clients) + 1 /\ Len(clients) \in Nat
    BY <1>17 DEF SaveClient
  <2> QED BY <1>17, <2>1 DEF SaveClient
<1> QED BY <1>2, <1>3, <1>4, <1>5, <1>6, <1>7, <1>8, <1>9, <1>10, <1>11, <1>12, <1>13,
           <1>14, <1>15, <1>16, <1>17 DEF ClientsNext

(* The faults and the POSTs nobody awaits, in a step that stores nothing:  *)
(* each fault leaves at most one of them behind, and then the page is no   *)
(* more exposed than it was.                                               *)
LEMMA FaultsAbandon ==
    ASSUME ClientsTypeOK, ListsInv, IsFiniteSet(abandoned), ClientsNext,
           UNCHANGED clients
    PROVE  /\ IsFiniteSet(abandoned')
           /\ \/ faults' \in {faults, faults + 1}
                 /\ Cardinality(abandoned') <= Cardinality(abandoned)
              \/ /\ faults' = faults + 1
                 /\ Cardinality(abandoned') <= Cardinality(abandoned) + 1
                 /\ Exposed' => Exposed
<1> SUFFICES
      \/ \E x : abandoned' = abandoned \cup {x} /\ faults' = faults + 1
                /\ (Exposed' => Exposed)
      \/ \E x \in abandoned : abandoned' = abandoned \ {x} /\ faults' = faults
      \/ UNCHANGED abandoned /\ faults' \in {faults, faults + 1}
  BY FS_AddElement, FS_RemoveElement, FS_CardinalityType
<1>1. CASE ReopenClients
  <2>1. ~Exposed'
    BY <1>1, FirstListAskedFor DEF ReopenClients, Exposed, Idle
  <2> QED BY <1>1, <2>1 DEF ReopenClients, Fault
<1>2. CASE LoseAdded
  BY <1>2 DEF LoseAdded, Fault, Exposed, Idle
<1>3. CASE SaveClient \/ HandleAdd \/ AddFails \/ ClientsEvent \/ Added
  BY <1>3 DEF SaveClient, HandleAdd, AddFails, ClientsEvent, Added
<1>4. CASE \E open \in BOOLEAN : OpenModal(open)
  BY <1>4 DEF OpenModal
<1>5. CASE \E f \in Entries \cup {NoEntry} : TypeClient(f)
  BY <1>5 DEF TypeClient
<1>6. CASE \E entry \in Entries : OtherAdds(entry)
  BY <1>6 DEF OtherAdds, Fault
<1>7. ASSUME NEW p \in abandoned, SaveAbandoned(p)
      PROVE  FALSE
  <2>1. Len(Append(clients, p[2])) = Len(clients) + 1 /\ Len(clients) \in Nat
    BY <1>7 DEF ClientsTypeOK
  <2> QED BY <1>7, <2>1 DEF SaveAbandoned
<1>8. ASSUME NEW p \in abandoned, LoseAbandoned(p)
      PROVE  abandoned' = abandoned \ {p} /\ faults' = faults
  BY <1>8 DEF LoseAbandoned
<1>9. ASSUME NEW a \in lists, ReadClients(a) \/ ShowClients(a) \/ ListClientsFails(a)
      PROVE  UNCHANGED abandoned /\ faults' \in {faults, faults + 1}
  BY <1>9 DEF ReadClients, ShowClients, ListClientsFails, Fault
<1> QED BY <1>1, <1>2, <1>3, <1>4, <1>5, <1>6, <1>7, <1>8, <1>9 DEF ClientsNext

(* A client stored by another than this page, a duplicate or a reason for  *)
(* one: not both.                                                          *)
LEMMA OneOrTheOther ==
    ASSUME ClientsTypeOK, ListsInv, NEW e \in Entries, clients' = Append(clients, e),
           UNCHANGED <<adding, lists, shown, opening>>,
           Seen(clients, Domain(e), Len(clients)), Exposed'
    PROVE  Exposed
<1> USE DEF ClientsTypeOK
<1>1. Len(clients) \in Nat /\ Len(clients') = Len(clients) + 1
  OBVIOUS
<1>2. ASSUME NEW n \in 0 .. Len(clients), Stale(clients', n)
      PROVE  Stale(clients, n)
  BY <1>2, DuplicatesAreShown
<1>3. \A a \in lists : a.count \in 0 .. Len(clients)
  BY DEF ListsInv, Lists
<1>4. CASE \E a \in lists : /\ a.read /\ Stale(clients', a.count)
                            /\ \/ opening /\ a.no = 1
                               \/ adding.step = "listing" /\ a.no = adding.list
  BY <1>2, <1>3, <1>4 DEF Exposed
<1>5. CASE ~opening /\ adding.step \in {"idle", "posted"} /\ Stale(clients', shown)
  BY <1>2, <1>5 DEF Exposed
<1>6. CASE adding.step = "posted" /\ Seen(clients', Domain(adding.entry), Len(clients'))
  <2>1. Domain(adding.entry) = Domain(e) \/ Seen(clients, Domain(adding.entry), Len(clients))
    BY <1>1, <1>6, SeenNewest
  <2> QED BY <1>6, <2>1 DEF Exposed
<1> QED BY <1>4, <1>5, <1>6 DEF Exposed

LEMMA PaidStep ==
    ASSUME ClientsInv, [ClientsNext]_clientsVars
    PROVE  Paid' /\ IsFiniteSet(abandoned')
<1> USE DEF ClientsInv
<1>1. faults \in Nat /\ Cardinality(abandoned) \in Nat
  BY FS_CardinalityType, ClientsAssumption DEF ClientsTypeOK
<1>2. CASE UNCHANGED clientsVars
  BY <1>2 DEF clientsVars, Paid, Exposed, Duplicates
<1>3. CASE ClientsNext /\ UNCHANGED clients
  <2>1. Duplicates' = Duplicates
    BY <1>3 DEF Duplicates
  <2>2. Cardinality(Duplicates) \in Nat
    <3>1. IsFiniteSet(1 .. Len(clients)) /\ Duplicates \in SUBSET (1 .. Len(clients))
      BY FS_Interval DEF Duplicates, ClientsTypeOK
    <3> QED BY <3>1, FS_Subset, FS_CardinalityType
  <2>3. IsFiniteSet(abandoned') /\ Cardinality(abandoned') \in Nat
    BY <1>3, FaultsAbandon, FS_CardinalityType
  <2>4. faults' = faults + 1 \/ (Exposed' => Exposed)
    BY <1>3, FaultsExpose
  <2>5. \/ /\ faults' \in {faults, faults + 1}
           /\ Cardinality(abandoned') <= Cardinality(abandoned)
        \/ /\ faults' = faults + 1
           /\ Cardinality(abandoned') <= Cardinality(abandoned) + 1
           /\ Exposed' => Exposed
    BY <1>3, FaultsAbandon
  <2> QED BY <1>1, <2>1, <2>2, <2>3, <2>4, <2>5 DEF Paid
<1>4. CASE SaveClient
  <2>1. /\ clients' = Append(clients, adding.entry) /\ adding.entry \in Entries
        /\ clients \in Seq(Entries) /\ adding.step = "posted"
    BY <1>4 DEF SaveClient, ListsInv, ClientsTypeOK
  <2>2. ~Exposed'
    BY <1>4 DEF SaveClient, Exposed, ListsInv, Idle, ClientsTypeOK
  <2>3. Seen(clients, Domain(adding.entry), Len(clients)) => Exposed
    BY <2>1 DEF Exposed
  <2>4. UNCHANGED <<abandoned, faults>>
    BY <1>4 DEF SaveClient
  <2>5. Cardinality(Duplicates) \in Nat
        /\ Cardinality(Duplicates') <=
             Cardinality(Duplicates)
               + (IF Seen(clients, Domain(adding.entry), Len(clients)) THEN 1 ELSE 0)
    BY <2>1, DuplicatesGrow
  <2>6. Cardinality(Duplicates') \in Nat
    <3>1. Len(clients') \in Nat
      BY <2>1
    <3>2. IsFiniteSet(1 .. Len(clients')) /\ Duplicates' \in SUBSET (1 .. Len(clients'))
      BY <3>1, FS_Interval DEF Duplicates
    <3> QED BY <3>2, FS_Subset, FS_CardinalityType
  <2> QED BY <1>1, <2>2, <2>3, <2>4, <2>5, <2>6 DEF Paid
<1>5. ASSUME NEW e \in Entries, clients' = Append(clients, e),
             UNCHANGED <<adding, lists, shown, opening>>,
             IsFiniteSet(abandoned'), Cardinality(abandoned') \in Nat,
             faults' \in Nat,
             faults' - Cardinality(abandoned') = faults - Cardinality(abandoned) + 1
      PROVE  Paid'
  <2>1. Cardinality(Duplicates) \in Nat
        /\ Cardinality(Duplicates') <=
             Cardinality(Duplicates)
               + (IF Seen(clients, Domain(e), Len(clients)) THEN 1 ELSE 0)
    BY <1>5, DuplicatesGrow DEF ClientsTypeOK
  <2>2. Cardinality(Duplicates') \in Nat
    <3>1. Len(clients') \in Nat
      BY <1>5 DEF ClientsTypeOK
    <3>2. IsFiniteSet(1 .. Len(clients')) /\ Duplicates' \in SUBSET (1 .. Len(clients'))
      BY <3>1, FS_Interval DEF Duplicates
    <3> QED BY <3>2, FS_Subset, FS_CardinalityType
  <2>3. Seen(clients, Domain(e), Len(clients)) /\ Exposed' => Exposed
    BY <1>5, OneOrTheOther
  <2> QED BY <1>1, <1>5, <2>1, <2>2, <2>3 DEF Paid
<1>6. ASSUME NEW e \in Entries, OtherAdds(e) PROVE Paid' /\ IsFiniteSet(abandoned')
  <2>1. UNCHANGED abandoned /\ faults' = faults + 1
    BY <1>6 DEF OtherAdds, Fault
  <2> QED BY <1>1, <1>5, <1>6, <2>1 DEF OtherAdds
<1>7. ASSUME NEW p \in abandoned, SaveAbandoned(p)
      PROVE  Paid' /\ IsFiniteSet(abandoned')
  <2>1. p[2] \in Entries
    BY DEF ClientsTypeOK
  <2>2. abandoned' = abandoned \ {p} /\ faults' = faults
    BY <1>7 DEF SaveAbandoned
  <2>3. /\ IsFiniteSet(abandoned') /\ Cardinality(abandoned') \in Nat
        /\ Cardinality(abandoned') = Cardinality(abandoned) - 1
    BY <2>2, FS_RemoveElement, FS_CardinalityType
  <2>4. faults' \in Nat
        /\ faults' - Cardinality(abandoned') = faults - Cardinality(abandoned) + 1
    BY <1>1, <2>2, <2>3
  <2> QED BY <1>5, <1>7, <2>1, <2>3, <2>4 DEF SaveAbandoned
<1>8. ASSUME ClientsNext, clients' # clients
      PROVE  \/ SaveClient \/ \E e \in Entries : OtherAdds(e)
             \/ \E p \in abandoned : SaveAbandoned(p)
  BY <1>8 DEF ClientsNext, ReopenClients, HandleAdd, Added, AddFails, LoseAdded,
              ClientsEvent, OpenModal, TypeClient, LoseAbandoned, ReadClients,
              ShowClients, ListClientsFails
<1>9. CASE SaveClient
  BY <1>4, <1>9 DEF SaveClient
<1> QED BY <1>2, <1>3, <1>6, <1>7, <1>8, <1>9

(* The check of the page lets one duplicate through for each fault and no  *)
(* more, whatever is stored, asked for and answered in whatever order, and *)
(* however long the list.                                                  *)
THEOREM FaultsBoundDuplicates == Spec => []DuplicatesCostFaults
<1>1. ClientsInit => ClientsInv
  <2> SUFFICES ASSUME ClientsInit PROVE ClientsInv
    OBVIOUS
  <2> USE ClientsAssumption DEF ClientsInit
  <2>1. clients \in Seq(Entries) /\ Len(clients) = 0
    OBVIOUS
  <2>2. ClientsTypeOK /\ ListsInv
    <3>1. 0 \in 0 .. MaxLists /\ 1 \in 0 .. MaxLists
      OBVIOUS
    <3>2. Idle \in [step : {"idle", "posted", "saved", "listing"},
                   entry : Entries \cup {NoEntry}, list : 0 .. MaxLists]
      BY <3>1 DEF Idle
    <3>3. ClientsTypeOK
      <4>1. adding = Idle /\ lists \subseteq Lists
        BY FirstListAskedFor
      <4>2. shown \in 0 .. Len(clients) /\ faults \in 0 .. MaxFaults
        BY <2>1
      <4> QED BY <2>1, <3>1, <3>2, <4>1, <4>2 DEF ClientsTypeOK
    <3> QED BY <2>1, <3>3, FirstListAskedFor DEF ListsInv, Idle
  <2>3. Duplicates = {} /\ ~Exposed
    BY <2>1 DEF Duplicates, Exposed, FirstList, Idle, Stale
  <2> QED BY <2>2, <2>3, FS_EmptySet DEF ClientsInv, Paid
<1>2. ClientsInv /\ [ClientsNext]_clientsVars => ClientsInv'
  BY ClientsTypesStep, ListsInvStep, PaidStep DEF ClientsInv
<1>3. ClientsInv => DuplicatesCostFaults
  <2> SUFFICES ASSUME ClientsInv PROVE DuplicatesCostFaults
    OBVIOUS
  <2>1. IsFiniteSet(1 .. Len(clients)) /\ Duplicates \in SUBSET (1 .. Len(clients))
    BY FS_Interval DEF Duplicates, ClientsInv, ClientsTypeOK
  <2>2. Cardinality(Duplicates) \in Nat /\ Cardinality(abandoned) \in Nat
    BY <2>1, FS_Subset, FS_CardinalityType DEF ClientsInv
  <2>3. faults \in Nat
    BY ClientsAssumption DEF ClientsInv, ClientsTypeOK
  <2> QED BY <2>2, <2>3 DEF ClientsInv, Paid, DuplicatesCostFaults
<1> QED BY <1>1, <1>2, <1>3, PagesAreTheirOwn, PTL DEF ClientsSpec

-----------------------------------------------------------------------------
(* Compose: the types of the page and of what it has sent, and those of    *)
(* its counts.                                                             *)
PageTypes ==
    /\ mailboxes \in {"loading", "none", "some"}
    /\ picked \in Files \cup {NoFile} /\ attachment \in Files \cup {NoFile}
    /\ posts \subseteq Posts /\ queued \subseteq Posts /\ lost \subseteq Posts
    /\ cleared \in BOOLEAN
CountTypes ==
    /\ typed \in 0 .. MaxDrafts /\ draft \in 0 .. typed
    /\ sending \in 0 .. pressed /\ pressed \in 0 .. MaxPosts
    /\ meanwhile \subseteq 1 .. typed /\ dropped \subseteq 1 .. typed

LEMMA ComposeTypeParts == ComposeTypeOK <=> PageTypes /\ CountTypes
BY DEF ComposeTypeOK, PageTypes, CountTypes

LEMMA PageTypesStep ==
    ASSUME ComposeTypeOK, [ComposeNext]_composeVars
    PROVE  PageTypes'
<1> USE ComposeAssumption DEF ComposeTypeOK, PageTypes, screen, history, Drop
<1>1. CASE FetchMailboxes
  BY <1>1 DEF FetchMailboxes
<1>2. CASE TypeDraft
  BY <1>2 DEF TypeDraft
<1>3. CASE Clear
  BY <1>3 DEF Clear
<1>4. CASE HandleSend
  <2> DEFINE p == [no |-> pressed + 1, draft |-> draft, file |-> attachment,
                   showing |-> picked, stale |-> cleared]
  <2>1. p \in Posts
    BY <1>4 DEF HandleSend, CanSend, Posts, Drafts
  <2>2. posts' = posts \cup {p}
    BY <1>4 DEF HandleSend
  <2> HIDE DEF p
  <2> QED BY <1>4, <2>1, <2>2 DEF HandleSend
<1>5. CASE ReopenCompose
  BY <1>5 DEF ReopenCompose
<1>6. ASSUME NEW f \in Files \cup {NoFile}, PickFile(f) PROVE PageTypes'
  BY <1>6 DEF PickFile
<1>7. ASSUME NEW p \in posts, Enqueue(p) PROVE PageTypes'
  BY <1>7 DEF Enqueue
<1>8. ASSUME NEW p \in posts, Sent(p) PROVE PageTypes'
  BY <1>8 DEF Sent
<1>9. ASSUME NEW p \in posts, SendFails(p) PROVE PageTypes'
  BY <1>9 DEF SendFails
<1>10. ASSUME NEW p \in posts, LoseAnswer(p) PROVE PageTypes'
  BY <1>10 DEF LoseAnswer
<1>11. ASSUME NEW p \in posts, Unawaited(p) PROVE PageTypes'
  BY <1>11 DEF Unawaited
<1>12. CASE UNCHANGED composeVars
  BY <1>12 DEF composeVars
<1> QED BY <1>1, <1>2, <1>3, <1>4, <1>5, <1>6, <1>7, <1>8, <1>9, <1>10, <1>11, <1>12
        DEF ComposeNext

LEMMA CountTypesStep ==
    ASSUME ComposeTypeOK, [ComposeNext]_composeVars
    PROVE  CountTypes'
<1> USE ComposeAssumption DEF ComposeTypeOK, CountTypes, screen, history, Drop
<1>1. CASE FetchMailboxes
  BY <1>1 DEF FetchMailboxes
<1>2. CASE TypeDraft
  BY <1>2 DEF TypeDraft
<1>3. CASE Clear
  BY <1>3 DEF Clear
<1>4. CASE HandleSend
  BY <1>4 DEF HandleSend
<1>5. CASE ReopenCompose
  BY <1>5 DEF ReopenCompose
<1>6. ASSUME NEW f \in Files \cup {NoFile}, PickFile(f) PROVE CountTypes'
  BY <1>6 DEF PickFile
<1>7. ASSUME NEW p \in posts, Enqueue(p) PROVE CountTypes'
  BY <1>7 DEF Enqueue
<1>8. ASSUME NEW p \in posts, Sent(p) PROVE CountTypes'
  BY <1>8 DEF Sent
<1>9. ASSUME NEW p \in posts, SendFails(p) PROVE CountTypes'
  BY <1>9 DEF SendFails
<1>10. ASSUME NEW p \in posts, LoseAnswer(p) PROVE CountTypes'
  BY <1>10 DEF LoseAnswer
<1>11. ASSUME NEW p \in posts, Unawaited(p) PROVE CountTypes'
  BY <1>11 DEF Unawaited
<1>12. CASE UNCHANGED composeVars
  BY <1>12 DEF composeVars
<1> QED BY <1>1, <1>2, <1>3, <1>4, <1>5, <1>6, <1>7, <1>8, <1>9, <1>10, <1>11, <1>12
        DEF ComposeNext

(* The page only ever sends a draft that was typed and a file that was     *)
(* picked.                                                                 *)
LEMMA ComposeTypes == ComposeSpec => []ComposeTypeOK
<1>1. ComposeInit => PageTypes
  BY DEF ComposeInit, PageTypes
<1>2. ComposeInit => CountTypes
  BY ComposeAssumption DEF ComposeInit, CountTypes
<1>3. ComposeTypeOK /\ [ComposeNext]_composeVars => ComposeTypeOK'
  BY PageTypesStep, CountTypesStep, ComposeTypeParts
     DEF ComposeTypeOK, PageTypes, CountTypes
<1> QED BY <1>1, <1>2, <1>3, ComposeTypeParts, PTL DEF ComposeSpec

(* The POST that is awaited is of the draft on the screen, unless that was *)
(* typed since.                                                            *)
Awaited ==
    /\ \A p \in posts : p.no <= pressed
    /\ \A p \in posts : sending = p.no => draft \in {0, p.draft} \cup meanwhile

LEMMA AwaitedStep ==
    ASSUME ComposeTypeOK, Awaited, [ComposeNext]_composeVars
    PROVE  Awaited'
<1> USE DEF ComposeTypeOK, Posts, Drafts, Awaited, screen, history, Drop
<1>1. CASE FetchMailboxes
  BY <1>1 DEF FetchMailboxes
<1>2. CASE TypeDraft
  BY <1>2 DEF TypeDraft
<1>3. CASE Clear
  BY <1>3 DEF Clear
<1>4. CASE HandleSend
  BY <1>4 DEF HandleSend, CanSend
<1>5. CASE ReopenCompose
  BY <1>5 DEF ReopenCompose
<1>6. ASSUME NEW f \in Files \cup {NoFile}, PickFile(f) PROVE Awaited'
  BY <1>6 DEF PickFile
<1>7. ASSUME NEW p \in posts, Enqueue(p) \/ Unawaited(p) PROVE Awaited'
  BY <1>7 DEF Enqueue, Unawaited
<1>8. ASSUME NEW p \in posts, Sent(p) \/ SendFails(p) \/ LoseAnswer(p)
      PROVE  Awaited'
  BY <1>8 DEF Sent, SendFails, LoseAnswer
<1>9. CASE UNCHANGED composeVars
  BY <1>9 DEF composeVars
<1> QED BY <1>1, <1>2, <1>3, <1>4, <1>5, <1>6, <1>7, <1>8, <1>9 DEF ComposeNext

(* A draft leaves the screen only into the queue, or because the user took *)
(* it away.                                                                *)
LEMMA NothingVanishesStep ==
    ASSUME ComposeTypeOK, Awaited, NothingVanishes, [ComposeNext]_composeVars
    PROVE  NothingVanishes'
<1> USE DEF ComposeTypeOK, Posts, Drafts, NothingVanishes, screen, history
<1>1. CASE FetchMailboxes
  BY <1>1 DEF FetchMailboxes
<1>2. CASE TypeDraft
  BY <1>2 DEF TypeDraft, Drop
<1>3. CASE Clear
  BY <1>3 DEF Clear, Drop
<1>4. CASE HandleSend
  BY <1>4 DEF HandleSend
<1>5. CASE ReopenCompose
  BY <1>5 DEF ReopenCompose, Drop
<1>6. ASSUME NEW f \in Files \cup {NoFile}, PickFile(f) PROVE NothingVanishes'
  BY <1>6 DEF PickFile
<1>7. ASSUME NEW p \in posts, Enqueue(p) PROVE NothingVanishes'
  BY <1>7 DEF Enqueue
<1>8. ASSUME NEW p \in posts, Sent(p) PROVE NothingVanishes'
  BY <1>8 DEF Sent, Awaited
<1>9. ASSUME NEW p \in posts, SendFails(p) \/ LoseAnswer(p) \/ Unawaited(p)
      PROVE  NothingVanishes'
  BY <1>9 DEF SendFails, LoseAnswer, Unawaited
<1>10. CASE UNCHANGED composeVars
  BY <1>10 DEF composeVars
<1> QED BY <1>1, <1>2, <1>3, <1>4, <1>5, <1>6, <1>7, <1>8, <1>9, <1>10
        DEF ComposeNext

(* No draft vanishes, however often the button is pressed and whatever     *)
(* becomes of the POSTs: it is on the screen, queued, dropped by the user, *)
(* or was typed while another was being sent.                              *)
THEOREM DraftsDoNotVanish == Spec => []NothingVanishes
<1>1. ComposeInit => Awaited /\ NothingVanishes
  BY DEF ComposeInit, Awaited, NothingVanishes
<1> QED BY <1>1, ComposeTypes, AwaitedStep, NothingVanishesStep, PagesAreTheirOwn,
           PTL DEF ComposeSpec

-----------------------------------------------------------------------------
(* A POST that may still become a job, or has become one, and whose answer *)
(* was not lost.                                                           *)
Accounted == (posts \cup queued) \ lost

(* There is at most one of them for a draft, and the one of the draft on   *)
(* the screen is being awaited: the button is disabled.                    *)
OneAttempt ==
    /\ IsFiniteSet(lost)
    /\ \A p \in posts \cup queued : p.no <= pressed /\ p.draft <= typed
    /\ \A p, q \in posts \cup queued : p.no = q.no => p = q
    /\ \A p, q \in Accounted : p.draft = q.draft => p = q
    /\ \A p \in Accounted : p.draft = draft => sending = p.no

LEMMA OneAttemptStep ==
    ASSUME ComposeTypeOK, OneAttempt, [ComposeNext]_composeVars
    PROVE  OneAttempt'
<1> USE DEF ComposeTypeOK, Posts, Drafts, OneAttempt, Accounted, screen, history
<1>1. CASE FetchMailboxes
  BY <1>1 DEF FetchMailboxes
<1>2. CASE TypeDraft
  BY <1>2 DEF TypeDraft
<1>3. CASE Clear
  BY <1>3 DEF Clear
<1>4. CASE HandleSend
  <2> DEFINE new == [no |-> pressed + 1, draft |-> draft, file |-> attachment,
                     showing |-> picked, stale |-> cleared]
  <2>1. new.no = pressed + 1 /\ new.draft = draft /\ draft # 0 /\ sending = 0
    BY <1>4 DEF HandleSend, CanSend
  <2>2. posts' = posts \cup {new} /\ pressed' = pressed + 1 /\ sending' = pressed + 1
    BY <1>4 DEF HandleSend
  <2>3. UNCHANGED <<typed, draft, queued, lost>>
    BY <1>4 DEF HandleSend
  <2>4. \A p \in Accounted : p.draft # draft
    BY <2>1
  <2> HIDE DEF new
  <2> QED BY <2>1, <2>2, <2>3, <2>4
<1>5. CASE ReopenCompose
  BY <1>5 DEF ReopenCompose
<1>6. ASSUME NEW f \in Files \cup {NoFile}, PickFile(f) PROVE OneAttempt'
  BY <1>6 DEF PickFile
<1>7. ASSUME NEW p \in posts, Enqueue(p) \/ Unawaited(p) PROVE OneAttempt'
  BY <1>7 DEF Enqueue, Unawaited
<1>8. ASSUME NEW p \in posts, Sent(p) PROVE OneAttempt'
  BY <1>8 DEF Sent
<1>9. ASSUME NEW p \in posts, SendFails(p) PROVE OneAttempt'
  BY <1>9 DEF SendFails
<1>10. ASSUME NEW p \in posts, LoseAnswer(p) PROVE OneAttempt'
  BY <1>10, FS_AddElement DEF LoseAnswer
<1>11. CASE UNCHANGED composeVars
  BY <1>11 DEF composeVars
<1> QED BY <1>1, <1>2, <1>3, <1>4, <1>5, <1>6, <1>7, <1>8, <1>9, <1>10, <1>11
        DEF ComposeNext

(* The jobs of a draft are attempts whose answers were lost, and one more. *)
LEMMA OneAttemptCounts == ComposeTypeOK /\ OneAttempt => TwiceNeedsLostAnswer
<1> SUFFICES ASSUME ComposeTypeOK, OneAttempt, NEW d \in 1 .. typed
             PROVE  Cardinality({p \in queued : p.draft = d})
                        <= 1 + Cardinality({p \in lost : p.draft = d})
  BY DEF TwiceNeedsLostAnswer
<1> DEFINE jobs == {p \in queued : p.draft = d}
           failures == {p \in lost : p.draft = d}
<1>1. IsFiniteSet(failures) /\ Cardinality(failures) \in Nat
  BY FS_Subset, FS_CardinalityType DEF OneAttempt
<1>2. CASE jobs \subseteq failures
  BY <1>1, <1>2, FS_Subset, FS_CardinalityType
<1>3. CASE ~(jobs \subseteq failures)
  <2>1. PICK p \in jobs : p \notin failures
    BY <1>3
  <2>2. jobs \subseteq failures \cup {p}
    BY <2>1 DEF OneAttempt, Accounted
  <2>3. /\ IsFiniteSet(failures \cup {p})
        /\ Cardinality(failures \cup {p}) = Cardinality(failures) + 1
    BY <1>1, <2>1, FS_AddElement
  <2>4. /\ Cardinality(jobs) <= Cardinality(failures \cup {p})
        /\ Cardinality(jobs) \in Nat
    BY <2>2, <2>3, FS_Subset, FS_CardinalityType
  <2> HIDE DEF jobs, failures
  <2>5. Cardinality(jobs) <= 1 + Cardinality(failures)
    BY <1>1, <2>3, <2>4
  <2> QED BY <2>5 DEF jobs, failures
<1> QED BY <1>2, <1>3

(* A draft becomes one job more than answers to its POSTs were lost, and   *)
(* not more: neither the button, nor a refusal, nor leaving the page and   *)
(* coming back sends a mail twice.                                         *)
THEOREM OneMailPerDraft == Spec => []TwiceNeedsLostAnswer
<1>1. ComposeInit => OneAttempt
  BY FS_EmptySet DEF ComposeInit, OneAttempt, Accounted
<1> QED BY <1>1, ComposeTypes, OneAttemptStep, OneAttemptCounts, PagesAreTheirOwn,
           PTL DEF ComposeSpec

-----------------------------------------------------------------------------
(* The input of the file and the file that will be sent differ only after  *)
(* an answer has cleared the form.                                         *)
WithFile(file, showing, stale) == file = showing \/ (stale /\ file = NoFile)
FilesAgree ==
    /\ WithFile(attachment, picked, cleared)
    /\ \A p \in posts \cup queued : WithFile(p.file, p.showing, p.stale)

LEMMA FilesAgreeStep ==
    ASSUME FilesAgree, [ComposeNext]_composeVars
    PROVE  FilesAgree'
<1> USE DEF FilesAgree, WithFile, screen, history
<1>1. CASE FetchMailboxes
  BY <1>1 DEF FetchMailboxes
<1>2. CASE TypeDraft
  BY <1>2 DEF TypeDraft
<1>3. CASE Clear \/ ReopenCompose
  BY <1>3 DEF Clear, ReopenCompose
<1>4. CASE HandleSend
  BY <1>4 DEF HandleSend
<1>5. ASSUME NEW f \in Files \cup {NoFile}, PickFile(f) PROVE FilesAgree'
  BY <1>5 DEF PickFile
<1>6. ASSUME NEW p \in posts, Enqueue(p) PROVE FilesAgree'
  BY <1>6 DEF Enqueue
<1>7. ASSUME NEW p \in posts, Sent(p) PROVE FilesAgree'
  BY <1>7 DEF Sent
<1>8. ASSUME NEW p \in posts, SendFails(p) \/ LoseAnswer(p) \/ Unawaited(p)
      PROVE  FilesAgree'
  BY <1>8 DEF SendFails, LoseAnswer, Unawaited
<1>9. CASE UNCHANGED composeVars
  BY <1>9 DEF composeVars
<1> QED BY <1>1, <1>2, <1>3, <1>4, <1>5, <1>6, <1>7, <1>8, <1>9 DEF ComposeNext

(* A job has the file that the page showed when the button was pressed;    *)
(* the exception is a form that an answer had cleared, whose job has none. *)
THEOREM FilesGoAlong == Spec => []ShownFileIsSent
<1>1. ComposeInit => FilesAgree
  BY DEF ComposeInit, FilesAgree, WithFile
<1>2. FilesAgree => ShownFileIsSent
  BY DEF FilesAgree, WithFile, ShownFileIsSent
<1> QED BY <1>1, <1>2, FilesAgreeStep, PagesAreTheirOwn, PTL DEF ComposeSpec

-----------------------------------------------------------------------------
(* A row that gives grounds to call its mailbox expired at time t: it      *)
(* names an expiry that is not later, or none and the settings page reads. *)
Grounds(e, p, t) == e # Absent /\ IF e = Never THEN p = "settings" ELSE e <= t

(* A page judges by a clock that was read before, and what has expired     *)
(* stays expired.                                                          *)
JudgedInThePast ==
    /\ now \in Nat
    /\ expiry \in TokenRows /\ request.of \in TokenRows
    /\ request.page \in Pages \cup {"none"}
    /\ request.at \in 0 .. now
    /\ board.of \in TokenRows /\ board.expired \subseteq Mailboxes
    /\ \A m \in board.expired : Grounds(board.of[m], board.page, now)
    /\ request = [page |-> request.page, left |-> request.left,
                  at |-> request.at, of |-> request.of]

(* No page calls a mailbox expired without grounds in its row. *)
LEMMA JudgeHasGrounds ==
    ASSUME NEW p \in Pages, NEW of \in TokenRows, NEW t \in Nat,
           NEW m \in Judge(p, of, t)
    PROVE  m \in Mailboxes /\ Grounds(of[m], p, t)
<1>1. m \in Mailboxes /\ of[m] # Absent /\ of[m] \in Expiries
  BY DEF Judge, TokenRows
<1>2. CASE p = "mailboxes"
  BY <1>1, <1>2, ExpiryAssumption
     DEF Judge, MailboxActive, Known, Grounds, Expiries
<1>3. CASE p = "clients"
  <2>1. ~ClientActive(of, ClientOf[m], t)
    BY <1>3 DEF Judge
  <2>2. ~(of[m] = Never \/ (Known(of[m]) /\ of[m] > t))
    BY <1>1, <2>1 DEF ClientActive
  <2> QED BY <1>1, <2>2, ExpiryAssumption DEF Known, Grounds, Expiries
<1>4. CASE p = "settings"
  BY <1>1, <1>4, ExpiryAssumption
     DEF Judge, SettingsExpired, Known, Grounds, Expiries
<1> QED BY <1>1, <1>2, <1>3, <1>4 DEF Pages

LEMMA JudgedInThePastStep ==
    ASSUME JudgedInThePast, [ExpiryNext]_expiryVars
    PROVE  JudgedInThePast'
<1> USE ExpiryAssumption DEF JudgedInThePast
<1>1. CASE Tick
  BY <1>1 DEF Tick, Grounds, TokenRows, Expiries
<1>2. ASSUME NEW m \in Mailboxes, NEW e \in Expiries, LinkToken(m, e)
      PROVE  JudgedInThePast'
  BY <1>2 DEF LinkToken, TokenRows
<1>3. ASSUME NEW m \in Mailboxes, NEW life \in Lifetimes, RefreshToken(m, life)
      PROVE  JudgedInThePast'
  <2>1. now + life \in Expiries
    BY DEF Expiries
  <2> QED BY <1>3, <2>1 DEF RefreshToken, TokenRows
<1>4. ASSUME NEW p \in Pages, AskList(p) PROVE JudgedInThePast'
  <2>1. [m \in Mailboxes |-> Absent] \in TokenRows
    BY DEF TokenRows, Expiries
  <2> QED BY <1>4, <2>1 DEF AskList, Request, Blank
<1>5. CASE ReadClock
  <2>1. request' = [request EXCEPT !.left = Tail(@), !.at = now]
    BY <1>5 DEF ReadClock
  <2>2. /\ request'.page = request.page /\ request'.at = now
        /\ request'.of = request.of
        /\ request' = [page |-> request'.page, left |-> request'.left,
                       at |-> request'.at, of |-> request'.of]
    BY <2>1
  <2>3. now' = now /\ expiry' = expiry /\ board' = board
    BY <1>5 DEF ReadClock
  <2> QED BY <2>2, <2>3
<1>6. CASE ReadRows
  BY <1>6 DEF ReadRows
<1>7. CASE Render
  <2> DEFINE t == IF request.page = "settings" THEN now ELSE request.at
  <2>1. request.page \in Pages /\ t \in 0 .. now
    BY <1>7 DEF Render
  <2>2. board' = [page |-> request.page, of |-> request.of,
                  expired |-> Judge(request.page, request.of, t)]
    BY <1>7 DEF Render
  <2>3. \A m \in Judge(request.page, request.of, t) :
            m \in Mailboxes /\ Grounds(request.of[m], request.page, t)
    BY <2>1, JudgeHasGrounds
  <2>4. \A m \in Judge(request.page, request.of, t) :
            m \in Mailboxes /\ Grounds(request.of[m], request.page, now)
    <3>1. \A e \in Expiries, p \in Pages : Grounds(e, p, t) => Grounds(e, p, now)
      BY <2>1 DEF Grounds, Expiries
    <3> HIDE DEF t
    <3> QED BY <2>1, <2>3, <3>1 DEF TokenRows
  <2>5. [m \in Mailboxes |-> Absent] \in TokenRows
    BY DEF TokenRows, Expiries
  <2>6. now' = now /\ expiry' = expiry /\ request' = NoRequest
    BY <1>7 DEF Render
  <2> HIDE DEF t
  <2> QED BY <2>2, <2>4, <2>5, <2>6 DEF NoRequest
<1>8. CASE ListFails
  <2>1. [m \in Mailboxes |-> Absent] \in TokenRows
    BY DEF TokenRows, Expiries
  <2> QED BY <1>8, <2>1 DEF ListFails, NoRequest
<1>9. CASE UNCHANGED expiryVars
  BY <1>9 DEF expiryVars
<1>10. Never \in Expiries /\ \A life \in Lifetimes : now + life \in Expiries
  BY DEF Expiries
<1> QED BY <1>1, <1>2, <1>3, <1>4, <1>5, <1>6, <1>7, <1>8, <1>9, <1>10
        DEF ExpiryNext

(* What the clocks say of the rows, in the code that uses the tokens. *)
LEMMA JudgedIsRefused == JudgedInThePast => ExpiredIsRefused
<1> SUFFICES ASSUME JudgedInThePast, NEW m \in board.expired, expiry[m] = board.of[m],
                    ~(expiry[m] = Never /\ board.page = "settings")
             PROVE  /\ InboundRefused(expiry[m], now)
                    /\ SendRefused(expiry[m], now) \/ expiry[m] = now
  BY DEF ExpiredIsRefused
<1>1. Grounds(expiry[m], board.page, now) /\ expiry[m] \in Expiries /\ now \in Nat
  BY DEF JudgedInThePast, TokenRows
<1> QED BY <1>1, ExpiryAssumption DEF Grounds, Expiries, InboundRefused, SendRefused, Known

(* A mailbox that a page calls expired is refused by the webhooks and, but *)
(* for its very instant, by the worker that sends, unless its row has been *)
(* written since: however slow the request and however old the page.       *)
THEOREM ExpiredMailboxesAreRefused == Spec => []ExpiredIsRefused
<1>1. ExpiryInit => JudgedInThePast
  <2>1. [m \in Mailboxes |-> Absent] \in TokenRows
    BY DEF TokenRows, Expiries
  <2> QED BY <2>1 DEF ExpiryInit, JudgedInThePast, NoRequest, Blank
<1> QED BY <1>1, JudgedInThePastStep, JudgedIsRefused, PagesAreTheirOwn,
           PTL DEF ExpirySpec

=============================================================================
