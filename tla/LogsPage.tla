------------------------------ MODULE LogsPage ------------------------------
(***************************************************************************)
(* LogsPage: which rows of table event the logs page shows.  The server    *)
(* filters by provider, client and date and returns the newest rows; the   *)
(* page filters what it holds a second time, by rules of its own, until    *)
(* the answer to its newest query replaces it.  Times are hours, a date is *)
(* the number of a day, and a day begins at midnight UTC on the server and *)
(* at midnight of the browser's zone on the page.                          *)
(***************************************************************************)
EXTENDS Integers, FiniteSets

CONSTANTS
    Providers,  \* what an event's provider may be, apart from its spelling
    Owners,     \* the clients whose mailboxes have events
    Times,      \* bound: when events happen
    Dates,      \* bound: the dates that are chosen
    Zones,      \* the hours browsers are ahead of UTC
    Limit,      \* how many rows the server returns (100)
    All,        \* a filter that is not set
    MaxRows,    \* bound: rows stored
    MaxQueries  \* bound: queries of one visit of the page

ASSUME LogsAssumption ==
    /\ Times \subseteq Int /\ Dates \subseteq Int
    /\ Zones \subseteq -12 .. 14
    /\ Limit \in Nat \ {0} /\ MaxRows \in Nat /\ MaxQueries \in Nat \ {0}
    /\ All \notin Providers /\ All \notin Owners /\ All \notin Dates

VARIABLES
    rows,     \* table event
    zone,     \* of the browser
    chosen,   \* the filters that are set
    queries,  \* those not answered yet
    asked,    \* how many there were on this visit
    logs,     \* the answer the page holds
    loading   \* whether a spinner stands in for the table

logsVars == <<rows, zone, chosen, queries, asked, logs, loading>>

(* plain: the provider is spelled as in the page's menu, without a capital *)
(* or a space.  Events that POST /events stores may be spelled anyhow.     *)
Rows == [no : 1 .. MaxRows, provider : Providers, plain : BOOLEAN,
         owner : Owners, time : Times]
Filters == [provider : Providers \cup {All}, owner : Owners \cup {All},
            date : Dates \cup {All}]
NoFilter == [provider |-> All, owner |-> All, date |-> All]
Answers == [no : 0 .. MaxQueries, filter : Filters, read : BOOLEAN,
            of : SUBSET Rows, got : SUBSET Rows]
Query(n, f) == [no |-> n, filter |-> f, read |-> FALSE, of |-> {}, got |-> {}]

LogsTypeOK ==
    /\ rows \subseteq Rows
    /\ zone \in Zones
    /\ chosen \in Filters
    /\ queries \subseteq Answers
    /\ asked \in 0 .. MaxQueries
    /\ logs \in Answers
    /\ loading \in BOOLEAN

-----------------------------------------------------------------------------
(* Mutant: the end is the last hour of the day, and excluded. *)
InDay_EndsEarly(t, d) == 24 * d <= t /\ t < 24 * d + 23

(* From midnight UTC of the date to the next one. *)
InDay(t, d) == 24 * d <= t /\ t < 24 * d + 24

(* The conditions of list, each there if its parameter is. *)
Selects(f, r) ==
    /\ f.provider \in {All, r.provider}
    /\ f.owner \in {All, r.owner}
    /\ f.date # All => InDay(r.time, f.date)

(* ORDER BY timestamp DESC, LIMIT: of rows of one time any may be left out.*)
Newest(S) ==
    {T \in SUBSET S :
        /\ Cardinality(T) = IF Cardinality(S) < Limit THEN Cardinality(S)
                                                      ELSE Limit
        /\ \A r \in T, s \in S \ T : s.time <= r.time}

(* toDateString: the day it is in the browser. *)
LocalDay(t) == (t + zone) \div 24

(* The conditions of filteredLogs.  new Date(selectedDate) is midnight UTC.*)
Keeps(f, r) ==
    /\ f.provider # All => f.provider = r.provider /\ r.plain
    /\ f.owner \in {All, r.owner}
    /\ f.date # All => LocalDay(r.time) = LocalDay(24 * f.date)

(* What the CSV file holds, and the table unless a spinner stands in. *)
filteredLogs == {r \in logs.got : Keeps(chosen, r)}

Table == IF loading THEN {} ELSE filteredLogs

-----------------------------------------------------------------------------
LogsInit ==
    /\ rows = {}
    /\ zone \in Zones
    /\ chosen = NoFilter
    /\ queries = {Query(1, NoFilter)} /\ asked = 1
    /\ logs = [Query(0, NoFilter) EXCEPT !.read = TRUE]
    /\ loading = TRUE

(* An event is saved, with the time it was given. *)
StoreEvent ==
    \E p \in Providers, plain \in BOOLEAN, o \in Owners, t \in Times :
        /\ Cardinality(rows) < MaxRows
        /\ rows' = rows \cup {[no |-> Cardinality(rows) + 1, provider |-> p,
                               plain |-> plain, owner |-> o, time |-> t]}
        /\ UNCHANGED <<zone, chosen, queries, asked, logs, loading>>

(* fetchLogs with the filters f. *)
fetchLogs(f) ==
    /\ asked < MaxQueries
    /\ asked' = asked + 1
    /\ queries' = queries \cup {Query(asked + 1, f)}
    /\ loading' = TRUE
    /\ UNCHANGED <<rows, zone, logs>>

(* The refresh button, or an email_event. *)
RefreshLogs == fetchLogs(chosen) /\ UNCHANGED chosen

(* Another provider, client or date is chosen. *)
SelectFilter(f) ==
    /\ f # chosen
    /\ chosen' = f
    /\ fetchLogs(f)

(* The server runs the query. *)
ListEvents(q) ==
    /\ ~q.read
    /\ \E got \in Newest({r \in rows : Selects(q.filter, r)}) :
         queries' = (queries \ {q}) \cup
                        {[q EXCEPT !.read = TRUE, !.of = rows, !.got = got]}
    /\ UNCHANGED <<rows, zone, chosen, asked, logs, loading>>

(* An answer arrives, in any order. *)
LogsArrive(q) ==
    /\ q.read
    /\ queries' = queries \ {q}
    /\ logs' = q
    /\ loading' = FALSE
    /\ UNCHANGED <<rows, zone, chosen, asked>>

LogsFail(q) ==
    /\ queries' = queries \ {q}
    /\ loading' = FALSE
    /\ UNCHANGED <<rows, zone, chosen, asked, logs>>

(* The page is left and opened again. *)
ReopenLogs ==
    /\ chosen' = NoFilter
    /\ queries' = {Query(1, NoFilter)} /\ asked' = 1
    /\ logs' = [Query(0, NoFilter) EXCEPT !.read = TRUE]
    /\ loading' = TRUE
    /\ UNCHANGED <<rows, zone>>

LogsNext ==
    \/ StoreEvent \/ RefreshLogs \/ ReopenLogs
    \/ \E f \in Filters : SelectFilter(f)
    \/ \E q \in queries : ListEvents(q) \/ LogsArrive(q) \/ LogsFail(q)

LogsSpec == LogsInit /\ [][LogsNext]_logsVars

-----------------------------------------------------------------------------
(* The page shows the answer to its present filters, and no event has been *)
(* stored since it was read.                                               *)
LogsSettled == ~loading /\ logs.filter = chosen /\ logs.of = rows

(* The rows the user asks for, a date being a day of UTC. *)
Wanted ==
    {r \in rows :
        /\ chosen.provider # All => chosen.provider = r.provider
        /\ chosen.owner # All => chosen.owner = r.owner
        /\ chosen.date # All => r.time \div 24 = chosen.date}

(* Those the page is to show, but for the ones that the limit leaves out   *)
(* and the ones that are spelled in another way.                           *)
Due ==
    {r \in Wanted :
        /\ chosen.provider # All => r.plain
        /\ Cardinality({s \in Wanted : s.time >= r.time}) <= Limit}

(* The two filters, one after the other, hide no row that is due, except   *)
(* where the browser's day is not the day of UTC: if a date is chosen east *)
(* of it, the last hours, and west of it, all but the first.               *)
MissingByZone ==
    LogsSettled =>
        \A r \in Due \ Table :
            /\ chosen.date # All
            /\ LET hour == r.time - 24 * chosen.date
               IN \/ zone > 0 /\ hour >= 24 - zone
                  \/ zone < 0 /\ hour >= -zone

=============================================================================
