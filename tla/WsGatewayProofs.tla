-------------------------- MODULE WsGatewayProofs --------------------------
(***************************************************************************)
(* WsGateway for every set of processes, dashboards and messages, and      *)
(* however often connections to Redis are lost: each part of the inductive *)
(* invariant Inv is preserved by every action, given the parts its lemma   *)
(* names.                                                                  *)
(***************************************************************************)
EXTENDS WsGateway, TLAPS, SequenceTheorems, FiniteSetTheorems

(* A dashboard is connected to a process that is up, and to one that       *)
(* listens unless it is in gap; one that is not connected has no events.   *)
ConnInv ==
    \A b \in Browsers :
        /\ conn[b] # Nowhere => phase[conn[b]] \in {"ready", "lost"}
        /\ conn[b] # Nowhere /\ b \notin gap => phase[conn[b]] = "ready"
        /\ conn[b] = Nowhere => received[b] = <<>>

(* What is in an inbox was sent to a subscriber. *)
InboxInv == \A i \in Instances : inbox[i] # <<>> => Subscribed(i)

(* Redis answers and executes what it was sent, in order. *)
LenInv ==
    \A i \in Instances : Len(answers[i]) <= Len(asked[i]) /\ executed[i] <= Len(pubs[i])

(* The INCR at place k is not answered, or its answer not read. *)
IncrAt(i, k) == k \in 1 .. Len(asked[i]) /\ asked[i][k].kind = "incr"

(* A message is at one place, in the process that emitted it: among the    *)
(* notices that await their number, or among the PUBLISHes.                *)
PlaceInv ==
    /\ \A e, f \in emitted : e[2] = f[2] => e = f
    /\ \A i \in Instances, k \in Nat : IncrAt(i, k) =>
         /\ asked[i][k].msg \in Notices
         /\ <<i, asked[i][k].msg>> \in emitted
         /\ \A j \in Nat : IncrAt(i, j) /\ asked[i][j].msg = asked[i][k].msg => j = k
    /\ \A i \in Instances : \A k \in 1 .. Len(pubs[i]) :
         /\ <<i, pubs[i][k].msg>> \in emitted
         /\ \A j \in 1 .. Len(pubs[i]) : pubs[i][j].msg = pubs[i][k].msg => j = k
         /\ \A j \in Nat : IncrAt(i, j) => asked[i][j].msg # pubs[i][k].msg

(* The present PUBLISH of m is still to be executed, ...                   *)
Waiting(m) ==
    \/ New(m)
    \/ \E i \in Instances, k \in Nat : IncrAt(i, k) /\ asked[i][k].msg = m
    \/ \E i \in Instances : \E k \in executed[i] + 1 .. Len(pubs[i]) : pubs[i][k].msg = m

(* ... so that this copy of a message was not published yet.               *)
Fresh(c) ==
    \/ c.no > resent[c.msg]
    \/ c.no = resent[c.msg] /\ Waiting(c.msg)

(* The order in which Redis published the copies, numbered by rank.        *)
Ordered(rank, n) ==
    /\ \A c \in Copies : rank[c] <= n /\ (Fresh(c) => rank[c] = 0)
    /\ \A i \in Instances : \A k \in 1 .. Len(inbox[i]) :
         /\ rank[inbox[i][k].copy] > 0
         /\ \A j \in 1 .. Len(inbox[i]) :
              j < k => rank[inbox[i][j].copy] < rank[inbox[i][k].copy]
    /\ \A b \in Browsers : \A k \in 1 .. Len(received[b]) :
         /\ rank[received[b][k]] > 0
         /\ \A j \in 1 .. Len(received[b]) :
              j < k => rank[received[b][j]] < rank[received[b][k]]
         /\ conn[b] # Nowhere =>
              \A j \in 1 .. Len(inbox[conn[b]]) :
                  rank[received[b][k]] < rank[inbox[conn[b]][j].copy]

(* Dashboards get copies, and find them in the inbox of their process, in  *)
(* the order in which they were published, each published once.            *)
OrderInv == \E rank \in [Copies -> Nat], n \in Nat : Ordered(rank, n)

(* DueIsComing, with the places of an inbox as numbers. *)
Coming(b, c) ==
    conn[b] # Nowhere /\ \E k \in 1 .. Len(inbox[conn[b]]) : inbox[conn[b]][k].copy = c

DueInv == \A b \in Browsers : \A c \in due[b] : Coming(b, c)

(* No other process notifies. *)
Sole(i) == \A e \in emitted : e[2] \in Notices => e[1] = i

NoticePub(i, k) == k \in 1 .. Len(pubs[i]) /\ pubs[i][k].msg \in Notices
NoticeAt(i, k) == k \in 1 .. Len(inbox[i]) /\ inbox[i][k].copy.msg \in Notices

NoIncr(i) == \A j \in Nat : ~IncrAt(i, j)
NoNoticeLeft(i) == \A j \in Nat : NoticePub(i, j) => j <= executed[i]

(* The last answer is up to date unless that of an INCR follows; ...       *)
AnswersCurrent(i) ==
    \A k \in 1 .. Len(answers[i]) :
       (\A j \in 1 .. Len(answers[i]) : IncrAt(i, j) => j <= k) => answers[i][k] = counter

(* ... when none awaits its number, so is the last notice published; ...   *)
PubsCurrent(i) ==
    NoIncr(i) =>
       \A k \in Nat : NoticePub(i, k) /\ (\A j \in Nat : NoticePub(i, j) => j <= k)
                        => pubs[i][k].count = counter

(* ... when that was executed, so is the last one in the inbox; ...        *)
InboxCurrent(i) ==
    NoIncr(i) /\ NoNoticeLeft(i) =>
       \A k \in Nat : NoticeAt(i, k) /\ (\A j \in Nat : NoticeAt(i, j) => j <= k)
                        => inbox[i][k].count = counter

(* ... and when nothing is on its way, what the dashboards show.           *)
ShownCurrent(i) ==
    Len(asked[i]) = 0 /\ NoNoticeLeft(i) /\ (\A k \in Nat : ~NoticeAt(i, k)) =>
       \A b \in Browsers \ gap : conn[b] = i => shown[b] = counter

CountAt(i) == AnswersCurrent(i) /\ PubsCurrent(i) /\ InboxCurrent(i) /\ ShownCurrent(i)

CountInv == \A i \in Instances : Sole(i) => CountAt(i)

Inv == TypeOK /\ ConnInv /\ InboxInv /\ LenInv /\ PlaceInv /\ OrderInv
         /\ DueInv /\ CountInv

-----------------------------------------------------------------------------
(* The length and the elements of a sequence. *)
LEMMA SeqIs ==
    ASSUME NEW S, NEW s \in Seq(S)
    PROVE  /\ Len(s) \in Nat /\ DOMAIN s = 1 .. Len(s)
           /\ \A k \in 1 .. Len(s) : s[k] \in S
           /\ s = <<>> <=> Len(s) = 0
BY LenProperties, ElementOfSeq, EmptySeq

(* One of a family of sequences is appended to, ...                        *)
LEMMA AppendAt ==
    ASSUME NEW I, NEW S, NEW f \in [I -> Seq(S)], NEW i \in I, NEW e \in S
    PROVE  LET g == [f EXCEPT ![i] = Append(@, e)] IN
             /\ g \in [I -> Seq(S)]
             /\ \A q \in I : q # i => g[q] = f[q]
             /\ Len(f[i]) \in Nat /\ Len(g[i]) = Len(f[i]) + 1
             /\ \A k \in 1 .. Len(f[i]) : g[i][k] = f[i][k]
             /\ g[i][Len(f[i]) + 1] = e
<1> DEFINE g == [f EXCEPT ![i] = Append(@, e)]
<1>1. f[i] \in Seq(S) /\ g[i] = Append(f[i], e)
  OBVIOUS
<1>2. /\ Append(f[i], e) \in Seq(S) /\ Len(Append(f[i], e)) = Len(f[i]) + 1
      /\ \A k \in 1 .. Len(f[i]) : Append(f[i], e)[k] = f[i][k]
      /\ Append(f[i], e)[Len(f[i]) + 1] = e
  BY <1>1, AppendProperties
<1>3. g \in [I -> Seq(S)] /\ \A q \in I : q # i => g[q] = f[q]
  BY <1>2
<1>4. Len(f[i]) \in Nat
  BY <1>1, SeqIs
<1> QED BY <1>1, <1>2, <1>3, <1>4

(* ... or loses its first element, ...                                     *)
LEMMA TailAt ==
    ASSUME NEW I, NEW S, NEW f \in [I -> Seq(S)], NEW i \in I, f[i] # <<>>
    PROVE  LET g == [f EXCEPT ![i] = Tail(@)] IN
             /\ g \in [I -> Seq(S)]
             /\ \A q \in I : q # i => g[q] = f[q]
             /\ Len(f[i]) \in Nat \ {0} /\ Len(g[i]) = Len(f[i]) - 1
             /\ \A k \in 1 .. Len(f[i]) - 1 : g[i][k] = f[i][k + 1]
             /\ Head(f[i]) = f[i][1] /\ f[i][1] \in S
<1> DEFINE g == [f EXCEPT ![i] = Tail(@)]
<1>1. f[i] \in Seq(S) /\ g[i] = Tail(f[i])
  OBVIOUS
<1>2. /\ Tail(f[i]) \in Seq(S) /\ Len(Tail(f[i])) = Len(f[i]) - 1
      /\ \A k \in 1 .. Len(Tail(f[i])) : Tail(f[i])[k] = f[i][k + 1]
  BY <1>1, HeadTailProperties
<1>3. g \in [I -> Seq(S)] /\ \A q \in I : q # i => g[q] = f[q]
  BY <1>2
<1>4. Len(f[i]) \in Nat \ {0} /\ f[i][1] \in S
  BY <1>1, SeqIs
<1> QED BY <1>1, <1>2, <1>3, <1>4

(* ... or is emptied, ...                                                  *)
LEMMA ClearAt ==
    ASSUME NEW I, NEW S, NEW f \in [I -> Seq(S)], NEW i \in I
    PROVE  LET g == [f EXCEPT ![i] = <<>>] IN
             /\ g \in [I -> Seq(S)]
             /\ \A q \in I : q # i => g[q] = f[q]
             /\ Len(g[i]) = 0
BY EmptySeq

(* ... or loses its first n elements.                                      *)
LEMMA DropAt ==
    ASSUME NEW I, NEW S, NEW f \in [I -> Seq(S)], NEW i \in I,
           NEW n \in Nat, n <= Len(f[i])
    PROVE  LET g == [f EXCEPT ![i] = SubSeq(@, n + 1, Len(@))] IN
             /\ g \in [I -> Seq(S)]
             /\ \A q \in I : q # i => g[q] = f[q]
             /\ Len(f[i]) \in Nat /\ Len(g[i]) = Len(f[i]) - n
             /\ \A k \in 1 .. Len(f[i]) - n : g[i][k] = f[i][k + n]
<1> DEFINE g == [f EXCEPT ![i] = SubSeq(@, n + 1, Len(@))]
<1>1. f[i] \in Seq(S) /\ g[i] = SubSeq(f[i], n + 1, Len(f[i]))
  OBVIOUS
<1>2. Len(f[i]) \in Nat /\ \A k \in 1 .. Len(f[i]) : f[i][k] \in S
  BY <1>1, SeqIs
<1>3. \A k \in n + 1 .. Len(f[i]) : f[i][k] \in S
  BY <1>2
<1>4. /\ g[i] \in Seq(S)
      /\ Len(g[i]) = IF n + 1 <= Len(f[i]) THEN Len(f[i]) - (n + 1) + 1 ELSE 0
      /\ \A k \in 1 .. Len(f[i]) - (n + 1) + 1 : g[i][k] = f[i][(n + 1) + k - 1]
  <2>1. n + 1 \in Int /\ Len(f[i]) \in Int
    BY <1>2
  <2> QED BY <1>1, <1>3, <2>1, SubSeqProperties
<1>5. Len(g[i]) = Len(f[i]) - n
  BY <1>2, <1>4
<1>6. ASSUME NEW k \in 1 .. Len(f[i]) - n PROVE g[i][k] = f[i][k + n]
  <2>1. k \in 1 .. Len(f[i]) - (n + 1) + 1 /\ (n + 1) + k - 1 = k + n
    BY <1>2
  <2> HIDE DEF g
  <2>2. g[i][k] = f[i][(n + 1) + k - 1]
    BY <1>4, <2>1
  <2> QED BY <2>1, <2>2
<1>7. g \in [I -> Seq(S)] /\ \A q \in I : q # i => g[q] = f[q]
  BY <1>4
<1> QED BY <1>2, <1>5, <1>6, <1>7

(* Lengths are natural, places too, and what is there has its type. *)
LEMMA Typed ==
    ASSUME TypeOK
    PROVE  /\ \A i \in Instances :
                /\ Len(inbox[i]) \in Nat /\ DOMAIN inbox[i] = 1 .. Len(inbox[i])
                /\ inbox[i] = <<>> <=> Len(inbox[i]) = 0
                /\ \A k \in 1 .. Len(inbox[i]) : inbox[i][k] \in Heard
                /\ Len(asked[i]) \in Nat /\ DOMAIN asked[i] = 1 .. Len(asked[i])
                /\ asked[i] = <<>> <=> Len(asked[i]) = 0
                /\ \A k \in 1 .. Len(asked[i]) : asked[i][k] \in Commands
                /\ Len(answers[i]) \in Nat
                /\ answers[i] = <<>> <=> Len(answers[i]) = 0
                /\ \A k \in 1 .. Len(answers[i]) : answers[i][k] \in Counts
                /\ Len(pubs[i]) \in Nat /\ DOMAIN pubs[i] = 1 .. Len(pubs[i])
                /\ \A k \in 1 .. Len(pubs[i]) : pubs[i][k] \in Publications
                /\ executed[i] \in Nat
           /\ \A b \in Browsers :
                /\ Len(received[b]) \in Nat /\ DOMAIN received[b] = 1 .. Len(received[b])
                /\ received[b] = <<>> <=> Len(received[b]) = 0
                /\ \A k \in 1 .. Len(received[b]) : received[b][k] \in Copies
<1>1. ASSUME NEW i \in Instances
      PROVE  /\ inbox[i] \in Seq(Heard) /\ asked[i] \in Seq(Commands)
             /\ answers[i] \in Seq(Counts) /\ pubs[i] \in Seq(Publications)
             /\ executed[i] \in Nat
  BY DEF TypeOK
<1>2. ASSUME NEW b \in Browsers PROVE received[b] \in Seq(Copies)
  BY DEF TypeOK
<1> QED BY <1>1, <1>2, SeqIs

(* A process asks Redis. *)
Asks(i, r) == asked' = [asked EXCEPT ![i] = Append(@, r)]

(* The command it asks is the last one. *)
LEMMA AsksIs ==
    ASSUME TypeOK, NEW i \in Instances, NEW r \in Commands, Asks(i, r)
    PROVE  /\ asked' \in [Instances -> Seq(Commands)]
           /\ \A q \in Instances : q # i => asked'[q] = asked[q]
           /\ Len(asked[i]) \in Nat /\ Len(asked'[i]) = Len(asked[i]) + 1
           /\ \A k \in 1 .. Len(asked[i]) : asked'[i][k] = asked[i][k]
           /\ asked'[i][Len(asked[i]) + 1] = r
<1>1. asked \in [Instances -> Seq(Commands)]
  BY DEF TypeOK
<1> QED BY <1>1, AppendAt DEF Asks

(* What is published is the last PUBLISH. *)
LEMMA PublishIs ==
    ASSUME TypeOK, NEW i \in Instances, NEW m \in Messages, NEW c \in Counts,
           Publish(i, m, c)
    PROVE  /\ pubs' \in [Instances -> Seq(Publications)]
           /\ \A q \in Instances : q # i => pubs'[q] = pubs[q]
           /\ Len(pubs[i]) \in Nat /\ Len(pubs'[i]) = Len(pubs[i]) + 1
           /\ \A k \in 1 .. Len(pubs[i]) : pubs'[i][k] = pubs[i][k]
           /\ pubs'[i][Len(pubs[i]) + 1].msg = m
           /\ pubs'[i][Len(pubs[i]) + 1].count = c
<1> DEFINE p == [msg |-> m, count |-> c]
<1>1. p \in Publications /\ p.msg = m /\ p.count = c
  BY DEF Publications
<1>2. pubs \in [Instances -> Seq(Publications)]
  BY DEF TypeOK
<1>3. pubs' = [pubs EXCEPT ![i] = Append(@, p)]
  BY DEF Publish
<1> HIDE DEF p
<1> QED BY <1>1, <1>2, <1>3, AppendAt

(* It reads the first answer: the others are one place further. *)
LEMMA ReadAnswerIs ==
    ASSUME TypeOK, LenInv, NEW i \in Instances, ReadAnswer(i)
    PROVE  /\ asked' \in [Instances -> Seq(Commands)]
           /\ answers' \in [Instances -> Seq(Counts)]
           /\ \A q \in Instances :
                q # i => asked'[q] = asked[q] /\ answers'[q] = answers[q]
           /\ Len(answers[i]) \in Nat \ {0} /\ Len(asked[i]) \in Nat \ {0}
           /\ Len(asked'[i]) = Len(asked[i]) - 1
           /\ Len(answers'[i]) = Len(answers[i]) - 1
           /\ \A k \in 1 .. Len(asked[i]) - 1 : asked'[i][k] = asked[i][k + 1]
           /\ \A k \in 1 .. Len(answers[i]) - 1 : answers'[i][k] = answers[i][k + 1]
           /\ Head(asked[i]) = asked[i][1] /\ asked[i][1] \in Commands
           /\ Head(answers[i]) = answers[i][1] /\ answers[i][1] \in Counts
           /\ counter' = counter
<1>1. /\ asked \in [Instances -> Seq(Commands)] /\ answers \in [Instances -> Seq(Counts)]
      /\ answers[i] # <<>>
      /\ asked' = [asked EXCEPT ![i] = Tail(@)]
      /\ answers' = [answers EXCEPT ![i] = Tail(@)]
      /\ counter' = counter
  BY DEF TypeOK, ReadAnswer
<1>2. asked[i] # <<>>
  BY <1>1, Typed DEF LenInv
<1>3. /\ asked' \in [Instances -> Seq(Commands)]
      /\ \A q \in Instances : q # i => asked'[q] = asked[q]
      /\ Len(asked[i]) \in Nat \ {0} /\ Len(asked'[i]) = Len(asked[i]) - 1
      /\ \A k \in 1 .. Len(asked[i]) - 1 : asked'[i][k] = asked[i][k + 1]
      /\ Head(asked[i]) = asked[i][1] /\ asked[i][1] \in Commands
  BY <1>1, <1>2, TailAt
<1>4. /\ answers' \in [Instances -> Seq(Counts)]
      /\ \A q \in Instances : q # i => answers'[q] = answers[q]
      /\ Len(answers[i]) \in Nat \ {0} /\ Len(answers'[i]) = Len(answers[i]) - 1
      /\ \A k \in 1 .. Len(answers[i]) - 1 : answers'[i][k] = answers[i][k + 1]
      /\ Head(answers[i]) = answers[i][1] /\ answers[i][1] \in Counts
  BY <1>1, TailAt
<1> QED BY <1>1, <1>3, <1>4

(* Redis answers the next command, an INCR with the counter it increments.*)
LEMMA ExecuteCommandIs ==
    ASSUME TypeOK, NEW i \in Instances, ExecuteCommand(i)
    PROVE  /\ answers' \in [Instances -> Seq(Counts)] /\ counter' \in Counts
           /\ \A q \in Instances : q # i => answers'[q] = answers[q]
           /\ Len(answers[i]) \in Nat /\ Len(answers'[i]) = Len(answers[i]) + 1
           /\ Len(answers[i]) + 1 \in 1 .. Len(asked[i])
           /\ \A k \in 1 .. Len(answers[i]) : answers'[i][k] = answers[i][k]
           /\ answers'[i][Len(answers[i]) + 1] = counter'
           /\ IncrAt(i, Len(answers[i]) + 1) \/ counter' = counter
           /\ UNCHANGED <<asked, pubs, executed, resent, inbox, phase, conn, received,
                          shown, emitted, due, gap, losses>>
<1> DEFINE k == Len(answers[i]) + 1
<1>1. /\ k \in DOMAIN asked[i]
      /\ counter' = IF asked[i][k].kind = "incr" THEN counter + 1 ELSE counter
      /\ answers' = [answers EXCEPT ![i] = Append(@, counter')]
      /\ UNCHANGED <<asked, pubs, executed, resent, inbox, phase, conn, received,
                     shown, emitted, due, gap, losses>>
  BY DEF ExecuteCommand, pubVars, socketVars
<1>2. counter' \in Counts /\ answers \in [Instances -> Seq(Counts)]
  BY <1>1 DEF TypeOK, Counts
<1>3. k \in 1 .. Len(asked[i])
  BY <1>1, Typed
<1>4. IncrAt(i, k) \/ counter' = counter
  BY <1>1, <1>3 DEF IncrAt
<1>5. /\ answers' \in [Instances -> Seq(Counts)]
      /\ \A q \in Instances : q # i => answers'[q] = answers[q]
      /\ Len(answers[i]) \in Nat /\ Len(answers'[i]) = Len(answers[i]) + 1
      /\ \A j \in 1 .. Len(answers[i]) : answers'[i][j] = answers[i][j]
      /\ answers'[i][Len(answers[i]) + 1] = counter'
  <2>1. \E c \in Counts : c = counter' /\ answers' = [answers EXCEPT ![i] = Append(@, c)]
    BY <1>1, <1>2
  <2>2. PICK c \in Counts : c = counter' /\ answers' = [answers EXCEPT ![i] = Append(@, c)]
    BY <2>1
  <2> HIDE DEF k
  <2> QED BY <1>2, <2>2, AppendAt
<1> QED BY <1>1, <1>2, <1>3, <1>4, <1>5

(* A PUBLISH reaches the inbox of every subscriber, at its end. *)
LEMMA ExecutePublishIs ==
    ASSUME TypeOK, NEW i \in Instances, ExecutePublish(i)
    PROVE  \E k \in 1 .. Len(pubs[i]), c \in Copies :
             /\ k = executed[i] + 1 /\ executed'[i] = k
             /\ \A q \in Instances : q # i => executed'[q] = executed[q]
             /\ executed' \in [Instances -> Nat]
             /\ c.msg = pubs[i][k].msg /\ c.no = resent[c.msg]
             /\ inbox' \in [Instances -> Seq(Heard)]
             /\ \A q \in Instances : ~Subscribed(q) => inbox'[q] = inbox[q]
             /\ \A q \in Instances : Subscribed(q) =>
                  /\ Len(inbox'[q]) = Len(inbox[q]) + 1
                  /\ \A j \in 1 .. Len(inbox[q]) : inbox'[q][j] = inbox[q][j]
                  /\ inbox'[q][Len(inbox[q]) + 1].copy = c
                  /\ inbox'[q][Len(inbox[q]) + 1].count = pubs[i][k].count
             /\ due' = [b \in Browsers |->
                          IF conn[b] # Nowhere /\ phase[conn[b]] = "ready"
                          THEN due[b] \cup {c} ELSE due[b]]
             /\ UNCHANGED <<asked, answers, counter, pubs, resent, phase, conn, received,
                            shown, emitted, gap, losses>>
<1> DEFINE k == executed[i] + 1
<1> DEFINE c == [msg |-> pubs[i][k].msg, no |-> resent[pubs[i][k].msg]]
<1> DEFINE h == [copy |-> c, count |-> pubs[i][k].count]
<1>1. /\ k \in DOMAIN pubs[i]
      /\ executed' = [executed EXCEPT ![i] = k]
      /\ \A q \in Instances :
           inbox'[q] = IF Subscribed(q) THEN Append(inbox[q], h) ELSE inbox[q]
      /\ inbox' = [q \in Instances |-> inbox'[q]]
      /\ due' = [b \in Browsers |->
                   IF conn[b] # Nowhere /\ phase[conn[b]] = "ready"
                   THEN due[b] \cup {c} ELSE due[b]]
      /\ UNCHANGED <<asked, answers, counter, pubs, resent, phase, conn, received,
                     shown, emitted, gap, losses>>
  BY DEF ExecutePublish, clientVars, socketVars
<1>2. k \in 1 .. Len(pubs[i]) /\ pubs[i][k] \in Publications /\ executed[i] \in Nat
  BY <1>1, Typed
<1>3. c \in Copies /\ c.msg = pubs[i][k].msg /\ c.no = resent[c.msg]
  BY <1>2 DEF Publications, Copies, TypeOK
<1>4. h \in Heard /\ h.copy = c /\ h.count = pubs[i][k].count
  BY <1>2, <1>3 DEF Heard, Publications
<1>5. /\ executed' \in [Instances -> Nat] /\ executed'[i] = k
      /\ \A q \in Instances : q # i => executed'[q] = executed[q]
  BY <1>1, <1>2 DEF TypeOK
<1> HIDE DEF h, c, k
<1>6. ASSUME NEW q \in Instances
      PROVE  /\ Append(inbox[q], h) \in Seq(Heard)
             /\ Len(Append(inbox[q], h)) = Len(inbox[q]) + 1
             /\ \A j \in 1 .. Len(inbox[q]) : Append(inbox[q], h)[j] = inbox[q][j]
             /\ Append(inbox[q], h)[Len(inbox[q]) + 1] = h
  <2>1. inbox[q] \in Seq(Heard)
    BY DEF TypeOK
  <2> QED BY <1>4, <2>1, AppendProperties
<1>7. \A q \in Instances : inbox'[q] \in Seq(Heard)
  BY <1>1, <1>6 DEF TypeOK
<1>8. inbox' \in [Instances -> Seq(Heard)]
  BY <1>1, <1>7
<1>9. k = executed[i] + 1
  BY DEF k
<1> SUFFICES /\ k \in 1 .. Len(pubs[i]) /\ c \in Copies
             /\ k = executed[i] + 1 /\ executed'[i] = k
             /\ \A q \in Instances : q # i => executed'[q] = executed[q]
             /\ executed' \in [Instances -> Nat]
             /\ c.msg = pubs[i][k].msg /\ c.no = resent[c.msg]
             /\ inbox' \in [Instances -> Seq(Heard)]
             /\ \A q \in Instances : ~Subscribed(q) => inbox'[q] = inbox[q]
             /\ \A q \in Instances : Subscribed(q) =>
                  /\ Len(inbox'[q]) = Len(inbox[q]) + 1
                  /\ \A j \in 1 .. Len(inbox[q]) : inbox'[q][j] = inbox[q][j]
                  /\ inbox'[q][Len(inbox[q]) + 1].copy = c
                  /\ inbox'[q][Len(inbox[q]) + 1].count = pubs[i][k].count
  BY <1>1
<1>10. \A q \in Instances : ~Subscribed(q) => inbox'[q] = inbox[q]
  BY <1>1
<1>11. ASSUME NEW q \in Instances, Subscribed(q)
       PROVE  /\ Len(inbox'[q]) = Len(inbox[q]) + 1
              /\ \A j \in 1 .. Len(inbox[q]) : inbox'[q][j] = inbox[q][j]
              /\ inbox'[q][Len(inbox[q]) + 1].copy = c
              /\ inbox'[q][Len(inbox[q]) + 1].count = pubs[i][k].count
  BY <1>1, <1>4, <1>6, <1>11
<1> QED BY <1>2, <1>3, <1>5, <1>8, <1>9, <1>10, <1>11

(* A message is taken from an inbox: the others are one place further. *)
LEMMA DeliverIs ==
    ASSUME TypeOK, NEW i \in Instances, Deliver(i)
    PROVE  /\ inbox' \in [Instances -> Seq(Heard)]
           /\ \A q \in Instances : q # i => inbox'[q] = inbox[q]
           /\ Len(inbox[i]) \in Nat \ {0} /\ Len(inbox'[i]) = Len(inbox[i]) - 1
           /\ \A k \in 1 .. Len(inbox[i]) - 1 : inbox'[i][k] = inbox[i][k + 1]
           /\ Head(inbox[i]) = inbox[i][1] /\ inbox[i][1] \in Heard
           /\ Subscribed(i)
           /\ UNCHANGED <<phase, asked, answers, counter, pubs, executed, resent, conn,
                          emitted, losses, gap>>
<1>1. /\ inbox \in [Instances -> Seq(Heard)] /\ inbox[i] # <<>>
      /\ inbox' = [inbox EXCEPT ![i] = Tail(@)] /\ Subscribed(i)
      /\ UNCHANGED <<phase, asked, answers, counter, pubs, executed, resent, conn,
                     emitted, losses, gap>>
  BY DEF TypeOK, Deliver, clientVars, pubVars
<1> QED BY <1>1, TailAt

(* The sockets of a process that listens get it, at the end. *)
LEMMA DeliverReceives ==
    ASSUME TypeOK, NEW i \in Instances, Deliver(i)
    PROVE  /\ received' \in [Browsers -> Seq(Copies)]
           /\ \A b \in Browsers :
                IF conn[b] = i /\ phase[i] = "ready"
                THEN /\ Len(received'[b]) = Len(received[b]) + 1
                     /\ \A k \in 1 .. Len(received[b]) : received'[b][k] = received[b][k]
                     /\ received'[b][Len(received[b]) + 1] = inbox[i][1].copy
                ELSE received'[b] = received[b]
<1> DEFINE m == inbox[i][1].copy
<1>1. m \in Copies /\ Head(inbox[i]) = inbox[i][1]
  BY DeliverIs DEF Heard
<1>2. /\ \A b \in Browsers :
           received'[b] = IF conn[b] = i /\ phase[i] = "ready"
                          THEN Append(received[b], m) ELSE received[b]
      /\ received' = [b \in Browsers |-> received'[b]]
  BY <1>1 DEF Deliver, SocketsOf
<1> HIDE DEF m
<1>3. ASSUME NEW b \in Browsers
      PROVE  /\ Append(received[b], m) \in Seq(Copies)
             /\ Len(Append(received[b], m)) = Len(received[b]) + 1
             /\ \A k \in 1 .. Len(received[b]) : Append(received[b], m)[k] = received[b][k]
             /\ Append(received[b], m)[Len(received[b]) + 1] = m
  <2>1. received[b] \in Seq(Copies)
    BY DEF TypeOK
  <2> QED BY <1>1, <2>1, AppendProperties
<1>4. \A b \in Browsers : received'[b] \in Seq(Copies)
  BY <1>2, <1>3 DEF TypeOK
<1>5. received' \in [Browsers -> Seq(Copies)]
  BY <1>2, <1>4
<1> QED BY <1>2, <1>3, <1>5 DEF m

(* redisPub sends the PUBLISHes again from place n + 1 on. *)
LEMMA LosePubIs ==
    ASSUME TypeOK, LenInv, NEW i \in Instances, NEW n \in Nat, LosePub(i, n)
    PROVE  /\ n < executed[i] /\ n <= Len(pubs[i])
           /\ pubs' \in [Instances -> Seq(Publications)]
           /\ \A q \in Instances : q # i => pubs'[q] = pubs[q] /\ executed'[q] = executed[q]
           /\ Len(pubs[i]) \in Nat /\ Len(pubs'[i]) = Len(pubs[i]) - n
           /\ \A k \in 1 .. Len(pubs[i]) - n : pubs'[i][k] = pubs[i][k + n]
           /\ executed'[i] = 0 /\ executed' \in [Instances -> Nat]
           /\ resent' \in [Messages -> Nat]
           /\ \A m \in Messages : \/ resent'[m] = resent[m] + 1
                                  \/ /\ resent'[m] = resent[m]
                                     /\ \A k \in n + 1 .. executed[i] : pubs[i][k].msg # m
           /\ losses' \in Nat
           /\ UNCHANGED <<asked, answers, counter, inbox, phase, conn, received, shown,
                          emitted, due, gap>>
<1>1. /\ n < executed[i]
      /\ pubs' = [pubs EXCEPT ![i] = SubSeq(@, n + 1, Len(@))]
      /\ executed' = [executed EXCEPT ![i] = 0]
      /\ resent' = [m \in Messages |->
                      IF m \in {pubs[i][k].msg : k \in n + 1 .. executed[i]}
                      THEN resent[m] + 1 ELSE resent[m]]
      /\ losses' = losses + 1
      /\ UNCHANGED <<asked, answers, counter, inbox, phase, conn, received, shown,
                     emitted, due, gap>>
  BY DEF LosePub, clientVars, socketVars
<1>2. /\ executed \in [Instances -> Nat] /\ executed[i] <= Len(pubs[i])
      /\ Len(pubs[i]) \in Nat
      /\ pubs \in [Instances -> Seq(Publications)]
      /\ resent \in [Messages -> Nat] /\ losses \in Nat
  BY Typed DEF TypeOK, LenInv
<1>3. n <= Len(pubs[i])
  BY <1>1, <1>2
<1>4. /\ pubs' \in [Instances -> Seq(Publications)]
      /\ \A q \in Instances : q # i => pubs'[q] = pubs[q]
      /\ Len(pubs'[i]) = Len(pubs[i]) - n
      /\ \A k \in 1 .. Len(pubs[i]) - n : pubs'[i][k] = pubs[i][k + n]
  BY <1>1, <1>2, <1>3, DropAt
<1>5. /\ executed'[i] = 0 /\ executed' \in [Instances -> Nat]
      /\ \A q \in Instances : q # i => executed'[q] = executed[q]
  BY <1>1, <1>2
<1>6. /\ resent' \in [Messages -> Nat]
      /\ \A m \in Messages : \/ resent'[m] = resent[m] + 1
                             \/ /\ resent'[m] = resent[m]
                                /\ \A k \in n + 1 .. executed[i] : pubs[i][k].msg # m
  BY <1>1, <1>2
<1> QED BY <1>1, <1>2, <1>3, <1>4, <1>5, <1>6

(* redisClient sends all it was not answered again. *)
LEMMA LoseClientIs ==
    ASSUME TypeOK, NEW i \in Instances, LoseClient(i)
    PROVE  /\ answers' \in [Instances -> Seq(Counts)]
           /\ \A q \in Instances : q # i => answers'[q] = answers[q]
           /\ Len(answers'[i]) = 0
           /\ losses' \in Nat
           /\ UNCHANGED <<asked, counter, pubs, executed, resent, inbox, phase, conn,
                          received, shown, emitted, due, gap>>
<1>1. /\ answers \in [Instances -> Seq(Counts)]
      /\ answers' = [answers EXCEPT ![i] = <<>>]
      /\ losses' = losses + 1 /\ losses \in Nat
      /\ UNCHANGED <<asked, counter, pubs, executed, resent, inbox, phase, conn,
                     received, shown, emitted, due, gap>>
  BY DEF LoseClient, TypeOK, pubVars, socketVars
<1> QED BY <1>1, ClearAt

(* A process that stops has nothing left. *)
LEMMA StopIs ==
    ASSUME TypeOK, NEW i \in Instances, Stop(i)
    PROVE  /\ inbox' \in [Instances -> Seq(Heard)]
           /\ asked' \in [Instances -> Seq(Commands)]
           /\ answers' \in [Instances -> Seq(Counts)]
           /\ pubs' \in [Instances -> Seq(Publications)]
           /\ executed' \in [Instances -> Nat] /\ received' \in [Browsers -> Seq(Copies)]
           /\ Len(inbox'[i]) = 0 /\ Len(asked'[i]) = 0 /\ Len(answers'[i]) = 0
           /\ Len(pubs'[i]) = 0 /\ executed'[i] = 0 /\ phase'[i] = "down"
           /\ inbox'[i] = <<>>
           /\ \A q \in Instances : q # i =>
                /\ inbox'[q] = inbox[q] /\ asked'[q] = asked[q]
                /\ answers'[q] = answers[q] /\ pubs'[q] = pubs[q]
                /\ executed'[q] = executed[q] /\ phase'[q] = phase[q]
           /\ \A b \in Browsers :
                IF conn[b] = i
                THEN /\ conn'[b] = Nowhere /\ due'[b] = {} /\ received'[b] = <<>>
                     /\ shown'[b] = 0
                ELSE /\ conn'[b] = conn[b] /\ due'[b] = due[b]
                     /\ received'[b] = received[b] /\ shown'[b] = shown[b]
                     /\ b \in gap' <=> b \in gap
           /\ UNCHANGED <<counter, resent, emitted, losses>>
<1>1. /\ inbox \in [Instances -> Seq(Heard)] /\ inbox' = [inbox EXCEPT ![i] = <<>>]
      /\ asked \in [Instances -> Seq(Commands)] /\ asked' = [asked EXCEPT ![i] = <<>>]
      /\ answers \in [Instances -> Seq(Counts)]
      /\ answers' = [answers EXCEPT ![i] = <<>>]
      /\ pubs \in [Instances -> Seq(Publications)] /\ pubs' = [pubs EXCEPT ![i] = <<>>]
      /\ executed \in [Instances -> Nat] /\ executed' = [executed EXCEPT ![i] = 0]
      /\ phase' = [phase EXCEPT ![i] = "down"] /\ DOMAIN phase = Instances
      /\ UNCHANGED <<counter, resent, emitted, losses>>
  BY DEF Stop, TypeOK, Become
<1>2. \A b \in Browsers :
        IF conn[b] = i
        THEN conn'[b] = Nowhere /\ due'[b] = {} /\ received'[b] = <<>> /\ shown'[b] = 0
        ELSE /\ conn'[b] = conn[b] /\ due'[b] = due[b]
             /\ received'[b] = received[b] /\ shown'[b] = shown[b]
             /\ b \in gap' <=> b \in gap
  BY DEF Stop, Forget, SocketsOf
<1>3. inbox' \in [Instances -> Seq(Heard)] /\ Len(inbox'[i]) = 0
      /\ \A q \in Instances : q # i => inbox'[q] = inbox[q]
  BY <1>1, ClearAt
<1>4. asked' \in [Instances -> Seq(Commands)] /\ Len(asked'[i]) = 0
      /\ \A q \in Instances : q # i => asked'[q] = asked[q]
  BY <1>1, ClearAt
<1>5. answers' \in [Instances -> Seq(Counts)] /\ Len(answers'[i]) = 0
      /\ \A q \in Instances : q # i => answers'[q] = answers[q]
  BY <1>1, ClearAt
<1>6. pubs' \in [Instances -> Seq(Publications)] /\ Len(pubs'[i]) = 0
      /\ \A q \in Instances : q # i => pubs'[q] = pubs[q]
  BY <1>1, ClearAt
<1>7. executed' \in [Instances -> Nat] /\ executed'[i] = 0 /\ phase'[i] = "down"
      /\ inbox'[i] = <<>>
      /\ \A q \in Instances : q # i => executed'[q] = executed[q] /\ phase'[q] = phase[q]
  BY <1>1
<1>8. received' \in [Browsers -> Seq(Copies)]
  BY DEF Stop, TypeOK
<1> QED BY <1>1, <1>2, <1>3, <1>4, <1>5, <1>6, <1>7, <1>8

(* onModuleInit, and redisSub connected again, change the phase. *)
Starts(i) == StartInit(i) \/ Subscribe(i) \/ Attach(i) \/ Resubscribe(i)

(* Only the phase changes, and a subscriber remains one. *)
LEMMA StartsIs ==
    ASSUME TypeOK, NEW i \in Instances, Starts(i)
    PROVE  /\ phase' \in [Instances -> {"down", "subscribing", "subscribed", "ready",
                                        "lost"}]
           /\ \A q \in Instances : q # i => phase'[q] = phase[q]
           /\ Subscribed(i) => Subscribed(i)'
           /\ phase[i] \in {"ready", "lost"} => phase'[i] = "ready"
           /\ UNCHANGED <<inbox, asked, answers, counter, pubs, executed, resent, conn,
                          received, shown, emitted, due, losses, gap>>
BY DEF Starts, StartInit, Subscribe, Attach, Resubscribe, Become, TypeOK, Subscribed,
       clientVars, pubVars, socketVars

(* redisSub lost: the inbox is gone, and the sockets have a gap. *)
LEMMA LoseSubIs ==
    ASSUME TypeOK, NEW i \in Instances, LoseSub(i)
    PROVE  /\ phase' \in [Instances -> {"down", "subscribing", "subscribed", "ready",
                                        "lost"}]
           /\ \A q \in Instances : q # i => phase'[q] = phase[q] /\ inbox'[q] = inbox[q]
           /\ phase[i] = "ready" /\ phase'[i] = "lost"
           /\ inbox' \in [Instances -> Seq(Heard)]
           /\ Len(inbox'[i]) = 0 /\ inbox'[i] = <<>>
           /\ \A b \in Browsers : due'[b] = IF conn[b] = i THEN {} ELSE due[b]
           /\ due' \in [Browsers -> SUBSET Copies]
           /\ \A b \in Browsers : b \in gap' <=> b \in gap \/ conn[b] = i
           /\ gap' \subseteq Browsers
           /\ UNCHANGED <<asked, answers, counter, pubs, executed, resent, conn,
                          received, shown, emitted, losses>>
<1>1. /\ inbox \in [Instances -> Seq(Heard)] /\ inbox' = [inbox EXCEPT ![i] = <<>>]
      /\ phase[i] = "ready" /\ phase' = [phase EXCEPT ![i] = "lost"]
      /\ UNCHANGED <<asked, answers, counter, pubs, executed, resent, conn,
                     received, shown, emitted, losses>>
  BY DEF LoseSub, Become, TypeOK, clientVars, pubVars, socketVars
<1>2. /\ inbox' \in [Instances -> Seq(Heard)]
      /\ Len(inbox'[i]) = 0 /\ \A q \in Instances : q # i => inbox'[q] = inbox[q]
  BY <1>1, ClearAt
<1>3. /\ due' \in [Browsers -> SUBSET Copies] /\ gap' \subseteq Browsers
      /\ \A b \in Browsers : /\ due'[b] = IF conn[b] = i THEN {} ELSE due[b]
                             /\ b \in gap' <=> b \in gap \/ conn[b] = i
  BY DEF LoseSub, Forget, SocketsOf, TypeOK
<1>4. phase' \in [Instances -> {"down", "subscribing", "subscribed", "ready", "lost"}]
      /\ phase'[i] = "lost" /\ \A q \in Instances : q # i => phase'[q] = phase[q]
      /\ inbox'[i] = <<>>
  BY <1>1 DEF TypeOK
<1> QED BY <1>1, <1>2, <1>3, <1>4

(* A message is new when it is emitted: published, or counted first. *)
LEMMA EmitIs ==
    ASSUME TypeOK, NEW i \in Instances, NEW m \in Messages, Emit(i, m)
    PROVE  /\ New(m) /\ emitted' = emitted \cup {<<i, m>>}
           /\ \/ m \notin Notices /\ Publish(i, m, 0) /\ asked' = asked
              \/ m \in Notices /\ pubs' = pubs /\ Asks(i, [kind |-> "incr", msg |-> m])
           /\ [kind |-> "incr", msg |-> m] \in Commands /\ 0 \in Counts
           /\ UNCHANGED <<phase, inbox, answers, counter, executed, resent, conn,
                          received, shown, due, losses, gap>>
BY DEF Emit, Asks, socketVars, Commands, Counts

(* The number of a notice is read, and the notice published with it. *)
LEMMA PublishNoticeIs ==
    ASSUME TypeOK, LenInv, NEW i \in Instances, PublishNotice(i)
    PROVE  /\ ReadAnswer(i) /\ IncrAt(i, 1)
           /\ asked[i][1].msg \in Messages /\ answers[i][1] \in Counts
           /\ Publish(i, asked[i][1].msg, answers[i][1])
           /\ UNCHANGED <<phase, inbox, executed, resent, conn, received, shown,
                          emitted, due, losses, gap>>
<1>1. ReadAnswer(i)
  BY DEF PublishNotice
<1>2. /\ Head(asked[i]) = asked[i][1] /\ asked[i][1] \in Commands
      /\ Head(answers[i]) = answers[i][1] /\ answers[i][1] \in Counts
      /\ Len(asked[i]) \in Nat \ {0}
  BY <1>1, ReadAnswerIs
<1>3. asked[i][1].kind = "incr"
  BY <1>2 DEF PublishNotice
<1>4. asked[i][1].msg \in Messages
  BY <1>2, <1>3 DEF Commands
<1>5. IncrAt(i, 1)
  BY <1>2, <1>3 DEF IncrAt
<1> QED BY <1>1, <1>2, <1>4, <1>5 DEF PublishNotice, socketVars

(* The answer to a GET is passed on. *)
LEMMA CountReplyIs ==
    ASSUME TypeOK, LenInv, NEW i \in Instances, CountReply(i)
    PROVE  /\ ReadAnswer(i) /\ ~IncrAt(i, 1)
           /\ shown' \in [Browsers -> Counts]
           /\ \A b \in Browsers :
                shown'[b] = IF conn[b] = i THEN answers[i][1] ELSE shown[b]
           /\ UNCHANGED <<phase, inbox, pubs, executed, resent, conn, received,
                          emitted, due, losses, gap>>
<1>1. ReadAnswer(i)
  BY DEF CountReply
<1>2. /\ Head(asked[i]) = asked[i][1]
      /\ Head(answers[i]) = answers[i][1] /\ answers[i][1] \in Counts
  BY <1>1, ReadAnswerIs
<1>3. asked[i][1].kind = "get"
  BY <1>2 DEF CountReply
<1>4. ~IncrAt(i, 1)
  BY <1>3 DEF IncrAt
<1>5. /\ shown' = [b \in Browsers |-> IF conn[b] = i THEN answers[i][1] ELSE shown[b]]
      /\ UNCHANGED <<phase, inbox, pubs, executed, resent, conn, received,
                     emitted, due, losses, gap>>
  BY <1>2 DEF CountReply, pubVars
<1>6. shown' \in [Browsers -> Counts]
  BY <1>2, <1>5 DEF TypeOK
<1> QED BY <1>1, <1>4, <1>5, <1>6

(* A socket connects, and the count is asked. *)
LEMMA ConnectIs ==
    ASSUME TypeOK, NEW b \in Browsers, NEW i \in Instances, Connect(b, i)
    PROVE  /\ conn[b] = Nowhere /\ conn'[b] = i /\ phase[i] \in {"ready", "lost"}
           /\ conn' \in [Browsers -> Instances \cup {Nowhere}]
           /\ \A d \in Browsers : d # b => conn'[d] = conn[d] /\ (d \in gap' <=> d \in gap)
           /\ phase[i] = "lost" => b \in gap'
           /\ gap' \subseteq Browsers
           /\ Asks(i, [kind |-> "get"]) /\ [kind |-> "get"] \in Commands
           /\ UNCHANGED <<phase, inbox, answers, counter, pubs, executed, resent,
                          received, shown, emitted, due, losses>>
BY DEF Connect, Asks, pubVars, Commands, TypeOK

(* A socket disconnects, and nothing is left of its connection. *)
LEMMA DisconnectIs ==
    ASSUME TypeOK, NEW b \in Browsers, Disconnect(b)
    PROVE  /\ conn'[b] = Nowhere /\ due'[b] = {} /\ received'[b] = <<>> /\ shown'[b] = 0
           /\ conn' \in [Browsers -> Instances \cup {Nowhere}]
           /\ due' \in [Browsers -> SUBSET Copies]
           /\ received' \in [Browsers -> Seq(Copies)]
           /\ shown' \in [Browsers -> Counts]
           /\ gap' \subseteq Browsers
           /\ \A d \in Browsers : d # b =>
                /\ conn'[d] = conn[d] /\ due'[d] = due[d] /\ received'[d] = received[d]
                /\ shown'[d] = shown[d] /\ (d \in gap' <=> d \in gap)
           /\ UNCHANGED <<phase, inbox, asked, answers, counter, pubs, executed, resent,
                          emitted, losses>>
<1>1. /\ conn' = [conn EXCEPT ![b] = Nowhere] /\ due' = [due EXCEPT ![b] = {}]
      /\ received' = [received EXCEPT ![b] = <<>>] /\ shown' = [shown EXCEPT ![b] = 0]
      /\ gap' = gap \ {b}
      /\ UNCHANGED <<phase, inbox, asked, answers, counter, pubs, executed, resent,
                     emitted, losses>>
  BY DEF Disconnect, clientVars, pubVars
<1>2. received' \in [Browsers -> Seq(Copies)] /\ received'[b] = <<>>
      /\ \A d \in Browsers : d # b => received'[d] = received[d]
  BY <1>1 DEF TypeOK
<1>3. conn' \in [Browsers -> Instances \cup {Nowhere}] /\ conn'[b] = Nowhere
      /\ \A d \in Browsers : d # b => conn'[d] = conn[d]
  BY <1>1 DEF TypeOK
<1>4. due' \in [Browsers -> SUBSET Copies] /\ due'[b] = {}
      /\ \A d \in Browsers : d # b => due'[d] = due[d]
  BY <1>1 DEF TypeOK
<1>5. shown' \in [Browsers -> Counts] /\ shown'[b] = 0
      /\ \A d \in Browsers : d # b => shown'[d] = shown[d]
  BY <1>1 DEF TypeOK, Counts
<1> QED BY <1>1, <1>2, <1>3, <1>4, <1>5 DEF TypeOK

(* A step keeps every variable in its type. *)
LEMMA TypeOKStep ==
    ASSUME TypeOK, LenInv, Next
    PROVE  TypeOK'
<1>1. ASSUME NEW i \in Instances, Starts(i)
      PROVE  TypeOK'
  BY <1>1, StartsIs DEF TypeOK
<1>2. ASSUME NEW i \in Instances, ExecuteCommand(i)
      PROVE  TypeOK'
  BY <1>2, ExecuteCommandIs DEF TypeOK
<1>3. ASSUME NEW i \in Instances, PublishNotice(i)
      PROVE  TypeOK'
  BY <1>3, PublishNoticeIs, ReadAnswerIs, PublishIs DEF TypeOK
<1>4. ASSUME NEW i \in Instances, CountReply(i)
      PROVE  TypeOK'
  BY <1>4, CountReplyIs, ReadAnswerIs DEF TypeOK
<1>5. ASSUME NEW i \in Instances, ExecutePublish(i)
      PROVE  TypeOK'
  <2>1. PICK k \in 1 .. Len(pubs[i]), c \in Copies :
          /\ executed' \in [Instances -> Nat]
          /\ inbox' \in [Instances -> Seq(Heard)]
          /\ due' = [b \in Browsers |->
                       IF conn[b] # Nowhere /\ phase[conn[b]] = "ready"
                       THEN due[b] \cup {c} ELSE due[b]]
          /\ UNCHANGED <<asked, answers, counter, pubs, resent, phase, conn, received,
                         shown, emitted, gap, losses>>
    BY <1>5, ExecutePublishIs
  <2>2. due' \in [Browsers -> SUBSET Copies]
    BY <2>1 DEF TypeOK
  <2> QED BY <2>1, <2>2 DEF TypeOK
<1>6. ASSUME NEW i \in Instances, Deliver(i)
      PROVE  TypeOK'
  <2>1. inbox[i][1].count \in Counts /\ Head(inbox[i]) = inbox[i][1]
    BY <1>6, DeliverIs DEF Heard
  <2>2. shown' \in [Browsers -> Counts] /\ due' \in [Browsers -> SUBSET Copies]
    BY <1>6, <2>1 DEF Deliver, TypeOK
  <2> QED BY <1>6, <2>2, DeliverIs, DeliverReceives DEF TypeOK
<1>7. ASSUME NEW i \in Instances, LoseSub(i)
      PROVE  TypeOK'
  <2>1. /\ phase' \in [Instances -> {"down", "subscribing", "subscribed", "ready", "lost"}]
        /\ inbox' \in [Instances -> Seq(Heard)] /\ due' \in [Browsers -> SUBSET Copies]
        /\ gap' \subseteq Browsers
        /\ UNCHANGED <<asked, answers, counter, pubs, executed, resent, conn,
                       received, shown, emitted, losses>>
    BY <1>7, LoseSubIs
  <2> QED BY <2>1 DEF TypeOK
<1>8. ASSUME NEW i \in Instances, LoseClient(i)
      PROVE  TypeOK'
  BY <1>8, LoseClientIs DEF TypeOK
<1>9. ASSUME NEW i \in Instances, Stop(i)
      PROVE  TypeOK'
  <2>1. /\ phase' \in [Instances -> {"down", "subscribing", "subscribed", "ready", "lost"}]
        /\ conn' \in [Browsers -> Instances \cup {Nowhere}]
        /\ due' \in [Browsers -> SUBSET Copies]
        /\ shown' \in [Browsers -> Counts] /\ gap' \subseteq Browsers
    BY <1>9 DEF Stop, Become, Forget, TypeOK, Counts
  <2>2. received' \in [Browsers -> Seq(Copies)]
    BY <1>9 DEF Stop, TypeOK
  <2>3. /\ inbox' \in [Instances -> Seq(Heard)] /\ asked' \in [Instances -> Seq(Commands)]
        /\ answers' \in [Instances -> Seq(Counts)]
        /\ pubs' \in [Instances -> Seq(Publications)] /\ executed' \in [Instances -> Nat]
        /\ UNCHANGED <<counter, resent, emitted, losses>>
    BY <1>9, StopIs
  <2> QED BY <2>1, <2>2, <2>3 DEF TypeOK
<1>10. ASSUME NEW i \in Instances, NEW m \in Messages, Emit(i, m)
      PROVE  TypeOK'
  <2>1. /\ emitted' = emitted \cup {<<i, m>>}
        /\ UNCHANGED <<phase, inbox, answers, counter, executed, resent, conn,
                       received, shown, due, losses, gap>>
    BY <1>10, EmitIs
  <2>3. emitted' \subseteq Instances \X Messages
    BY <2>1 DEF TypeOK
  <2>2. pubs' \in [Instances -> Seq(Publications)] /\ asked' \in [Instances -> Seq(Commands)]
    <3>1. CASE m \notin Notices
      BY <1>10, <3>1, EmitIs, PublishIs DEF TypeOK
    <3>2. CASE m \in Notices
      <4>1. pubs' = pubs /\ \E r \in Commands : Asks(i, r)
        BY <1>10, <3>2, EmitIs
      <4> QED BY <4>1, AsksIs DEF TypeOK
    <3> QED BY <3>1, <3>2
  <2> QED BY <2>1, <2>2, <2>3 DEF TypeOK
<1>11. ASSUME NEW i \in Instances, NEW n \in Nat, LosePub(i, n)
      PROVE  TypeOK'
  BY <1>11, LosePubIs DEF TypeOK
<1>12. ASSUME NEW b \in Browsers, NEW i \in Instances, Connect(b, i)
      PROVE  TypeOK'
  BY <1>12, ConnectIs, AsksIs DEF TypeOK
<1>13. ASSUME NEW b \in Browsers, Disconnect(b)
      PROVE  TypeOK'
  BY <1>13, DisconnectIs DEF TypeOK
<1> QED BY <1>1, <1>2, <1>3, <1>4, <1>5, <1>6, <1>7, <1>8, <1>9, <1>10, <1>11, <1>12,
           <1>13 DEF Next, Starts


(* A process that stops or loses redisSub takes its dashboards with it. *)
LEMMA ConnInvStep ==
    ASSUME TypeOK, LenInv, ConnInv, Next
    PROVE  ConnInv'
<1> USE GatewayAssumption
<1>1. ASSUME NEW i \in Instances, Starts(i)
      PROVE  ConnInv'
  BY <1>1, StartsIs DEF ConnInv, TypeOK
<1>2. ASSUME NEW i \in Instances, ExecuteCommand(i)
      PROVE  ConnInv'
  BY <1>2, ExecuteCommandIs DEF ConnInv
<1>3. ASSUME NEW i \in Instances, PublishNotice(i)
      PROVE  ConnInv'
  BY <1>3, PublishNoticeIs DEF ConnInv
<1>4. ASSUME NEW i \in Instances, CountReply(i)
      PROVE  ConnInv'
  BY <1>4, CountReplyIs DEF ConnInv
<1>5. ASSUME NEW i \in Instances, ExecutePublish(i)
      PROVE  ConnInv'
  BY <1>5, ExecutePublishIs DEF ConnInv
<1>6. ASSUME NEW i \in Instances, Deliver(i)
      PROVE  ConnInv'
  <2>1. \A b \in Browsers : conn[b] = Nowhere => received'[b] = received[b]
    BY <1>6, DeliverReceives
  <2> QED BY <1>6, <2>1, DeliverIs DEF ConnInv
<1>7. ASSUME NEW i \in Instances, LoseSub(i)
      PROVE  ConnInv'
  BY <1>7, LoseSubIs DEF ConnInv, TypeOK
<1>8. ASSUME NEW i \in Instances, LoseClient(i)
      PROVE  ConnInv'
  BY <1>8, LoseClientIs DEF ConnInv
<1>9. ASSUME NEW i \in Instances, Stop(i)
      PROVE  ConnInv'
  <2> SUFFICES ASSUME NEW b \in Browsers
               PROVE  /\ conn'[b] # Nowhere => phase'[conn'[b]] \in {"ready", "lost"}
                      /\ conn'[b] # Nowhere /\ b \notin gap' => phase'[conn'[b]] = "ready"
                      /\ conn'[b] = Nowhere => received'[b] = <<>>
    BY DEF ConnInv
  <2>1. CASE conn[b] = i
    BY <1>9, <2>1, StopIs
  <2>2. CASE conn[b] # i
    <3>1. /\ conn'[b] = conn[b] /\ received'[b] = received[b] /\ (b \in gap' <=> b \in gap)
          /\ \A q \in Instances : q # i => phase'[q] = phase[q]
      BY <1>9, <2>2, StopIs
    <3> QED BY <2>2, <3>1 DEF ConnInv, TypeOK
  <2> QED BY <2>1, <2>2
<1>10. ASSUME NEW i \in Instances, NEW m \in Messages, Emit(i, m)
      PROVE  ConnInv'
  BY <1>10, EmitIs DEF ConnInv
<1>11. ASSUME NEW i \in Instances, NEW n \in Nat, LosePub(i, n)
      PROVE  ConnInv'
  BY <1>11, LosePubIs DEF ConnInv
<1>12. ASSUME NEW b \in Browsers, NEW i \in Instances, Connect(b, i)
      PROVE  ConnInv'
  BY <1>12, ConnectIs DEF ConnInv
<1>13. ASSUME NEW b \in Browsers, Disconnect(b)
      PROVE  ConnInv'
  BY <1>13, DisconnectIs DEF ConnInv
<1> QED BY <1>1, <1>2, <1>3, <1>4, <1>5, <1>6, <1>7, <1>8, <1>9, <1>10, <1>11, <1>12,
           <1>13 DEF Next, Starts


(* An inbox is emptied when its process stops to listen. *)
LEMMA InboxInvStep ==
    ASSUME TypeOK, LenInv, InboxInv, Next
    PROVE  InboxInv'
<1>1. ASSUME NEW i \in Instances, Starts(i)
      PROVE  InboxInv'
  <2>1. \A q \in Instances : Subscribed(q) => Subscribed(q)'
    BY <1>1, StartsIs DEF Subscribed
  <2> QED BY <1>1, <2>1, StartsIs DEF InboxInv
<1>2. ASSUME NEW i \in Instances, ExecuteCommand(i)
      PROVE  InboxInv'
  BY <1>2, ExecuteCommandIs DEF InboxInv, Subscribed
<1>3. ASSUME NEW i \in Instances, PublishNotice(i)
      PROVE  InboxInv'
  BY <1>3, PublishNoticeIs DEF InboxInv, Subscribed
<1>4. ASSUME NEW i \in Instances, CountReply(i)
      PROVE  InboxInv'
  BY <1>4, CountReplyIs DEF InboxInv, Subscribed
<1>5. ASSUME NEW i \in Instances, ExecutePublish(i)
      PROVE  InboxInv'
  BY <1>5, ExecutePublishIs DEF InboxInv, Subscribed
<1>6. ASSUME NEW i \in Instances, Deliver(i)
      PROVE  InboxInv'
  <2>1. Subscribed(i)' /\ \A q \in Instances : Subscribed(q)' <=> Subscribed(q)
    BY <1>6, DeliverIs DEF Subscribed
  <2> QED BY <1>6, <2>1, DeliverIs DEF InboxInv
<1>7. ASSUME NEW i \in Instances, LoseSub(i)
      PROVE  InboxInv'
  BY <1>7, LoseSubIs DEF InboxInv, Subscribed
<1>8. ASSUME NEW i \in Instances, LoseClient(i)
      PROVE  InboxInv'
  BY <1>8, LoseClientIs DEF InboxInv, Subscribed
<1>9. ASSUME NEW i \in Instances, Stop(i)
      PROVE  InboxInv'
  BY <1>9, StopIs DEF InboxInv, Subscribed
<1>10. ASSUME NEW i \in Instances, NEW m \in Messages, Emit(i, m)
      PROVE  InboxInv'
  BY <1>10, EmitIs DEF InboxInv, Subscribed
<1>11. ASSUME NEW i \in Instances, NEW n \in Nat, LosePub(i, n)
      PROVE  InboxInv'
  BY <1>11, LosePubIs DEF InboxInv, Subscribed
<1>12. ASSUME NEW b \in Browsers, NEW i \in Instances, Connect(b, i)
      PROVE  InboxInv'
  BY <1>12, ConnectIs DEF InboxInv, Subscribed
<1>13. ASSUME NEW b \in Browsers, Disconnect(b)
      PROVE  InboxInv'
  BY <1>13, DisconnectIs DEF InboxInv, Subscribed
<1> QED BY <1>1, <1>2, <1>3, <1>4, <1>5, <1>6, <1>7, <1>8, <1>9, <1>10, <1>11, <1>12,
           <1>13 DEF Next, Starts


(* Redis executes what it was sent; what was answered is forgotten with it. *)
LEMMA LenInvStep ==
    ASSUME TypeOK, LenInv, Next
    PROVE  LenInv'
<1>1. ASSUME NEW i \in Instances, Starts(i)
      PROVE  LenInv'
  BY <1>1, StartsIs DEF LenInv
<1>2. ASSUME NEW i \in Instances, ExecuteCommand(i)
      PROVE  LenInv'
  BY <1>2, ExecuteCommandIs, Typed DEF LenInv
<1>3. ASSUME NEW i \in Instances, PublishNotice(i)
      PROVE  LenInv'
  <2> SUFFICES ASSUME NEW q \in Instances
               PROVE  Len(answers'[q]) <= Len(asked'[q]) /\ executed'[q] <= Len(pubs'[q])
    BY DEF LenInv
  <2>1. /\ Len(answers[q]) \in Nat /\ Len(asked[q]) \in Nat /\ executed[q] \in Nat
        /\ Len(pubs[q]) \in Nat
        /\ Len(answers[q]) <= Len(asked[q]) /\ executed[q] <= Len(pubs[q])
    BY Typed DEF LenInv
  <2>2. ReadAnswer(i) /\ \E m \in Messages, c \in Counts : Publish(i, m, c)
        /\ executed' = executed
    BY <1>3, PublishNoticeIs
  <2>3. Len(answers'[q]) <= Len(asked'[q])
    <3>1. CASE q = i
      BY <2>1, <2>2, <3>1, ReadAnswerIs
    <3>2. CASE q # i
      BY <2>1, <2>2, <3>2, ReadAnswerIs
    <3> QED BY <3>1, <3>2
  <2>4. Len(pubs'[q]) \in {Len(pubs[q]), Len(pubs[q]) + 1}
    BY <2>2, PublishIs
  <2> QED BY <2>1, <2>2, <2>3, <2>4
<1>4. ASSUME NEW i \in Instances, CountReply(i)
      PROVE  LenInv'
  <2> SUFFICES ASSUME NEW q \in Instances
               PROVE  Len(answers'[q]) <= Len(asked'[q]) /\ executed'[q] <= Len(pubs'[q])
    BY DEF LenInv
  <2>1. /\ Len(answers[q]) \in Nat /\ Len(asked[q]) \in Nat /\ executed[q] \in Nat
        /\ Len(pubs[q]) \in Nat
        /\ Len(answers[q]) <= Len(asked[q]) /\ executed[q] <= Len(pubs[q])
    BY Typed DEF LenInv
  <2>2. ReadAnswer(i) /\ pubs' = pubs /\ executed' = executed
    BY <1>4, CountReplyIs
  <2>3. CASE q = i
    BY <2>1, <2>2, <2>3, ReadAnswerIs
  <2>4. CASE q # i
    BY <2>1, <2>2, <2>4, ReadAnswerIs
  <2> QED BY <2>3, <2>4
<1>5. ASSUME NEW i \in Instances, ExecutePublish(i)
      PROVE  LenInv'
  <2> SUFFICES ASSUME NEW q \in Instances
               PROVE  Len(answers'[q]) <= Len(asked'[q]) /\ executed'[q] <= Len(pubs'[q])
    BY DEF LenInv
  <2>1. /\ Len(answers[q]) \in Nat /\ Len(asked[q]) \in Nat /\ executed[q] \in Nat
        /\ Len(pubs[q]) \in Nat
        /\ Len(answers[q]) <= Len(asked[q]) /\ executed[q] <= Len(pubs[q])
    BY Typed DEF LenInv
  <2>2. /\ executed[i] + 1 <= Len(pubs[i]) /\ executed'[i] = executed[i] + 1
        /\ q # i => executed'[q] = executed[q]
        /\ UNCHANGED <<asked, answers, pubs>>
    BY <1>5, ExecutePublishIs, Typed
  <2> QED BY <2>1, <2>2
<1>6. ASSUME NEW i \in Instances, Deliver(i)
      PROVE  LenInv'
  BY <1>6, DeliverIs DEF LenInv
<1>7. ASSUME NEW i \in Instances, LoseSub(i)
      PROVE  LenInv'
  BY <1>7, LoseSubIs DEF LenInv
<1>8. ASSUME NEW i \in Instances, LoseClient(i)
      PROVE  LenInv'
  BY <1>8, LoseClientIs, Typed DEF LenInv
<1>9. ASSUME NEW i \in Instances, Stop(i)
      PROVE  LenInv'
  <2> SUFFICES ASSUME NEW q \in Instances
               PROVE  Len(answers'[q]) <= Len(asked'[q]) /\ executed'[q] <= Len(pubs'[q])
    BY DEF LenInv
  <2>1. /\ Len(answers[q]) \in Nat /\ Len(asked[q]) \in Nat /\ executed[q] \in Nat
        /\ Len(pubs[q]) \in Nat
        /\ Len(answers[q]) <= Len(asked[q]) /\ executed[q] <= Len(pubs[q])
    BY Typed DEF LenInv
  <2>2. CASE q = i
    BY <1>9, <2>2, StopIs
  <2>3. CASE q # i
    BY <1>9, <2>1, <2>3, StopIs
  <2> QED BY <2>2, <2>3
<1>10. ASSUME NEW i \in Instances, NEW m \in Messages, Emit(i, m)
      PROVE  LenInv'
  <2> SUFFICES ASSUME NEW q \in Instances
               PROVE  Len(answers'[q]) <= Len(asked'[q]) /\ executed'[q] <= Len(pubs'[q])
    BY DEF LenInv
  <2>1. /\ Len(answers[q]) \in Nat /\ Len(asked[q]) \in Nat /\ executed[q] \in Nat
        /\ Len(pubs[q]) \in Nat
        /\ Len(answers[q]) <= Len(asked[q]) /\ executed[q] <= Len(pubs[q])
    BY Typed DEF LenInv
  <2>2. /\ answers' = answers /\ executed' = executed
        /\ \/ asked' = asked /\ Publish(i, m, 0) /\ 0 \in Counts
           \/ pubs' = pubs /\ \E r \in Commands : Asks(i, r)
    BY <1>10, EmitIs
  <2>3. CASE asked' = asked /\ Publish(i, m, 0) /\ 0 \in Counts
    <3>1. Len(pubs'[q]) \in {Len(pubs[q]), Len(pubs[q]) + 1}
      BY <2>3, PublishIs
    <3> QED BY <2>1, <2>2, <2>3, <3>1
  <2>4. CASE pubs' = pubs /\ \E r \in Commands : Asks(i, r)
    <3>1. Len(asked'[q]) \in {Len(asked[q]), Len(asked[q]) + 1}
      BY <2>4, AsksIs
    <3> QED BY <2>1, <2>2, <2>4, <3>1
  <2> QED BY <2>2, <2>3, <2>4
<1>11. ASSUME NEW i \in Instances, NEW n \in Nat, LosePub(i, n)
      PROVE  LenInv'
  <2> SUFFICES ASSUME NEW q \in Instances
               PROVE  Len(answers'[q]) <= Len(asked'[q]) /\ executed'[q] <= Len(pubs'[q])
    BY DEF LenInv
  <2>1. /\ Len(answers[q]) \in Nat /\ Len(asked[q]) \in Nat /\ executed[q] \in Nat
        /\ Len(pubs[q]) \in Nat
        /\ Len(answers[q]) <= Len(asked[q]) /\ executed[q] <= Len(pubs[q])
    BY Typed DEF LenInv
  <2>2. /\ n < executed[i] /\ Len(pubs'[i]) = Len(pubs[i]) - n /\ executed'[i] = 0
        /\ q # i => pubs'[q] = pubs[q] /\ executed'[q] = executed[q]
        /\ asked' = asked /\ answers' = answers
    BY <1>11, LosePubIs
  <2> QED BY <2>1, <2>2
<1>12. ASSUME NEW b \in Browsers, NEW i \in Instances, Connect(b, i)
      PROVE  LenInv'
  <2> SUFFICES ASSUME NEW q \in Instances
               PROVE  Len(answers'[q]) <= Len(asked'[q]) /\ executed'[q] <= Len(pubs'[q])
    BY DEF LenInv
  <2>1. /\ Len(answers[q]) \in Nat /\ Len(asked[q]) \in Nat /\ executed[q] \in Nat
        /\ Len(pubs[q]) \in Nat
        /\ Len(answers[q]) <= Len(asked[q]) /\ executed[q] <= Len(pubs[q])
    BY Typed DEF LenInv
  <2>2. /\ UNCHANGED <<answers, executed, pubs>>
        /\ \E r \in Commands : Asks(i, r)
    BY <1>12, ConnectIs
  <2>3. Len(asked'[q]) \in {Len(asked[q]), Len(asked[q]) + 1}
    BY <2>2, AsksIs
  <2> QED BY <2>1, <2>2, <2>3
<1>13. ASSUME NEW b \in Browsers, Disconnect(b)
      PROVE  LenInv'
  BY <1>13, DisconnectIs DEF LenInv
<1> QED BY <1>1, <1>2, <1>3, <1>4, <1>5, <1>6, <1>7, <1>8, <1>9, <1>10, <1>11, <1>12,
           <1>13 DEF Next, Starts

(* The INCRs a process that reads an answer has left, it had one further. *)
LEMMA ReadsIncr ==
    ASSUME TypeOK, LenInv, NEW i \in Instances, ReadAnswer(i),
           NEW q \in Instances, NEW k \in Nat, NEW j, j = IF q = i THEN k + 1 ELSE k
    PROVE  /\ IncrAt(q, k)' <=> k # 0 /\ IncrAt(q, j)
           /\ IncrAt(q, k)' => asked'[q][k] = asked[q][j] /\ j \in Nat
<1>1. CASE q = i
  BY <1>1, ReadAnswerIs DEF IncrAt
<1>2. CASE q # i
  BY <1>2, ReadAnswerIs, Typed DEF IncrAt
<1> QED BY <1>1, <1>2

(* A GET adds none. *)
LEMMA GetIncr ==
    ASSUME TypeOK, NEW i \in Instances, Asks(i, [kind |-> "get"])
    PROVE  \A q \in Instances, k \in Nat :
             /\ IncrAt(q, k)' <=> IncrAt(q, k)
             /\ IncrAt(q, k) => asked'[q][k] = asked[q][k]
<1>1. [kind |-> "get"] \in Commands /\ [kind |-> "get"].kind # "incr"
  BY DEF Commands
<1>2. PICK r \in Commands : r = [kind |-> "get"] /\ Asks(i, r) /\ r.kind # "incr"
  BY <1>1
<1>3. /\ \A q \in Instances : q # i => asked'[q] = asked[q]
      /\ Len(asked[i]) \in Nat /\ Len(asked'[i]) = Len(asked[i]) + 1
      /\ \A k \in 1 .. Len(asked[i]) : asked'[i][k] = asked[i][k]
      /\ asked'[i][Len(asked[i]) + 1] = r
  BY <1>2, AsksIs
<1> QED BY <1>2, <1>3 DEF IncrAt

(* The INCR of a notice is the last one. *)
LEMMA IncrIncr ==
    ASSUME TypeOK, NEW i \in Instances, NEW m \in Messages,
           Asks(i, [kind |-> "incr", msg |-> m])
    PROVE  /\ \A q \in Instances, k \in Nat : IncrAt(q, k)' =>
                \/ IncrAt(q, k) /\ asked'[q][k] = asked[q][k]
                \/ q = i /\ k = Len(asked[i]) + 1 /\ asked'[q][k].msg = m
           /\ \A k \in Nat : k = Len(asked[i]) + 1 => IncrAt(i, k)'
           /\ Len(asked[i]) \in Nat
<1>1. [kind |-> "incr", msg |-> m] \in Commands
  BY DEF Commands
<1>2. PICK r \in Commands : r.kind = "incr" /\ r.msg = m /\ Asks(i, r)
  BY <1>1
<1>3. /\ \A q \in Instances : q # i => asked'[q] = asked[q]
      /\ Len(asked[i]) \in Nat /\ Len(asked'[i]) = Len(asked[i]) + 1
      /\ \A k \in 1 .. Len(asked[i]) : asked'[i][k] = asked[i][k]
      /\ asked'[i][Len(asked[i]) + 1] = r
  BY <1>2, AsksIs
<1>4. ASSUME NEW q \in Instances, NEW k \in Nat, IncrAt(q, k)'
      PROVE  \/ IncrAt(q, k) /\ asked'[q][k] = asked[q][k]
             \/ q = i /\ k = Len(asked[i]) + 1 /\ asked'[q][k].msg = m
  <2>1. CASE q # i
    BY <1>3, <1>4, <2>1 DEF IncrAt
  <2>2. CASE q = i /\ k = Len(asked[i]) + 1
    BY <1>2, <1>3, <2>2
  <2>3. CASE q = i /\ k # Len(asked[i]) + 1
    <3>1. k \in 1 .. Len(asked[i]) /\ asked'[i][k] = asked[i][k]
      BY <1>3, <1>4, <2>3 DEF IncrAt
    <3> QED BY <1>4, <2>3, <3>1 DEF IncrAt
  <2> QED BY <2>1, <2>2, <2>3
<1>5. ASSUME NEW k \in Nat, k = Len(asked[i]) + 1 PROVE IncrAt(i, k)'
  <2>1. k \in 1 .. Len(asked'[i]) /\ asked'[i][k].kind = "incr"
    BY <1>2, <1>3, <1>5
  <2> QED BY <2>1 DEF IncrAt
<1> QED BY <1>3, <1>4, <1>5

(* A message is emitted by one process. *)
LEMMA OneProcess ==
    ASSUME PlaceInv, NEW p \in Instances, NEW q \in Instances, NEW x,
           <<p, x>> \in emitted, <<q, x>> \in emitted
    PROVE  p = q
<1>1. <<p, x>>[2] = <<q, x>>[2]
  OBVIOUS
<1>2. <<p, x>> = <<q, x>>
  BY <1>1 DEF PlaceInv
<1> QED BY <1>2

(* The places of a message are all in one process. *)
LEMMA OnePlace ==
    ASSUME PlaceInv, NEW p \in Instances, NEW q \in Instances, p # q,
           NEW j \in Nat, IncrAt(p, j)
    PROVE  /\ \A k \in Nat : IncrAt(q, k) => asked[q][k].msg # asked[p][j].msg
           /\ \A k \in 1 .. Len(pubs[q]) : pubs[q][k].msg # asked[p][j].msg
<1>1. ASSUME NEW x, <<p, x>> \in emitted, <<q, x>> \in emitted PROVE FALSE
  BY <1>1, OneProcess
<1>2. <<p, asked[p][j].msg>> \in emitted
  BY DEF PlaceInv
<1>3. \A k \in Nat : IncrAt(q, k) => <<q, asked[q][k].msg>> \in emitted
  BY DEF PlaceInv
<1>4. \A k \in 1 .. Len(pubs[q]) : <<q, pubs[q][k].msg>> \in emitted
  BY DEF PlaceInv
<1>5. ASSUME NEW k \in Nat, IncrAt(q, k) PROVE asked[q][k].msg # asked[p][j].msg
  BY <1>1, <1>2, <1>3, <1>5
<1>6. ASSUME NEW k \in 1 .. Len(pubs[q]) PROVE pubs[q][k].msg # asked[p][j].msg
  BY <1>1, <1>2, <1>4
<1> QED BY <1>5, <1>6

(* Reading an answer leaves the places of the notices not yet published. *)
LEMMA KeepPlaces ==
    ASSUME PlaceInv, NEW i \in Instances, UNCHANGED <<pubs, emitted>>,
           \A q \in Instances, k \in Nat : IncrAt(q, k)' =>
             LET j == IF q = i THEN k + 1 ELSE k
             IN  j \in Nat /\ IncrAt(q, j) /\ asked'[q][k] = asked[q][j]
    PROVE  PlaceInv'
<1>1. ASSUME NEW q \in Instances, NEW k \in Nat, IncrAt(q, k)'
      PROVE  /\ asked'[q][k].msg \in Notices
             /\ <<q, asked'[q][k].msg>> \in emitted'
             /\ \A j \in Nat : IncrAt(q, j)' /\ asked'[q][j].msg = asked'[q][k].msg => j = k
  <2> DEFINE At(x) == IF q = i THEN x + 1 ELSE x
  <2>1. \A x \in Nat : IncrAt(q, x)' =>
          At(x) \in Nat /\ IncrAt(q, At(x)) /\ asked'[q][x] = asked[q][At(x)]
    OBVIOUS
  <2>2. \A x \in Nat : At(x) = At(k) => x = k
    OBVIOUS
  <2> HIDE DEF At
  <2>3. /\ asked[q][At(k)].msg \in Notices /\ <<q, asked[q][At(k)].msg>> \in emitted
        /\ \A x \in Nat : IncrAt(q, x) /\ asked[q][x].msg = asked[q][At(k)].msg => x = At(k)
    BY <1>1, <2>1 DEF PlaceInv
  <2> QED BY <1>1, <2>1, <2>2, <2>3
<1>2. ASSUME NEW q \in Instances, NEW k \in 1 .. Len(pubs'[q]), NEW j \in Nat, IncrAt(q, j)'
      PROVE  asked'[q][j].msg # pubs'[q][k].msg
  <2>1. PICK x \in Nat : IncrAt(q, x) /\ asked'[q][j] = asked[q][x]
    BY <1>2
  <2>2. pubs'[q][k] = pubs[q][k] /\ k \in 1 .. Len(pubs[q])
    OBVIOUS
  <2>3. \A y \in Nat : IncrAt(q, y) => asked[q][y].msg # pubs[q][k].msg
    BY <2>2 DEF PlaceInv
  <2> QED BY <2>1, <2>2, <2>3
<1> QED BY <1>1, <1>2 DEF PlaceInv

(* A message is emitted once, and moves from place to place. *)
LEMMA PlaceInvStep ==
    ASSUME TypeOK, LenInv, PlaceInv, Next
    PROVE  PlaceInv'
<1>1. ASSUME NEW i \in Instances, Starts(i)
      PROVE  PlaceInv'
  <2>1. UNCHANGED <<asked, pubs, emitted>>
    BY <1>1, StartsIs
  <2> QED BY <2>1 DEF PlaceInv, IncrAt
<1>2. ASSUME NEW i \in Instances, ExecuteCommand(i)
      PROVE  PlaceInv'
  <2>1. UNCHANGED <<asked, pubs, emitted>>
    BY <1>2, ExecuteCommandIs
  <2> QED BY <2>1 DEF PlaceInv, IncrAt
<1>3. ASSUME NEW i \in Instances, PublishNotice(i)
      PROVE  PlaceInv'
  <2> DEFINE m == asked[i][1].msg
  <2>1. /\ ReadAnswer(i) /\ IncrAt(i, 1) /\ emitted' = emitted
        /\ m \in Messages /\ answers[i][1] \in Counts /\ Publish(i, m, answers[i][1])
    BY <1>3, PublishNoticeIs
  <2>2. ASSUME NEW q \in Instances, NEW k \in Nat, IncrAt(q, k)'
        PROVE  LET j == IF q = i THEN k + 1 ELSE k
               IN  /\ j \in Nat /\ IncrAt(q, j) /\ asked'[q][k] = asked[q][j]
                   /\ asked'[q][k].msg # m
    <3> DEFINE j == IF q = i THEN k + 1 ELSE k
    <3>1. j \in Nat /\ k # 0 /\ IncrAt(q, j) /\ asked'[q][k] = asked[q][j]
      BY <2>1, <2>2, ReadsIncr
    <3>2. CASE q = i
      <4>1. j # 1
        BY <3>1, <3>2
      <4>2. asked[i][j].msg = asked[i][1].msg => j = 1
        BY <2>1, <3>1, <3>2 DEF PlaceInv
      <4> QED BY <3>1, <3>2, <4>1, <4>2
    <3>3. CASE q # i
      BY <2>1, <3>1, <3>3, OnePlace
    <3> QED BY <3>1, <3>2, <3>3
  <2>3. ASSUME NEW q \in Instances, NEW k \in 1 .. Len(pubs'[q])
        PROVE  \/ k \in 1 .. Len(pubs[q]) /\ pubs'[q][k] = pubs[q][k] /\ pubs[q][k].msg # m
               \/ q = i /\ k = Len(pubs[i]) + 1 /\ pubs'[q][k].msg = m
    <3>1. CASE k \in 1 .. Len(pubs[q]) /\ pubs'[q][k] = pubs[q][k]
      <4>1. CASE q = i
        <5>1. asked[i][1].msg # pubs[i][k].msg
          BY <2>1, <3>1, <4>1 DEF PlaceInv
        <5> QED BY <3>1, <4>1, <5>1
      <4>2. CASE q # i
        BY <2>1, <3>1, <4>2, OnePlace
      <4> QED BY <3>1, <4>1, <4>2
    <3>2. CASE ~(k \in 1 .. Len(pubs[q]) /\ pubs'[q][k] = pubs[q][k])
      BY <2>1, <3>2, PublishIs
    <3> QED BY <3>1, <3>2
  <2>4. <<i, m>> \in emitted /\ m \in Notices
    BY <2>1 DEF PlaceInv
  <2> HIDE DEF m
  <2>5. ASSUME NEW q \in Instances, NEW k \in Nat, IncrAt(q, k)'
        PROVE  /\ asked'[q][k].msg \in Notices
               /\ <<q, asked'[q][k].msg>> \in emitted'
               /\ \A j \in Nat : IncrAt(q, j)' /\ asked'[q][j].msg = asked'[q][k].msg => j = k
    <3> DEFINE At(x) == IF q = i THEN x + 1 ELSE x
    <3>1. \A x \in Nat : IncrAt(q, x)' =>
            At(x) \in Nat /\ IncrAt(q, At(x)) /\ asked'[q][x] = asked[q][At(x)]
      BY <2>2
    <3>2. \A x \in Nat : At(x) = At(k) => x = k
      OBVIOUS
    <3> HIDE DEF At
    <3> QED BY <2>1, <2>5, <3>1, <3>2 DEF PlaceInv
  <2>6. ASSUME NEW q \in Instances, NEW k \in 1 .. Len(pubs'[q])
        PROVE  /\ <<q, pubs'[q][k].msg>> \in emitted'
               /\ \A j \in 1 .. Len(pubs'[q]) : pubs'[q][j].msg = pubs'[q][k].msg => j = k
               /\ \A j \in Nat : IncrAt(q, j)' => asked'[q][j].msg # pubs'[q][k].msg
    <3>1. <<q, pubs'[q][k].msg>> \in emitted'
      BY <2>1, <2>3, <2>4 DEF PlaceInv
    <3>2. \A j \in 1 .. Len(pubs'[q]) : pubs'[q][j].msg = pubs'[q][k].msg => j = k
      <4>1. \A x, y \in 1 .. Len(pubs[q]) : pubs[q][x].msg = pubs[q][y].msg => x = y
        BY DEF PlaceInv
      <4> QED BY <2>3, <4>1
    <3>3. \A j \in Nat : IncrAt(q, j)' => asked'[q][j].msg # pubs'[q][k].msg
      <4>1. CASE q = i /\ pubs'[q][k].msg = m
        BY <2>2, <4>1
      <4>2. CASE k \in 1 .. Len(pubs[q]) /\ pubs'[q][k] = pubs[q][k]
        <5>1. \A j \in Nat : IncrAt(q, j) => asked[q][j].msg # pubs[q][k].msg
          BY <4>2 DEF PlaceInv
        <5> QED BY <2>2, <4>2, <5>1
      <4> QED BY <2>3, <4>1, <4>2
    <3> QED BY <3>1, <3>2, <3>3
  <2> QED BY <2>1, <2>5, <2>6 DEF PlaceInv
<1>4. ASSUME NEW i \in Instances, CountReply(i)
      PROVE  PlaceInv'
  <2>1. ReadAnswer(i) /\ UNCHANGED <<pubs, emitted>>
    BY <1>4, CountReplyIs
  <2>2. ASSUME NEW q \in Instances, NEW k \in Nat, IncrAt(q, k)'
        PROVE  LET j == IF q = i THEN k + 1 ELSE k
               IN  j \in Nat /\ IncrAt(q, j) /\ asked'[q][k] = asked[q][j]
    BY <2>1, <2>2, ReadsIncr
  <2> QED BY <2>1, <2>2, KeepPlaces
<1>5. ASSUME NEW i \in Instances, ExecutePublish(i)
      PROVE  PlaceInv'
  <2>1. UNCHANGED <<asked, pubs, emitted>>
    BY <1>5, ExecutePublishIs
  <2> QED BY <2>1 DEF PlaceInv, IncrAt
<1>6. ASSUME NEW i \in Instances, Deliver(i)
      PROVE  PlaceInv'
  <2>1. UNCHANGED <<asked, pubs, emitted>>
    BY <1>6, DeliverIs
  <2> QED BY <2>1 DEF PlaceInv, IncrAt
<1>7. ASSUME NEW i \in Instances, LoseSub(i)
      PROVE  PlaceInv'
  <2>1. UNCHANGED <<asked, pubs, emitted>>
    BY <1>7, LoseSubIs
  <2> QED BY <2>1 DEF PlaceInv, IncrAt
<1>8. ASSUME NEW i \in Instances, LoseClient(i)
      PROVE  PlaceInv'
  <2>1. UNCHANGED <<asked, pubs, emitted>>
    BY <1>8, LoseClientIs
  <2> QED BY <2>1 DEF PlaceInv, IncrAt
<1>9. ASSUME NEW i \in Instances, Stop(i)
      PROVE  PlaceInv'
  <2>1. /\ Len(asked'[i]) = 0 /\ Len(pubs'[i]) = 0 /\ emitted' = emitted
        /\ \A q \in Instances : q # i => asked'[q] = asked[q] /\ pubs'[q] = pubs[q]
    BY <1>9, StopIs
  <2>2. \A q \in Instances, k \in Nat :
          IncrAt(q, k)' => IncrAt(q, k) /\ asked'[q][k] = asked[q][k] /\ q # i
    BY <2>1 DEF IncrAt
  <2>3. \A q \in Instances : \A k \in 1 .. Len(pubs'[q]) : q # i
    BY <2>1
  <2>4. \A e, f \in emitted' : e[2] = f[2] => e = f
    BY <2>1 DEF PlaceInv
  <2>5. ASSUME NEW q \in Instances, NEW k \in Nat, IncrAt(q, k)'
        PROVE  /\ asked'[q][k].msg \in Notices
               /\ <<q, asked'[q][k].msg>> \in emitted'
               /\ \A j \in Nat : IncrAt(q, j)' /\ asked'[q][j].msg = asked'[q][k].msg => j = k
    <3>1. /\ asked[q][k].msg \in Notices /\ <<q, asked[q][k].msg>> \in emitted
          /\ \A j \in Nat : IncrAt(q, j) /\ asked[q][j].msg = asked[q][k].msg => j = k
      BY <2>2, <2>5 DEF PlaceInv
    <3> QED BY <2>1, <2>2, <2>5, <3>1
  <2>6. ASSUME NEW q \in Instances, NEW k \in 1 .. Len(pubs'[q])
        PROVE  /\ <<q, pubs'[q][k].msg>> \in emitted'
               /\ \A j \in 1 .. Len(pubs'[q]) : pubs'[q][j].msg = pubs'[q][k].msg => j = k
               /\ \A j \in Nat : IncrAt(q, j)' => asked'[q][j].msg # pubs'[q][k].msg
    <3>1. pubs'[q] = pubs[q]
      BY <2>1, <2>3
    <3>2. /\ <<q, pubs[q][k].msg>> \in emitted
          /\ \A j \in 1 .. Len(pubs[q]) : pubs[q][j].msg = pubs[q][k].msg => j = k
          /\ \A j \in Nat : IncrAt(q, j) => asked[q][j].msg # pubs[q][k].msg
      BY <3>1 DEF PlaceInv
    <3> QED BY <2>1, <2>2, <3>1, <3>2
  <2> QED BY <2>4, <2>5, <2>6 DEF PlaceInv
<1>10. ASSUME NEW i \in Instances, NEW m \in Messages, Emit(i, m)
      PROVE  PlaceInv'
  <2>1. /\ emitted' = emitted \cup {<<i, m>>} /\ New(m)
    BY <1>10, EmitIs
  <2>0. ASSUME NEW e \in emitted PROVE e[2] # m
    <3>1. e = <<e[1], e[2]>> /\ e[1] \in Instances
      BY DEF TypeOK
    <3> QED BY <2>1, <3>1 DEF New
  <2>2. \A e, f \in emitted' : e[2] = f[2] => e = f
    BY <2>0, <2>1 DEF PlaceInv
  <2>3. \A q \in Instances : /\ \A k \in Nat : IncrAt(q, k) => asked[q][k].msg # m
                           /\ \A k \in 1 .. Len(pubs[q]) : pubs[q][k].msg # m
    BY <2>1 DEF PlaceInv, New
  <2>4. CASE m \notin Notices
    <3>1. asked' = asked /\ Publish(i, m, 0) /\ 0 \in Counts
      BY <1>10, <2>4, EmitIs
    <3>2. ASSUME NEW q \in Instances, NEW k \in 1 .. Len(pubs'[q])
          PROVE  \/ k \in 1 .. Len(pubs[q]) /\ pubs'[q][k] = pubs[q][k]
                 \/ q = i /\ k = Len(pubs[i]) + 1 /\ pubs'[q][k].msg = m
      BY <3>1, PublishIs
    <3>3. \A q \in Instances, k \in Nat : IncrAt(q, k)' <=> IncrAt(q, k)
      BY <3>1 DEF IncrAt
    <3> QED BY <2>1, <2>2, <2>3, <3>1, <3>2, <3>3 DEF PlaceInv
  <2>5. CASE m \in Notices
    <3>1. pubs' = pubs /\ Asks(i, [kind |-> "incr", msg |-> m])
      BY <1>10, <2>5, EmitIs
    <3>2. \A q \in Instances, k \in Nat : IncrAt(q, k)' =>
            \/ IncrAt(q, k) /\ asked'[q][k] = asked[q][k]
            \/ q = i /\ k = Len(asked[i]) + 1 /\ asked'[q][k].msg = m
      BY <3>1, IncrIncr
    <3>3. ASSUME NEW q \in Instances, NEW k \in Nat, IncrAt(q, k)'
          PROVE  /\ asked'[q][k].msg \in Notices
                 /\ <<q, asked'[q][k].msg>> \in emitted'
                 /\ \A j \in Nat : IncrAt(q, j)' /\ asked'[q][j].msg = asked'[q][k].msg => j = k
      <4>1. \A x, y \in Nat : IncrAt(q, x) /\ IncrAt(q, y) /\ asked[q][x].msg = asked[q][y].msg
                               => x = y
        BY DEF PlaceInv
      <4>2. \A x \in Nat : IncrAt(q, x) =>
              /\ asked[q][x].msg \in Notices /\ <<q, asked[q][x].msg>> \in emitted
              /\ asked[q][x].msg # m
        BY <2>3 DEF PlaceInv
      <4>3. \A j \in Nat : IncrAt(q, j)' /\ asked'[q][j].msg = asked'[q][k].msg => j = k
        BY <3>2, <3>3, <4>1, <4>2
      <4> QED BY <2>1, <2>5, <3>2, <3>3, <4>2, <4>3
    <3>4. ASSUME NEW q \in Instances, NEW k \in 1 .. Len(pubs'[q])
          PROVE  /\ <<q, pubs'[q][k].msg>> \in emitted'
                 /\ \A j \in 1 .. Len(pubs'[q]) : pubs'[q][j].msg = pubs'[q][k].msg => j = k
                 /\ \A j \in Nat : IncrAt(q, j)' => asked'[q][j].msg # pubs'[q][k].msg
      <4>1. /\ <<q, pubs[q][k].msg>> \in emitted
            /\ \A j \in 1 .. Len(pubs[q]) : pubs[q][j].msg = pubs[q][k].msg => j = k
            /\ \A j \in Nat : IncrAt(q, j) => asked[q][j].msg # pubs[q][k].msg
        BY <3>1 DEF PlaceInv
      <4> QED BY <2>1, <2>3, <3>1, <3>2, <4>1
    <3> QED BY <2>2, <3>3, <3>4 DEF PlaceInv
  <2> QED BY <2>4, <2>5
<1>11. ASSUME NEW i \in Instances, NEW n \in Nat, LosePub(i, n)
      PROVE  PlaceInv'
  <2>1. /\ asked' = asked /\ emitted' = emitted
        /\ \A q \in Instances : q # i => pubs'[q] = pubs[q]
        /\ Len(pubs[i]) \in Nat /\ Len(pubs'[i]) = Len(pubs[i]) - n
        /\ \A k \in 1 .. Len(pubs[i]) - n : pubs'[i][k] = pubs[i][k + n]
    BY <1>11, LosePubIs
  <2>2. ASSUME NEW q \in Instances, NEW k \in 1 .. Len(pubs'[q])
        PROVE  LET j == IF q = i THEN k + n ELSE k
               IN  j \in 1 .. Len(pubs[q]) /\ pubs'[q][k] = pubs[q][j]
    <3>1. CASE q = i
      BY <2>1, <3>1
    <3>2. CASE q # i
      BY <2>1, <3>2
    <3> QED BY <3>1, <3>2
  <2>3. \A q \in Instances, k \in Nat : IncrAt(q, k)' <=> IncrAt(q, k)
    BY <2>1 DEF IncrAt
  <2>4. ASSUME NEW q \in Instances, NEW k \in 1 .. Len(pubs'[q])
        PROVE  /\ <<q, pubs'[q][k].msg>> \in emitted
               /\ \A j \in 1 .. Len(pubs'[q]) : pubs'[q][j].msg = pubs'[q][k].msg => j = k
               /\ \A j \in Nat : IncrAt(q, j) => asked[q][j].msg # pubs'[q][k].msg
    <3> DEFINE At(x) == IF q = i THEN x + n ELSE x
    <3>1. \A x \in 1 .. Len(pubs'[q]) :
            At(x) \in 1 .. Len(pubs[q]) /\ pubs'[q][x] = pubs[q][At(x)]
      BY <2>2
    <3>2. \A x \in 1 .. Len(pubs'[q]) : At(x) = At(k) => x = k
      OBVIOUS
    <3> HIDE DEF At
    <3>3. /\ <<q, pubs[q][At(k)].msg>> \in emitted
          /\ \A x \in 1 .. Len(pubs[q]) : pubs[q][x].msg = pubs[q][At(k)].msg => x = At(k)
          /\ \A j \in Nat : IncrAt(q, j) => asked[q][j].msg # pubs[q][At(k)].msg
      BY <2>4, <3>1 DEF PlaceInv
    <3> QED BY <2>4, <3>1, <3>2, <3>3
  <2> QED BY <2>1, <2>3, <2>4 DEF PlaceInv
<1>12. ASSUME NEW b \in Browsers, NEW i \in Instances, Connect(b, i)
      PROVE  PlaceInv'
  <2>1. UNCHANGED <<pubs, emitted>> /\ Asks(i, [kind |-> "get"])
    BY <1>12, ConnectIs
  <2>2. \A q \in Instances, k \in Nat :
          /\ IncrAt(q, k)' <=> IncrAt(q, k)
          /\ IncrAt(q, k) => asked'[q][k] = asked[q][k]
    BY <2>1, GetIncr
  <2> QED BY <2>1, <2>2 DEF PlaceInv
<1>13. ASSUME NEW b \in Browsers, Disconnect(b)
      PROVE  PlaceInv'
  <2>1. UNCHANGED <<asked, pubs, emitted>>
    BY <1>13, DisconnectIs
  <2> QED BY <2>1 DEF PlaceInv, IncrAt
<1> QED BY <1>1, <1>2, <1>3, <1>4, <1>5, <1>6, <1>7, <1>8, <1>9, <1>10, <1>11, <1>12,
           <1>13 DEF Next, Starts

(* Steps that publish nothing: no copy becomes fresh, and what is in an    *)
(* inbox or was received only vanishes.                                    *)
Quiet ==
    /\ \A c \in Copies : Fresh(c)' => Fresh(c)
    /\ \A i \in Instances : inbox'[i] = inbox[i] \/ Len(inbox'[i]) = 0
    /\ \A b \in Browsers :
         \/ Len(received'[b]) = 0
         \/ received'[b] = received[b] /\ conn'[b] \in {conn[b], Nowhere}

(* They keep the order. *)
LEMMA QuietOrder ==
    ASSUME TypeOK, OrderInv, Quiet
    PROVE  OrderInv'
<1>1. PICK rank \in [Copies -> Nat], n \in Nat : Ordered(rank, n)
  BY DEF OrderInv
<1>2. /\ \A i \in Instances : \A k \in 1 .. Len(inbox'[i]) : inbox'[i] = inbox[i]
      /\ \A b \in Browsers : \A k \in 1 .. Len(received'[b]) :
           received'[b] = received[b] /\ conn'[b] \in {conn[b], Nowhere}
  <2>1. \A k \in 1 .. 0 : FALSE
    OBVIOUS
  <2> QED BY <2>1 DEF Quiet
<1>3. \A b \in Browsers : conn[b] # Nowhere => conn[b] \in Instances
  BY DEF TypeOK
<1>4. \A c \in Copies : rank[c] <= n /\ (Fresh(c)' => rank[c] = 0)
  BY <1>1 DEF Ordered, Quiet
<1>5. \A i \in Instances : \A k \in 1 .. Len(inbox'[i]) :
         /\ rank[inbox'[i][k].copy] > 0
         /\ \A j \in 1 .. Len(inbox'[i]) :
              j < k => rank[inbox'[i][j].copy] < rank[inbox'[i][k].copy]
  BY <1>1, <1>2 DEF Ordered
<1>6. \A b \in Browsers : \A k \in 1 .. Len(received'[b]) :
         /\ rank[received'[b][k]] > 0
         /\ \A j \in 1 .. Len(received'[b]) :
              j < k => rank[received'[b][j]] < rank[received'[b][k]]
  BY <1>1, <1>2 DEF Ordered
<1>7. ASSUME NEW b \in Browsers, NEW k \in 1 .. Len(received'[b]), conn'[b] # Nowhere,
             NEW j \in 1 .. Len(inbox'[conn'[b]])
      PROVE  rank[received'[b][k]] < rank[inbox'[conn'[b]][j].copy]
  <2>1. received'[b] = received[b] /\ conn'[b] = conn[b] /\ conn[b] \in Instances
    BY <1>2, <1>3, <1>7
  <2>2. inbox'[conn'[b]] = inbox[conn[b]]
    BY <1>2, <1>7, <2>1
  <2> QED BY <1>1, <1>7, <2>1, <2>2 DEF Ordered
<1>8. Ordered(rank, n)'
  BY <1>4, <1>5, <1>6, <1>7 DEF Ordered
<1> QED BY <1>8 DEF OrderInv

(* The copy that Redis publishes was fresh, and no copy becomes so.        *)
LEMMA PublishFresh ==
    ASSUME TypeOK, LenInv, PlaceInv, NEW i \in Instances, ExecutePublish(i),
           NEW k \in 1 .. Len(pubs[i]), NEW c \in Copies,
           k = executed[i] + 1, executed'[i] = k,
           \A q \in Instances : q # i => executed'[q] = executed[q],
           c.msg = pubs[i][k].msg, c.no = resent[c.msg],
           UNCHANGED <<asked, pubs, resent, emitted>>
    PROVE  /\ Fresh(c) /\ ~Fresh(c)'
           /\ \A d \in Copies : Fresh(d)' => Fresh(d)
<1>1. Fresh(c)
  <2>1. k \in executed[i] + 1 .. Len(pubs[i])
    BY Typed
  <2> QED BY <2>1 DEF Fresh, Waiting
<1>2. \A m : Waiting(m)' => Waiting(m)
  <2> SUFFICES ASSUME NEW m, NEW q \in Instances, NEW x \in executed'[q] + 1 .. Len(pubs[q]),
                      pubs[q][x].msg = m
               PROVE  x \in executed[q] + 1 .. Len(pubs[q])
    BY DEF Waiting, IncrAt, New
  <2> QED BY Typed
<1>3. <<i, c.msg>> \in emitted
  BY DEF PlaceInv
<1>4. ~New(c.msg)'
  BY <1>3 DEF New
<1>5. ASSUME NEW q \in Instances, NEW x \in Nat, IncrAt(q, x) PROVE asked[q][x].msg # c.msg
  <2>1. CASE q = i
    <3>1. \A y \in Nat : IncrAt(i, y) => asked[i][y].msg # pubs[i][k].msg
      BY DEF PlaceInv
    <3> QED BY <1>5, <2>1, <3>1
  <2>2. CASE q # i
    BY <1>5, <2>2, OnePlace
  <2> QED BY <2>1, <2>2
<1>6. ASSUME NEW q \in Instances, NEW x \in executed'[q] + 1 .. Len(pubs[q])
      PROVE  pubs[q][x].msg # c.msg
  <2>1. x \in 1 .. Len(pubs[q]) /\ (q = i => x # k)
    BY Typed
  <2>2. <<q, pubs[q][x].msg>> \in emitted
    BY <2>1 DEF PlaceInv
  <2>3. CASE q = i
    <3>1. \A y \in 1 .. Len(pubs[i]) : pubs[i][y].msg = pubs[i][k].msg => y = k
      BY DEF PlaceInv
    <3> QED BY <2>1, <2>3, <3>1
  <2>4. CASE q # i
    BY <1>3, <2>2, <2>4, OneProcess
  <2> QED BY <2>3, <2>4
<1>7. ~Waiting(c.msg)'
  BY <1>4, <1>5, <1>6 DEF Waiting, IncrAt
<1>8. ~Fresh(c)'
  <2>1. c.no \in Nat
    BY DEF Copies
  <2> QED BY <1>7, <2>1 DEF Fresh
<1>9. \A d \in Copies : Fresh(d)' => Fresh(d)
  BY <1>2 DEF Fresh
<1> QED BY <1>1, <1>8, <1>9

(* A copy published comes after all others. *)
LEMMA PublishOrder ==
    ASSUME TypeOK, LenInv, PlaceInv, OrderInv, NEW i \in Instances, ExecutePublish(i)
    PROVE  OrderInv'
<1>1. PICK rank \in [Copies -> Nat], n \in Nat : Ordered(rank, n)
  BY DEF OrderInv
<1>2. PICK p \in 1 .. Len(pubs[i]), c \in Copies :
        /\ p = executed[i] + 1 /\ executed'[i] = p
        /\ \A q \in Instances : q # i => executed'[q] = executed[q]
        /\ c.msg = pubs[i][p].msg /\ c.no = resent[c.msg]
        /\ \A q \in Instances : ~Subscribed(q) => inbox'[q] = inbox[q]
        /\ \A q \in Instances : Subscribed(q) =>
             /\ Len(inbox'[q]) = Len(inbox[q]) + 1
             /\ \A j \in 1 .. Len(inbox[q]) : inbox'[q][j] = inbox[q][j]
             /\ inbox'[q][Len(inbox[q]) + 1].copy = c
        /\ UNCHANGED <<asked, pubs, resent, emitted, conn, received>>
  BY ExecutePublishIs
<1>3. Fresh(c) /\ ~Fresh(c)' /\ \A d \in Copies : Fresh(d)' => Fresh(d)
  BY <1>2, PublishFresh
<1> DEFINE new == [rank EXCEPT ![c] = n + 1]
<1>4. /\ new \in [Copies -> Nat] /\ new[c] = n + 1
      /\ \A d \in Copies : d # c => new[d] = rank[d]
  OBVIOUS
<1> HIDE DEF new
<1>5. rank[c] = 0 /\ \A d \in Copies : rank[d] \in Nat /\ rank[d] <= n
  BY <1>1, <1>3 DEF Ordered
<1>6. \A d \in Copies : rank[d] > 0 => new[d] = rank[d] /\ new[d] < n + 1
  BY <1>4, <1>5
<1>7. \A d \in Copies : new[d] <= n + 1 /\ (Fresh(d)' => new[d] = 0)
  BY <1>1, <1>3, <1>4, <1>5 DEF Ordered
<1>8. ASSUME NEW q \in Instances, NEW k \in 1 .. Len(inbox[q])
      PROVE  /\ inbox[q][k].copy \in Copies /\ rank[inbox[q][k].copy] > 0
             /\ \A j \in 1 .. Len(inbox[q]) :
                  j < k => rank[inbox[q][j].copy] < rank[inbox[q][k].copy]
  <2>1. inbox[q][k].copy \in Copies
    BY Typed DEF Heard
  <2> QED BY <1>1, <2>1 DEF Ordered
<1>9. ASSUME NEW q \in Instances, NEW k \in 1 .. Len(inbox'[q])
      PROVE  \/ k \in 1 .. Len(inbox[q]) /\ inbox'[q][k] = inbox[q][k]
             \/ /\ inbox'[q][k].copy = c /\ k = Len(inbox[q]) + 1
                /\ \A j \in 1 .. Len(inbox[q]) : inbox'[q][j] = inbox[q][j]
  <2>1. Len(inbox[q]) \in Nat
    BY Typed
  <2>2. CASE Subscribed(q)
    BY <1>2, <2>1, <2>2
  <2>3. CASE ~Subscribed(q)
    BY <1>2, <2>3
  <2> QED BY <2>2, <2>3
<1>10. ASSUME NEW q \in Instances, NEW k \in 1 .. Len(inbox'[q])
      PROVE  /\ new[inbox'[q][k].copy] > 0
             /\ \A j \in 1 .. Len(inbox'[q]) :
                  j < k => new[inbox'[q][j].copy] < new[inbox'[q][k].copy]
  <2>1. Len(inbox[q]) \in Nat
    BY Typed
  <2>2. CASE k \in 1 .. Len(inbox[q]) /\ inbox'[q][k] = inbox[q][k]
    <3>1. ASSUME NEW j \in 1 .. Len(inbox'[q]), j < k
          PROVE  new[inbox'[q][j].copy] < new[inbox'[q][k].copy]
      <4>1. j \in 1 .. Len(inbox[q]) /\ inbox'[q][j] = inbox[q][j]
        BY <1>9, <2>1, <2>2, <3>1
      <4>2. /\ rank[inbox[q][j].copy] < rank[inbox[q][k].copy]
            /\ new[inbox[q][j].copy] = rank[inbox[q][j].copy]
            /\ new[inbox[q][k].copy] = rank[inbox[q][k].copy]
        BY <1>6, <1>8, <2>2, <3>1, <4>1
      <4> QED BY <2>2, <4>1, <4>2
    <3>2. new[inbox'[q][k].copy] > 0
      BY <1>6, <1>8, <2>2
    <3> QED BY <3>1, <3>2
  <2>3. CASE /\ inbox'[q][k].copy = c /\ k = Len(inbox[q]) + 1
             /\ \A j \in 1 .. Len(inbox[q]) : inbox'[q][j] = inbox[q][j]
    <3>1. ASSUME NEW j \in 1 .. Len(inbox'[q]), j < k
          PROVE  new[inbox'[q][j].copy] < n + 1
      <4>1. j \in 1 .. Len(inbox[q]) /\ inbox'[q][j] = inbox[q][j]
        BY <2>1, <2>3, <3>1
      <4> QED BY <1>6, <1>8, <4>1
    <3> QED BY <1>4, <2>3, <3>1
  <2> QED BY <1>9, <2>2, <2>3
<1>11. ASSUME NEW b \in Browsers, NEW k \in 1 .. Len(received[b])
      PROVE  /\ new[received[b][k]] = rank[received[b][k]]
             /\ rank[received[b][k]] > 0 /\ new[received[b][k]] < n + 1
  <2>1. received[b][k] \in Copies /\ rank[received[b][k]] > 0
    BY <1>1, Typed DEF Ordered
  <2> QED BY <1>6, <2>1
<1>12. ASSUME NEW b \in Browsers, NEW k \in 1 .. Len(received[b]), conn[b] # Nowhere,
             NEW j \in 1 .. Len(inbox'[conn[b]])
      PROVE  new[received[b][k]] < new[inbox'[conn[b]][j].copy]
  <2>1. conn[b] \in Instances
    BY <1>12 DEF TypeOK
  <2>2. CASE inbox'[conn[b]][j].copy = c
    BY <1>4, <1>11, <2>2
  <2>3. CASE inbox'[conn[b]][j].copy # c
    <3>1. j \in 1 .. Len(inbox[conn[b]]) /\ inbox'[conn[b]][j] = inbox[conn[b]][j]
      BY <1>9, <1>12, <2>1, <2>3
    <3>2. rank[received[b][k]] < rank[inbox[conn[b]][j].copy]
      BY <1>1, <1>12, <3>1 DEF Ordered
    <3>3. new[inbox[conn[b]][j].copy] = rank[inbox[conn[b]][j].copy]
      BY <1>6, <1>8, <2>1, <3>1
    <3> QED BY <1>11, <3>1, <3>2, <3>3
  <2> QED BY <2>2, <2>3
<1>13. Ordered(new, n + 1)'
  <2>1. \A b \in Browsers : \A k \in 1 .. Len(received[b]) :
           /\ new[received[b][k]] > 0
           /\ \A j \in 1 .. Len(received[b]) :
                j < k => new[received[b][j]] < new[received[b][k]]
    BY <1>1, <1>11 DEF Ordered
  <2> QED BY <1>2, <1>7, <1>10, <1>12, <2>1 DEF Ordered
<1> QED BY <1>4, <1>13 DEF OrderInv

(* What is delivered comes before all that is left and after all received. *)
LEMMA DeliverOrder ==
    ASSUME TypeOK, OrderInv, NEW i \in Instances, Deliver(i)
    PROVE  OrderInv'
<1>1. PICK rank \in [Copies -> Nat], n \in Nat : Ordered(rank, n)
  BY DEF OrderInv
<1>2. \A c \in Copies : rank[c] <= n /\ (Fresh(c)' => rank[c] = 0)
  <2>1. UNCHANGED <<asked, pubs, executed, resent, emitted>>
    BY DeliverIs
  <2>2. \A c \in Copies : Fresh(c)' => Fresh(c)
    BY <2>1 DEF Fresh, Waiting, IncrAt, New
  <2> QED BY <1>1, <2>2 DEF Ordered
<1>3. ASSUME NEW q \in Instances, NEW k \in 1 .. Len(inbox'[q])
      PROVE  LET l == IF q = i THEN k + 1 ELSE k
             IN  l \in 1 .. Len(inbox[q]) /\ inbox'[q][k] = inbox[q][l]
  <2>1. CASE q = i
    BY <2>1, DeliverIs
  <2>2. CASE q # i
    BY <2>2, DeliverIs
  <2> QED BY <2>1, <2>2
<1>4. ASSUME NEW q \in Instances, NEW k \in 1 .. Len(inbox'[q])
      PROVE  /\ rank[inbox'[q][k].copy] > 0
             /\ \A j \in 1 .. Len(inbox'[q]) :
                  j < k => rank[inbox'[q][j].copy] < rank[inbox'[q][k].copy]
  <2>1. \A x, y \in 1 .. Len(inbox[q]) :
          /\ rank[inbox[q][y].copy] > 0
          /\ x < y => rank[inbox[q][x].copy] < rank[inbox[q][y].copy]
    BY <1>1 DEF Ordered
  <2>2. CASE q = i
    <3>1. \A x \in 1 .. Len(inbox'[i]) :
            x + 1 \in 1 .. Len(inbox[i]) /\ inbox'[i][x] = inbox[i][x + 1]
      BY <1>3
    <3>2. \A x, y \in 1 .. Len(inbox'[i]) : x < y => x + 1 < y + 1
      OBVIOUS
    <3>3. ASSUME NEW x \in 1 .. Len(inbox'[i]), NEW y \in 1 .. Len(inbox'[i]), x < y
          PROVE  rank[inbox'[i][x].copy] < rank[inbox'[i][y].copy]
      BY <2>1, <2>2, <3>1, <3>2, <3>3
    <3>4. rank[inbox'[i][k].copy] > 0
      BY <1>4, <2>1, <2>2, <3>1
    <3> QED BY <1>4, <2>2, <3>3, <3>4
  <2>3. CASE q # i
    BY <1>3, <1>4, <2>1, <2>3
  <2> QED BY <2>2, <2>3
<1> DEFINE first == inbox[i][1].copy
<1>5. /\ first \in Copies /\ rank[first] > 0 /\ 1 \in 1 .. Len(inbox[i])
      /\ \A k \in 1 .. Len(inbox'[i]) : rank[first] < rank[inbox'[i][k].copy]
  <2>1. 1 \in 1 .. Len(inbox[i])
    BY DeliverIs
  <2>2. ASSUME NEW k \in 1 .. Len(inbox'[i])
        PROVE  rank[first] < rank[inbox'[i][k].copy]
    <3>1. 1 < k + 1 /\ k + 1 \in 1 .. Len(inbox[i])
          /\ inbox'[i][k] = inbox[i][k + 1]
      BY <1>3, <2>2
    <3> QED BY <1>1, <2>1, <3>1 DEF Ordered
  <2>3. first \in Copies
    BY <2>1, Typed DEF Heard
  <2> QED BY <1>1, <2>1, <2>2, <2>3 DEF Ordered
<1>6. ASSUME NEW b \in Browsers
      PROVE  \A k \in 1 .. Len(received'[b]) :
               /\ rank[received'[b][k]] > 0
               /\ \A j \in 1 .. Len(received'[b]) :
                    j < k => rank[received'[b][j]] < rank[received'[b][k]]
               /\ conn[b] # Nowhere =>
                    \A j \in 1 .. Len(inbox'[conn[b]]) :
                        rank[received'[b][k]] < rank[inbox'[conn[b]][j].copy]
  <2>1. CASE received'[b] = received[b]
    <3>1. ASSUME NEW k \in 1 .. Len(received[b]), conn[b] # Nowhere,
                 NEW j \in 1 .. Len(inbox'[conn[b]])
          PROVE  rank[received[b][k]] < rank[inbox'[conn[b]][j].copy]
      <4>1. conn[b] \in Instances
        BY <3>1 DEF TypeOK
      <4>2. PICK l \in 1 .. Len(inbox[conn[b]]) : inbox'[conn[b]][j] = inbox[conn[b]][l]
        BY <1>3, <3>1, <4>1
      <4> QED BY <1>1, <3>1, <4>2 DEF Ordered
    <3> QED BY <1>1, <2>1, <3>1 DEF Ordered
  <2>2. CASE received'[b] # received[b]
    <3> DEFINE len == Len(received[b])
    <3>1. conn[b] = i /\ i # Nowhere
      BY <2>2, DeliverReceives, GatewayAssumption
    <3>2. /\ len \in Nat /\ Len(received'[b]) = len + 1
          /\ \A k \in 1 .. len : received'[b][k] = received[b][k]
          /\ received'[b][len + 1] = first
      BY <2>2, DeliverReceives, Typed
    <3>3. \A k \in 1 .. len : /\ rank[received[b][k]] > 0
                              /\ rank[received[b][k]] < rank[first]
                              /\ received[b][k] \in Copies
      BY <1>1, <1>5, <3>1, Typed DEF Ordered
    <3>4. \A k \in 1 .. len : \A j \in 1 .. Len(inbox'[i]) :
            rank[received[b][k]] < rank[inbox'[i][j].copy]
      <4>1. \A k \in 1 .. len : \A j \in 1 .. Len(inbox[i]) :
              rank[received[b][k]] < rank[inbox[i][j].copy]
        BY <1>1, <3>1 DEF Ordered
      <4>2. \A j \in 1 .. Len(inbox'[i]) :
              j + 1 \in 1 .. Len(inbox[i]) /\ inbox'[i][j] = inbox[i][j + 1]
        BY <1>3
      <4> QED BY <4>1, <4>2
    <3>5. \A k, j \in 1 .. len : j < k => rank[received[b][j]] < rank[received[b][k]]
      BY <1>1 DEF Ordered
    <3> HIDE DEF len, first
    <3>6. ASSUME NEW k \in 1 .. Len(received'[b])
          PROVE  \/ k \in 1 .. len /\ received'[b][k] = received[b][k]
                 \/ k = len + 1 /\ received'[b][k] = first
      BY <3>2
    <3>7. ASSUME NEW k \in 1 .. Len(received'[b]), NEW j \in 1 .. Len(received'[b]), j < k
          PROVE  rank[received'[b][j]] < rank[received'[b][k]]
      <4>1. j \in 1 .. len /\ received'[b][j] = received[b][j]
        BY <3>2, <3>6, <3>7
      <4> QED BY <3>3, <3>5, <3>6, <3>7, <4>1
    <3> QED BY <1>5, <3>1, <3>3, <3>4, <3>6, <3>7
  <2> QED BY <2>1, <2>2
<1>7. conn' = conn
  BY DeliverIs
<1>8. Ordered(rank, n)'
  BY <1>2, <1>4, <1>6, <1>7 DEF Ordered
<1> QED BY <1>8 DEF OrderInv

(* Only a PUBLISH executed numbers a copy, after all others. *)
LEMMA OrderInvStep ==
    ASSUME TypeOK, ConnInv, LenInv, PlaceInv, OrderInv, Next
    PROVE  OrderInv'
<1>1. ASSUME NEW i \in Instances, Starts(i)
      PROVE  OrderInv'
  <2>1. UNCHANGED <<asked, pubs, executed, emitted, resent>>
    BY <1>1, StartsIs
  <2>2. Quiet
    BY <1>1, <2>1, StartsIs DEF Quiet, Fresh, Waiting, IncrAt, New
  <2> QED BY <2>2, QuietOrder
<1>2. ASSUME NEW i \in Instances, ExecuteCommand(i)
      PROVE  OrderInv'
  <2>1. UNCHANGED <<asked, pubs, executed, emitted, resent>>
    BY <1>2, ExecuteCommandIs
  <2>2. Quiet
    BY <1>2, <2>1, ExecuteCommandIs DEF Quiet, Fresh, Waiting, IncrAt, New
  <2> QED BY <2>2, QuietOrder
<1>3. ASSUME NEW i \in Instances, PublishNotice(i)
      PROVE  OrderInv'
  <2>1. /\ ReadAnswer(i) /\ IncrAt(i, 1) /\ UNCHANGED <<executed, emitted, resent>>
        /\ asked[i][1].msg \in Messages /\ answers[i][1] \in Counts
        /\ Publish(i, asked[i][1].msg, answers[i][1])
    BY <1>3, PublishNoticeIs
  <2>8. \A m \in Messages : Waiting(m)' => Waiting(m)
    <3> SUFFICES ASSUME NEW m \in Messages, Waiting(m)' PROVE Waiting(m)
      OBVIOUS
    <3>1. CASE New(m)'
      BY <2>1, <3>1 DEF New, Waiting
    <3>2. ASSUME NEW q \in Instances, NEW k \in Nat, IncrAt(q, k)', asked'[q][k].msg = m
          PROVE  Waiting(m)
      <4>1. PICK j \in Nat : IncrAt(q, j) /\ asked'[q][k] = asked[q][j]
        BY <2>1, <3>2, ReadsIncr
      <4> QED BY <3>2, <4>1 DEF Waiting
    <3>3. ASSUME NEW q \in Instances, NEW k \in executed[q] + 1 .. Len(pubs'[q]),
                 pubs'[q][k].msg = m
          PROVE  Waiting(m)
      <4>1. CASE k \in 1 .. Len(pubs[q]) /\ pubs'[q][k] = pubs[q][k]
        <5>1. k \in executed[q] + 1 .. Len(pubs[q])
          BY <3>3, <4>1, Typed
        <5> QED BY <3>3, <4>1, <5>1 DEF Waiting
      <4>2. CASE q = i /\ pubs'[q][k].msg = asked[i][1].msg
        BY <2>1, <3>3, <4>2 DEF Waiting
      <4>3. \/ k \in 1 .. Len(pubs[q]) /\ pubs'[q][k] = pubs[q][k]
            \/ q = i /\ pubs'[q][k].msg = asked[i][1].msg
        <5>1. k \in 1 .. Len(pubs'[q]) /\ executed[q] \in Nat
          BY <3>3, Typed
        <5>2. q = i => k \in 1 .. Len(pubs[i]) \/ k = Len(pubs[i]) + 1
          BY <2>1, <5>1, PublishIs
        <5> QED BY <2>1, <5>1, <5>2, PublishIs
      <4> QED BY <4>1, <4>2, <4>3
    <3> QED BY <2>1, <3>1, <3>2, <3>3 DEF Waiting
  <2>9. Quiet
    BY <1>3, <2>8, PublishNoticeIs DEF Quiet, Fresh, Copies
  <2> QED BY <2>9, QuietOrder
<1>4. ASSUME NEW i \in Instances, CountReply(i)
      PROVE  OrderInv'
  <2>1. ReadAnswer(i) /\ UNCHANGED <<pubs, executed, emitted, resent>>
    BY <1>4, CountReplyIs
  <2>8. \A m \in Messages : Waiting(m)' => Waiting(m)
    <3> SUFFICES ASSUME NEW q \in Instances, NEW k \in Nat, IncrAt(q, k)'
                 PROVE  \E j \in Nat : IncrAt(q, j) /\ asked'[q][k] = asked[q][j]
      BY <2>1 DEF Waiting, New
    <3> QED BY <2>1, ReadsIncr
  <2>9. Quiet
    BY <1>4, <2>8, CountReplyIs DEF Quiet, Fresh, Copies
  <2> QED BY <2>9, QuietOrder
<1>5. ASSUME NEW i \in Instances, ExecutePublish(i)
      PROVE  OrderInv'
  BY <1>5, PublishOrder
<1>6. ASSUME NEW i \in Instances, Deliver(i)
      PROVE  OrderInv'
  BY <1>6, DeliverOrder
<1>7. ASSUME NEW i \in Instances, LoseSub(i)
      PROVE  OrderInv'
  <2>1. UNCHANGED <<asked, pubs, executed, emitted, resent>>
    BY <1>7, LoseSubIs
  <2>2. Quiet
    BY <1>7, <2>1, LoseSubIs DEF Quiet, Fresh, Waiting, IncrAt, New
  <2> QED BY <2>2, QuietOrder
<1>8. ASSUME NEW i \in Instances, LoseClient(i)
      PROVE  OrderInv'
  <2>1. UNCHANGED <<asked, pubs, executed, emitted, resent>>
    BY <1>8, LoseClientIs
  <2>2. Quiet
    BY <1>8, <2>1, LoseClientIs DEF Quiet, Fresh, Waiting, IncrAt, New
  <2> QED BY <2>2, QuietOrder
<1>9. ASSUME NEW i \in Instances, Stop(i)
      PROVE  OrderInv'
  <2>1. /\ emitted' = emitted /\ resent' = resent
        /\ Len(asked'[i]) = 0 /\ Len(pubs'[i]) = 0 /\ executed'[i] = 0
        /\ \A q \in Instances : q # i =>
             asked'[q] = asked[q] /\ pubs'[q] = pubs[q] /\ executed'[q] = executed[q]
    BY <1>9, StopIs
  <2>2. \A d \in Browsers : \/ Len(received'[d]) = 0
                            \/ received'[d] = received[d] /\ conn'[d] = conn[d]
    <3> SUFFICES ASSUME NEW d \in Browsers
                 PROVE  \/ Len(received'[d]) = 0
                        \/ received'[d] = received[d] /\ conn'[d] = conn[d]
      OBVIOUS
    <3>1. CASE conn[d] = i
      <4>1. received'[d] = <<>> /\ received'[d] \in Seq(Copies)
        BY <1>9, <3>1, StopIs
      <4> QED BY <4>1, EmptySeq
    <3>2. CASE conn[d] # i
      BY <1>9, <3>2, StopIs
    <3> QED BY <3>1, <3>2
  <2>3. \A q \in Instances : inbox'[q] = inbox[q] \/ Len(inbox'[q]) = 0
    BY <1>9, StopIs
  <2>8. \A m \in Messages : Waiting(m)' => Waiting(m)
    <3>1. \A q \in Instances, k \in Nat : IncrAt(q, k)' =>
            IncrAt(q, k) /\ asked'[q][k] = asked[q][k]
      BY <2>1 DEF IncrAt
    <3>2. \A q \in Instances : \A k \in executed'[q] + 1 .. Len(pubs'[q]) : q # i
      BY <2>1
    <3>3. ASSUME NEW q \in Instances, NEW k \in executed'[q] + 1 .. Len(pubs'[q])
          PROVE  k \in executed[q] + 1 .. Len(pubs[q]) /\ pubs'[q][k] = pubs[q][k]
      BY <2>1, <3>2
    <3> QED BY <2>1, <3>1, <3>3 DEF Waiting, New
  <2>9. Quiet
    BY <1>9, <2>1, <2>2, <2>3, <2>8 DEF Quiet, Fresh, Copies
  <2> QED BY <2>9, QuietOrder
<1>10. ASSUME NEW i \in Instances, NEW m \in Messages, Emit(i, m)
      PROVE  OrderInv'
  <2>1. /\ New(m) /\ emitted' = emitted \cup {<<i, m>>}
        /\ UNCHANGED <<executed, resent>>
        /\ \/ Publish(i, m, 0) /\ asked' = asked /\ 0 \in Counts
           \/ pubs' = pubs /\ Asks(i, [kind |-> "incr", msg |-> m])
    BY <1>10, EmitIs
  <2>8. \A x \in Messages : Waiting(x)' => Waiting(x)
    <3> SUFFICES ASSUME NEW x \in Messages, Waiting(x)' PROVE Waiting(x)
      OBVIOUS
    <3>1. CASE x = m
      BY <2>1, <3>1 DEF Waiting
    <3>2. CASE New(x)'
      BY <2>1, <3>2 DEF New, Waiting
    <3>3. ASSUME NEW q \in Instances, NEW k \in Nat, IncrAt(q, k)', asked'[q][k].msg = x, x # m
          PROVE  Waiting(x)
      <4>1. IncrAt(q, k) /\ asked'[q][k] = asked[q][k]
        <5>1. CASE asked' = asked
          BY <3>3, <5>1 DEF IncrAt
        <5>2. CASE Asks(i, [kind |-> "incr", msg |-> m])
          BY <3>3, <5>2, IncrIncr
        <5> QED BY <2>1, <5>1, <5>2
      <4> QED BY <3>3, <4>1 DEF Waiting
    <3>4. ASSUME NEW q \in Instances, NEW k \in executed[q] + 1 .. Len(pubs'[q]),
                 pubs'[q][k].msg = x, x # m
          PROVE  Waiting(x)
      <4>1. k \in 1 .. Len(pubs'[q]) /\ executed[q] \in Nat /\ Len(pubs[q]) \in Nat
        BY <3>4, Typed
      <4>2. k \in 1 .. Len(pubs[q]) /\ pubs'[q][k] = pubs[q][k]
        <5>1. CASE pubs' = pubs
          BY <4>1, <5>1
        <5>2. CASE Publish(i, m, 0) /\ 0 \in Counts
          <6>1. q = i => k \in 1 .. Len(pubs[i]) \/ k = Len(pubs[i]) + 1
            BY <4>1, <5>2, PublishIs
          <6> QED BY <3>4, <4>1, <5>2, <6>1, PublishIs
        <5> QED BY <2>1, <5>1, <5>2
      <4>3. k \in executed[q] + 1 .. Len(pubs[q])
        BY <3>4, <4>1, <4>2
      <4> QED BY <3>4, <4>2, <4>3 DEF Waiting
    <3> QED BY <2>1, <3>1, <3>2, <3>3, <3>4 DEF Waiting
  <2>9. Quiet
    BY <1>10, <2>8, EmitIs DEF Quiet, Fresh, Copies
  <2> QED BY <2>9, QuietOrder
<1>11. ASSUME NEW i \in Instances, NEW n \in Nat, LosePub(i, n)
      PROVE  OrderInv'
  <2>1. /\ n < executed[i] /\ executed'[i] = 0
        /\ Len(pubs[i]) \in Nat /\ Len(pubs'[i]) = Len(pubs[i]) - n
        /\ \A k \in 1 .. Len(pubs[i]) - n : pubs'[i][k] = pubs[i][k + n]
        /\ \A q \in Instances : q # i => pubs'[q] = pubs[q] /\ executed'[q] = executed[q]
        /\ \A m \in Messages : \/ resent'[m] = resent[m] + 1
                               \/ /\ resent'[m] = resent[m]
                                  /\ \A k \in n + 1 .. executed[i] : pubs[i][k].msg # m
        /\ UNCHANGED <<asked, emitted, inbox, received, conn>>
    BY <1>11, LosePubIs
  <2>2. ASSUME NEW m \in Messages, Waiting(m)', resent'[m] = resent[m] PROVE Waiting(m)
    <3>1. \A k \in n + 1 .. executed[i] : pubs[i][k].msg # m
      <4>1. resent[m] \in Nat
        BY DEF TypeOK
      <4> QED BY <2>1, <2>2, <4>1
    <3>2. ASSUME NEW q \in Instances, NEW k \in executed'[q] + 1 .. Len(pubs'[q]),
                 pubs'[q][k].msg = m
          PROVE  Waiting(m)
      <4>1. CASE q = i
        <5>1. k + n \in 1 .. Len(pubs[i]) /\ k + n > n /\ pubs[i][k + n].msg = m
          BY <2>1, <3>2, <4>1
        <5>2. k + n \in executed[i] + 1 .. Len(pubs[i])
          BY <3>1, <5>1, Typed
        <5> QED BY <5>1, <5>2 DEF Waiting
      <4>2. CASE q # i
        BY <2>1, <3>2, <4>2 DEF Waiting
      <4> QED BY <4>1, <4>2
    <3> QED BY <2>1, <2>2, <3>2 DEF Waiting, IncrAt, New
  <2>3. ASSUME NEW c \in Copies, Fresh(c)' PROVE Fresh(c)
    <3>1. c.msg \in Messages /\ c.no \in Nat /\ resent[c.msg] \in Nat
      BY DEF Copies, TypeOK
    <3>2. CASE resent'[c.msg] = resent[c.msg]
      BY <2>2, <2>3, <3>1, <3>2 DEF Fresh
    <3>3. CASE resent'[c.msg] = resent[c.msg] + 1
      <4>1. c.no > resent'[c.msg] \/ c.no = resent'[c.msg]
        BY <2>3 DEF Fresh
      <4>2. c.no > resent[c.msg]
        BY <3>1, <3>3, <4>1
      <4> QED BY <4>2 DEF Fresh
    <3> QED BY <2>1, <3>1, <3>2, <3>3
  <2>4. Quiet
    BY <2>1, <2>3 DEF Quiet
  <2> QED BY <2>4, QuietOrder
<1>12. ASSUME NEW b \in Browsers, NEW i \in Instances, Connect(b, i)
      PROVE  OrderInv'
  <2>1. /\ UNCHANGED <<pubs, executed, emitted, resent>> /\ Asks(i, [kind |-> "get"])
        /\ conn[b] = Nowhere /\ \A d \in Browsers : d # b => conn'[d] = conn[d]
        /\ inbox' = inbox /\ received' = received
    BY <1>12, ConnectIs
  <2>2. \A q \in Instances, k \in Nat : IncrAt(q, k)' =>
          IncrAt(q, k) /\ asked'[q][k] = asked[q][k]
    BY <2>1, GetIncr
  <2>3. Len(received'[b]) = 0
    BY <2>1, EmptySeq DEF ConnInv
  <2>8. \A m \in Messages : Waiting(m)' => Waiting(m)
    BY <2>1, <2>2 DEF Waiting, New
  <2>9. Quiet
    BY <1>12, <2>1, <2>3, <2>8 DEF Quiet, Fresh, Copies
  <2> QED BY <2>9, QuietOrder
<1>13. ASSUME NEW b \in Browsers, Disconnect(b)
      PROVE  OrderInv'
  <2>1. UNCHANGED <<asked, pubs, executed, emitted, resent>>
    BY <1>13, DisconnectIs
  <2>2. \A c \in Copies : Fresh(c)' => Fresh(c)
    BY <2>1 DEF Fresh, Waiting, IncrAt, New
  <2>3. Len(received'[b]) = 0
    BY <1>13, DisconnectIs, EmptySeq
  <2>4. Quiet
    BY <1>13, <2>2, <2>3, DisconnectIs DEF Quiet
  <2> QED BY <2>4, QuietOrder
<1> QED BY <1>1, <1>2, <1>3, <1>4, <1>5, <1>6, <1>7, <1>8, <1>9, <1>10, <1>11, <1>12,
           <1>13 DEF Next, Starts

(* What is due stays in the inbox until it is received, or is due no more. *)
LEMMA DueInvStep ==
    ASSUME TypeOK, ConnInv, LenInv, DueInv, Next
    PROVE  DueInv'
<1>1. ASSUME NEW i \in Instances, Starts(i)
      PROVE  DueInv'
  <2>1. UNCHANGED <<inbox, conn, due>>
    BY <1>1, StartsIs
  <2> QED BY <2>1 DEF DueInv, Coming
<1>2. ASSUME NEW i \in Instances, ExecuteCommand(i)
      PROVE  DueInv'
  <2>1. UNCHANGED <<inbox, conn, due>>
    BY <1>2, ExecuteCommandIs
  <2> QED BY <2>1 DEF DueInv, Coming
<1>3. ASSUME NEW i \in Instances, PublishNotice(i)
      PROVE  DueInv'
  <2>1. UNCHANGED <<inbox, conn, due>>
    BY <1>3, PublishNoticeIs
  <2> QED BY <2>1 DEF DueInv, Coming
<1>4. ASSUME NEW i \in Instances, CountReply(i)
      PROVE  DueInv'
  <2>1. UNCHANGED <<inbox, conn, due>>
    BY <1>4, CountReplyIs
  <2> QED BY <2>1 DEF DueInv, Coming
<1>5. ASSUME NEW i \in Instances, ExecutePublish(i)
      PROVE  DueInv'
  <2>1. PICK c \in Copies :
          /\ \A q \in Instances : ~Subscribed(q) => inbox'[q] = inbox[q]
          /\ \A q \in Instances : Subscribed(q) =>
               /\ Len(inbox'[q]) = Len(inbox[q]) + 1
               /\ \A j \in 1 .. Len(inbox[q]) : inbox'[q][j] = inbox[q][j]
               /\ inbox'[q][Len(inbox[q]) + 1].copy = c
          /\ due' = [b \in Browsers |->
                       IF conn[b] # Nowhere /\ phase[conn[b]] = "ready"
                       THEN due[b] \cup {c} ELSE due[b]]
          /\ conn' = conn
    BY <1>5, ExecutePublishIs
  <2> SUFFICES ASSUME NEW b \in Browsers, NEW d \in due'[b] PROVE Coming(b, d)'
    BY DEF DueInv
  <2>2. CASE d \in due[b]
    <3>1. /\ conn[b] # Nowhere /\ conn[b] \in Instances
          /\ \E k \in 1 .. Len(inbox[conn[b]]) : inbox[conn[b]][k].copy = d
      BY <2>2 DEF DueInv, Coming, TypeOK
    <3>2. PICK k \in 1 .. Len(inbox[conn[b]]) : inbox[conn[b]][k].copy = d
      BY <3>1
    <3>3. k \in 1 .. Len(inbox'[conn[b]]) /\ inbox'[conn[b]][k] = inbox[conn[b]][k]
      <4>1. CASE Subscribed(conn[b])
        BY <2>1, <3>1, <4>1, Typed
      <4>2. CASE ~Subscribed(conn[b])
        BY <2>1, <3>1, <4>2
      <4> QED BY <4>1, <4>2
    <3> QED BY <2>1, <3>1, <3>2, <3>3 DEF Coming
  <2>3. CASE d \notin due[b]
    <3>1. d = c /\ conn[b] # Nowhere /\ phase[conn[b]] = "ready"
      BY <2>1, <2>3
    <3>2. conn[b] \in Instances /\ Subscribed(conn[b])
      BY <3>1 DEF Subscribed, TypeOK
    <3>3. /\ Len(inbox[conn[b]]) + 1 \in 1 .. Len(inbox'[conn[b]])
          /\ inbox'[conn[b]][Len(inbox[conn[b]]) + 1].copy = d
      BY <2>1, <3>1, <3>2, Typed
    <3> QED BY <2>1, <3>1, <3>3 DEF Coming
  <2> QED BY <2>2, <2>3
<1>6. ASSUME NEW i \in Instances, Deliver(i)
      PROVE  DueInv'
  <2> SUFFICES ASSUME NEW b \in Browsers, NEW d \in due'[b] PROVE Coming(b, d)'
    BY DEF DueInv
  <2>1. d \in due[b] /\ d \notin Range(received'[b])
    BY <1>6 DEF Deliver
  <2>2. /\ conn[b] # Nowhere /\ conn[b] \in Instances /\ conn' = conn
        /\ \E k \in 1 .. Len(inbox[conn[b]]) : inbox[conn[b]][k].copy = d
    <3>1. Coming(b, d)
      BY <2>1 DEF DueInv
    <3>2. conn' = conn
      BY <1>6, DeliverIs
    <3> QED BY <3>1, <3>2 DEF Coming, TypeOK
  <2>3. PICK k \in 1 .. Len(inbox[conn[b]]) : inbox[conn[b]][k].copy = d
    BY <2>2
  <2>4. CASE conn[b] # i
    BY <1>6, <2>2, <2>4, DeliverIs DEF Coming
  <2>5. CASE conn[b] = i /\ k = 1
    <3>1. phase[i] = "ready"
      <4>1. Subscribed(i) /\ phase[i] \in {"ready", "lost"}
        BY <1>6, <2>2, <2>5, DeliverIs DEF ConnInv
      <4> QED BY <4>1 DEF Subscribed
    <3>2. /\ Len(received'[b]) = Len(received[b]) + 1 /\ received'[b] \in Seq(Copies)
          /\ received'[b][Len(received[b]) + 1] = d
      BY <1>6, <2>3, <2>5, <3>1, DeliverReceives
    <3>3. Len(received[b]) + 1 \in DOMAIN received'[b]
      BY <3>2, SeqIs, Typed
    <3> QED BY <2>1, <3>2, <3>3 DEF Range
  <2>6. CASE conn[b] = i /\ k # 1
    <3>1. k - 1 \in 1 .. Len(inbox[i]) - 1 /\ (k - 1) + 1 = k
      BY <2>6, Typed
    <3>2. k - 1 \in 1 .. Len(inbox'[i]) /\ inbox'[i][k - 1] = inbox[i][k]
      <4>1. \A j \in 1 .. Len(inbox[i]) - 1 : inbox'[i][j] = inbox[i][j + 1]
        BY <1>6, DeliverIs
      <4>2. inbox'[i][k - 1] = inbox[i][(k - 1) + 1]
        BY <3>1, <4>1
      <4> QED BY <1>6, <3>1, <4>2, DeliverIs
    <3> QED BY <2>2, <2>3, <2>6, <3>2 DEF Coming
  <2> QED BY <2>4, <2>5, <2>6
<1>7. ASSUME NEW i \in Instances, LoseSub(i)
      PROVE  DueInv'
  <2>1. /\ \A q \in Instances : q # i => inbox'[q] = inbox[q]
        /\ \A b \in Browsers : conn[b] = i => due'[b] = {}
        /\ \A b \in Browsers : conn[b] # i => due'[b] = due[b]
        /\ conn' = conn
    BY <1>7, LoseSubIs
  <2> SUFFICES ASSUME NEW b \in Browsers, NEW d \in due'[b] PROVE Coming(b, d)'
    BY DEF DueInv
  <2>2. conn[b] # i /\ d \in due[b]
    BY <2>1
  <2>3. conn[b] \in Instances /\ Coming(b, d)
    BY <2>2 DEF DueInv, Coming, TypeOK
  <2> QED BY <2>1, <2>2, <2>3 DEF Coming
<1>8. ASSUME NEW i \in Instances, LoseClient(i)
      PROVE  DueInv'
  <2>1. UNCHANGED <<inbox, conn, due>>
    BY <1>8, LoseClientIs
  <2> QED BY <2>1 DEF DueInv, Coming
<1>9. ASSUME NEW i \in Instances, Stop(i)
      PROVE  DueInv'
  <2>1. /\ \A q \in Instances : q # i => inbox'[q] = inbox[q]
        /\ \A b \in Browsers : conn[b] = i => due'[b] = {}
        /\ \A b \in Browsers : conn[b] # i => due'[b] = due[b] /\ conn'[b] = conn[b]
    BY <1>9, StopIs
  <2> SUFFICES ASSUME NEW b \in Browsers, NEW d \in due'[b] PROVE Coming(b, d)'
    BY DEF DueInv
  <2>2. conn[b] # i /\ d \in due[b]
    BY <2>1
  <2>3. conn[b] \in Instances /\ Coming(b, d)
    BY <2>2 DEF DueInv, Coming, TypeOK
  <2> QED BY <2>1, <2>2, <2>3 DEF Coming
<1>10. ASSUME NEW i \in Instances, NEW m \in Messages, Emit(i, m)
      PROVE  DueInv'
  <2>1. UNCHANGED <<inbox, conn, due>>
    BY <1>10, EmitIs
  <2> QED BY <2>1 DEF DueInv, Coming
<1>11. ASSUME NEW i \in Instances, NEW n \in Nat, LosePub(i, n)
      PROVE  DueInv'
  <2>1. UNCHANGED <<inbox, conn, due>>
    BY <1>11, LosePubIs
  <2> QED BY <2>1 DEF DueInv, Coming
<1>12. ASSUME NEW b \in Browsers, NEW i \in Instances, Connect(b, i)
      PROVE  DueInv'
  <2>1. /\ UNCHANGED <<inbox, due>> /\ conn[b] = Nowhere
        /\ \A d \in Browsers : d # b => conn'[d] = conn[d]
    BY <1>12, ConnectIs
  <2>2. due[b] = {}
    BY <2>1 DEF DueInv, Coming
  <2> QED BY <2>1, <2>2 DEF DueInv, Coming
<1>13. ASSUME NEW b \in Browsers, Disconnect(b)
      PROVE  DueInv'
  <2>1. /\ inbox' = inbox /\ due'[b] = {}
        /\ \A d \in Browsers : d # b => conn'[d] = conn[d] /\ due'[d] = due[d]
    BY <1>13, DisconnectIs
  <2> QED BY <2>1 DEF DueInv, Coming
<1> QED BY <1>1, <1>2, <1>3, <1>4, <1>5, <1>6, <1>7, <1>8, <1>9, <1>10, <1>11, <1>12,
           <1>13 DEF Next, Starts

(* What a step does not touch stays current. *)
LEMMA CountKept ==
    ASSUME NEW q \in Instances, CountAt(q), counter' = counter,
           asked'[q] = asked[q], answers'[q] = answers[q], pubs'[q] = pubs[q],
           executed'[q] = executed[q], inbox'[q] = inbox[q],
           \A b \in Browsers : conn'[b] = q /\ b \notin gap' =>
               b \notin gap /\ conn[b] = q /\ shown'[b] = shown[b]
    PROVE  CountAt(q)'
<1>1. AnswersCurrent(q)'
  BY DEF CountAt, AnswersCurrent, IncrAt
<1>2. PubsCurrent(q)'
  BY DEF CountAt, PubsCurrent, NoIncr, IncrAt, NoticePub
<1>3. InboxCurrent(q)'
  BY DEF CountAt, InboxCurrent, NoIncr, IncrAt, NoNoticeLeft, NoticePub, NoticeAt
<1>4. ShownCurrent(q)'
  BY DEF CountAt, ShownCurrent, NoNoticeLeft, NoticePub, NoticeAt
<1> QED BY <1>1, <1>2, <1>3, <1>4 DEF CountAt

(* A process whose notices have been emitted is the only one that may be   *)
(* the sole process to notify.                                             *)
LEMMA SoleIs ==
    ASSUME NEW q, Sole(q), NEW i, NEW m \in Notices, <<i, m>> \in emitted
    PROVE  q = i
<1>1. <<i, m>>[1] = i /\ <<i, m>>[2] = m
  OBVIOUS
<1> QED BY <1>1 DEF Sole

(* Of the answers left when one was read, the last is current if it was.   *)
LEMMA ReadAnswersCurrent ==
    ASSUME TypeOK, LenInv, NEW i \in Instances, ReadAnswer(i), AnswersCurrent(i)
    PROVE  /\ AnswersCurrent(i)'
           /\ (\A j \in Nat : IncrAt(i, j) => j = 1) => answers[i][1] = counter
<1>1. /\ Len(answers[i]) \in Nat \ {0} /\ Len(answers'[i]) = Len(answers[i]) - 1
      /\ \A k \in 1 .. Len(answers[i]) - 1 : answers'[i][k] = answers[i][k + 1]
      /\ counter' = counter
  BY ReadAnswerIs
<1>2. ASSUME NEW k \in 1 .. Len(answers'[i]),
             \A j \in 1 .. Len(answers'[i]) : IncrAt(i, j)' => j <= k
      PROVE  answers'[i][k] = counter'
  <2>1. k + 1 \in 1 .. Len(answers[i]) /\ answers'[i][k] = answers[i][k + 1]
    BY <1>1
  <2>2. ASSUME NEW j \in 1 .. Len(answers[i]), IncrAt(i, j) PROVE j <= k + 1
    <3>1. CASE j = 1
      BY <1>1, <3>1
    <3>2. CASE j # 1
      <4>1. PICK x \in Nat : x = j - 1 /\ x # 0 /\ x \in 1 .. Len(answers'[i]) /\ j = x + 1
        BY <1>1, <3>2
      <4>2. IncrAt(i, x)'
        BY <2>2, <4>1, ReadsIncr
      <4> QED BY <1>2, <4>1, <4>2
    <3> QED BY <3>1, <3>2
  <2> QED BY <1>1, <2>1, <2>2 DEF AnswersCurrent
<1>3. AnswersCurrent(i)'
  BY <1>2 DEF AnswersCurrent
<1>4. ASSUME \A j \in Nat : IncrAt(i, j) => j = 1 PROVE answers[i][1] = counter
  <2>1. 1 \in 1 .. Len(answers[i]) /\ \A j \in 1 .. Len(answers[i]) : IncrAt(i, j) => j <= 1
    BY <1>1, <1>4
  <2> QED BY <2>1 DEF AnswersCurrent
<1> QED BY <1>3, <1>4

(* With one process that notifies, what is on its way is current. *)
LEMMA CountInvStep ==
    ASSUME TypeOK, ConnInv, InboxInv, LenInv, PlaceInv, CountInv, Next
    PROVE  CountInv'
<1>1. ASSUME NEW i \in Instances, Starts(i)
      PROVE  CountInv'
  <2>1. /\ UNCHANGED <<asked, pubs, executed, inbox, counter, emitted, conn, shown, gap>>
        /\ answers' = answers
    BY <1>1, StartsIs
  <2> SUFFICES ASSUME NEW q \in Instances, Sole(q)' PROVE CountAt(q)'
    BY DEF CountInv
  <2>2. Sole(q) /\ CountAt(q)
    BY <2>1 DEF CountInv, Sole
  <2> QED BY <2>1, <2>2, CountKept
<1>2. ASSUME NEW i \in Instances, ExecuteCommand(i)
      PROVE  CountInv'
  <2>1. /\ UNCHANGED <<asked, pubs, executed, inbox, emitted, conn, shown, gap>>
        /\ Len(answers[i]) \in Nat /\ Len(answers'[i]) = Len(answers[i]) + 1
        /\ \A k \in 1 .. Len(answers[i]) : answers'[i][k] = answers[i][k]
        /\ answers'[i][Len(answers[i]) + 1] = counter'
        /\ \A q \in Instances : q # i => answers'[q] = answers[q]
        /\ IncrAt(i, Len(answers[i]) + 1) \/ counter' = counter
        /\ Len(answers[i]) + 1 \in 1 .. Len(asked[i])
    BY <1>2, ExecuteCommandIs
  <2>2. ASSUME NEW q \in Instances, Sole(q), q # i PROVE counter' = counter
    <3> SUFFICES ASSUME IncrAt(i, Len(answers[i]) + 1) PROVE FALSE
      BY <2>1
    <3>1. PICK k \in Nat : IncrAt(i, k)
      BY <2>1
    <3>2. asked[i][k].msg \in Notices /\ <<i, asked[i][k].msg>> \in emitted
      BY <3>1 DEF PlaceInv
    <3> QED BY <2>2, <3>2, SoleIs
  <2> SUFFICES ASSUME NEW q \in Instances, Sole(q)' PROVE CountAt(q)'
    BY DEF CountInv
  <2>3. Sole(q) /\ CountAt(q)
    BY <2>1 DEF CountInv, Sole
  <2>4. CASE q # i
    BY <2>1, <2>2, <2>3, <2>4, CountKept
  <2>5. CASE q = i
    <3>1. AnswersCurrent(i)'
      <4> SUFFICES ASSUME NEW k \in 1 .. Len(answers'[i]),
                          \A j \in 1 .. Len(answers'[i]) : IncrAt(i, j)' => j <= k
                   PROVE  answers'[i][k] = counter'
        BY DEF AnswersCurrent
      <4>1. CASE k = Len(answers[i]) + 1
        BY <2>1, <4>1
      <4>2. CASE k # Len(answers[i]) + 1
        <5>1. k \in 1 .. Len(answers[i]) /\ Len(answers[i]) + 1 \in 1 .. Len(answers'[i])
          BY <2>1, <4>2
        <5>2. \A j \in 1 .. Len(answers'[i]) : IncrAt(i, j) => j <= k
          BY <2>1 DEF IncrAt
        <5>3. ~IncrAt(i, Len(answers[i]) + 1)
          BY <2>1, <5>1, <5>2
        <5>4. \A j \in 1 .. Len(answers[i]) : IncrAt(i, j) => j <= k
          BY <2>1, <5>2
        <5>5. answers[i][k] = counter
          BY <2>3, <2>5, <5>1, <5>4 DEF CountAt, AnswersCurrent
        <5> QED BY <2>1, <5>1, <5>3, <5>5
      <4> QED BY <4>1, <4>2
    <3>2. CASE counter' = counter
      <4>1. PubsCurrent(i)' /\ InboxCurrent(i)' /\ ShownCurrent(i)'
        BY <2>1, <2>3, <2>5, <3>2 DEF CountAt, PubsCurrent, InboxCurrent, ShownCurrent,
           NoIncr, IncrAt, NoNoticeLeft, NoticePub, NoticeAt
      <4> QED BY <2>5, <3>1, <4>1 DEF CountAt
    <3>3. CASE IncrAt(i, Len(answers[i]) + 1)
      <4>1. Len(asked'[i]) # 0 /\ ~NoIncr(i)'
        BY <2>1, <3>3 DEF NoIncr, IncrAt
      <4>2. PubsCurrent(i)' /\ InboxCurrent(i)' /\ ShownCurrent(i)'
        BY <4>1 DEF PubsCurrent, InboxCurrent, ShownCurrent
      <4> QED BY <2>5, <3>1, <4>2 DEF CountAt
    <3> QED BY <2>1, <3>2, <3>3
  <2> QED BY <2>4, <2>5
<1>3. ASSUME NEW i \in Instances, PublishNotice(i)
      PROVE  CountInv'
  <2>1. /\ ReadAnswer(i) /\ IncrAt(i, 1) /\ UNCHANGED <<executed, inbox, emitted, conn, shown, gap>>
        /\ asked[i][1].msg \in Messages /\ answers[i][1] \in Counts
        /\ Publish(i, asked[i][1].msg, answers[i][1])
    BY <1>3, PublishNoticeIs
  <2>2. /\ counter' = counter
        /\ \A q \in Instances : q # i =>
             asked'[q] = asked[q] /\ answers'[q] = answers[q] /\ pubs'[q] = pubs[q]
        /\ Len(pubs[i]) \in Nat /\ Len(pubs'[i]) = Len(pubs[i]) + 1
        /\ pubs'[i][Len(pubs[i]) + 1].msg = asked[i][1].msg
        /\ pubs'[i][Len(pubs[i]) + 1].count = answers[i][1]
        /\ asked[i][1].msg \in Notices
    <3>1. asked[i][1].msg \in Notices
      BY <2>1 DEF PlaceInv
    <3>2. /\ counter' = counter
          /\ \A q \in Instances : q # i => asked'[q] = asked[q] /\ answers'[q] = answers[q]
      BY <2>1, ReadAnswerIs
    <3>3. /\ \A q \in Instances : q # i => pubs'[q] = pubs[q]
          /\ Len(pubs[i]) \in Nat /\ Len(pubs'[i]) = Len(pubs[i]) + 1
          /\ pubs'[i][Len(pubs[i]) + 1].msg = asked[i][1].msg
          /\ pubs'[i][Len(pubs[i]) + 1].count = answers[i][1]
      BY <2>1, PublishIs
    <3> QED BY <3>1, <3>2, <3>3
  <2> SUFFICES ASSUME NEW q \in Instances, Sole(q)' PROVE CountAt(q)'
    BY DEF CountInv
  <2>3. Sole(q) /\ CountAt(q)
    BY <2>1 DEF CountInv, Sole
  <2>4. CASE q # i
    BY <2>1, <2>2, <2>3, <2>4, CountKept
  <2>5. CASE q = i
    <3> DEFINE last == Len(pubs[i]) + 1
    <3>1. AnswersCurrent(i)'
      BY <2>1, <2>3, <2>5, ReadAnswersCurrent DEF CountAt
    <3>2. last \in Nat /\ (\A j \in Nat : NoticePub(i, j)' => j <= last)
      BY <2>2 DEF NoticePub
    <3>3. last \in 1 .. Len(pubs'[i]) /\ pubs'[i][last].msg \in Notices
      BY <2>2
    <3>4. PubsCurrent(i)'
      <4> SUFFICES ASSUME NoIncr(i)', NEW k \in Nat, NoticePub(i, k)',
                          \A j \in Nat : NoticePub(i, j)' => j <= k
                   PROVE  pubs'[i][k].count = counter'
        BY DEF PubsCurrent
      <4>1. k = last
        <5>1. \A j \in Nat : j \in 1 .. Len(pubs'[i]) /\ pubs'[i][j].msg \in Notices => j <= k
          BY DEF NoticePub
        <5>2. last <= k /\ k <= last
          BY <3>2, <3>3, <5>1
        <5> QED BY <3>2, <5>2
      <4>2. ASSUME NEW j \in Nat, IncrAt(i, j) PROVE j = 1
        <5> SUFFICES ASSUME j # 1 PROVE FALSE
          OBVIOUS
        <5>1. j \in Nat \ {0}
          BY <4>2 DEF IncrAt
        <5>2. PICK x \in Nat : x = j - 1 /\ x # 0 /\ j = x + 1
          BY <5>1
        <5>3. IncrAt(i, x)'
          BY <2>1, <4>2, <5>2, ReadsIncr
        <5> QED BY <5>3 DEF NoIncr
      <4>3. answers[i][1] = counter
        BY <2>1, <2>3, <2>5, <4>2, ReadAnswersCurrent DEF CountAt
      <4> QED BY <2>2, <4>1, <4>3
    <3>5. ~NoNoticeLeft(i)'
      <4>1. executed'[i] < last
        BY <2>1, <2>2, Typed DEF LenInv
      <4>2. \E x \in Nat : x = last /\ NoticePub(i, x)' /\ ~(x <= executed'[i])
        <5> HIDE DEF last
        <5>1. PICK x \in Nat : x = last
          BY <3>2
        <5>2. NoticePub(i, x)'
          BY <3>3, <5>1 DEF NoticePub
        <5>3. ~(x <= executed'[i])
          BY <2>1, <4>1, <5>1, Typed
        <5> QED BY <5>1, <5>2, <5>3
      <4> QED BY <4>2 DEF NoNoticeLeft
    <3>6. InboxCurrent(i)' /\ ShownCurrent(i)'
      BY <3>5 DEF InboxCurrent, ShownCurrent
    <3> QED BY <2>5, <3>1, <3>4, <3>6 DEF CountAt
  <2> QED BY <2>4, <2>5
<1>4. ASSUME NEW i \in Instances, CountReply(i)
      PROVE  CountInv'
  <2>1. /\ ReadAnswer(i) /\ ~IncrAt(i, 1) /\ counter' = counter
        /\ \A q \in Instances : q # i => asked'[q] = asked[q] /\ answers'[q] = answers[q]
        /\ \A b \in Browsers : conn[b] # i => shown'[b] = shown[b]
        /\ \A b \in Browsers : conn[b] = i => shown'[b] = answers[i][1]
        /\ UNCHANGED <<pubs, executed, inbox, emitted, conn, gap>>
    BY <1>4, CountReplyIs, ReadAnswerIs
  <2> SUFFICES ASSUME NEW q \in Instances, Sole(q)' PROVE CountAt(q)'
    BY DEF CountInv
  <2>3. Sole(q) /\ CountAt(q)
    BY <2>1 DEF CountInv, Sole
  <2>4. CASE q # i
    BY <2>1, <2>3, <2>4, CountKept
  <2>5. CASE q = i
    <3>1. AnswersCurrent(i)'
      BY <2>1, <2>3, <2>5, ReadAnswersCurrent DEF CountAt
    <3>2. ASSUME NEW j \in Nat, IncrAt(i, j)
          PROVE  \E x \in Nat : IncrAt(i, x)' /\ x # 0
      <4>1. j \in Nat \ {0} /\ j # 1
        BY <2>1, <3>2 DEF IncrAt
      <4>2. PICK x \in Nat : x = j - 1 /\ x # 0 /\ j = x + 1
        BY <4>1
      <4> QED BY <2>1, <3>2, <4>2, ReadsIncr
    <3>3. NoIncr(i)' => NoIncr(i)
      BY <3>2 DEF NoIncr
    <3>4. PubsCurrent(i)' /\ InboxCurrent(i)'
      <4>1. NoNoticeLeft(i)' <=> NoNoticeLeft(i)
        BY <2>1 DEF NoNoticeLeft, NoticePub
      <4> QED BY <2>1, <2>3, <2>5, <3>3, <4>1 DEF CountAt, PubsCurrent, InboxCurrent,
           NoticePub, NoticeAt
    <3>5. ShownCurrent(i)'
      <4> SUFFICES ASSUME Len(asked'[i]) = 0, NEW b \in Browsers, conn[b] = i
                   PROVE  shown'[b] = counter'
        BY <2>1 DEF ShownCurrent
      <4>1. NoIncr(i)'
        BY DEF NoIncr, IncrAt
      <4>2. \A j \in Nat : ~IncrAt(i, j)
        BY <3>3, <4>1 DEF NoIncr
      <4>3. answers[i][1] = counter
        BY <2>1, <2>3, <2>5, <4>2, ReadAnswersCurrent DEF CountAt
      <4> QED BY <2>1, <4>3
    <3> QED BY <2>5, <3>1, <3>4, <3>5 DEF CountAt
  <2> QED BY <2>4, <2>5
<1>5. ASSUME NEW i \in Instances, ExecutePublish(i)
      PROVE  CountInv'
  <2>1. PICK p \in 1 .. Len(pubs[i]), c \in Copies :
          /\ p = executed[i] + 1 /\ executed'[i] = p
          /\ \A q \in Instances : q # i => executed'[q] = executed[q]
          /\ executed' \in [Instances -> Nat]
          /\ c.msg = pubs[i][p].msg /\ c.no = resent[c.msg]
          /\ inbox' \in [Instances -> Seq(Heard)]
          /\ \A q \in Instances : ~Subscribed(q) => inbox'[q] = inbox[q]
          /\ \A q \in Instances : Subscribed(q) =>
               /\ Len(inbox'[q]) = Len(inbox[q]) + 1
               /\ \A j \in 1 .. Len(inbox[q]) : inbox'[q][j] = inbox[q][j]
               /\ inbox'[q][Len(inbox[q]) + 1].copy = c
               /\ inbox'[q][Len(inbox[q]) + 1].count = pubs[i][p].count
          /\ due' = [b \in Browsers |->
                       IF conn[b] # Nowhere /\ phase[conn[b]] = "ready"
                       THEN due[b] \cup {c} ELSE due[b]]
          /\ UNCHANGED <<asked, answers, counter, pubs, resent, phase, conn, received,
                         shown, emitted, gap, losses>>
    BY <1>5, ExecutePublishIs
  <2> SUFFICES ASSUME NEW q \in Instances, Sole(q)' PROVE CountAt(q)'
    BY DEF CountInv
  <2>2. Sole(q) /\ CountAt(q)
    BY <2>1 DEF CountInv, Sole
  <2>3. Len(inbox[q]) \in Nat /\ executed[i] \in Nat
    BY Typed
  <2>4. AnswersCurrent(q)' /\ PubsCurrent(q)'
    BY <2>1, <2>2 DEF CountAt, AnswersCurrent, PubsCurrent, NoIncr, IncrAt, NoticePub
  <2>5. NoIncr(q)' <=> NoIncr(q)
    BY <2>1 DEF NoIncr, IncrAt
  <2>6. CASE c.msg \notin Notices
    <3>1. ASSUME NEW k \in Nat
          PROVE  /\ NoticeAt(q, k)' <=> NoticeAt(q, k)
                 /\ NoticeAt(q, k) => inbox'[q][k] = inbox[q][k]
      <4>1. CASE Subscribed(q)
        <5>1. CASE k \in 1 .. Len(inbox[q])
          <6>1. k \in 1 .. Len(inbox'[q]) /\ inbox'[q][k] = inbox[q][k]
            BY <2>1, <2>3, <4>1, <5>1
          <6> QED BY <5>1, <6>1 DEF NoticeAt
        <5>2. CASE k = Len(inbox[q]) + 1
          BY <2>1, <2>3, <2>6, <4>1, <5>2 DEF NoticeAt
        <5>3. CASE k \notin 1 .. Len(inbox[q]) /\ k # Len(inbox[q]) + 1
          BY <2>1, <2>3, <4>1, <5>3 DEF NoticeAt
        <5> QED BY <5>1, <5>2, <5>3
      <4>2. CASE ~Subscribed(q)
        BY <2>1, <4>2 DEF NoticeAt
      <4> QED BY <4>1, <4>2
    <3>2. NoNoticeLeft(q)' => NoNoticeLeft(q)
      <4>1. CASE q = i
        <5>1. ~NoticePub(i, p)
          BY <2>1, <2>6 DEF NoticePub
        <5> SUFFICES ASSUME NoNoticeLeft(i)', NEW j \in Nat, NoticePub(i, j)
                     PROVE  j <= executed[i]
          BY <4>1 DEF NoNoticeLeft
        <5>2. j <= p /\ j # p
          BY <2>1, <5>1 DEF NoNoticeLeft, NoticePub
        <5> QED BY <2>1, <2>3, <5>2
      <4>2. CASE q # i
        BY <2>1, <4>2 DEF NoNoticeLeft, NoticePub
      <4> QED BY <4>1, <4>2
    <3>3. InboxCurrent(q)'
      <4> SUFFICES ASSUME NoIncr(q), NoNoticeLeft(q), NEW k \in Nat, NoticeAt(q, k)',
                          \A j \in Nat : NoticeAt(q, j)' => j <= k
                   PROVE  inbox'[q][k].count = counter
        BY <2>1, <2>5, <3>2 DEF InboxCurrent
      <4> QED BY <2>2, <3>1 DEF CountAt, InboxCurrent
    <3>4. ShownCurrent(q)'
      BY <2>1, <2>2, <3>1, <3>2 DEF CountAt, ShownCurrent
    <3> QED BY <2>4, <3>3, <3>4 DEF CountAt
  <2>7. CASE c.msg \in Notices
    <3>1. <<i, c.msg>> \in emitted
      BY <2>1 DEF PlaceInv
    <3>2. q = i /\ NoticePub(i, p)
      BY <2>1, <2>2, <2>7, <3>1, SoleIs DEF NoticePub
    <3>3. CASE Subscribed(i)
      <4> DEFINE last == Len(inbox[i]) + 1
      <4>1. /\ last \in 1 .. Len(inbox'[i]) /\ Len(inbox'[i]) = last /\ last \in Nat
            /\ inbox'[i][last].copy.msg \in Notices
            /\ inbox'[i][last].count = pubs[i][p].count
        BY <2>1, <2>3, <2>7, <3>2, <3>3
      <4> HIDE DEF last
      <4>2. ASSUME NEW x \in Nat, x = last PROVE NoticeAt(i, x)'
        BY <4>1, <4>2 DEF NoticeAt
      <4>3. InboxCurrent(i)'
        <5> SUFFICES ASSUME NoIncr(i), NoNoticeLeft(i)', NEW k \in Nat, NoticeAt(i, k)',
                            \A j \in Nat : NoticeAt(i, j)' => j <= k
                     PROVE  inbox'[i][k].count = counter
          BY <2>1, <2>5, <3>2 DEF InboxCurrent
        <5>1. k = last
          <6>1. k <= last
            BY <4>1 DEF NoticeAt
          <6>2. last <= k
            BY <4>1, <4>2
          <6> QED BY <4>1, <6>1, <6>2
        <5>2. \A j \in Nat : NoticePub(i, j) => j <= p
          BY <2>1 DEF NoNoticeLeft, NoticePub
        <5>3. pubs[i][p].count = counter
          BY <2>2, <3>2, <5>2 DEF CountAt, PubsCurrent
        <5> QED BY <4>1, <5>1, <5>3
      <4>4. ShownCurrent(i)'
        BY <4>1, <4>2 DEF ShownCurrent
      <4> QED BY <2>4, <3>2, <4>3, <4>4 DEF CountAt
    <3>4. CASE ~Subscribed(i)
      <4>1. inbox'[i] = <<>> /\ Len(inbox[i]) = 0 /\ inbox'[i] = inbox[i]
        BY <2>1, <3>4, Typed DEF InboxInv
      <4>2. InboxCurrent(i)'
        BY <4>1 DEF InboxCurrent, NoticeAt
      <4>3. ASSUME NEW b \in Browsers, b \notin gap, conn[b] = i PROVE FALSE
        BY <3>4, <4>3, GatewayAssumption DEF ConnInv, Subscribed
      <4>4. ShownCurrent(i)'
        BY <2>1, <4>3 DEF ShownCurrent
      <4> QED BY <2>4, <3>2, <4>2, <4>4 DEF CountAt
    <3> QED BY <3>3, <3>4
  <2> QED BY <2>6, <2>7
<1>6. ASSUME NEW i \in Instances, Deliver(i)
      PROVE  CountInv'
  <2>1. /\ UNCHANGED <<asked, answers, pubs, executed, counter, emitted, conn, gap>>
        /\ \A q \in Instances : q # i => inbox'[q] = inbox[q]
        /\ Len(inbox[i]) \in Nat \ {0} /\ Len(inbox'[i]) = Len(inbox[i]) - 1
        /\ \A k \in 1 .. Len(inbox[i]) - 1 : inbox'[i][k] = inbox[i][k + 1]
        /\ Head(inbox[i]) = inbox[i][1] /\ Subscribed(i)
    BY <1>6, DeliverIs
  <2>2. \A b \in Browsers : conn[b] # i => shown'[b] = shown[b]
    BY <1>6 DEF Deliver, SocketsOf, TypeOK
  <2> SUFFICES ASSUME NEW q \in Instances, Sole(q)' PROVE CountAt(q)'
    BY DEF CountInv
  <2>3. Sole(q) /\ CountAt(q)
    BY <2>1 DEF CountInv, Sole
  <2>4. CASE q # i
    BY <2>1, <2>2, <2>3, <2>4, CountKept
  <2>5. CASE q = i
    <3>1. AnswersCurrent(i)' /\ PubsCurrent(i)'
      BY <2>1, <2>3, <2>5 DEF CountAt, AnswersCurrent, PubsCurrent, NoIncr, IncrAt, NoticePub
    <3>2. /\ NoIncr(i)' <=> NoIncr(i)
          /\ NoNoticeLeft(i)' <=> NoNoticeLeft(i)
      BY <2>1 DEF NoIncr, IncrAt, NoNoticeLeft, NoticePub
    <3>3. ASSUME NEW k \in Nat, NEW j, j = k + 1
          PROVE  /\ NoticeAt(i, k)' => j \in Nat /\ NoticeAt(i, j) /\ inbox'[i][k] = inbox[i][j]
                 /\ NoticeAt(i, j) /\ k # 0 => NoticeAt(i, k)'
      BY <2>1, <3>3 DEF NoticeAt
    <3>4. ASSUME NEW j \in Nat, NoticeAt(i, j), j # 1
          PROVE  \E x \in Nat : x # 0 /\ j = x + 1 /\ NoticeAt(i, x)'
      <4>1. j \in Nat \ {0}
        BY <3>4 DEF NoticeAt
      <4>2. PICK x \in Nat : x = j - 1 /\ x # 0 /\ j = x + 1
        BY <3>4, <4>1
      <4> QED BY <3>3, <3>4, <4>2
    <3>5. InboxCurrent(i)'
      <4> SUFFICES ASSUME NoIncr(i), NoNoticeLeft(i), NEW k \in Nat, NoticeAt(i, k)',
                          \A j \in Nat : NoticeAt(i, j)' => j <= k
                   PROVE  inbox'[i][k].count = counter
        BY <2>1, <3>2 DEF InboxCurrent
      <4>1. PICK l \in Nat : l = k + 1
        OBVIOUS
      <4>2. NoticeAt(i, l) /\ inbox'[i][k] = inbox[i][l]
        BY <3>3, <4>1
      <4>3. ASSUME NEW j \in Nat, NoticeAt(i, j) PROVE j <= l
        <5>1. CASE j = 1
          BY <4>1, <5>1
        <5>2. CASE j # 1
          <6>1. PICK x \in Nat : x # 0 /\ j = x + 1 /\ NoticeAt(i, x)'
            BY <3>4, <4>3, <5>2
          <6>2. x <= k
            BY <6>1
          <6> QED BY <4>1, <6>1, <6>2
        <5> QED BY <5>1, <5>2
      <4> QED BY <2>3, <2>5, <4>2, <4>3 DEF CountAt, InboxCurrent
    <3>6. ShownCurrent(i)'
      <4> SUFFICES ASSUME Len(asked[i]) = 0, NoNoticeLeft(i), \A k \in Nat : ~NoticeAt(i, k)',
                          NEW b \in Browsers, b \notin gap, conn[b] = i
                   PROVE  shown'[b] = counter
        BY <2>1, <3>2 DEF ShownCurrent
      <4>1. \A k \in Nat : NoticeAt(i, k) => k = 1
        BY <3>4
      <4>2. NoIncr(i)
        BY DEF NoIncr, IncrAt
      <4>3. phase[i] = "ready"
        BY GatewayAssumption DEF ConnInv
      <4>4. CASE inbox[i][1].copy.msg \in Notices
        <5>1. NoticeAt(i, 1) /\ \A j \in Nat : NoticeAt(i, j) => j <= 1
          BY <2>1, <4>1, <4>4 DEF NoticeAt
        <5>2. inbox[i][1].count = counter
          BY <2>3, <2>5, <4>2, <5>1 DEF CountAt, InboxCurrent
        <5>3. shown'[b] = inbox[i][1].count
          BY <1>6, <2>1, <4>3, <4>4 DEF Deliver, SocketsOf
        <5> QED BY <5>2, <5>3
      <4>5. CASE inbox[i][1].copy.msg \notin Notices
        <5>1. \A k \in Nat : ~NoticeAt(i, k)
          BY <4>1, <4>5 DEF NoticeAt
        <5>2. shown' = shown
          BY <1>6, <2>1, <4>5 DEF Deliver
        <5> QED BY <2>3, <2>5, <5>1, <5>2 DEF CountAt, ShownCurrent
      <4> QED BY <4>4, <4>5
    <3> QED BY <2>5, <3>1, <3>5, <3>6 DEF CountAt
  <2> QED BY <2>4, <2>5
<1>7. ASSUME NEW i \in Instances, LoseSub(i)
      PROVE  CountInv'
  <2>1. /\ UNCHANGED <<asked, answers, pubs, executed, counter, emitted, conn, shown>>
        /\ \A q \in Instances : q # i => inbox'[q] = inbox[q]
        /\ Len(inbox'[i]) = 0
        /\ \A b \in Browsers : b \in gap' <=> b \in gap \/ conn[b] = i
    BY <1>7, LoseSubIs
  <2> SUFFICES ASSUME NEW q \in Instances, Sole(q)' PROVE CountAt(q)'
    BY DEF CountInv
  <2>3. Sole(q) /\ CountAt(q)
    BY <2>1 DEF CountInv, Sole
  <2>4. CASE q # i
    BY <2>1, <2>3, <2>4, CountKept
  <2>5. CASE q = i
    <3>1. AnswersCurrent(i)' /\ PubsCurrent(i)'
      BY <2>1, <2>3, <2>5 DEF CountAt, AnswersCurrent, PubsCurrent, NoIncr, IncrAt, NoticePub
    <3>2. InboxCurrent(i)' /\ ShownCurrent(i)'
      BY <2>1 DEF InboxCurrent, ShownCurrent, NoticeAt
    <3> QED BY <2>5, <3>1, <3>2 DEF CountAt
  <2> QED BY <2>4, <2>5
<1>8. ASSUME NEW i \in Instances, LoseClient(i)
      PROVE  CountInv'
  <2>1. /\ UNCHANGED <<asked, pubs, executed, inbox, counter, emitted, conn, shown, gap>>
        /\ \A q \in Instances : q # i => answers'[q] = answers[q]
        /\ Len(answers'[i]) = 0
    BY <1>8, LoseClientIs
  <2> SUFFICES ASSUME NEW q \in Instances, Sole(q)' PROVE CountAt(q)'
    BY DEF CountInv
  <2>3. Sole(q) /\ CountAt(q)
    BY <2>1 DEF CountInv, Sole
  <2>4. CASE q # i
    BY <2>1, <2>3, <2>4, CountKept
  <2>5. CASE q = i
    <3>1. AnswersCurrent(i)'
      BY <2>1 DEF AnswersCurrent
    <3>2. PubsCurrent(i)' /\ InboxCurrent(i)' /\ ShownCurrent(i)'
      BY <2>1, <2>3, <2>5 DEF CountAt, PubsCurrent, InboxCurrent, ShownCurrent, NoIncr,
         IncrAt, NoNoticeLeft, NoticePub, NoticeAt
    <3> QED BY <2>5, <3>1, <3>2 DEF CountAt
  <2> QED BY <2>4, <2>5
<1>9. ASSUME NEW i \in Instances, Stop(i)
      PROVE  CountInv'
  <2>1. /\ counter' = counter /\ emitted' = emitted
        /\ Len(inbox'[i]) = 0 /\ Len(asked'[i]) = 0 /\ Len(answers'[i]) = 0
        /\ Len(pubs'[i]) = 0
        /\ \A q \in Instances : q # i =>
             /\ inbox'[q] = inbox[q] /\ asked'[q] = asked[q] /\ answers'[q] = answers[q]
             /\ pubs'[q] = pubs[q] /\ executed'[q] = executed[q]
    BY <1>9, StopIs
  <2>2. ASSUME NEW b \in Browsers
        PROVE  \/ conn'[b] = Nowhere
               \/ /\ conn'[b] = conn[b] /\ shown'[b] = shown[b]
                  /\ b \in gap' <=> b \in gap
                  /\ conn'[b] # i
    <3>1. CASE conn[b] = i
      BY <1>9, <3>1, StopIs
    <3>2. CASE conn[b] # i
      BY <1>9, <3>2, StopIs
    <3> QED BY <3>1, <3>2
  <2> SUFFICES ASSUME NEW q \in Instances, Sole(q)' PROVE CountAt(q)'
    BY DEF CountInv
  <2>3. Sole(q) /\ CountAt(q)
    BY <2>1 DEF CountInv, Sole
  <2>4. CASE q # i
    BY <2>1, <2>2, <2>3, <2>4, CountKept, GatewayAssumption
  <2>5. CASE q = i
    <3>1. AnswersCurrent(i)' /\ PubsCurrent(i)' /\ InboxCurrent(i)'
      BY <2>1 DEF AnswersCurrent, PubsCurrent, InboxCurrent, NoticePub, NoticeAt
    <3>2. ShownCurrent(i)'
      BY <2>2, GatewayAssumption DEF ShownCurrent
    <3> QED BY <2>5, <3>1, <3>2 DEF CountAt
  <2> QED BY <2>4, <2>5
<1>10. ASSUME NEW i \in Instances, NEW m \in Messages, Emit(i, m)
      PROVE  CountInv'
  <2>1. /\ emitted' = emitted \cup {<<i, m>>}
        /\ \/ m \notin Notices /\ Publish(i, m, 0) /\ asked' = asked /\ 0 \in Counts
           \/ m \in Notices /\ pubs' = pubs /\ Asks(i, [kind |-> "incr", msg |-> m])
        /\ UNCHANGED <<inbox, answers, counter, executed, conn, shown, gap>>
        /\ [kind |-> "incr", msg |-> m] \in Commands
    BY <1>10, EmitIs
  <2>2. \A q \in Instances : q # i => asked'[q] = asked[q] /\ pubs'[q] = pubs[q]
    BY <2>1, PublishIs, AsksIs
  <2> SUFFICES ASSUME NEW q \in Instances, Sole(q)' PROVE CountAt(q)'
    BY DEF CountInv
  <2>3. Sole(q) /\ CountAt(q)
    BY <2>1 DEF CountInv, Sole
  <2>4. CASE q # i
    BY <2>1, <2>2, <2>3, <2>4, CountKept
  <2>5. CASE q = i
    <3>1. CASE m \notin Notices /\ Publish(i, m, 0) /\ asked' = asked /\ 0 \in Counts
      <4>1. /\ Len(pubs[i]) \in Nat /\ Len(pubs'[i]) = Len(pubs[i]) + 1
            /\ \A k \in 1 .. Len(pubs[i]) : pubs'[i][k] = pubs[i][k]
            /\ pubs'[i][Len(pubs[i]) + 1].msg = m
        BY <3>1, PublishIs
      <4>2. ASSUME NEW k \in Nat
            PROVE  /\ NoticePub(i, k)' <=> NoticePub(i, k)
                   /\ NoticePub(i, k) => pubs'[i][k] = pubs[i][k]
        <5>1. CASE k \in 1 .. Len(pubs[i])
          BY <4>1, <5>1 DEF NoticePub
        <5>2. CASE k = Len(pubs[i]) + 1
          BY <3>1, <4>1, <5>2 DEF NoticePub
        <5>3. CASE k \notin 1 .. Len(pubs[i]) /\ k # Len(pubs[i]) + 1
          BY <4>1, <5>3 DEF NoticePub
        <5> QED BY <5>1, <5>2, <5>3
      <4>3. /\ NoIncr(i)' <=> NoIncr(i)
            /\ NoNoticeLeft(i)' <=> NoNoticeLeft(i)
        BY <2>1, <3>1, <4>2 DEF NoIncr, IncrAt, NoNoticeLeft
      <4>4. AnswersCurrent(i)'
        BY <2>1, <2>3, <2>5, <3>1 DEF CountAt, AnswersCurrent, IncrAt
      <4>5. PubsCurrent(i)'
        BY <2>1, <2>3, <2>5, <4>2, <4>3 DEF CountAt, PubsCurrent
      <4>6. InboxCurrent(i)' /\ ShownCurrent(i)'
        BY <2>1, <2>3, <2>5, <3>1, <4>3 DEF CountAt, InboxCurrent, ShownCurrent, NoticeAt
      <4> QED BY <2>5, <4>4, <4>5, <4>6 DEF CountAt
    <3>2. CASE m \in Notices /\ pubs' = pubs /\ Asks(i, [kind |-> "incr", msg |-> m])
      <4>1. /\ Len(asked[i]) \in Nat /\ Len(asked'[i]) = Len(asked[i]) + 1
            /\ \A k \in 1 .. Len(asked[i]) : asked'[i][k] = asked[i][k]
            /\ \A k \in Nat : k = Len(asked[i]) + 1 => IncrAt(i, k)'
        BY <2>1, <3>2, AsksIs, IncrIncr
      <4>2. ~NoIncr(i)' /\ Len(asked'[i]) # 0
        BY <4>1 DEF NoIncr
      <4>3. \A k \in 1 .. Len(answers[i]) : IncrAt(i, k)' <=> IncrAt(i, k)
        <5>1. Len(answers[i]) \in Nat /\ Len(answers[i]) <= Len(asked[i])
          BY Typed DEF LenInv
        <5> QED BY <4>1, <5>1 DEF IncrAt
      <4>4. AnswersCurrent(i)'
        BY <2>1, <2>3, <2>5, <4>3 DEF CountAt, AnswersCurrent
      <4>5. PubsCurrent(i)' /\ InboxCurrent(i)' /\ ShownCurrent(i)'
        BY <4>2 DEF PubsCurrent, InboxCurrent, ShownCurrent
      <4> QED BY <2>5, <4>4, <4>5 DEF CountAt
    <3> QED BY <2>1, <3>1, <3>2
  <2> QED BY <2>4, <2>5
<1>11. ASSUME NEW i \in Instances, NEW n \in Nat, LosePub(i, n)
      PROVE  CountInv'
  <2>1. /\ n < executed[i] /\ executed'[i] = 0
        /\ Len(pubs[i]) \in Nat /\ Len(pubs'[i]) = Len(pubs[i]) - n
        /\ \A k \in 1 .. Len(pubs[i]) - n : pubs'[i][k] = pubs[i][k + n]
        /\ \A q \in Instances : q # i => pubs'[q] = pubs[q] /\ executed'[q] = executed[q]
        /\ UNCHANGED <<asked, answers, counter, inbox, conn, shown, emitted, gap>>
    BY <1>11, LosePubIs
  <2> SUFFICES ASSUME NEW q \in Instances, Sole(q)' PROVE CountAt(q)'
    BY DEF CountInv
  <2>3. Sole(q) /\ CountAt(q)
    BY <2>1 DEF CountInv, Sole
  <2>4. CASE q # i
    BY <2>1, <2>3, <2>4, CountKept
  <2>5. CASE q = i
    <3>1. AnswersCurrent(i)' /\ (NoIncr(i)' <=> NoIncr(i))
      BY <2>1, <2>3, <2>5 DEF CountAt, AnswersCurrent, NoIncr, IncrAt
    <3>2. ASSUME NEW k \in Nat, NEW j, j = k + n
          PROVE  /\ NoticePub(i, k)' => j \in Nat /\ NoticePub(i, j) /\ pubs'[i][k] = pubs[i][j]
                 /\ NoticePub(i, j) /\ k # 0 => NoticePub(i, k)'
      BY <2>1, <3>2 DEF NoticePub
    <3>3. ASSUME NEW j \in Nat, NoticePub(i, j), j > n
          PROVE  \E x \in Nat : x # 0 /\ j = x + n /\ NoticePub(i, x)'
      <4>1. PICK x \in Nat : x = j - n /\ x # 0 /\ j = x + n
        BY <3>3
      <4> QED BY <3>2, <3>3, <4>1
    <3>4. PubsCurrent(i)'
      <4> SUFFICES ASSUME NoIncr(i), NEW k \in Nat, NoticePub(i, k)',
                          \A j \in Nat : NoticePub(i, j)' => j <= k
                   PROVE  pubs'[i][k].count = counter
        BY <2>1, <3>1 DEF PubsCurrent
      <4>1. PICK l \in Nat : l = k + n
        OBVIOUS
      <4>2. NoticePub(i, l) /\ pubs'[i][k] = pubs[i][l]
        BY <3>2, <4>1
      <4>3. ASSUME NEW j \in Nat, NoticePub(i, j) PROVE j <= l
        <5>1. CASE j <= n
          BY <4>1, <5>1
        <5>2. CASE j > n
          <6>1. PICK x \in Nat : x # 0 /\ j = x + n /\ NoticePub(i, x)'
            BY <3>3, <4>3, <5>2
          <6>2. x <= k
            BY <6>1
          <6> QED BY <4>1, <6>1, <6>2
        <5> QED BY <5>1, <5>2
      <4> QED BY <2>3, <2>5, <4>2, <4>3 DEF CountAt, PubsCurrent
    <3>5. NoNoticeLeft(i)' => NoNoticeLeft(i)
      <4> SUFFICES ASSUME NoNoticeLeft(i)', NEW j \in Nat, NoticePub(i, j)
                   PROVE  j <= executed[i]
        BY DEF NoNoticeLeft
      <4>1. \A x \in Nat : NoticePub(i, x)' => x <= 0
        BY <2>1 DEF NoNoticeLeft
      <4>2. ~(j > n)
        <5> SUFFICES ASSUME j > n PROVE FALSE
          OBVIOUS
        <5>1. PICK x \in Nat : x # 0 /\ NoticePub(i, x)'
          BY <3>3
        <5> QED BY <4>1, <5>1
      <4> QED BY <2>1, <4>2, Typed
    <3>6. InboxCurrent(i)' /\ ShownCurrent(i)'
      BY <2>1, <2>3, <2>5, <3>1, <3>5 DEF CountAt, InboxCurrent, ShownCurrent, NoticeAt
    <3> QED BY <2>5, <3>1, <3>4, <3>6 DEF CountAt
  <2> QED BY <2>4, <2>5
<1>12. ASSUME NEW b \in Browsers, NEW i \in Instances, Connect(b, i)
      PROVE  CountInv'
  <2>1. /\ Asks(i, [kind |-> "get"]) /\ [kind |-> "get"] \in Commands
        /\ conn'[b] = i
        /\ \A d \in Browsers : d # b => conn'[d] = conn[d] /\ (d \in gap' <=> d \in gap)
        /\ UNCHANGED <<inbox, answers, counter, pubs, executed, shown, emitted>>
    BY <1>12, ConnectIs
  <2>2. /\ \A q \in Instances : q # i => asked'[q] = asked[q]
        /\ Len(asked'[i]) # 0
    <3>1. /\ \A q \in Instances : q # i => asked'[q] = asked[q]
          /\ Len(asked[i]) \in Nat /\ Len(asked'[i]) = Len(asked[i]) + 1
      BY <2>1, AsksIs
    <3> QED BY <3>1
  <2> SUFFICES ASSUME NEW q \in Instances, Sole(q)' PROVE CountAt(q)'
    BY DEF CountInv
  <2>3. Sole(q) /\ CountAt(q)
    BY <2>1 DEF CountInv, Sole
  <2>4. CASE q # i
    BY <2>1, <2>2, <2>3, <2>4, CountKept
  <2>5. CASE q = i
    <3>1. \A k \in Nat : IncrAt(i, k)' <=> IncrAt(i, k)
      BY <2>1, GetIncr
    <3>2. AnswersCurrent(i)'
      BY <2>1, <2>3, <2>5, <3>1 DEF CountAt, AnswersCurrent
    <3>3. PubsCurrent(i)'
      BY <2>1, <2>3, <2>5, <3>1 DEF CountAt, PubsCurrent, NoIncr, NoticePub
    <3>4. InboxCurrent(i)'
      BY <2>1, <2>3, <2>5, <3>1 DEF CountAt, InboxCurrent, NoIncr, NoNoticeLeft, NoticePub,
         NoticeAt
    <3>5. ShownCurrent(i)'
      BY <2>2 DEF ShownCurrent
    <3> QED BY <2>5, <3>2, <3>3, <3>4, <3>5 DEF CountAt
  <2> QED BY <2>4, <2>5
<1>13. ASSUME NEW b \in Browsers, Disconnect(b)
      PROVE  CountInv'
  <2>1. /\ UNCHANGED <<asked, answers, pubs, executed, inbox, counter, emitted>>
        /\ conn'[b] = Nowhere
        /\ \A d \in Browsers : d # b =>
             conn'[d] = conn[d] /\ shown'[d] = shown[d] /\ (d \in gap' <=> d \in gap)
    BY <1>13, DisconnectIs
  <2> SUFFICES ASSUME NEW q \in Instances, Sole(q)' PROVE CountAt(q)'
    BY DEF CountInv
  <2>2. Sole(q) /\ CountAt(q)
    BY <2>1 DEF CountInv, Sole
  <2> QED BY <2>1, <2>2, CountKept, GatewayAssumption
<1> QED BY <1>1, <1>2, <1>3, <1>4, <1>5, <1>6, <1>7, <1>8, <1>9, <1>10, <1>11, <1>12,
           <1>13 DEF Next, Starts

(* Nothing is connected, asked, published or received at the start. *)
LEMMA InitInv == Init => Inv
<1> SUFFICES ASSUME Init PROVE Inv
  OBVIOUS
<1>1. \A S : <<>> \in Seq(S) /\ Len(<<>>) = 0
  OBVIOUS
<1>2. /\ \A i \in Instances :
           /\ inbox[i] = <<>> /\ asked[i] = <<>> /\ answers[i] = <<>> /\ pubs[i] = <<>>
           /\ executed[i] = 0
      /\ \A b \in Browsers : received[b] = <<>> /\ due[b] = {} /\ conn[b] = Nowhere
      /\ emitted = {}
  BY DEF Init
<1>3. TypeOK
  BY <1>1 DEF Init, TypeOK, Counts
<1>4. /\ \A i \in Instances : /\ Len(inbox[i]) = 0 /\ Len(asked[i]) = 0
                              /\ Len(answers[i]) = 0 /\ Len(pubs[i]) = 0
      /\ \A b \in Browsers : Len(received[b]) = 0
  BY <1>2, <1>3, Typed
<1>5. ConnInv /\ InboxInv /\ DueInv
  BY <1>2 DEF ConnInv, InboxInv, DueInv
<1>6. LenInv
  BY <1>2, <1>4 DEF LenInv
<1>7. /\ \A i \in Instances, k \in Nat : ~IncrAt(i, k)
      /\ \A i \in Instances : \A k \in 1 .. Len(pubs[i]) : FALSE
  BY <1>4 DEF IncrAt
<1>8. PlaceInv
  BY <1>2, <1>7 DEF PlaceInv
<1>9. CountInv
  BY <1>2, <1>4, GatewayAssumption DEF CountInv, CountAt, AnswersCurrent, PubsCurrent,
     InboxCurrent, ShownCurrent, NoticePub, NoticeAt
<1>10. OrderInv
  <2> DEFINE zero == [c \in Copies |-> 0]
  <2>1. zero \in [Copies -> Nat] /\ \A c \in Copies : zero[c] = 0
    OBVIOUS
  <2> HIDE DEF zero
  <2>2. Ordered(zero, 0)
    BY <1>4, <2>1 DEF Ordered
  <2> QED BY <2>1, <2>2 DEF OrderInv
<1> QED BY <1>3, <1>5, <1>6, <1>8, <1>9, <1>10 DEF Inv

(* Inv holds in every reachable state. *)
THEOREM Invariance == Spec => []Inv
<1>1. ASSUME Inv, [Next]_vars PROVE Inv'
  <2>1. CASE Next
    BY <1>1, <2>1, TypeOKStep, ConnInvStep, InboxInvStep, LenInvStep, PlaceInvStep,
       OrderInvStep, DueInvStep, CountInvStep DEF Inv
  <2>2. CASE UNCHANGED vars
    <3>1. UNCHANGED <<phase, inbox, asked, answers, counter, pubs, executed, resent,
                      conn, received, shown, emitted, due, losses, gap>>
      BY <2>2 DEF vars, clientVars, pubVars, socketVars
    <3>2. TypeOK' /\ ConnInv' /\ InboxInv' /\ LenInv'
      BY <1>1, <3>1 DEF Inv, TypeOK, ConnInv, InboxInv, LenInv, Subscribed
    <3>3. PlaceInv' /\ DueInv'
      BY <1>1, <3>1 DEF Inv, PlaceInv, IncrAt, DueInv, Coming
    <3>4. Quiet
      BY <3>1 DEF Quiet, Fresh, Waiting, New, IncrAt
    <3>5. OrderInv'
      BY <1>1, <3>4, QuietOrder DEF Inv
    <3>6. CountInv'
      BY <1>1, <3>1, CountKept DEF Inv, CountInv, Sole
    <3> QED BY <3>2, <3>3, <3>5, <3>6 DEF Inv
  <2> QED BY <1>1, <2>1, <2>2
<1> QED BY <1>1, InitInv, PTL DEF Spec

(* Every variable keeps its type. *)
THEOREM TypeCorrect == Spec => []TypeOK
<1>1. Inv => TypeOK
  BY DEF Inv
<1> QED BY <1>1, Invariance, PTL

(* A dashboard gets an event once, and once more at most for each time its *)
(* PUBLISH was sent again: the copies it got of it are told apart by their *)
(* number, and published ones have no number beyond resent.                *)
THEOREM DeliveredOnce == Spec => []OncePerSending
<1>1. Inv => OncePerSending
  <2> SUFFICES ASSUME Inv, NEW b \in Browsers, NEW m \in Messages
               PROVE  Cardinality({k \in DOMAIN received[b] : received[b][k].msg = m})
                        <= 1 + resent[m]
    BY DEF OncePerSending
  <2> DEFINE K == {k \in DOMAIN received[b] : received[b][k].msg = m}
  <2> DEFINE no == [k \in K |-> received[b][k].no]
  <2>1. PICK rank \in [Copies -> Nat], n \in Nat : Ordered(rank, n)
    BY DEF Inv, OrderInv
  <2>2. /\ resent[m] \in Nat /\ DOMAIN received[b] = 1 .. Len(received[b])
        /\ \A k \in 1 .. Len(received[b]) : received[b][k] \in Copies
    BY Typed DEF Inv, TypeOK
  <2>3. ASSUME NEW k \in K PROVE no[k] \in 0 .. resent[m]
    <3>1. received[b][k] \in Copies /\ received[b][k].msg = m
      BY <2>2
    <3>2. rank[received[b][k]] > 0
      BY <2>1, <2>2 DEF Ordered
    <3>3. ~Fresh(received[b][k])
      BY <2>1, <3>1, <3>2 DEF Ordered
    <3>4. received[b][k].no \in Nat /\ ~(received[b][k].no > resent[m])
      BY <3>1, <3>3 DEF Fresh, Copies
    <3> QED BY <2>2, <3>4
  <2>4. ASSUME NEW j \in K, NEW k \in K, no[j] = no[k] PROVE j = k
    <3>1. /\ received[b][j] \in Copies /\ received[b][k] \in Copies
          /\ received[b][j].msg = received[b][k].msg
          /\ received[b][j].no = received[b][k].no
      BY <2>2, <2>4
    <3>2. received[b][j] = received[b][k]
      BY <3>1 DEF Copies
    <3>3. j \in 1 .. Len(received[b]) /\ k \in 1 .. Len(received[b])
      BY <2>2
    <3>4. ~(rank[received[b][k]] < rank[received[b][k]])
      BY <3>1
    <3>5. ~(j < k) /\ ~(k < j)
      BY <2>1, <3>2, <3>3, <3>4 DEF Ordered
    <3> QED BY <3>3, <3>5
  <2>5. no \in Injection(K, 0 .. resent[m])
    BY <2>3, <2>4 DEF Injection, IsInjective
  <2>6. IsFiniteSet(0 .. resent[m]) /\ Cardinality(0 .. resent[m]) = 1 + resent[m]
    <3>1. 0 \in Int /\ resent[m] \in Int /\ ~(0 > resent[m])
      BY <2>2
    <3>2. /\ IsFiniteSet(0 .. resent[m])
          /\ Cardinality(0 .. resent[m])
               = IF 0 > resent[m] THEN 0 ELSE resent[m] - 0 + 1
      BY <3>1, FS_Interval
    <3> QED BY <2>2, <3>1, <3>2
  <2> HIDE DEF K, no
  <2>7. Cardinality(K) <= Cardinality(0 .. resent[m])
    BY <2>5, <2>6, FS_Injection
  <2> QED BY <2>6, <2>7 DEF K
<1> QED BY <1>1, Invariance, PTL

(* The dashboards of all processes get events in the order of publication. *)
THEOREM InOneOrder == Spec => []SameOrder
<1>1. Inv => SameOrder
  <2> SUFFICES ASSUME Inv, NEW b \in Browsers, NEW c \in Browsers,
                      NEW i \in DOMAIN received[b], NEW j \in DOMAIN received[b],
                      NEW k \in DOMAIN received[c], NEW l \in DOMAIN received[c],
                      i < j, received[b][i] = received[c][k],
                      received[b][j] = received[c][l]
               PROVE  k < l
    BY DEF SameOrder
  <2>1. PICK rank \in [Copies -> Nat], n \in Nat : Ordered(rank, n)
    BY DEF Inv, OrderInv
  <2>2. /\ i \in 1 .. Len(received[b]) /\ j \in 1 .. Len(received[b])
        /\ k \in 1 .. Len(received[c]) /\ l \in 1 .. Len(received[c])
        /\ rank[received[c][k]] \in Nat /\ rank[received[c][l]] \in Nat
    BY Typed DEF Inv
  <2>3. rank[received[c][k]] < rank[received[c][l]]
    BY <2>1, <2>2 DEF Ordered
  <2>4. l < k => rank[received[c][l]] < rank[received[c][k]]
    BY <2>1, <2>2 DEF Ordered
  <2> QED BY <2>2, <2>3, <2>4
<1> QED BY <1>1, Invariance, PTL

(* What was published while a dashboard's process listened reaches it, or  *)
(* is in the process's inbox.                                              *)
THEOREM NothingDueIsLost == Spec => []DueIsComing
<1>1. Inv => DueIsComing
  <2> SUFFICES ASSUME Inv, NEW b \in Browsers, NEW c \in due[b]
               PROVE  /\ conn[b] # Nowhere
                      /\ \E k \in DOMAIN inbox[conn[b]] : inbox[conn[b]][k].copy = c
    BY DEF DueIsComing
  <2>1. Coming(b, c) /\ conn[b] \in Instances
    BY DEF Inv, DueInv, Coming, TypeOK
  <2> QED BY <2>1, Typed DEF Inv, Coming
<1> QED BY <1>1, Invariance, PTL

(* With one process that notifies, INCR, its answer and the notice keep    *)
(* their order, and the count settles on the counter.                      *)
THEOREM CountSettlesOnCounter == Spec => []CountSettles
<1>1. Inv => CountSettles
  <2> SUFFICES ASSUME Inv, NEW i \in Instances, NEW b \in Browsers \ gap,
                      conn[b] = i, inbox[i] = <<>>, asked[i] = <<>>,
                      executed[i] = Len(pubs[i]),
                      \A e \in emitted : e[2] \in Notices => e[1] = i
               PROVE  shown[b] = counter
    BY DEF CountSettles
  <2>1. Len(inbox[i]) = 0 /\ Len(asked[i]) = 0
    BY Typed DEF Inv
  <2>2. NoNoticeLeft(i) /\ \A k \in Nat : ~NoticeAt(i, k)
    BY <2>1 DEF NoNoticeLeft, NoticePub, NoticeAt
  <2>3. ShownCurrent(i)
    BY DEF Inv, CountInv, CountAt, Sole
  <2> QED BY <2>1, <2>2, <2>3 DEF ShownCurrent
<1> QED BY <1>1, Invariance, PTL

=============================================================================
