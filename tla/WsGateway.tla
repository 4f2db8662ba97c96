------------------------------ MODULE WsGateway ------------------------------
(***************************************************************************)
(* WsGateway: every process publishes its events on the Redis channel      *)
(* ws-events over redisPub, hears all of them back over redisSub, and      *)
(* passes them on to its own sockets.  Notices (notify) also count: the    *)
(* counter in Redis is incremented first, over redisClient, and its value  *)
(* published with the notice.  A connection to Redis is first in, first    *)
(* out.  Each may be lost: ioredis connects again, subscribes again, and   *)
(* sends again every command that was not answered, executed or not, as    *)
(* often as it takes (maxRetriesPerRequest is null).                       *)
(***************************************************************************)
EXTENDS Naturals, Sequences, Functions, FiniteSets

CONSTANTS
    Instances,   \* the processes
    Browsers,    \* the sockets, one per dashboard
    Nowhere,     \* what a socket that is not connected is connected to
    Messages,    \* bound: the calls of emit there will be, one per message
    Notices,     \* those of them that come from notify
    MaxAsked,    \* bound: connections accepted while their GET is unanswered
    MaxLosses    \* bound: how often commands are sent again

ASSUME GatewayAssumption ==
    /\ Nowhere \notin Instances
    /\ Notices \subseteq Messages
    /\ {MaxAsked, MaxLosses} \subseteq Nat

VARIABLES
    phase,     \* how far onModuleInit of each process got
    inbox,     \* what Redis sent on each redisSub connection
    asked,     \* the commands of each redisClient that are not answered
    answers,   \* what Redis answered to the first of them
    pubs,      \* the PUBLISHes of each redisPub, from the first that was not
               \*   answered when it was connected
    executed,  \* how many of them Redis executed since it was connected
    counter,   \* the value of ws:notifications:count
    conn,      \* the process each socket is connected to
    received,  \* the events each got on its present connection, in order
    shown,     \* the count it was last told on it
    emitted,   \* the messages emit was called with, each with its process
    resent,    \* how often an executed PUBLISH of each message was sent again
    losses,    \* how often a connection was lost and commands sent again
    due,       \* per dashboard: what was published while it was connected
               \*   to a process that listened, since it is, and did not get
    gap        \* the dashboards whose process did not listen all the time
               \*   since they connected to it

clientVars == <<asked, answers, counter>>
pubVars == <<pubs, executed, resent>>
socketVars == <<conn, received, shown>>
vars == <<phase, inbox, clientVars, pubVars, socketVars, emitted, due, losses, gap>>

Counts == Nat
Commands == [kind : {"incr"}, msg : Messages] \cup [kind : {"get"}]
Publications == [msg : Messages, count : Counts]

(* What is published of a message: its first copy, or one sent again. *)
Copies == [msg : Messages, no : Nat]
Heard == [copy : Copies, count : Counts]

(* emit finds the connections made, and Redis sends what is published. *)
Running(i) == phase[i] # "down"
Subscribed(i) == phase[i] \in {"subscribed", "ready"}
SocketsOf(i) == {b \in Browsers : conn[b] = i}

TypeOK ==
    /\ phase \in [Instances -> {"down", "subscribing", "subscribed", "ready",
                                "lost"}]
    /\ inbox \in [Instances -> Seq(Heard)]
    /\ asked \in [Instances -> Seq(Commands)]
    /\ answers \in [Instances -> Seq(Counts)]
    /\ pubs \in [Instances -> Seq(Publications)]
    /\ executed \in [Instances -> Nat]
    /\ counter \in Counts
    /\ conn \in [Browsers -> Instances \cup {Nowhere}]
    /\ received \in [Browsers -> Seq(Copies)]
    /\ shown \in [Browsers -> Counts]
    /\ emitted \subseteq Instances \X Messages
    /\ resent \in [Messages -> Nat]
    /\ losses \in Nat
    /\ due \in [Browsers -> SUBSET Copies]
    /\ gap \subseteq Browsers

Init ==
    /\ phase = [i \in Instances |-> "down"]
    /\ inbox = [i \in Instances |-> <<>>]
    /\ asked = [i \in Instances |-> <<>>]
    /\ answers = [i \in Instances |-> <<>>]
    /\ pubs = [i \in Instances |-> <<>>]
    /\ executed = [i \in Instances |-> 0]
    /\ counter = 0
    /\ conn = [b \in Browsers |-> Nowhere]
    /\ received = [b \in Browsers |-> <<>>]
    /\ shown = [b \in Browsers |-> 0]
    /\ emitted = {}
    /\ resent = [m \in Messages |-> 0]
    /\ losses = 0
    /\ due = [b \in Browsers |-> {}]
    /\ gap = {}

-----------------------------------------------------------------------------
Become(i, p) == phase' = [phase EXCEPT ![i] = p]

(* The sockets of i get nothing for sure until the next publication. *)
Forget(i) == due' = [b \in Browsers |-> IF conn[b] = i THEN {} ELSE due[b]]

(* onModuleInit: connections, SUBSCRIBE, and only after its answer the     *)
(* handler of messages.                                                    *)
StartInit(i) ==
    /\ phase[i] = "down"
    /\ Become(i, "subscribing")
    /\ UNCHANGED <<inbox, clientVars, pubVars, socketVars, emitted, due, losses, gap>>

Subscribe(i) ==
    /\ phase[i] = "subscribing"
    /\ Become(i, "subscribed")
    /\ UNCHANGED <<inbox, clientVars, pubVars, socketVars, emitted, due, losses, gap>>

Attach(i) ==
    /\ phase[i] = "subscribed"
    /\ Become(i, "ready")
    /\ UNCHANGED <<inbox, clientVars, pubVars, socketVars, emitted, due, losses, gap>>

(* void redisPub.publish(...), whose answer nobody awaits. *)
Publish(i, msg, count) ==
    pubs' = [pubs EXCEPT ![i] = Append(@, [msg |-> msg, count |-> count])]

New(msg) == \A i \in Instances : <<i, msg>> \notin emitted

(* Mutant: the sockets at hand are served at once, and Redis besides. *)
Emit_AlsoLocally(i, msg) ==
    /\ Running(i) /\ New(msg) /\ msg \notin Notices
    /\ emitted' = emitted \cup {<<i, msg>>}
    /\ Publish(i, msg, 0)
    /\ received' = [b \in Browsers |->
                      IF conn[b] = i THEN Append(received[b], [msg |-> msg, no |-> 0])
                                     ELSE received[b]]
    /\ UNCHANGED <<phase, inbox, clientVars, executed, resent, conn, shown,
                   due, losses, gap>>

(* emit, called by a service or by notify.  It is not called before        *)
(* onModuleInit: Nest initialises the modules that use the gateway later.  *)
Emit(i, msg) ==
    /\ Running(i)
    /\ New(msg)
    /\ emitted' = emitted \cup {<<i, msg>>}
    /\ \/ /\ msg \notin Notices
          /\ Publish(i, msg, 0)
          /\ UNCHANGED asked
       \/ /\ msg \in Notices
          /\ asked' = [asked EXCEPT ![i] = Append(@, [kind |-> "incr", msg |-> msg])]
          /\ UNCHANGED pubs
    /\ UNCHANGED <<phase, inbox, answers, counter, executed, resent,
                   socketVars, due, losses, gap>>

(* Redis executes the next INCR or GET of i. *)
ExecuteCommand(i) ==
    LET k == Len(answers[i]) + 1 IN
      /\ k \in DOMAIN asked[i]
      /\ counter' = IF asked[i][k].kind = "incr" THEN counter + 1 ELSE counter
      /\ answers' = [answers EXCEPT ![i] = Append(@, counter')]
      /\ UNCHANGED <<phase, inbox, asked, pubVars, socketVars, emitted,
                     due, losses, gap>>

(* The process reads the first answer on redisClient. *)
ReadAnswer(i) ==
    /\ answers[i] # <<>>
    /\ asked' = [asked EXCEPT ![i] = Tail(@)]
    /\ answers' = [answers EXCEPT ![i] = Tail(@)]
    /\ UNCHANGED counter

(* The answer to INCR: the notice goes out with its number. *)
PublishNotice(i) ==
    /\ ReadAnswer(i)
    /\ Head(asked[i]).kind = "incr"
    /\ Publish(i, Head(asked[i]).msg, Head(answers[i]))
    /\ UNCHANGED <<phase, inbox, executed, resent, socketVars, emitted, due, losses, gap>>

(* Redis executes the next PUBLISH of i: every subscriber there is gets it.*)
ExecutePublish(i) ==
    LET k == executed[i] + 1
        c == [msg |-> pubs[i][k].msg, no |-> resent[pubs[i][k].msg]]
    IN
      /\ k \in DOMAIN pubs[i]
      /\ executed' = [executed EXCEPT ![i] = k]
      /\ inbox' = [j \in Instances |->
                     IF Subscribed(j)
                     THEN Append(inbox[j], [copy |-> c, count |-> pubs[i][k].count])
                     ELSE inbox[j]]
      /\ due' = [b \in Browsers |->
                   IF conn[b] # Nowhere /\ phase[conn[b]] = "ready"
                   THEN due[b] \cup {c} ELSE due[b]]
      /\ UNCHANGED <<phase, clientVars, pubs, resent, socketVars, emitted, losses, gap>>

(* Mutant: the newest message is passed on first. *)
Deliver_Newest(i) ==
    /\ phase[i] = "ready"
    /\ inbox[i] # <<>>
    /\ LET m == inbox[i][Len(inbox[i])] IN
         received' = [b \in Browsers |-> IF conn[b] = i
                                        THEN Append(received[b], m.copy)
                                        ELSE received[b]]
    /\ inbox' = [inbox EXCEPT ![i] = SubSeq(@, 1, Len(@) - 1)]
    /\ due' = [b \in Browsers |-> due[b] \ Range(received'[b])]
    /\ UNCHANGED <<phase, clientVars, pubVars, conn, shown, emitted, losses, gap>>

(* Mutant: the handler passes notices on and nothing else. *)
Deliver_NoticesOnly(i) ==
    /\ Subscribed(i)
    /\ inbox[i] # <<>>
    /\ inbox' = [inbox EXCEPT ![i] = Tail(@)]
    /\ UNCHANGED <<phase, clientVars, pubVars, socketVars, emitted, due, losses, gap>>

(* A message on redisSub: without the handler it is gone, with it the      *)
(* sockets of this process get it, a notice's count first.                 *)
Deliver(i) ==
    /\ Subscribed(i)
    /\ inbox[i] # <<>>
    /\ LET m == Head(inbox[i])
           heard == IF phase[i] = "ready" THEN SocketsOf(i) ELSE {}
       IN
         /\ received' = [b \in Browsers |-> IF b \in heard
                                            THEN Append(received[b], m.copy)
                                            ELSE received[b]]
         /\ IF m.copy.msg \in Notices /\ phase[i] = "ready"
            THEN shown' = [b \in Browsers |-> IF b \in heard THEN m.count
                                                             ELSE shown[b]]
            ELSE UNCHANGED shown
    /\ inbox' = [inbox EXCEPT ![i] = Tail(@)]
    /\ due' = [b \in Browsers |-> due[b] \ Range(received'[b])]
    /\ UNCHANGED <<phase, clientVars, pubVars, conn, emitted, losses, gap>>

-----------------------------------------------------------------------------
(* Mutant: handleConnection leaves the count to the next notice. *)
Connect_NoGet(b, i) ==
    /\ conn[b] = Nowhere
    /\ phase[i] \in {"ready", "lost"}
    /\ conn' = [conn EXCEPT ![b] = i]
    /\ gap' = IF phase[i] = "lost" THEN gap \cup {b} ELSE gap
    /\ UNCHANGED <<phase, inbox, clientVars, pubVars, received, shown, emitted, due, losses>>

(* handleConnection asks Redis for the count. *)
Connect(b, i) ==
    /\ conn[b] = Nowhere
    /\ phase[i] \in {"ready", "lost"}
    /\ Len(asked[i]) < MaxAsked
    /\ conn' = [conn EXCEPT ![b] = i]
    /\ gap' = IF phase[i] = "lost" THEN gap \cup {b} ELSE gap
    /\ asked' = [asked EXCEPT ![i] = Append(@, [kind |-> "get"])]
    /\ UNCHANGED <<phase, inbox, answers, counter, pubVars, received, shown,
                   emitted, due, losses>>

(* The answer to GET: server.emit tells every socket of the process. *)
CountReply(i) ==
    /\ ReadAnswer(i)
    /\ Head(asked[i]).kind = "get"
    /\ shown' = [b \in Browsers |-> IF conn[b] = i THEN Head(answers[i]) ELSE shown[b]]
    /\ UNCHANGED <<phase, inbox, pubVars, conn, received, emitted, due, losses, gap>>

Disconnect(b) ==
    /\ conn[b] # Nowhere
    /\ conn' = [conn EXCEPT ![b] = Nowhere]
    /\ due' = [due EXCEPT ![b] = {}]
    /\ received' = [received EXCEPT ![b] = <<>>]
    /\ shown' = [shown EXCEPT ![b] = 0]
    /\ gap' = gap \ {b}
    /\ UNCHANGED <<phase, inbox, clientVars, pubVars, emitted, losses>>

(* The connection of redisSub breaks; ioredis connects and subscribes      *)
(* again, and what was published meanwhile is not sent.                    *)
LoseSub(i) ==
    /\ phase[i] = "ready"
    /\ Become(i, "lost")
    /\ inbox' = [inbox EXCEPT ![i] = <<>>]
    /\ Forget(i)
    /\ gap' = gap \cup SocketsOf(i)
    /\ UNCHANGED <<clientVars, pubVars, socketVars, emitted, losses>>

Resubscribe(i) ==
    /\ phase[i] = "lost"
    /\ Become(i, "ready")
    /\ UNCHANGED <<inbox, clientVars, pubVars, socketVars, emitted, due, losses, gap>>

(* The connection of redisPub breaks: what Redis executed beyond the n     *)
(* PUBLISHes whose answers had come is sent, and so executed, again.       *)
LosePub(i, n) ==
    LET again == {pubs[i][k].msg : k \in n + 1 .. executed[i]} IN
      /\ n < executed[i]
      /\ losses < MaxLosses
      /\ losses' = losses + 1
      /\ pubs' = [pubs EXCEPT ![i] = SubSeq(@, n + 1, Len(@))]
      /\ executed' = [executed EXCEPT ![i] = 0]
      /\ resent' = [m \in Messages |-> IF m \in again THEN resent[m] + 1 ELSE resent[m]]
      /\ UNCHANGED <<phase, inbox, clientVars, socketVars, emitted, due, gap>>

(* So for redisClient: an INCR that was not answered counts once more. *)
LoseClient(i) ==
    /\ answers[i] # <<>>
    /\ losses < MaxLosses
    /\ losses' = losses + 1
    /\ answers' = [answers EXCEPT ![i] = <<>>]
    /\ UNCHANGED <<phase, inbox, asked, counter, pubVars, socketVars, emitted,
                   due, gap>>

(* onModuleDestroy or a crash: the connections end, and the sockets. *)
Stop(i) ==
    /\ phase[i] # "down"
    /\ Become(i, "down")
    /\ inbox' = [inbox EXCEPT ![i] = <<>>]
    /\ asked' = [asked EXCEPT ![i] = <<>>]
    /\ answers' = [answers EXCEPT ![i] = <<>>]
    /\ pubs' = [pubs EXCEPT ![i] = <<>>]
    /\ executed' = [executed EXCEPT ![i] = 0]
    /\ conn' = [b \in Browsers |-> IF conn[b] = i THEN Nowhere ELSE conn[b]]
    /\ Forget(i)
    /\ received' = [b \in Browsers |-> IF conn[b] = i THEN <<>> ELSE received[b]]
    /\ shown' = [b \in Browsers |-> IF conn[b] = i THEN 0 ELSE shown[b]]
    /\ gap' = gap \ SocketsOf(i)
    /\ UNCHANGED <<counter, resent, emitted, losses>>

Next ==
    \/ \E i \in Instances :
         \/ StartInit(i) \/ Subscribe(i) \/ Attach(i)
         \/ ExecuteCommand(i) \/ PublishNotice(i) \/ CountReply(i)
         \/ ExecutePublish(i) \/ Deliver(i)
         \/ LoseSub(i) \/ Resubscribe(i) \/ LoseClient(i)
         \/ Stop(i)
         \/ \E msg \in Messages : Emit(i, msg)
         \/ \E n \in 0 .. executed[i] : LosePub(i, n)
         \/ \E b \in Browsers : Connect(b, i)
    \/ \E b \in Browsers : Disconnect(b)

Spec == Init /\ [][Next]_vars

-----------------------------------------------------------------------------
(* An event reaches a dashboard at most once per connection, although the  *)
(* process that emits it also hears it back, and once more for each time   *)
(* its PUBLISH was sent again after an answer was lost.  (Then, or when it *)
(* connects to a process that is behind, a dashboard gets an event it has: *)
(* LogNotificationProvider remembers the ids it counted.)                  *)
OncePerSending ==
    \A b \in Browsers, m \in Messages :
        Cardinality({k \in DOMAIN received[b] : received[b][k].msg = m})
            <= 1 + resent[m]

(* All dashboards get what is published in the same order, whatever        *)
(* processes they are connected to and whichever emitted it.               *)
SameOrder ==
    \A b, c \in Browsers :
        \A i, j \in DOMAIN received[b], k, l \in DOMAIN received[c] :
            /\ i < j
            /\ received[b][i] = received[c][k] /\ received[b][j] = received[c][l]
            => k < l

(* What was published while a dashboard was connected to a process that    *)
(* listens it has got or is about to get, as long as both stay connected.  *)
DueIsComing ==
    \A b \in Browsers : \A c \in due[b] :
        conn[b] # Nowhere /\ \E k \in DOMAIN inbox[conn[b]] : inbox[conn[b]][k].copy = c

(* When nothing is on its way to it, a dashboard shows the value of the    *)
(* counter, however often commands were sent again, if its process has     *)
(* listened since the dashboard connected and is the only one to notify.   *)
(* (The notices of two processes may cross between INCR and PUBLISH, and   *)
(* that of another may overtake a GET.)                                    *)
CountSettles ==
    \A i \in Instances, b \in Browsers \ gap :
        /\ conn[b] = i /\ inbox[i] = <<>> /\ asked[i] = <<>>
        /\ executed[i] = Len(pubs[i])
        /\ \A e \in emitted : e[2] \in Notices => e[1] = i
        => shown[b] = counter

=============================================================================
