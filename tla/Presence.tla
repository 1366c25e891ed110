------------------------------ MODULE Presence ------------------------------
(***************************************************************************)
(* Who is on a document: SocketManager and its socket.io-redis adapter.    *)
(*                                                                         *)
(* Sockets join the room of one document on several server processes.      *)
(* Every join and leave makes its server collect the users of the room:    *)
(* it asks Redis how many servers subscribe to the request channel,        *)
(* publishes a request, gathers as many responses, and sends the list to   *)
(* everybody.  Nothing keeps two collections apart.                        *)
(*                                                                         *)
(* Redis hands all that is published to the subscribers in one order; what *)
(* a server has not read yet is its inbox.                                 *)
(***************************************************************************)
EXTENDS Naturals, Sequences, FiniteSets

CONSTANTS
    Socket, User, Server,
    UserOf,    \* UserOf[k]: the user in the handshake of socket k
    ServerOf,  \* ServerOf[k]: the server process socket k connects to
    Leaver,    \* bound: the sockets that may disconnect
    MaxActive, \* bound: so many collections overlap
    MaxLate,   \* bound: so many collections expire although responses are coming
    Fault      \* "crash", "start": what may happen to servers

ASSUME SocketAssumption ==
    /\ IsFiniteSet(Server)
    /\ UserOf \in [Socket -> User]
    /\ ServerOf \in [Socket -> Server]
    /\ Fault \subseteq {"crash", "start"}

VARIABLES
    up,       \* the servers that subscribe
    conn,     \* conn[k]: how far socket k is
    view,     \* view[k]: the list k received last
    inbox,    \* inbox[s]: what s has not read yet
    phase,    \* phase[c]: how far collection c is
    numsub,   \* numsub[c]: the responses c waits for
    count,    \* count[c]: the responses it has
    found,    \* found[c]: the users in them
    stayed,   \* ghost: the sockets that were in the room all the time
    passed,   \* ghost: the sockets that were there at some time
    spoiled,  \* ghost: a server subscribed between counting and asking
    disturbed \* ghost: collections overlapped, or servers failed

vars == <<up, conn, view, inbox, phase, numsub, count, found, stayed, passed,
          spoiled, disturbed>>

\* A socket causes at most two collections.
Collection == Socket \X {"join", "leave"}
Home(c) == ServerOf[c[1]]

\* The sockets in the room that are connected.
Present == {k \in Socket : conn[k] = "joined"}
UsersOf(sockets) == {UserOf[k] : k \in sockets}
LocalSockets(s) == {k \in Present : ServerOf[k] = s}

ActivePhase == {"asking", "counted", "gathering", "complete", "expired"}
Active(c) == phase[c] \in ActivePhase

\* The callback of clients() is due on the next tick, before any other event.
Due(s) == \E c \in Collection : Home(c) = s /\ phase[c] \in {"complete", "expired"}
Free(s) == s \in up /\ ~ Due(s)

-----------------------------------------------------------------------------
\* stayed' and passed', when conn' is given and the collections of begun begin.
Track(begun) ==
    LET present == {k \in Socket : conn'[k] = "joined"}
    IN  /\ stayed' = [c \in Collection |->
                         IF c \in begun THEN present
                         ELSE IF Active(c) THEN stayed[c] \cap present
                         ELSE {}]
        /\ passed' = [c \in Collection |->
                         IF c \in begun THEN present
                         ELSE IF Active(c) THEN passed[c] \cup present
                         ELSE {}]

\* sendUpdateEvent calls clients(), which asks Redis for the subscribers.
SendUpdateEvent(c) ==
    /\ Cardinality({d \in Collection : Active(d)}) < MaxActive
    /\ phase' = [phase EXCEPT ![c] = "asking"]
    /\ disturbed' = (disturbed \/ \E d \in Collection : Active(d))
    /\ Track({c})

Connect(k) ==
    /\ conn[k] = "away"
    /\ Free(ServerOf[k])
    /\ conn' = [conn EXCEPT ![k] = "connecting"]
    /\ UNCHANGED <<up, view, inbox, phase, numsub, count, found, stayed, passed,
                   spoiled, disturbed>>

\* The membership of the user was looked up.  A socket that is gone by now joins
\* the room as well, but clients() does not count it.
Admit(k) ==
    /\ conn[k] \in {"connecting", "dropped"}
    /\ Free(ServerOf[k])
    /\ conn' = [conn EXCEPT ![k] = IF @ = "connecting" THEN "joined" ELSE "gone"]
    /\ SendUpdateEvent(<<k, "join">>)
    /\ UNCHANGED <<up, view, inbox, numsub, count, found, spoiled>>

Refuse(k) ==
    /\ conn[k] \in {"connecting", "dropped"}
    /\ Free(ServerOf[k])
    /\ conn' = [conn EXCEPT ![k] = "gone"]
    /\ UNCHANGED <<up, view, inbox, phase, numsub, count, found, stayed, passed,
                   spoiled, disturbed>>

\* Mutant: nobody is told.
DisconnectSilently(k) ==
    /\ conn[k] = "joined"
    /\ Free(ServerOf[k])
    /\ conn' = [conn EXCEPT ![k] = "gone"]
    /\ Track({})
    /\ UNCHANGED <<up, view, inbox, phase, numsub, count, found, spoiled,
                   disturbed>>

\* The listener for "disconnect" is there only after the lookup.
Disconnect(k) ==
    /\ k \in Leaver
    /\ Free(ServerOf[k])
    /\ \/ /\ conn[k] = "connecting"
          /\ conn' = [conn EXCEPT ![k] = "dropped"]
          /\ UNCHANGED <<phase, stayed, passed, disturbed>>
       \/ /\ conn[k] = "joined"
          /\ conn' = [conn EXCEPT ![k] = "gone"]
          /\ SendUpdateEvent(<<k, "leave">>)
    /\ UNCHANGED <<up, view, inbox, numsub, count, found, spoiled>>

-----------------------------------------------------------------------------
\* Redis executes PUBSUB NUMSUB.
Count(c) ==
    /\ phase[c] = "asking"
    /\ phase' = [phase EXCEPT ![c] = "counted"]
    /\ numsub' = [numsub EXCEPT ![c] = Cardinality(up)]
    /\ UNCHANGED <<up, conn, view, inbox, count, found, stayed, passed,
                   spoiled, disturbed>>

\* The answer is there: the request is registered, its timer set, and published.
Ask(c) ==
    /\ phase[c] = "counted"
    /\ Free(Home(c))
    /\ phase' = [phase EXCEPT ![c] = "gathering"]
    /\ inbox' = [s \in Server |->
                    IF s \in up THEN Append(inbox[s], [type |-> "request", of |-> c])
                    ELSE inbox[s]]
    /\ UNCHANGED <<up, conn, view, numsub, count, found, stayed, passed,
                   spoiled, disturbed>>

Reads(s, type) == Free(s) /\ inbox[s] # << >> /\ Head(inbox[s]).type = type

\* onrequest.  The response goes to every server; only the one that asked takes
\* notice, so the others' copies are left out.
Respond(s) ==
    /\ Reads(s, "request")
    /\ LET c == Head(inbox[s]).of
           response == [type |-> "response", of |-> c, users |-> UsersOf(LocalSockets(s))]
           rest == [inbox EXCEPT ![s] = Tail(@)]
       IN  inbox' = IF Home(c) \in up THEN [rest EXCEPT ![Home(c)] = Append(@, response)]
                    ELSE rest
    /\ UNCHANGED <<up, conn, view, phase, numsub, count, found, stayed, passed,
                   spoiled, disturbed>>

\* Mutant: every response is the result so far.
GatherLast(s) ==
    /\ Reads(s, "response")
    /\ inbox' = [inbox EXCEPT ![s] = Tail(@)]
    /\ LET c == Head(inbox[s]).of
       IN  /\ phase[c] = "gathering"
           /\ count' = [count EXCEPT ![c] = @ + 1]
           /\ found' = [found EXCEPT ![c] = Head(inbox[s]).users]
           /\ phase' = [phase EXCEPT ![c] = IF count[c] + 1 = numsub[c] THEN "complete" ELSE @]
    /\ UNCHANGED <<up, conn, view, numsub, stayed, passed, spoiled, disturbed>>

\* onresponse.  A request that was answered or has expired is not known any more.
Gather(s) ==
    /\ Reads(s, "response")
    /\ inbox' = [inbox EXCEPT ![s] = Tail(@)]
    /\ LET c == Head(inbox[s]).of
       IN  \/ /\ phase[c] = "gathering"
              /\ count' = [count EXCEPT ![c] = @ + 1]
              /\ found' = [found EXCEPT ![c] = @ \cup Head(inbox[s]).users]
              /\ phase' = [phase EXCEPT ![c] =
                              IF count[c] + 1 = numsub[c] THEN "complete" ELSE @]
           \/ /\ phase[c] # "gathering"
              /\ UNCHANGED <<phase, count, found>>
    /\ UNCHANGED <<up, conn, view, numsub, stayed, passed, spoiled, disturbed>>

InFlight(c) ==
    \E s \in Server : \E i \in DOMAIN inbox[s] :
        inbox[s][i].of = c /\ inbox[s][i].type # "update"

\* The timer of a request runs out: a server is gone, or too slow.
Expire(c) ==
    /\ phase[c] = "gathering"
    /\ InFlight(c) => Cardinality({d \in Collection : phase[d] \in {"expired", "void"}}) < MaxLate
    /\ Free(Home(c))
    /\ phase' = [phase EXCEPT ![c] = "expired"]
    /\ disturbed' = TRUE
    /\ UNCHANGED <<up, conn, view, inbox, numsub, count, found, stayed, passed,
                   spoiled>>

\* The list goes to the local sockets of the room at once.
Deliver(s, users) ==
    view' = [k \in Socket |-> IF k \in LocalSockets(s) THEN users ELSE view[k]]

\* After an error there are no users: the list is empty.
ListOf(c) == IF phase[c] = "complete" THEN found[c] ELSE {}

EndPhase(c) == IF phase[c] = "complete" THEN "told" ELSE "void"

\* Mutant: like socket.to(...), which leaves out the socket itself.
TellOthers(c) ==
    /\ phase[c] \in {"complete", "expired"}
    /\ view' = [k \in Socket |->
                   IF k \in LocalSockets(Home(c)) \ {c[1]} THEN ListOf(c) ELSE view[k]]
    /\ inbox' = [s \in Server |->
                    IF s \in up \ {Home(c)}
                    THEN Append(inbox[s], [type |-> "update", of |-> c, users |-> ListOf(c)])
                    ELSE inbox[s]]
    /\ phase' = [phase EXCEPT ![c] = EndPhase(c)]
    /\ numsub' = [numsub EXCEPT ![c] = 0]
    /\ count' = [count EXCEPT ![c] = 0]
    /\ found' = [found EXCEPT ![c] = {}]
    /\ stayed' = [stayed EXCEPT ![c] = {}]
    /\ passed' = [passed EXCEPT ![c] = {}]
    /\ UNCHANGED <<up, conn, spoiled, disturbed>>

\* The callback of sendUpdateEvent: io.to(room).emit publishes the list and
\* broadcasts it locally.
Tell(c) ==
    /\ phase[c] \in {"complete", "expired"}
    /\ Deliver(Home(c), ListOf(c))
    /\ inbox' = [s \in Server |->
                    IF s \in up \ {Home(c)}
                    THEN Append(inbox[s], [type |-> "update", of |-> c, users |-> ListOf(c)])
                    ELSE inbox[s]]
    /\ phase' = [phase EXCEPT ![c] = EndPhase(c)]
    /\ numsub' = [numsub EXCEPT ![c] = 0]
    /\ count' = [count EXCEPT ![c] = 0]
    /\ found' = [found EXCEPT ![c] = {}]
    /\ stayed' = [stayed EXCEPT ![c] = {}]
    /\ passed' = [passed EXCEPT ![c] = {}]
    /\ UNCHANGED <<up, conn, spoiled, disturbed>>

\* onmessage
Relay(s) ==
    /\ Reads(s, "update")
    /\ inbox' = [inbox EXCEPT ![s] = Tail(@)]
    /\ Deliver(s, Head(inbox[s]).users)
    /\ UNCHANGED <<up, conn, phase, numsub, count, found, stayed, passed,
                   spoiled, disturbed>>

-----------------------------------------------------------------------------
Crash(s) ==
    /\ "crash" \in Fault
    /\ s \in up
    /\ up' = up \ {s}
    /\ conn' = [k \in Socket |->
                   IF ServerOf[k] = s /\ conn[k] # "away" THEN "gone" ELSE conn[k]]
    /\ inbox' = [inbox EXCEPT ![s] = << >>]
    /\ phase' = [c \in Collection |-> IF Home(c) = s /\ Active(c) THEN "lost" ELSE phase[c]]
    /\ numsub' = [c \in Collection |-> IF Home(c) = s THEN 0 ELSE numsub[c]]
    /\ count' = [c \in Collection |-> IF Home(c) = s THEN 0 ELSE count[c]]
    /\ found' = [c \in Collection |-> IF Home(c) = s THEN {} ELSE found[c]]
    /\ Track({})
    /\ disturbed' = TRUE
    /\ UNCHANGED <<view, spoiled>>

\* A server is started, and subscribes.  It has no sockets yet: a process that is
\* started again counts as another server.
Start(s) ==
    /\ "start" \in Fault
    /\ s \notin up
    /\ \A k \in Socket : ServerOf[k] = s => conn[k] = "away"
    /\ up' = up \cup {s}
    /\ spoiled' = spoiled \cup {c \in Collection : phase[c] = "counted"}
    /\ disturbed' = (disturbed \/ \E c \in Collection : Active(c))
    /\ UNCHANGED <<conn, view, inbox, phase, numsub, count, found, stayed, passed>>

-----------------------------------------------------------------------------
Init ==
    /\ up = Server \/ ("start" \in Fault /\ \E s \in Server : up = Server \ {s})
    /\ conn = [k \in Socket |-> "away"]
    /\ view = [k \in Socket |-> {}]
    /\ inbox = [s \in Server |-> << >>]
    /\ phase = [c \in Collection |-> "none"]
    /\ numsub = [c \in Collection |-> 0]
    /\ count = [c \in Collection |-> 0]
    /\ found = [c \in Collection |-> {}]
    /\ stayed = [c \in Collection |-> {}]
    /\ passed = [c \in Collection |-> {}]
    /\ spoiled = {}
    /\ disturbed = FALSE

Read(s) == Respond(s) \/ Gather(s) \/ Relay(s)
Advance(c) == Count(c) \/ Ask(c) \/ Expire(c) \/ Tell(c)

Next ==
    \/ \E k \in Socket : Connect(k) \/ Admit(k) \/ Refuse(k) \/ Disconnect(k)
    \/ \E c \in Collection : Advance(c)
    \/ \E s \in Server : Read(s) \/ Crash(s) \/ Start(s)

Spec == Init /\ [][Next]_vars

\* Servers and Redis go on, timers run out, lookups return.  Sockets come and go as
\* they like.
FairSpec ==
    /\ Spec
    /\ \A k \in Socket : WF_vars(Admit(k) \/ Refuse(k))
    /\ \A c \in Collection : WF_vars(Advance(c))
    /\ \A s \in Server : WF_vars(Read(s))

-----------------------------------------------------------------------------
Message ==
    [type : {"request"}, of : Collection]
      \cup [type : {"response", "update"}, of : Collection, users : SUBSET User]

TypeOK ==
    /\ up \subseteq Server
    /\ conn \in [Socket -> {"away", "connecting", "dropped", "joined", "gone"}]
    /\ view \in [Socket -> SUBSET User]
    /\ inbox \in [Server -> Seq(Message)]
    /\ phase \in [Collection -> ActivePhase \cup {"none", "told", "void", "lost"}]
    /\ numsub \in [Collection -> 0 .. Cardinality(Server)]
    /\ count \in [Collection -> 0 .. Cardinality(Server)]
    /\ found \in [Collection -> SUBSET User]
    /\ stayed \in [Collection -> SUBSET Socket]
    /\ passed \in [Collection -> SUBSET Socket]
    /\ spoiled \subseteq Collection
    /\ disturbed \in BOOLEAN

\* A complete list names everybody who was there all the time it was collected,
\* and nobody who was not there at any time of it; unless a server has subscribed
\* between the count and the request, and answers in place of another one.
ListFits ==
    \A c \in Collection :
        phase[c] = "complete" /\ c \notin spoiled =>
            /\ UsersOf(stayed[c]) \subseteq found[c]
            /\ found[c] \subseteq UsersOf(passed[c])

\* Nothing is under way.
Quiet ==
    /\ \A c \in Collection : ~ Active(c)
    /\ \A s \in Server : inbox[s] = << >>

\* When collections did not overlap and no server failed, and nothing is under
\* way, everybody in the room sees exactly who is there.
SettlesUndisturbed ==
    Quiet /\ ~ disturbed => \A k \in Present : view[k] = UsersOf(Present)

\* The comment in sendUpdateEvent: the joiner gets the list, too; one it is in,
\* unless it leaves or its collection fails.
JoinerTold ==
    \A k \in Socket :
        LET c == <<k, "join">>
        IN  conn[k] = "joined" /\ phase[c] = "asking" ~>
                \/ UserOf[k] \in view[k]
                \/ conn[k] # "joined" \/ phase[c] = "void" \/ c \in spoiled
=============================================================================
