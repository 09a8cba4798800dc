---------------------------- MODULE EventService ----------------------------
(***************************************************************************)
(* The event service of std_event_service.cpp: clients connect to a        *)
(* socket service, register for prefixes of keys and publish events, and   *)
(* each event is sent to all descriptors registered for a prefix of its    *)
(* key.                                                                    *)
(*                                                                         *)
(* The socket service below is reduced to what its callbacks can see of    *)
(* it: a descriptor is accepted, watched, has a job, is asked to be closed *)
(* and is closed.  SocketService.tla is the model of how it does that.     *)
(***************************************************************************)
EXTENDS Naturals, FiniteSets, Sequences

CONSTANTS
  Worker,      \* the threads the callbacks run in
  Conn,        \* connections: each is made once
  Fd,          \* descriptors
  Key,         \* what clients register for: sequences of numbers
  EventKey,    \* the keys of the events
  NoConn,
  MaxSent,     \* bound: requests of all clients
  MaxEvents    \* bound: events among them

Prefix(key, n) == SubSeq(key, 1, n)
Prefixes(key)  == {Prefix(key, n) : n \in 1 .. Len(key)}
Keys           == Key \cup EventKey
Nodes          == UNION {Prefixes(k) : k \in Key}

ASSUME EventAssumption ==
  /\ NoConn \notin Conn
  /\ \A k \in Keys : k \in Seq(Nat) /\ k # << >>
  /\ MaxSent \in Nat /\ MaxEvents \in Nat

VARIABLES
  sock,      \* the connection each open descriptor belongs to
  peer,      \* the other end of each connection: new, up, gone
  unread,    \* the number of requests each client has sent and nobody read
  sendable,  \* the number of requests all clients may still send
  watched,   \* the descriptors the server waits for
  jobs,      \* the callbacks that are queued
  toClose,   \* m_pending_close
  run,       \* what each thread does
  known,     \* m_event_clients
  nodes,     \* the nodes of m_reg_tree but its head, by their paths
  regs,      \* the clients of the nodes: descriptors and paths
  events,    \* history: the events, in the order in which they were read
  got,       \* history: the events sent to each connection
  asked,     \* history: the keys each connection is to get events of
  givenUp    \* history: the descriptors that a publisher could not send to
             \* and has had closed

serviceVars == <<sock, watched, jobs, toClose>>
treeVars    == <<known, nodes, regs>>
historyVars == <<events, got, asked, givenUp>>
vars == <<serviceVars, peer, unread, sendable, run, treeVars, historyVars>>

Idle     == [at |-> "idle"]
Calls    == [at : {"new", "data", "recv", "drop", "close", "return"}, fd : Fd]
              \cup [at : {"add", "del"}, fd : Fd, key : Key, from : Conn]
              \cup [at : {"publish"}, fd : Fd, event : 1 .. MaxEvents]
Walks    == [at : {"walk"}, fd : Fd, event : 1 .. MaxEvents, ix : Nat,
             left : SUBSET Fd, sent : SUBSET Fd]

TypeOK ==
  /\ sock \in [Fd -> Conn \cup {NoConn}]
  /\ peer \in [Conn -> {"new", "up", "gone"}]
  /\ unread \in [Conn -> 0 .. MaxSent]
  /\ sendable \in 0 .. MaxSent
  /\ watched \subseteq Fd
  /\ jobs \in Seq([kind : {"new", "data"}, fd : Fd])
  /\ toClose \subseteq Fd
  /\ run \in [Worker -> {Idle} \cup Calls \cup Walks]
  /\ known \subseteq Fd
  /\ nodes \subseteq Nodes
  /\ regs \subseteq Fd \X nodes
  /\ events \in Seq([from : Conn, by : Fd, key : EventKey])
  /\ got \in [Conn -> Seq(1 .. MaxEvents)]
  /\ asked \in [Conn -> SUBSET Key]
  /\ givenUp \subseteq Fd
  \* A watched descriptor is open; nothing is registered below a missing node.
  /\ \A fd \in watched : sock[fd] # NoConn
  /\ \A node \in nodes : Prefixes(node) \subseteq nodes

Init ==
  /\ sock = [fd \in Fd |-> NoConn]
  /\ peer = [c \in Conn |-> "new"]
  /\ unread = [c \in Conn |-> 0]
  /\ sendable = MaxSent
  /\ watched = {}
  /\ jobs = << >>
  /\ toClose = {}
  /\ run = [t \in Worker |-> Idle]
  /\ known = {}
  /\ nodes = {}
  /\ regs = {}
  /\ events = << >>
  /\ got = [c \in Conn |-> << >>]
  /\ asked = [c \in Conn |-> {}]
  /\ givenUp = {}

\* A publisher holds m_tree_lock for reading; who writes waits for all of them.
Walking(t)  == run[t].at = "walk"
TreeIsFree  == \A t \in Worker : ~Walking(t)

At(t, place)    == run[t].at = place
GoTo(t, place)  == run' = [run EXCEPT ![t] = [at |-> place, fd |-> run[t].fd]]

\* What is registered for fd; the keys whose clients get an event.
KeysOf(fd)      == {node \in nodes : <<fd, node>> \in regs}
Subscribed(key) == {fd \in Fd : \E node \in Prefixes(key) : <<fd, node>> \in regs}
Without(fd)     == {r \in regs : r[1] # fd}
----------------------------------------------------------------------------
(* The clients.                                                            *)

\* A connection is made and accepted, with a number that is free; a client
\* sends a request, or hangs up.
Accept(c) ==
  /\ peer[c] = "new"
  /\ peer' = [peer EXCEPT ![c] = "up"]
  /\ \E fd \in Fd :
       /\ sock[fd] = NoConn
       /\ sock' = [sock EXCEPT ![fd] = c]
       /\ jobs' = Append(jobs, [kind |-> "new", fd |-> fd])
  /\ UNCHANGED <<unread, sendable, watched, toClose, run, treeVars, historyVars>>

Send(c) ==
  /\ peer[c] = "up"
  /\ sendable > 0
  /\ sendable' = sendable - 1
  /\ unread' = [unread EXCEPT ![c] = @ + 1]
  /\ UNCHANGED <<serviceVars, peer, run, treeVars, historyVars>>

HangUp(c) ==
  /\ peer[c] = "up"
  /\ peer' = [peer EXCEPT ![c] = "gone"]
  /\ UNCHANGED <<serviceVars, unread, sendable, run, treeVars, historyVars>>
----------------------------------------------------------------------------
(* The socket service.                                                     *)

\* There is something to read, if only the end.
Readable(fd) == sock[fd] # NoConn /\ (unread[sock[fd]] > 0 \/ peer[sock[fd]] = "gone")

Dispatch(fd) ==
  /\ fd \in watched
  /\ Readable(fd)
  /\ watched' = watched \ {fd}
  /\ jobs' = Append(jobs, [kind |-> "data", fd |-> fd])
  /\ UNCHANGED <<sock, peer, unread, sendable, toClose, run, treeVars, historyVars>>

\* A mutant of ProcessClosed: what is closed stays in the set of select.
ProcessClosedStillWatched ==
  /\ toClose # {}
  /\ sock' = [fd \in Fd |-> IF fd \in toClose THEN NoConn ELSE sock[fd]]
  /\ toClose' = {}
  /\ UNCHANGED <<watched, peer, unread, sendable, jobs, run, treeVars, historyVars>>

\* All that is asked to be closed is closed, open or not.
ProcessClosed ==
  /\ toClose # {}
  /\ sock' = [fd \in Fd |-> IF fd \in toClose THEN NoConn ELSE sock[fd]]
  /\ watched' = watched \ toClose
  /\ toClose' = {}
  /\ UNCHANGED <<peer, unread, sendable, jobs, run, treeVars, historyVars>>

Start(t) ==
  /\ run[t] = Idle
  /\ jobs # << >>
  /\ jobs' = Tail(jobs)
  /\ run' = [run EXCEPT ![t] = [at |-> Head(jobs).kind, fd |-> Head(jobs).fd]]
  /\ UNCHANGED <<sock, watched, toClose, peer, unread, sendable, treeVars, historyVars>>

\* A mutant of Return: the descriptor is not waited for again.
ReturnUnwatched(t) ==
  /\ At(t, "return")
  /\ run' = [run EXCEPT ![t] = Idle]
  /\ UNCHANGED <<serviceVars, peer, unread, sendable, treeVars, historyVars>>

\* The callback has returned true: the descriptor is watched again, unless it
\* has been closed in the meantime.
Return(t) ==
  /\ At(t, "return")
  /\ watched' = IF sock[run[t].fd] = NoConn THEN watched ELSE watched \cup {run[t].fd}
  /\ run' = [run EXCEPT ![t] = Idle]
  /\ UNCHANGED <<sock, jobs, toClose, peer, unread, sendable, treeVars, historyVars>>

\* It has returned false and, if it was for data, del_client has been called.
PendClose(t) ==
  /\ At(t, "close")
  /\ toClose' = toClose \cup {run[t].fd}
  /\ run' = [run EXCEPT ![t] = Idle]
  /\ UNCHANGED <<sock, jobs, watched, peer, unread, sendable, treeVars, historyVars>>
----------------------------------------------------------------------------
(* The callbacks of the event service.                                     *)

\* A mutant of CloseClient: the tree keeps its registrations.
CloseClientKeepsRegs(fd) ==
  /\ known' = known \ {fd}
  /\ asked' = IF sock[fd] = NoConn THEN asked ELSE [asked EXCEPT ![sock[fd]] = {}]
  /\ UNCHANGED <<nodes, regs, events, got, givenUp>>

\* close_client_connection.
CloseClient(fd) ==
  /\ known' = known \ {fd}
  /\ regs' = Without(fd)
  /\ asked' = IF sock[fd] = NoConn THEN asked ELSE [asked EXCEPT ![sock[fd]] = {}]
  /\ UNCHANGED <<nodes, events, got, givenUp>>

\* event_new_client: a number the service knows already is forgotten and the
\* connection refused.
NewClient(t) ==
  /\ At(t, "new")
  /\ TreeIsFree
  /\ \/ /\ run[t].fd \in known
        /\ CloseClient(run[t].fd)
        /\ GoTo(t, "close")
     \/ /\ run[t].fd \notin known
        /\ known' = known \cup {run[t].fd}
        /\ GoTo(t, "return")
        /\ UNCHANGED <<nodes, regs, historyVars>>
  /\ UNCHANGED <<serviceVars, peer, unread, sendable>>

\* event_del_client.
DelClient(t) ==
  /\ At(t, "drop")
  /\ TreeIsFree
  /\ CloseClient(run[t].fd)
  /\ GoTo(t, "close")
  /\ UNCHANGED <<serviceVars, peer, unread, sendable>>

\* event_some_data, up to the message: the client is looked up without the lock.
SomeData(t) ==
  /\ At(t, "data")
  /\ GoTo(t, IF run[t].fd \in known THEN "recv" ELSE "drop")
  /\ UNCHANGED <<serviceVars, peer, unread, sendable, treeVars, historyVars>>

\* A mutant of RecvFails: a failed read is not reported to the socket service.
RecvFailsUnseen(t) ==
  /\ At(t, "recv")
  /\ LET c == sock[run[t].fd]
     IN  c # NoConn => unread[c] = 0 /\ peer[c] = "gone"
  /\ GoTo(t, "return")
  /\ UNCHANGED <<serviceVars, peer, unread, sendable, treeVars, historyVars>>

\* The read fails: the other end has hung up, or the descriptor is closed.
RecvFails(t) ==
  /\ At(t, "recv")
  /\ LET c == sock[run[t].fd]
     IN  c # NoConn => unread[c] = 0 /\ peer[c] = "gone"
  /\ GoTo(t, "drop")
  /\ UNCHANGED <<serviceVars, peer, unread, sendable, treeVars, historyVars>>

\* A message is read: what the client has sent is chosen here.
Recv(t) ==
  /\ At(t, "recv")
  /\ LET fd == run[t].fd
         c  == sock[fd]
     IN  /\ c # NoConn
         /\ unread[c] > 0
         /\ unread' = [unread EXCEPT ![c] = @ - 1]
         /\ \/ /\ \E op \in {"add", "del"}, k \in Key :
                    run' = [run EXCEPT ![t] = [at |-> op, fd |-> fd, key |-> k, from |-> c]]
               /\ UNCHANGED events
            \/ /\ Len(events) < MaxEvents
               /\ \E k \in EventKey : events' = Append(events, [from |-> c, by |-> fd, key |-> k])
               /\ run' = [run EXCEPT ![t] = [at |-> "publish", fd |-> fd, event |-> Len(events')]]
  /\ UNCHANGED <<serviceVars, peer, sendable, treeVars, got, asked, givenUp>>

\* A mutant of RegMessage: the lock is taken for reading.
RegMessageShared(t) ==
  /\ At(t, "add")
  /\ nodes' = nodes \cup Prefixes(run[t].key)
  /\ regs' = regs \cup {<<run[t].fd, run[t].key>>}
  /\ asked' = [asked EXCEPT ![run[t].from] = @ \cup {run[t].key}]
  /\ GoTo(t, "return")
  /\ UNCHANGED <<serviceVars, peer, unread, sendable, known, events, got, givenUp>>

\* reg_message: the nodes that are missing are made.
RegMessage(t) ==
  /\ At(t, "add")
  /\ TreeIsFree
  /\ nodes' = nodes \cup Prefixes(run[t].key)
  /\ regs' = regs \cup {<<run[t].fd, run[t].key>>}
  /\ asked' = [asked EXCEPT ![run[t].from] = @ \cup {run[t].key}]
  /\ GoTo(t, "return")
  /\ UNCHANGED <<serviceVars, peer, unread, sendable, known, events, got, givenUp>>

\* dereg_message.
DeregMessage(t) ==
  /\ At(t, "del")
  /\ TreeIsFree
  /\ regs' = regs \ {<<run[t].fd, run[t].key>>}
  /\ asked' = [asked EXCEPT ![run[t].from] = @ \ {run[t].key}]
  /\ GoTo(t, "return")
  /\ UNCHANGED <<serviceVars, peer, unread, sendable, known, nodes, events, got, givenUp>>

\* publish: the lock is taken; the walk goes down the tree as long as there is
\* a node, and through the clients of each node.
BeginPublish(t) ==
  /\ At(t, "publish")
  /\ run' = [run EXCEPT ![t] = [at |-> "walk", fd |-> @.fd, event |-> @.event,
                                ix |-> 0, left |-> {}, sent |-> {}]]
  /\ UNCHANGED <<serviceVars, peer, unread, sendable, treeVars, historyVars>>

WalkKey(t) == events[run[t].event].key

\* There is a node for the next part of the key.
HasNext(t) == /\ run[t].ix < Len(WalkKey(t))
              /\ Prefix(WalkKey(t), run[t].ix + 1) \in nodes

NextNode(t) ==
  /\ Walking(t)
  /\ run[t].left = {}
  /\ HasNext(t)
  /\ LET node == Prefix(WalkKey(t), run[t].ix + 1)
     IN  run' = [run EXCEPT ![t].ix = @ + 1,
                            ![t].left = {fd \in Fd : <<fd, node>> \in regs}]
  /\ UNCHANGED <<serviceVars, peer, unread, sendable, treeVars, historyVars>>

EndPublish(t) ==
  /\ Walking(t)
  /\ run[t].left = {}
  /\ ~HasNext(t)
  /\ GoTo(t, "return")
  /\ UNCHANGED <<serviceVars, peer, unread, sendable, treeVars, historyVars>>

\* A client that has got the event from a node above is passed over.
Skip(t) ==
  /\ Walking(t)
  /\ run[t].left \cap run[t].sent # {}
  /\ run' = [run EXCEPT ![t].left = @ \ run[t].sent]
  /\ UNCHANGED <<serviceVars, peer, unread, sendable, treeVars, historyVars>>

\* A mutant of Deliver: already_sent is not looked at.
DeliverAgain(t, fd) ==
  /\ Walking(t)
  /\ fd \in run[t].left
  /\ run' = [run EXCEPT ![t].left = @ \ {fd}, ![t].sent = @ \cup {fd}]
  /\ LET c == sock[fd]
     IN  /\ c # NoConn
         /\ peer[c] # "gone"
         /\ got' = [got EXCEPT ![c] = Append(@, run[t].event)]
  /\ UNCHANGED <<serviceVars, peer, unread, sendable, treeVars, events, asked, givenUp>>

\* The event is sent to fd; or it cannot be, because the other end has hung up or
\* does not take what it is sent in time, and fd is given up: it is to be closed,
\* but stays in the tree and among the clients.
Deliver(t, fd) ==
  /\ Walking(t)
  /\ fd \in run[t].left \ run[t].sent
  /\ run' = [run EXCEPT ![t].left = @ \ {fd}, ![t].sent = @ \cup {fd}]
  /\ LET c == sock[fd]
     IN  \/ /\ c # NoConn
            /\ peer[c] # "gone"
            /\ got' = [got EXCEPT ![c] = Append(@, run[t].event)]
            /\ UNCHANGED <<toClose, givenUp>>
         \/ /\ toClose' = toClose \cup {fd}
            /\ givenUp' = givenUp \cup {fd}
            /\ UNCHANGED got
  /\ UNCHANGED <<sock, watched, jobs, peer, unread, sendable, treeVars, events, asked>>
----------------------------------------------------------------------------
ServerStep == (\E c \in Conn : Accept(c)) \/ (\E fd \in Fd : Dispatch(fd)) \/ ProcessClosed

WorkerStep(t) ==
  \/ Start(t) \/ Return(t) \/ PendClose(t)
  \/ NewClient(t) \/ DelClient(t)
  \/ SomeData(t) \/ RecvFails(t) \/ Recv(t)
  \/ RegMessage(t) \/ DeregMessage(t)
  \/ BeginPublish(t) \/ NextNode(t) \/ EndPublish(t) \/ Skip(t)
  \/ \E fd \in Fd : Deliver(t, fd)

Next ==
  \/ ServerStep
  \/ \E c \in Conn : Send(c) \/ HangUp(c)
  \/ \E t \in Worker : WorkerStep(t)

Spec == Init /\ [][Next]_vars

FairSpec ==
  /\ Spec
  /\ \A fd \in Fd : WF_vars(Dispatch(fd))
  /\ WF_vars(ProcessClosed)
  /\ \A t \in Worker : WF_vars(WorkerStep(t))
----------------------------------------------------------------------------
(* Properties.                                                             *)

\* A publisher's walk sends the event to every descriptor that is registered
\* for a prefix of its key when it begins, or gives it up, and to no other:
\* the tree does not change under it.
PublishIsComplete ==
  [][\A t \in Worker :
       Walking(t) /\ ~Walking(t)' => run[t].sent = Subscribed(WalkKey(t))]_vars

\* No connection gets an event twice, and the events of one client come in the
\* order in which he sent them, unless a publisher has given his number up: then a
\* second thread may read from it.
OnceAndInOrder ==
  \A c \in Conn : \A i, j \in 1 .. Len(got[c]) :
    LET first == events[got[c][i]]
        later == events[got[c][j]]
    IN  i < j => /\ got[c][i] # got[c][j]
                 /\ (first.from = later.from /\ later.by \notin givenUp) => got[c][i] < got[c][j]

\* The registrations of a descriptor are those its connection has asked for, and a
\* descriptor that is closed has none: everybody's but those of the numbers that a
\* publisher has given up, because it does not forget the client (line 193).
RegistrationsAreOwn ==
  \A fd \in Fd \ givenUp : KeysOf(fd) = IF sock[fd] = NoConn THEN {} ELSE asked[sock[fd]]

\* The requests of a client are handled, unless his number is given up; and who
\* hangs up is closed, given up or not.
RequestsAreHandled ==
  \A c \in Conn, fd \in Fd :
    (sock[fd] = c /\ unread[c] > 0) ~> (unread[c] = 0 \/ fd \in givenUp)

ClientsLeave ==
  \A c \in Conn : (peer[c] = "gone") ~> \A fd \in Fd : sock[fd] # c

\* "When these types of events are sent, the client is sent a copy": nobody is
\* sent an event he has not asked for.
OnlyWhatWasAskedFor ==
  [][\A c \in Conn :
       got'[c] # got[c] => \E k \in asked[c] : k \in Prefixes(events[got'[c][Len(got'[c])]].key)]_vars
=============================================================================
