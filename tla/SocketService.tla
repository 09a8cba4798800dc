--------------------------- MODULE SocketService ---------------------------
(***************************************************************************)
(* The socket service of std_socket_service.cpp.  One thread, the server,  *)
(* selects on the listener, on a control pipe and on the clients nobody is *)
(* busy with; it accepts connections and hands each readable client to a   *)
(* callback, in a job of the thread pool or, when the service was asked    *)
(* for one thread only, in a plain call.  The callbacks give the client    *)
(* back, or have it closed, through data they share with the server under  *)
(* m_mutex, and wake the server with a byte in the pipe.                   *)
(*                                                                         *)
(* The pool is used as JobPool.tla describes it: jobs start in the order   *)
(* in which they were added.                                               *)
(***************************************************************************)
EXTENDS Naturals, Sequences, FiniteSets, FiniteSetsExt

CONSTANTS
  Worker,      \* the threads of the pool but the one the server occupies
  Server,      \* that one
  Adder,       \* a thread of the application that adds connections of its own
  Conn,        \* the connections that are made
  Fd,          \* the descriptors the kernel has for them
  PipeSize,    \* the bytes the control pipe takes before a write blocks
  MaxSent,     \* bound: how often clients send something (or hang up)
  App,         \* the kinds of application: what its callbacks do (see below)
  NoConn,      \* a descriptor that is closed
  NoThread     \* m_mutex is free

\* The descriptors of the service itself: the listener is opened first, then
\* the pipe.
Listener == 1
Ctl      == 2

\* An application that "keeps" to the callbacks' results; one that also
\* "closes" clients with std_socket_service_client_close at any time; one
\* that "breaks" the rules and closes a client's descriptor itself.
AppKinds == {"keeps", "closes", "breaks"}

Thread == Worker \cup {Server, Adder}

ASSUME ServiceAssumption ==
  /\ Server \notin Worker /\ Adder \notin Worker /\ Server # Adder
  /\ NoThread \notin Thread
  /\ NoConn \notin Conn
  /\ Fd \subseteq Nat /\ IsFiniteSet(Fd) /\ \A fd \in Fd : fd > Ctl
  /\ PipeSize \in Nat \ {0}
  /\ MaxSent \in Nat
  /\ App \subseteq AppKinds

VARIABLES
  inline,      \* server_init.thread_pool_size is not larger than one
  app,         \* which kind of application uses the service
  server,      \* where the server is in its loop
  rset,        \* the server's fd_set: what it selects on, then what is ready
  clients,     \* m_clients
  pending,     \* the fd_set pending
  pendClose,   \* m_pending_close
  maxFd,       \* max_fd
  holder,      \* the thread that holds m_mutex between two of its steps
  pipe,        \* the number of bytes in the control pipe
  jobs,        \* the jobs in the list of the pool
  run,         \* what each thread is doing in a callback
  sock,        \* the kernel's table: the connection of each descriptor
  backlog,     \* the connections the listener has not yet accepted
  unread,      \* the connections with something to read
  sent,        \* how often clients have sent something
  asked        \* history: the connections somebody closed or asked to close

config  == <<inline, app>>
kernel  == <<sock, backlog, unread, sent>>
shared  == <<clients, pending, pendClose, maxFd, asked>>
vars    == <<inline, app, server, rset, clients, pending, pendClose, maxFd,
             holder, pipe, jobs, run, sock, backlog, unread, sent, asked>>

\* A job_entry_t with the callback it is for; the connection is history.
Job  == [kind : {"new", "data"}, fd : Fd, conn : Conn \cup {NoConn}]
Idle == [at |-> "idle"]
Run  == {Idle} \cup
        [at : {"call", "lock", "greet", "find", "wake", "close"}, job : Job]

Locked(r) == r.at \in {"greet", "find", "wake"}

TypeOK ==
  /\ inline \in BOOLEAN
  /\ app \in App
  /\ server \in {"closed", "copy", "select", "wait", "repair", "drain", "accept", "each"}
  /\ rset \subseteq Fd \cup {Listener, Ctl}
  /\ clients \subseteq Fd
  /\ pending \subseteq Fd \cup {Listener, Ctl}
  /\ pendClose \subseteq Fd
  /\ maxFd \in Fd \cup {Ctl}
  /\ holder \in Thread \cup {NoThread}
  /\ pipe \in 0 .. PipeSize
  /\ jobs \in Seq(Job)
  /\ run \in [Thread -> Run]
  /\ sock \in [Fd -> Conn \cup {NoConn}]
  /\ backlog \subseteq Conn
  /\ unread \subseteq Conn
  /\ sent \in 0 .. MaxSent
  /\ asked \subseteq Conn \cup {NoConn}

\* std_socket_service_init, and socket_service up to its loop.
Init ==
  /\ inline \in BOOLEAN
  /\ app \in App
  /\ server = "closed"
  /\ rset = {}
  /\ clients = {}
  /\ pending = {Listener, Ctl}
  /\ pendClose = {}
  /\ maxFd = Ctl
  /\ holder = NoThread
  /\ pipe = 0
  /\ jobs = << >>
  /\ run = [t \in Thread |-> Idle]
  /\ sock = [fd \in Fd |-> NoConn]
  /\ backlog = {}
  /\ unread = {}
  /\ sent = 0
  /\ asked = {}

Free     == {fd \in Fd : sock[fd] = NoConn}
Open     == Fd \ Free
MadeConn == backlog \cup {sock[fd] : fd \in Open}

At(t, at)   == run[t].at = at
Move(t, at) == run' = [run EXCEPT ![t].at = at]
Done(t)     == run' = [run EXCEPT ![t] = Idle]
----------------------------------------------------------------------------
(* The server.                                                             *)

Serves(at) == server = at /\ run[Server] = Idle

\* setup_max_fd: the largest of the clients and the service's own two.
SetupMaxFd(fds) == Max(fds \cup {Listener, Ctl})

\* A mutant of ProcessClosed: m_pending_close is not emptied.
ProcessClosedKeeping ==
  /\ Serves("closed")
  /\ holder = NoThread
  /\ sock' = [fd \in Fd |-> IF fd \in pendClose THEN NoConn ELSE sock[fd]]
  /\ pending' = pending \ pendClose
  /\ clients' = clients \ pendClose
  /\ maxFd' = IF pendClose = {} THEN maxFd ELSE SetupMaxFd(clients')
  /\ unread' = unread \ {sock[fd] : fd \in pendClose}
  /\ server' = "copy"
  /\ UNCHANGED <<config, rset, pendClose, holder, pipe, jobs, run, backlog, sent, asked>>

\* process_closed: the sockets are closed and forgotten, and max_fd is
\* computed anew if there were any.
ProcessClosed ==
  /\ Serves("closed")
  /\ holder = NoThread
  /\ sock' = [fd \in Fd |-> IF fd \in pendClose THEN NoConn ELSE sock[fd]]
  /\ pending' = pending \ pendClose
  /\ clients' = clients \ pendClose
  /\ maxFd' = IF pendClose = {} THEN maxFd ELSE SetupMaxFd(clients')
  /\ unread' = unread \ {sock[fd] : fd \in pendClose}
  /\ pendClose' = {}
  /\ server' = "copy"
  /\ UNCHANGED <<config, rset, holder, pipe, jobs, run, backlog, sent, asked>>

\* rset = p->pending, without the lock.
CopyPending ==
  /\ Serves("copy")
  /\ rset' = pending
  /\ server' = "select"
  /\ UNCHANGED <<config, shared, kernel, holder, pipe, jobs, run>>

Readable(d) ==
  CASE d = Listener -> backlog # {}
    [] d = Ctl -> pipe > 0
    [] OTHER -> sock[d] \in unread

Watched == {d \in rset : d <= maxFd}
Bad     == {d \in Watched \cap Fd : sock[d] = NoConn}
Ready   == {d \in rset : d \in Open \cup {Listener, Ctl} /\ Readable(d)}

\* select fails at once if one of the descriptors is closed, and leaves the
\* set as it is: the descriptors up to the max_fd of that moment are tried ...
SelectFails ==
  /\ Serves("select")
  /\ Bad # {}
  /\ server' = "repair"
  /\ rset' = Watched
  /\ UNCHANGED <<config, shared, kernel, holder, pipe, jobs, run>>

\* ... and waits otherwise.
SelectWaits ==
  /\ Serves("select")
  /\ Bad = {}
  /\ server' = "wait"
  /\ rset' = Watched
  /\ UNCHANGED <<config, shared, kernel, holder, pipe, jobs, run>>

\* It returns with the descriptors that are ready ...
SelectReady ==
  /\ Serves("wait")
  /\ Ready # {}
  /\ rset' = Ready
  /\ server' = "drain"
  /\ UNCHANGED <<config, shared, kernel, holder, pipe, jobs, run>>

\* (A mutant of SelectTimeout: the loop goes on below process_closed.)
SelectTimeoutOver ==
  /\ Serves("wait")
  /\ Ready = {}
  /\ server' = "copy"
  /\ UNCHANGED <<config, rset, shared, kernel, holder, pipe, jobs, run>>

\* ... or after a second, with none.
SelectTimeout ==
  /\ Serves("wait")
  /\ Ready = {}
  /\ server' = "closed"
  /\ UNCHANGED <<config, rset, shared, kernel, holder, pipe, jobs, run>>

\* A mutant of Repair: the bad descriptors are found and nothing is done.
RepairNothing ==
  /\ Serves("repair")
  /\ \/ /\ rset \cap Fd # {}
        /\ rset' = rset \ {Min(rset \cap Fd)}
        /\ UNCHANGED server
     \/ /\ rset \cap Fd = {}
        /\ server' = "closed"
        /\ UNCHANGED rset
  /\ UNCHANGED <<config, shared, kernel, holder, pipe, jobs, run>>

\* select has failed: the server tries the descriptors one by one, upwards and
\* once each, and gives up those that fail.  Its own two never do.
Repair ==
  /\ Serves("repair")
  /\ \/ /\ rset \cap Fd # {}
        /\ LET fd == Min(rset \cap Fd)
           IN /\ \/ sock[fd] = NoConn /\ holder = NoThread /\ pendClose' = pendClose \cup {fd}
                 \/ sock[fd] # NoConn /\ UNCHANGED pendClose
              /\ rset' = rset \ {fd}
        /\ UNCHANGED server
     \/ /\ rset \cap Fd = {}
        /\ server' = "closed"
        /\ UNCHANGED <<pendClose, rset>>
  /\ UNCHANGED <<config, clients, pending, maxFd, asked, kernel, holder, pipe, jobs, run>>

\* A mutant of Drain: the pipe is read whether it is in the set or not.
DrainAlways ==
  /\ Serves("drain")
  /\ pipe' = pipe - 1
  /\ server' = "accept"
  /\ UNCHANGED <<config, rset, shared, kernel, holder, jobs, run>>

\* drain_server_wakeup takes one byte, however many there are.
Drain ==
  /\ Serves("drain")
  /\ pipe' = IF Ctl \in rset THEN pipe - 1 ELSE pipe
  /\ server' = "accept"
  /\ UNCHANGED <<config, rset, shared, kernel, holder, jobs, run>>

\* queue_job: a call, or a job for the pool.
QueueJob(j) ==
  IF inline
  THEN /\ run' = [run EXCEPT ![Server] = [at |-> "call", job |-> j]]
       /\ UNCHANGED jobs
  ELSE /\ jobs' = Append(jobs, j)
       /\ UNCHANGED run

\* queue_job fails for want of memory: the client is to be closed.
QueueFails(fd, c) ==
  /\ ~inline
  /\ holder = NoThread
  /\ pendClose' = pendClose \cup {fd}
  /\ asked' = asked \cup {c}
  /\ UNCHANGED <<jobs, run>>

\* The listener's turn: one connection is accepted (none, if the process has
\* no descriptor left) and its descriptor becomes a client, without the lock.
Accept ==
  /\ Serves("accept")
  /\ server' = "each"
  /\ \/ /\ Listener \notin rset \/ Free = {}
        /\ UNCHANGED <<clients, pendClose, asked, sock, backlog, jobs, run>>
     \/ /\ Listener \in rset
        /\ \E c \in backlog, fd \in Free :
             /\ backlog' = backlog \ {c}
             /\ sock' = [sock EXCEPT ![fd] = c]
             /\ clients' = clients \cup {fd}
             /\ \/ /\ QueueJob([kind |-> "new", fd |-> fd, conn |-> c])
                   /\ UNCHANGED <<pendClose, asked>>
                \/ QueueFails(fd, c)
  /\ UNCHANGED <<config, rset, pending, maxFd, holder, pipe, unread, sent>>

\* A mutant of Dispatch: the client stays in the set the server selects on.
DispatchNotBusy ==
  /\ Serves("each")
  /\ \/ /\ rset \cap clients = {}
        /\ server' = "closed"
        /\ UNCHANGED <<rset, pending, pendClose, asked, jobs, run>>
     \/ /\ rset \cap clients # {}
        /\ holder = NoThread
        /\ LET fd == Min(rset \cap clients)
           IN  /\ rset' = rset \ {fd}
               /\ UNCHANGED pending
               /\ \/ /\ QueueJob([kind |-> "data", fd |-> fd, conn |-> sock[fd]])
                     /\ UNCHANGED <<pendClose, asked>>
                  \/ QueueFails(fd, sock[fd])
        /\ UNCHANGED server
  /\ UNCHANGED <<config, clients, maxFd, kernel, holder, pipe>>

\* The clients' turn: the next one that is readable leaves the set the
\* server selects on, and gets a callback.
Dispatch ==
  /\ Serves("each")
  /\ \/ /\ rset \cap clients = {}
        /\ server' = "closed"
        /\ UNCHANGED <<rset, pending, pendClose, asked, jobs, run>>
     \/ /\ rset \cap clients # {}
        /\ holder = NoThread
        /\ LET fd == Min(rset \cap clients)
           IN  /\ rset' = rset \ {fd}
               /\ pending' = pending \ {fd}
               /\ \/ /\ QueueJob([kind |-> "data", fd |-> fd, conn |-> sock[fd]])
                     /\ UNCHANGED <<pendClose, asked>>
                  \/ QueueFails(fd, sock[fd])
        /\ UNCHANGED server
  /\ UNCHANGED <<config, clients, maxFd, kernel, holder, pipe>>

ServerStep ==
  \/ ProcessClosed
  \/ CopyPending
  \/ SelectFails
  \/ SelectWaits
  \/ SelectReady
  \/ Repair
  \/ Drain
  \/ Accept
  \/ Dispatch
----------------------------------------------------------------------------
(* The callbacks.                                                          *)

\* A thread of the pool starts the oldest job.
StartJob(w) ==
  /\ run[w] = Idle
  /\ jobs # << >>
  /\ run' = [run EXCEPT ![w] = [at |-> "call", job |-> Head(jobs)]]
  /\ jobs' = Tail(jobs)
  /\ UNCHANGED <<config, server, rset, shared, kernel, holder, pipe>>

\* queue_and_add_socket up to its lock: the application takes the new client
\* or refuses it.
NewClient(t) ==
  /\ At(t, "call")
  /\ run[t].job.kind = "new"
  /\ \E at \in {"lock", "close"} : Move(t, at)
  /\ UNCHANGED <<config, server, rset, shared, kernel, holder, pipe, jobs>>

\* process_socket_data: the application reads what is there and wants more,
\* or is done with the client and deletes it.
SomeData(t) ==
  /\ At(t, "call")
  /\ run[t].job.kind = "data"
  /\ unread' = unread \ {sock[run[t].job.fd]}
  /\ \/ /\ \E at \in {"lock", "close"} : Move(t, at)
        /\ UNCHANGED <<sock, asked>>
     \/ /\ app = "breaks"
        /\ sock' = [sock EXCEPT ![run[t].job.fd] = NoConn]
        /\ asked' = asked \cup {run[t].job.conn}
        /\ Move(t, "lock")
  /\ UNCHANGED <<config, server, rset, clients, pending, pendClose, maxFd, backlog, sent,
                 holder, pipe, jobs>>

\* pend_close: the server is not woken.
PendClose(t) ==
  /\ At(t, "close")
  /\ holder = NoThread
  /\ pendClose' = pendClose \cup {run[t].job.fd}
  /\ asked' = asked \cup {run[t].job.conn}
  /\ Done(t)
  /\ UNCHANGED <<config, server, rset, clients, pending, maxFd, kernel, holder, pipe, jobs>>

\* returned, or, for a new client, the lock around new_conn and returned and
\* new_conn's assignment.
Lock(t) ==
  /\ At(t, "lock")
  /\ holder = NoThread
  /\ holder' = t
  /\ LET j == run[t].job
     IN  IF j.kind = "new"
         THEN maxFd' = Max({maxFd, j.fd}) /\ Move(t, "greet")
         ELSE Move(t, "find") /\ UNCHANGED maxFd
  /\ UNCHANGED <<config, server, rset, clients, pending, pendClose, asked, kernel, pipe, jobs>>

\* server_wakeup, from new_conn: a write that blocks, with the lock held,
\* while the pipe is full.
Greet(t) ==
  /\ At(t, "greet")
  /\ pipe < PipeSize
  /\ pipe' = pipe + 1
  /\ Move(t, "find")
  /\ UNCHANGED <<config, server, rset, shared, kernel, holder, jobs>>

\* A mutant of Find: m_clients is not looked at.
FindBlindly(t) ==
  /\ At(t, "find")
  /\ pending' = pending \cup {run[t].job.fd}
  /\ Move(t, "wake")
  /\ UNCHANGED <<config, server, rset, clients, pendClose, maxFd, asked, kernel, holder, pipe, jobs>>

\* Another: the return for a client that is gone leaves the lock taken.
FindLocking(t) ==
  /\ At(t, "find")
  /\ \/ /\ run[t].job.fd \in clients
        /\ pending' = pending \cup {run[t].job.fd}
        /\ Move(t, "wake")
     \/ /\ run[t].job.fd \notin clients
        /\ Done(t)
        /\ UNCHANGED pending
  /\ UNCHANGED <<config, server, rset, clients, pendClose, maxFd, asked, kernel, holder, pipe, jobs>>

\* returned: a client that is still one is given back to the server.
Find(t) ==
  /\ At(t, "find")
  /\ \/ /\ run[t].job.fd \in clients
        /\ pending' = pending \cup {run[t].job.fd}
        /\ Move(t, "wake")
        /\ UNCHANGED holder
     \/ /\ run[t].job.fd \notin clients
        /\ holder' = NoThread
        /\ Done(t)
        /\ UNCHANGED pending
  /\ UNCHANGED <<config, server, rset, clients, pendClose, maxFd, asked, kernel, pipe, jobs>>

\* A mutant of Wake: the server is not woken.
WakeNobody(t) ==
  /\ At(t, "wake")
  /\ holder' = NoThread
  /\ Done(t)
  /\ UNCHANGED <<config, server, rset, shared, kernel, pipe, jobs>>

\* server_wakeup, from returned.
Wake(t) ==
  /\ At(t, "wake")
  /\ pipe < PipeSize
  /\ pipe' = pipe + 1
  /\ holder' = NoThread
  /\ Done(t)
  /\ UNCHANGED <<config, server, rset, shared, kernel, jobs>>

CallbackStep(t) ==
  \/ NewClient(t)
  \/ SomeData(t)
  \/ PendClose(t)
  \/ Lock(t)
  \/ Greet(t)
  \/ Find(t)
  \/ Wake(t)
----------------------------------------------------------------------------
(* The application and the peers.                                          *)

\* std_socket_service_client_add: the application has made a connection of
\* its own; the rest is new_conn and returned, as in queue_and_add_socket.
ClientAdd(c) ==
  /\ run[Adder] = Idle
  /\ holder = NoThread
  /\ c \in Conn \ (MadeConn \cup asked)
  /\ \E fd \in Free :
       /\ sock' = [sock EXCEPT ![fd] = c]
       /\ clients' = clients \cup {fd}
       /\ maxFd' = Max({maxFd, fd})
       /\ run' = [run EXCEPT ![Adder] =
                    [at |-> "greet", job |-> [kind |-> "new", fd |-> fd, conn |-> c]]]
  /\ holder' = Adder
  /\ UNCHANGED <<config, server, rset, pending, pendClose, asked, backlog, unread,
                 sent, pipe, jobs>>

\* std_socket_service_client_close of a client that is open.
ClientClose(fd) ==
  /\ app = "closes"
  /\ fd \in clients \cap Open
  /\ sock[fd] \notin asked
  /\ holder = NoThread
  /\ pendClose' = pendClose \cup {fd}
  /\ asked' = asked \cup {sock[fd]}
  /\ UNCHANGED <<config, server, rset, clients, pending, maxFd, kernel, holder, pipe, jobs, run>>

\* A peer connects, and sends something or hangs up.
Connect(c) ==
  /\ c \in Conn \ (MadeConn \cup asked)
  /\ backlog' = backlog \cup {c}
  /\ UNCHANGED <<config, server, rset, shared, holder, pipe, jobs, run, sock, unread, sent>>

Send(c) ==
  /\ c \in MadeConn \ unread
  /\ sent < MaxSent
  /\ unread' = unread \cup {c}
  /\ sent' = sent + 1
  /\ UNCHANGED <<config, server, rset, shared, holder, pipe, jobs, run, sock, backlog>>
----------------------------------------------------------------------------
Next ==
  \/ ServerStep
  \/ SelectTimeout
  \/ \E w \in Worker : StartJob(w)
  \/ \E t \in Thread : CallbackStep(t)
  \/ \E c \in Conn : ClientAdd(c) \/ Connect(c) \/ Send(c)
  \/ \E fd \in Fd : ClientClose(fd)

Spec == Init /\ [][Next]_vars

\* The server and the threads of the pool go on whenever they can.  Nobody
\* has to connect, to send or to close anything; and a second in select is
\* long, so what has to happen must happen without SelectTimeout.
Fairness ==
  /\ WF_vars(ServerStep)
  /\ \A w \in Worker : WF_vars(StartJob(w))
  /\ \A t \in Thread : WF_vars(CallbackStep(t))

FairSpec == Spec /\ Fairness
----------------------------------------------------------------------------
(* Properties.                                                             *)

\* How often a client's descriptor is somewhere: in the set the server
\* selects on, in a job that waits, in a callback, in the set to be closed.
Holdings(fd) ==
  /\ fd \in clients
  /\ LET queued  == {i \in DOMAIN jobs : jobs[i].fd = fd}
         running == {t \in Thread : run[t].at \notin {"idle", "wake"} /\ run[t].job.fd = fd}
         sets    == {S \in {<<1, pending>>, <<2, pendClose>>} : fd \in S[2]}
     IN  Cardinality(queued) + Cardinality(running) + Cardinality(sets) = 1

\* Every client is in one of these places and in one only: two callbacks
\* never work on a client at once, and no client is forgotten by all of them.
EveryClientHasOneKeeper ==
  app = "keeps" => \A fd \in clients : Holdings(fd)

\* select never sees a descriptor that is closed, even when the application
\* closes clients while their callbacks run, nor one beyond max_fd.
SelectsOnWholeOpenSet ==
  server = "select" => /\ app # "breaks" => Bad = {}
                       /\ app = "keeps" => Watched = rset

\* Every connection the server closes is one somebody asked it to close.
ClosesOnlyWhatWasAsked ==
  \A fd \in pendClose : sock[fd] \in asked \cup {NoConn}

KeeperClosesOnlyWhatWasAsked == app = "keeps" => ClosesOnlyWhatWasAsked

\* A client that has sent something is read, or is on its way out, without
\* the help of select's timeout.
IsClient(c) == \E fd \in clients : sock[fd] = c

EveryClientIsServed ==
  \A c \in Conn : (app = "keeps" /\ c \in unread /\ IsClient(c))
                     ~> (c \notin unread \/ c \in asked)

\* A descriptor the application closed itself is found by the repair after
\* select's failure and leaves the set.
BadDescriptorsLeave ==
  WF_vars(SelectTimeout) =>
    \A fd \in Fd : (fd \in pending /\ sock[fd] = NoConn)
                    ~> ~(fd \in pending /\ sock[fd] = NoConn)

\* With the timeout, what is to be closed is closed.
ClosesInTime ==
  WF_vars(SelectTimeout) => \A fd \in Fd : fd \in pendClose ~> fd \notin pendClose

\* The server "listens for connections" as long as the service runs: it comes
\* back to select again and again, whatever holds m_mutex or fills the pipe.
ServerKeepsListening ==
  WF_vars(SelectTimeout) => []<>(server = "select")
============================================================================
