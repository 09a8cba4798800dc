------------------------------ MODULE CmdRedir ------------------------------
(***************************************************************************)
(* The command redirection of std_cmd_redir.c: standard input and output   *)
(* of the process become one end of a socket pair, the console; a thread   *)
(* copies between the other end and one client at a time, and the process  *)
(* may ask it to end the connection.                                       *)
(*                                                                         *)
(* What is copied at a time is a chunk.  Output chunks are numbered.       *)
(***************************************************************************)
EXTENDS Naturals, Sequences

CONSTANTS
  Client,
  NoClient,
  OutRoom, InRoom,   \* what the console holds in each direction
  MaxOut,            \* bound: chunks of output
  MaxIn,             \* bound: chunks a client may have typed ahead
  MaxTerms           \* bound: requests to end a connection

ASSUME RedirAssumption ==
  /\ NoClient \notin Client
  /\ OutRoom \in Nat /\ InRoom \in Nat
  /\ MaxOut \in Nat /\ MaxIn \in Nat /\ MaxTerms \in Nat

VARIABLES
  phase,     \* the reader thread: where it is
  shell,     \* the shell thread: none yet, it runs, or it could not be made
  client,    \* client_socket
  flag,      \* client_flag_for_close
  wanted,    \* history: the client there was when the flag was last raised
  terms,     \* the number of requests that may still come
  conn,      \* the clients: new, queued, served, closed
  hung,      \* those that have hung up
  typed,     \* their chunks nobody has read
  printed,   \* the number of output chunks
  out, in,   \* the console: output chunks, and the number of input chunks
  buff,      \* m_buff: the chunk that was moved last, and by whom it was made
  ready,     \* what select has returned
  seen,      \* history: what has been written to each client
  stdio      \* which of the standard descriptors are the console

outside == <<conn, hung, typed, printed, terms>>
redirVars == <<phase, shell, client, flag, wanted, outside, out, in, buff, ready, seen, stdio>>

NoChunk == [by |-> NoClient, n |-> 0]
Chunk   == [by : Client \cup {NoClient}, n : 0 .. MaxOut]
Serving == phase \in {"top", "select", "copy"}

RedirTypeOK ==
  /\ phase \in {"init", "failed", "wait", "accepted", "top", "select", "copy", "dead"}
  /\ shell \in {"none", "runs", "failed"}
  /\ client \in Client \cup {NoClient} /\ wanted \in Client \cup {NoClient}
  /\ flag \in BOOLEAN /\ terms \in 0 .. MaxTerms
  /\ conn \in [Client -> {"new", "queued", "served", "closed"}]
  /\ hung \subseteq Client
  /\ typed \in [Client -> 0 .. MaxIn]
  /\ printed \in 0 .. MaxOut
  /\ out \in Seq(1 .. MaxOut) /\ Len(out) <= OutRoom /\ in \in 0 .. InRoom
  /\ buff \in Chunk
  /\ ready \subseteq {"console", "client"}
  /\ seen \in [Client -> Seq(Chunk)]
  /\ stdio \subseteq {"in", "out"}

RedirInit ==
  /\ phase = "init" /\ shell = "none"
  /\ client = NoClient /\ flag = FALSE /\ wanted = NoClient /\ terms = MaxTerms
  /\ conn = [c \in Client |-> "new"] /\ hung = {} /\ typed = [c \in Client |-> 0]
  /\ printed = 0 /\ out = << >> /\ in = 0
  /\ buff = NoChunk /\ ready = {}
  /\ seen = [c \in Client |-> << >>]
  /\ stdio = {}
----------------------------------------------------------------------------
(* std_cmd_redir_init.  A step that fails leaves what is redirected, and   *)
(* the reader when that runs by then, but closes its end of the console:   *)
(* what the reader does next with it fails.                                *)

StdCmdRedirInit ==
  /\ phase = "init"
  /\ \/ phase' = "wait" /\ stdio' = {"in", "out"}
     \/ phase' = "failed" /\ stdio' \in {{}, {"in"}, {"in", "out"}}
  /\ UNCHANGED <<shell, client, flag, wanted, outside, out, in, buff, ready, seen>>

StartShell ==
  /\ shell = "none" /\ phase \notin {"init", "failed"}
  /\ shell' \in {"runs", "failed"}
  /\ UNCHANGED <<phase, client, flag, wanted, outside, out, in, buff, ready, seen, stdio>>
----------------------------------------------------------------------------
(* The clients, and the shell thread with what it calls.                   *)

Started == phase \notin {"init", "failed", "dead"}

Connect(c) ==
  /\ Started /\ conn[c] = "new"
  /\ conn' = [conn EXCEPT ![c] = "queued"]
  /\ UNCHANGED <<shell, hung, typed, printed, terms, phase, client, flag, wanted, out, in, buff, ready, seen, stdio>>
Type(c) ==
  /\ Started /\ conn[c] \in {"queued", "served"} /\ c \notin hung
  /\ typed[c] < MaxIn
  /\ typed' = [typed EXCEPT ![c] = @ + 1]
  /\ UNCHANGED <<shell, conn, hung, printed, terms, phase, client, flag, wanted, out, in, buff, ready, seen, stdio>>
HangUp(c) ==
  /\ Started /\ conn[c] \in {"queued", "served"} /\ c \notin hung
  /\ hung' = hung \cup {c}
  /\ UNCHANGED <<shell, conn, typed, printed, terms, phase, client, flag, wanted, out, in, buff, ready, seen, stdio>>

ShellPrints ==
  /\ Started /\ shell = "runs"
  /\ printed < MaxOut /\ Len(out) < OutRoom
  /\ printed' = printed + 1
  /\ out' = Append(out, printed + 1)
  /\ UNCHANGED <<shell, conn, hung, typed, terms, phase, client, flag, wanted, in, buff, ready, seen, stdio>>
ShellReads ==
  /\ Started /\ shell = "runs" /\ in > 0
  /\ in' = in - 1
  /\ UNCHANGED <<shell, outside, phase, client, flag, wanted, out, buff, ready, seen, stdio>>

\* std_cmd_redir_term_conn.
TermConn ==
  /\ Started /\ shell = "runs" /\ terms > 0
  /\ terms' = terms - 1
  /\ flag' = TRUE /\ wanted' = client
  /\ UNCHANGED <<shell, conn, hung, typed, printed, phase, client, out, in, buff, ready, seen, stdio>>
----------------------------------------------------------------------------
(* console_reader.                                                         *)

\* The reader's end of the console is closed, which nobody has printed on.  A
\* select that was begun before may still return, the next fails.
Broken    == shell = "failed"
BackToWait == IF Broken THEN "dead" ELSE "wait"

Queued == {c \in Client : conn[c] = "queued"}

\* One turn of wait_for_connection: what the console says is thrown away, but
\* stays in m_buff; a connection is accepted and is sent that.
Flushed == IF out = << >> THEN buff ELSE [by |-> NoClient, n |-> Head(out)]
Drained == IF out = << >> THEN out ELSE Tail(out)
Flush ==
  /\ phase = "wait" /\ Queued = {} /\ out # << >>
  /\ out' = Drained /\ buff' = Flushed
  /\ UNCHANGED <<shell, outside, phase, client, flag, wanted, in, ready, seen, stdio>>
Accept(c) ==
  /\ phase = "wait" /\ c \in Queued
  /\ out' = Drained /\ buff' = Flushed
  /\ \/ /\ c \in hung /\ Flushed # NoChunk      \* std_write fails
        /\ conn' = [conn EXCEPT ![c] = "closed"]
        /\ phase' = BackToWait
        /\ UNCHANGED <<client, seen>>
     \/ /\ c \in hung => Flushed = NoChunk
        /\ conn' = [conn EXCEPT ![c] = "served"]
        /\ seen' = [seen EXCEPT ![c] = IF Flushed = NoChunk THEN @ ELSE <<Flushed>>]
        /\ phase' = "accepted" /\ client' = c
  /\ UNCHANGED <<shell, hung, typed, printed, terms, flag, wanted, in, ready, stdio>>

\* accept or select fails: no recovery.
Die ==
  /\ phase = "wait"
  /\ phase' = "dead"
  /\ UNCHANGED <<shell, outside, client, flag, wanted, out, in, buff, ready, seen, stdio>>

\* A mutant of Begin: an old request is not dropped.
BeginKeepingFlag ==
  /\ phase = "accepted"
  /\ phase' = "top"
  /\ UNCHANGED <<shell, flag, outside, client, wanted, out, in, buff, ready, seen, stdio>>

Begin ==
  /\ phase = "accepted"
  /\ flag' = FALSE
  /\ phase' = "top"
  /\ UNCHANGED <<shell, outside, client, wanted, out, in, buff, ready, seen, stdio>>

CloseSocket ==
  /\ conn' = [conn EXCEPT ![client] = "closed"]
  /\ client' = NoClient
  /\ phase' = BackToWait

\* The loop looks at the flag before each select, which waits without limit.
LookAtFlag ==
  /\ phase = "top"
  /\ \/ (flag \/ Broken) /\ CloseSocket
     \/ ~flag /\ ~Broken /\ phase' = "select" /\ UNCHANGED <<conn, client>>
  /\ UNCHANGED <<shell, hung, typed, printed, terms, flag, wanted, out, in, buff, ready, seen, stdio>>

Readable == (IF out # << >> THEN {"console"} ELSE {})
              \cup (IF typed[client] > 0 \/ client \in hung THEN {"client"} ELSE {})
Select ==
  /\ phase = "select"
  /\ \/ /\ Readable # {}
        /\ ready' = Readable /\ phase' = "copy"
        /\ UNCHANGED <<conn, client>>
     \/ CloseSocket /\ UNCHANGED ready      \* it fails
  /\ UNCHANGED <<shell, hung, typed, printed, terms, flag, wanted, out, in, buff, seen, stdio>>

\* Output is copied first.  A write that fails or is short ends the connection.
CopyOut ==
  /\ phase = "copy" /\ "console" \in ready
  /\ out' = Tail(out)
  /\ buff' = [by |-> NoClient, n |-> Head(out)]
  /\ \/ /\ client \notin hung
        /\ seen' = [seen EXCEPT ![client] = Append(@, buff')]
        /\ ready' = ready \ {"console"}
        /\ phase' = IF ready' = {} THEN "top" ELSE "copy"
        /\ UNCHANGED <<conn, client>>
     \/ /\ CloseSocket
        /\ ready' = {}
        /\ UNCHANGED seen
  /\ UNCHANGED <<shell, hung, typed, printed, terms, flag, wanted, in, stdio>>

\* Input: the write to the console waits while the shell does not read.
CopyIn ==
  /\ phase = "copy" /\ ready = {"client"}
  /\ ready' = {}
  /\ \/ /\ ~Broken /\ typed[client] > 0 /\ in < InRoom
        /\ typed' = [typed EXCEPT ![client] = @ - 1]
        /\ in' = in + 1
        /\ buff' = [by |-> client, n |-> 0]
        /\ phase' = "top"
        /\ UNCHANGED <<conn, client>>
     \/ /\ Broken /\ typed[client] > 0
        /\ typed' = [typed EXCEPT ![client] = @ - 1]
        /\ buff' = [by |-> client, n |-> 0]
        /\ CloseSocket
        /\ UNCHANGED in
     \/ /\ typed[client] = 0
        /\ CloseSocket
        /\ UNCHANGED <<typed, in, buff>>
  /\ UNCHANGED <<shell, hung, printed, terms, flag, wanted, out, seen, stdio>>

RedirNext ==
  \/ StdCmdRedirInit \/ StartShell \/ ShellPrints \/ ShellReads \/ TermConn
  \/ \E c \in Client : Connect(c) \/ Type(c) \/ HangUp(c) \/ Accept(c)
  \/ Flush \/ Die \/ Begin \/ LookAtFlag \/ Select \/ CopyOut \/ CopyIn

RedirSpec == RedirInit /\ [][RedirNext]_redirVars
----------------------------------------------------------------------------
\* A request to end a connection ends only the one there was when it was
\* made, however late it comes to the reader; and the output a client sees has no
\* gap: it begins with what the one before saw last or what was thrown away last,
\* unless a client's input has taken its place, and goes on from there.
SessionsAreSeparate ==
  /\ (Serving /\ flag) => wanted = client
  /\ \A c \in Client : \A i \in 2 .. Len(seen[c]) :
       seen[c][i - 1].by = NoClient => seen[c][i].n = seen[c][i - 1].n + 1
=============================================================================
