------------------------------- MODULE Frames -------------------------------
(***************************************************************************)
(* Events on their way over one stream socket: the publishers' end of      *)
(* std_event_utils.cpp, which writes a frame with std_socket_op, and the   *)
(* subscriber's end, which reads it with std_read.                         *)
(*                                                                         *)
(* The threads of the event service publish under one lock that is held    *)
(* for reading, so several may write to one subscriber, and a write goes   *)
(* as far as the socket has room.  A call that is interrupted is made      *)
(* again: that leaves no trace here.                                       *)
(***************************************************************************)
EXTENDS Naturals, Sequences, SequencesExt

CONSTANTS
  Publisher,
  Event,    \* events: records of an id and the length of their data
  Room,     \* what the socket holds
  Space     \* the subscriber's buffer

ASSUME FramesAssumption ==
  /\ \A e \in Event : e.data \in Nat
  /\ Room \in Nat /\ Space \in Nat

VARIABLES
  stream,    \* what is in the socket: parts of frames
  fresh,     \* the events nobody has published yet
  sends,     \* std_event_util_event_send, by publisher
  order,     \* history: the events in the order of their first parts
  closing,   \* the server has been asked to close the socket
  open,      \* and has not done so yet
  recv,      \* the subscriber's call
  results,   \* history: what its calls have returned: an event, or none of
             \* those that were sent
  split      \* history: some frame has been left before its end, by its
             \* publisher or by the subscriber, or another has come between

frameVars == <<stream, fresh, sends, order, closing, open, recv, results, split>>

\* A frame: std_event_ipc_data_t, event_serv_msg_t, std_event_msg_t, and the
\* data.  The first says how much follows.
Frame(e) == [i \in 1 .. 3 + e.data |-> [of |-> e, part |-> i]]
Size(e)  == Len(Frame(e)) - 1
Sizes    == {Size(e) : e \in Event}
Parts    == UNION {Range(Frame(e)) : e \in Event}

IdleSend == [at |-> "idle"]
Waiting  == [at |-> "header"]
Ended    == [at |-> "end"]

FramesTypeOK ==
  /\ stream \in Seq(Parts) /\ Len(stream) <= Room
  /\ fresh \subseteq Event
  /\ sends \in [Publisher -> {IdleSend} \cup [at : {"send"}, event : Event, total : Nat]]
  /\ order \in Seq(Event)
  /\ closing \in BOOLEAN /\ open \in BOOLEAN /\ split \in BOOLEAN
  /\ recv \in {Waiting, Ended} \cup [at : {"event", "op", "msg", "data"}, size : Sizes, got : Seq(Parts)]
  /\ results \in Seq(SUBSET Event)

FramesInit ==
  /\ stream = << >>
  /\ fresh = Event
  /\ sends = [p \in Publisher |-> IdleSend]
  /\ order = << >>
  /\ closing = FALSE /\ open = TRUE
  /\ recv = Waiting
  /\ results = << >>
  /\ split = FALSE

Sending(p) == sends[p].at # "idle"
Begun(p)   == Sending(p) /\ sends[p].total > 0
Unsent(p)  == SubSeq(Frame(sends[p].event), sends[p].total + 1, Len(Frame(sends[p].event)))
----------------------------------------------------------------------------
(* Sending: _process_op, not blocking and with all to be sent.             *)

\* std_event_util_event_send lays the vectors out.
Send(p) ==
  /\ ~Sending(p)
  /\ \E e \in fresh :
       /\ sends' = [sends EXCEPT ![p] = [at |-> "send", event |-> e, total |-> 0]]
       /\ fresh' = fresh \ {e}
  /\ UNCHANGED <<stream, order, closing, open, recv, results, split>>

\* A mutant of Transfer: what is left is sent from the start.
TransferFromStart(p) ==
  /\ Sending(p) /\ open
  /\ \E n \in 1 .. Len(Unsent(p)) :
       /\ Len(stream) + n <= Room
       /\ stream' = stream \o SubSeq(Frame(sends[p].event), 1, n)
       /\ sends' = IF n = Len(Unsent(p)) THEN [sends EXCEPT ![p] = IdleSend]
                   ELSE [sends EXCEPT ![p].total = @ + n]
  /\ order' = IF Begun(p) THEN order ELSE Append(order, sends[p].event)
  /\ split' = (split \/ \E q \in Publisher \ {p} : Begun(q))
  /\ UNCHANGED <<fresh, closing, open, recv, results>>

\* sendmsg takes n parts, from the place fix_offset finds.
Transfer(p) ==
  /\ Sending(p) /\ open
  /\ \E n \in 1 .. Len(Unsent(p)) :
       /\ Len(stream) + n <= Room
       /\ stream' = stream \o SubSeq(Unsent(p), 1, n)
       /\ sends' = IF n = Len(Unsent(p)) THEN [sends EXCEPT ![p] = IdleSend]
                   ELSE [sends EXCEPT ![p].total = @ + n]
  /\ order' = IF Begun(p) THEN order ELSE Append(order, sends[p].event)
  /\ split' = (split \/ \E q \in Publisher \ {p} : Begun(q))
  /\ UNCHANGED <<fresh, closing, open, recv, results>>

\* While there is no room select waits.  The time it may take is over, or the
\* socket is closed: std_node_t::publish asks for it to be closed.
GiveUp(p) ==
  /\ Sending(p)
  /\ Len(stream) = Room \/ ~open
  /\ sends' = [sends EXCEPT ![p] = IdleSend]
  /\ closing' = TRUE
  /\ split' = (split \/ Begun(p))
  /\ UNCHANGED <<stream, fresh, order, open, recv, results>>

\* process_closed of the socket service.
Close ==
  /\ closing /\ open
  /\ open' = FALSE
  /\ UNCHANGED <<stream, fresh, sends, order, closing, recv, results, split>>
----------------------------------------------------------------------------
(* Receiving.  A part that is taken for another may say anything.          *)

Return(result) ==
  /\ results' = Append(results, result)
  /\ recv' = Waiting

\* The call returns an error, and what is left of the frame stays there.
Refuse == Return({}) /\ split' = TRUE

\* read_header, in std_event_util_event_recv ("event": the buffer may grow, or
\* not) or std_event_util_event_recv_msg ("op").
ReadHeader(call) ==
  /\ recv = Waiting
  /\ stream # << >>
  /\ stream' = Tail(stream)
  /\ \E size \in IF Head(stream).part = 1 THEN {Size(Head(stream).of)} ELSE Sizes :
       \/ /\ recv' = [at |-> call, size |-> size, got |-> <<Head(stream)>>]
          /\ UNCHANGED <<results, split>>
       \/ /\ Head(stream).part # 1 \/ (call = "event" /\ size > Space)
          /\ Refuse
  /\ UNCHANGED <<fresh, sends, order, closing, open>>

\* std_read goes on until it has all it is asked for: the rest of the frame, or
\* of recv_msg's next part.
Target == CASE recv.at = "op"  -> 2
            [] recv.at = "msg" -> 3
            [] OTHER           -> recv.size + 1
Reading == recv.at \in {"event", "op", "msg", "data"}
Read ==
  /\ Reading
  /\ \E n \in 1 .. Target - Len(recv.got) :
       /\ n <= Len(stream)
       /\ recv' = [recv EXCEPT !.got = @ \o SubSeq(stream, 1, n)]
       /\ stream' = SubSeq(stream, n + 1, Len(stream))
  /\ UNCHANGED <<fresh, sends, order, closing, open, results, split>>

\* recv_msg looks at the operation, and compares what is left with the buffer
\* for the data; then at the length of the data.
ReadOp ==
  /\ recv.at = "op" /\ Len(recv.got) = Target
  /\ \/ /\ recv.size - 1 <= Space
        /\ recv' = [recv EXCEPT !.at = "msg"]
        /\ UNCHANGED <<results, split>>
     \/ /\ recv.got[2].part # 2 \/ recv.size - 1 > Space
        /\ Refuse
  /\ UNCHANGED <<stream, fresh, sends, order, closing, open>>
ReadMsg ==
  /\ recv.at = "msg" /\ Len(recv.got) = Target
  /\ \/ /\ recv.got[3].part = 3 => recv.got[3].of.data = recv.size - 2
        /\ recv' = [recv EXCEPT !.at = "data"]
        /\ UNCHANGED <<results, split>>
     \/ /\ recv.got[3].part # 3 \/ recv.got[3].of.data # recv.size - 2
        /\ Refuse
  /\ UNCHANGED <<stream, fresh, sends, order, closing, open>>

Received ==
  /\ recv.at \in {"event", "data"} /\ Len(recv.got) = Target
  /\ Return({e \in Event : recv.got = Frame(e)})
  /\ UNCHANGED <<stream, fresh, sends, order, closing, open, split>>

\* The end of the stream, within a frame or between two.
EndOfFile ==
  /\ ~open /\ stream = << >>
  /\ recv = Waiting \/ (Reading /\ Len(recv.got) < Target)
  /\ recv' = Ended
  /\ UNCHANGED <<stream, fresh, sends, order, closing, open, results, split>>

FramesNext ==
  \/ \E p \in Publisher : Send(p) \/ Transfer(p) \/ GiveUp(p)
  \/ Close
  \/ \E call \in {"event", "op"} : ReadHeader(call)
  \/ Read \/ ReadOp \/ ReadMsg \/ Received \/ EndOfFile

FramesSpec == FramesInit /\ [][FramesNext]_frameVars
----------------------------------------------------------------------------
Flat(events) == FlattenSeq([i \in DOMAIN events |-> Frame(events[i])])
Rest         == IF \E p \in Publisher : Begun(p) THEN Unsent(CHOOSE p \in Publisher : Begun(p)) ELSE << >>

\* Unless a publisher has given up within a frame or two have written at once,
\* or the subscriber has refused a frame, its calls return the events that were
\* sent, whole and in the order of their first parts, however the transfers are cut
\* up and resumed: between a result and the frame that is being sent no part
\* is missing, doubled or out of place.
MessagesComeWhole ==
  (~split /\ recv # Ended) =>
    /\ \A i \in DOMAIN results : results[i] = {order[i]}
    /\ Flat(SubSeq(order, 1, Len(results))) \o (IF Reading THEN recv.got ELSE << >>) \o stream \o Rest = Flat(order)
=============================================================================
