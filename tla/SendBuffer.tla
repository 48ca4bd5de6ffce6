----------------------------- MODULE SendBuffer -----------------------------
(***************************************************************************)
(* How packets get from the services to a TCP connection (socket_server.c). *)
(* A worker thread writes directly when nothing is waiting, under dw_lock,  *)
(* and leaves what the kernel did not take in dw_buffer; otherwise it sends *)
(* a request through the pipe, and the socket thread appends the packet to  *)
(* one of two lists and writes when the connection is writable.  The state  *)
(* is one slot of the table, which is used again under the next id.         *)
(*                                                                         *)
(* A packet is Size parts; a list is the sequence of parts still to be      *)
(* written, so a head that is not part 1 is what list_uncomplete tests.     *)
(* Memory is read in program order.  Warnings are in SocketGate.            *)
(***************************************************************************)
EXTENDS Naturals, Sequences, FiniteSets, FiniteSetsExt

CONSTANTS Sender,       \* services that send
          Owner,        \* the one that closes the connection
          None,
          Size,         \* parts of a packet
          Space,        \* parts the kernel can hold
          MaxSending,   \* 0xffff, the limit of the count in sending
          MaxSend,      \* bound: packets of each sender
          MaxId         \* bound: how often the slot is used

ASSUME SendAssumption ==
    /\ Owner \in Sender /\ IsFiniteSet(Sender) /\ None \notin Sender /\ None \notin Nat
    /\ Size \in Nat \ {0} /\ Space \in Nat \ {0} /\ MaxSending \in Nat \ {0}
    /\ MaxSend \in [Sender -> Nat] /\ MaxId \in Nat

VARIABLES
    \* struct socket
    id,
    type,           \* "connected", "halfclose", "invalid"
    high, low,      \* the two lists of parts
    dw,             \* what dw_buffer and dw_offset stand for: the rest of a direct write
    wb_size,        \* parts in the lists
    sending,        \* requests on their way; its upper half is the tag of id
    lock,           \* who holds dw_lock; the socket thread holds it within a step only
    write_event,    \* the poll reports when the connection is writable
    \* The pipe, and where the socket thread is in the request or the close.
    pipe, at,
    \* A thread in socket_server_send: its place, its packet; the packets sent so far.
    pc, pkt, count,
    \* The kernel: what it can take, what it took, whether the peer is there.
    room, stream, peer,
    \* History: the owner's count when the slot was opened, and when it closed it; why
    \* the socket was closed; force_close has thrown away the rest of a packet.
    since, given, how, cut

slotVars == <<id, type, high, low, dw, wb_size, sending, lock, write_event>>
senderVars == <<pc, pkt, count>>
kernel == <<room, stream, peer>>
history == <<since, given, how, cut>>
vars == <<slotVars, pipe, at, senderVars, kernel, history>>

Parts(p) == [i \in 1..Size |-> [p |-> p, i |-> i]]
First(n, q) == SubSeq(q, 1, n)
Rest(n, q) == SubSeq(q, n + 1, Len(q))

Init ==
    /\ id = 1 /\ type = "connected"
    /\ high = <<>> /\ low = <<>> /\ dw = <<>> /\ wb_size = 0
    /\ sending = 0 /\ lock = None /\ write_event = FALSE
    /\ pipe = <<>> /\ at = "poll"
    /\ pc = [s \in Sender |-> "idle"] /\ pkt = [s \in Sender |-> None]
    /\ count = [s \in Sender |-> 0]
    /\ room = Space /\ stream = <<>> /\ peer = "up"
    /\ since = 0 /\ given = None /\ how = "open" /\ cut = FALSE

Goto(s, l) == pc' = [pc EXCEPT ![s] = l] /\ UNCHANGED pkt
Done(s) == pc' = [pc EXCEPT ![s] = "idle"] /\ pkt' = [pkt EXCEPT ![s] = None]
-----------------------------------------------------------------------------
\* A worker thread.

\* socket_server_send and socket_server_send_lowpriority, for a socket that is open.
Send(s, isLow) ==
    /\ pc[s] = "idle" /\ count[s] < MaxSend[s] /\ type # "invalid"
    /\ count' = [count EXCEPT ![s] = @ + 1]
    /\ pkt' = [pkt EXCEPT ![s] = [from |-> s, n |-> count[s] + 1, low |-> isLow, id |-> id]]
    /\ pc' = [pc EXCEPT ![s] = IF isLow THEN "inc" ELSE "lists"]
    /\ UNCHANGED <<slotVars, pipe, at, kernel, history>>

\* can_direct_write reads the lists and dw_buffer, without the lock ("lists") and,
\* when it could be taken, again with it ("lists2").
ReadLists(s) ==
    /\ pc[s] \in {"lists", "lists2"}
    /\ IF id = pkt[s].id /\ high = <<>> /\ low = <<>> /\ dw = <<>>
       THEN /\ Goto(s, IF pc[s] = "lists" THEN "state" ELSE "state2")
            /\ UNCHANGED lock
       ELSE /\ Goto(s, "inc")
            /\ lock' = IF lock = s THEN None ELSE lock
    /\ UNCHANGED <<id, type, high, low, dw, wb_size, sending, write_event, pipe, at, count,
                   kernel, history>>

\* Faulty variant: it only asks once, with the lock.
ReadStateOnce(s) ==
    /\ pc[s] \in {"state", "state2"}
    /\ IF pc[s] = "state"
       THEN Goto(s, "try") /\ UNCHANGED lock
       ELSE /\ Goto(s, IF sending = 0 /\ type = "connected" THEN "write" ELSE "inc")
            /\ lock' = IF sending = 0 /\ type = "connected" THEN lock ELSE None
    /\ UNCHANGED <<id, type, high, low, dw, wb_size, sending, write_event, pipe, at, count,
                   kernel, history>>

\* It goes on with sending and type.
ReadState(s) ==
    /\ pc[s] \in {"state", "state2"}
    /\ IF sending = 0 /\ type = "connected"
       THEN /\ Goto(s, IF pc[s] = "state" THEN "try" ELSE "write")
            /\ UNCHANGED lock
       ELSE /\ Goto(s, "inc")
            /\ lock' = IF lock = s THEN None ELSE lock
    /\ UNCHANGED <<id, type, high, low, dw, wb_size, sending, write_event, pipe, at, count,
                   kernel, history>>

\* socket_trylock, after the first time.
TryLock(s) ==
    /\ pc[s] = "try"
    /\ Goto(s, IF lock = None THEN "lists2" ELSE "inc")
    /\ lock' = IF lock = None THEN s ELSE lock
    /\ UNCHANGED <<id, type, high, low, dw, wb_size, sending, write_event, pipe, at, count,
                   kernel, history>>

\* The direct write; an error counts as nothing written.  After sp_del the poll knows
\* the socket no more, and sp_write fails.
DirectWrite(s) ==
    /\ pc[s] = "write"
    /\ \E n \in {Min({room, Size})} \cup (IF peer = "up" THEN {} ELSE {0}) :
         /\ stream' = stream \o First(n, Parts(pkt[s]))
         /\ room' = room - n
         /\ dw' = Rest(n, Parts(pkt[s]))
         /\ write_event' = (write_event \/ (n < Size /\ at # "force"))
    /\ lock' = None
    /\ Done(s)
    /\ UNCHANGED <<id, type, high, low, wb_size, sending, pipe, at, count, peer, history>>

\* Faulty variant: the tag is not compared.
IncSendingAny(s) ==
    /\ pc[s] = "inc"
    /\ sending < MaxSending
    /\ sending' = sending + 1
    /\ Goto(s, "request")
    /\ UNCHANGED <<id, type, high, low, dw, wb_size, lock, write_event, pipe, at, count,
                   kernel, history>>

\* inc_sending_ref; it waits at the limit.
IncSending(s) ==
    /\ pc[s] = "inc"
    /\ IF id = pkt[s].id THEN sending < MaxSending /\ sending' = sending + 1
                         ELSE UNCHANGED sending
    /\ Goto(s, "request")
    /\ UNCHANGED <<id, type, high, low, dw, wb_size, lock, write_event, pipe, at, count,
                   kernel, history>>

\* send_request with 'D' or 'P'.
SendRequest(s) ==
    /\ pc[s] = "request"
    /\ pipe' = Append(pipe, [cmd |-> "send", p |-> pkt[s]])
    /\ Done(s)
    /\ UNCHANGED <<slotVars, at, count, kernel, history>>

\* socket_server_close and socket_server_shutdown.
Close(shutdown) ==
    /\ pc[Owner] = "idle" /\ given = None
    /\ pipe' = Append(pipe, [cmd |-> "K", id |-> id, shutdown |-> shutdown])
    /\ given' = count[Owner]
    /\ UNCHANGED <<slotVars, at, senderVars, kernel, since, how, cut>>
-----------------------------------------------------------------------------
\* The socket thread.

Uncomplete(q) == q # <<>> /\ q[1].i # 1

\* free_wb_list and sp_del, the first part of force_close, without the lock.
FreeLists(reason) ==
    /\ high' = <<>> /\ low' = <<>> /\ write_event' = FALSE
    /\ how' = reason
    /\ cut' = (cut \/ Uncomplete(high))
    /\ at' = "force"

\* The second part, with the lock.
ForceClose ==
    /\ at = "force" /\ lock = None
    /\ type' = "invalid" /\ dw' = <<>>
    /\ at' = "poll"
    /\ UNCHANGED <<id, high, low, wb_size, sending, lock, write_event, pipe, senderVars, kernel,
                   history>>

\* The whole of force_close, by the socket thread that has the lock already.
Closed(reason) ==
    /\ type' = "invalid" /\ high' = <<>> /\ low' = <<>> /\ dw' = <<>> /\ write_event' = FALSE
    /\ how' = reason

\* Faulty variant: the rest of a direct write goes behind the list.
QueueBehind == high \o dw

\* send_buffer: the rest of a direct write goes before the high list.
Queue == dw \o high

\* raise_uncomplete: so many parts go from the low list to the empty high list.
Raise(h, l) == IF h = <<>> /\ Uncomplete(l) THEN Size + 1 - l[1].i ELSE 0

\* send_buffer and send_buffer_ with the lock: as much of both lists as the kernel
\* takes, the high list first.  A failing write closes the socket.
send_buffer ==
    LET n == Min({room, Len(Queue)})
        h == Rest(n, Queue)
        m == IF h = <<>> THEN Min({room - n, Len(low)}) ELSE 0
        l == Rest(m, low)
        r == Raise(h, l)
    IN  \/ /\ peer = "closed" /\ Queue \o low # <<>>
           /\ Closed("abort")
           /\ UNCHANGED <<wb_size, room, stream>>
        \/ /\ stream' = stream \o First(n, Queue) \o First(m, low)
           /\ room' = room - n - m
           /\ wb_size' = wb_size + Len(dw) - n - m
           /\ IF h = <<>> /\ l = <<>> /\ type = "halfclose"
              THEN Closed("close")
              ELSE /\ high' = h \o First(r, l)
                   /\ low' = Rest(r, l)
                   /\ dw' = <<>>
                   /\ write_event' = (write_event /\ (h # <<>> \/ l # <<>>))
                   /\ UNCHANGED <<type, how>>

\* The poll reports the connection writable; while a worker has the lock nothing
\* is done.
WriteEvent ==
    /\ at = "poll" /\ write_event /\ lock = None
    /\ room > 0 \/ peer = "closed"
    /\ send_buffer
    /\ UNCHANGED <<id, sending, lock, pipe, at, senderVars, peer, since, given, cut>>

\* The peer has closed, or reading fails (forward_message_tcp).
ReadEnd ==
    /\ at = "poll" /\ peer = "closed" /\ type # "invalid"
    /\ FreeLists("abort")
    /\ UNCHANGED <<id, type, dw, wb_size, sending, lock, pipe, senderVars, kernel, since, given>>

\* Faulty variant: the poll is not asked to report.
AppendSilent(p) ==
    /\ IF p.low /\ high \o low # <<>>
       THEN low' = low \o Parts(p) /\ UNCHANGED high
       ELSE high' = high \o Parts(p) /\ UNCHANGED low
    /\ wb_size' = wb_size + Size
    /\ UNCHANGED write_event

\* append_sendbuffer and append_sendbuffer_low: with both lists empty it is the high
\* list in any case, and the poll is asked to report.
AppendBuffer(p) ==
    /\ IF p.low /\ high \o low # <<>>
       THEN low' = low \o Parts(p) /\ UNCHANGED high
       ELSE high' = high \o Parts(p) /\ UNCHANGED low
    /\ wb_size' = wb_size + Size
    /\ write_event' = (write_event \/ high \o low = <<>>)

\* A request to send (send_socket) ...
CtrlSend ==
    /\ at = "poll" /\ pipe # <<>> /\ Head(pipe).cmd = "send"
    /\ LET p == Head(pipe).p
       IN  IF type = "connected" /\ id = p.id
           THEN AppendBuffer(p)
           ELSE UNCHANGED <<high, low, wb_size, write_event>>
    /\ at' = "dec"
    /\ UNCHANGED <<id, type, dw, sending, lock, pipe, senderVars, kernel, history>>

\* ... and dec_sending_ref, after it.
DecSending ==
    /\ at = "dec"
    /\ sending' = IF id = Head(pipe).p.id THEN sending - 1 ELSE sending
    /\ pipe' = Tail(pipe)
    /\ at' = "poll"
    /\ UNCHANGED <<id, type, high, low, dw, wb_size, lock, write_event, senderVars, kernel, history>>

\* Faulty variant: a direct write may be under way.
NoMoreUnseen == high = <<>> /\ low = <<>> /\ sending = 0

nomore_sending_data == high = <<>> /\ low = <<>> /\ dw = <<>> /\ sending = 0

\* A request to close (close_socket): what is left is sent, unless a worker has the
\* lock.  A socket that is closed already is reported again.
CtrlClose ==
    /\ at = "poll" /\ pipe # <<>> /\ Head(pipe).cmd = "K"
    /\ LET open == type # "invalid" /\ id = Head(pipe).id
       IN  /\ IF open /\ ~nomore_sending_data /\ lock = None
              THEN send_buffer
              ELSE UNCHANGED <<type, high, low, dw, wb_size, write_event, room, stream, how>>
           /\ IF open /\ type' # "invalid"
              THEN at' = "close" /\ UNCHANGED pipe
              ELSE pipe' = Tail(pipe) /\ UNCHANGED at
    /\ UNCHANGED <<id, sending, lock, senderVars, peer, since, given, cut>>

\* ... then it is closed, or half closed until the rest is sent.
CtrlClosed ==
    /\ at = "close"
    /\ pipe' = Tail(pipe)
    /\ IF Head(pipe).shutdown \/ nomore_sending_data
       THEN /\ FreeLists(IF Head(pipe).shutdown THEN "abort" ELSE "close")
            /\ UNCHANGED type
       ELSE /\ type' = "halfclose"
            /\ at' = "poll"
            /\ UNCHANGED <<high, low, write_event, how, cut>>
    /\ UNCHANGED <<id, dw, wb_size, sending, lock, senderVars, kernel, since, given>>

\* reserve_id and new_fd: the slot is used again.  Assumed: no thread is between the
\* two reads of can_direct_write with the lock meanwhile (it would write to the new
\* connection); 65536 ids are given out before a slot comes again.
\* One step: report_accept calls the two one after the other in the socket thread, and
\* nobody knows the new id before they are done.  Who has the old one cannot write
\* directly in between either (the type is RESERVE), what it adds to `sending` is reset,
\* and a packet it gives to the pipe is thrown away there, as after the close.
Reopen ==
    /\ type = "invalid" /\ at = "poll" /\ id < MaxId
    /\ \A s \in Sender : pc[s] # "state2"
    /\ id' = id + 1 /\ type' = "connected"
    /\ sending' = 0 /\ wb_size' = 0 /\ dw' = <<>>
    /\ room' = Space /\ stream' = <<>> /\ peer' = "up"
    /\ since' = count[Owner] /\ given' = None /\ how' = "open" /\ cut' = FALSE
    /\ UNCHANGED <<high, low, lock, write_event, pipe, at, senderVars>>
-----------------------------------------------------------------------------
\* The peer.
PeerReads ==
    /\ room < Space
    /\ room' = room + 1
    /\ UNCHANGED <<slotVars, pipe, at, senderVars, stream, peer, history>>

PeerCloses ==
    /\ type # "invalid" /\ peer = "up"
    /\ peer' = "closed"
    /\ UNCHANGED <<slotVars, pipe, at, senderVars, room, stream, history>>

Step(s) == \/ ReadLists(s) \/ ReadState(s) \/ TryLock(s) \/ DirectWrite(s)
           \/ IncSending(s) \/ SendRequest(s)
SocketThread == \/ WriteEvent \/ ReadEnd \/ ForceClose
                \/ CtrlSend \/ DecSending \/ CtrlClose \/ CtrlClosed

Next == \/ \E s \in Sender : Step(s) \/ \E isLow \in BOOLEAN : Send(s, isLow)
        \/ \E shutdown \in BOOLEAN : Close(shutdown)
        \/ SocketThread \/ Reopen \/ PeerReads \/ PeerCloses

Spec == Init /\ [][Next]_vars

\* Worker threads and the socket thread run, and the peer reads what it is sent.
FairSpec == /\ Spec
            /\ \A s \in Sender : WF_vars(Step(s))
            /\ WF_vars(SocketThread)
            /\ WF_vars(PeerReads)
-----------------------------------------------------------------------------
\* The assertions of the socket thread hold (socket_server.c:697, :717, :1100 and
\* :443), since its counts are exact: every part in the lists, and every request under
\* way for this id and no other, also when the slot was given to a new connection
\* while requests for the old one were in the pipe.
CountsExact ==
    /\ type # "invalid" /\ at # "force" => wb_size = Len(high) + Len(low)
    /\ type = "invalid" => high = <<>> /\ low = <<>>
    /\ ~Uncomplete(low)
    /\ sending = Cardinality({i \in DOMAIN pipe : pipe[i].cmd = "send" /\ pipe[i].p.id = id})
                 + Cardinality({s \in Sender : pc[s] = "request" /\ pkt[s].id = id})

\* What the peer gets is whole packets, one after the other, of this connection: the
\* rest of a packet follows its first part whoever writes next.  (Once force_close has
\* thrown the rest of a packet away, a direct write may still follow before it has
\* the lock.)
WholePackets ==
    ~cut => \A j \in DOMAIN stream :
        LET q == stream[j]
        IN  /\ q.p.id = id
            /\ IF q.i = 1 THEN j = 1 \/ stream[j - 1].i = Size
                          ELSE j > 1 /\ stream[j - 1] = [q EXCEPT !.i = @ - 1]

\* Packets of one sender stay in order, except that one of high priority may overtake
\* those of low priority; none is written twice.
SenderOrder ==
    \A j, k \in DOMAIN stream : j < k =>
        /\ stream[j] # stream[k]
        /\ stream[j].p.from = stream[k].p.from /\ stream[j].p.n > stream[k].p.n =>
              stream[k].p.low /\ ~stream[j].p.low

\* A socket that is closed in the end because its owner closed it has sent everything
\* the owner had given it before: a direct write, the lists and the pipe included.
Flushed ==
    type = "invalid" /\ how = "close" =>
        \A n \in (since + 1)..given, i \in 1..Size :
            \E j \in DOMAIN stream : /\ stream[j].p.from = Owner
                                     /\ stream[j].p.n = n /\ stream[j].i = i

Waiting == high # <<>> \/ low # <<>> \/ dw # <<>>

\* What waits to be written is written, or the socket is closed: the poll is always
\* asked to report in time, and the end of a half close is not missed.  (A socket that
\* is half closed with nothing left to write, because a request to send was behind the
\* one to close, waits for the peer instead.)
Flowing == Waiting ~> (~Waiting /\ type # "halfclose")

\* What a comment in start_socket says (socket_server.c:983): a half closed socket is
\* closed later.
HalfCloseEnds == type = "halfclose" ~> type = "invalid"
=============================================================================
