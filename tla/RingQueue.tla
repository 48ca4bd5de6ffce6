----------------------------- MODULE RingQueue -----------------------------
(***************************************************************************)
(* The memory of a message queue (skynet_mq.c): a ring buffer that doubles *)
(* when it is full, and the overload warning.  Every operation runs under  *)
(* the queue's lock, except skynet_mq_overload, which only the worker that *)
(* owns the queue calls, after each message it takes and before the next.  *)
(***************************************************************************)
EXTENDS Integers, Sequences

CONSTANTS Message,
          None,            \* no message; also what malloc left in a cell
          InitCap,         \* DEFAULT_QUEUE_SIZE, 64
          MQ_OVERLOAD,     \* 1024
          MaxCap           \* bound: the buffer grows no further

ASSUME RingQueueAssumption ==
    /\ None \notin Message
    /\ InitCap \in Nat /\ InitCap > 1
    /\ MQ_OVERLOAD \in Nat \ {0}
    /\ MaxCap \in Nat

VARIABLES queue, cap, head, tail, overload_threshold,
          got,       \* the message the last skynet_mq_pop stored
          reported   \* the last length an overload warning printed, 0 since empty

vars == <<queue, cap, head, tail, overload_threshold, got, reported>>

\* skynet_mq_create.
Init ==
    /\ cap = InitCap
    /\ queue = [i \in 0..(InitCap - 1) |-> None]
    /\ head = 0
    /\ tail = 0
    /\ overload_threshold = MQ_OVERLOAD
    /\ got = None
    /\ reported = 0

\* Where an index that was just advanced goes on.
Wrap(i) == IF i >= cap THEN 0 ELSE i

\* Faulty variant: the cells are copied from the start of the old buffer.
expand_queue_flat(cells) ==
    /\ queue' = [i \in 0..(2 * cap - 1) |-> IF i < cap THEN cells[i] ELSE None]
    /\ head' = 0
    /\ tail' = cap
    /\ cap' = 2 * cap

\* expand_queue: the new buffer begins with the oldest message.
expand_queue(cells) ==
    /\ queue' = [i \in 0..(2 * cap - 1) |->
                    IF i < cap THEN cells[(head + i) % cap] ELSE None]
    /\ head' = 0
    /\ tail' = cap
    /\ cap' = 2 * cap

\* skynet_mq_push.
MqPush(m) ==
    LET cells == [queue EXCEPT ![tail] = m]
        next == Wrap(tail + 1)
    IN  /\ IF head = next
           THEN cap < MaxCap /\ expand_queue(cells)
           ELSE queue' = cells /\ tail' = next /\ UNCHANGED <<head, cap>>
        /\ UNCHANGED <<overload_threshold, got, reported>>

\* Faulty variant: the threshold is doubled once at most.
ThresholdOnce(length) == IF length > overload_threshold THEN 2 * overload_threshold
                                                        ELSE overload_threshold

\* The loop that doubles the threshold until the length is within it.
Threshold(length) ==
    LET enough == {n \in 0..length : length <= overload_threshold * 2^n}
    IN  overload_threshold * 2^(CHOOSE n \in enough : \A k \in enough : n <= k)

\* Faulty variant: the threshold is not raised, so every pop warns.
MqPopWarns ==
    LET hd == Wrap(head + 1)
        length == IF tail < hd THEN tail - hd + cap ELSE tail - hd
    IN  /\ head # tail
        /\ got' = queue[head]
        /\ head' = hd
        /\ reported' = IF length > overload_threshold THEN length ELSE reported
        /\ UNCHANGED <<queue, cap, tail, overload_threshold>>

\* skynet_mq_pop of a message; a length above the threshold is left in
\* q->overload, which skynet_mq_overload reads, resets and lets the worker print.
MqPop ==
    LET hd == Wrap(head + 1)
        length == IF tail < hd THEN tail - hd + cap ELSE tail - hd
    IN  /\ head # tail
        /\ got' = queue[head]
        /\ head' = hd
        /\ overload_threshold' = Threshold(length)
        /\ reported' = IF length > overload_threshold THEN length ELSE reported
        /\ UNCHANGED <<queue, cap, tail>>

\* skynet_mq_pop of an empty queue resets the threshold.
MqPopEmpty ==
    /\ head = tail
    /\ overload_threshold' = MQ_OVERLOAD
    /\ got' = None
    /\ reported' = 0
    /\ UNCHANGED <<queue, cap, head, tail>>

Next == (\E m \in Message : MqPush(m)) \/ MqPop \/ MqPopEmpty

Spec == Init /\ [][Next]_vars
-----------------------------------------------------------------------------
\* skynet_mq_length.
Length == IF head <= tail THEN tail - head ELSE tail + cap - head

\* The cell of the message that i others precede.
Cell(i) == IF head + i < cap THEN head + i ELSE head + i - cap

Contents == [i \in 1..Length |-> queue[Cell(i - 1)]]

\* The buffer implements the sequence: nothing lost, repeated, reordered or
\* read from a cell that was never written, across any number of expansions.
Seqn == INSTANCE Fifo WITH items <- Contents

FifoSpec == Seqn!Spec

\* After each pop the threshold is at least the length, and the warning that
\* follows is for a longer queue than the last one: the log of a service with a
\* backlog does not fill up (skynet_mq.c:156).
WarningsDouble ==
    [][/\ MqPop => Length' <= overload_threshold'
       /\ reported' \notin {reported, 0} => reported' > reported
      ]_vars
=============================================================================
