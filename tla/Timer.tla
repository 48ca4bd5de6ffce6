-------------------------------- MODULE Timer --------------------------------
(***************************************************************************)
(* The timer wheel (skynet_timer.c).  Workers add timers and the timer     *)
(* thread ticks, both under the timer's lock, which the timer thread gives *)
(* up while it delivers what has expired.  Time is unsigned and wraps.     *)
(***************************************************************************)
EXTENDS Integers, FiniteSets, FiniteSetsExt

CONSTANTS Node,              \* the memory of timer nodes
          TIME_NEAR_SHIFT,   \* 8
          TIME_LEVEL_SHIFT,  \* 6
          MaxTime            \* bound: the largest timeout, in ticks

Levels == 4
Bits == TIME_NEAR_SHIFT + Levels * TIME_LEVEL_SHIFT   \* of uint32_t

ASSUME TimerAssumption ==
    /\ TIME_NEAR_SHIFT \in Nat \ {0}
    /\ TIME_LEVEL_SHIFT \in Nat \ {0}
    /\ MaxTime \in 1..(2^(Bits - 1) - 1)     \* an int, as uint32_t

VARIABLES time,     \* T->time
          node,     \* where each node is linked
          expire,   \* its expiry
          at,       \* what the timer thread does: in "execute" and "shift" it holds
                    \* the lock
          shifted,  \* it has advanced the time in this timer_update
          left      \* history: ticks until the timer is due, -1 when it is late

wheel == <<time, node, expire, at, shifted, left>>

Free == [list |-> "none"]
Near(i) == [list |-> "near", idx |-> i]
Level(l, i) == [list |-> "level", level |-> l, idx |-> i]
Taken == [list |-> "taken"]     \* cut off by the timer thread, to be delivered

\* timer_create_timer, skynet_timer_init.
TimerInit ==
    /\ time = 0
    /\ node = [n \in Node |-> Free]
    /\ expire = [n \in Node |-> 0]
    /\ at = "sleep"
    /\ shifted = FALSE
    /\ left = [n \in Node |-> 0]
-----------------------------------------------------------------------------
\* t >> (TIME_NEAR_SHIFT + l*TIME_LEVEL_SHIFT).
Shifted(t, l) == t \div 2^(TIME_NEAR_SHIFT + l * TIME_LEVEL_SHIFT)
LevelIdx(t, l) == Shifted(t, l) % 2^TIME_LEVEL_SHIFT

\* Faulty variant: a node of the next block is linked one level too low.
add_node_low(e, t) ==
    IF Shifted(e, 0) = Shifted(t, 0) THEN Near(e % 2^TIME_NEAR_SHIFT)
    ELSE LET l == Min({k \in 0..2 : Shifted(e, k) - Shifted(t, k) <= 1} \cup {3})
         IN  Level(l, LevelIdx(e, l))

\* add_node: the lowest level at which expiry and time differ only below it.
add_node(e, t) ==
    IF Shifted(e, 0) = Shifted(t, 0) THEN Near(e % 2^TIME_NEAR_SHIFT)
    ELSE LET l == Min({k \in 0..2 : Shifted(e, k + 1) = Shifted(t, k + 1)} \cup {3})
         IN  Level(l, LevelIdx(e, l))

\* skynet_timeout with time > 0, timer_add.  (Others are answered at once.)
Timeout(n, d) ==
    LET e == (time + d) % 2^Bits
    IN  /\ at \in {"sleep", "deliver"}
        /\ node[n] = Free
        /\ expire' = [expire EXCEPT ![n] = e]
        /\ node' = [node EXCEPT ![n] = add_node(e, time)]
        /\ left' = [left EXCEPT ![n] = d]
        /\ UNCHANGED <<time, at, shifted>>
-----------------------------------------------------------------------------
\* The timer thread, timer_update.

\* The lock is taken.
Wake == /\ at = "sleep"
        /\ at' = "execute"
        /\ shifted' = FALSE
        /\ UNCHANGED <<time, node, expire, left>>

Now == {n \in Node : node[n] = Near(time % 2^TIME_NEAR_SHIFT)}

\* timer_execute, before and after the shift: the list of this tick is cut off and
\* the lock released; when the list is empty, the thread goes on.
Execute ==
    /\ at = "execute"
    /\ at' = IF Now # {} THEN "deliver" ELSE IF shifted THEN "sleep" ELSE "shift"
    /\ node' = [n \in Node |-> IF n \in Now THEN Taken ELSE node[n]]
    /\ UNCHANGED <<time, expire, shifted, left>>

\* dispatch_list: one message is pushed and its node freed; after the last one the
\* thread takes the lock again.
Deliver(n) ==
    /\ at = "deliver"
    /\ node[n] = Taken
    /\ node' = [node EXCEPT ![n] = Free]
    /\ at' = IF \E m \in Node \ {n} : node[m] = Taken THEN "deliver" ELSE "execute"
    /\ UNCHANGED <<time, expire, shifted, left>>

\* Faulty variant: nothing is moved when the time wraps.
MovedNoWrap(ct) ==
    IF ct % 2^TIME_NEAR_SHIFT # 0 \/ ct = 0 THEN {}
    ELSE LET l == Min({k \in 0..3 : LevelIdx(ct, k) # 0})
         IN  {n \in Node : node[n] = Level(l, LevelIdx(ct, l))}

\* The nodes that timer_shift moves: those of the lowest level that has come to a
\* new list, or the first list of the highest level.
Moved(ct) ==
    IF ct = 0 THEN {n \in Node : node[n] = Level(3, 0)}
    ELSE IF ct % 2^TIME_NEAR_SHIFT # 0 THEN {}
    ELSE LET l == Min({k \in 0..3 : LevelIdx(ct, k) # 0})
         IN  {n \in Node : node[n] = Level(l, LevelIdx(ct, l))}

\* timer_shift, move_list.
Shift ==
    LET ct == (time + 1) % 2^Bits
    IN  /\ at = "shift"
        /\ at' = "execute"
        /\ shifted' = TRUE
        /\ time' = ct
        /\ node' = [n \in Node |-> IF n \in Moved(ct) THEN add_node(expire[n], ct) ELSE node[n]]
        /\ left' = [n \in Node |-> IF node[n] = Free \/ left[n] < 0 THEN left[n] ELSE left[n] - 1]
        /\ UNCHANGED expire

TimerThread == Wake \/ Execute \/ (\E n \in Node : Deliver(n)) \/ Shift

TimerNext == TimerThread \/ \E n \in Node, d \in 1..MaxTime : Timeout(n, d)

TimerSpec == TimerInit /\ [][TimerNext]_wheel

\* The timer thread is never stopped.
FairSpec == TimerSpec /\ WF_wheel(TimerThread)
-----------------------------------------------------------------------------
\* A timer is delivered in the tick it was set for: never before, whatever lists it
\* was moved through, and never left behind in a list the time has passed, also
\* when it was set while the timer thread was delivering or when the time wraps.
OnTime ==
    \A n \in Node : /\ node[n] = Taken => left[n] = 0
                    /\ at = "sleep" /\ node[n] # Free => left[n] > 0

\* Every timer fires.
EveryTimerFires == \A n \in Node : node[n] # Free ~> node[n] = Free
=============================================================================
