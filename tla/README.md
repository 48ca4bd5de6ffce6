# Verification of slg_server

The repository is a card-game server (mahjong tables) written in Lua on top of
skynet, an actor runtime in C that the repository carries in `skynet/`. A service
is an actor with one mailbox. Worker threads take services that have messages from
a global queue and run their callback; a Lua service handles every message in a
coroutine of its own, which runs uninterrupted between two waits. Most of what can
go wrong in the game comes from what happens during such a wait, and most of what
can go wrong in the runtime from the short steps between two locks.

This directory holds TLA+ models of both, the TLC runs that check them on small
instances, and TLAPS proofs of what matters most for all instances. Every
definition is translated from the code; `PROJECT.json` gives its file and lines.

## 1. Inventory

### The runtime (`skynet/skynet-src`)

| part | state | operations | what is hard | correct if |
|---|---|---|---|---|
| message queues (`skynet_mq.c`) | ring buffer, `in_global`, `release` per service; global list | push, pop, mark, release, drop | a push at the moment the worker finds the queue empty; growth with a wrapped buffer | no queue is owned twice or lost; no message waits in a queue nobody looks at; the buffer is a sequence |
| contexts (`skynet_server.c`) | `ref`, `init`, callback | launch, send, dispatch, kill, exit | the last reference may be dropped by any thread; init may fail half way | the count is exact; nothing freed is used |
| handles (`skynet_handle.c`) | slot table, counter, sorted names | register, retire, retireall, grab, name, find | the counter wraps; the table doubles between the steps of others | every running service is found under its handle; names follow services |
| workers (`skynet_start.c`) | sleeping workers, weights | loop, wakeup | the lost wakeup; a busy service that keeps its worker | every service with messages gets its turn |
| timer (`skynet_timer.c`) | wheel of 5 arrays, 32-bit tick | add, tick, shift, execute | adding while the tick has released the lock; wrap of the tick | every timer fires, in its tick |
| sockets (`socket_server.c`, `skynet_socket.c`) | socket table, request pipe | accept, start, close, read, warn | requests race with the peer's close | see gate |
| sending (`socket_server.c`) | two lists, `dw_buffer`, `sending`, `dw_lock` per socket | send (direct or by request), write event, close, shutdown | workers write past the socket thread; the kernel takes parts of packets; the slot is used again | packets arrive whole and in order; a close sends the rest first; nothing that waits is forgotten |
| Lua service runtime (`lualib/skynet.lua`) | sessions, coroutines, watches, wakeup, error and fork queues | call, ret, response, sleep, wait, wakeup, fork, timeout, exit | coroutines resume each other inside suspend; errors leave several of them at once; a peer fails and exits | whoever waits is resumed, once, by what it waits for; every request is answered once |

### The gate and the game (`skynet/lualib/snax/gateserver.lua`, `service/`)

| part | state | operations | what is hard | correct if |
|---|---|---|---|---|
| gate | `connection`, `client_number` | open, accept, data, kick, close, error, warning | kicks, refusals, closes reported twice | the count is exact and within the limit |
| base_app | `clients`, `authed_fd`, players | open, login, room request, close | the login waits for the database while the socket closes | no closed connection stays authenticated; closed sockets are forgotten |
| login, base_app_mgr | accounts, table of base_apps | register, login, find a base_app, start | the port is open before base_app_mgr exists; stop and restart between memory and database | one record per account; no false refusal; addresses can be connected to |
| room_mgr, area_mgr, area | rooms, ready table, id table, matches | create, join, timer tick, start, begin, close | ticks overlap while they wait for area_mgr; one bad room stops a tick half way | a room is closed when and only when it becomes a match; one room is one match; the player index is sound; full rooms start |
| launcher, service_mgr | services being started | launch, query, remove | a start that fails while others wait for it | planned |
| mjlib | hands | win checks | boundaries of suits | planned |

Interactions: clients reach the socket thread, which posts socket messages to a
gate; the gate posts to its owner (login or base_app). login calls base_app_mgr,
which calls every base_app; a base_app calls room_mgr; room_mgr calls area_mgr and
sends to an area; the area sends to room_mgr and to the players' base_apps. All of
it goes through the mailboxes of the runtime. `PROJECT.json` lists every part, also
those left out, and the hazards with the line where each of them bites.

## 2. Modules

| module | models | extends or instantiates |
|---|---|---|
| `Mailbox` | abstract: what a service may rely on: messages in order, one callback at a time, nothing after it closed | |
| `Dispatch` | queues, contexts, workers; one step per critical section or atomic operation | `INSTANCE Mailbox` |
| `DispatchProofs` | type correctness, five safety theorems and the refinement of `Mailbox` | `Dispatch` |
| `Fifo` | abstract: a sequence | |
| `RingQueue` | the ring buffer of `skynet_mq.c` | `INSTANCE Fifo` |
| `RingQueueProofs` | RingQueue implements Fifo; when it warns of overload | `RingQueue` |
| `HandleStorage` | `skynet_handle.c`; what its callers do outside the lock is a step of its own | |
| `Timer` | `skynet_timer.c`, with unsigned time that wraps | |
| `TableProofs` | the theorems about handles, names and timers: two tables whose sizes are powers of two | `HandleStorage`, `Timer` |
| `Session` | `skynet.lua`: the coroutines and sessions of one service, and what its peers send | |
| `SessionProofs` | four safety theorems | `Session` |
| `SendBuffer` | sending on one slot of the socket table: worker threads, pipe, socket thread, kernel | |
| `SendBufferProofs` | four safety theorems | `SendBuffer` |
| `SocketGate` | an accepted connection in the socket thread, gateserver and gate | |
| `BaseApp` | base_app as the watchdog of that gate | `SocketGate` |
| `BaseAppProofs` | three safety theorems about gate and base_app | `BaseApp` |
| `Login` | login, base_app_mgr, start-up of the server | |
| `LoginProofs` | two safety theorems | `Login` |
| `RoomMgr` | room_mgr, area_mgr, opening of a table in an area | |
| `RoomMgrProofs` | four safety theorems | `RoomMgr` |
| `MC*` | constants for TLC | |

Variables carry the names of the C and Lua fields they stand for, actions those of
the functions. An action whose name starts like another's and which is described as
a "faulty variant" is not part of any specification: it is a plausible mistake in
that function, with which the property it is paired with in `PROJECT.json` fails.

**Dispatch.** `ContextNew` joins `skynet_handle_register` and `skynet_mq_create`
(`skynet_server.c:155` and `156`): between them nobody has been told the handle, and
`retireall`, which could find the context, does not touch its queue. Each thread is inside at most one runtime call (`call`, `arg`), and a
worker has the locals of `thread_worker` and `skynet_context_message_dispatch`
(`pc`, `q`, `nq`, `left`). A callback may send, launch, kill and return, in any
order and number. The refinement mapping to `Mailbox` takes `mq` for the box, the
workers in the callback of a service for those serving it, and a queue that is not
marked for release for open.

**RingQueue.** `Contents`, the messages from `head` on, is mapped to the sequence of
`Fifo`. `expand_queue` copies cell by cell as the code does.

**HandleStorage.** With `harbor = 0` a handle is its low bits. `SetHandle` is the
assignment of `ctx->handle` after `skynet_handle_register` has returned;
`skynet_handle_retireall` is a scan with one step for each lock. The number of handles is
the first size of the table times a power of two, as in the code (4 and 2^24); only then
does the table double without a remainder. The search does not skip 0 when the handles
start again, so that a service may get handle 0, for which `retireall` and `findname` have
another meaning; `RetireAllComplete` and `NamesFollowServices` except it and say so. `Settled` says that every context in the table
has its handle stored, `Doubling` that the table doubles at such moments only. The code
does not enforce it (see the findings); one launching thread does, for it stores the
handle before it registers again. `Kept` is the compaction of the names, `BinarySearch`
the loop shared by `findname` and `_insert_name`, over its window `begin`, `end`.

**Timer.** The lists are the place of each node. The widths of the wheel are
constants; `left`, a history variable, says how far away the expiry is, independent
of the wheel.

**SocketGate, BaseApp.** The mailboxes of gate and base_app and the pipe to the
socket thread are sequences. The coroutines of `login_mgr:auth` that wait for the
database are the sequence `loading`, whose elements continue in any order. Requests of a
client for its room look its player up and change nothing here, also when a client that
has not waited for its login makes them fail.

**Session.** The handlers of the service are arbitrary: the running coroutine takes
any of the calls of `skynet.lua` that it may. `suspend` and the functions it calls
resume other coroutines before they return; `phase` says which of them has control,
and `pending` how many suspends around it have `dispatch_error_queue` still to call.
An error leaves them all (`Raise`). A coroutine in the pool keeps what the code leaves
there (`session_coroutine_address`). Of the peers only the messages are modelled;
`owed` and `asked` are what they wait for. A request the service drops is answered as
`drop_message` does, with an error for session 0, which fails everything the sender waits
for here (`Drop`); the same error comes from a peer that has gone, for each message it
drops (`PeerDrop`), and goes at the exit to every service that is being called
(`OfCalled`). Assumed: an id is not used again before its
last use is over here, in the error queue or on the way (`Unused`), a token is woken once for each sleep, a handler that
returns has answered its request or left the answer for later (the code logs "Maybe
forgot response" otherwise). `lost` records the requests that the code loses, both kinds reachable, and `Tracked`
excepts them. The first are dropped by `skynet.response` itself: a pooled coroutine that ends as a fork or a timeout counts `watching_service`
of its *last* request's source down once more, and a `skynet.response` that then finds
`nil` raises after it has cleared the session. The second are requests taken after
`skynet.exit`: the worker does not look whether the service has retired between two
messages of its batch (`skynet_server.c:316`), so a request behind the message that
exits is still dispatched, and if its handler yields nobody answers it. Named bound
(`Starting`): handlers that run after an exit start no coroutine and no timer.

**SendBuffer.** A list is the sequence of the parts still to be written, `stream` what
the kernel has taken. A worker's reads in `can_direct_write` are two steps (lists and
`dw_buffer`; then `sending` and `type`), taken first without and then with the lock, and
`socket_trylock` is a step of its own between them;
the socket thread appends and counts down in two steps without the lock; `force_close`
frees the lists in one step and takes the lock in another, as the code does. Memory is
read in program order, which the code does not enforce. `Reopen` gives the slot to the
next id; it is assumed not to happen between the two reads with the lock, for which
65536 ids would have to be given out in between; without the assumption the packet would
go to the new connection. It joins `reserve_id` and `new_fd`, which `report_accept` calls
one after the other before anybody knows the new id. `since` and `given`, history variables, are the number of
packets the owner had sent when the slot was opened and when it closed it. `cut`, a history variable, says that
`force_close` has thrown away the rest of a packet: until it has the lock, a worker may
still write behind the torn packet, and `WholePackets` excepts that.

**Login.** `stage`, `base_app_tbl` and `listening` say how far the start has come.
A request sent to the name of base_app_mgr before the name is known waits in the
harbor service (`NameKnown`), as `remote_send_name` does. A traversal by `pairs` to
whose table a key is added delivers any of the remaining keys, since Lua leaves it
open. `Stop` keeps only the database.

**RoomMgr.** An area handles `create_room` in two steps: `AreaCreateRoom` reports to
room_mgr (`area/room.lua:35`), `BeginMatch` makes the match (lines 37 to 43). `told` are the
areas between the two, while room_mgr on another thread may already close the room.
`BeginMatch` fails, as the dealing in `match.lua` does, for a list with an empty seat; no
such list is ever sent, which `ClosedHasMatch` needs. A tick is a coroutine of `check_ready`, waiting in the call of
area_mgr. `live` records whether it still traverses the current `ready_tbl`: the
end of another tick replaces that table. `calm`, a history variable, says that up to
now no game was without an area and no room became ready and no tick fired while a
tick was waiting. The code relies on it: without it a full room may be dropped with
the old table, or started at every tick.

## 3. Runs

| run | instance | shows |
|---|---|---|
| `dispatch` | 2 workers, a bootstrap service and one that is launched and killed, queues up to 2 | `OneOwner`, `NoLostQueue`, `NoLostMessage`, `RefExact`, `NoDanglingPointer`; refines `Mailbox` |
| `dispatch_turns` | 1 worker and a socket thread, fair | `Served`: no service starves; `Freed`: the queue of a deleted service is freed |
| `ring` | capacity 2 to 8, 2 messages | refines `Fifo`; `WarningsDouble` |
| `handles` | 3 contexts, 2 names, 1 launcher, table 2 to 4, handles that wrap | `Findable`, `AssertsHold`; `RetireAllComplete`, `NamesFollowServices` for handles other than 0 |
| `handles_expand` | 2 launchers | **violated**: `AssertsHold` |
| `timer` | 2 timers, time of 5 bits, timeouts to 15 | `OnTime`, `EveryTimerFires` |
| `base_app` | 2 connections, room for 1, 2 events each | `GateCount`, `ClientsNotOver`, `AuthedIsOpen`, `ClosedForgotten` (by the gate's tables and `authed_fd`; `player_tbl` and `fd_2_player` keep their entries, since nothing removes a player) |
| `login` | 2 clients, 1 account with 2 passwords, 2 base_apps, 1 restart | `OneRecord`, `FullOnlyIfFull`, `RequestEnds`, `AddressOpens` |
| `rooms` | 2 rooms, 2 players, 2 seats, 2 overlapping ticks, a game without area | `FreshIds`, `PlayerIndexSound`, `ClosedHasMatch`, `RoomBecomesMatch` in every case; `StartedOnce`, `FullRoomStarts` while `calm` |
| `session` | 3 coroutines, 2 sessions, 1 peer with one request to answer and requests without answer, suspends nested once | `Drained`, `Resumable`, `AnsweredOnce`, `Tracked` (but for `lost`) |
| `send_buffer` | the owner sends 2 packets and another service 1, of 2 parts each, high or low; the kernel holds 1 part; the slot is used twice | `CountsExact`, `WholePackets`, `SenderOrder`, `Flushed`, `Flowing` |
| `send_halfclose` | the same | **violated**: `HalfCloseEnds` |

### Findings

- *An expansion loses a context* (`skynet_handle.c:59`). A context is in the table
  before its handle is stored. If another thread makes the table double in between,
  it is rehashed with handle 0, and the assertion fails or the context ends up in
  the wrong slot.
- *A half close that never ends* (`socket_server.c:931`). A service closes a socket
  while another has counted a packet in `sending` and its request is behind the one to
  close (base_app writes to a client that the gate kicks). The lists are empty, so the
  poll does not report the socket writable; it is half closed because of `sending`; the
  packet is then dropped, and nothing closes the socket before the peer does.

What the properties except is reachable too, and listed under the hazards, where those
without a property say which exception hides them. "reserve 0 for system", says
`skynet_handle.c:251`, but when the counter has passed the mask and slot 0 is free, the
next service on a node without harbor gets handle 0: `retireall` never retires it and
`KILL` refuses it (lines 43 and 121). "Each room is one match", says `area/room.lua:5`, but
when a room whose game has no area is full, `room:start()` raises in the middle of the tick
(`room_mgr/room.lua:37`), `ready_tbl` is not replaced, and the rooms before it are started
again at every tick, each time with another match; the test client creates its room without
a game (`test/client.lua:89`). Rooms that become ready while `check_ready` waits may be
dropped with the old table or visited twice (`room_mgr.lua:62`, `main.lua:11`); an open room's owner may have no entry in
`player_2_room` after another room has closed (`room_mgr.lua:35`); a name may be given to
a handle just retired and then stays for ever (`skynet_handle.c:235`); a direct write may
follow a torn packet when a socket is forced to close (`socket_server.c:403`);
`skynet.response` may lose a request (`skynet.lua:144`); after `skynet.exit`, an outer
suspend may resume a coroutine that answers once more, and a request later in the worker's
batch may never be answered (`skynet.lua:331`).

### Bounds

- Two workers and two services meet in every pair of critical sections of push, pop,
  retire, mark and release; a queue of two is the smallest with a message behind the
  one served. A third worker would add symmetric interleavings. `dispatch_turns` has one worker with weight -1: it
  does not show the batches of other weights, which only let a worker keep a queue longer.
- The ring is doubled twice, from every position of `head`.
- `MASK = 3` makes the handles wrap with slots taken, `SLOT_SIZE = 2` makes the table
  double. Handles and names are independent of their size beyond that.
- With shifts of 1 the wheel has all its five arrays, and the timeouts reach every
  level; the time wraps within the run.
- One place and two connections make the gate refuse; two events are a login and a
  request, or a warning.
- Seats are 2 instead of 4; the code compares with the number once. `MaxPlayers = 3`
  allows the join after the room is full. Two rooms are the least for a tick that
  stops half way.
- `MaxMail = 1` in `rooms`: a second message of the area adds nothing to safety, which
  is proved for every bound (section 4).
- Three coroutines are one that waits, one that runs and one that is started; two
  sessions let one coroutine's answer meet another's. `MaxDepth = 1` is one suspend
  inside another; `MaxWatch = 2` is a request with another unanswered.
- Three packets are two of one service, whose order counts, and one of another that
  comes between; a kernel that takes one part at a time cuts every packet. With
  `MaxSending = 1` the limit of `sending` is met. The second use of the slot meets
  requests and threads left over from the first.
- `Login` counts one client above the limit, which a base_app may do while the close
  of an old client is on its way. One account suffices: accounts do not interact.

### Fairness

- *Dispatch*: threads inside the runtime go on and callbacks return (a callback that
  loops is what `skynet_monitor.c` reports as an endless loop). Strong fairness of the
  return is needed since each send of a callback leads through other steps. The timer
  thread calls `wakeup` in every round, so `Wakeup` is weakly fair.
- *Timer*: the timer thread loops for ever.
- *SendBuffer*: worker threads in `socket_server_send` and the socket thread go on, and
  the peer reads what it is sent. It need not close.
- *BaseApp*, *Login*, *RoomMgr*: services handle the messages they have, which is what
  `Served` shows of the runtime; the timer of room_mgr is added with count -1, for ever
  (`room_mgr/main.lua:11`). Clients and the database are not assumed to do anything.

`CHECK_DEADLOCK FALSE` appears where the system may stop: when the bounded ids of the
rooms, the fds or the packets are used up, or the service has exited.

## 4. Proofs

| theorem | module | statement |
|---|---|---|
| `TypeCorrect` | `DispatchProofs` | `Spec => []TypeOK` |
| `OneOwnerAlways` | `DispatchProofs` | `Spec => []OneOwner` |
| `NoLostQueueAlways` | `DispatchProofs` | `Spec => []NoLostQueue` |
| `NoLostMessageAlways` | `DispatchProofs` | `Spec => []NoLostMessage` |
| `RefExactAlways` | `DispatchProofs` | `Spec => []RefExact` |
| `NoDanglingPointerAlways` | `DispatchProofs` | `Spec => []NoDanglingPointer` |
| `ImplementsMailbox` | `DispatchProofs` | `Spec => MailboxSpec` |
| `ImplementsFifo` | `RingQueueProofs` | `Spec => FifoSpec` |
| `OverloadWarnings` | `RingQueueProofs` | `Spec => WarningsDouble` |
| `ServicesFound` | `TableProofs` | `Spec /\ [][Doubling]_vars => []Findable` |
| `AllRetired` | `TableProofs` | `Spec /\ [][Doubling]_vars => []RetireAllComplete` |
| `NamesKept` | `TableProofs` | `Spec /\ [][Doubling]_vars => NamesFollowServices` |
| `OneAtATime` | `TableProofs` | with one launcher and no more contexts than handles, `Spec => [](AssertsHold /\ Findable /\ RetireAllComplete) /\ NamesFollowServices` |
| `TimersOnTime` | `TableProofs` | `TimerSpec => []OnTime` |
| `QueuesDrained` | `SessionProofs` | `Spec => []Drained` |
| `WaitersResumable` | `SessionProofs` | `Spec => []Resumable` |
| `AnsweredAtMostOnce` | `SessionProofs` | `Spec => []AnsweredOnce` |
| `RequestsTracked` | `SessionProofs` | `Spec => []Tracked` |
| `CountsAreExact` | `SendBufferProofs` | `Spec => []CountsExact` |
| `PacketsArriveWhole` | `SendBufferProofs` | `Spec => []WholePackets` |
| `SendersInOrder` | `SendBufferProofs` | `Spec => []SenderOrder` |
| `CloseFlushes` | `SendBufferProofs` | `Spec => []Flushed` |
| `AccountsUnique` | `LoginProofs` | `Spec => []OneRecord` |
| `RefusedOnlyIfFull` | `LoginProofs` | `Spec => []FullOnlyIfFull` |
| `GateCountAlways` | `BaseAppProofs` | `Spec => []GateCount` |
| `NeverOvercounted` | `BaseAppProofs` | `Spec => []ClientsNotOver` |
| `AuthedAlwaysOpen` | `BaseAppProofs` | `Spec => []AuthedIsOpen` |
| `PlayerIndex` | `RoomMgrProofs` | `Spec => []PlayerIndexSound` |
| `ClosedRooms` | `RoomMgrProofs` | `Spec => []ClosedHasMatch` |
| `IdsFresh` | `RoomMgrProofs` | `Spec => []FreshIds` |
| `OneMatch` | `RoomMgrProofs` | `Spec => []StartedOnce` |

They hold for all constants that satisfy the named `ASSUME` of their module. Every inductive invariant was checked with TLC on the instance of the
run first. Where an argument needs induction over numbers (a loop of the code, a power of
two), it takes the least number at which the claim fails (lemma `Least`, from the library's
`WFMin`), since the induction rules themselves cannot be instantiated; that 2^(k+1) is
twice 2^k is shown by counting subsets (`Pow`).

*Dispatch.* `TypeOK` alone is not inductive: an action that uses a worker's or
thread's pointer as an index needs to know that it is not `NULL` there. `Locals` adds
which pointers are set at which program point. The five safety invariants need each
other: a push may schedule a queue because nobody owns it, and nobody owns it because
it is neither scheduled nor marked (`NoLostQueue`); what a thread points to is not
freed because its reference is counted (`RefExact`). What joins them is `Lifecycle`: a
queue is marked exactly when its context is freed (`CtxMem`), a context that is not
initialised is being launched by one worker (`Launching`), a queue being drained is
marked (`Draining`), and one thread deletes a context, after the last reference is gone
(`Marking`). `RefExact` counts a set of holders; the proof shows that each step adds one
holder to it or removes one, by cardinality. In the refinement every step of `Dispatch`
is a delivery, a taking, a finish, a close or a discard of `Mailbox` at one service, or
leaves all boxes as they are; `OneOwner` gives that the service is served by nobody
else when a worker takes a message, and `Lifecycle` that a push goes to an open box.

*RingQueue.* The invariant `Ring` keeps both indices inside the buffer and the
capacity above one. With it, a push without expansion appends to `Contents`, a push
with expansion yields the same sequence from cell 0 (by `ModOnce`, what `%` computes
for the indices of the copy), and a pop takes the head. Every step is then a step of
`Fifo` or a stutter. For `WarningsDouble`, `ThresholdCovers` shows that the loop of
`skynet_mq_pop` ends with a threshold that is at least the length, however often it
doubles, and `Warned` that the last length reported is at most the threshold.

*HandleStorage.* `Inv` says that every slot holds a service under its own hash or a
context whose handle is still to be stored (`Placed`, `Launching`), that every service is
in its slot (`Living`), that the size divides the number of handles by a power of two
(`Sized`), and where retireall is: what its pass has to retire, services with handle 0 apart, is in no
slot it has passed (`Pass`). An expansion keeps this because `(h % 2n) % n = h % n`: two services that meet in
the larger table were in one slot before, and a service moves to its slot or `n` further
on, never back behind the scan. The search for a free handle succeeds since `n` tries reach
every slot, also across the wrap, for `n` divides the number of handles. Registering,
storing, retiring and scanning are then shown one by one. The step that fails without
`Doubling` is the expansion with a context that has no handle: the finding of
`handles_expand`. `OneDoubles` derives `Doubling` for one launcher, and `RoomToDouble` that
the assertion on the size holds: a full table of the largest size would hold as many
services as there are handles, with another one at hand. For the names the invariant is
`Sorted`: `SearchRight` shows that the binary search, from every window, ends at the name or
at the place where it belongs, by the length of the window; `KeptIs` that the compaction
keeps exactly the entries of other handles, in order; `InsertIs` what an insertion yields.
`Lookup` follows: `findname` answers `h` exactly when the entry is there.

*Timer.* `left` counts down with the clock, so `time + left` is the due time as if the
clock had no width. `WheelInv` says (`InWheel`) where every linked node is: with the due
time `a`, in the near list `a % 2^8` if `a` and the time agree above the near bits, or on a
level `l` in the list of `a` where they agree above level `l` and `a` is ahead at `l`, by
less than a round. The stored expiry is `a` modulo the width, and has the same list.
`Prompt` says what the thread has still
to take in each phase. `AddNode` shows that `add_node` chooses such a place; `Tick` that a
tick carries into exactly the levels whose lower bits become 0, so that the list `Shift`
empties is the list of the nodes that now agree above that level (`Advance`,
`AdvanceWrap`); `DueNow` that the near list of the tick holds what is due, and all of it.
The argument needs timeouts below half the clock, which the code has because they are
positive `int`s.

*Session.* The invariant has three parts. `Shape` ties the tables of `skynet.lua` to each
other: one coroutine runs (`OneRuns`), no two coroutines wait under one session
(`Sessions`), and `sleep_session` and `watching_session` say how each of them waits
(`Kinds`); a wakeup and a failed call can then not resume the same coroutine. It holds
after an exit too. `RequestInv` says that a request is in one place only and the peer
still waits for it (`OnePlace`), which makes an answer the only one; it is claimed for
peers that are alive and until the exit, after which a coroutine may hold a request that
`skynet.exit` has answered. `QueueInv`, until the exit, says that who stands in a queue
waits and stands there once, that what control has passed is worked off (`WorkedOff`: no
wakeup is left when `dispatch_error_queue` begins, and after a failure a fork is left to
go on), and that what a waiting coroutine waits for is still to come (`Expecting`). A
popped message answers one session at most, and that session's coroutine is resumed or
queued. The proof assumes that `SessionId` is finite, for the error queue lists all
calls to a peer that has gone, and that 0 is none of them, as
`skynet_context_newsession` ensures.

*SendBuffer.* The proof looks at one sequence, `All`: what was written, then `dw_buffer`,
the high list and the low list. A write event moves the border between written and
unwritten and nothing else (`Wrote`), also when `raise_uncomplete` moves the rest of a
packet between the lists. A packet is only ever inserted into `All`, at the border of two
packets, because `dw_buffer` is empty and the high list begins with a first part while a
worker is about to write (`Thread`): `All` stays a sequence of whole packets (`Packets`),
and the properties of `stream` follow since it is a prefix. Order needs where each packet
of a sender is: in `All`, in the pipe behind it (`Behind`, `Later`), or in the sender's
hands, as its last (`Handed`). A worker that has found `sending` to be 0 has nothing in the
pipe (`NoneAsked`, from `SendingExact` and kept until it releases the lock, since the
sender itself is occupied), and one that has then found the lists empty has nothing there
(`NoneListed`): this is where the first, unlocked test is needed. `Closing` says where
each packet is that the owner gave before the close: in the pipe before the request to
close, or in `All`; with `nomore_sending_data`, or at the end of a half close, only
`stream` is left. Parts of packets, kernel, limit of `sending` and number of uses are
arbitrary; the set of senders is finite, as `sending` counts them.

*Login.* `OneRecord` says both that no account has two records and that `account_tbl`
holds exactly the records of the database and of the inserts on their way. The second
half is what makes the first inductive: `register` looks into memory only. `LoadAll`
shows that loading re-establishes it. `FullOnlyIfFull` needs `Sound` of each request (a
base_app that has had room all along is still to be asked, also when the traversal is
allowed to deliver the keys in any order) and `Startup` (a request that counts as late
finds all base_apps in the table).

*BaseApp.* `client_number` is exact because a connection is accepted once:
`AcceptedOnce` says that its acceptance is in at most one of the three queues, and once
there, and `Fresh` that nothing is said of a socket before it exists. `Covered` says that
the end of a connection the gate has forgotten is *behind* every packet of it in
base_app's mailbox, which is why a login cannot authenticate a connection whose end has
been handled already. `CountedClients` bounds `clients` by the connections whose
acceptance is no longer on its way. The set of connections need
not be finite; that the known ones are is part of the invariant.

*RoomMgr.* `Inv` joins the type, the three properties and what they need. `Owned`: an
open room has players, so that its first player, the owner, does not change when others
join. `ReportedBegun`: an area reports only rooms whose match has begun or is just
beginning, which carries `ClosedHasMatch` across the message. For the match not to fail
after the report, `FullRooms` and `FullMail` follow the list from the ready table through
the tick to the area: it has a player for every seat all the way; `InHand` keeps the
message an area is handling first in its mailbox. `PlayerIndexSound` is
preserved by `close` because the owner is among the players whose entry is cleared,
and by `CreateRoom` because `FreshIds` says that the new room replaces none.
`StartedOnce` is proved from `calm => Calm`: while `calm` holds at most one tick is
waiting (`OneTick`), and `Stages` says where each room is: to be started, in a message
to an area, or begun; a room is in one stage only.

Only model-checked: everything under fairness (`Served`, `Freed`, `EveryTimerFires`,
`ClosedForgotten`, `RequestEnds`, `AddressOpens`, `RoomBecomesMatch`, `FullRoomStarts`,
`Flowing`), since neither fairness nor `ENABLED` is in the prover's reach. Every invariant
and every action property of a passing run is proved. `TypeOK` of `Dispatch`, `Session`, `SendBuffer`, `RoomMgr`, `Login` and
`BaseApp` is proved and therefore in no run.

## 5. Not modelled

Of harbor only the queue for unknown names is modelled (in `Login`): the server is one
node. Cluster, multicast, sharedata and datacenter are not used by the server. The `service/player_mgr` service does not parse, `service/room` is a
stub and neither is started; the HTTP services are an earlier form of login. Loading
of scripts, logging, environment and memory accounting are I/O. `3rd/`, `skynet/3rd`,
sproto and the protobuf binding are libraries. `timer_mgr`, which room_mgr
uses, is not in the repository: its callbacks are taken to fire for ever, each in a
coroutine of its own, whether or not an earlier one has failed or still waits. The
database is external: `DbFind`,
`Insert` and the loading of accounts are modelled from how the services use it.
UDP, outgoing connections and name lookup of `socket_server.c` are left out: the server
only accepts TCP clients (its database driver connects through the same lists). Tracing,
protocol tables and the debug interface of `skynet.lua` do not touch sessions.

Launcher and service_mgr, the mahjong library and the forwarding of room requests by
base_app could be modelled and are in the plan.

## 6. Plan

The order is by importance: what all services rest on first, then the services that
hold the game's state, then the algorithms.

1. Done: `Dispatch` with `Mailbox`, `RingQueue` with `Fifo`, `HandleStorage`, `Timer`,
   `Session`, `SendBuffer`, `SocketGate` and `BaseApp`, `Login`, `RoomMgr`; the proofs
   above.
2. The dealing of `area/match.lua`, and the composition of BaseApp and RoomMgr: what a
   client is told by `room.join_room`, whose answer base_app does not look at.
3. `HuLib`: the win checks of `mjlib` as recursive operators against a reference
   definition, on short suits; TLC only.
4. Launcher and service_mgr; the monitor, as part of Dispatch.
