--------------------------- MODULE HandleStorage ---------------------------
(***************************************************************************)
(* The table of services and their names (skynet_handle.c), on a node      *)
(* without harbor (config harbor = 0, so that a handle is its low bits).   *)
(* Every operation runs under the table's lock and is one step.  What a    *)
(* caller does before and after it holds the lock is a step of its own:    *)
(* skynet_context_new stores the handle it was given after the lock is     *)
(* released, and skynet_handle_retireall takes the lock slot by slot.      *)
(***************************************************************************)
EXTENDS Integers, FiniteSetsExt, SequencesExt

CONSTANTS Ctx,          \* the memory of service contexts
          Null,
          Name,         \* names, as numbers in the order of strcmp
          Launcher,     \* the threads that create services
          SLOT_SIZE,    \* DEFAULT_SLOT_SIZE, 4
          MASK,         \* HANDLE_MASK, 0xffffff
          MaxIndex      \* bound: no service is created beyond this handle_index

ASSUME HandleAssumption ==
    /\ Null \notin Ctx
    /\ Name \subseteq Nat
    /\ SLOT_SIZE \in Nat \ {0}
    /\ MASK \in Nat
    /\ MASK >= SLOT_SIZE
    /\ \E k \in 0..MASK : MASK + 1 = SLOT_SIZE * 2^k
    /\ MaxIndex \in Nat

VARIABLES slot,          \* the table
          slot_size,     \* its size, a power of two
          handle_index,
          handle,        \* ctx->handle, 0 until skynet_context_new stores it
          name,          \* the sorted array of names
          launching,     \* what each thread got from skynet_handle_register
          ra,            \* the locals of skynet_handle_retireall
          live,          \* history: the services launched and not retired
          due            \* history: the services that were there when ra's current
                         \* pass began, and are still there

vars == <<slot, slot_size, handle_index, handle, name, launching, ra, live, due>>

Handle == 0..MASK

\* skynet_handle_init.
Init ==
    /\ slot = [i \in 0..(SLOT_SIZE - 1) |-> Null]
    /\ slot_size = SLOT_SIZE
    /\ handle_index = 1
    /\ handle = [c \in Ctx |-> 0]
    /\ name = <<>>
    /\ launching = [t \in Launcher |-> [ctx |-> Null, handle |-> 0]]
    /\ ra = [at |-> "idle", i |-> 0, n |-> 0, handle |-> 0]
    /\ live = {}
    /\ due = {}

Registered == Range(slot) \ {Null}
-----------------------------------------------------------------------------
\* Faulty variants: the new slot is computed with the old size, or with the size
\* instead of the mask.
RehashOld(i) == handle[slot[i]] % slot_size

RehashOffByOne(i) == handle[slot[i]] % (2 * slot_size - 1)

\* Where the expansion puts the context of slot i.
Rehash(i) == handle[slot[i]] % (2 * slot_size)

\* The table twice the size.
Expand ==
    [k \in 0..(2 * slot_size - 1) |->
        LET from == {i \in DOMAIN slot : Rehash(i) = k}
        IN  IF from = {} THEN Null ELSE slot[Max(from)]]

\* The two assertions of the expansion.
ExpandAsserts ==
    /\ 2 * slot_size - 1 <= MASK
    /\ \A i, j \in DOMAIN slot : Rehash(i) = Rehash(j) => i = j

\* The handle the i-th try considers.
Candidate(i) == (i + handle_index) % (MASK + 1)

\* Faulty variant: the search takes the next handle, free or not.
FreeHandleNext(tbl, size) == Candidate(0)

\* The handle the search finds in a table with a free slot.
FreeHandle(tbl, size) ==
    LET free == {i \in 0..(size - 1) : tbl[Candidate(i) % size] = Null}
    IN  Candidate(Min(free))

\* A thread in skynet_context_new, with a new context.
MayRegister(t, c) ==
    /\ launching[t].ctx = Null
    /\ c \notin Registered
    /\ \A u \in Launcher : launching[u].ctx # c
    /\ handle_index <= MaxIndex

Full == Null \notin Range(slot)

\* skynet_handle_register, after skynet_context_new has set ctx->handle to 0.  The
\* program ends when an assertion fails.
Register(t, c) ==
    LET tbl == IF Full THEN Expand ELSE slot
        size == IF Full THEN 2 * slot_size ELSE slot_size
        h == FreeHandle(tbl, size)
    IN  /\ MayRegister(t, c)
        /\ Full => ExpandAsserts
        /\ handle' = [handle EXCEPT ![c] = 0]
        /\ slot' = [tbl EXCEPT ![h % size] = c]
        /\ slot_size' = size
        /\ handle_index' = h + 1
        /\ launching' = [launching EXCEPT ![t] = [ctx |-> c, handle |-> h]]
        /\ UNCHANGED <<name, ra, live, due>>

\* skynet_context_new stores the handle it was given.
SetHandle(t) ==
    /\ launching[t].ctx # Null
    /\ handle' = [handle EXCEPT ![launching[t].ctx] = launching[t].handle]
    /\ launching' = [launching EXCEPT ![t] = [ctx |-> Null, handle |-> 0]]
    /\ live' = live \cup {launching[t].ctx}
    /\ UNCHANGED <<slot, slot_size, handle_index, name, ra, due>>

\* skynet_handle_grab: the context of a handle.
Grab(h) == LET c == slot[h % slot_size]
           IN  IF c # Null /\ handle[c] = h THEN c ELSE Null

\* The loop over the names: those of other handles move up, in their order.
Kept(h) ==
    LET kept[i \in 0..Len(name)] ==
          IF i = 0 THEN <<>>
          ELSE IF name[i].handle = h THEN kept[i - 1]
          ELSE Append(kept[i - 1], name[i])
    IN  kept[Len(name)]

\* Faulty variant: the names of a retired service stay.
RetireKeepsNames(h) ==
    /\ slot' = [slot EXCEPT ![h % slot_size] = Null]
    /\ live' = live \ {Grab(h)}
    /\ due' = due \ {Grab(h)}
    /\ UNCHANGED name

\* The effect of skynet_handle_retire on the table and the names, for a handle
\* it finds.
Retire(h) ==
    /\ slot' = [slot EXCEPT ![h % slot_size] = Null]
    /\ live' = live \ {Grab(h)}
    /\ due' = due \ {Grab(h)}
    /\ name' = Kept(h)

\* skynet_handle_retire for EXIT, KILL and a failed launch, and a handle it finds.
HandleRetire(h) ==
    /\ Grab(h) # Null
    /\ Retire(h)
    /\ UNCHANGED <<slot_size, handle_index, handle, launching, ra>>
-----------------------------------------------------------------------------
\* The binary search of findname and _insert_name: the index (from 0) where the
\* name is, or before which it belongs.
BinarySearch(n) ==
    LET search[w \in (0..Len(name)) \X (-1..(Len(name) - 1))] ==
          LET begin == w[1]
              end == w[2]
              mid == (begin + end) \div 2
          IN  IF begin > end THEN [found |-> FALSE, at |-> begin]
              ELSE IF name[mid + 1].name = n THEN [found |-> TRUE, at |-> mid]
              ELSE IF name[mid + 1].name < n THEN search[<<mid + 1, end>>]
              ELSE search[<<begin, mid - 1>>]
    IN  search[<<0, Len(name) - 1>>]

\* skynet_handle_findname.
findname(n) == LET r == BinarySearch(n)
               IN  IF r.found THEN name[r.at + 1].handle ELSE 0

\* skynet_handle_namehandle for REG and NAME, for a name not in use.
NameHandle(h, n) ==
    LET r == BinarySearch(n)
    IN  /\ ~r.found
        /\ name' = InsertAt(name, r.at + 1, [name |-> n, handle |-> h])
        /\ UNCHANGED <<slot, slot_size, handle_index, handle, launching, ra, live, due>>
-----------------------------------------------------------------------------
\* skynet_handle_retireall, called by ABORT: a pass over the slots, repeated
\* until a pass has retired nothing.
BeginPass ==
    /\ ra' = [at |-> "scan", i |-> 0, n |-> 0, handle |-> 0]
    /\ due' = live
    /\ UNCHANGED <<slot, slot_size, handle_index, handle, name, launching, live>>

RetireAll == ra.at \in {"idle", "returned"} /\ BeginPass

NextPass == ra.at = "scan" /\ ra.i >= slot_size /\ ra.n > 0 /\ BeginPass

\* Faulty variant: the last slot is left out.
ReturnEarly ==
    /\ ra.at = "scan" /\ ra.i >= slot_size - 1
    /\ ra' = [ra EXCEPT !.at = "returned"]
    /\ UNCHANGED <<slot, slot_size, handle_index, handle, name, launching, live, due>>

Return ==
    /\ ra.at = "scan" /\ ra.i >= slot_size /\ ra.n = 0
    /\ ra' = [ra EXCEPT !.at = "returned"]
    /\ UNCHANGED <<slot, slot_size, handle_index, handle, name, launching, live, due>>

\* It reads the handle of a slot under the lock ...
ReadSlot ==
    /\ ra.at = "scan" /\ ra.i < slot_size
    /\ LET c == slot[ra.i]
           h == IF c = Null THEN 0 ELSE handle[c]
       IN  ra' = IF h = 0 THEN [ra EXCEPT !.i = @ + 1]
                          ELSE [ra EXCEPT !.at = "retire", !.handle = h]
    /\ UNCHANGED <<slot, slot_size, handle_index, handle, name, launching, live, due>>

\* ... and retires it after the lock was free.
RetireSlot ==
    /\ ra.at = "retire"
    /\ ra' = [ra EXCEPT !.at = "scan", !.i = @ + 1,
                        !.n = IF Grab(ra.handle) # Null THEN @ + 1 ELSE @]
    /\ IF Grab(ra.handle) # Null THEN Retire(ra.handle) 
       ELSE UNCHANGED <<slot, name, live, due>>
    /\ UNCHANGED <<slot_size, handle_index, handle, launching>>
-----------------------------------------------------------------------------
\* KILL and NAME refuse handle 0; EXIT and REG use the service's own handle.
Addressed == (Handle \ {0}) \cup {handle[c] : c \in live}

Next ==
    \/ \E t \in Launcher, c \in Ctx : Register(t, c)
    \/ \E t \in Launcher : SetHandle(t)
    \/ \E h \in Addressed : HandleRetire(h)
    \/ \E h \in Addressed, n \in Name : NameHandle(h, n)
    \/ RetireAll \/ NextPass \/ Return \/ ReadSlot \/ RetireSlot

Spec == Init /\ [][Next]_vars

\* No service is between skynet_handle_register and the storing of its handle.
Settled == \A t \in Launcher : launching[t].ctx = Null

\* The table is doubled at such moments only.  The code does not see to it when
\* several threads launch (AssertsHold); one thread alone does.
Doubling == slot_size' # slot_size => Settled
-----------------------------------------------------------------------------
\* A service that has been launched and not retired is found under its handle, so
\* no two share one: across expansions, and when the numbers start again at the
\* mask with slots still taken.
Findable == \A c \in live : Grab(handle[c]) = c

\* The assertions of the expansion hold (skynet_handle.c:55 and :60).
AssertsHold == Full /\ (\E t \in Launcher, c \in Ctx : MayRegister(t, c)) => ExpandAsserts

\* A name stays with its handle until that service is retired, and goes with it.  Said of
\* handles other than 0, which findname gives for no name.  A name that is given to a
\* handle after its service was retired is such a name too: nothing takes it away.
NamesFollowServices ==
    [][\A n \in Name, h \in Handle \ {0} : findname(n) = h =>
          findname(n)' = IF Grab(h) # Null /\ Grab(h)' = Null THEN 0 ELSE h]_vars

\* When retireall returns, every service that was there when its last pass began is
\* gone, though other threads launch and retire services and move the others to a larger
\* table meanwhile.  Except one whose handle is 0: the search gives it out when the
\* numbers start again (line 43 does not skip it), and the scan takes it for a slot
\* that is free (line 121), so that such a service is still there.
RetireAllComplete == ra.at = "returned" => \A c \in due : handle[c] = 0
=============================================================================
