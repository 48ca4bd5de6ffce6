------------------------------ MODULE RoomMgr ------------------------------
(***************************************************************************)
(* How a table is opened: the room_mgr service, where clients create and   *)
(* join rooms and a timer starts the full ones, the area_mgr service it    *)
(* asks for an area, and the area services, where the match begins.        *)
(*                                                                         *)
(* A step is what one coroutine of a service does between two yields.      *)
(* room_mgr yields in one place, the call of area_mgr in room:start(), and *)
(* handles other messages, and other ticks, while it waits.  The notices   *)
(* an area sends to the players' base_apps change nothing here.            *)
(***************************************************************************)
EXTENDS Naturals, Sequences, FiniteSets

CONSTANTS Id,           \* room ids, 1..999999 in the code
          IdTbl,        \* id_mgr.tbl as id_mgr:init fills it
          Account,      \* players
          Game,         \* what a client may send as game_id
          Area,         \* the game ids of area_list.lua
          None,         \* nil
          Seats,        \* players of a match, 4 in the code
          MaxPlayers,   \* bound: a room takes no more joins than this
          MaxMail,      \* bound: messages on their way to or from an area
          Tick          \* timer callbacks that may be running at the same time

ASSUME RoomMgrAssumption ==
    /\ None \notin Id
    /\ IdTbl \in Seq(Id)
    /\ \A i, j \in 1..Len(IdTbl) : IdTbl[i] = IdTbl[j] => i = j
    /\ Area \subseteq Game
    /\ Seats \in Nat /\ Seats > 1
    /\ MaxPlayers \in Nat /\ MaxMail \in Nat \ {0}

VARIABLES
    tbl,            \* id_mgr.tbl: the ids not yet given out
    game,           \* [Id -> Game]: room.game_id
    players,        \* [Id -> Seq(Account)]: room.player_list
    room_tbl,       \* SUBSET Id: rooms that can be joined
    player_2_room,  \* [Account -> Id or None]
    ready_tbl,      \* SUBSET Id: full rooms the timer will start
    tick,           \* [Tick -> TickState]: running check_ready coroutines
    create_room,    \* [Area -> Seq]: create_room messages on their way to an area, the
                    \* first of them in its hands when the area is in told
    told,           \* SUBSET Area: areas in the middle of create_room, where room_mgr has
                    \* been told and the match has still to begin
    room_begin,     \* [Area -> Seq(Id)]: room_begin messages on their way back
    matches,        \* [Id -> 0..2]: matches begun for the room (2: several)
    calm            \* history: so far every room was created with a game that has an
                    \* area, and check_ready was done before the next room filled up
                    \* and before the next tick

vars == <<tbl, game, players, room_tbl, player_2_room, ready_tbl, tick,
          create_room, told, room_begin, matches, calm>>
mailVars == <<create_room, told, room_begin, matches>>

\* A check_ready coroutine waits for area_mgr on behalf of room; todo is what
\* pairs() has still to deliver from the table it traverses, and live says that
\* this table is still self.ready_tbl.
TickState == [room : Id \cup {None}, todo : SUBSET Id, live : BOOLEAN]
Idle == [room |-> None, todo |-> {}, live |-> FALSE]
Waiting(k) == tick[k].room # None
Quiet == \A k \in Tick : ~Waiting(k)

Init ==
    /\ tbl = IdTbl
    /\ game = [id \in Id |-> None]
    /\ players = [id \in Id |-> <<>>]
    /\ room_tbl = {}
    /\ player_2_room = [a \in Account |-> None]
    /\ ready_tbl = {}
    /\ tick = [k \in Tick |-> Idle]
    /\ create_room = [g \in Area |-> <<>>]
    /\ told = {}
    /\ room_begin = [g \in Area |-> <<>>]
    /\ matches = [id \in Id |-> 0]
    /\ calm = TRUE
-----------------------------------------------------------------------------
\* Faulty variant of gen_id: the last id is left in the table.
gen_id_keeps(index) == [tbl EXCEPT ![index] = tbl[Len(tbl)]]

\* id_mgr:gen_id: the last id takes the place of the one given out.
gen_id(index) == SubSeq([tbl EXCEPT ![index] = tbl[Len(tbl)]], 1, Len(tbl) - 1)

\* CMD.create_room.  With no id left math.random raises an error.
CreateRoom(a, g) ==
    /\ tbl # <<>>
    /\ \E index \in 1..Len(tbl) :
         LET id == tbl[index]
         IN  /\ tbl' = gen_id(index)
             /\ game' = [game EXCEPT ![id] = g]
             /\ players' = [players EXCEPT ![id] = <<a>>]
             /\ room_tbl' = room_tbl \cup {id}
             /\ player_2_room' = [player_2_room EXCEPT ![a] = id]
    /\ calm' = (calm /\ g \in Area)
    /\ UNCHANGED <<ready_tbl, tick, mailVars>>

\* room_mgr:add_ready.  Lua leaves open what pairs() still delivers after a key
\* was added to the table under traversal: any of the other keys.
add_ready(id) ==
    /\ ready_tbl' = ready_tbl \cup {id}
    /\ \E rest \in [Tick -> SUBSET (ready_tbl \cup {id})] :
         tick' = [k \in Tick |-> IF tick[k].live
                                 THEN [tick[k] EXCEPT !.todo = rest[k] \ {tick[k].room}]
                                 ELSE tick[k]]

\* CMD.join_room: the player is added, whoever is there already; the room is
\* ready at the moment it has Seats players.  A closed room refuses.
JoinRoom(a, id) ==
    /\ id \in room_tbl
    /\ Len(players[id]) < MaxPlayers
    /\ players' = [players EXCEPT ![id] = Append(@, a)]
    /\ IF Len(players[id]) + 1 = Seats
       THEN add_ready(id) /\ calm' = (calm /\ Quiet)
       ELSE UNCHANGED <<ready_tbl, tick, calm>>
    /\ UNCHANGED <<tbl, game, room_tbl, player_2_room, mailVars>>

\* Faulty variant: the traversal stops after the first room.
CheckReadyOne(k) ==
    /\ ~Waiting(k)
    /\ \E id \in ready_tbl :
         tick' = [tick EXCEPT ![k] = [room |-> id, todo |-> {}, live |-> TRUE]]
    /\ calm' = (calm /\ Quiet)
    /\ UNCHANGED <<tbl, game, players, room_tbl, player_2_room, ready_tbl, mailVars>>

\* The timer runs check_ready, which returns at once if no room is ready, and
\* else begins to traverse ready_tbl: the first room asks for its area.
CheckReady(k) ==
    /\ ~Waiting(k)
    /\ \E id \in ready_tbl :
         tick' = [tick EXCEPT ![k] = [room |-> id, todo |-> ready_tbl \ {id}, live |-> TRUE]]
    /\ calm' = (calm /\ Quiet)
    /\ UNCHANGED <<tbl, game, players, room_tbl, player_2_room, ready_tbl, mailVars>>

\* Faulty variant: the list as it was before the last player joined.
packBefore(id) == [id |-> id, player_list |-> SubSeq(players[id], 1, Len(players[id]) - 1)]

\* room:pack.
pack(id) == [id |-> id, player_list |-> players[id]]

\* area_mgr:get_area finds the area of the room's game.
get_area(id) == game[id] \in Area

\* Faulty variant: ready_tbl is not replaced.
EndTraversalKeeps(k) ==
    /\ tick[k].todo = {}
    /\ tick' = [tick EXCEPT ![k] = Idle]
    /\ UNCHANGED ready_tbl

\* The end of check_ready: self.ready_tbl becomes a new table.
EndTraversal(k) ==
    /\ tick[k].todo = {}
    /\ ready_tbl' = {}
    /\ tick' = [j \in Tick |-> IF j = k THEN Idle ELSE [tick[j] EXCEPT !.live = FALSE]]

\* The traversal reaches another room, which asks for its area.
NextRoom(k) ==
    /\ \E id \in tick[k].todo :
         tick' = [tick EXCEPT ![k].room = id, ![k].todo = @ \ {id}]
    /\ UNCHANGED ready_tbl

\* area_mgr answers room:start() and has an area for the game: the area is told
\* to open the table.
StartRoom(k) ==
    LET id == tick[k].room
    IN  /\ Waiting(k)
        /\ get_area(id)
        /\ Len(create_room[game[id]]) < MaxMail
        /\ create_room' = [create_room EXCEPT ![game[id]] = Append(@, pack(id))]
        /\ EndTraversal(k) \/ NextRoom(k)
        /\ UNCHANGED <<tbl, game, players, room_tbl, player_2_room, told, room_begin, matches, calm>>

\* area_mgr has none: area.addr indexes nil, and the error ends check_ready
\* before it has replaced ready_tbl.
StartRoomFails(k) ==
    /\ Waiting(k)
    /\ ~get_area(tick[k].room)
    /\ tick' = [tick EXCEPT ![k] = Idle]
    /\ UNCHANGED <<tbl, game, players, room_tbl, player_2_room, ready_tbl, mailVars, calm>>
-----------------------------------------------------------------------------
\* Faulty variant: the area does not report back.
AreaCreateRoomSilent(g) ==
    /\ g \notin told
    /\ create_room[g] # <<>>
    /\ told' = told \cup {g}
    /\ UNCHANGED <<tbl, game, players, room_tbl, player_2_room, ready_tbl, tick, create_room,
                   room_begin, matches, calm>>

\* CMD.create_room of an area as far as M:begin: the room is made, the players'
\* base_apps are told, then room_mgr.  The match comes after that, in the same
\* handler, while room_mgr may handle the message on another thread.
AreaCreateRoom(g) ==
    /\ g \notin told
    /\ create_room[g] # <<>>
    /\ Len(room_begin[g]) < MaxMail
    /\ told' = told \cup {g}
    /\ room_begin' = [room_begin EXCEPT ![g] = Append(@, Head(create_room[g]).id)]
    /\ UNCHANGED <<tbl, game, players, room_tbl, player_2_room, ready_tbl, tick, create_room,
                   matches, calm>>

\* M:begin_match, the rest of the handler: the match is made, the cards are dealt and
\* sent to the player of every seat.  An empty seat is an error, and no match begins.
BeginMatch(g) ==
    LET info == Head(create_room[g])
    IN  /\ g \in told
        /\ told' = told \ {g}
        /\ create_room' = [create_room EXCEPT ![g] = Tail(@)]
        /\ matches' = IF Len(info.player_list) >= Seats
                      THEN [matches EXCEPT ![info.id] = IF @ = 2 THEN 2 ELSE @ + 1]
                      ELSE matches
        /\ UNCHANGED <<tbl, game, players, room_tbl, player_2_room, ready_tbl, tick, room_begin,
                       calm>>

\* Faulty variant: only the players who joined later are forgotten.
closeGuests(id) ==
    /\ room_tbl' = room_tbl \ {id}
    /\ player_2_room' = [a \in Account |->
            IF \E i \in 2..Len(players[id]) : players[id][i] = a THEN None ELSE player_2_room[a]]

\* room_mgr:close: the players of the room are in no room any more.
close(id) ==
    /\ room_tbl' = room_tbl \ {id}
    /\ player_2_room' = [a \in Account |->
            IF \E i \in 1..Len(players[id]) : players[id][i] = a THEN None ELSE player_2_room[a]]

\* CMD.room_begin.  For a room that is closed already, close indexes nil and
\* the message is lost in an error.
RoomBegin(g) ==
    LET id == Head(room_begin[g])
    IN  /\ room_begin[g] # <<>>
        /\ room_begin' = [room_begin EXCEPT ![g] = Tail(@)]
        /\ IF id \in room_tbl THEN close(id) ELSE UNCHANGED <<room_tbl, player_2_room>>
        /\ UNCHANGED <<tbl, game, players, ready_tbl, tick, create_room, told, matches, calm>>
-----------------------------------------------------------------------------
Next == \/ \E a \in Account : \/ \E g \in Game : CreateRoom(a, g)
                              \/ \E id \in Id : JoinRoom(a, id)
        \/ \E k \in Tick : CheckReady(k) \/ StartRoom(k) \/ StartRoomFails(k)
        \/ \E g \in Area : AreaCreateRoom(g) \/ BeginMatch(g) \/ RoomBegin(g)

Spec == Init /\ [][Next]_vars

\* The timer keeps firing, and every service handles the messages it gets.
Fairness == /\ \A k \in Tick : WF_vars(CheckReady(k) \/ StartRoom(k) \/ StartRoomFails(k))
            /\ \A g \in Area : /\ WF_vars(AreaCreateRoom(g) \/ BeginMatch(g))
                               /\ WF_vars(RoomBegin(g))

FairSpec == Spec /\ Fairness
-----------------------------------------------------------------------------
Info == [id : Id, player_list : Seq(Account)]

TypeOK ==
    /\ tbl \in Seq(Id)
    /\ game \in [Id -> Game \cup {None}]
    /\ players \in [Id -> Seq(Account)]
    /\ room_tbl \subseteq Id
    /\ player_2_room \in [Account -> Id \cup {None}]
    /\ ready_tbl \subseteq Id
    /\ tick \in [Tick -> TickState]
    /\ create_room \in [Area -> Seq(Info)]
    /\ told \subseteq Area
    /\ room_begin \in [Area -> Seq(Id)]
    /\ matches \in [Id -> 0..2]
    /\ calm \in BOOLEAN

\* An id is given out once: the ids left are distinct and no room ever had one.
FreshIds ==
    /\ \A i, j \in 1..Len(tbl) : tbl[i] = tbl[j] => i = j
    /\ \A i \in 1..Len(tbl) : players[tbl[i]] = <<>>

\* player_2_room never points to a room that is gone or that someone else owns,
\* though it is written by create and cleared by close, for other rooms too.
PlayerIndexSound ==
    \A a \in Account :
        player_2_room[a] # None => /\ player_2_room[a] \in room_tbl
                                   /\ Head(players[player_2_room[a]]) = a

\* An area has reported room id and is about to begin its match, which cannot fail: it
\* has a player for every seat.
AboutToBegin(id) ==
    \E g \in told : /\ Head(create_room[g]).id = id
                    /\ Len(Head(create_room[g]).player_list) >= Seats

\* A room that has been created and is closed again.
Closed(id) == players[id] # <<>> /\ id \notin room_tbl

\* A room disappears from room_mgr only when its match has begun, or when an area has
\* reported it (area/room.lua:35) and is just beginning the match, with all its players.
ClosedHasMatch == \A id \in Id : Closed(id) => matches[id] > 0 \/ AboutToBegin(id)

\* A room whose match has begun does not stay open to further players, and a room that
\* is closed, and so can no longer be joined, gets its match: the two happen on either
\* side of a message, in either order, and a room started twice is reported twice.
RoomBecomesMatch ==
    \A id \in Id : matches[id] > 0 \/ Closed(id) ~> matches[id] > 0 /\ Closed(id)

\* A room that is full is started by the timer, as long as check_ready comes to its
\* end before another room is ready.
FullRoomStarts == \A id \in Id : id \in ready_tbl ~> matches[id] > 0 \/ ~calm

\* Under the same condition one room is one match (area/room.lua:5), though a tick
\* starts several rooms and players go on joining a room that has been started.
StartedOnce == calm => \A id \in Id : matches[id] <= 1
=============================================================================
