---------------------------- MODULE RoomMgrProofs ----------------------------
(***************************************************************************)
(* Theorems about RoomMgr, for any set of rooms, players and areas, any    *)
(* number of timer callbacks at a time and any number of seats.            *)
(***************************************************************************)
EXTENDS RoomMgr, SequenceTheorems, TLAPS

\* A room that can be joined has an owner.
Owned == \A id \in room_tbl : players[id] # <<>>

\* The tick has room id in its hands or still to visit.
InTick(k, id) == id = tick[k].room \/ id \in tick[k].todo

\* A room has a player for every seat from the moment it is ready: while it waits for a
\* tick, while a tick carries it, and on its way to an area.
Full(id) == Len(players[id]) >= Seats
FullRooms ==
    /\ \A id \in ready_tbl : Full(id)
    /\ \A k \in Tick : \A id \in Id : InTick(k, id) => Full(id)
FullMail ==
    \A g \in Area : \A i \in 1..Len(create_room[g]) : Len(create_room[g][i].player_list) >= Seats

\* The message an area is handling is still there.
InHand == told \subseteq Area /\ \A g \in told : create_room[g] # <<>>

\* The match of room id has begun, or an area that has reported it is at it.
BegunOrAbout(id) == matches[id] > 0 \/ AboutToBegin(id)

\* What room_mgr is told is so.
Reported(g, id) == \E i \in 1..Len(room_begin[g]) : room_begin[g][i] = id
ReportedBegun == \A g \in Area : \A id \in Id : Reported(g, id) => BegunOrAbout(id)

Inv == /\ TypeOK
       /\ FreshIds
       /\ Owned
       /\ PlayerIndexSound
       /\ FullRooms
       /\ FullMail
       /\ InHand
       /\ ReportedBegun
       /\ ClosedHasMatch

\* What id_mgr:gen_id leaves in the table: the other ids, each once.
LEMMA GenId == ASSUME NEW index \in 1..Len(tbl), tbl \in Seq(Id),
                      \A i, j \in 1..Len(tbl) : tbl[i] = tbl[j] => i = j
               PROVE  /\ gen_id(index) \in Seq(Id)
                      /\ Len(gen_id(index)) = Len(tbl) - 1
                      /\ \A i \in 1..Len(gen_id(index)) :
                            /\ gen_id(index)[i] # tbl[index]
                            /\ \E j \in 1..Len(tbl) : gen_id(index)[i] = tbl[j]
                      /\ \A i, j \in 1..Len(gen_id(index)) :
                            gen_id(index)[i] = gen_id(index)[j] => i = j
<1> DEFINE t == [tbl EXCEPT ![index] = tbl[Len(tbl)]]
           n == Len(tbl)
<1>1. n \in Nat /\ n > 0 /\ tbl \in [1..n -> Id]
  OBVIOUS
<1>2. t \in [1..n -> Id]
  BY <1>1
<1>3. t \in Seq(Id) /\ Len(t) = n
  BY <1>1, <1>2
<1>4. \A i \in 1..n : t[i] = IF i = index THEN tbl[n] ELSE tbl[i]
  BY <1>1
<1>5. gen_id(index) = SubSeq(t, 1, n - 1)
  BY DEF gen_id
<1> HIDE DEF t
<1>6. /\ SubSeq(t, 1, n - 1) \in Seq(Id)
      /\ Len(SubSeq(t, 1, n - 1)) = n - 1
      /\ \A i \in 1..(n - 1) : SubSeq(t, 1, n - 1)[i] = t[i]
  BY <1>1, <1>3
<1>7. \A i \in 1..(n - 1) : gen_id(index)[i] = IF i = index THEN tbl[n] ELSE tbl[i]
  BY <1>1, <1>4, <1>5, <1>6
<1> HIDE DEF n
<1>8. \A i, j \in 1..n : tbl[i] = tbl[j] => i = j
  BY DEF n
<1>9. index \in 1..n
  BY DEF n
<1>10. \A i \in 1..(n - 1) : gen_id(index)[i] # tbl[index]
  BY <1>1, <1>7, <1>8, <1>9
<1>11. \A i \in 1..(n - 1) : \E j \in 1..n : gen_id(index)[i] = tbl[j]
  BY <1>1, <1>7
<1>12. \A i, j \in 1..(n - 1) : gen_id(index)[i] = gen_id(index)[j] => i = j
  BY <1>1, <1>7, <1>8
<1> QED
  BY <1>5, <1>6, <1>10, <1>11, <1>12 DEF n

LEMMA InvInit == Init => Inv
<1> SUFFICES ASSUME Init PROVE Inv
  OBVIOUS
<1> USE RoomMgrAssumption DEF Init
<1>1. TypeOK
  BY DEF TypeOK, TickState, Idle
<1>2. FreshIds
  BY DEF FreshIds
<1>3. Owned /\ PlayerIndexSound /\ ClosedHasMatch
  BY DEF Owned, PlayerIndexSound, ClosedHasMatch, Closed
<1>5. FullRooms /\ FullMail /\ InHand
  BY DEF FullRooms, FullMail, InHand, InTick, Idle
<1>4. ReportedBegun
  BY DEF ReportedBegun, Reported
<1> QED
  BY <1>1, <1>2, <1>3, <1>4, <1>5 DEF Inv

\* What is said of a room is kept by a step that begins no match.
LEMMA AboutSame == ASSUME UNCHANGED <<create_room, told, matches>>
                   PROVE  \A id \in Id : BegunOrAbout(id)' = BegunOrAbout(id)
BY DEF BegunOrAbout, AboutToBegin

\* Creating a room takes an id no room has had.
LEMMA CreateRoomInv == ASSUME Inv, NEW a \in Account, NEW g \in Game, CreateRoom(a, g)
                       PROVE  Inv'
<1>1. PICK index \in 1..Len(tbl) :
        /\ tbl' = gen_id(index)
        /\ game' = [game EXCEPT ![tbl[index]] = g]
        /\ players' = [players EXCEPT ![tbl[index]] = <<a>>]
        /\ room_tbl' = room_tbl \cup {tbl[index]}
        /\ player_2_room' = [player_2_room EXCEPT ![a] = tbl[index]]
  BY DEF CreateRoom
<1>2. UNCHANGED <<ready_tbl, tick, create_room, told, room_begin, matches>>
  BY DEF CreateRoom, mailVars
<1>c. calm' \in BOOLEAN
  BY Zenon DEF CreateRoom
<1> DEFINE id == tbl[index]
<1>3. id \in Id /\ tbl \in Seq(Id) /\ players[id] = <<>>
  BY DEF Inv, TypeOK, FreshIds
<1>4. id \notin room_tbl
  BY <1>3 DEF Inv, Owned
<1>5. /\ tbl' \in Seq(Id)
      /\ \A i \in 1..Len(tbl') : tbl'[i] # id /\ \E j \in 1..Len(tbl) : tbl'[i] = tbl[j]
      /\ \A i, j \in 1..Len(tbl') : tbl'[i] = tbl'[j] => i = j
  <2>1. \A i, j \in 1..Len(tbl) : tbl[i] = tbl[j] => i = j
    BY DEF Inv, FreshIds
  <2>2. /\ gen_id(index) \in Seq(Id)
        /\ \A i \in 1..Len(gen_id(index)) :
              /\ gen_id(index)[i] # tbl[index]
              /\ \E j \in 1..Len(tbl) : gen_id(index)[i] = tbl[j]
        /\ \A i, j \in 1..Len(gen_id(index)) : gen_id(index)[i] = gen_id(index)[j] => i = j
    BY <1>3, <2>1, GenId
  <2>3. tbl' = gen_id(index)
    BY <1>1
  <2> HIDE DEF id
  <2>4. id = tbl[index]
    BY DEF id
  <2> QED
    BY <2>2, <2>3, <2>4
<1> HIDE DEF id
<1>6. /\ players' = [players EXCEPT ![id] = <<a>>]
      /\ room_tbl' = room_tbl \cup {id}
      /\ player_2_room' = [player_2_room EXCEPT ![a] = id]
      /\ game' = [game EXCEPT ![id] = g]
  BY <1>1 DEF id
<1>7. players \in [Id -> Seq(Account)] /\ player_2_room \in [Account -> Id \cup {None}] /\ room_tbl \subseteq Id
  BY DEF Inv, TypeOK
<1>8. <<a>> \in Seq(Account) /\ <<a>> # <<>> /\ Head(<<a>>) = a
  OBVIOUS
<1>9. players'[id] = <<a>> /\ \A x \in Id \ {id} : players'[x] = players[x]
  BY <1>3, <1>6, <1>7
<1>10. TypeOK'
  <2>1. players' \in [Id -> Seq(Account)]
    BY <1>3, <1>6, <1>7, <1>8
  <2>2. game' \in [Id -> Game \cup {None}]
    BY <1>3, <1>6 DEF Inv, TypeOK
  <2>3. room_tbl' \subseteq Id /\ player_2_room' \in [Account -> Id \cup {None}]
    BY <1>3, <1>6, <1>7
  <2> QED
    BY <1>2, <1>c, <1>5, <2>1, <2>2, <2>3 DEF Inv, TypeOK
<1>11. FreshIds'
  <2> SUFFICES ASSUME NEW i \in 1..Len(tbl') PROVE players'[tbl'[i]] = <<>>
    BY <1>5 DEF FreshIds
  <2>1. PICK j \in 1..Len(tbl) : tbl'[i] = tbl[j]
    BY <1>5
  <2>2. tbl'[i] \in Id \ {id}
    BY <1>3, <1>5, <2>1
  <2> QED
    BY <1>9, <2>1, <2>2 DEF Inv, FreshIds
<1>12. Owned'
  BY <1>6, <1>7, <1>8, <1>9 DEF Inv, Owned
<1>13. PlayerIndexSound'
  <2> SUFFICES ASSUME NEW b \in Account, player_2_room'[b] # None
               PROVE  player_2_room'[b] \in room_tbl' /\ Head(players'[player_2_room'[b]]) = b
    BY DEF PlayerIndexSound
  <2>1. CASE b = a
    BY <1>6, <1>7, <1>8, <1>9, <2>1
  <2>2. CASE b # a
    <3>1. player_2_room'[b] = player_2_room[b]
      BY <1>6, <1>7, <2>2
    <3>2. player_2_room[b] \in room_tbl /\ Head(players[player_2_room[b]]) = b
      BY <3>1 DEF Inv, PlayerIndexSound
    <3> QED
      BY <1>4, <1>6, <1>7, <1>9, <3>1, <3>2
  <2> QED
    BY <2>1, <2>2
<1>14. ReportedBegun' /\ FullMail' /\ InHand'
  BY <1>2, AboutSame DEF Inv, ReportedBegun, Reported, FullMail, InHand
<1>15. ClosedHasMatch'
  <2> SUFFICES ASSUME NEW x \in Id, Closed(x)' PROVE BegunOrAbout(x)'
    BY DEF ClosedHasMatch, BegunOrAbout
  <2>1. x # id /\ Closed(x)
    BY <1>6, <1>9 DEF Closed
  <2>2. BegunOrAbout(x)
    BY <2>1 DEF Inv, ClosedHasMatch, BegunOrAbout
  <2> QED
    BY <1>2, <2>2, AboutSame
<1>16. FullRooms'
  <2>1. \A x \in Id : Full(x) => x # id
    BY <1>3, RoomMgrAssumption DEF Full
  <2>2. \A x \in Id : Full(x) => Full(x)'
    BY <1>9, <2>1 DEF Full
  <2>3. ready_tbl \subseteq Id
    BY DEF Inv, TypeOK
  <2> QED
    BY <1>2, <2>2, <2>3 DEF Inv, FullRooms, InTick
<1> QED
  BY <1>10, <1>11, <1>12, <1>13, <1>14, <1>15, <1>16 DEF Inv

\* Joining leaves the owner where it is.
LEMMA JoinRoomInv == ASSUME Inv, NEW a \in Account, NEW id \in Id, JoinRoom(a, id)
                     PROVE  Inv'
<1>1. /\ id \in room_tbl
      /\ players' = [players EXCEPT ![id] = Append(@, a)]
      /\ UNCHANGED <<tbl, game, room_tbl, player_2_room, create_room, told, room_begin, matches>>
  BY DEF JoinRoom, mailVars
<1>c. calm' \in BOOLEAN
  BY Zenon DEF JoinRoom, Inv, TypeOK
<1>2. players \in [Id -> Seq(Account)] /\ room_tbl \subseteq Id /\ players[id] # <<>>
  BY <1>1 DEF Inv, TypeOK, Owned
<1>3. players'[id] = Append(players[id], a) /\ \A x \in Id \ {id} : players'[x] = players[x]
  BY <1>1, <1>2
<1>4. /\ Append(players[id], a) \in Seq(Account)
      /\ Append(players[id], a) # <<>>
      /\ Head(Append(players[id], a)) = Head(players[id])
  BY <1>2
<1>5. /\ ready_tbl' \subseteq Id /\ tick' \in [Tick -> TickState]
      /\ FullRooms'
  <2>a. \A x \in Id : Full(x) => Full(x)'
    <3>1. \A x \in Id : Len(players[x]) \in Nat
      BY <1>2
    <3>2. Len(players'[id]) = Len(players[id]) + 1
      BY <1>2, <1>3
    <3> QED
      BY <1>3, <3>1, <3>2, RoomMgrAssumption DEF Full
  <2>1. CASE add_ready(id) /\ Len(players[id]) + 1 = Seats
    <3>1. PICK rest \in [Tick -> SUBSET (ready_tbl \cup {id})] :
            tick' = [k \in Tick |-> IF tick[k].live
                                    THEN [tick[k] EXCEPT !.todo = rest[k] \ {tick[k].room}]
                                    ELSE tick[k]]
      BY <2>1 DEF add_ready
    <3>2. ready_tbl' = ready_tbl \cup {id} /\ ready_tbl \subseteq Id
      BY <2>1 DEF add_ready, Inv, TypeOK
    <3>3. ASSUME NEW k \in Tick
          PROVE  [tick[k] EXCEPT !.todo = rest[k] \ {tick[k].room}] \in TickState
      <4>1. tick[k] \in TickState
        BY <3>3 DEF Inv, TypeOK
      <4>2. rest[k] \subseteq ready_tbl \cup {id}
        BY <3>3
      <4> DEFINE left == rest[k] \ {tick[k].room}
      <4>3. left \in SUBSET Id
        BY <3>2, <4>2
      <4> HIDE DEF left
      <4>4. [tick[k] EXCEPT !.todo = left] \in TickState
        BY <4>1, <4>3 DEF TickState
      <4> QED
        BY <4>4 DEF left
    <3>4. tick \in [Tick -> TickState]
      BY DEF Inv, TypeOK
    <3>5. FullRooms'
      <4>1. Full(id)'
        BY <1>2, <1>3, <2>1, RoomMgrAssumption DEF Full
      <4>2. \A x \in ready_tbl' : Full(x)'
        BY <2>a, <3>2, <4>1 DEF Inv, FullRooms
      <4>3. ASSUME NEW k \in Tick, NEW x \in Id, InTick(k, x)' PROVE Full(x)'
        <5>1. PICK t \in TickState : t = tick[k]
          BY <3>4
        <5> DEFINE left == rest[k] \ {t.room}
        <5>2. left \subseteq ready_tbl'
          BY <3>1, <3>2
        <5> HIDE DEF left
        <5>3. [t EXCEPT !.todo = left].room = t.room /\ [t EXCEPT !.todo = left].todo = left
          BY <5>1 DEF TickState
        <5>4. tick'[k] = IF t.live THEN [t EXCEPT !.todo = left] ELSE t
          BY <3>1, <5>1 DEF left
        <5>5. InTick(k, x) \/ x \in left
          BY <4>3, <5>1, <5>3, <5>4 DEF InTick
        <5> QED
          BY <2>a, <4>2, <5>2, <5>5 DEF Inv, FullRooms
      <4> QED
        BY <4>2, <4>3 DEF FullRooms
    <3> QED
      BY <3>1, <3>2, <3>3, <3>4, <3>5
  <2>2. CASE UNCHANGED <<ready_tbl, tick>>
    BY <1>2, <2>a, <2>2 DEF Inv, TypeOK, FullRooms, InTick
  <2> QED
    BY <2>1, <2>2 DEF JoinRoom
<1>6. TypeOK'
  <2>1. players' \in [Id -> Seq(Account)]
    BY <1>1, <1>2, <1>4
  <2> QED
    BY <1>1, <1>c, <1>5, <2>1 DEF Inv, TypeOK
<1>7. FreshIds'
  <2>1. \A i \in 1..Len(tbl) : tbl[i] \in Id \ {id}
    BY <1>2 DEF Inv, TypeOK, FreshIds
  <2> QED
    BY <1>1, <1>3, <2>1 DEF Inv, FreshIds
<1>8. Owned'
  BY <1>1, <1>2, <1>3, <1>4 DEF Inv, Owned
<1>9. PlayerIndexSound'
  BY <1>1, <1>2, <1>3, <1>4 DEF Inv, PlayerIndexSound
<1>10. ReportedBegun' /\ FullMail' /\ InHand'
  BY <1>1, AboutSame DEF Inv, ReportedBegun, Reported, FullMail, InHand
<1>11. ClosedHasMatch'
  <2> SUFFICES ASSUME NEW x \in Id, Closed(x)' PROVE BegunOrAbout(x)'
    BY DEF ClosedHasMatch, BegunOrAbout
  <2>1. Closed(x)
    BY <1>1, <1>3 DEF Closed
  <2>2. BegunOrAbout(x)
    BY <2>1 DEF Inv, ClosedHasMatch, BegunOrAbout
  <2> QED
    BY <1>1, <2>2, AboutSame
<1> QED
  BY <1>5, <1>6, <1>7, <1>8, <1>9, <1>10, <1>11 DEF Inv

\* A tick carries rooms that were ready.
LEMMA TickRooms == ASSUME TypeOK, NEW k \in Tick, CheckReady(k) \/ StartRoom(k) \/ StartRoomFails(k)
                   PROVE  /\ ready_tbl' \subseteq ready_tbl
                          /\ \A j \in Tick : \A id \in Id :
                                InTick(j, id)' => id \in ready_tbl \/ InTick(j, id)
<1>1. tick \in [Tick -> TickState] /\ ready_tbl \subseteq Id
  BY DEF TypeOK
<1>2. \A id \in Id : id # Idle.room /\ id \notin Idle.todo
  BY RoomMgrAssumption DEF Idle
<1>3. CASE CheckReady(k)
  <2>1. PICK id \in ready_tbl :
          tick' = [tick EXCEPT ![k] = [room |-> id, todo |-> ready_tbl \ {id}, live |-> TRUE]]
    BY <1>3 DEF CheckReady
  <2>2. /\ tick'[k].room = id /\ tick'[k].todo = ready_tbl \ {id}
        /\ \A j \in Tick : j # k => tick'[j] = tick[j]
    BY <1>1, <2>1
  <2> QED
    BY <1>3, <2>2 DEF CheckReady, InTick
<1>4. CASE EndTraversal(k)
  <2>1. \A j \in Tick : tick'[j] = IF j = k THEN Idle ELSE [tick[j] EXCEPT !.live = FALSE]
    BY <1>4 DEF EndTraversal
  <2>2. \A t \in TickState : /\ [t EXCEPT !.live = FALSE].room = t.room
                             /\ [t EXCEPT !.live = FALSE].todo = t.todo
    BY DEF TickState
  <2> QED
    BY <1>1, <1>2, <1>4, <2>1, <2>2 DEF EndTraversal, InTick
<1>5. CASE NextRoom(k)
  <2>1. PICK n \in tick[k].todo : tick' = [tick EXCEPT ![k].room = n, ![k].todo = @ \ {n}]
    BY <1>5 DEF NextRoom
  <2>2. /\ tick'[k].room = n /\ tick'[k].todo = tick[k].todo \ {n}
        /\ \A j \in Tick : j # k => tick'[j] = tick[j]
    BY <1>1, <2>1 DEF TickState
  <2> QED
    BY <1>5, <2>1, <2>2 DEF NextRoom, InTick
<1>6. CASE StartRoomFails(k)
  <2>1. tick'[k] = Idle /\ \A j \in Tick : j # k => tick'[j] = tick[j]
    BY <1>1, <1>6 DEF StartRoomFails
  <2> QED
    BY <1>2, <1>6, <2>1 DEF StartRoomFails, InTick
<1> QED
  BY <1>3, <1>4, <1>5, <1>6 DEF StartRoom

\* Ticks change no room: they only send messages to the areas.
LEMMA TickInv == ASSUME Inv, NEW k \in Tick, CheckReady(k) \/ StartRoom(k) \/ StartRoomFails(k)
                 PROVE  Inv'
<1>1. UNCHANGED <<tbl, game, players, room_tbl, player_2_room, told, room_begin, matches>>
  BY DEF CheckReady, StartRoom, StartRoomFails, mailVars
<1>c. calm' \in BOOLEAN
  BY Zenon DEF CheckReady, StartRoom, StartRoomFails, Inv, TypeOK
<1>2. tick \in [Tick -> TickState] /\ ready_tbl \subseteq Id /\ create_room \in [Area -> Seq(Info)]
  BY DEF Inv, TypeOK
<1>3. Idle \in TickState
  BY DEF Idle, TickState
<1>4. ready_tbl' \subseteq Id /\ tick' \in [Tick -> TickState]
  <2>1. CASE CheckReady(k)
    <3>1. PICK id \in ready_tbl :
            tick' = [tick EXCEPT ![k] = [room |-> id, todo |-> ready_tbl \ {id}, live |-> TRUE]]
      BY <2>1 DEF CheckReady
    <3>2. [room |-> id, todo |-> ready_tbl \ {id}, live |-> TRUE] \in TickState
      BY <1>2 DEF TickState
    <3> QED
      BY <1>2, <2>1, <3>1, <3>2 DEF CheckReady
  <2>2. CASE StartRoom(k)
    <3>1. CASE EndTraversal(k)
      <4>1. \A j \in Tick : [tick[j] EXCEPT !.live = FALSE] \in TickState
        BY <1>2 DEF TickState
      <4> QED
        BY <1>3, <3>1, <4>1 DEF EndTraversal
    <3>2. CASE NextRoom(k)
      <4>1. PICK id \in tick[k].todo :
              tick' = [tick EXCEPT ![k].room = id, ![k].todo = @ \ {id}]
        BY <3>2 DEF NextRoom
      <4>2. tick[k] \in TickState /\ id \in Id
        BY <1>2 DEF TickState
      <4>3. [tick[k] EXCEPT !.room = id, !.todo = @ \ {id}] \in TickState
        BY <4>2 DEF TickState
      <4>4. tick' = [tick EXCEPT ![k] = [tick[k] EXCEPT !.room = id, !.todo = @ \ {id}]]
        BY <1>2, <4>1, <4>2 DEF TickState
      <4> QED
        BY <1>2, <3>2, <4>3, <4>4 DEF NextRoom
    <3> QED
      BY <2>2, <3>1, <3>2 DEF StartRoom
  <2>3. CASE StartRoomFails(k)
    BY <1>2, <1>3, <2>3 DEF StartRoomFails
  <2> QED
    BY <2>1, <2>2, <2>3
<1>5. create_room' \in [Area -> Seq(Info)]
  <2>1. CASE StartRoom(k)
    <3> DEFINE id == tick[k].room
               g == game[id]
    <3>1. id \in Id /\ g \in Area
      BY <1>2, <2>1 DEF StartRoom, Waiting, get_area, TickState
    <3>2. pack(id) \in Info
      BY <3>1 DEF pack, Info, Inv, TypeOK
    <3>3. create_room' = [create_room EXCEPT ![g] = Append(@, pack(id))]
      BY <2>1 DEF StartRoom
    <3> HIDE DEF id, g
    <3>4. Append(create_room[g], pack(id)) \in Seq(Info)
      BY <1>2, <3>1, <3>2
    <3> QED
      BY <1>2, <3>1, <3>3, <3>4
  <2>2. CASE CheckReady(k) \/ StartRoomFails(k)
    BY <1>2, <2>2 DEF CheckReady, StartRoomFails, mailVars
  <2> QED
    BY <2>1, <2>2
<1>6. TypeOK'
  BY <1>1, <1>c, <1>4, <1>5 DEF Inv, TypeOK
<1>7. (FreshIds /\ Owned /\ PlayerIndexSound)'
  BY <1>1 DEF Inv, FreshIds, Owned, PlayerIndexSound
<1>8. FullRooms'
  <2>1. \A id \in Id : Full(id)' = Full(id)
    BY <1>1 DEF Full
  <2>2. /\ ready_tbl' \subseteq ready_tbl
        /\ \A j \in Tick : \A id \in Id : InTick(j, id)' => id \in ready_tbl \/ InTick(j, id)
    BY TickRooms DEF Inv
  <2> QED
    BY <1>2, <2>1, <2>2 DEF Inv, FullRooms
<1>9. \/ UNCHANGED create_room
      \/ \E h \in Area : \E m \in Info : /\ Len(m.player_list) >= Seats
                                         /\ create_room' = [create_room EXCEPT ![h] = Append(@, m)]
  <2>1. CASE StartRoom(k)
    <3>1. PICK id \in Id : id = tick[k].room
      BY <1>2, <2>1 DEF StartRoom, Waiting, TickState
    <3>2. PICK h \in Area : h = game[id]
      BY <2>1, <3>1 DEF StartRoom, get_area
    <3>3. pack(id) \in Info /\ pack(id).player_list = players[id]
      BY <3>1 DEF pack, Info, Inv, TypeOK
    <3>4. Full(id)
      BY <3>1 DEF Inv, FullRooms, InTick
    <3>5. create_room' = [create_room EXCEPT ![h] = Append(@, pack(id))]
      BY <2>1, <3>1, <3>2 DEF StartRoom
    <3>6. Len(pack(id).player_list) >= Seats
      BY <3>3, <3>4 DEF Full
    <3> QED
      BY <3>3, <3>5, <3>6
  <2>2. CASE CheckReady(k) \/ StartRoomFails(k)
    BY <2>2 DEF CheckReady, StartRoomFails, mailVars
  <2> QED
    BY <2>1, <2>2
<1>10. FullMail' /\ InHand' /\ \A id \in Id : BegunOrAbout(id) => BegunOrAbout(id)'
  <2>1. CASE UNCHANGED create_room
    BY <1>1, <2>1, AboutSame DEF Inv, FullMail, InHand
  <2>2. ASSUME NEW h \in Area, NEW m \in Info, Len(m.player_list) >= Seats,
               create_room' = [create_room EXCEPT ![h] = Append(@, m)]
        PROVE  FullMail' /\ InHand' /\ \A id \in Id : BegunOrAbout(id) => BegunOrAbout(id)'
    <3>1. \A g \in Area : create_room'[g] = IF g = h THEN Append(create_room[h], m) ELSE create_room[g]
      BY <1>2, <2>2
    <3>2. \A q \in Seq(Info) : /\ Append(q, m) # <<>>
                               /\ q # <<>> => Head(Append(q, m)) = Head(q)
                               /\ Len(Append(q, m)) = Len(q) + 1
                               /\ \A i \in 1..Len(Append(q, m)) :
                                     \/ Append(q, m)[i] = m
                                     \/ i \in 1..Len(q) /\ Append(q, m)[i] = q[i]
      OBVIOUS
    <3>3. FullMail'
      <4> SUFFICES ASSUME NEW g \in Area, NEW i \in 1..Len(create_room'[g])
                   PROVE  Len(create_room'[g][i].player_list) >= Seats
        BY DEF FullMail
      <4>1. CASE g = h
        <5>1. PICK q \in Seq(Info) : q = create_room[h]
          BY <1>2
        <5>2. create_room'[g] = Append(q, m)
          BY <3>1, <4>1, <5>1
        <5>3. \/ create_room'[g][i] = m
              \/ i \in 1..Len(create_room[h]) /\ create_room'[g][i] = create_room[h][i]
          BY <3>2, <5>1, <5>2
        <5> QED
          BY <2>2, <5>3 DEF Inv, FullMail
      <4>2. CASE g # h
        BY <3>1, <4>2 DEF Inv, FullMail
      <4> QED
        BY <4>1, <4>2
    <3>4. InHand'
      BY <1>1, <1>2, <3>1, <3>2 DEF Inv, InHand
    <3>5. ASSUME NEW id \in Id, BegunOrAbout(id) PROVE BegunOrAbout(id)'
      <4>1. CASE matches[id] > 0
        BY <1>1, <4>1 DEF BegunOrAbout
      <4>2. CASE AboutToBegin(id)
        <5>1. PICK g \in told : /\ Head(create_room[g]).id = id
                               /\ Len(Head(create_room[g]).player_list) >= Seats
          BY <4>2 DEF AboutToBegin
        <5>2. g \in Area /\ create_room[g] # <<>>
          BY <5>1 DEF Inv, InHand
        <5>3. Head(create_room'[g]) = Head(create_room[g])
          BY <1>2, <3>1, <3>2, <5>2
        <5> QED
          BY <1>1, <5>1, <5>3 DEF BegunOrAbout, AboutToBegin
      <4> QED
        BY <3>5, <4>1, <4>2 DEF BegunOrAbout
    <3> QED
      BY <3>3, <3>4, <3>5
  <2> QED
    BY <1>9, <2>1, <2>2
<1>11. ReportedBegun'
  BY <1>1, <1>10 DEF Inv, ReportedBegun, Reported
<1>12. ClosedHasMatch'
  <2>1. \A id \in Id : Closed(id)' = Closed(id)
    BY <1>1 DEF Closed
  <2> QED
    BY <1>10, <2>1 DEF Inv, ClosedHasMatch, BegunOrAbout
<1> QED
  BY <1>6, <1>7, <1>8, <1>10, <1>11, <1>12 DEF Inv

\* An area reports a room when it has all its players, and is about to begin the match.
LEMMA AreaInv == ASSUME Inv, NEW g \in Area, AreaCreateRoom(g) PROVE Inv'
<1>1. /\ create_room[g] # <<>> /\ told' = told \cup {g}
      /\ UNCHANGED <<tbl, game, players, room_tbl, player_2_room, ready_tbl, tick, create_room,
                     matches, calm>>
  BY DEF AreaCreateRoom
<1>2. create_room \in [Area -> Seq(Info)] /\ room_begin \in [Area -> Seq(Id)] /\ told \subseteq Area
  BY DEF Inv, TypeOK
<1>3. PICK info \in Info : info = Head(create_room[g])
  BY <1>1, <1>2
<1>4. info.id \in Id
  BY DEF Info
<1>5. room_begin' = [room_begin EXCEPT ![g] = Append(@, info.id)]
  BY <1>3 DEF AreaCreateRoom
<1>6. Len(info.player_list) >= Seats
  <2>1. info = create_room[g][1] /\ 1 \in 1..Len(create_room[g])
    BY <1>1, <1>2, <1>3
  <2> QED
    BY <2>1 DEF Inv, FullMail
<1>7. BegunOrAbout(info.id)'
  <2>1. AboutToBegin(info.id)'
    BY <1>1, <1>3, <1>6 DEF AboutToBegin
  <2> QED
    BY <2>1 DEF BegunOrAbout
<1>8. \A id \in Id : BegunOrAbout(id) => BegunOrAbout(id)'
  BY <1>1 DEF BegunOrAbout, AboutToBegin
<1>9. TypeOK'
  <2>1. room_begin' \in [Area -> Seq(Id)]
    BY <1>2, <1>4, <1>5
  <2> QED
    BY <1>1, <1>2, <2>1 DEF Inv, TypeOK
<1>10. (FreshIds /\ Owned /\ PlayerIndexSound /\ FullRooms /\ FullMail /\ InHand)'
  BY <1>1 DEF Inv, FreshIds, Owned, PlayerIndexSound, FullRooms, Full, InTick, FullMail, InHand
<1>11. ReportedBegun'
  <2>1. ASSUME NEW h \in Area, NEW id \in Id, Reported(h, id)' PROVE Reported(h, id) \/ id = info.id
    <3>1. PICK i \in 1..Len(room_begin'[h]) : room_begin'[h][i] = id
      BY <2>1 DEF Reported
    <3>2. CASE h = g
      <4>1. room_begin[g] \in Seq(Id) /\ room_begin'[h] = Append(room_begin[g], info.id)
        BY <1>2, <1>5, <3>2
      <4>2. i \in 1..Len(room_begin[g]) \/ i = Len(room_begin[g]) + 1
        BY <1>4, <3>1, <4>1
      <4> QED
        BY <1>4, <3>1, <3>2, <4>1, <4>2 DEF Reported
    <3>3. CASE h # g
      BY <1>2, <1>5, <3>1, <3>3 DEF Reported
    <3> QED
      BY <3>2, <3>3
  <2> QED
    BY <1>7, <1>8, <2>1 DEF Inv, ReportedBegun
<1>12. ClosedHasMatch'
  <2>1. \A id \in Id : Closed(id)' = Closed(id)
    BY <1>1 DEF Closed
  <2> QED
    BY <1>8, <2>1 DEF Inv, ClosedHasMatch, BegunOrAbout
<1> QED
  BY <1>9, <1>10, <1>11, <1>12 DEF Inv

\* The match of a room the area has in hand begins.
LEMMA BeginMatchInv == ASSUME Inv, NEW g \in Area, BeginMatch(g) PROVE Inv'
<1>1. /\ g \in told /\ told' = told \ {g}
      /\ create_room' = [create_room EXCEPT ![g] = Tail(@)]
      /\ UNCHANGED <<tbl, game, players, room_tbl, player_2_room, ready_tbl, tick, room_begin, calm>>
  BY DEF BeginMatch
<1>2. create_room \in [Area -> Seq(Info)] /\ matches \in [Id -> 0..2] /\ told \subseteq Area
  BY DEF Inv, TypeOK
<1>3. create_room[g] # <<>>
  BY <1>1 DEF Inv, InHand
<1>4. PICK info \in Info : info = Head(create_room[g])
  BY <1>2, <1>3
<1>5. PICK id \in Id : id = info.id
  BY DEF Info
<1>6. Len(info.player_list) >= Seats
  <2>1. info = create_room[g][1] /\ 1 \in 1..Len(create_room[g])
    BY <1>2, <1>3, <1>4
  <2> QED
    BY <2>1 DEF Inv, FullMail
<1>7. PICK n \in 1..2 : matches' = [matches EXCEPT ![id] = n]
  <2>1. matches[id] \in 0..2
    BY <1>2
  <2>2. matches' = [matches EXCEPT ![id] = IF matches[id] = 2 THEN 2 ELSE matches[id] + 1]
    BY <1>4, <1>5, <1>6 DEF BeginMatch
  <2>3. (IF matches[id] = 2 THEN 2 ELSE matches[id] + 1) \in 1..2
    BY <2>1
  <2> QED
    BY <2>2, <2>3
<1>8. matches' \in [Id -> 0..2] /\ matches'[id] > 0 /\ \A x \in Id : matches[x] > 0 => matches'[x] > 0
  BY <1>2, <1>7
<1>9. /\ Tail(create_room[g]) \in Seq(Info)
      /\ \A i \in 1..Len(Tail(create_room[g])) :
            i + 1 \in 1..Len(create_room[g]) /\ Tail(create_room[g])[i] = create_room[g][i + 1]
      /\ create_room'[g] = Tail(create_room[g])
      /\ \A h \in Area : h # g => create_room'[h] = create_room[h]
  BY <1>1, <1>2, <1>3
<1>10. TypeOK'
  <2>1. create_room' \in [Area -> Seq(Info)]
    BY <1>1, <1>2, <1>9
  <2> QED
    BY <1>1, <1>2, <1>8, <2>1 DEF Inv, TypeOK
<1>11. (FreshIds /\ Owned /\ PlayerIndexSound /\ FullRooms)'
  BY <1>1 DEF Inv, FreshIds, Owned, PlayerIndexSound, FullRooms, Full, InTick
<1>12. FullMail'
  <2> SUFFICES ASSUME NEW h \in Area, NEW i \in 1..Len(create_room'[h])
               PROVE  Len(create_room'[h][i].player_list) >= Seats
    BY DEF FullMail
  <2>1. CASE h = g
    BY <1>9, <2>1 DEF Inv, FullMail
  <2>2. CASE h # g
    BY <1>9, <2>2 DEF Inv, FullMail
  <2> QED
    BY <2>1, <2>2
<1>13. InHand'
  BY <1>1, <1>2, <1>9 DEF Inv, InHand
<1>14. ASSUME NEW x \in Id, BegunOrAbout(x) PROVE BegunOrAbout(x)'
  <2>1. CASE matches[x] > 0
    BY <1>8, <2>1 DEF BegunOrAbout
  <2>2. CASE AboutToBegin(x)
    <3>1. PICK h \in told : /\ Head(create_room[h]).id = x
                           /\ Len(Head(create_room[h]).player_list) >= Seats
      BY <2>2 DEF AboutToBegin
    <3>2. CASE h = g
      BY <1>4, <1>5, <1>8, <3>1, <3>2 DEF BegunOrAbout
    <3>3. CASE h # g
      <4>1. h \in told' /\ create_room'[h] = create_room[h]
        BY <1>1, <1>2, <1>9, <3>3
      <4> QED
        BY <3>1, <4>1 DEF BegunOrAbout, AboutToBegin
    <3> QED
      BY <3>2, <3>3
  <2> QED
    BY <1>14, <2>1, <2>2 DEF BegunOrAbout
<1>15. ReportedBegun'
  BY <1>1, <1>14 DEF Inv, ReportedBegun, Reported
<1>16. ClosedHasMatch'
  <2>1. \A x \in Id : Closed(x)' = Closed(x)
    BY <1>1 DEF Closed
  <2> QED
    BY <1>14, <2>1 DEF Inv, ClosedHasMatch, BegunOrAbout
<1> QED
  BY <1>10, <1>11, <1>12, <1>13, <1>15, <1>16 DEF Inv

\* A room is closed when its match has begun, with all its players' entries.
LEMMA RoomBeginInv == ASSUME Inv, NEW g \in Area, RoomBegin(g) PROVE Inv'
<1> DEFINE id == Head(room_begin[g])
<1>1. /\ room_begin[g] # <<>>
      /\ room_begin' = [room_begin EXCEPT ![g] = Tail(@)]
      /\ (id \in room_tbl /\ close(id)) \/ UNCHANGED <<room_tbl, player_2_room>>
      /\ UNCHANGED <<tbl, game, players, ready_tbl, tick, create_room, told, matches, calm>>
  BY DEF RoomBegin
<1>2. /\ room_begin \in [Area -> Seq(Id)] /\ room_tbl \subseteq Id
      /\ players \in [Id -> Seq(Account)]
      /\ player_2_room \in [Account -> Id \cup {None}]
  BY DEF Inv, TypeOK
<1>3. id \in Id /\ Tail(room_begin[g]) \in Seq(Id) /\ BegunOrAbout(id)
  <2>1. id = room_begin[g][1] /\ 1 \in 1..Len(room_begin[g])
    BY <1>1, <1>2
  <2> QED
    BY <1>1, <1>2, <2>1 DEF Inv, ReportedBegun, Reported
<1> HIDE DEF id
<1>4. room_tbl' \subseteq room_tbl /\ room_tbl \ {id} \subseteq room_tbl'
  BY <1>1 DEF close
<1>5. \A a \in Account : player_2_room'[a] \in {player_2_room[a], None}
  BY <1>1, <1>2 DEF close
<1>6. TypeOK'
  <2>1. room_begin' \in [Area -> Seq(Id)]
    BY <1>1, <1>2, <1>3
  <2>2. player_2_room' \in [Account -> Id \cup {None}]
    BY <1>1, <1>2 DEF close
  <2> QED
    BY <1>1, <1>2, <1>4, <2>1, <2>2 DEF Inv, TypeOK
<1>7. (FreshIds /\ Owned)'
  BY <1>1, <1>4 DEF Inv, FreshIds, Owned
<1>8. PlayerIndexSound'
  <2>1. CASE UNCHANGED <<room_tbl, player_2_room>>
    BY <1>1, <2>1 DEF Inv, PlayerIndexSound
  <2>2. CASE id \in room_tbl /\ close(id)
    <3> SUFFICES ASSUME NEW a \in Account, player_2_room'[a] # None
                 PROVE  player_2_room'[a] \in room_tbl' /\ Head(players'[player_2_room'[a]]) = a
      BY DEF PlayerIndexSound
    <3>1. /\ ~\E i \in 1..Len(players[id]) : players[id][i] = a
          /\ player_2_room'[a] = player_2_room[a]
      BY <2>2 DEF close
    <3>2. player_2_room[a] \in room_tbl /\ Head(players[player_2_room[a]]) = a
      BY <3>1 DEF Inv, PlayerIndexSound
    <3>3. players[id] # <<>> /\ players[id] \in Seq(Account)
      BY <1>2, <1>3, <2>2 DEF Inv, Owned
    <3>4. 1 \in 1..Len(players[id]) /\ Head(players[id]) = players[id][1]
      BY <3>3
    <3>5. player_2_room[a] # id
      BY <3>1, <3>2, <3>4
    <3> QED
      BY <1>1, <1>4, <3>1, <3>2, <3>5
  <2> QED
    BY <1>1, <2>1, <2>2
<1>9. ReportedBegun'
  <2>1. ASSUME NEW h \in Area, NEW x \in Id, Reported(h, x)' PROVE Reported(h, x)
    <3>1. PICK i \in 1..Len(room_begin'[h]) : room_begin'[h][i] = x
      BY <2>1 DEF Reported
    <3>2. CASE h # g
      BY <1>1, <1>2, <3>1, <3>2 DEF Reported
    <3>3. CASE h = g
      <4>1. room_begin'[h] = Tail(room_begin[g]) /\ room_begin[g] \in Seq(Id) /\ room_begin[g] # <<>>
        BY <1>1, <1>2, <3>3
      <4>2. /\ Len(Tail(room_begin[g])) = Len(room_begin[g]) - 1
            /\ \A j \in 1..Len(Tail(room_begin[g])) : Tail(room_begin[g])[j] = room_begin[g][j + 1]
        BY <4>1, HeadTailProperties
      <4>3. Len(room_begin[g]) \in Nat /\ i \in 1..Len(Tail(room_begin[g]))
        BY <3>1, <4>1
      <4>4. i + 1 \in 1..Len(room_begin[g]) /\ room_begin[g][i + 1] = x
        BY <3>1, <4>1, <4>2, <4>3
      <4> QED
        BY <3>3, <4>4 DEF Reported
    <3> QED
      BY <3>2, <3>3
  <2> QED
    BY <1>1, <2>1, AboutSame DEF Inv, ReportedBegun
<1>10. ClosedHasMatch'
  <2> SUFFICES ASSUME NEW x \in Id, Closed(x)' PROVE BegunOrAbout(x)
    BY <1>1, AboutSame DEF ClosedHasMatch, BegunOrAbout
  <2>1. Closed(x) \/ x = id
    BY <1>1, <1>4 DEF Closed
  <2> QED
    BY <1>3, <2>1 DEF Inv, ClosedHasMatch, BegunOrAbout
<1>11. (FullRooms /\ FullMail /\ InHand)'
  BY <1>1 DEF Inv, FullRooms, Full, InTick, FullMail, InHand
<1> QED
  BY <1>6, <1>7, <1>8, <1>9, <1>10, <1>11 DEF Inv

LEMMA InvStep == Inv /\ [Next]_vars => Inv'
<1> SUFFICES ASSUME Inv, [Next]_vars PROVE Inv'
  OBVIOUS
<1>1. CASE UNCHANGED vars
  <2>1. UNCHANGED <<tbl, game, players, room_tbl, player_2_room, ready_tbl, tick, create_room, told,
                    room_begin, matches, calm>>
    BY <1>1 DEF vars
  <2> QED
    BY <2>1 DEF Inv, TypeOK, FreshIds, Owned, PlayerIndexSound, FullRooms, Full, InTick, FullMail,
                InHand, ReportedBegun, Reported, BegunOrAbout, ClosedHasMatch, Closed, AboutToBegin
<1>2. CASE Next
  BY <1>2, CreateRoomInv, JoinRoomInv, TickInv, AreaInv, BeginMatchInv,
     RoomBeginInv DEF Next
<1> QED
  BY <1>1, <1>2

\* player_2_room never points to a room that is gone or that someone else owns
\* (PlayerIndexSound), whatever create, join, the timer and the areas do.
THEOREM PlayerIndex == Spec => []PlayerIndexSound
<1>1. Inv => PlayerIndexSound
  BY DEF Inv
<1> QED
  BY <1>1, InvInit, InvStep, PTL DEF Spec

\* A room disappears from room_mgr only when its match has begun, or when the area that has
\* reported it is about to begin it and has a player for every seat (ClosedHasMatch).
THEOREM ClosedRooms == Spec => []ClosedHasMatch
<1>1. Inv => ClosedHasMatch
  BY DEF Inv
<1> QED
  BY <1>1, InvInit, InvStep, PTL DEF Spec

\* id_mgr gives no id out twice (FreshIds).
THEOREM IdsFresh == Spec => []FreshIds
<1>1. Inv => FreshIds
  BY DEF Inv
<1> QED
  BY <1>1, InvInit, InvStep, PTL DEF Spec
-----------------------------------------------------------------------------
(* One room is one match, as long as the run is calm.                      *)

\* A room the timer has still to start: a tick under way has not passed it.
Due(id) == /\ id \in ready_tbl
           /\ \A k \in Tick : Waiting(k) => id = tick[k].room \/ id \in tick[k].todo

\* The area has been told to open the room, and has not done so yet.
Mailed(id) == \E g \in Area : \E i \in 1..Len(create_room[g]) : create_room[g][i].id = id

\* Of several ticks one is under way, and it traverses the current ready_tbl.
OneTick == /\ \A k \in Tick : ~Waiting(k) => ~tick[k].live
           /\ \A j, k \in Tick : Waiting(j) /\ Waiting(k) => j = k
           /\ \A k \in Tick : Waiting(k) => /\ tick[k].room \in ready_tbl
                                            /\ tick[k].todo \subseteq ready_tbl
                                            /\ tick[k].room \notin tick[k].todo

\* Rooms have an area, and the full ones are ready.
Rooms == /\ \A id \in Id : players[id] # <<>> => game[id] \in Area
         /\ \A id \in ready_tbl : Len(players[id]) >= Seats

\* A room is due, then mailed, then a match.
MailOnce == \A g, h \in Area : \A i \in 1..Len(create_room[g]), j \in 1..Len(create_room[h]) :
                create_room[g][i].id = create_room[h][j].id => g = h /\ i = j
Stages == \A id \in Id : /\ Len(players[id]) < Seats \/ Due(id) => ~Mailed(id) /\ matches[id] = 0
                         /\ Mailed(id) => matches[id] = 0
                         /\ matches[id] <= 1

Calm == OneTick /\ Rooms /\ MailOnce /\ Stages

LEMMA CalmInit == Init => Calm
<1> SUFFICES ASSUME Init PROVE Calm
  OBVIOUS
<1>1. \A k \in Tick : ~Waiting(k) /\ ~tick[k].live
  BY DEF Init, Waiting, Idle
<1>2. \A g \in Area : Len(create_room[g]) = 0
  BY DEF Init
<1>3. \A g \in Area : 1..Len(create_room[g]) = {}
  BY <1>2
<1>4. \A id \in Id : ~Mailed(id) /\ matches[id] = 0 /\ players[id] = <<>>
  BY <1>3 DEF Init, Mailed
<1>5. ready_tbl = {}
  BY DEF Init
<1>6. OneTick
  BY <1>1 DEF OneTick
<1>7. Rooms /\ MailOnce /\ Stages
  BY <1>3, <1>4, <1>5 DEF Rooms, MailOnce, Stages
<1> QED
  BY <1>6, <1>7 DEF Calm

\* A step that changes neither ticks nor ready_tbl changes no room that is due.
LEMMA DueSame == ASSUME UNCHANGED <<tick, ready_tbl>>
                 PROVE  /\ \A id \in Id : Due(id)' = Due(id)
                        /\ OneTick' = OneTick
BY DEF Due, OneTick, Waiting

LEMMA MailSame == ASSUME UNCHANGED create_room
                  PROVE  /\ \A id \in Id : Mailed(id)' = Mailed(id)
                         /\ MailOnce' = MailOnce
BY DEF Mailed, MailOnce

LEMMA CreateRoomCalm == ASSUME Inv, Calm, NEW a \in Account, NEW g \in Game, CreateRoom(a, g), calm'
                        PROVE  Calm'
<1>1. g \in Area /\ UNCHANGED <<tick, ready_tbl, create_room, matches>>
  BY DEF CreateRoom, mailVars
<1>2. PICK id \in Id : /\ game' = [game EXCEPT ![id] = g]
                       /\ players' = [players EXCEPT ![id] = <<a>>]
                       /\ players[id] = <<>>
  <2>1. PICK index \in 1..Len(tbl) : /\ game' = [game EXCEPT ![tbl[index]] = g]
                                     /\ players' = [players EXCEPT ![tbl[index]] = <<a>>]
    BY DEF CreateRoom
  <2>2. tbl[index] \in Id /\ players[tbl[index]] = <<>>
    BY DEF Inv, TypeOK, FreshIds
  <2> QED
    BY <2>1, <2>2
<1>3. game \in [Id -> Game \cup {None}] /\ players \in [Id -> Seq(Account)]
  BY DEF Inv, TypeOK
<1>4. id \notin ready_tbl
  BY <1>2, RoomMgrAssumption DEF Calm, Rooms
<1>5. Rooms'
  BY <1>1, <1>2, <1>3, <1>4 DEF Calm, Rooms
<1>6. \A r \in Id : Len(players'[r]) < Seats => Len(players[r]) < Seats
  BY <1>2, <1>3, RoomMgrAssumption
<1>7. Stages'
  BY <1>1, <1>6, DueSame, MailSame DEF Calm, Stages
<1> QED
  BY <1>1, <1>5, <1>7, DueSame, MailSame DEF Calm

LEMMA JoinRoomCalm == ASSUME Inv, Calm, NEW a \in Account, NEW id \in Id, JoinRoom(a, id), calm'
                      PROVE  Calm'
<1>1. /\ players' = [players EXCEPT ![id] = Append(@, a)]
      /\ UNCHANGED <<game, create_room, matches>> /\ id \in room_tbl
  BY DEF JoinRoom, mailVars
<1>2. players \in [Id -> Seq(Account)] /\ tick \in [Tick -> TickState] /\ ready_tbl \subseteq Id
  BY DEF Inv, TypeOK
<1>3. /\ players[id] # <<>>
      /\ \A r \in Id : /\ Len(players[r]) \in Nat
                       /\ Len(players'[r]) = IF r = id THEN Len(players[r]) + 1 ELSE Len(players[r])
                       /\ players'[r] # <<>> => players[r] # <<>>
  BY <1>1, <1>2 DEF Inv, Owned
<1>4. CASE Len(players[id]) + 1 = Seats
  <2>1. add_ready(id) /\ Quiet
    BY <1>4 DEF JoinRoom
  <2>2. \A k \in Tick : ~Waiting(k) /\ ~tick[k].live
    BY <2>1 DEF Quiet, Calm, OneTick
  <2>3. ready_tbl' = ready_tbl \cup {id} /\ tick' = tick
    BY <1>2, <2>1, <2>2 DEF add_ready
  <2>4. OneTick'
    BY <2>2, <2>3 DEF OneTick, Waiting
  <2>5. Rooms'
    BY <1>1, <1>2, <1>3, <1>4, <2>3, RoomMgrAssumption DEF Calm, Rooms
  <2>6. \A r \in Id : Due(r)' => Due(r) \/ r = id
    BY <2>3 DEF Due, Waiting
  <2>7. Len(players[id]) < Seats
    BY <1>3, <1>4, RoomMgrAssumption
  <2>8. \A r \in Id : Len(players'[r]) < Seats => Len(players[r]) < Seats
    BY <1>3, RoomMgrAssumption
  <2>9. Stages'
    BY <1>1, <2>6, <2>7, <2>8, MailSame DEF Calm, Stages
  <2> QED
    BY <1>1, <2>4, <2>5, <2>9, MailSame DEF Calm
<1>5. CASE Len(players[id]) + 1 # Seats
  <2>1. UNCHANGED <<ready_tbl, tick>>
    BY <1>5 DEF JoinRoom
  <2>2. Rooms'
    BY <1>1, <1>2, <1>3, <2>1, RoomMgrAssumption DEF Calm, Rooms
  <2>3. \A r \in Id : Len(players'[r]) < Seats => Len(players[r]) < Seats
    BY <1>3, RoomMgrAssumption
  <2>4. Stages'
    BY <1>1, <2>1, <2>3, DueSame, MailSame DEF Calm, Stages
  <2> QED
    BY <1>1, <2>1, <2>2, <2>4, DueSame, MailSame DEF Calm
<1> QED
  BY <1>4, <1>5

LEMMA CheckReadyCalm == ASSUME Inv, Calm, NEW k \in Tick, CheckReady(k), calm' PROVE Calm'
<1>1. Quiet /\ UNCHANGED <<game, players, ready_tbl, create_room, matches>>
  BY DEF CheckReady, mailVars
<1>2. PICK id \in ready_tbl :
        tick' = [tick EXCEPT ![k] = [room |-> id, todo |-> ready_tbl \ {id}, live |-> TRUE]]
  BY DEF CheckReady
<1>3. tick \in [Tick -> TickState] /\ id \in Id /\ id # None
  BY RoomMgrAssumption DEF Inv, TypeOK
<1>4. /\ tick'[k].room = id /\ tick'[k].todo = ready_tbl \ {id}
      /\ \A j \in Tick : j # k => tick'[j] = tick[j]
  BY <1>2, <1>3
<1>5. \A j \in Tick : Waiting(j)' <=> j = k
  BY <1>1, <1>3, <1>4 DEF Quiet, Waiting
<1>6. OneTick'
  BY <1>1, <1>4, <1>5 DEF Calm, OneTick, Quiet
<1>7. \A r \in Id : Due(r)' => Due(r)
  BY <1>1 DEF Due, Quiet
<1>8. Rooms' /\ Stages'
  BY <1>1, <1>7, MailSame DEF Calm, Rooms, Stages
<1> QED
  BY <1>1, <1>6, <1>8, MailSame DEF Calm

LEMMA StartRoomCalm == ASSUME Inv, Calm, NEW k \in Tick, StartRoom(k) PROVE Calm'
<1>1. /\ UNCHANGED <<game, players, matches>> /\ Waiting(k)
      /\ EndTraversal(k) \/ NextRoom(k)
  BY DEF StartRoom
<1>2. /\ tick \in [Tick -> TickState] /\ create_room \in [Area -> Seq(Info)]
      /\ ready_tbl \subseteq Id
  BY DEF Inv, TypeOK
<1>3. PICK id \in Id : id = tick[k].room /\ id \in ready_tbl /\ id \notin tick[k].todo
  BY <1>1, <1>2 DEF Calm, OneTick
<1>4. PICK g \in Area : g = game[id]
  BY <1>3 DEF StartRoom, get_area
<1>5. PICK m \in Info : m = pack(id) /\ m.id = id
  <2>1. players[id] \in Seq(Account)
    BY DEF Inv, TypeOK
  <2>2. pack(id) \in Info
    BY <2>1 DEF pack, Info
  <2>3. pack(id).id = id
    BY DEF pack
  <2> QED
    BY <2>2, <2>3
<1>6. create_room' = [create_room EXCEPT ![g] = Append(@, m)]
  BY <1>3, <1>4, <1>5 DEF StartRoom
<1>7. \A j \in Tick : Waiting(j) => j = k
  BY <1>1 DEF Calm, OneTick
<1>8. Due(id) /\ ~Mailed(id) /\ matches[id] = 0
  <2>1. Due(id)
    BY <1>3, <1>7 DEF Due
  <2> QED
    BY <2>1 DEF Calm, Stages
<1>9. /\ OneTick' /\ ready_tbl' \subseteq ready_tbl
      /\ \A r \in Id : Due(r)' => Due(r) /\ r # id
  <2>1. CASE EndTraversal(k)
    <3>1. ready_tbl' = {} /\ \A j \in Tick : tick'[j] = IF j = k THEN Idle
                                                        ELSE [tick[j] EXCEPT !.live = FALSE]
      BY <2>1 DEF EndTraversal
    <3>2. \A j \in Tick : /\ tick'[j].room = IF j = k THEN None ELSE tick[j].room
                          /\ ~tick'[j].live
      <4> SUFFICES ASSUME NEW j \in Tick
                   PROVE  /\ tick'[j].room = IF j = k THEN None ELSE tick[j].room
                          /\ ~tick'[j].live
        OBVIOUS
      <4>1. CASE j = k
        <5>1. tick'[j] = Idle
          BY <3>1, <4>1
        <5>2. Idle.room = None /\ ~Idle.live
          BY DEF Idle
        <5> QED
          BY <4>1, <5>1, <5>2
      <4>2. CASE j # k
        <5>1. PICK t \in TickState : t = tick[j]
          BY <1>2
        <5>2. [t EXCEPT !.live = FALSE].room = t.room /\ [t EXCEPT !.live = FALSE].live = FALSE
          BY DEF TickState
        <5> QED
          BY <3>1, <4>2, <5>1, <5>2
      <4> QED
        BY <4>1, <4>2
    <3>3. \A j \in Tick : ~Waiting(j)'
      BY <1>7, <3>2 DEF Waiting
    <3> QED
      BY <3>1, <3>2, <3>3 DEF OneTick, Due
  <2>2. CASE NextRoom(k)
    <3>1. PICK n \in tick[k].todo :
            tick' = [tick EXCEPT ![k].room = n, ![k].todo = @ \ {n}]
      BY <2>2 DEF NextRoom
    <3>2. /\ tick'[k].room = n /\ tick'[k].todo = tick[k].todo \ {n}
          /\ \A j \in Tick : j # k => tick'[j] = tick[j]
      BY <1>2, <3>1 DEF TickState
    <3>3. ready_tbl' = ready_tbl /\ n \in ready_tbl /\ tick[k].todo \subseteq ready_tbl
      BY <1>1, <2>2, <3>1 DEF NextRoom, Calm, OneTick
    <3>4. n # None
      BY <1>2, <3>3, RoomMgrAssumption
    <3>5. \A j \in Tick : Waiting(j)' <=> j = k
      BY <1>7, <3>2, <3>4 DEF Waiting
    <3>6. OneTick'
      BY <3>2, <3>3, <3>5, <1>7 DEF OneTick, Calm, Waiting
    <3>7. ASSUME NEW r \in Id, Due(r)' PROVE Due(r) /\ r # id
      <4>1. r \in ready_tbl /\ (r = n \/ r \in tick[k].todo \ {n})
        BY <3>2, <3>3, <3>5, <3>7 DEF Due
      <4> QED
        BY <1>3, <1>7, <3>1, <4>1 DEF Due
    <3> QED
      BY <3>3, <3>6, <3>7
  <2> QED
    BY <1>1, <2>1, <2>2
<1>10. Rooms'
  BY <1>1, <1>9 DEF Calm, Rooms
<1>11. /\ Len(create_room[g]) \in Nat /\ Len(create_room'[g]) = Len(create_room[g]) + 1
       /\ create_room'[g][Len(create_room[g]) + 1] = m
       /\ \A i \in 1..Len(create_room[g]) : create_room'[g][i] = create_room[g][i]
       /\ \A h \in Area : h # g => create_room'[h] = create_room[h]
  BY <1>2, <1>6
<1>12. \A h \in Area : \A i \in 1..Len(create_room'[h]) :
          \/ i \in 1..Len(create_room[h]) /\ create_room'[h][i] = create_room[h][i]
          \/ h = g /\ i = Len(create_room[g]) + 1 /\ create_room'[h][i] = m
  BY <1>11
<1>13. \A r \in Id : Mailed(r)' => Mailed(r) \/ r = id
  BY <1>5, <1>12 DEF Mailed
<1>14. MailOnce'
  <2> SUFFICES ASSUME NEW g1 \in Area, NEW h1 \in Area, NEW i \in 1..Len(create_room'[g1]),
                      NEW j \in 1..Len(create_room'[h1]),
                      create_room'[g1][i].id = create_room'[h1][j].id
               PROVE  g1 = h1 /\ i = j
    BY DEF MailOnce
  <2>1. \A h \in Area : \A l \in 1..Len(create_room[h]) : create_room[h][l].id # id
    BY <1>8 DEF Mailed
  <2>2. CASE /\ i \in 1..Len(create_room[g1]) /\ create_room'[g1][i] = create_room[g1][i]
             /\ j \in 1..Len(create_room[h1]) /\ create_room'[h1][j] = create_room[h1][j]
    BY <2>2 DEF Calm, MailOnce
  <2>3. CASE create_room'[g1][i] = m /\ create_room'[h1][j] = m
    BY <1>5, <1>12, <2>1, <2>3
  <2>4. CASE /\ i \in 1..Len(create_room[g1]) /\ create_room'[g1][i] = create_room[g1][i]
             /\ create_room'[h1][j] = m
    BY <1>5, <2>1, <2>4
  <2>5. CASE /\ j \in 1..Len(create_room[h1]) /\ create_room'[h1][j] = create_room[h1][j]
             /\ create_room'[g1][i] = m
    BY <1>5, <2>1, <2>5
  <2> QED
    BY <1>12, <2>2, <2>3, <2>4, <2>5
<1>15. Stages'
  <2>1. ~(Len(players[id]) < Seats)
    <3>1. Len(players[id]) \in Nat /\ Len(players[id]) >= Seats
      BY <1>3 DEF Calm, Rooms, Inv, TypeOK
    <3> QED
      BY <3>1, RoomMgrAssumption
  <2> QED
    BY <1>1, <1>8, <1>9, <1>13, <2>1 DEF Calm, Stages
<1> QED
  BY <1>9, <1>10, <1>14, <1>15 DEF Calm

LEMMA BeginMatchCalm == ASSUME Inv, Calm, NEW g \in Area, BeginMatch(g) PROVE Calm'
<1>1. /\ UNCHANGED <<game, players, ready_tbl, tick>> /\ create_room[g] # <<>>
      /\ create_room' = [create_room EXCEPT ![g] = Tail(@)]
  BY DEF BeginMatch, Inv, InHand
<1>2. create_room \in [Area -> Seq(Info)] /\ matches \in [Id -> 0..2]
  BY DEF Inv, TypeOK
<1>3. PICK id \in Id : id = Head(create_room[g]).id
  <2>1. Head(create_room[g]) \in Info
    BY <1>1, <1>2
  <2> QED
    BY <2>1 DEF Info
<1>4. matches' = [matches EXCEPT ![id] = IF @ = 2 THEN 2 ELSE @ + 1]
  <2>1. Head(create_room[g]) = create_room[g][1] /\ 1 \in 1..Len(create_room[g])
    BY <1>1, <1>2
  <2>2. Len(Head(create_room[g]).player_list) >= Seats
    BY <2>1 DEF Inv, FullMail
  <2> QED
    BY <1>3, <2>2 DEF BeginMatch
<1>5. /\ Len(create_room[g]) \in Nat /\ Len(create_room[g]) > 0
      /\ Len(create_room'[g]) = Len(create_room[g]) - 1
      /\ \A i \in 1..Len(create_room'[g]) :
            i + 1 \in 1..Len(create_room[g]) /\ create_room'[g][i] = create_room[g][i + 1]
      /\ create_room[g][1].id = id
      /\ \A h \in Area : h # g => create_room'[h] = create_room[h]
  BY <1>1, <1>2, <1>3
<1>6. \A h \in Area : \A i \in 1..Len(create_room'[h]) :
        \E l \in 1..Len(create_room[h]) :
            /\ create_room'[h][i] = create_room[h][l]
            /\ l = IF h = g THEN i + 1 ELSE i
  BY <1>5
<1>7. 1 \in 1..Len(create_room[g])
  BY <1>5
<1>8. Mailed(id) /\ matches[id] = 0
  BY <1>5, <1>7 DEF Mailed, Calm, Stages
<1>9. ~Mailed(id)'
  <2> SUFFICES ASSUME NEW h \in Area, NEW i \in 1..Len(create_room'[h]), create_room'[h][i].id = id
               PROVE  FALSE
    BY DEF Mailed
  <2>1. PICK l \in 1..Len(create_room[h]) : /\ create_room'[h][i] = create_room[h][l]
                                            /\ l = IF h = g THEN i + 1 ELSE i
    BY <1>6
  <2>2. h = g /\ l = 1
    BY <1>5, <1>7, <2>1 DEF Calm, MailOnce
  <2> QED
    BY <2>1, <2>2
<1>10. \A r \in Id : Mailed(r)' => Mailed(r)
  BY <1>6 DEF Mailed
<1>11. MailOnce'
  <2> SUFFICES ASSUME NEW g1 \in Area, NEW h1 \in Area, NEW i \in 1..Len(create_room'[g1]),
                      NEW j \in 1..Len(create_room'[h1]),
                      create_room'[g1][i].id = create_room'[h1][j].id
               PROVE  g1 = h1 /\ i = j
    BY DEF MailOnce
  <2>1. PICK l \in 1..Len(create_room[g1]) : /\ create_room'[g1][i] = create_room[g1][l]
                                             /\ l = IF g1 = g THEN i + 1 ELSE i
    BY <1>6
  <2>2. PICK n \in 1..Len(create_room[h1]) : /\ create_room'[h1][j] = create_room[h1][n]
                                             /\ n = IF h1 = g THEN j + 1 ELSE j
    BY <1>6
  <2>3. g1 = h1 /\ l = n
    BY <2>1, <2>2 DEF Calm, MailOnce
  <2> QED
    BY <2>1, <2>2, <2>3
<1>12. \A r \in Id : matches'[r] = IF r = id THEN 1 ELSE matches[r]
  BY <1>2, <1>4, <1>8
<1>13. ~Due(id) /\ ~(Len(players[id]) < Seats)
  BY <1>8 DEF Calm, Stages
<1>14. Stages'
  BY <1>1, <1>9, <1>10, <1>12, <1>13, DueSame DEF Calm, Stages
<1>15. Rooms'
  BY <1>1 DEF Calm, Rooms
<1> QED
  BY <1>1, <1>11, <1>14, <1>15, DueSame DEF Calm

\* As long as the run is calm, a room is started at most once.
LEMMA CalmStep == Inv /\ (calm => Calm) /\ [Next]_vars => (calm' => Calm')
<1> SUFFICES ASSUME Inv, calm => Calm, [Next]_vars, calm' PROVE Calm'
  OBVIOUS
<1>1. calm
  BY Zenon DEF Next, vars, CreateRoom, JoinRoom, CheckReady, StartRoom, StartRoomFails,
               AreaCreateRoom, BeginMatch, RoomBegin
<1>2. Calm
  BY <1>1
<1>3. ASSUME NEW a \in Account, NEW g \in Game, CreateRoom(a, g) PROVE Calm'
  BY <1>2, <1>3, CreateRoomCalm
<1>4. ASSUME NEW a \in Account, NEW id \in Id, JoinRoom(a, id) PROVE Calm'
  BY <1>2, <1>4, JoinRoomCalm
<1>5. ASSUME NEW k \in Tick, CheckReady(k) PROVE Calm'
  BY <1>2, <1>5, CheckReadyCalm
<1>6. ASSUME NEW k \in Tick, StartRoom(k) PROVE Calm'
  BY <1>2, <1>6, StartRoomCalm
<1>7. ASSUME NEW k \in Tick, StartRoomFails(k) PROVE Calm'
  \* Every room of a calm run has an area.
  <2>1. tick[k].room \in ready_tbl /\ tick[k].room \in Id
    BY <1>2, <1>7 DEF StartRoomFails, Calm, OneTick, Inv, TypeOK
  <2>2. players[tick[k].room] # <<>>
    BY <1>2, <2>1, RoomMgrAssumption DEF Calm, Rooms
  <2> QED
    BY <1>2, <1>7, <2>1, <2>2 DEF StartRoomFails, get_area, Calm, Rooms
<1>8. ASSUME NEW g \in Area, BeginMatch(g) PROVE Calm'
  BY <1>2, <1>8, BeginMatchCalm
<1>9. ASSUME UNCHANGED <<game, players, ready_tbl, tick, create_room, matches>> PROVE Calm'
  BY <1>2, <1>9, DueSame, MailSame DEF Calm, Rooms, Stages
<1>10. ASSUME NEW g \in Area, RoomBegin(g) PROVE Calm'
  BY <1>9, <1>10 DEF RoomBegin
<1>12. ASSUME NEW g \in Area, AreaCreateRoom(g) PROVE Calm'
  BY <1>9, <1>12 DEF AreaCreateRoom
<1>11. CASE UNCHANGED vars
  BY <1>9, <1>11 DEF vars
<1> QED
  BY <1>3, <1>4, <1>5, <1>6, <1>7, <1>8, <1>10, <1>11, <1>12 DEF Next

\* One room is one match (StartedOnce), as long as rooms have an area and check_ready comes
\* to its end before the next room is full and before the next tick: for any number of
\* rooms, seats, ticks and late joins.
THEOREM OneMatch == Spec => []StartedOnce
<1>1. Init => Inv /\ (calm => Calm)
  BY InvInit, CalmInit
<1>2. (Inv /\ (calm => Calm)) /\ [Next]_vars => (Inv /\ (calm => Calm))'
  BY InvStep, CalmStep
<1>3. Inv /\ (calm => Calm) => StartedOnce
  BY DEF Calm, Stages, StartedOnce
<1> QED
  BY <1>1, <1>2, <1>3, PTL DEF Spec
=============================================================================
