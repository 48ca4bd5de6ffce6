SPECIFICATION FairSpec
CONSTANTS
    r1 = r1
    r2 = r2
    Id = {r1, r2}
    IdTbl <- MCIdTbl
    Account = {alice, bob}
    Game = {sichuan, nogame}
    Area = {sichuan}
    None = None
    Seats = 2
    MaxPlayers = 3
    MaxMail = 1
    Tick = {t1, t2}
INVARIANTS FreshIds PlayerIndexSound ClosedHasMatch StartedOnce
PROPERTIES RoomBecomesMatch FullRoomStarts
CHECK_DEADLOCK FALSE
