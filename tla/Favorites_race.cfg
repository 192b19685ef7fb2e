SPECIFICATION FavSpec
CONSTANTS
  NoRoom = NoRoom
  Rooms = {r1, r2, r3}
  Tabs = {t1, t2}
  Cap = 2
  MaxDeletes = 2
INVARIANTS
  FavoritesAreLive
