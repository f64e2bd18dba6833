\* Two administrators, an opener and an unload; the list has room for one profile.
CONSTANTS
  web = web
  long = long
  Admins = {a1, a2}
  Openers = {o1}
  Names = {web, long}
  Stored <- MCStored
  Filters = {p1, p2}
  Blocks = {b1, b2}
  MaxProfiles = 1
  NoThread = no_thread
  NoBlock = no_block
  NoName = no_name
  NoFilter = no_filter
SPECIFICATION ProfilesFairSpec
INVARIANTS ProfilesBalanced OpenSeesItsProfile
PROPERTIES ReadbackIsCurrent HandlersReturn
CHECK_DEADLOCK FALSE
