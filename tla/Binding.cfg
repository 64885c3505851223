\* The bot's updates, tokens and chats with failing calls and one restart.
SPECIFICATION FairSpec
CONSTANTS
  Users = {u1, u2}
  Chats = {c1, c2}
  Tokens = {t1, t2}
  NoUser = NoUser
  NoChat = NoChat
  TTL = 1
  MaxUpdates = 2
  MaxClock = 1
  MaxCrashes = 1
INVARIANTS NothingSkipped HandledOnce TokenOnce BoundByOwner
PROPERTIES EveryUpdateSettled
CHECK_DEADLOCK FALSE
