CONSTANTS
  Users = {a, b, c}
  Sockets = {s1, s2}
  Threads = {t1, t2}
  Contacts = {{a, b}}
  Nobody = Nobody
  NoSocket = NoSocket
  MaxConnections = 1
  MaxConversations = 2
  MaxMessages = 1
  MaxRevocations = 1
  Callers = {t1, t2}
  BurstLimit = 2
  BurstWindow = 2
  HourlyLimit = 3
  Hour = 4
  JoinLimit = 2
  JoinWindow = 3
  MaxDelay = 1
  MaxTime = 5
SPECIFICATION ChatSpec
SYMMETRY Symmetry
INVARIANTS ConversationsAreTheirs CapRespected JoinedSeesAll Quotas
PROPERTIES NoDeliveryToRevoked RefusedOnlyWhenFull
