CONSTANTS
  c1 = c1
  c2 = c2
  s1 = s1
  s2 = s2
  k1 = k1
  k2 = k2
  v1 = v1
  Garbage = Garbage
  NoValue = NoValue
  Clients <- MCClients
  Shards <- MCShards
  Keys <- MCKeys
  Values <- MCValues
  KeyShard <- MCKeyShard
  Script <- MCEmptyScript
  MaxTxns <- MCMaxTxns
  Spurious = FALSE
  Backend = "OCCStore"
CHECK_DEADLOCK FALSE
SPECIFICATION Spec
PROPERTY
  CallsReturn
