\* Two messages after at most one that was settled: every check races with every write.
SPECIFICATION Spec
CONSTANTS
  None = None
  old = old
  new = new
  del = del
  undo = undo
  secret = secret
  key = key
  signal = signal
  alice = alice
  Ref <- MCRef
  Author <- MCAuthor
  Newer <- MCNewer
  Targets <- MCTargets
  Key <- MCKey
  MaxSubmissions = 2
  MaxFaults = 1
  Event = {old, new, del, undo, secret, key, signal}
  Ephemeral = {signal}
  Expiring = {new}
  Deletion = {del, undo, key}
  Private = {secret}
  Keyed = {key}
INVARIANT PublicationInv
INVARIANT SeenOrTold
PROPERTY RemovedForAReason
PROPERTY PastIsRespected
PROPERTY EventuallyStored
CHECK_DEADLOCK FALSE
