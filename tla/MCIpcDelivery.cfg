SPECIFICATION Spec
CONSTANTS
  Item = {"i", "j"}
  Waiter = {"w"}
  Socket = {1, 2, 3}
  MaxQueue = 1
INVARIANT DeliveryInv
INVARIANT ConnectionInv
PROPERTY FindsServer
CHECK_DEADLOCK FALSE
