\* Packets of up to three bytes over a kernel buffer of two.
CONSTANTS
  Radix = 11
  Client = client
  Server = server
  Packets <- McPackets
  Sizes = {0, 1, 3}
  Capacity = 2
SPECIFICATION Spec
CHECK_DEADLOCK FALSE
INVARIANTS
  TypeOK
PROPERTIES
  ImplementsStreams
  PacketArrives
  EndNoticed
