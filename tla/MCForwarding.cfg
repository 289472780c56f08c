\* Any frame of a host or of the controller, replies, and tables that fill meanwhile.
CONSTANTS
  PLY = PLY
  SRV = SRV
  OTH = OTH
  Host <- MCHost
  PortOf <- MCPortOf
  Default = 2
  Far = Far
  NoMac = NoMac
  CPU_PORT = 255
  TtlMod = 256
  Ttl = {0, 1}
  NoFrame = NoFrame
SPECIFICATION Spec
INVARIANTS
  TakenByAddressee
  CountedFramesPass
PROPERTIES
  Delivery
CHECK_DEADLOCK FALSE
