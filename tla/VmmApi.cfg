SPECIFICATION FairSpec
CONSTANTS
  Disks = {d1,d2}
  Nets = {n1}
  NSlots = 2
  Failures = {"new", "lock", "boot", "shutdown", "hotplug", "eject"}
  MaxMishaps = 1
INVARIANTS ConfigLive SlotsExclusive ImagesLocked ChangesAnnounced
PROPERTY RemovalCompletes
