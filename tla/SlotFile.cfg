SPECIFICATION Spec
CONSTANTS
  Hashes = {2, 3, 6, 10}
  HASH_MODULUS = 4
  MAX_PROBE_COUNT = 3
  Snapshots <- SomeSnapshots
  Failures = {"crash", "write"}
  MaxTorn = 1
INVARIANTS SplitComplete ReadsOwnPage
