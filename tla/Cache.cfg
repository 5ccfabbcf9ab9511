SPECIFICATION Spec
CONSTANTS
  c1 = c1
  c2 = c2
  a1 = a1
  a2 = a2
  a3 = a3
  e1 = e1
  e2 = e2
  r1 = r1
  r2 = r2
  r3 = r3
  r4 = r4
  L2 = L2
  Mem = Mem
  NoCb = NoCb
  NotBusy = NotBusy
  L1s <- TwoL1s
  PCores = {c2}
  Addr = {a1, a2}
  Req = {r1, r2, r3}
  Entries = {e1}
  NEntries = 2
  NSubEntries = 3
  Hash <- TwoLineHash
  Kind <- MixedKinds
  Inclusive <- AllInclusive
  Llc = TRUE
  Ways <- TinyWays
  MaxReads = 2
  MaxWrites = 2
  MaxWarm = 1
SYMMETRY Symmetry
INVARIANTS TypeOK EntriesAddUp WaitersWillBeWoken RequestsCounted
CHECK_DEADLOCK FALSE
