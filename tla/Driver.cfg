SPECIFICATION Spec
CONSTANTS
  Lines = {"spi", "sdio", "busy"}
  Wrap = 10
  Durations = {1, 3}
  Cooldown = 3
  Callers = {c1, c2}
  Peers = {p1, p2, p3}
  Capacity = 2
INVARIANTS
  OnlyKnownMisses
  BusUsable
  BuffersSettled
  HoldKept
  PoliciesKept
PROPERTY ImplementsLevelIrq
