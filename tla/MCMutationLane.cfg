SPECIFICATION FairSpec
CONSTANTS
  Keys = {k1, k2}
  Callers = {c1, c2, c3}
  Entries = {e1, e2}
  NoEntry = NoEntry
  NoCaller = NoCaller
INVARIANTS
  NoPanic
  NoLostWakeup
  EntriesAreReferenced
PROPERTIES
  LaneImplemented
  LastWaiterServed
