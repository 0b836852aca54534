CONSTANTS
  Slot = {s1, s2}
  MaxGen = 2
  Val = {m1}
  VA = {zero, home}
  Zero = zero
  Home = home
  None = None
SPECIFICATION FairSpec
INVARIANT TypeOK
PROPERTIES
  ImplementsRendezvous
  PagesLandWhereAsked
  SendEndsWithReceiver
CHECK_DEADLOCK FALSE
