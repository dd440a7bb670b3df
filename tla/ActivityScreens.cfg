SPECIFICATION FairSpec
CONSTANTS
  h1 = h1
  h2 = h2
  p1 = p1
  s1 = s1
  a1 = a1
  Home = {h1, h2}
  Panel = {p1}
  Sleep = {s1}
  Screen = {a1}
  Null = Null
  MaxStack = 2
INVARIANTS TypeOK DrawnIsCurrent PendingHasActivity AlwaysAScreen NoStrayWake
PROPERTIES OwedIsDrawn RequestServed
