CONSTANTS
  Commands = {c1, c2}
  Sources = {issue}
  RandomKeys = {k1, k2}
  ExplicitKeys = {x1}
  MaxPending = 1
  MaxStarts = 3
  NoOne = NoOne
SPECIFICATION Spec
INVARIANTS DurableBeforeSend
