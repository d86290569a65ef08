\* The constants are model values; the instances are in the module.
CONSTANTS
  c1 = c1
  t1 = t1
  t2 = t2
  i1 = i1
  p1 = p1
  n1 = n1
  h1 = h1
  o1 = o1
  home = home
  review = review
  Poller = Poller
  Ws = Ws
  Nobody = Nobody
  None = None
SPECIFICATION FairSpec
PROPERTIES SocketFollows BridgeServes CacheConverges MirrorConverges
  SocketReturns
\* Calls, faults and changes run out, and then nothing more need happen.
CHECK_DEADLOCK FALSE
