CONSTANTS
  t1 = t1
  t2 = t2
  Threads = {t1, t2}
  Types = {"Unicast", "Multicast"}
  Sizes = {1, 3, 4, 5}
  Initial <- MCInitial
  Retries = 3
  Element = 2
  MaxData = 3
  MaxErrors = 1
SPECIFICATION CacheFairSpec
INVARIANTS
  CachedWhole
  AnswersAgree
PROPERTIES
  ImplementsStatic
  CallsEnd
