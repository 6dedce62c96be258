\* Four calls: a child made, cancelled or merged on one thread while the root or a
\* foreign token is cancelled, or everything disposed, on the other.
CONSTANTS
  Threads = {t1, t2}
  Scopes = {root, k1, k2}
  Root = root
  Foreign = {e}
  MaxCalls = 4
SPECIFICATION FairSpec
INVARIANTS TypeOK SourceUsedSafely RootReachesChildren CancellationHasCause ChildrenOutliveRootCallbacks NothingLeaks
PROPERTIES CallsReturn
