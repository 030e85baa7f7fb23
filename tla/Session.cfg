\* Two event loop threads at most: one panics or fails, the other goes on or is not started.
SPECIFICATION FairSpec
CONSTANT MaxThreads = 2
INVARIANTS TypeOK NoRefcountBug JoinedImpliesDestroyed UnmountAfterDestroy
PROPERTIES RefinesLifecycle ReplacementSafe DropReturns JoinReturns DestroyHappens
