\* Two manifests in turn, archives that move, servers that fail, throttle and lag.
CONSTANTS
  Nil = Nil
  Manifests <- FourManifests
  Builds <- SomeBuilds
  Moving <- MovingURLs
  Hosted <- HostedURLs
  Digested <- DigestedURLs
  Sidecars <- SidecarURLs
  Absent <- AbsentJars
  MaxEdition = 2
  MaxAttempts = 5
SPECIFICATION Spec
INVARIANTS ResolverTypeOK PinnedWasServed PreferredIsLocked SavedServesItsReaders
PROPERTIES InterruptStops ResolveEnds
