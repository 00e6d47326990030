\* Starts of any program on the databases of older releases, two of them killed.
SPECIFICATION BootFairSpec
CONSTANTS
  Releases <- MCReleases
  MaxKills = 2
INVARIANTS NothingHalfApplied ServingIsComplete
PROPERTY UpgradeCompletes
