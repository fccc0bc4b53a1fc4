\* The names of at most three machines; two crashes of the client, every
\* request answered.
SPECIFICATION FairSpec
CONSTANTS
  MaxOrdinal = 2
  MaxIncarnation = 2
  Targets <- MCTargets
  MaxCrashes = 2
  MaxLost = 0
INVARIANTS TypeOK MachineUntilRemovable 
PROPERTIES RetiredIsCleaned ImplementsLifecycle
