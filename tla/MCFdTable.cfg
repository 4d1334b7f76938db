CONSTANTS
  Programs <- MCTwoPrograms
  BuiltIn <- MCBuiltIn
  Names <- MCNames
  Contents <- MCContents
  Lengths <- MCLengths
  RESERVED_FDS <- MCReserved
  MAX_FDS <- MCMaxFds
SPECIFICATION Spec
INVARIANTS
  TypeOK
  ReadsAreSequential
  LeakedByKillOnly
  AloneKeepsItsFiles
