CONSTANTS
  worker = worker
  helper = helper
  first = first
  second = second
  Null = Null
  Tasks = {worker, helper}
  Documents = {first, second}
  Owner <- MCOwner
  Sources <- MCSources
  Addresses = {a1, a2, a3}
  LastIdentity = 3
SYMMETRY ArenasAlike
SPECIFICATION Spec
INVARIANT TypeOK
INVARIANT EveryArenaHasOneOwner
INVARIANT CursorsPointWhereTaken
PROPERTY StaleCursorsStayStale
PROPERTY OnlySuccessReplaces
PROPERTY ImplementsVersions
