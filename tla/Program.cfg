SPECIFICATION Spec
CONSTANTS
  BaseConfig <- MCBaseConfig
  Pool <- MCPool
  HostArch = "arch"
  Plain <- MCPlain
  Subpaths <- MCSubpaths
  Dirs <- MCDirs
  Targets <- MCTargets
  Envs <- MCEnvs
  Starts <- MCStarts
  MaxShelf = 3
  TraceSize = 4
  Prelude <- MCPrelude
  Lines <- MCLines
  Programs <- MCPrograms
  MaxLines = 2
  Uris = {"doc"}
  Contents <- MCContents
  Loaders = {"p", "q"}
  Modules = {"a", "b"}
  Loads <- MCLoads
  MaxDepth = 2
  MaxScopes = 2
  Produces <- MCProduces
  Window = 2
  MaxToken = 5
CHECK_DEADLOCK FALSE
INVARIANTS
  ThunksStay
  ConfigInherits
  RoundTrips
  PathsResolve
  TraceShowsCalls
  MatchesReference
  AnswersAreLexical
  LoadsAreWhole
  AnswersAreWhole
