\* Servers 1 and 2 differ in their port only; the page sorts names the other way.
CONSTANTS
  Absent = Absent
  Char <- MCChar
  Ms = 1
  Metadata <- MCMetadata
  Host <- MCHost
  Port <- MCPort
  Collation <- MCCollation
  Address <- MCAddress
  Public <- MCPublic
  MaxResolvers = 2
  GlobalPool <- MCGlobalPool
  DefaultRegionalPool <- MCDefaultRegionalPool
  RegionalPools <- MCRegionalPools
  BuiltIn <- MCBuiltIn
  Domains <- MCDomains
  Inputs <- MCInputs
  Texts <- MCTexts
  MaxServers = 2
  MaxLength = 1
  MaxTotal = 3
  ManyQueries = 3
SPECIFICATION Spec
CHECK_DEADLOCK FALSE
INVARIANTS FastestAnswered
