\* Servers 1 and 2 differ in their port only; the page sorts names the other way.
CONSTANTS
  Absent = Absent
  Char <- MCChar
  Ms = 1
  Metadata <- MCMetadata
  Host <- MCHost
  Port <- MCPort
  Collation <- MCCollation
  Address <- MCAddress
  Public <- MCPublic
  MaxResolvers = 2
  GlobalPool <- MCGlobalPool
  DefaultRegionalPool <- MCDefaultRegionalPool
  RegionalPools <- MCRegionalPools
  BuiltIn <- MCBuiltIn
  Domains <- MCDomains
  Inputs <- MCInputs
  Texts <- MCTexts
  MaxServers = 2
  MaxLength = 3
  MaxTotal = 203
  ManyQueries = 20030
SPECIFICATION Spec
CHECK_DEADLOCK FALSE
INVARIANTS SafeWinner ViewsAgree DiagnosticsAddUp BarsFaithful CsvRoundTrips PageAndServerAgree ProgressTells SelectionSound HistoryRead MetadataExplained
