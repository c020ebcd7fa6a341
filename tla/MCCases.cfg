SPECIFICATION CaseSpec
CONSTANTS
  Undefined = Undefined
  Absent = Absent
  IntervalMin = 30
  IntervalMax = 31622400
  SafeInteger = 1000000000
  NameMin = 2
  NameMax = 120
  GraceMax = 86400
  NeededBy <- MCNeededBy
  BodyCap = 6
  Marker = 2
  Reach = 6
  Slack = 3
  Redaction = 3
  MaxSeconds = 1500000000
  MonitorDefinitions <- MCMonitorDefinitions
  ListedIds <- MCListedIds
  Defaults <- MCDefaults
  ChannelRequests <- MCChannelRequests
  Pages <- MCPages
  Givens <- MCGivens
  Registries <- MCRegistries
  Variables <- MCVariables
  Environments <- MCEnvironments
  Names <- MCLookedUp
  NameLists <- MCNameLists
  Outputs <- MCAllOutputs
  Dates <- MCDates
  Now <- MCNow
INVARIANTS
  SettingsAgree
  WiringIsAllOrNothing
  NamesAgree
  OutputIsReadable
  DatesAgree
