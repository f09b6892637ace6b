SPECIFICATION Spec
CONSTANTS
  Names = {n1, n2}
  Labels <- MCLabels
  Subs <- MCSubs
  Zones <- MCZones
  TLDCount = 1
  AdminHost <- MCAdminHost
  Numerals <- MCNumerals
  Durations <- MCDurations
  IdleDefault = "5m"
  StartDefault = "1m"
  MaxChanges = 6
  None = None
INVARIANTS LabelsFollow
PROPERTIES Converges DiscoverFollows
