SPECIFICATION Spec
CONSTANTS
  Names = {n1}
  Labels <- MCLabels
  Subs <- MCSubs
  Zones <- MCZones
  TLDCount = 1
  AdminHost <- MCAdminHost
  Numerals <- MCNumerals
  Durations <- MCDurations
  IdleDefault = "5m"
  StartDefault = "1m"
  MaxChanges = 3
  None = None
PROPERTIES LabelsPickedUp
