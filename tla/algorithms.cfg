SPECIFICATION MCSpec
CONSTANTS
  LastYear = 2105
  MaxHead = 4
  MaxLines = 2
  other = other
  third = third
  None = None
  Width = 3
  Invalid = Invalid
  Default = Default
  Values <- MCValues
  Absent = Absent
  Unparsable = Unparsable
  Missing = Missing
  Broken = Broken
  Fields = {relay, token, subdomain}
  Texts = {first, second, last}
  Unset = Unset
  NoFile = NoFile
  Malformed = Malformed
INVARIANT CalendarExact
INVARIANT ExpiryFound
INVARIANT CidrMatches
INVARIANT SettingsResolved
INVARIANT ClientSettingsKept
CHECK_DEADLOCK FALSE
