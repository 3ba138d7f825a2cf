CONSTANTS
  Flows = {f1, f2, f3}
  Hosts = {h1, h2}
  Diagnostics = {Wash, Serial_Number}
  Flags = {Error}
  Retired = {Bak24}
  Devices = {d1, d2, d3}
  Platforms = {sensor, switch}
SPECIFICATION Spec
INVARIANTS OneEntryPerAddress EntitiesFit
PROPERTIES HiddenByUserStays ReportedIsShown
