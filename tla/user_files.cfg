SPECIFICATION MCFairSpec
CONSTANTS
  default = default
  isolated = isolated
  Env = {default, isolated}
  Default = default
  Client = {"claude"}
  Product <- ClaudeProject
  None = None
  MaxEdits = 1
  MaxFailures = 1
  Listen = {"a", "b"}
  Settings = {"user", "server"}
  MaxDocumentEdits = 1
  Writer = {w1, w2}
  Core = {w1}
  Initial = Initial
INVARIANTS
  EvidenceOutlivesValues
  FilesAreWhole
PROPERTIES
  OnlyTheUserChangesTheRest
  AnyRerunsConverge
CHECK_DEADLOCK FALSE
