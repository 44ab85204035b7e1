SPECIFICATION Spec
CONSTANTS
  None = None
  Empty = Empty
  Redacted = Redacted
  l1 = l1
  l2 = l2
  var = var
  v1 = v1
  Literals = {l1, l2}
  Vars = {var}
  Values = {v1}
  Spellings <- MCSpellings
  Lower <- MCLower
  Controlled = {"host"}
  BuiltIn = {"user-agent", "accept"}
  Definitions <- MCDefinitions
  SqlServers <- MCSqlServers
INVARIANTS NothingShown SpecHostGetsLittle OnlyEnteredSecrets CredentialAsDefined ExportReproduces
CHECK_DEADLOCK FALSE
