SPECIFICATION Spec
CONSTANTS
  Uids = {u1}
  Unknown = unknown
  Self = self
  Senders = {u1, unknown}
  Ips = {i1}
  Hosts = {h1, h2}
  Services = {"https", "quic"}
  NoName = none
  RuleConfigs <- NameConfigs
  Settings <- SomeSettings
  Globals <- SomeGlobals
  ObserveOnly = FALSE
  MaxEdits = 1
INVARIANTS TypeOK ForbiddenNameBlocked NameDecides CachedAnswerCurrent NameOfTheApp
