SPECIFICATION Spec
CONSTANTS
  Uids = {u1}
  Unknown = unknown
  Self = self
  Senders = {u1}
  Ips = {i1}
  Hosts = {h1}
  Services = {"https"}
  NoName = none
  RuleConfigs <- SmallConfigs
  Settings <- SomeSettings
  Globals <- SomeGlobals
  ObserveOnly = FALSE
  MaxEdits = 0
INVARIANTS RuleObeyed
