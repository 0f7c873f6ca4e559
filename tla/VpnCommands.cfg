SPECIFICATION FairSpec
CONSTANTS
  wifi = wifi
  mobile = mobile
  NoNetwork = NoNetwork
  Networks = {wifi}
  UserCommands = {"START", "STOP", "PUSH_STATS"}
  Failures = {"database", "establish", "rules"}
  SelfExits = TRUE
  Kills = TRUE
  MaxQueue = 2
  MaxChanges = 1
INVARIANTS TypeOK TunOpenInLoop StopObeyed StartObeyed
PROPERTIES CommandEnds
