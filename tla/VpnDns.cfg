SPECIFICATION FairSpec
CONSTANTS
  wifi = wifi
  mobile = mobile
  NoNetwork = NoNetwork
  Networks = {wifi, mobile}
  UserCommands = {"START"}
  Failures = {}
  SelfExits = FALSE
  Kills = FALSE
  MaxQueue = 2
  MaxChanges = 1
PROPERTIES RightDnsServers
