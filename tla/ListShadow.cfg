SPECIFICATION FairSpec
CONSTANTS
  dns = dns
  dhcp = dhcp
  web = web
  ping = ping
  tcp = tcp
  p1 = p1
  p2 = p2
  p3 = p3
  NoFlow = NoFlow
  UdpFlows = {dns}
  DnsFlows = {dns}
  DhcpFlows = {}
  IcmpFlows = {}
  TcpFlows = {}
  EchoIds = {1}
  Ptrs = {p1, p2}
  MaxSessions = 1
  TunYield = 1
  Exits = FALSE
PROPERTIES ShadowEnds
