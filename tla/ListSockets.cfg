SPECIFICATION Spec
CONSTANTS
  dns = dns
  dhcp = dhcp
  web = web
  ping = ping
  tcp = tcp
  p1 = p1
  p2 = p2
  p3 = p3
  NoFlow = NoFlow
  UdpFlows = {dhcp}
  DnsFlows = {}
  DhcpFlows = {dhcp}
  IcmpFlows = {ping}
  TcpFlows = {tcp}
  EchoIds = {1}
  Ptrs = {p1, p2, p3}
  MaxSessions = 1
  TunYield = 2
  Exits = TRUE
SYMMETRY PtrSymmetry
INVARIANTS TypeOK NoDanglingEvent SocketOwned OneSocketPerFlow SessionBound
