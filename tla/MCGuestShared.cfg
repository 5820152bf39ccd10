SPECIFICATION Spec
CONSTANTS
  G = 2
  MaxGuest = 4
  Browsers <- MCBrowsers
  Ips <- MCIps
  NoIp = "noip"
  IpOf <- MCIpOf
  HashOf <- MCHashOf
INVARIANTS
  TypeOK
  CountExact
