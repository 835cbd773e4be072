CONSTANTS
  q1 = q1  q2 = q2  q3 = q3  sw0 = sw0  sw1 = sw1
  c1 = c1  c2 = c2  cx = cx
  s1 = s1  s2 = s2  a1 = a1  a2 = a2  a3 = a3
  Ports = {q1, q2, q3}
  Switch <- MCSwitch
  SettingsIds = {s1, s2}
  BgpRefs = {c1, c2, cx}
  Asn <- MCAsn
  Addrs = {a1, a2, a3}
  LotAddrs = {a1, a2}
  PeerChoices = {{}, {c1}, {c2}, {c1, c2}, {cx}}
  AddrChoices = {{}, {a1}, {a2}, {a3}}
  NoId = NoId
  NoSettings = NoSettings
  NoPort = NoPort
SPECIFICATION Spec
INVARIANTS OneAsnPerSwitch
