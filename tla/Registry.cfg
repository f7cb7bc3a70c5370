SPECIFICATION Spec
CONSTANTS
  Servers <- TwoServers
  Configured <- OfSettings
  Tools <- SomeTools
  BuiltIn <- OneBuiltIn
  Keys <- OwnKeys
  KeyOf <- OwnKeyOf
  Offers <- Varying
  Admins = {a1, a2}
  LoadLimit = 1
  MaxRequests = 3
  MaxClients = 2
  s1 = s1 s2 = s2 t = t fetch = fetch
  k1 = k1 k2 = k2 kf = kf
INVARIANTS TypeOK RegistryWhole ClientsOwned RegisteredIsActive
PROPERTIES RequestsEnd
CHECK_DEADLOCK FALSE
