CONSTANTS
  Objects = {o1, o2, o3}
  Configs <- SharingConfigs
  NoConfig = NoConfig
  BadTargets = {"bad"}
  MaxShared = 3
SPECIFICATION RegistrySpec
INVARIANTS
  RegistryInv
  SharingIsKey
PROPERTIES
  RegistryOnlyGrows
