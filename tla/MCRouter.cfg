CONSTANTS
  Letters <- MCLetters
  Configs <- MCConfigs
  MaxPlugins = 2
  CoreOffers <- MCCoreOffers
  PluginOffers <- MCPluginOffers
  NativeTool <- MCNative
  Names <- MCNames
  HeaderSets <- MCHeaders
  MaxChanges = 1
SPECIFICATION FairSpec
INVARIANTS TypeOK RoutedBack LinksLead CredentialsApart CapabilityIsHonest
PROPERTY GatewayServes
CHECK_DEADLOCK FALSE
