CONSTANTS
  Letters <- MCLetters
  Configs <- MCConfigs
  MaxPlugins = 2
  CoreOffers <- MCCoreOffers
  PluginOffers <- MCPluginOffers
  NativeTool <- MCNative
  Names <- MCNames
  HeaderSets <- MCHeaders
  MaxChanges = 1
SPECIFICATION Spec
INVARIANT PrefixLeadsBack
CHECK_DEADLOCK FALSE
