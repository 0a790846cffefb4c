CONSTANTS
  UserArrays <- MCUserArrays
  PluginArrays <- MCPluginArrays
  HeaderMaps <- MCHeaderMaps
SPECIFICATION Spec
INVARIANTS
  
  PhpSeesAnswer
CHECK_DEADLOCK FALSE
