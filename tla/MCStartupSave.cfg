CONSTANTS
  WordBits = 8
  Uint8Max = 15
  Uint16Max = 63
  Int64Max = 300
  RealMax = 1000000
  AllowedMax = 100
  Surface = 40
  Texts <- MCTexts
  NamespacedIds <- MCNamespaced
  HexColors = {"#102030"}
  SafePaths = {"a.lua", "b.lua"}
  LoadableFiles = {"a.lua"}
  UnsafeMods = {"", ".."}
  Hash <- MCHash
  Contents <- MCContents
  BaseContents <- MCBaseContents
  RootSets <- MCRootSets
  UserFiles <- MCUserFiles
SPECIFICATION Spec
INVARIANT SettingsWhole
