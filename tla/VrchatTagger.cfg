SPECIFICATION Spec
CONSTANTS
  SignatureLength = 2
  HeaderLength = 2
  CrcLength = 1
  BufferSize = 3
  MaxChunkLength = 9
  MaxLength = 10
  NUL = NUL
  BOM = BOM
  Space = Space
  Byte = Byte
  Symbols = {NUL, BOM, Space, Byte}
  Description = Description
  AdobeXMP = AdobeXMP
  Comment = Comment
  UserIds = {"usr_1", "usr_2"}
  WorldIds = {"wrld_1", "wrld_2"}
  WorldLike = {"wrld_1", "wrld_2", "wrld_bad"}
  Numbers = {"0"}
  Days = {"2025-08-30"}
  Versions = {"2.10"}
  Parentheticals = {"(android)"}
  None = none
  Files <- MCFiles
  LegacyOf <- MCLegacyOf
INVARIANTS
  ReadsAllThereIs
  CacheIsTheFile
PROPERTIES
  BestIsDerived
  SceneIsTagged
  IdentityIsRight
