SPECIFICATION Spec
CONSTANTS
  AllBanks = {0, 1, 2}
  Bmp = {0, 2}
  PblksPerBank = 2
  STAMP_PAGE_OFFSET = 3
  FW_PAGE_OFFSET = 4
  PagesPerBlk = 6
  Images = {1, 2}
  NumFwPages <- MCNumFwPages
  Dirs = {"d1"}
  BadPatterns <- MCBadPatterns
  IdReads <- MCIds
  NAND_SPEC_MF = 1
  NAND_SPEC_ID <- MCSpecId
  BuiltSize = 64
  MaxFaults = 2
  SCAN_LIST_ITEMS = 2
INVARIANTS
  BadBlocksSpared
  ListTrusted
  InstalledIsComplete
  BootBlock
  SdramMatches
