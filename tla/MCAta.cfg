CONSTANTS
  Devices <- MCDevices
  LBA28 = 8
  ATA_POLL_LIMIT = 2
  MaxLba = 7
  MaxCount = 3
  NONE = NONE
SPECIFICATION FairSpec
INVARIANTS AtaInv RightSectors
PROPERTIES ReadsReturn
