CONSTANTS
  Disks <- MCShortName
  MAX_BLOCK_DEVICES = 16
  PER_SECTOR = 2
  DISK_SECTORS = 131072
  BlockCounts = {0, 1, 8, 9, 200, 255}
  GroupSizes = {0, 1, 4, 8, 255}
  WORD = 256
SPECIFICATION FairExt2Spec
INVARIANTS ListsPartitions
