CONSTANTS
  Lines <- SomeLines
  NULL = NULL
  LengthOf <- Pieces
  MAX_BOOT_MODULE_PATH = 2
  FilesAt <- SomeFiles
  MAX_BOOT_MODULES = 2
  Exported <- ExportedSymbols
  Base <- HeapMemory
  WORD = 1024
  FIELD = 256
SPECIFICATION CmdlineSpec
INVARIANTS ModulesInv PatchesReach NothingLeaked RunsWhole BootOptionsRead
