CONSTANTS
  Archives <- MCArchives
  Paths <- MCPaths
  undotted <- MCundotted
  BLOCK = 4
  MAX_RAMFS_NODES = 5
  MAX_DEVFS_DEVICES = 32
  MAX_OPEN_FILES = 3
  NULL = NULL
  OpenedPaths <- MCOpenedPaths
  Fds <- MCFds
  Buffers <- MCBuffers
  ADDRESS = 16
  USER_END = 8
SPECIFICATION DescriptorsSpec
INVARIANTS VfsInv FilesFound
PROPERTIES ImplementsFileTable
