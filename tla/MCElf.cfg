CONSTANTS
  Indices = {0, 1}
  KernelIndices = {1}
  HeapPages <- MCHeapPages
  UserPages <- MCUserPages
  ProgramPages <- MCProgramPages
  StackPage <- MCStackPage
  Programs <- MCPrograms
  PAGE = 3
  ImagePage <- MCImagePage
  LastFrame = 22
  MaxSpaces = 2
SPECIFICATION ElfSpec
INVARIANTS VmmInv RightsAsAsked SegmentsLoaded
PROPERTIES ImplementsSpaces
