\* A line program of addresses up to 3 and lines up to 2, with LEB128 operands of
\* up to two bytes of one bit; two calls of Symbolize; two threads with two
\* paths; ints of 3 and 6 bits.
CONSTANTS
  MaxAddress = 3
  MaxLine = 2
  MaxChunks = 2
  Radix = 2
  MaxBytes = 2
  MinLength = 1
  LineBase <- MCLineBase
  LineRange = 3
  OpcodeBase = 10
  MaxOpcode = 15
  FileNames <- MCFileNames
  IncludeDirectories <- MCIncludeDirectories
  CompDirs <- MCCompDirs
  MainNames <- MCMainNames
  Elves <- MCElves
  Loads <- MCLoads
  Others <- MCOthers
  RefusedNames <- MCRefused
  MaxAddr = 15
  MaxCalls = 2
  FThreads = {t1, t2}
  Paths = {"x", "y"}
  MaxFd = 2
  MaxInode = 2
  MaxSize = 1
  Max32 = 3
  Max64 = 31
  Nested <- MCNested
  Instances <- MCInstances
  Documents <- MCDocuments
SPECIFICATION Spec
INVARIANTS LocationRight SymbolRight DescriptorsOwned JsonRoundTrip
CHECK_DEADLOCK FALSE
