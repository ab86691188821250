CONSTANTS
  Spaces <- MCSpaces
  Pages <- MCPages
  BrkBase = 3
  MapBase = 5
  StackBase = 8
  StackTop = 10
  PgSize = 2
  Args = "args"
  Keys = {1}
  Frames <- MCFrames
  NoFrame = 0
  Values <- MCValues
  Zero = "0"
  Files <- MCFiles
  NoFile = "none"
  InitialFiles <- MCInitialFiles
  Workloads <- MCWorkloads
SPECIFICATION Spec
INVARIANT AreasSound
PROPERTY IsFlatMemory
