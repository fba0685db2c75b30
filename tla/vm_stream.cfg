SPECIFICATION RFairSpec
CHECK_DEADLOCK FALSE
CONSTANTS
    Parsed = {"radius", "flags", "diameter", "chain", "pads"}
    HandMade = {"counted", "endless", "open", "past"}
    Streamed = {"radius", "flags", "diameter", "chain", "counted", "endless"}
    MaxLen = 3
    MaxRefDepth = 2
    Jobs <- MCJobs
    Flows <- MCFlows
    Labels <- Names
    Slots <- MCSlots
    ByteBits = 2
    WordBits = 8
    SliceCap = 3
    MaxInstructions = 100
    MaxLoopIterations = 2
INVARIANTS
  HintExact
  CompiledMeansSource
PROPERTIES
  ResumeEquivalent
  Returns
