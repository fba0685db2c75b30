SPECIFICATION RSpec
CHECK_DEADLOCK FALSE
CONSTANTS
    Parsed = {"gtpu"}
    HandMade = {}
    Streamed = {}
    MaxLen = 2
    MaxRefDepth = 2
    Jobs <- MCJobs
    Flows <- LongFlows
    Labels <- Names
    Slots <- MCSlots
    ByteBits = 2
    WordBits = 8
    SliceCap = 3
    MaxInstructions = 100
    MaxLoopIterations = 1
INVARIANT
    CompiledMeansSource
