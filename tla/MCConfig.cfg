CONSTANTS
    aFile = aFile
    FileNames <- MCFileNames
    Lines <- MCLines
    Memories <- MCMemories
    AddressLimit = 8
    MaxLines = 5
SPECIFICATION Spec
INVARIANTS
    TypeOK
    FlowsMeetTheirPackets
    BuiltAsWritten
\* Reading ends.
CHECK_DEADLOCK FALSE
