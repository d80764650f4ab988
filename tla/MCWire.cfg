SPECIFICATION CallsSpec
CONSTANTS
    Plants <- MCPlants
    MaxCalls = 2
    BufferCapacity = 2048
    Asks <- MCAsks
    BlockReads <- MCBlockReads
    BlockWrites <- MCBlockWrites
    VerbsOf <- MCVerbsOf
    MaxPolls = 2
INVARIANTS
    ReadsWhatIsThere
    MemoryIsWhatWasAsked
    AcceptedIsServed
    AnswersAreTaken
    SentAsMeant
    BlockIsWhatIsDeclared
    BlockWriteIsItsFields
    TypedIsWhatIsThere
    ErrorTellsWhatHappened
PROPERTIES
    HarmlessIsHarmless
