SPECIFICATION TerminalSpec
CONSTANTS
    Capacity = 2
    Byte = {0, 1}
    Calls = {"writechar", "write"}
    MaxLen = 3
    MaxSent = 4
    Glyph = {"a", "b"}
    TermWidth = 4
    LINE_SIZE = 5
    MaxLines = 2
    MaxKeys = 5
    OutSize = 4
    ConsoleSize = 3
    MaxInput = 2
    MaxMessages = 2
    Chunk = 2
    ChanSize = 3
    MaxCount = 3
    MaxBytes = 4
    CharBits = 4
    IntBits = 7
    Values <- PrintedValues
    MaxWidth = 4
    Sizes = {1, 3, 9}
    WordSize = 2
    NumberBits = 8
    MaxCopy = 6
    Letters = {1, 2}
    MaxString = 3
    NumberChars = {32, 48, 55, 57, 97}
INVARIANTS QueueSound   ConsoleLinesWhole ChanExact 
PROPERTIES Served
CHECK_DEADLOCK FALSE
