SPECIFICATION BufferSpec
CONSTANTS
    ChunkSize = 3
    Byte = {a, b}
    Zero = zero
    NilSlice = nil
    MaxWritten = 7
    MaxPush = 2
    MaxRead = 2
    MaxPattern = 3
CHECK_DEADLOCK FALSE
INVARIANT IndexOfDocumented
