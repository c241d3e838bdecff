SPECIFICATION FairSpec
CONSTANTS
Radix = 6
Bodies <- MCBodies
WriterLimit = 7
ReaderLimit = 6
MaxBatchRecords = 4
WireCapacity = 4
MaxFrames = 3
INVARIANTS FramesArriveWhole DecoderIsExact
PROPERTIES EofSurfaces ImplementsFrameLink
CHECK_DEADLOCK FALSE
