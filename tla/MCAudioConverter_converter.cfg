\* every format and rate into itself and into mono and stereo of every rate
CONSTANTS
    InProperties <- AudioProperties
    OutProperties <- MCOutput
    Queues <- MCSomeQueues
    Seconds = {0, 1, 2}
    Block = 2
SPECIFICATION Spec
INVARIANTS
    ReadsInBuffer
    OutputFollowsStream
    TakesWhatWasAsked
    ClipFits
\* the conversion ends
CHECK_DEADLOCK FALSE
