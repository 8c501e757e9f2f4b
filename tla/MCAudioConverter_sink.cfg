\* what the daemon converts, from a queue that holds more than the clip
CONSTANTS
    InProperties <- MCMusicInput
    OutProperties <- MCMusicOutput
    Queues <- MCFullQueues
    Seconds = {1}
    Block = 2
SPECIFICATION Spec
INVARIANTS
    ExtraSecondIsEnough
\* the conversion ends
CHECK_DEADLOCK FALSE
