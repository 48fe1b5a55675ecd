\* Streams of up to four access units against a driver that may fail once.
CONSTANTS
    Streams <- MCStreams
    MIN_FRAMES = 2
    MAX_AUS = 4
    NUM_OUT_BUFS = 2
    NUM_CAP_BUFS = 2
    MAX_ITERATIONS = 14
    MAX_POLLERR = 2
SPECIFICATION Spec
INVARIANTS
    BitstreamIntact
    OnePicturePerUnit
    StopIsLast
    PassTruthful
    SoundDriverPasses
PROPERTY Terminates
CHECK_DEADLOCK FALSE
