\* Streams of up to three parts, in chunks of any size.
SPECIFICATION Spec
CONSTANTS
    Streams <- StreamsOf3
    Chunks <- Sizes
INVARIANTS NothingLost AsItCame
CHECK_DEADLOCK FALSE
