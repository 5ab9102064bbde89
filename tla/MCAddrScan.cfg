SPECIFICATION ScanSpec
CONSTANTS
    Prefixes <- MCBlocks
    Half = 512
    Second = 10
    MaxSeconds = 20
    DefaultSeconds = 3
INVARIANT ReturnsLowestFree
PROPERTY Terminates
