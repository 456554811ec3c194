\* crc32_do on both architectures and the compute / verify round trip.
CONSTANTS
    W = 16
    Poly <- MCPoly
    ByteVals <- MCByteVals
    MaxLen = 7
    MaxArmLen = 1100
    NULL = NULL
SPECIFICATION Spec
INVARIANTS
    CrcDoIsBytewise
    ArmConsumesAll
    ComputeVerifyRoundTrip
    CorruptionDetected
