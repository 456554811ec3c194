\* A checksum header written the way the spec describes it: zero-padded
\* hex digits, upper or lower case. verify_http_crc32 prints its own CRC
\* with "%8x" (space-padded, lower case) and compares with strcmp.
CONSTANTS
    W = 16
    Poly <- MCPoly
    ByteVals <- MCByteVals
    MaxLen = 7
    MaxArmLen = 1100
    NULL = NULL
SPECIFICATION Spec
INVARIANT AcceptsSpecFormattedCrc
