\* An 8-bit format: 4 exponent bits, 3 mantissa bits (256 patterns,
\* 65536 operand pairs); s_nan's payload is 2 below the quiet bit 4.
CONSTANTS
    EXP_BITS = 4
    MANTISSA_BITS = 3
    NAN_PAYLOAD = 2

SPECIFICATION Spec
INVARIANT TotalCmpIsIeeeOrder
