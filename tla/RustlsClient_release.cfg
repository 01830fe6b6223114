CONSTANTS
    MaxEarly <- MCMaxEarly
    MaxWrite <- MCMaxWrite
    PacketOverhead <- MCPacketOverhead
    MaxMtu <- MCMaxMtu
    None = None
    DebugAssertions = FALSE
SPECIFICATION Spec
INVARIANT
    MtuContract
\* A connection stops once traffic keys are installed, and a debug build
\* stops at a failed debug_assert!.
CHECK_DEADLOCK FALSE
