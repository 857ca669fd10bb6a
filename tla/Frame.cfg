\* Bytes below 5, frames of up to 16 bytes, two bytes of payload.
CONSTANTS
    Base = 5
    MaxFrameLen = 16
    Frames <- SomeFrames
    Payload <- TwoBytes
SPECIFICATION Spec
INVARIANTS
    TypeOK
    RoundTrip
    PayloadFollows
    Canonical
    RefusesExactlyTooLarge
CHECK_DEADLOCK FALSE
