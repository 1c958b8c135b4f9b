\* Two slots, five deposits, limits of two per slot and three in all.
CONSTANTS
    Slots = {"a", "b"}
    Sizes = {1, 2}
    MaxPerSlot = 2
    MaxTotal = 3
    MaxBytes = 5
    MaxWant = 2
    Ttl = 2
    MaxDeposits = 5
    MaxClock = 5
SPECIFICATION Spec
INVARIANTS TypeOK EnvelopesBounded BytesBounded
PROPERTIES ClaimsFreshInOrder EnvelopesExpire ImplementsMailbox
CHECK_DEADLOCK FALSE
