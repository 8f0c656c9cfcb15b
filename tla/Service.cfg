SPECIFICATION FairSpec
CONSTANTS
    AddressBytes <- SmallAddresses
    Nothing = Nothing
    Uint32Max = 4096
    MaxExponent = 9
    IntHalf = 8388608
    Rejected = Rejected
    Settings <- SomeSettings
    Documents <- SomeDocuments
    Versions = {10, 11, 12}
    MaxUpdates = 2
    MaxAttempts = 12
    Texts <- SomeTexts
    Strings <- SomeStrings
    ByteStrings <- SomeByteStrings
    Buffers <- SomeBuffers
INVARIANTS
    UsedComponentsAreAlive
    ServingIsConfigured
    PoliciesStaySound
    ClientsDoNotChooseTheirAddress
    DeliveredMailIsWellFormed
    SecretsAreFaithful
PROPERTIES
    ReadyMeansMigrated
    StartsAndStops
    EventuallyReady
CHECK_DEADLOCK FALSE
