CONSTANTS
    MinQBits = 3
    MinPBits = 4
    Threshold = 4
    Lengths <- MCLengths
    OCBCases <- MCOCBCases
    Shapes <- MCShapes
    Pieces = {1, 4, 7, 9, 16}
    Keys = {2, 3}
    KeyLength = 16
    Payloads <- MCPayloads
    MaxData = 14
    Bits = {5, 6, 7}
    Exponent = 5
    Primes = {37, 43, 47, 53, 59}
    DSAKeys <- MCDSAKeys
    ElGamalKeys <- MCElGamalKeys
    MinLength = 512
    ExpBias = 1
    FormatKeys <- MCKeys
    ParamCases <- MCParamCases
    S2Ks <- MCS2Ks
    Sessions <- MCSessions
    PasswordCases <- MCPasswordCases
    SignatureCases <- MCSignatureCases
    Attachments <- MCAttachments
    OtherData <- MCOtherData
SPECIFICATION FormatsSpec
INVARIANTS ModesRight EncodingsRight PublicKeysRight MaterialRight SessionKeysRight SignaturesHold
CHECK_DEADLOCK FALSE
