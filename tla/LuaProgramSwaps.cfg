CONSTANTS
    Modulus = 64
    MaxIndexRk = 3
    FieldsPerFlush = 2
    MaxArgC = 3
    Programs <- Swaps
    GasLimits <- MCSwapLimits
    RegistrySize = 60
    MaxTableGetLoop = 3
    Compile <- MCCompile
    MeaningOf <- MCMeaning
SPECIFICATION Spec
INVARIANT MeansWhatItSays
