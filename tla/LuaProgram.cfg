CONSTANTS
    Modulus = 64
    MaxIndexRk = 3
    FieldsPerFlush = 2
    MaxArgC = 3
    Programs <- MCPrograms
    GasLimits <- MCGasLimits
    RegistrySize = 60
    MaxTableGetLoop = 3
    Compile <- MCCompile
    MeaningOf <- MCMeaning
SPECIFICATION Spec
INVARIANTS MeansWhatItSays FramesDisjoint
PROPERTIES GasIsFinal Ends
