SPECIFICATION Spec
CHECK_DEADLOCK FALSE
CONSTANTS
    NBMNEMONICS = 4
    NoCategory = none
    OperandByte = 68
    MAXOPS = 2
    MAXMNEMONICS = 6
    Roms <- MCRoms
    Names <- MCNames
    FirstTexts <- MCFirstTexts
    UsualTexts <- MCUsualTexts
    WholeText <- MCWholeText
    Scrambled <- MCScrambled
    Bank0Room = 16000
    MaxConversions = 3
    NoText = NoText
    NoFile = NoFile
    NoRom = NoRom
INVARIANTS TypeOK AcceptedIsWritten UnseenDamage  MixedOnlySwallowed OneProgram SourceKept OneGamePerName
