SPECIFICATION Spec
CONSTANTS
    Messages <- MessagesMC
    Stopped <- StoppedMC
    LogFile <- LogFileMC
    Environments <- EnvironmentsMC
    Directories <- DirectoriesMC
    StartTime <- StartTimeMC
    MaxLogged = 3
    MaxLives = 2
INVARIANTS
    FileTellsWhatWasLogged
    WrittenWhenReturned
    AllLevelsOrNone
