SPECIFICATION Spec
CONSTANTS
    Sections = {"A", "B", "L"}
    Keys = {"k", "l", "m", "n"}
    Values = {"u", "v", "v#"}
    Long = {"L"}
    Cut <- MCCut
    Places <- MCPlaces
    Embeds <- MCEmbeds
    Notes <- MCNotes
    Files <- MCFiles
    Edits <- MCEdits
    MaxWrites = 2
    MaxEdits = 1
INVARIANTS
    TypeOK
    FileMatchesMap
    SettingsSurvive

    
