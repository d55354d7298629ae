SPECIFICATION AnalysisSpec
CONSTANTS
    Persons <- MCPersons
    Locations <- MCLocations
    Organizations <- MCOrganizations
    Phones <- MCPhones
    Vehicles <- MCVehicles
    Within <- MCWithin
    Offset <- MCOffset
    Widest = 16
    Similar <- MCSimilar
    Length <- MCLength
    Near <- MCNear
    CloseTo <- MCNear
    Sentences <- MCSentences
    CallRows <- MCCallRows
    TransferRows <- MCTransferRows
    Members <- MCMembers
    CaseIds <- MCCaseIds
    CaseArtifacts <- MCCaseArtifacts
    MaxMinutes = 90
    MaxSentences = 3
    MaxRows = 4
    MaxMembers = 4
    MaxArtifacts = 4
INVARIANTS RelationsHaveSentence NamesAreCanonical SummariesAgree  SweepFindsAllPairs
PROPERTIES FlaggedStaysFlagged
CHECK_DEADLOCK FALSE
