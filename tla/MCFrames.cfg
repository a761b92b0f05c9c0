CONSTANTS
    MaxRecords = 2
    Uuids <- MCUuids
    Doubles <- MCDoubles
    Stamps <- MCStamps
    Texts <- MCTexts
    Daytimers <- MCDaytimers
    Weathers <- MCWeathers
    Negatives <- MCNegatives
    KeyLimit = 24
    ValueLimit = 9
    Utf8 <- MCUtf8
    Pieces <- MCPieces
    MaxPieces = 5
    Commands <- MCCommands
SPECIFICATION FramesSpec
INVARIANTS RecordsWhole NamesAgree ScanAgrees EchoMatches
\* A message has a last byte.
CHECK_DEADLOCK FALSE
