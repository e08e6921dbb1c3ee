SPECIFICATION DetectionSpec
CONSTANTS
    Nothing = Nothing
    Scores <- const_Scores
    MaxWords <- const_MaxWords
PROPERTIES
    MoreSaidStaysCited
    OnlyNearMissesLower
