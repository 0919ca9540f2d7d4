SPECIFICATION PantrySpec
CONSTANTS
    Requests = {r1, r2}
    MaxRequests = 4
    Irregular <- SomeIrregular
    NeverSingular <- SomeNeverSingular
    AlwaysPlural <- SomeAlwaysPlural
    StemLetters <- Lengths
    Hissing = {"x", "box", "bunch", "pinch", "dash", "quich", "radish"}
    Buzzing = {}
    Modifiers <- SomeModifiers
    FormNouns <- SomeFormNouns
    Phrases <- SomePhrases
    Keywords <- SomeKeywords
    Comma <- CommaWord
    Note <- NoteWord
    Written <- Spellings
    EarlierNames <- Earlier
    Unkeyed = Unkeyed
    NoRow = NoRow
    MaxRows = 4
    NotAWord <- NotWords
    NoAmount = NoAmount
    PrepWords <- SomeModifiers
    NoNumber = NoNumber
    Vocabulary <- Runs
    MaxWords = 3
    PageLines <- Lines
    Quantities <- Sent
    SentUnits <- UnitsSent
    NoLine = NoLine
SYMMETRY Symmetry
INVARIANTS
    FoldKeepsTheFood
    OneRowPerFood
    LinesCanBeWrittenBack
CHECK_DEADLOCK FALSE
