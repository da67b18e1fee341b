SPECIFICATION Spec
CONSTANTS
    VocabNames = {type}
    TypeVocab = type
    TermNames = {note, page}
    Blank = Blank
    Texts = {x1, x2}
    Keep = Keep
    NoTerm = NoTerm
    Requests = {r1, r2}
    MaxVocabs = 2
    MaxNodes = 1
SYMMETRY Symmetry
INVARIANTS
    TypeOK
    ControlledIsDeliberate
PROPERTIES
    TypeGuarded
    OnlyPassedFieldsMove
    DropIsAnnounced
    ContentIsACatalogue
