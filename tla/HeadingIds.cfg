CONSTANTS
    h1 = h1
    h2 = h2
    Titles = {h1, h2}
    Slug <- NumberedSlugs
    MaxAttempts = 2
    Texts = {p}
    MaxLen = 5
    MaxCells = 4000000
    Blank <- EmptyParagraph
SPECIFICATION Spec
INVARIANTS
    HeadingIdsAreUnique
PROPERTY StableIdsStay
