SPECIFICATION EitherSpec
CONSTANTS
    deck = deck
    cram = cram
    c1 = c1
    c2 = c2
    Card <- Cards
    Deck <- Decks
    Filtered = {cram}
    AtOrBelow <- Tree
    Home <- Origins
    None = None
    MaxChanges = 3
    MaxSpaChanges = 2
    Flags = {0, 5}
INVARIANTS
    AnswersFirstOfItsDeck
    ScreenIsCurrent
    CountsOnce
PROPERTIES
    TabCompletes
    SpaCompletes
