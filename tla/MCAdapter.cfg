\* Two tests, three installations, three guards at once: a combined translation
\* and one more guard, in every order.
CONSTANTS
    None = None
    MaxGeneration = 3
    MaxGuards = 3
    MaxTests = 2
SPECIFICATION Spec
INVARIANTS
    StateMatchesSlots
    TestsStartClean
    TranslationStays
PROPERTIES
    TablesOutliveTranslations
CHECK_DEADLOCK FALSE
