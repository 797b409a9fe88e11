CHECK_DEADLOCK FALSE

CONSTANTS
    Budgets <- SmallBudgets
    MaxSteps = 2

SPECIFICATION Spec

INVARIANTS
    TypeOK
    RestoresWhatWasSaid
    CallsArePaired
    FileWithinMemory

PROPERTIES
    MailTurnsBack
    SteersAreAnswered
