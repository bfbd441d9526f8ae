SPECIFICATION Spec
CONSTANTS
    Rows <- MCRows
    Vacancies <- MCVacancies
    VacancyOf <- MCVacancyOf
    BatchSize = 1
    MaxQueued <- MCMaxQueued
INVARIANTS
    AttemptsBounded
    CompleteLeavesNothing
PROPERTIES
    CarriedIsResolved
