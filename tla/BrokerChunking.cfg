\* Every text of up to six characters, every change between ten settings.
SPECIFICATION Spec
CONSTANTS
    MaxLength = 6
    Settings <- SmallSettings
    MinContext = 2
    Overhead = 1
INVARIANTS
    PlanIsNeverRefused
    RequestsFit
PROPERTY EveryPieceAdvances
