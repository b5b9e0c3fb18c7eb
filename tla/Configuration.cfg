SPECIFICATION FairSpec
CONSTANTS
    Agents = {a1}
    Specs <- MCSpecs
    DefaultSpec <- MCDefault
    Revisions = {1, 2}
    FirstRevision = 1
    MaxDisturbances = 2
INVARIANTS TypeOK CertsAgree CertsBeforeAgents CalculatorAhead
PROPERTY Converges
CHECK_DEADLOCK FALSE
