\* The services: MCServices gives the constants of each part.
CONSTANTS
  Unused = Unused
SPECIFICATION Spec
INVARIANTS
  OptionsAreHonoured
  MovesAreSafe
  ErrorsTellTheTruth
  BuildersAgree
  ObservationsAreTrue
