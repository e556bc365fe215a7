SPECIFICATION Spec
CONSTANTS
  rebook = rebook
  rename = rename
  console = console
  capture = capture
  Actions = {rebook, rename}
  TraitsOf <- MCTraitsOf
  Costs = {0, 120}
  Recorders = {console, capture}
  MaxEvents = 4
CONSTRAINT PairsOfCalls
INVARIANTS
  TypeOK
  OneAnswerEach
  PermitsHonourAnswers
  VoidsAreOfGrants
PROPERTY ImplementsConsent
SYMMETRY MCSymmetry
