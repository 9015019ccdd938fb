CONSTANTS
  Client = {0, 1, 2}
  Entry = {0}
  None = None
  MaxInputs = 1
  GivenSettings <- MCSettings
SPECIFICATION Spec
INVARIANT
  EndCarriesFailure
