CONSTANTS
  Client = {0, 1, 2}
  Entry = {0, 1, 2}
  None = None
  MaxInputs = 3
  GivenSettings <- MCSettings
SPECIFICATION FairSpec
INVARIANTS
  SubmittedMeansCollected
  CompleteUnlessStopped
  SettingsHonoured
PROPERTIES
  ImplementsCampaign
  SessionEnds
