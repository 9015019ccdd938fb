CONSTANTS
  Task = {a, b}
  Consumer = {c, d}
  Nobody = Nobody
  Disablings = {{}}
  MaxWarnings = 1
  MaxExtra = 1
  MaxOptions = 2
  kv_specs <- MCkv_specs
  Beyond <- MCBeyond
  Mains <- MCMains
  Argvs <- MCArgvs
SYMMETRY Symmetry
SPECIFICATION ApiSpec
INVARIANTS
  TasksDoNotOverlap
  EventsInOrder
  ToldMeansEndSeen
  NoSleepOnEvent
  CallbacksInOrder
  CommandLineHonoured
  OptionsAsWritten
PROPERTIES
  ImplementsChannel
