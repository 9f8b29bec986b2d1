SPECIFICATION Spec
CONSTANTS
  Unset = unset
  Embedders = {"local", "ollama"}
  Limits = {10}
  ResultsDirs = {"elsewhere"}
  Baselines = {"reference"}
  Endpoints = {"api.openai.com", "https://openrouter.ai/api/v1"}
  ModelIds = {"gpt-4o", "llama-3.3-70b"}
INVARIANTS
  TypeOK
  NonOfficialModeNeverEmits
  FreeRunPaysNothing
  BareCommandIsCanonical
  RealRowIsHonest
  FinerFlagWins
CHECK_DEADLOCK FALSE
