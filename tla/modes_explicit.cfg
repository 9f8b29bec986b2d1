SPECIFICATION Spec
CONSTANTS
  Unset = unset
  Embedders = {"local", "openai", "ollama"}
  Limits = {10}
  ResultsDirs = {"elsewhere"}
  Baselines = {"reference"}
  Endpoints = {}
  ModelIds = {}
INVARIANT
  ExplicitModelsWin
CHECK_DEADLOCK FALSE
