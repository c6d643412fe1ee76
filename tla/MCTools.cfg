SPECIFICATION Spec
CONSTANTS
  None = None
  Timings <- MCTimings
  Figures = {f1}
  Profiles = {2}
  MaxLines = 1
  MaxScriptRuns = 2
  MaxScriptFaults = 1
  DeckPlans <- MCDeckPlans
  DeckManifests <- MCDeckManifests
  Deps <- MCDeps
  MaxDeckRuns = 2
  MaxDeckFaults = 1
  AxisOrder <- MCAxes
  FaqDrafts <- MCFaqDrafts
  MinQuestions = 3
  MaxQuestions = 4
  MaxFaqRuns = 2
  MaxFaqFaults = 1
  ProvManifests <- MCProvManifests
  Catalogued = {"media", "cost"}
  PlanTexts = {{"title", "why now"}}
  Repos <- MCRepos
  MaxProvRuns = 2
  MaxProvFaults = 1
INVARIANTS ScriptHonest DeckWhole DeckCurrent SheetSound DisclosureTrue HygieneHonest
PROPERTIES KeepsContract
CHECK_DEADLOCK FALSE
