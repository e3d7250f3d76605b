SPECIFICATION FairSpec
CONSTANTS
  Nobody = Nobody
  NoVerb = NoVerb
  d = d
  c = c
  Writers = {d, c}
  Processes = {"daemon", "cli"}
  ProcessOf <- MCProcessOf
  Names = {"a", "b"}
  Extras = {"x"}
  Attempts = 2
  MaxVerbs = 2
  MaxEdits = 2
  MaxDeaths = 1
INVARIANT TypeOK
PROPERTIES EditsSurvive ImplementsBook EveryVerbAnswers
CHECK_DEADLOCK FALSE
