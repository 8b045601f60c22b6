SPECIFICATION Spec
CONSTANTS
  git = git
  github = github
  c1 = c1
  c2 = c2
  t1 = t1
  t2 = t2
  Targets = {t1, t2}
  Providers = {git, github}
  Clauses = {c1, c2}
  Epsilon = 1
  Rules <- MCRules
  MaxRules = 3
  Manifests <- MCManifests
INVARIANTS OrderFree TraceExplains KnowledgeNotHidden
PROPERTY DegradeNeverPromotes
