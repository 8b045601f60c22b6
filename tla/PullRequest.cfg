SPECIFICATION Spec
CONSTANTS
  h1 = h1
  h2 = h2
  cr = cr
  codex = codex
  NoCommit = NoCommit
  Commits = {h1, h2}
  Bots = {cr, codex}
  Required = {cr, codex}
  Enriched = {cr}
  CommentBodies <- MCPlainBodies
  ReviewBodies <- MCPlainReviews
  MaxComments = 1
  MaxTime = 2
  CIStatuses = {"pending", "success"}
INVARIANTS MergeMeansReviewed UnansweredMeansWait
