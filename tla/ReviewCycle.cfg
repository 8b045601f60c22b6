SPECIFICATION Spec
CONSTANTS
  h1 = h1
  h2 = h2
  cr = cr
  codex = codex
  NoCommit = NoCommit
  Commits = {h1, h2}
  Bots = {cr}
  Required = {cr}
  Enriched = {cr}
  CommentBodies <- MCCommentBodies
  ReviewBodies <- MCReviewBodies
  MaxComments = 2
  MaxTime = 3
INVARIANTS ReadyMeansReviewed UnansweredTriggerBlocks NewestRulingWins EntryShape
PROPERTY TimeEndsOnlyCooldowns
