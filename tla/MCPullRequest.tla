---------------------------- MODULE MCPullRequest ----------------------------
EXTENDS PullRequest

CONSTANTS h1, h2, cr, codex

Says(markers)       == [Silence EXCEPT !.says = markers]
SaysOf(markers, c)  == [Says(markers) EXCEPT !.about = c]

\* CodeRabbit and a bot without an enrichment: a quota notice, a failure, a clean
\* comment that names a head, and a comment without markers.
MCPlainBodies ==
  {Says({"rate_limit"}), Says({"review_failed"}), Silence, SaysOf({"clean"}, h2)}
MCPlainReviews == {Silence}
=============================================================================
