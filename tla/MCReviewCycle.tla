---------------------------- MODULE MCReviewCycle ----------------------------
EXTENDS ReviewCycle

CONSTANTS h1, h2, cr, codex

Says(markers)       == [Silence EXCEPT !.says = markers]
SaysOf(markers, c)  == [Says(markers) EXCEPT !.about = c]
Limited(markers, w) == [Says(markers) EXCEPT !.wait = w]

\* CodeRabbit: its status comment through a review, quota notices, a pause next
\* to a clean summary, and a finding in the conversation.
MCCommentBodies ==
  { SaysOf({"processing", "walkthrough"}, h2), SaysOf({"completed", "walkthrough"}, h1),
    SaysOf({"walkthrough"}, h2), SaysOf({"clean"}, h2),
    Limited({"rate_limit", "notice"}, 2), Limited({"rate_limit", "clean"}, 1),
    SaysOf({"review_paused", "clean"}, h2),
    Says({"potential_issue"}) }
MCReviewBodies ==
  {Silence, [Silence EXCEPT !.findings = {"actionable"}], Limited({"notice"}, 0)}
=============================================================================
