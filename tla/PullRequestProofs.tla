-------------------------- MODULE PullRequestProofs --------------------------
(***************************************************************************)
(* Proofs about a pull request under review: one bot's entry, the          *)
(* diagnostics of all bots, and what the agent is told, for every set of   *)
(* bots, of texts a bot may write and of commits, any number of comments   *)
(* and any length of time.                                                 *)
(***************************************************************************)
EXTENDS PullRequest, ShippedRulesProofs

\* A nonempty set of naturals with an upper bound has a greatest element.
LEMMA GreatestElement ==
  ASSUME NEW S \in SUBSET Nat, NEW bound \in Nat, \A x \in S : x <= bound, S # {}
  PROVE  \E m \in S : \A x \in S : m >= x
<1> DEFINE T == {bound - x : x \in S}
<1>1. T \in SUBSET Nat /\ T # {}
  <2>1. \A x \in S : bound - x \in Nat
    OBVIOUS
  <2> QED BY <2>1
<1>2. PICK t \in T : \A y \in T : t <= y
  <2> HIDE DEF T
  <2> QED BY <1>1, LeastPlace
<1>3. PICK m \in S : t = bound - m
  OBVIOUS
<1>4. ASSUME NEW x \in S
      PROVE  m >= x
  <2>1. m \in Nat /\ x \in Nat /\ bound - x \in T
    OBVIOUS
  <2>2. bound - m <= bound - x
    BY <1>2, <1>3, <2>1
  <2> HIDE DEF T
  <2> QED BY <2>1, <2>2
<1> QED BY <1>4

-----------------------------------------------------------------------------
(***************************************************************************)
(* The status comment.                                                     *)
(***************************************************************************)
Comments(bodies, limit) == {cs \in Seq([body : bodies, at : Nat]) :
                              \A i \in DOMAIN cs : cs[i].at <= limit}

LEMMA CommentShape ==
  ASSUME NEW bodies, NEW limit, NEW cs \in Comments(bodies, limit)
  PROVE  /\ cs \in Seq([body : bodies, at : Nat])
         /\ Len(cs) \in Nat
         /\ DOMAIN cs = 1 .. Len(cs)
         /\ \A i \in DOMAIN cs : /\ cs[i] \in [body : bodies, at : Nat]
                                 /\ cs[i].body \in bodies
                                 /\ cs[i].at \in Nat
                                 /\ cs[i].at <= limit
<1>1. cs \in Seq([body : bodies, at : Nat]) /\ \A i \in DOMAIN cs : cs[i].at <= limit
  BY DEF Comments
<1>2. Len(cs) \in Nat /\ DOMAIN cs = 1 .. Len(cs)
  BY <1>1
<1>3. ASSUME NEW i \in DOMAIN cs
      PROVE  cs[i] \in [body : bodies, at : Nat]
  <2> DEFINE Shape == [body : bodies, at : Nat]
  <2> HIDE DEF Shape
  <2>1. cs \in Seq(Shape)
    BY <1>1 DEF Shape
  <2>2. cs[i] \in Shape
    BY <1>2, <2>1
  <2> QED BY <2>2 DEF Shape
<1>4. \A i \in DOMAIN cs : cs[i].body \in bodies /\ cs[i].at \in Nat
  BY <1>3
<1> QED BY <1>1, <1>2, <1>3, <1>4

LEMMA GenericTierRange ==
  ASSUME NEW body \in Body
  PROVE  GenericTier(body) \in 0 .. 6
<1> DEFINE S == {0} \cup {GenericWeight[m] : m \in body.says \cap DOMAIN GenericWeight}
<1>1. DOMAIN GenericWeight = {"rate_limit", "review_paused", "review_failed"}
  BY DEF GenericWeight
<1>2. \A m \in DOMAIN GenericWeight : GenericWeight[m] \in 0 .. 6
  BY DEF GenericWeight
<1>3. S \in SUBSET Nat /\ \A x \in S : x <= 6
  BY <1>2
<1>4. PICK m \in S : \A x \in S : m >= x
  <2> HIDE DEF S
  <2>1. S # {}
    BY DEF S
  <2> QED BY <1>3, <2>1, GreatestElement
<1>5. Max(S) \in S
  <2> HIDE DEF S
  <2> QED BY <1>4 DEF Max
<1>6. S \subseteq 0 .. 6
  BY <1>2
<1> QED BY <1>5, <1>6 DEF GenericTier

LEMMA TierRange ==
  ASSUME NEW enriched \in BOOLEAN, NEW body \in Body
  PROVE  Tier(enriched, body) \in 0 .. 6
BY GenericTierRange DEF Tier, CoderabbitTier

\* Among some comments, one is newer than the others, or later on a tie.
LEMMA NewestExists ==
  ASSUME NEW limit \in Nat, NEW cs \in Comments(Body, limit),
         NEW among \in SUBSET DOMAIN cs, among # {}
  PROVE  \E i \in among : /\ Newest(cs, among) = cs[i]
                          /\ \A j \in among : cs[i].at >= cs[j].at
<1> DEFINE Times  == {cs[i].at : i \in among}
<1>1. /\ \A i \in DOMAIN cs : cs[i].at \in Nat /\ cs[i].at <= limit
      /\ DOMAIN cs = 1 .. Len(cs) /\ Len(cs) \in Nat
  BY CommentShape
<1>2. Times \in SUBSET Nat /\ Times # {} /\ \A x \in Times : x <= limit
  BY <1>1
<1>3. PICK at \in Times : \A x \in Times : at >= x
  <2> HIDE DEF Times
  <2> QED BY <1>2, GreatestElement
<1> DEFINE Last == {i \in among : cs[i].at = at}
<1>4. Last \in SUBSET Nat /\ Last # {} /\ \A x \in Last : x <= Len(cs)
  BY <1>1, <1>3
<1>5. PICK i \in Last : \A x \in Last : i >= x
  <2> HIDE DEF Last
  <2> QED BY <1>1, <1>4, GreatestElement
<1>6. /\ i \in among
      /\ \A j \in among : \/ cs[i].at > cs[j].at
                          \/ cs[i].at = cs[j].at /\ i >= j
  <2>1. i \in among /\ cs[i].at = at
    BY <1>5
  <2>2. ASSUME NEW j \in among
        PROVE  cs[i].at > cs[j].at \/ (cs[i].at = cs[j].at /\ i >= j)
    <3>1. at >= cs[j].at /\ at \in Nat /\ cs[j].at \in Nat
      BY <1>1, <1>2, <1>3
    <3>2. cs[j].at = at => i >= j
      BY <1>5
    <3> QED BY <2>1, <3>1, <3>2
  <2> QED BY <2>1, <2>2
<1> DEFINE k == CHOOSE n \in among :
                  \A j \in among : \/ cs[n].at > cs[j].at
                                   \/ cs[n].at = cs[j].at /\ n >= j
<1>7. /\ k \in among
      /\ \A j \in among : \/ cs[k].at > cs[j].at
                          \/ cs[k].at = cs[j].at /\ k >= j
  BY <1>6
<1>8. Newest(cs, among) = cs[k]
  BY DEF Newest
<1>9. \A j \in among : cs[k].at >= cs[j].at
  <2> HIDE DEF k
  <2> TAKE j \in among
  <2>1. cs[k].at \in Nat /\ cs[j].at \in Nat
    BY <1>1, <1>7
  <2>2. cs[k].at > cs[j].at \/ (cs[k].at = cs[j].at /\ k >= j)
    BY <1>7
  <2> QED BY <2>1, <2>2
<1> HIDE DEF k
<1> QED BY <1>7, <1>8, <1>9

\* selectStatusCommentForLogin finds a comment of the highest tier, newest of it.
LEMMA StatusCommentChosen ==
  ASSUME NEW enriched \in BOOLEAN, NEW limit \in Nat, NEW cs \in Comments(Body, limit),
         cs # <<>>
  PROVE  \E i \in DOMAIN cs :
           /\ StatusComment(enriched, cs) = cs[i]
           /\ \A j \in DOMAIN cs :
                /\ Tier(enriched, cs[i].body) >= Tier(enriched, cs[j].body)
                /\ Tier(enriched, cs[i].body) = Tier(enriched, cs[j].body)
                     => cs[i].at >= cs[j].at
<1> DEFINE tier(i) == Tier(enriched, cs[i].body)
           Tiers   == {tier(i) : i \in DOMAIN cs}
           top     == {i \in DOMAIN cs : \A j \in DOMAIN cs : tier(i) >= tier(j)}
<1>1. /\ cs \in Seq([body : Body, at : Nat])
      /\ DOMAIN cs = 1 .. Len(cs) /\ Len(cs) \in Nat
      /\ \A i \in DOMAIN cs : cs[i].body \in Body
  BY CommentShape
<1>2. \A i \in DOMAIN cs : tier(i) \in 0 .. 6
  BY <1>1, TierRange
<1> HIDE DEF tier
<1>3. DOMAIN cs # {}
  BY <1>1
<1>4. Tiers \in SUBSET Nat /\ Tiers # {} /\ \A x \in Tiers : x <= 6
  BY <1>2, <1>3
<1>5. PICK t \in Tiers : \A x \in Tiers : t >= x
  <2> HIDE DEF Tiers
  <2> QED BY <1>4, GreatestElement
<1>6. PICK m \in DOMAIN cs : t = tier(m)
  OBVIOUS
<1>7. m \in top /\ top \in SUBSET DOMAIN cs
  BY <1>5, <1>6
<1>8. PICK i \in top : /\ Newest(cs, top) = cs[i]
                       /\ \A j \in top : cs[i].at >= cs[j].at
  <2> HIDE DEF top
  <2> QED BY <1>7, NewestExists
<1>9. StatusComment(enriched, cs) = cs[i]
  BY <1>8 DEF StatusComment, tier
<1>10. ASSUME NEW j \in DOMAIN cs, tier(i) = tier(j)
       PROVE  cs[i].at >= cs[j].at
  BY <1>8, <1>10
<1> QED BY <1>8, <1>9, <1>10 DEF tier

-----------------------------------------------------------------------------
(***************************************************************************)
(* The classifiers, rung by rung.                                          *)
(***************************************************************************)
LEMMA FirstRung ==
  ASSUME NEW ladder, NEW n \in Nat, DOMAIN ladder = 1 .. n, NEW i \in 1 .. n,
         ladder[i][1], \A j \in 1 .. i - 1 : ~ ladder[j][1]
  PROVE  FirstOf(ladder) = ladder[i][2]
<1> DEFINE P(k) == ladder[k][1] /\ \A j \in 1 .. k - 1 : ~ ladder[j][1]
<1>1. \A k \in 1 .. n : P(k) => k = i
  <2> TAKE k \in 1 .. n
  <2>1. k < i => ~ ladder[k][1]
    OBVIOUS
  <2>2. i < k /\ P(k) => ~ ladder[i][1]
    OBVIOUS
  <2> QED BY <2>1, <2>2
<1>2. (CHOOSE k \in DOMAIN ladder : P(k)) = i
  BY <1>1
<1> QED BY <1>2 DEF FirstOf

\* classifyCoderabbitStatusWithBasis as the chain of conditions it is.
CoderabbitChain(cs, comment, rev, awaiting, time) ==
  IF Processing(comment.body) THEN "pending"
  ELSE IF awaiting THEN "pending"
  ELSE IF "review_paused" \in comment.body.says THEN "review_paused"
  ELSE IF Remaining(comment, time) > 0 THEN "rate_limited"
  ELSE IF Clean(comment.body) THEN "completed_clean"
  ELSE IF Finished(comment.body) THEN "completed"
  ELSE IF "review_failed" \in comment.body.says THEN "review_failed"
  ELSE IF \/ comment.body.wait > 0 \/ "notice" \in comment.body.says
          \/ NoticeOnly(rev.body) THEN "pending"
  ELSE IF rev.at > 0 THEN "completed"
  ELSE IF cs # <<>> THEN "pending"
  ELSE "not_triggered"

LEMMA CoderabbitRungs ==
  ASSUME NEW cs, NEW comment, NEW rev, NEW awaiting, NEW time
  PROVE  ClassifyCoderabbit(cs, comment, rev, awaiting, time) = CoderabbitChain(cs, comment, rev, awaiting, time)
<1> DEFINE ladder == << <<Processing(comment.body), "pending">>,
                         <<awaiting, "pending">>,
                         <<"review_paused" \in comment.body.says, "review_paused">>,
                         <<Remaining(comment, time) > 0, "rate_limited">>,
                         <<Clean(comment.body), "completed_clean">>,
                         <<Finished(comment.body), "completed">>,
                         <<"review_failed" \in comment.body.says, "review_failed">>,
                         <<\/ comment.body.wait > 0 \/ "notice" \in comment.body.says
                          \/ NoticeOnly(rev.body), "pending">>,
                         <<rev.at > 0, "completed">>,
                         <<cs # <<>>, "pending">>,
                         <<TRUE, "not_triggered">> >>
<1>0. ClassifyCoderabbit(cs, comment, rev, awaiting, time) = FirstOf(ladder)
  BY DEF ClassifyCoderabbit
<1>1. DOMAIN ladder = 1 .. 11
  OBVIOUS
<1>2. /\ ladder[1][1] <=> Processing(comment.body)
      /\ ladder[2][1] <=> awaiting
      /\ ladder[3][1] <=> "review_paused" \in comment.body.says
      /\ ladder[4][1] <=> Remaining(comment, time) > 0
      /\ ladder[5][1] <=> Clean(comment.body)
      /\ ladder[6][1] <=> Finished(comment.body)
      /\ ladder[7][1] <=> "review_failed" \in comment.body.says
      /\ ladder[8][1] <=> (\/ comment.body.wait > 0 \/ "notice" \in comment.body.says
                              \/ NoticeOnly(rev.body))
      /\ ladder[9][1] <=> rev.at > 0
      /\ ladder[10][1] <=> cs # <<>>
      /\ ladder[11][1] <=> TRUE
  OBVIOUS
<1>3. /\ ladder[1][2] = "pending"
      /\ ladder[2][2] = "pending"
      /\ ladder[3][2] = "review_paused"
      /\ ladder[4][2] = "rate_limited"
      /\ ladder[5][2] = "completed_clean"
      /\ ladder[6][2] = "completed"
      /\ ladder[7][2] = "review_failed"
      /\ ladder[8][2] = "pending"
      /\ ladder[9][2] = "completed"
      /\ ladder[10][2] = "pending"
      /\ ladder[11][2] = "not_triggered"
  OBVIOUS
<1> HIDE DEF ladder
<1>4. ASSUME NEW i \in 1 .. 11, ladder[i][1], \A j \in 1 .. i - 1 : ~ ladder[j][1]
      PROVE  ClassifyCoderabbit(cs, comment, rev, awaiting, time) = ladder[i][2]
  BY <1>0, <1>1, <1>4, FirstRung
<1>5. ClassifyCoderabbit(cs, comment, rev, awaiting, time) =
        IF ladder[1][1] THEN ladder[1][2]
        ELSE IF ladder[2][1] THEN ladder[2][2]
        ELSE IF ladder[3][1] THEN ladder[3][2]
        ELSE IF ladder[4][1] THEN ladder[4][2]
        ELSE IF ladder[5][1] THEN ladder[5][2]
        ELSE IF ladder[6][1] THEN ladder[6][2]
        ELSE IF ladder[7][1] THEN ladder[7][2]
        ELSE IF ladder[8][1] THEN ladder[8][2]
        ELSE IF ladder[9][1] THEN ladder[9][2]
        ELSE IF ladder[10][1] THEN ladder[10][2]
        ELSE ladder[11][2]
  BY <1>2, <1>4, SMTT(60)
<1> QED BY <1>2, <1>3, <1>5 DEF CoderabbitChain

\* classifyBotStatusGeneric likewise.
LEMMA GenericRungs ==
  ASSUME NEW cs, NEW comment, NEW rev, NEW awaiting
  PROVE  ClassifyGeneric(cs, comment, rev, awaiting) =
           IF "rate_limit" \in comment.body.says THEN "rate_limited"
           ELSE IF "review_paused" \in comment.body.says THEN "review_paused"
           ELSE IF "review_failed" \in comment.body.says THEN "review_failed"
           ELSE IF awaiting THEN "pending"
           ELSE IF rev.at > 0 THEN "completed"
           ELSE IF cs # <<>> THEN "pending"
           ELSE "not_triggered"
<1> DEFINE ladder == << <<"rate_limit" \in comment.body.says, "rate_limited">>,
                         <<"review_paused" \in comment.body.says, "review_paused">>,
                         <<"review_failed" \in comment.body.says, "review_failed">>,
                         <<awaiting, "pending">>,
                         <<rev.at > 0, "completed">>,
                         <<cs # <<>>, "pending">>,
                         <<TRUE, "not_triggered">> >>
<1>0. ClassifyGeneric(cs, comment, rev, awaiting) = FirstOf(ladder)
  BY DEF ClassifyGeneric
<1>1. DOMAIN ladder = 1 .. 7
  OBVIOUS
<1>2. /\ ladder[1][1] <=> "rate_limit" \in comment.body.says
      /\ ladder[2][1] <=> "review_paused" \in comment.body.says
      /\ ladder[3][1] <=> "review_failed" \in comment.body.says
      /\ ladder[4][1] <=> awaiting
      /\ ladder[5][1] <=> rev.at > 0
      /\ ladder[6][1] <=> cs # <<>>
      /\ ladder[7][1] <=> TRUE
  OBVIOUS
<1>3. /\ ladder[1][2] = "rate_limited"
      /\ ladder[2][2] = "review_paused"
      /\ ladder[3][2] = "review_failed"
      /\ ladder[4][2] = "pending"
      /\ ladder[5][2] = "completed"
      /\ ladder[6][2] = "pending"
      /\ ladder[7][2] = "not_triggered"
  OBVIOUS
<1> HIDE DEF ladder
<1>4. ASSUME NEW i \in 1 .. 7, ladder[i][1], \A j \in 1 .. i - 1 : ~ ladder[j][1]
      PROVE  ClassifyGeneric(cs, comment, rev, awaiting) = ladder[i][2]
  BY <1>0, <1>1, <1>4, FirstRung
<1>5. ClassifyGeneric(cs, comment, rev, awaiting) =
        IF ladder[1][1] THEN ladder[1][2]
        ELSE IF ladder[2][1] THEN ladder[2][2]
        ELSE IF ladder[3][1] THEN ladder[3][2]
        ELSE IF ladder[4][1] THEN ladder[4][2]
        ELSE IF ladder[5][1] THEN ladder[5][2]
        ELSE IF ladder[6][1] THEN ladder[6][2]
        ELSE ladder[7][2]
  BY <1>2, <1>4, SMTT(60)
<1> QED BY <1>2, <1>3, <1>5

-----------------------------------------------------------------------------
(***************************************************************************)
(* One bot's entry.                                                        *)
(***************************************************************************)
Reviews(bodies) == [body : bodies, at : Nat, sha : Commits \cup {NoCommit}]

LEMMA StatusCommentShape ==
  ASSUME NEW enriched \in BOOLEAN, NEW limit \in Nat, NEW cs \in Comments(Body, limit)
  PROVE  /\ StatusComment(enriched, cs).body \in Body
         /\ StatusComment(enriched, cs).at \in 0 .. limit
         /\ cs = <<>> => StatusComment(enriched, cs) = NoComment
         /\ cs # <<>> => \E i \in DOMAIN cs : StatusComment(enriched, cs) = cs[i]
<1>1. CASE cs = <<>>
  <2>1. StatusComment(enriched, cs) = NoComment
    BY <1>1 DEF StatusComment
  <2>2. Silence \in Body
    BY DEF Silence, Body, Markers, CountKinds
  <2> QED BY <1>1, <2>1, <2>2 DEF NoComment
<1>2. CASE cs # <<>>
  <2>1. PICK i \in DOMAIN cs : StatusComment(enriched, cs) = cs[i]
    BY <1>2, StatusCommentChosen
  <2>2. cs[i].body \in Body /\ cs[i].at \in Nat /\ cs[i].at <= limit
    BY CommentShape
  <2> QED BY <1>2, <2>1, <2>2
<1> QED BY <1>1, <1>2

\* An entry is well formed; a bot that owes an answer is not shown as done; a bot
\* shown as done has a text that reports it or a review; and a clean marker goes
\* with completed_clean.
LEMMA EntryFacts ==
  ASSUME NEW required \in BOOLEAN, NEW enriched \in BOOLEAN, NEW now_ \in Nat,
         NEW cs \in Comments(Body, now_), NEW rev \in Reviews(Body), NEW trig \in Nat,
         NEW hd, NEW e, e = EntryOf(required, enriched, cs, rev, trig, hd, now_),
         NEW comment, comment = StatusComment(enriched, cs)
  PROVE  /\ e \in Entry
         /\ e.required = required
         /\ e.awaiting <=> trig > comment.at /\ trig > rev.at
         /\ e.sha = ReviewCommit(enriched, comment, rev, hd)
         /\ e.awaiting => e.status \notin ReviewedTier
         /\ e.status \in ReviewedTier => (enriched /\ Finished(comment.body)) \/ rev.at > 0
         /\ e.status = "completed" => ~ e.clean
         /\ e.status = "completed_clean" => e.clean
<1> DEFINE awaits == Awaiting(cs, comment, rev, trig)
           talk   == \E i \in DOMAIN cs : FindingComment(cs[i].body)
           status == IF enriched THEN ClassifyCoderabbit(cs, comment, rev, awaits, now_)
                                 ELSE ClassifyGeneric(cs, comment, rev, awaits)
           cleans == enriched /\ Clean(comment.body)
           found  == IF enriched
                       THEN rev.body.findings \cup (IF talk THEN {"conversation"} ELSE {})
                       ELSE {}
<1>1. /\ e.required = required
      /\ e.status = status
      /\ e.sha = ReviewCommit(enriched, comment, rev, hd)
      /\ e.awaiting = awaits
      /\ e.clean = cleans
      /\ e.findings = found
  BY DEF EntryOf
<1>2. e = [required |-> required, status |-> status, sha |-> e.sha, awaiting |-> awaits,
           clean |-> cleans, findings |-> found]
  BY <1>1 DEF EntryOf
<1>3. /\ comment.body \in Body
      /\ comment.at \in Nat
  BY StatusCommentShape
<1>4. /\ rev.body \in Body
      /\ rev.at \in Nat
      /\ rev.sha \in Commits \cup {NoCommit}
  BY DEF Reviews
<1>5. awaits \in BOOLEAN /\ (awaits <=> trig > comment.at /\ trig > rev.at)
  BY DEF Awaiting
<1>6. cleans \in BOOLEAN /\ (cleans <=> enriched /\ Clean(comment.body))
  BY DEF Clean
<1>7. found \in SUBSET FindingKinds
  <2>1. rev.body.findings \in SUBSET CountKinds
    BY <1>4 DEF Body
  <2> QED BY <2>1 DEF CountKinds, FindingKinds
<1>8. e.sha \in Commits \cup {NoCommit}
  <2>1. comment.body.about \in Commits \cup {NoCommit}
    BY <1>3 DEF Body
  <2> QED BY <1>1, <1>4, <2>1 DEF ReviewCommit
<1>9. ASSUME Clean(comment.body) PROVE Finished(comment.body)
  BY <1>9 DEF Clean, Finished
<1>10. CASE enriched
  <2> HIDE DEF awaits, cleans
  <2>1. status = CoderabbitChain(cs, comment, rev, awaits, now_)
    <3>1. status = ClassifyCoderabbit(cs, comment, rev, awaits, now_)
      BY <1>10
    <3> HIDE DEF status
    <3> QED BY <1>5, <3>1, CoderabbitRungs
  <2> HIDE DEF status
  <2>2. status \in Statuses
    BY <2>1 DEF Statuses, ReviewedTier, BlockedTier, FailedTier, CoderabbitChain
  <2>3. awaits => status = "pending"
    BY <2>1 DEF CoderabbitChain
  <2>4. status \in ReviewedTier => Finished(comment.body) \/ rev.at > 0
    BY <2>1, <1>9 DEF ReviewedTier, CoderabbitChain
  <2>5. status = "completed" => ~ Clean(comment.body)
    BY <2>1 DEF CoderabbitChain
  <2>6. status = "completed_clean" => Clean(comment.body)
    BY <2>1 DEF CoderabbitChain
  <2> QED BY <1>10, <2>2, <2>3, <2>4, <2>5, <2>6, <1>1, <1>2, <1>5, <1>6, <1>7, <1>8
          DEF Entry, ReviewedTier
<1>11. CASE ~ enriched
  <2> HIDE DEF awaits, cleans
  <2>1. status =
          IF "rate_limit" \in comment.body.says THEN "rate_limited"
          ELSE IF "review_paused" \in comment.body.says THEN "review_paused"
          ELSE IF "review_failed" \in comment.body.says THEN "review_failed"
          ELSE IF awaits THEN "pending"
          ELSE IF rev.at > 0 THEN "completed"
          ELSE IF cs # <<>> THEN "pending"
          ELSE "not_triggered"
    BY <1>5, <1>11, GenericRungs
  <2> HIDE DEF status
  <2>2. status \in Statuses
    BY <2>1 DEF Statuses, ReviewedTier, BlockedTier, FailedTier
  <2>3. awaits => status \notin ReviewedTier
    BY <2>1 DEF ReviewedTier
  <2>4. status \in ReviewedTier => rev.at > 0
    BY <2>1 DEF ReviewedTier
  <2>5. status # "completed_clean"
    BY <2>1
  <2>6. ~ cleans
    BY <1>6, <1>11
  <2> QED BY <1>11, <2>2, <2>3, <2>4, <2>5, <2>6, <1>1, <1>2, <1>5, <1>6, <1>7, <1>8
          DEF Entry, ReviewedTier
<1> QED BY <1>10, <1>11

-----------------------------------------------------------------------------
(***************************************************************************)
(* The types: no comment is from the future.                               *)
(***************************************************************************)
TypeInv ==
  /\ head \in Commits
  /\ now \in Nat
  /\ comments \in [Bots -> Comments(Body, now)]
  /\ review \in [Bots -> Reviews(Body)]
  /\ trigger \in [Bots -> Nat]

LEMMA InitTypeInv == Init => TypeInv
<1> SUFFICES ASSUME Init PROVE TypeInv
  OBVIOUS
<1>1. Silence \in Body
  BY DEF Silence, Body, Markers, CountKinds
<1>2. NoReview \in Reviews(Body)
  BY <1>1 DEF NoReview, Reviews
<1>3. <<>> \in Comments(Body, 1)
  BY DEF Comments
<1> QED BY <1>2, <1>3 DEF Init, TypeInv

LEMMA LaterComments ==
  ASSUME NEW limit \in Nat, NEW cs \in Comments(Body, limit)
  PROVE  cs \in Comments(Body, limit + 1)
<1>1. ASSUME NEW i \in DOMAIN cs
      PROVE  cs[i].at <= limit + 1
  <2>1. cs[i].at \in Nat /\ cs[i].at <= limit
    BY CommentShape
  <2> QED BY <2>1
<1>2. cs \in Seq([body : Body, at : Nat])
  BY CommentShape
<1> QED BY <1>1, <1>2 DEF Comments

LEMMA AppendComment ==
  ASSUME NEW limit \in Nat, NEW cs \in Comments(Body, limit), NEW body \in Body
  PROVE  Append(cs, [body |-> body, at |-> limit]) \in Comments(Body, limit)
<1> DEFINE Shape == [body : Body, at : Nat]
           new   == [body |-> body, at |-> limit]
<1>1. new \in Shape /\ new.at = limit
  OBVIOUS
<1>2. cs \in Seq(Shape) /\ Len(cs) \in Nat /\ DOMAIN cs = 1 .. Len(cs)
  BY CommentShape
<1> HIDE DEF Shape, new
<1>3. Append(cs, new) \in Seq(Shape)
  BY <1>1, <1>2
<1>4. ASSUME NEW i \in DOMAIN Append(cs, new)
      PROVE  Append(cs, new)[i].at <= limit
  <2>1. i \in DOMAIN cs \/ i = Len(cs) + 1
    BY <1>1, <1>2
  <2>2. CASE i \in DOMAIN cs
    <3>1. Append(cs, new)[i] = cs[i]
      BY <1>1, <1>2, <2>2
    <3> QED BY <2>2, <3>1, CommentShape
  <2>3. CASE i = Len(cs) + 1
    <3>1. Append(cs, new)[i] = new
      BY <1>1, <1>2, <2>3
    <3> QED BY <1>1, <3>1
  <2> QED BY <2>1, <2>2, <2>3
<1> QED BY <1>3, <1>4 DEF Comments, Shape, new

LEMMA EditComment ==
  ASSUME NEW limit \in Nat, NEW cs \in Comments(Body, limit), NEW body \in Body,
         NEW i \in DOMAIN cs
  PROVE  [cs EXCEPT ![i] = [body |-> body, at |-> limit]] \in Comments(Body, limit)
<1> DEFINE Shape == [body : Body, at : Nat]
           new   == [body |-> body, at |-> limit]
           next  == [cs EXCEPT ![i] = new]
<1>1. new \in Shape /\ new.at = limit
  OBVIOUS
<1>2. cs \in Seq(Shape) /\ Len(cs) \in Nat /\ DOMAIN cs = 1 .. Len(cs)
  BY CommentShape
<1> HIDE DEF Shape, new
<1>3. next \in Seq(Shape)
  BY <1>1, <1>2
<1>4. ASSUME NEW j \in DOMAIN next
      PROVE  next[j].at <= limit
  <2>1. j \in DOMAIN cs /\ (next[j] = IF j = i THEN new ELSE cs[j])
    OBVIOUS
  <2>2. cs[j].at <= limit
    BY <2>1, CommentShape
  <2> QED BY <1>1, <2>1, <2>2
<1> QED BY <1>3, <1>4 DEF Comments, Shape, new

LEMMA TypeInvStep == TypeInv /\ [Next]_vars => TypeInv'
<1> SUFFICES ASSUME TypeInv, [Next]_vars
             PROVE  TypeInv'
  OBVIOUS
<1> USE DEF TypeInv
<1>1. CASE Push
  BY <1>1 DEF Push
<1>2. CASE Tick
  <2>1. now' = now + 1 /\ now \in Nat
    BY <1>2 DEF Tick
  <2>2. \A b \in Bots : comments[b] \in Comments(Body, now + 1)
    BY <2>1, LaterComments
  <2> QED BY <1>2, <2>1, <2>2 DEF Tick
<1>3. ASSUME NEW b \in Bots, NEW body \in CommentBodies, BotComments(b, body)
      PROVE  TypeInv'
  <2>1. Append(comments[b], [body |-> body, at |-> now]) \in Comments(Body, now)
    BY BodiesAssumption, AppendComment
  <2> QED BY <1>3, <2>1 DEF BotComments
<1>4. ASSUME NEW b \in Bots, NEW body \in CommentBodies, BotEdits(b, body)
      PROVE  TypeInv'
  <2>1. PICK i \in DOMAIN comments[b] :
          comments' = [comments EXCEPT ![b][i] = [body |-> body, at |-> now]]
    BY <1>4 DEF BotEdits
  <2>2. [comments[b] EXCEPT ![i] = [body |-> body, at |-> now]] \in Comments(Body, now)
    BY BodiesAssumption, EditComment
  <2>3. comments' = [comments EXCEPT ![b] = [comments[b] EXCEPT ![i] = [body |-> body, at |-> now]]]
    BY <2>1
  <2> QED BY <1>4, <2>2, <2>3 DEF BotEdits
<1>5. ASSUME NEW b \in Bots, NEW body \in ReviewBodies, BotReviews(b, body)
      PROVE  TypeInv'
  <2>1. PICK sha \in Commits \cup {NoCommit} :
          review' = [review EXCEPT ![b] = [body |-> body, at |-> now, sha |-> sha]]
    BY <1>5 DEF BotReviews
  <2>2. [body |-> body, at |-> now, sha |-> sha] \in Reviews(Body)
    BY BodiesAssumption DEF Reviews
  <2> QED BY <1>5, <2>1, <2>2 DEF BotReviews
<1>6. ASSUME NEW b \in Bots, AskReview(b)
      PROVE  TypeInv'
  BY <1>6 DEF AskReview
<1>7. CASE UNCHANGED vars
  BY <1>7 DEF vars
<1> QED BY <1>1, <1>2, <1>3, <1>4, <1>5, <1>6, <1>7 DEF Next

\* The types hold in every reachable state.
THEOREM SpecTypeInv == Spec => []TypeInv
BY InitTypeInv, TypeInvStep, PTL DEF Spec

-----------------------------------------------------------------------------
(***************************************************************************)
(* What the entries say together.                                          *)
(***************************************************************************)
StatusCommentOf(b) == StatusComment(b \in Enriched, comments[b])

LEMMA ShownFacts ==
  ASSUME TypeInv, NEW b \in Bots
  PROVE  /\ EntryShown(b) \in Entry
         /\ EntryShown(b).required <=> b \in Required
         /\ EntryShown(b).awaiting <=> /\ trigger[b] > StatusCommentOf(b).at
                                       /\ trigger[b] > review[b].at
         /\ EntryShown(b).sha = ReviewCommit(b \in Enriched, StatusCommentOf(b), review[b], head)
         /\ EntryShown(b).awaiting => EntryShown(b).status \notin ReviewedTier
         /\ EntryShown(b).status \in ReviewedTier =>
              (b \in Enriched /\ Finished(StatusCommentOf(b).body)) \/ review[b].at > 0
         /\ EntryShown(b).status = "completed" => ~ EntryShown(b).clean
         /\ EntryShown(b).status = "completed_clean" => EntryShown(b).clean
<1> DEFINE required == b \in Required
           enriched == b \in Enriched
<1>1. required \in BOOLEAN /\ enriched \in BOOLEAN
  OBVIOUS
<1>2. /\ now \in Nat /\ trigger[b] \in Nat
      /\ comments[b] \in Comments(Body, now)
      /\ review[b] \in Reviews(Body)
  BY DEF TypeInv
<1>3. EntryShown(b) =
        EntryOf(required, enriched, comments[b], review[b], trigger[b], head, now)
  BY DEF EntryShown
<1>4. StatusCommentOf(b) = StatusComment(enriched, comments[b])
  BY DEF StatusCommentOf
<1>5. (required <=> b \in Required) /\ (enriched <=> b \in Enriched)
  OBVIOUS
<1>6. EntryShown(b).sha = ReviewCommit(b \in Enriched, StatusCommentOf(b), review[b], head)
  BY DEF EntryShown, EntryOf, StatusCommentOf
<1> HIDE DEF required, enriched
<1> QED BY <1>1, <1>2, <1>3, <1>4, <1>5, <1>6, EntryFacts

LEMMA ShownComment ==
  ASSUME TypeInv, NEW b \in Bots
  PROVE  /\ StatusCommentOf(b).body \in Body
         /\ StatusCommentOf(b).at \in 0 .. now
         /\ comments[b] = <<>> => StatusCommentOf(b) = NoComment
         /\ comments[b] # <<>> => StatusCommentOf(b) \in Texts(b)
<1> DEFINE enriched == b \in Enriched
<1>1. /\ enriched \in BOOLEAN
      /\ now \in Nat
      /\ comments[b] \in Comments(Body, now)
  BY DEF TypeInv
<1>2. StatusCommentOf(b) = StatusComment(enriched, comments[b])
  BY DEF StatusCommentOf
<1> HIDE DEF enriched
<1> QED BY <1>1, <1>2, StatusCommentShape DEF Texts

\* The status comment is one of the highest tier, and the newest of those.
LEMMA ShownCommentWins ==
  ASSUME TypeInv, NEW b \in Bots, NEW c \in Texts(b)
  PROVE  /\ StatusCommentOf(b) \in Texts(b)
         /\ Tier(b \in Enriched, StatusCommentOf(b).body) >= Tier(b \in Enriched, c.body)
         /\ Tier(b \in Enriched, StatusCommentOf(b).body) = Tier(b \in Enriched, c.body)
              => StatusCommentOf(b).at >= c.at
<1> DEFINE enriched == b \in Enriched
<1>1. /\ enriched \in BOOLEAN
      /\ now \in Nat
      /\ comments[b] \in Comments(Body, now)
  BY DEF TypeInv
<1>2. StatusCommentOf(b) = StatusComment(enriched, comments[b])
  BY DEF StatusCommentOf
<1>3. PICK j \in DOMAIN comments[b] : c = comments[b][j]
  BY DEF Texts
<1>4. comments[b] # <<>>
  BY <1>3
<1> HIDE DEF enriched
<1>5. PICK i \in DOMAIN comments[b] :
        /\ StatusComment(enriched, comments[b]) = comments[b][i]
        /\ \A k \in DOMAIN comments[b] :
             /\ Tier(enriched, comments[b][i].body) >= Tier(enriched, comments[b][k].body)
             /\ Tier(enriched, comments[b][i].body) = Tier(enriched, comments[b][k].body)
                  => comments[b][i].at >= comments[b][k].at
  BY <1>1, <1>4, StatusCommentChosen
<1>6. StatusCommentOf(b) \in Texts(b)
  BY <1>2, <1>5 DEF Texts
<1>7. /\ Tier(enriched, StatusCommentOf(b).body) >= Tier(enriched, c.body)
      /\ Tier(enriched, StatusCommentOf(b).body) = Tier(enriched, c.body)
           => StatusCommentOf(b).at >= c.at
  BY <1>2, <1>3, <1>5
<1> QED BY <1>6, <1>7 DEF enriched

\* What readiness demands of every required bot: done, with the head, and owing
\* no answer.
LEMMA ReadyDemands ==
  ASSUME TypeInv, Ready, NEW b \in Required
  PROVE  /\ EntryShown(b).status \in ReviewedTier
         /\ EntryShown(b).sha = head
         /\ ~ EntryShown(b).awaiting
<1> DEFINE entries  == [x \in Bots |-> EntryShown(x)]
           required == {x \in DOMAIN entries : entries[x].required}
           blocked  == {x \in required : entries[x].status \in BlockedTier}
           failed   == {x \in required : entries[x].status \in FailedTier}
           reviewed == {x \in required : entries[x].status \in ReviewedTier}
<1>1. b \in Bots
  BY BotsAssumption
<1>2. EntryShown(b).required
  BY <1>1, ShownFacts
<1>3. b \in required
  BY <1>1, <1>2
<1> HIDE DEF required
<1>4. /\ Diag.failed = (failed # {})
      /\ Diag.terminal = (failed # {} \/ (failed = {} /\ blocked = {} /\ reviewed = required))
      /\ Diag.stale = \E x \in reviewed : Stale(entries[x], head)
      /\ Diag.awaiting = \E x \in required : entries[x].awaiting
  BY DEF Diag, Diagnostics, required
<1>5. Diag.terminal /\ ~ Diag.failed /\ ~ Diag.stale /\ ~ Diag.awaiting
  BY DEF Ready, BotReviewReady
<1>6. reviewed = required
  BY <1>4, <1>5
<1>7. entries[b].status \in ReviewedTier
  BY <1>3, <1>6
<1>8. ~ Stale(entries[b], head)
  BY <1>3, <1>4, <1>5, <1>6
<1>9. ~ entries[b].awaiting
  BY <1>3, <1>4, <1>5
<1>10. head # NoCommit
  BY CommitsAssumption DEF TypeInv
<1> QED BY <1>1, <1>7, <1>8, <1>9, <1>10 DEF Stale

-----------------------------------------------------------------------------
\* A required bot that is shown as done with the head has evidence that names it.
LEMMA ReadyMeansReviewedState == TypeInv => ReadyMeansReviewed
<1> SUFFICES ASSUME TypeInv, Ready, NEW b \in Required
             PROVE  ReviewedHead(b)
  BY DEF ReadyMeansReviewed
<1> DEFINE c == StatusCommentOf(b)
<1>1. b \in Bots
  BY BotsAssumption
<1>2. /\ EntryShown(b).status \in ReviewedTier
      /\ EntryShown(b).sha = head
  BY ReadyDemands
<1>3. /\ ReviewCommit(b \in Enriched, c, review[b], head) = head
      /\ (b \in Enriched /\ Finished(c.body)) \/ review[b].at > 0
  BY <1>1, <1>2, ShownFacts
<1>4. CASE review[b].sha = head
  BY <1>4 DEF ReviewedHead
<1>5. CASE review[b].sha # head
  <2>1. /\ b \in Enriched
        /\ c.body.about = head
        /\ c.body.about # NoCommit
        /\ Finished(c.body) \/ review[b].sha = NoCommit
    BY <1>3, <1>5 DEF ReviewCommit
  <2>2. c # NoComment
    BY <2>1 DEF NoComment, Silence
  <2>3. c \in Texts(b)
    BY <1>1, <2>2, ShownComment
  <2>4. Finished(c.body) \/ (review[b] # NoReview /\ review[b].sha = NoCommit)
    <3>1. review[b].at > 0 => review[b] # NoReview
      BY DEF NoReview
    <3> QED BY <1>3, <2>1, <3>1
  <2> HIDE DEF c
  <2> QED BY <2>1, <2>3, <2>4 DEF ReviewedHead
<1> QED BY <1>4, <1>5

\* An unanswered request is newer than the status comment, whatever the bot
\* wrote, so its entry awaits.
LEMMA UnansweredAwaits ==
  ASSUME TypeInv, NEW b \in Bots, Unanswered(b)
  PROVE  EntryShown(b).awaiting
<1> DEFINE c == StatusCommentOf(b)
<1>1. /\ trigger[b] > review[b].at
      /\ review[b].at \in Nat /\ trigger[b] \in Nat
  BY DEF Unanswered, TypeInv, Reviews
<1>2. CASE comments[b] = <<>>
  <2>1. c.at = 0
    BY <1>2, ShownComment DEF NoComment
  <2> QED BY <1>1, <2>1, ShownFacts
<1>3. CASE comments[b] # <<>>
  <2>1. c \in Texts(b)
    BY <1>3, ShownComment
  <2>2. CASE Markup(b) = {}
    <3>1. trigger[b] > c.at
      BY <2>1, <2>2 DEF Unanswered
    <3> QED BY <1>1, <3>1, ShownFacts
  <2>3. CASE Markup(b) # {}
    <3>1. PICK d \in Markup(b) : TRUE
      BY <2>3
    <3>2. d \in Texts(b) /\ Tier(b \in Enriched, d.body) > 0
      BY <3>1 DEF Markup
    <3>3. c.body \in Body /\ d.body \in Body
      <4>1. PICK j \in DOMAIN comments[b] : d = comments[b][j]
        BY <3>2 DEF Texts
      <4>2. comments[b] \in Comments(Body, now)
        BY DEF TypeInv
      <4> QED BY <4>1, <4>2, CommentShape, ShownComment
    <3>4. Tier(b \in Enriched, c.body) \in Nat /\ Tier(b \in Enriched, d.body) \in Nat
      <4> DEFINE enriched == b \in Enriched
      <4>1. enriched \in BOOLEAN
        OBVIOUS
      <4> HIDE DEF enriched, c
      <4>2. Tier(enriched, c.body) \in 0 .. 6 /\ Tier(enriched, d.body) \in 0 .. 6
        BY <3>3, <4>1, TierRange
      <4> QED BY <4>2 DEF enriched
    <3>5. Tier(b \in Enriched, c.body) >= Tier(b \in Enriched, d.body)
      BY <3>2, ShownCommentWins
    <3>6. c \in Markup(b)
      <4> HIDE DEF c
      <4>1. Tier(b \in Enriched, c.body) > 0
        BY <3>2, <3>4, <3>5
      <4> QED BY <2>1, <4>1 DEF Markup
    <3>7. trigger[b] > c.at
      BY <2>3, <3>6 DEF Unanswered
    <3> QED BY <1>1, <3>7, ShownFacts
  <2> QED BY <2>2, <2>3
<1> QED BY <1>2, <1>3

LEMMA UnansweredTriggerBlocksState == TypeInv => UnansweredTriggerBlocks
<1> SUFFICES ASSUME TypeInv, Ready, NEW b \in Required, Unanswered(b)
             PROVE  FALSE
  BY DEF UnansweredTriggerBlocks
<1>1. b \in Bots
  BY BotsAssumption
<1> QED BY <1>1, ReadyDemands, UnansweredAwaits

LEMMA EntryShapeState == TypeInv => EntryShape
BY ShownFacts DEF EntryShape

\* Readiness means that every required bot has evidence naming the head.
THEOREM SpecReadyMeansReviewed == Spec => []ReadyMeansReviewed
BY SpecTypeInv, ReadyMeansReviewedState, PTL

\* A request for review that a required bot has not answered blocks readiness.
THEOREM SpecUnansweredTriggerBlocks == Spec => []UnansweredTriggerBlocks
BY SpecTypeInv, UnansweredTriggerBlocksState, PTL

\* An entry is well formed; a bot that owes an answer is never shown as done.
THEOREM SpecEntryShape == Spec => []EntryShape
BY SpecTypeInv, EntryShapeState, PTL

-----------------------------------------------------------------------------
(***************************************************************************)
(* The newest ruling, and what waiting alone changes.                      *)
(***************************************************************************)
\* The status of an enriched bot, by the rungs of the classifier.
LEMMA EnrichedStatus ==
  ASSUME NEW required, NEW enriched, enriched = TRUE, NEW time, NEW cs, NEW rev, NEW trig, NEW hd
  PROVE  EntryOf(required, enriched, cs, rev, trig, hd, time).status =
           CoderabbitChain(cs, StatusComment(enriched, cs), rev,
                           EntryOf(required, enriched, cs, rev, trig, hd, time).awaiting, time)
<1> DEFINE e       == EntryOf(required, enriched, cs, rev, trig, hd, time)
           comment == StatusComment(enriched, cs)
           awaits  == Awaiting(cs, comment, rev, trig)
<1>1. e.status = ClassifyCoderabbit(cs, comment, rev, awaits, time)
  BY DEF EntryOf
<1>2. e.awaiting = awaits
  BY DEF EntryOf
<1> HIDE DEF awaits, e, comment
<1>3. e.status = CoderabbitChain(cs, comment, rev, awaits, time)
  BY <1>1, CoderabbitRungs
<1>4. e.status = CoderabbitChain(cs, comment, rev, e.awaiting, time)
  BY <1>2, <1>3
<1> QED BY <1>4 DEF e, comment

\* A comment that rules has the highest tier, so the only newest ruling is the
\* status comment.
LEMMA NewestRulingIsStatus ==
  ASSUME TypeInv, NEW b \in Enriched, NEW c, NewestOf(Rulings(b)) = {c}
  PROVE  StatusCommentOf(b) = c /\ c.at \in 0 .. now /\ c.body \in Body
<1> DEFINE s        == StatusCommentOf(b)
           enriched == b \in Enriched
<1>0. enriched \in BOOLEAN /\ enriched
  OBVIOUS
<1>1. b \in Bots
  BY BotsAssumption
<1>2. /\ c \in Texts(b) /\ Decisive(c.body)
      /\ \A d \in Rulings(b) : d.at <= c.at
  BY DEF NewestOf, Rulings
<1>3. /\ s \in Texts(b)
      /\ Tier(enriched, s.body) >= Tier(enriched, c.body)
      /\ Tier(enriched, s.body) = Tier(enriched, c.body) => s.at >= c.at
  BY <1>1, <1>2, ShownCommentWins
<1>4. s.body \in Body /\ s.at \in 0 .. now
  BY <1>1, ShownComment
<1>5. Tier(enriched, c.body) = 6
  BY <1>0, <1>2 DEF Tier, CoderabbitTier
<1>6. Tier(enriched, s.body) \in 0 .. 6
  <2> HIDE DEF enriched, s
  <2> QED BY <1>0, <1>4, TierRange
<1> HIDE DEF s, enriched
<1>7. Tier(enriched, s.body) = 6
  BY <1>3, <1>5, <1>6
<1>8. Decisive(s.body)
  BY <1>0, <1>7 DEF Tier, CoderabbitTier
<1>9. s \in Rulings(b)
  BY <1>3, <1>8 DEF Rulings
<1>10. ASSUME NEW d \in Rulings(b)
       PROVE  d.at <= s.at
  <2>1. d.at <= c.at /\ s.at >= c.at
    BY <1>2, <1>3, <1>5, <1>7
  <2>2. \A x \in Texts(b) : x.at \in Nat
    <3>1. comments[b] \in Comments(Body, now)
      BY <1>1 DEF TypeInv
    <3> QED BY <3>1, CommentShape DEF Texts
  <2>3. d.at \in Nat /\ c.at \in Nat /\ s.at \in Nat
    BY <1>2, <1>3, <2>2 DEF Rulings
  <2> QED BY <2>1, <2>3
<1>11. s \in NewestOf(Rulings(b))
  BY <1>9, <1>10 DEF NewestOf
<1>12. s = c
  BY <1>11
<1> QED BY <1>4, <1>12 DEF s

LEMMA NewestRulingWinsState == TypeInv => NewestRulingWins
<1> SUFFICES ASSUME TypeInv, NEW b \in Enriched, NEW c, NewestOf(Rulings(b)) = {c},
                    ~ EntryShown(b).awaiting
             PROVE  /\ c.body.says = {"clean"} /\ c.body.wait = 0
                         => EntryShown(b).status = "completed_clean"
                    /\ c.body.says = {"rate_limit", "notice"}
                         => EntryShown(b).status = IF c.at + c.body.wait > now
                                                     THEN "rate_limited" ELSE "pending"
  BY DEF NewestRulingWins
<1> DEFINE e      == EntryShown(b)
           awaits == Awaiting(comments[b], c, review[b], trigger[b])
<1>1. StatusCommentOf(b) = c /\ c.at \in 0 .. now /\ c.body \in Body
  BY NewestRulingIsStatus
<1>2. c = StatusComment(b \in Enriched, comments[b])
  BY <1>1 DEF StatusCommentOf
<1>3. e.status = ClassifyCoderabbit(comments[b], c, review[b], awaits, now)
  BY <1>2 DEF EntryShown, EntryOf
<1>4. e.awaiting = awaits
  BY <1>2 DEF EntryShown, EntryOf
<1>5. ~ e.awaiting
  OBVIOUS
<1>6. now \in Nat /\ c.at \in Nat /\ c.at <= now /\ c.body.wait \in Nat
  BY <1>1 DEF TypeInv, Body
<1> HIDE DEF e, awaits
<1>7. e.status = CoderabbitChain(comments[b], c, review[b], awaits, now)
  BY <1>3, CoderabbitRungs
<1>8. Remaining(c, now) > 0 <=> c.at + c.body.wait > now
  BY <1>6 DEF Remaining
<1>9. ASSUME c.body.says = {"clean"}, c.body.wait = 0
      PROVE  e.status = "completed_clean"
  <2>1. ~ Processing(c.body) /\ Clean(c.body) /\ "review_paused" \notin c.body.says
    BY <1>9 DEF Processing, Clean, Finished
  <2>2. ~ (Remaining(c, now) > 0)
    BY <1>6, <1>8, <1>9
  <2> QED BY <1>4, <1>5, <1>7, <2>1, <2>2 DEF CoderabbitChain
<1>10. ASSUME c.body.says = {"rate_limit", "notice"}
       PROVE  e.status = IF c.at + c.body.wait > now THEN "rate_limited" ELSE "pending"
  <2>1. /\ ~ Processing(c.body) /\ ~ Clean(c.body) /\ ~ Finished(c.body)
        /\ "review_paused" \notin c.body.says /\ "review_failed" \notin c.body.says
        /\ "notice" \in c.body.says
    BY <1>10 DEF Processing, Clean, Finished
  <2> QED BY <1>4, <1>5, <1>7, <1>8, <2>1 DEF CoderabbitChain
<1> QED BY <1>9, <1>10 DEF e

LEMMA OnlyCooldownsEnd ==
  ASSUME NEW required, NEW enriched \in BOOLEAN, NEW time \in Nat,
         NEW cs \in Comments(Body, time), NEW rev, NEW trig, NEW hd,
         NEW e, e = EntryOf(required, enriched, cs, rev, trig, hd, time),
         NEW f, f = EntryOf(required, enriched, cs, rev, trig, hd, time + 1),
         NEW comment, comment = StatusComment(enriched, cs)
  PROVE  \/ f = e
         \/ /\ e.status = "rate_limited"
            /\ f.status \in ReviewedTier => Finished(comment.body)
<1>1. e.awaiting <=> f.awaiting
  BY DEF EntryOf
<1>2. CASE ~ enriched
  BY <1>2 DEF EntryOf
<1>3. CASE enriched = TRUE
  <2>1. comment.at \in 0 .. time /\ comment.body.wait \in Nat
    BY StatusCommentShape DEF Body
  <2>3. e.status = CoderabbitChain(cs, comment, rev, e.awaiting, time)
    BY <1>3, EnrichedStatus
  <2>4. f.status = CoderabbitChain(cs, comment, rev, f.awaiting, time + 1)
    BY <1>3, EnrichedStatus
  <2>5. Remaining(comment, time + 1) > 0 => Remaining(comment, time) > 0
    BY <2>1 DEF Remaining
  <2>6. Remaining(comment, time) > 0 => comment.body.wait > 0
    BY <2>1 DEF Remaining
  <2>7. Clean(comment.body) => Finished(comment.body)
    BY DEF Clean, Finished
  <2>8. f.status = e.status \/ (e.status = "rate_limited" /\ Remaining(comment, time) > 0)
    BY <1>1, <2>3, <2>4, <2>5 DEF CoderabbitChain
  <2>9. f.status = e.status => f = e
    BY DEF EntryOf
  <2>10. Remaining(comment, time) > 0 /\ f.status \in ReviewedTier => Finished(comment.body)
    BY <2>4, <2>6, <2>7 DEF ReviewedTier, CoderabbitChain
  <2> QED BY <2>8, <2>9, <2>10
<1> QED BY <1>2, <1>3

LEMMA TimeStep ==
  ASSUME TypeInv, Tick, NEW b \in Bots
  PROVE  \/ EntryShown(b)' = EntryShown(b)
         \/ /\ EntryShown(b).status = "rate_limited"
            /\ EntryShown(b)'.status \in ReviewedTier => \E c \in Texts(b) : Finished(c.body)
<1> DEFINE required == b \in Required
           enriched == b \in Enriched
           later    == EntryOf(required, enriched, comments[b], review[b], trigger[b], head, now + 1)
<1>1. EntryShown(b)' = later
  BY DEF Tick, EntryShown
<1>2. EntryShown(b) =
        EntryOf(required, enriched, comments[b], review[b], trigger[b], head, now)
  BY DEF EntryShown
<1>3. required \in BOOLEAN /\ enriched \in BOOLEAN
  OBVIOUS
<1>4. now \in Nat /\ comments[b] \in Comments(Body, now)
  BY DEF TypeInv
<1>5. StatusCommentOf(b) = StatusComment(enriched, comments[b])
  BY DEF StatusCommentOf
<1>6. \/ later = EntryShown(b)
      \/ /\ EntryShown(b).status = "rate_limited"
         /\ later.status \in ReviewedTier => Finished(StatusCommentOf(b).body)
  <2> HIDE DEF required, enriched
  <2> QED BY <1>2, <1>3, <1>4, <1>5, OnlyCooldownsEnd
<1>7. Finished(StatusCommentOf(b).body) => StatusCommentOf(b) # NoComment
  BY DEF Finished, NoComment, Silence
<1>8. Finished(StatusCommentOf(b).body) => \E c \in Texts(b) : Finished(c.body)
  BY <1>7, ShownComment
<1> HIDE DEF later
<1> QED BY <1>1, <1>6, <1>8

\* The newest ruling decides, wherever the comments stand.
THEOREM SpecNewestRulingWins == Spec => []NewestRulingWins
BY SpecTypeInv, NewestRulingWinsState, PTL

\* Waiting ends cooldowns and nothing else.
THEOREM SpecTimeEndsOnlyCooldowns == Spec => TimeEndsOnlyCooldowns
<1>1. TypeInv /\ [Next]_vars =>
        [now' # now =>
           \A b \in Bots :
             \/ EntryShown(b)' = EntryShown(b)
             \/ /\ EntryShown(b).status = "rate_limited"
                /\ EntryShown(b)'.status \in ReviewedTier =>
                     \E c \in Texts(b) : Finished(c.body)]_vars
  <2> SUFFICES ASSUME TypeInv, Next, now' # now, NEW b \in Bots
               PROVE  \/ EntryShown(b)' = EntryShown(b)
                      \/ /\ EntryShown(b).status = "rate_limited"
                         /\ EntryShown(b)'.status \in ReviewedTier =>
                              \E c \in Texts(b) : Finished(c.body)
    BY DEF vars
  <2>1. Tick
    BY DEF Next, Push, BotComments, BotEdits, BotReviews, AskReview
  <2> QED BY <2>1, TimeStep
<1> QED BY <1>1, SpecTypeInv, PTL DEF Spec, TimeEndsOnlyCooldowns
-----------------------------------------------------------------------------
(***************************************************************************)
(* What the agent is told.                                                 *)
(***************************************************************************)
LEMMA ObservedFacts ==
  ASSUME NEW status, NEW threads
  PROVE  /\ PrExists(Observation(status, threads))
         /\ ~ Observation(status, threads).git.detached
         /\ Observation(status, threads).reviews.known
         /\ Observation(status, threads).reviews.unresolved = threads
         /\ Observation(status, threads).ci = status
         /\ DiagOf(Observation(status, threads)) = Diag
<1> DEFINE o == Observation(status, threads)
<1>1. /\ o.head = head /\ o.git = [detached |-> FALSE, clean |-> TRUE] /\ o.pr = "yes"
      /\ o.ci = status /\ o.reviews = Observed(threads)
  BY DEF Observation
<1>2. /\ Observed(threads).known /\ Observed(threads).unresolved = threads
      /\ Observed(threads).comments_incomplete = FALSE
      /\ Observed(threads).entries = [b \in Bots |-> EntryShown(b)]
  BY DEF Observed
<1> HIDE DEF o
<1>3. DiagOf(o) = Diag
  BY <1>1, <1>2 DEF DiagOf, Diag
<1>4. PrExists(o) /\ ~ o.git.detached
  BY <1>1 DEF PrExists
<1> QED BY <1>1, <1>2, <1>3, <1>4 DEF o

\* A required bot that owes an answer blocks, fails or delays the pull request.
LEMMA AwaitedTrouble ==
  ASSUME TypeInv, NEW b \in Required, EntryShown(b).awaiting
  PROVE  InTrouble(Diag)
<1> DEFINE entries  == [x \in Bots |-> EntryShown(x)]
           required == {x \in DOMAIN entries : entries[x].required}
           blocked  == {x \in required : entries[x].status \in BlockedTier}
           failed   == {x \in required : entries[x].status \in FailedTier}
           reviewed == {x \in required : entries[x].status \in ReviewedTier}
<1>1. b \in Bots
  BY BotsAssumption
<1>2. EntryShown(b).required /\ EntryShown(b).status \notin ReviewedTier
  BY <1>1, ShownFacts
<1>3. b \in required /\ b \notin reviewed
  BY <1>1, <1>2
<1> HIDE DEF required
<1>4. /\ Diag.failed = (failed # {})
      /\ Diag.blocked = (blocked # {})
      /\ Diag.terminal = (failed # {} \/ (failed = {} /\ blocked = {} /\ reviewed = required))
      /\ Diag.pending = (~ (failed # {} \/ (failed = {} /\ blocked = {} /\ reviewed = required))
                            /\ blocked = {})
  BY DEF Diag, Diagnostics, required
<1> HIDE DEF reviewed, blocked, failed, entries
<1> QED BY <1>3, <1>4 DEF InTrouble

\* When all required bots are done, none owes an answer.
LEMMA DoneOwesNothing ==
  ASSUME TypeInv, Diag.terminal, ~ Diag.failed
  PROVE  ~ Diag.awaiting
<1> DEFINE entries  == [x \in Bots |-> EntryShown(x)]
           required == {x \in DOMAIN entries : entries[x].required}
           blocked  == {x \in required : entries[x].status \in BlockedTier}
           failed   == {x \in required : entries[x].status \in FailedTier}
           reviewed == {x \in required : entries[x].status \in ReviewedTier}
<1>1. /\ Diag.failed = (failed # {})
      /\ Diag.terminal = (failed # {} \/ (failed = {} /\ blocked = {} /\ reviewed = required))
      /\ Diag.awaiting = \E x \in required : entries[x].awaiting
  BY DEF Diag, Diagnostics
<1>2. reviewed = required
  BY <1>1
<1>3. ASSUME NEW x \in required
      PROVE  ~ entries[x].awaiting
  <2>1. x \in Bots /\ entries[x] = EntryShown(x)
    OBVIOUS
  <2>2. EntryShown(x).status \in ReviewedTier
    BY <1>2, <1>3
  <2> QED BY <2>1, <2>2, ShownFacts
<1> HIDE DEF required
<1> QED BY <1>1, <1>3

LEMMA MergeState == TypeInv => MergeMeansReviewed
<1> SUFFICES ASSUME TypeInv, NEW status \in CIStatuses, NEW threads \in BOOLEAN,
                    \/ Agent(status, threads).state.target = "merge_ready"
                    \/ Agent(status, threads).guard
             PROVE  /\ \A b \in Required : ReviewedHead(b) /\ ~ Unanswered(b)
                    /\ ~ threads
                    /\ status = "success"
  BY DEF MergeMeansReviewed
<1> DEFINE o == Observation(status, threads)
<1>1. /\ PrExists(o) /\ ~ o.git.detached /\ o.reviews.known
      /\ o.reviews.unresolved = threads /\ o.ci = status /\ DiagOf(o) = Diag
  BY ObservedFacts
<1>2. ContextBuild(o).state.target = "merge_ready" \/ ContextBuild(o).guard
  BY DEF Agent
<1> HIDE DEF o
<1>3. DiagOf(o).terminal /\ ~ DiagOf(o).failed => ~ DiagOf(o).awaiting
  BY <1>1, DoneOwesNothing
<1>4. MergeReadiness(o)
  BY <1>1, <1>2, <1>3, GuardAgrees
<1>5. BotReviewReady(DiagOf(o)) /\ ~ o.reviews.unresolved /\ o.ci = "success"
  BY <1>4 DEF MergeReadiness, NoThreads
<1>6. Ready
  BY <1>1, <1>5 DEF Ready
<1>7. \A b \in Required : ReviewedHead(b) /\ ~ Unanswered(b)
  BY <1>6, ReadyMeansReviewedState, UnansweredTriggerBlocksState
     DEF ReadyMeansReviewed, UnansweredTriggerBlocks
<1> QED BY <1>1, <1>5, <1>7

LEMMA WaitState == TypeInv => UnansweredMeansWait
<1> SUFFICES ASSUME TypeInv, NEW b \in Required, Unanswered(b),
                    NEW status \in CIStatuses, NEW threads \in BOOLEAN
             PROVE  Agent(status, threads).route.target \in WaitBotRoutes
  BY DEF UnansweredMeansWait
<1>1. EntryShown(b).awaiting
  BY BotsAssumption, UnansweredAwaits
<1>2. InTrouble(Diag)
  BY <1>1, AwaitedTrouble
<1> DEFINE o == Observation(status, threads)
<1>3. PrExists(o) /\ o.reviews.known /\ DiagOf(o) = Diag
  BY ObservedFacts
<1> HIDE DEF o
<1>4. ContextBuild(o).route.target \in WaitBotRoutes
  BY <1>2, <1>3, TroubleFirst
<1> QED BY <1>4 DEF Agent, o

\* From comments and pushes to the command: the agent is sent to merge, or told it
\* may, only with every required bot done with the head and owing no answer, no
\* open thread and green checks.
THEOREM SpecMergeMeansReviewed == Spec => []MergeMeansReviewed
BY SpecTypeInv, MergeState, PTL

\* While a required bot owes an answer, the route is one that waits for a bot.
THEOREM SpecUnansweredMeansWait == Spec => []UnansweredMeansWait
BY SpecTypeInv, WaitState, PTL
=============================================================================
