------------------------- MODULE GitHubCollectProofs -------------------------
(***************************************************************************)
(* Which commit a collection speaks of: with an explicit scope never the   *)
(* local one, and in a full observation a single one.  And that a clean     *)
(* report of the review threads has missed none.                           *)
(***************************************************************************)
EXTENDS GitHubCollect, FiniteSetTheorems, TLAPS

\* The fields the proof looks at are there.
ShapeInv ==
  /\ {"head"} \subseteq DOMAIN github
  /\ {"heads"} \subseteq DOMAIN seen
  /\ {"head", "first", "page", "sha"} \subseteq DOMAIN loc /\ loc.page \in Nat
  /\ {"pull", "reviews", "ci"} \subseteq DOMAIN signals
  /\ {"head"} \subseteq DOMAIN signals.pull

\* Heads that requests have brought are heads the pull request has had.
HeadsInv ==
  /\ github.head \in seen.heads /\ seen.heads \subseteq Commits
  /\ loc.head \in seen.heads \cup {NoCommit}
  /\ pc \in {"identify", "issues", "search", "select", "detail"} => loc.page = 0
  /\ pc = "comments" \/ (pc = "threads" /\ loc.page # 0) => loc.first \in seen.heads

\* Under an explicit scope checks are asked of such a head only.
ScopeInv ==
  ExplicitScope =>
    /\ pc \in {"status", "runs"} => loc.sha \in seen.heads
    /\ signals.ci.known => signals.ci.head \in seen.heads \cup {NoCommit}

\* Reviews come before checks, and from then on one head is carried.
CarriedInv ==
  /\ signals.ci.known => pc = "done"
  /\ Reviews.known => pc \in {"ci", "status", "runs", "done"}
  /\ request.view = "full" /\ request.facet = "all" /\ ReviewsRead =>
       /\ Reviews.head \in Commits
       /\ signals.pull.head = Reviews.head /\ loc.head = Reviews.head
       /\ pc \in {"status", "runs"} => loc.sha = Reviews.head
       /\ signals.ci.known => signals.ci.head = Reviews.head

HeadInv == ShapeInv /\ HeadsInv /\ ScopeInv /\ CarriedInv

\* A collection starts with no head but the pull request's.
LEMMA InitHead == Init => HeadInv
  <1> SUFFICES ASSUME Init PROVE HeadInv
    OBVIOUS
  <1>1. github.head \in Commits /\ {"head"} \subseteq DOMAIN github
    BY WorldsAssumption DEF Init
  <1>2. ShapeInv
    BY <1>1 DEF Init, ShapeInv, SeenAtStart, NoLoc, NoPull
  <1>3. HeadsInv
    BY <1>1 DEF Init, HeadsInv, SeenAtStart, NoLoc
  <1>4. ScopeInv /\ CarriedInv
    BY DEF Init, ScopeInv, CarriedInv, NoCI, NoReviews, Reviews, ReviewsRead
  <1>5. QED  BY <1>2, <1>3, <1>4 DEF HeadInv

\* The world moves: only a push touches heads, and it adds one.
LEMMA WorldHead ==
  ASSUME HeadInv, World
  PROVE  HeadInv'
  <1>1. UNCHANGED <<request, pc, loc, signals>>
    BY DEF World, Push, OpenOrClose, OpenThread, ToggleThread, Check, CommitStatus,
           DetachOrAttach, Moves
  <1> DEFINE Grown == /\ {"head"} \subseteq DOMAIN github' /\ {"heads"} \subseteq DOMAIN seen'
                      /\ github'.head \in seen'.heads /\ seen'.heads \subseteq Commits
                      /\ seen.heads \subseteq seen'.heads
  <1> USE DEF HeadInv, ShapeInv, HeadsInv
  <1>2. Grown
    <2>1. ASSUME NEW c \in Commits, Push(c) PROVE Grown
      BY <2>1 DEF Push
    <2>2. CASE OpenOrClose \/ OpenThread \/ DetachOrAttach
      BY <2>2 DEF OpenOrClose, OpenThread, DetachOrAttach
    <2>3. ASSUME NEW i, ToggleThread(i) PROVE Grown
      BY <2>3 DEF ToggleThread
    <2>4. ASSUME NEW c, NEW i, NEW run, Check(c, i, run) PROVE Grown
      BY <2>4 DEF Check
    <2>5. ASSUME NEW c, NEW status, CommitStatus(c, status) PROVE Grown
      BY <2>5 DEF CommitStatus
    <2>6. QED  BY <2>1, <2>2, <2>3, <2>4, <2>5 DEF World
  <1>3. ShapeInv' /\ HeadsInv'
    BY <1>1, <1>2
  <1>4. ScopeInv'
    BY <1>1, <1>2 DEF ScopeInv, ExplicitScope
  <1>5. CarriedInv'
    BY <1>1 DEF CarriedInv, Reviews, ReviewsRead
  <1>6. QED  BY <1>3, <1>4, <1>5

\* Steps before the reviews are read: nothing is known but the lookup's head.
LEMMA LookupHead ==
  ASSUME HeadInv,
         \/ IdentifyFails \/ Identify \/ Issues
         \/ LookupFails \/ Search \/ Select \/ Detail
  PROVE  HeadInv'
  <1> USE DEF HeadInv, ShapeInv, HeadsInv, ScopeInv, CarriedInv, Reviews, ReviewsRead,
              ExplicitScope, Keep, world, Goto
  <1>1. CASE IdentifyFails
    BY <1>1 DEF IdentifyFails
  <1>2. CASE Identify
    BY <1>2 DEF Identify, AfterIssues
  <1>3. CASE Issues
    BY <1>3 DEF Issues, AfterIssues
  <1>4. CASE LookupFails
    BY <1>4 DEF LookupFails, NoLoc
  <1>5. CASE Search
    BY <1>5 DEF Search
  <1>6. ASSUME NEW found \in BOOLEAN, NEW head \in seen.heads \cup {NoCommit},
               pc \in {"select", "detail"}, LookupDone(found, head), Keep
        PROVE  HeadInv'
    BY <1>6 DEF LookupDone, AfterLookup
  <1>7. CASE Select
    <2>1. CASE Goto("detail") /\ UNCHANGED <<loc, signals, diags>>
      BY <1>7, <2>1 DEF Select
    <2>2. CASE LookupDone(TRUE, github.head)
      BY <1>7, <1>6, <2>2 DEF Select
    <2>3. CASE LookupDone(FALSE, NoCommit)
      BY <1>7, <1>6, <2>3 DEF Select
    <2>4. QED  BY <1>7, <2>1, <2>2, <2>3 DEF Select
  <1>8. CASE Detail
    BY <1>8, <1>6 DEF Detail
  <1>9. QED  BY <1>1, <1>2, <1>3, <1>4, <1>5, <1>7, <1>8

\* The walk through threads and comments fixes the head on its first page.
LEMMA ReviewsHead ==
  ASSUME HeadInv,
         PrQueryFails \/ PrMissing \/ Threads \/ OlderComments \/ CommentsDone
  PROVE  HeadInv'
  <1> USE DEF HeadInv, ShapeInv, HeadsInv, ScopeInv, CarriedInv, Reviews, ReviewsRead,
              ExplicitScope, Keep, world, Goto
  <1>1. CASE PrQueryFails
    BY <1>1 DEF PrQueryFails
  <1>2. CASE PrMissing
    BY <1>2 DEF PrMissing, EmptyReviews, NoReviews
  <1>3. CASE Threads
    BY <1>3 DEF Threads
  <1>4. CASE OlderComments
    BY <1>4 DEF OlderComments
  <1>5. CASE CommentsDone
    BY <1>5, CollectConstants DEF CommentsDone, ReviewsDone, Overriding, Wants
  <1>6. QED  BY <1>1, <1>2, <1>3, <1>4, <1>5

\* The checks are asked of the head that was carried here.
LEMMA ChecksHead ==
  ASSUME HeadInv, CI \/ GitHeadFails \/ Status \/ Runs
  PROVE  HeadInv'
  <1> USE CollectConstants DEF HeadInv, ShapeInv, HeadsInv, ScopeInv, CarriedInv, Reviews,
              ReviewsRead, ExplicitScope, Keep, world, Goto
  <1>1. CASE CI
    BY <1>1 DEF CI, HeadUnresolved, UnknownCI, NoCI
  <1>2. CASE GitHeadFails
    BY <1>2 DEF GitHeadFails, HeadUnresolved, UnknownCI, NoCI
  <1>3. CASE Status
    BY <1>3 DEF Status
  <1>4. CASE Runs
    BY <1>4 DEF Runs
  <1>5. QED  BY <1>1, <1>2, <1>3, <1>4

\* Every step of a collection, and of the world beside it, keeps the invariant.
LEMMA StepHead == HeadInv /\ [Next]_vars => HeadInv'
  <1> SUFFICES ASSUME HeadInv, [Next]_vars PROVE HeadInv'
    OBVIOUS
  <1>1. CASE UNCHANGED vars
    BY <1>1 DEF vars, HeadInv, ShapeInv, HeadsInv, ScopeInv, CarriedInv, Reviews, ReviewsRead,
                ExplicitScope
  <1>2. CASE World
    BY <1>2, WorldHead
  <1>3. CASE Collect
    BY <1>3, LookupHead, ReviewsHead, ChecksHead DEF Collect
  <1>4. QED  BY <1>1, <1>2, <1>3 DEF Next

\* The invariant holds of every collection.
THEOREM SpecHead == Spec => []HeadInv
  <1>1. QED  BY InitHead, StepHead, PTL DEF Spec

\* With --branch or --pr the checks reported are never those of the local HEAD.
THEOREM SpecScopedCI == Spec => []ScopedCINeverLocal
  <1>1. HeadInv => ScopedCINeverLocal
    BY DEF HeadInv, ScopeInv, ScopedCINeverLocal, ExplicitScope
  <1>2. QED  BY <1>1, SpecHead, PTL

\* A full observation speaks of one head, however often it moved meanwhile.
THEOREM SpecOneHead == Spec => []OneHead
  <1>1. HeadInv => OneHead
    BY DEF HeadInv, CarriedInv, OneHead, ReviewsRead, Reviews
  <1>2. QED  BY <1>1, SpecHead, PTL

(***************************************************************************)
(* The thread walk.                                                        *)
(***************************************************************************)
ThreadShape ==
  /\ "threads" \in DOMAIN github /\ github.threads \in Seq(BOOLEAN)
  /\ {"threads", "resolved"} \subseteq DOMAIN seen
  /\ {"read", "unresolved", "incomplete"} \subseteq DOMAIN loc
  /\ loc.read \in Nat /\ loc.unresolved \in Nat
  /\ "reviews" \in DOMAIN signals

\* Threads are only added; what is resolved now has been seen so; a walk that
\* met no open thread met resolved ones only; and it ends behind the threads
\* there were at the start, or says that it did not.
ThreadFacts ==
  /\ seen.threads \in Nat /\ seen.threads <= Len(github.threads)
  /\ \A i \in 1..Len(github.threads) : github.threads[i] => i \in seen.resolved
  /\ loc.unresolved = 0 => 1..loc.read \subseteq seen.resolved
  /\ pc = "comments" => loc.incomplete \/ seen.threads <= loc.read

ThreadInv == ThreadShape /\ ThreadFacts /\ NoThreadMissed

LEMMA InitThreads == Init => ThreadInv
  <1> SUFFICES ASSUME Init PROVE ThreadInv
    OBVIOUS
  <1>1. "threads" \in DOMAIN github /\ github.threads \in Seq(BOOLEAN)
    BY WorldsAssumption DEF Init
  <1>2. ThreadShape
    BY <1>1 DEF Init, ThreadShape, SeenAtStart, NoLoc
  <1>3. ThreadFacts
    BY <1>1 DEF Init, ThreadFacts, SeenAtStart, NoLoc
  <1>4. NoThreadMissed
    BY DEF Init, NoThreadMissed, ReviewsRead, Reviews, NoReviews
  <1>5. QED  BY <1>2, <1>3, <1>4 DEF ThreadInv

\* Of the world's moves, opening and toggling threads count: neither makes a
\* thread resolved that was not seen so.
LEMMA WorldThreads ==
  ASSUME ThreadInv, World
  PROVE  ThreadInv'
  <1> USE DEF ThreadInv, ThreadShape, ThreadFacts
  <1>1. UNCHANGED <<request, pc, loc, signals>>
    BY DEF World, Push, OpenOrClose, OpenThread, ToggleThread, Check, CommitStatus,
           DetachOrAttach, Moves
  <1> DEFINE Kept == /\ "threads" \in DOMAIN github' /\ github'.threads \in Seq(BOOLEAN)
                     /\ {"threads", "resolved"} \subseteq DOMAIN seen'
                     /\ seen'.threads = seen.threads
                     /\ Len(github.threads) <= Len(github'.threads)
                     /\ seen.resolved \subseteq seen'.resolved
                     /\ \A i \in 1..Len(github'.threads) : github'.threads[i] => i \in seen'.resolved
  <1>2. Kept
    <2>1. ASSUME NEW c, Push(c) PROVE Kept
      BY <2>1 DEF Push
    <2>2. CASE OpenOrClose \/ DetachOrAttach
      BY <2>2 DEF OpenOrClose, DetachOrAttach
    <2>3. CASE OpenThread
      <3>1. /\ github'.threads = Append(github.threads, FALSE) /\ seen' = seen
            /\ "threads" \in DOMAIN github'
        BY <2>3 DEF OpenThread
      <3>2. QED  BY <3>1
    <2>4. ASSUME NEW i \in DOMAIN github.threads, ToggleThread(i) PROVE Kept
      <3>1. /\ github'.threads = [github.threads EXCEPT ![i] = ~ github.threads[i]]
            /\ "threads" \in DOMAIN github'
        BY <2>4 DEF ToggleThread
      <3>2. /\ seen'.threads = seen.threads /\ seen'.resolved = seen.resolved \cup {i}
            /\ {"threads", "resolved"} \subseteq DOMAIN seen'
        BY <2>4 DEF ToggleThread
      <3>3. github'.threads \in Seq(BOOLEAN) /\ Len(github'.threads) = Len(github.threads)
        BY <3>1
      <3>4. QED  BY <3>1, <3>2, <3>3
    <2>5. ASSUME NEW c, NEW i, NEW run, Check(c, i, run) PROVE Kept
      BY <2>5 DEF Check
    <2>6. ASSUME NEW c, NEW status, CommitStatus(c, status) PROVE Kept
      BY <2>6 DEF CommitStatus
    <2>7. QED  BY <2>1, <2>2, <2>3, <2>4, <2>5, <2>6 DEF World
  <1>3. ThreadShape'
    BY <1>1, <1>2
  <1>4. ThreadFacts'
    BY <1>1, <1>2
  <1>5. NoThreadMissed'
    BY <1>1, <1>2 DEF NoThreadMissed, ReviewsRead, Reviews
  <1>6. QED  BY <1>3, <1>4, <1>5

\* A page adds the threads it shows: none open among them means all resolved.
LEMMA PageThreads ==
  ASSUME ThreadInv, Threads
  PROVE  ThreadInv'
  <1> USE DEF ThreadInv, ThreadShape, ThreadFacts
  <1> DEFINE len == Len(github.threads)
             last == IF loc.read + PageSize < len THEN loc.read + PageSize ELSE len
             open == {i \in (loc.read + 1)..last : ~ github.threads[i]}
  <1>1. len \in Nat /\ last \in Nat /\ PageSize \in Nat
    BY CollectConstants
  <1>2. IsFiniteSet(open) /\ Cardinality(open) \in Nat /\ (Cardinality(open) = 0 => open = {})
    <2>1. IsFiniteSet((loc.read + 1)..last)
      <3> HIDE DEF last
      <3>1. loc.read + 1 \in Int /\ last \in Int
        BY <1>1
      <3>2. QED  BY <3>1, FS_Interval
    <2>2. IsFiniteSet(open)
      BY <2>1, FS_Subset
    <2>3. QED  BY <2>2, FS_CardinalityType, FS_EmptySet
  <1>3. /\ UNCHANGED <<github, seen, request, signals>>
        /\ loc'.read = last /\ loc'.unresolved = loc.unresolved + Cardinality(open)
        /\ {"read", "unresolved", "incomplete"} \subseteq DOMAIN loc'
    BY DEF Threads, Keep, world
  <1>4. ThreadShape'
    BY <1>1, <1>2, <1>3
  <1>5. loc'.unresolved = 0 => 1..loc'.read \subseteq seen'.resolved
    <2> SUFFICES ASSUME loc'.unresolved = 0, NEW i \in 1..last PROVE i \in seen.resolved
      BY <1>3
    <2>1. loc.unresolved = 0 /\ open = {}
      BY <1>2, <1>3
    <2>2. CASE i <= loc.read
      BY <2>1, <2>2, <1>1
    <2>3. CASE ~ (i <= loc.read)
      <3>1. i \in (loc.read + 1)..last /\ i \in 1..len
        BY <2>3, <1>1
      <3>2. github.threads[i]
        BY <2>1, <3>1
      <3>3. QED  BY <3>1, <3>2
    <2>4. QED  BY <2>2, <2>3
  <1>6. pc' = "comments" => loc'.incomplete \/ seen'.threads <= loc'.read
    BY <1>1, <1>3 DEF Threads, Goto, HasNextPage
  <1>7. NoThreadMissed'
    BY <1>3 DEF NoThreadMissed, ReviewsRead, Reviews
  <1>8. QED  BY <1>3, <1>4, <1>5, <1>6, <1>7

\* Every other step keeps the walk, starts it anew, or reports what it found.
LEMMA CollectThreads ==
  ASSUME ThreadInv, Collect
  PROVE  ThreadInv'
  <1> USE DEF ThreadInv, ThreadShape, ThreadFacts, NoThreadMissed, ReviewsRead, Reviews,
              Keep, world, Goto
  <1>1. CASE IdentifyFails \/ Identify \/ Issues
    BY <1>1 DEF IdentifyFails, Identify, Issues, AfterIssues
  <1>2. CASE LookupFails
    BY <1>2 DEF LookupFails, NoLoc
  <1>3. CASE Search
    BY <1>3 DEF Search
  <1>4. CASE Select \/ Detail
    BY <1>4 DEF Select, Detail, LookupDone, AfterLookup
  <1>5. CASE PrQueryFails \/ PrMissing
    BY <1>5 DEF PrQueryFails, PrMissing, EmptyReviews, NoReviews
  <1>6. CASE Threads
    BY <1>6, PageThreads
  <1>7. CASE OlderComments
    BY <1>7 DEF OlderComments
  <1>8. CASE CommentsDone
    BY <1>8 DEF CommentsDone, ReviewsDone
  <1>9. CASE CI
    BY <1>9 DEF CI
  <1>10. CASE GitHeadFails \/ Status \/ Runs
    BY <1>10 DEF GitHeadFails, Status, Runs
  <1>11. QED
    BY <1>1, <1>2, <1>3, <1>4, <1>5, <1>6, <1>7, <1>8, <1>9, <1>10 DEF Collect

\* Reviews without an unresolved thread and with all pages read leave out no
\* thread there was when the collection began: each was seen resolved.
THEOREM SpecNoThreadMissed == Spec => []NoThreadMissed
  <1>1. ThreadInv /\ [Next]_vars => ThreadInv'
    <2> SUFFICES ASSUME ThreadInv, [Next]_vars PROVE ThreadInv'
      OBVIOUS
    <2>1. CASE UNCHANGED vars
      BY <2>1 DEF vars, ThreadInv, ThreadShape, ThreadFacts, NoThreadMissed, ReviewsRead, Reviews
    <2>2. QED  BY <2>1, WorldThreads, CollectThreads DEF Next
  <1>2. ThreadInv => NoThreadMissed
    BY DEF ThreadInv
  <1>3. QED  BY <1>1, <1>2, InitThreads, PTL DEF Spec

(***************************************************************************)
(* The shape of the world and of the collection.                           *)
(***************************************************************************)
Heads    == Commits \cup {NoCommit}
Statuses == DOMAIN RankOf
Asking   == {"status", "runs"}
Others   == {"identify", "issues", "search", "select", "detail", "threads", "comments", "ci", "done"}
Stages   == Others \cup Asking

Locs ==
  [warned : BOOLEAN, branch : BOOLEAN, found : BOOLEAN, looked : BOOLEAN, head : Heads,
   page : 0..(MaxPages - 1), read : Nat, unresolved : Nat, incomplete : BOOLEAN,
   first : Heads, older : Nat, back : 0..MaxBackPages, sha : Heads, legacy : Statuses]
Pulls   == [known : BOOLEAN, exists : BOOLEAN, head : Heads]
Facet   == [known : BOOLEAN, statuses : BOOLEAN, unresolved : Nat, total : Nat,
            incomplete : BOOLEAN, comments_incomplete : BOOLEAN, head : Heads]
CIs     == [known : BOOLEAN, status : Statuses, head : Heads]
Signals == [repository : BOOLEAN, issues : BOOLEAN, pull : Pulls, reviews : Facet, ci : CIs]
Diags   ==
  [provider : {"github", "github.issues", "github.pull-requests", "github.pr-query", "github.ci"},
   severity : {"error", "warning"}]

Threadings   == Seq(BOOLEAN)
Repositories == [open : BOOLEAN, head : Commits, threads : Threadings, older : Nat]

WorldOK ==
  /\ github \in Repositories
  /\ checks \in [Commits -> [legacy : Statuses, runs : Seq(STRING)]]
  /\ local \in [attached : BOOLEAN, head : Commits]
  /\ moves \in 0..MaxMoves
  /\ Len(github.threads) <= MaxThreads

\* The walk counts no thread twice and none that is not there.
CollectOK ==
  /\ request \in Requests /\ pc \in Stages /\ (pc \in Asking => loc.sha \in Commits)
  /\ loc \in Locs /\ signals \in Signals /\ diags \subseteq Diags
  /\ loc.unresolved <= loc.read /\ loc.read <= Len(github.threads)
  /\ Reviews.unresolved <= Reviews.total /\ Reviews.total <= MaxThreads

TypeInv == WorldOK /\ CollectOK

LEMMA CountFacts ==
  /\ MaxPages \in Nat \ {0} /\ PageSize \in Nat \ {0} /\ RunPage \in Nat \ {0}
  /\ MaxBackPages \in Nat /\ MaxThreads \in Nat /\ MaxMoves \in Nat /\ MaxRuns \in Nat
  BY CollectConstants

LEMMA FreshFacts ==
  /\ NoLoc \in Locs /\ NoPull \in Pulls /\ NoReviews \in Facet /\ EmptyReviews \in Facet
  /\ NoCI \in CIs /\ UnknownCI \in CIs
  <1>1. Statuses = {"unknown", "success", "pending", "failure"} /\ NoCommit \in Heads
    BY DEF Statuses, RankOf, Heads
  <1>2. NoLoc \in Locs
    BY <1>1, CountFacts DEF NoLoc, Locs
  <1>3. NoPull \in Pulls
    BY <1>1 DEF NoPull, Pulls
  <1>4. NoReviews \in Facet
    BY <1>1 DEF NoReviews, Facet
  <1>5. EmptyReviews \in Facet
    BY <1>4 DEF EmptyReviews, Facet
  <1>6. NoCI \in CIs
    BY <1>1 DEF NoCI, CIs
  <1>7. UnknownCI \in CIs
    BY <1>6 DEF UnknownCI, CIs
  <1>8. QED  BY <1>2, <1>3, <1>4, <1>5, <1>6, <1>7

LEMMA InitType == Init => TypeInv
  <1> SUFFICES ASSUME Init PROVE TypeInv
    OBVIOUS
  <1>1. WorldOK
    <2>1. PICK w \in Worlds : github = w.github /\ checks = w.checks /\ local = w.local
      BY DEF Init
    <2>2. /\ github \in Repositories
          /\ Len(github.threads) <= MaxThreads
      BY <2>1, WorldsAssumption DEF Repositories, Threadings
    <2>3. /\ checks \in [Commits -> [legacy : Statuses, runs : Seq(STRING)]]
          /\ local \in [attached : BOOLEAN, head : Commits]
      BY <2>1, WorldsAssumption DEF Statuses
    <2>4. moves \in 0..MaxMoves
      BY CountFacts DEF Init
    <2>5. QED  BY <2>2, <2>3, <2>4 DEF WorldOK
  <1>2. /\ signals = [repository |-> FALSE, issues |-> FALSE,
                      pull |-> NoPull, reviews |-> NoReviews, ci |-> NoCI]
        /\ request \in Requests /\ pc = "identify" /\ loc = NoLoc /\ diags = {}
    BY DEF Init
  <1>3. signals \in Signals
    BY <1>2, FreshFacts DEF Signals
  <1>4. loc.unresolved = 0 /\ loc.read = 0 /\ Reviews.unresolved = 0 /\ Reviews.total = 0
    BY <1>2 DEF NoLoc, NoReviews, Reviews
  <1>5. Len(github.threads) \in Nat
    BY <1>1 DEF WorldOK
  <1>6. QED
    BY <1>1, <1>2, <1>3, <1>4, <1>5, FreshFacts, CountFacts DEF TypeInv, CollectOK, Stages, Others, Asking

LEMMA RepositoryFacts ==
  ASSUME NEW g \in Repositories, NEW c \in Commits, NEW t \in Threadings
  PROVE  /\ [g EXCEPT !.head = c] \in Repositories
         /\ [g EXCEPT !.head = c].threads = g.threads
         /\ [g EXCEPT !.open = ~ @] \in Repositories
         /\ [g EXCEPT !.open = ~ @].threads = g.threads
         /\ [g EXCEPT !.threads = t] \in Repositories
         /\ [g EXCEPT !.threads = t].threads = t
         /\ g.threads \in Threadings
  <1> USE DEF Repositories
  <1>1. [g EXCEPT !.head = c] \in Repositories
    OBVIOUS
  <1>2. [g EXCEPT !.head = c].threads = g.threads
    OBVIOUS
  <1>3. [g EXCEPT !.open = ~ @] \in Repositories
    OBVIOUS
  <1>4. [g EXCEPT !.open = ~ @].threads = g.threads
    OBVIOUS
  <1>5. [g EXCEPT !.threads = t] \in Repositories
    OBVIOUS
  <1>6. [g EXCEPT !.threads = t].threads = t /\ g.threads \in Threadings
    OBVIOUS
  <1> HIDE DEF Repositories
  <1>7. QED  BY <1>1, <1>2, <1>3, <1>4, <1>5, <1>6

LEMMA WorldType ==
  ASSUME TypeInv, World
  PROVE  TypeInv'
  <1> USE DEF TypeInv, WorldOK
  <1> DEFINE Sound == /\ github' \in Repositories
                      /\ checks' \in [Commits -> [legacy : Statuses, runs : Seq(STRING)]]
                      /\ local' \in [attached : BOOLEAN, head : Commits]
                      /\ Len(github'.threads) <= MaxThreads
                      /\ Len(github.threads) <= Len(github'.threads)
  <1>1. Moves
    BY DEF World, Push, OpenOrClose, OpenThread, ToggleThread, Check, CommitStatus, DetachOrAttach
  <1>a. UNCHANGED <<request, pc, loc, signals, diags>> /\ moves' \in 0..MaxMoves
    BY <1>1, CountFacts DEF Moves
  <1>b. github.threads \in Threadings /\ github.threads \in Seq(BOOLEAN) /\ Len(github.threads) \in Nat
    <2>1. github.threads \in Seq(BOOLEAN)
      BY DEF Repositories, Threadings
    <2>2. QED  BY <2>1 DEF Threadings
  <1>2. Sound
    <2>1. ASSUME NEW c \in Commits, Push(c) PROVE Sound
      <3>1. github' = [github EXCEPT !.head = c] /\ UNCHANGED <<checks, local>>
        BY <2>1 DEF Push
      <3>2. github' \in Repositories /\ github'.threads = github.threads
        BY <1>b, <3>1, RepositoryFacts
      <3>3. QED  BY <1>b, <3>1, <3>2
    <2>2. CASE OpenOrClose
      <3>1. github' = [github EXCEPT !.open = ~ @] /\ UNCHANGED <<checks, local>>
        BY <2>2 DEF OpenOrClose
      <3>2. github.head \in Commits
        BY DEF Repositories
      <3>3. github' \in Repositories /\ github'.threads = github.threads
        BY <1>b, <3>1, <3>2, RepositoryFacts
      <3>4. QED  BY <1>b, <3>1, <3>3
    <2>3. CASE DetachOrAttach
      <3>1. local' = [local EXCEPT !.attached = ~ @] /\ UNCHANGED <<checks, github>>
        BY <2>3 DEF DetachOrAttach
      <3>2. local' \in [attached : BOOLEAN, head : Commits]
        BY <3>1
      <3>3. QED  BY <1>b, <3>1, <3>2
    <2> DEFINE Rethreaded(t) == /\ github' = [github EXCEPT !.threads = t] /\ UNCHANGED <<checks, local>>
                                /\ t \in Threadings /\ Len(github.threads) <= Len(t)
                                /\ Len(t) <= MaxThreads
    <2>4. ASSUME NEW t, Rethreaded(t) PROVE Sound
      <3>1. github.head \in Commits
        BY DEF Repositories
      <3>2. github' \in Repositories /\ github'.threads = t
        BY <2>4, <3>1, RepositoryFacts
      <3>3. QED  BY <2>4, <3>2
    <2> HIDE DEF Sound
    <2>5. CASE OpenThread
      <3> DEFINE t == Append(github.threads, FALSE)
      <3>1. t \in Seq(BOOLEAN) /\ Len(t) = Len(github.threads) + 1
        BY <1>b
      <3>2. github' = [github EXCEPT !.threads = t] /\ UNCHANGED <<checks, local>>
        BY <2>5 DEF OpenThread
      <3>3. Len(github.threads) < MaxThreads
        BY <2>5 DEF OpenThread
      <3> HIDE DEF t
      <3>4. Rethreaded(t)
        BY <1>b, <3>1, <3>2, <3>3, CountFacts DEF Threadings
      <3>5. QED  BY <2>4, <3>4
    <2>9. ASSUME NEW i \in DOMAIN github.threads, ToggleThread(i) PROVE Sound
      <3> DEFINE t == [github.threads EXCEPT ![i] = ~ @]
      <3>1. t \in Seq(BOOLEAN) /\ Len(t) = Len(github.threads)
        BY <1>b
      <3>2. github' = [github EXCEPT !.threads = t] /\ UNCHANGED <<checks, local>>
        BY <2>9 DEF ToggleThread
      <3> HIDE DEF t
      <3>3. Rethreaded(t)
        BY <1>b, <3>1, <3>2 DEF Threadings
      <3>4. QED  BY <2>4, <3>3
    <2> USE DEF Sound
    <2>6. ASSUME NEW c \in Commits, NEW i \in 1..MaxRuns, NEW run \in Conclusions, Check(c, i, run)
          PROVE  Sound
      <3> DEFINE runs  == checks[c].runs
                 later == IF i \in DOMAIN runs THEN [runs EXCEPT ![i] = run] ELSE Append(runs, run)
      <3>1. runs \in Seq(STRING) /\ run \in STRING
        BY CollectConstants
      <3>2. later \in Seq(STRING)
        <4>1. ASSUME i \in DOMAIN runs  PROVE [runs EXCEPT ![i] = run] \in Seq(STRING)
          BY <3>1, <4>1
        <4>2. Append(runs, run) \in Seq(STRING)
          BY <3>1
        <4>3. QED  BY <4>1, <4>2
      <3>3. checks' = [checks EXCEPT ![c].runs = later] /\ UNCHANGED <<github, local>>
        BY <2>6 DEF Check
      <3> HIDE DEF later
      <3>4. checks' \in [Commits -> [legacy : Statuses, runs : Seq(STRING)]]
        BY <3>2, <3>3
      <3>5. QED  BY <3>3, <3>4
    <2>7. ASSUME NEW c \in Commits, NEW status \in DOMAIN RankOf, CommitStatus(c, status)
          PROVE  Sound
      <3>1. checks' = [checks EXCEPT ![c].legacy = status] /\ UNCHANGED <<github, local>>
        BY <2>7 DEF CommitStatus
      <3>a. status \in Statuses
        BY DEF Statuses
      <3>2. checks' \in [Commits -> [legacy : Statuses, runs : Seq(STRING)]]
        BY <3>1, <3>a
      <3>3. QED  BY <3>1, <3>2
    <2>8. QED
      <3> HIDE DEF Sound
      <3>1. QED  BY <2>1, <2>2, <2>3, <2>5, <2>9, <2>6, <2>7 DEF World
  <1>3. WorldOK'
    BY <1>a, <1>2
  <1>4. CollectOK'
    <2>1. Len(github.threads) \in Nat /\ Len(github'.threads) \in Nat
      BY <1>b, <1>2 DEF Repositories, Threadings
    <2>2. QED  BY <1>a, <1>2, <2>1 DEF CollectOK, Reviews, Locs
  <1>5. QED  BY <1>3, <1>4

\* What a step of the collection has to keep.
LEMMA CollectKeeps ==
  ASSUME TypeInv, Keep, pc' \in Stages, pc' \in Asking => loc'.sha \in Commits,
         loc' \in Locs, signals' \in Signals, diags' \subseteq Diags,
         loc'.unresolved <= loc'.read, loc'.read <= Len(github.threads),
         Reviews'.unresolved <= Reviews'.total, Reviews'.total <= MaxThreads
  PROVE  TypeInv'
  BY DEF TypeInv, WorldOK, CollectOK, Keep, world

LEMMA ReportFacts ==
  ASSUME diags \subseteq Diags, NEW ds \in SUBSET Diags, Report(ds)
  PROVE  diags' \subseteq Diags
  BY DEF Report

LEMMA DiagFacts ==
  /\ Error("github") \in Diags /\ Error("github.issues") \in Diags
  /\ Error("github.pull-requests") \in Diags /\ Error("github.pr-query") \in Diags
  /\ Error("github.ci") \in Diags /\ Warnings("github.pull-requests") \in Diags
  /\ Warnings("github.ci") \in Diags
  BY DEF Error, Warnings, Diags

\* The numbers the shape speaks of.
LEMMA CollectNumbers ==
  ASSUME TypeInv
  PROVE  /\ Len(github.threads) \in Nat /\ Len(github.threads) <= MaxThreads
         /\ loc.read \in Nat /\ loc.unresolved \in Nat
         /\ loc.unresolved <= loc.read /\ loc.read <= Len(github.threads)
         /\ Reviews.unresolved <= Reviews.total /\ Reviews.total <= MaxThreads
         /\ loc \in Locs /\ signals \in Signals /\ diags \subseteq Diags /\ pc \in Stages
         /\ github.head \in Commits
  <1>1. github.threads \in Seq(BOOLEAN) /\ github.head \in Commits
    BY DEF TypeInv, WorldOK, Repositories, Threadings
  <1>2. loc.read \in Nat /\ loc.unresolved \in Nat
    BY DEF TypeInv, CollectOK, Locs
  <1>3. QED  BY <1>1, <1>2 DEF TypeInv, WorldOK, CollectOK

LEMMA OthersFacts ==
  \A stage \in Others : stage \in Stages /\ stage \notin Asking
  BY DEF Others, Stages, Asking

LEMMA EarlyType ==
  ASSUME TypeInv, IdentifyFails \/ Identify \/ Issues \/ LookupFails \/ Search
  PROVE  TypeInv'
  <1> USE CollectNumbers, DiagFacts, OthersFacts DEF Goto
  <1>1. CASE IdentifyFails
    <2>1. PICK resolved \in BOOLEAN : signals' = [signals EXCEPT !.repository = resolved]
      BY <1>1 DEF IdentifyFails
    <2>2. signals' \in Signals /\ Reviews' = Reviews
      BY <2>1 DEF Signals, Reviews
    <2>3. diags' \subseteq Diags
      BY <1>1 DEF IdentifyFails, Report
    <2>4. QED  BY <1>1, <2>2, <2>3, CollectKeeps DEF IdentifyFails, Others
  <1>2. CASE Identify
    <2>1. signals' \in Signals /\ Reviews' = Reviews
      BY <1>2 DEF Identify, Signals, Reviews
    <2>2. pc' \in Others /\ UNCHANGED <<loc, diags>> /\ Keep
      BY <1>2 DEF Identify, AfterIssues, Others
    <2>3. QED  BY <2>1, <2>2, CollectKeeps
  <1>3. CASE Issues
    <2>1. signals' \in Signals /\ Reviews' = Reviews
      BY <1>3 DEF Issues, Signals, Reviews
    <2>2. diags' \subseteq Diags
      BY <1>3 DEF Issues, Report
    <2>3. pc' \in Others /\ UNCHANGED loc /\ Keep
      BY <1>3 DEF Issues, AfterIssues, Others
    <2>4. QED  BY <2>1, <2>2, <2>3, CollectKeeps
  <1>4. CASE LookupFails
    <2>1. loc' \in Locs /\ loc'.unresolved = 0 /\ loc'.read = 0
      BY <1>4, FreshFacts DEF LookupFails, NoLoc
    <2>2. diags' \subseteq Diags
      BY <1>4 DEF LookupFails, Report
    <2>3. pc' \in Others /\ UNCHANGED signals /\ Reviews' = Reviews /\ Keep
      BY <1>4 DEF LookupFails, Others, Reviews
    <2>4. QED  BY <2>1, <2>2, <2>3, CollectKeeps
  <1>5. CASE Search
    <2> DEFINE w == ~ local.attached
               b == local.attached \/ request.scope = "branch"
    <2>1. loc' = [loc EXCEPT !.warned = w, !.branch = b] /\ w \in BOOLEAN /\ b \in BOOLEAN
      BY <1>5 DEF Search
    <2> HIDE DEF w, b
    <2>2. loc' \in Locs /\ loc'.unresolved = loc.unresolved /\ loc'.read = loc.read
      BY <2>1 DEF Locs
    <2>3. pc' \in Others /\ UNCHANGED <<signals, diags>> /\ Reviews' = Reviews /\ Keep
      BY <1>5 DEF Search, Others, Reviews
    <2>4. QED  BY <2>2, <2>3, CollectKeeps
  <1>6. QED  BY <1>1, <1>2, <1>3, <1>4, <1>5

LEMMA LookupType ==
  ASSUME TypeInv, NEW found \in BOOLEAN, NEW head \in Heads, LookupDone(found, head), Keep
  PROVE  TypeInv'
  <1> USE CollectNumbers, DiagFacts, OthersFacts DEF Goto
  <1>1. loc' = [loc EXCEPT !.found = found, !.head = head, !.looked = TRUE]
    BY DEF LookupDone
  <1>2. loc' \in Locs /\ loc'.unresolved = loc.unresolved /\ loc'.read = loc.read
    BY <1>1 DEF Locs
  <1>3. diags' \subseteq Diags
    BY DEF LookupDone, Report
  <1>4. signals' \in Signals /\ Reviews' = Reviews
    <2> DEFINE pull == IF Wants("pull-requests")
                       THEN [known |-> TRUE, exists |-> found, head |-> head] ELSE signals.pull
    <2>1. pull \in Pulls
      BY DEF Pulls, Signals
    <2>2. signals' = [signals EXCEPT !.pull = pull]
      BY DEF LookupDone
    <2> HIDE DEF pull
    <2>3. QED  BY <2>1, <2>2 DEF Signals, Reviews
  <1>5. pc' \in Others
    BY DEF LookupDone, AfterLookup, Others
  <1>6. QED  BY <1>2, <1>3, <1>4, <1>5, CollectKeeps

LEMMA SelectType ==
  ASSUME TypeInv, Select \/ Detail
  PROVE  TypeInv'
  <1>1. github.head \in Heads /\ NoCommit \in Heads
    BY CollectNumbers DEF Heads
  <1>2. CASE LookupDone(TRUE, github.head) /\ Keep
    BY <1>1, <1>2, LookupType
  <1>3. CASE LookupDone(FALSE, NoCommit) /\ Keep
    BY <1>1, <1>3, LookupType
  <1>4. CASE Goto("detail") /\ UNCHANGED <<loc, signals, diags>> /\ Keep
    BY <1>4, CollectNumbers, OthersFacts, CollectKeeps DEF Goto, Others, Reviews
  <1>5. QED  BY <1>2, <1>3, <1>4 DEF Select, Detail

LEMMA PageFacts ==
  ASSUME TypeInv, NEW last, NEW open,
         last = IF loc.read + PageSize < Len(github.threads) THEN loc.read + PageSize
                ELSE Len(github.threads),
         open = {i \in (loc.read + 1)..last : ~ github.threads[i]}
  PROVE  /\ last \in Nat /\ last <= Len(github.threads)
         /\ loc.unresolved + Cardinality(open) \in Nat
         /\ loc.unresolved + Cardinality(open) <= last
  <1>1. last \in Nat /\ last <= Len(github.threads) /\ loc.read <= last
    BY CollectNumbers, CountFacts
  <1> DEFINE first == loc.read + 1
  <1>a. first \in Int /\ last \in Int /\ loc.read \in Int /\ last - first + 1 = last - loc.read
        /\ (first > last => last - loc.read = 0)
    BY <1>1, CollectNumbers
  <1>b. open \in SUBSET (first..last)
    OBVIOUS
  <1> HIDE DEF first
  <1>2. IsFiniteSet(first..last) /\ Cardinality(first..last) = last - loc.read
    BY <1>a, FS_Interval
  <1>3. IsFiniteSet(open) /\ Cardinality(open) <= last - loc.read
    <2> DEFINE all == first..last
    <2>1. open \in SUBSET all /\ IsFiniteSet(all) /\ Cardinality(all) = last - loc.read
      BY <1>b, <1>2
    <2> HIDE DEF all
    <2>2. IsFiniteSet(open) /\ Cardinality(open) <= Cardinality(all)
      BY <2>1, FS_Subset
    <2>3. QED  BY <2>1, <2>2
  <1>4. Cardinality(open) \in Nat
    BY <1>3, FS_CardinalityType
  <1>5. QED  BY <1>1, <1>3, <1>4, CollectNumbers

LEMMA ReviewsType ==
  ASSUME TypeInv, PrQueryFails \/ PrMissing \/ Threads \/ OlderComments
  PROVE  TypeInv'
  <1> USE CollectNumbers, DiagFacts, OthersFacts DEF Goto
  <1>1. CASE PrQueryFails
    <2>1. diags' \subseteq Diags
      BY <1>1 DEF PrQueryFails, Report
    <2>2. pc' \in Others /\ UNCHANGED <<loc, signals>> /\ Reviews' = Reviews /\ Keep
      BY <1>1 DEF PrQueryFails, Others, Reviews
    <2>3. QED  BY <2>1, <2>2, CollectKeeps
  <1>2. CASE PrMissing
    <2> DEFINE read == IF Wants("reviews") THEN EmptyReviews ELSE signals.reviews
    <2>1. read \in Facet /\ read.unresolved <= read.total /\ read.total <= MaxThreads
      BY FreshFacts, CountFacts DEF Signals, Reviews, EmptyReviews, NoReviews
    <2>2. signals' = [signals EXCEPT !.reviews = read]
      BY <1>2 DEF PrMissing
    <2> HIDE DEF read
    <2>3. signals' \in Signals /\ Reviews' = read
      BY <2>1, <2>2 DEF Signals, Reviews
    <2>4. pc' \in Others /\ UNCHANGED <<loc, diags>> /\ Keep
      BY <1>2 DEF PrMissing, Others
    <2>5. QED  BY <2>1, <2>3, <2>4, CollectKeeps
  <1>3. CASE Threads
    <2> DEFINE last == IF loc.read + PageSize < Len(github.threads)
                       THEN loc.read + PageSize ELSE Len(github.threads)
               open == {i \in (loc.read + 1)..last : ~ github.threads[i]}
               more == HasNextPage(last)
               goOn == more /\ ~ LastPage(loc.page)
               sum  == loc.unresolved + Cardinality(open)
               head == IF loc.page = 0 THEN github.head ELSE loc.first
               old  == IF loc.page = 0 THEN github.older ELSE loc.older
               page == IF goOn THEN loc.page + 1 ELSE loc.page
               cut  == more /\ ~ goOn
    <2>1. /\ last \in Nat /\ last <= Len(github.threads) /\ sum \in Nat /\ sum <= last
      BY PageFacts
    <2>2. loc' = [loc EXCEPT !.read = last, !.unresolved = sum, !.first = head, !.older = old,
                             !.page = page, !.incomplete = cut]
      BY <1>3 DEF Threads
    <2>3. head \in Heads /\ old \in Nat /\ cut \in BOOLEAN
      BY DEF Heads, Locs, TypeInv, WorldOK, Repositories
    <2>4. page \in 0..(MaxPages - 1)
      BY CountFacts DEF Locs, LastPage
    <2>5. pc' \in Others /\ UNCHANGED <<signals, diags>> /\ Reviews' = Reviews /\ Keep
      BY <1>3 DEF Threads, Others, Reviews
    <2> HIDE DEF last, sum, head, old, page, cut
    <2>6. loc' \in Locs
      BY <2>1, <2>2, <2>3, <2>4 DEF Locs
    <2>7. loc'.read = last /\ loc'.unresolved = sum
      BY <2>2 DEF Locs
    <2>8. QED  BY <2>1, <2>5, <2>6, <2>7, CollectKeeps
  <1>4. CASE OlderComments
    <2>1. loc.older - 1 \in Nat /\ loc.back + 1 \in 0..MaxBackPages
      <3>1. loc.older \in Nat /\ loc.back \in 0..MaxBackPages /\ MaxBackPages \in Nat
        BY CountFacts DEF Locs
      <3>2. loc.older > 0 /\ loc.back < MaxBackPages
        BY <1>4 DEF OlderComments, MoreComments
      <3>3. QED  BY <3>1, <3>2
    <2>2. loc' \in Locs /\ loc'.unresolved = loc.unresolved /\ loc'.read = loc.read
      BY <1>4, <2>1 DEF OlderComments, Locs
    <2>3. pc' \in Others /\ UNCHANGED <<signals, diags>> /\ Reviews' = Reviews /\ Keep
      BY <1>4 DEF OlderComments, Others, Reviews
    <2>4. QED  BY <2>2, <2>3, CollectKeeps
  <1>5. QED  BY <1>1, <1>2, <1>3, <1>4

LEMMA CommentsType ==
  ASSUME TypeInv, CommentsDone
  PROVE  TypeInv'
  <1> USE CollectNumbers, OthersFacts DEF Goto
  <1> DEFINE missing == loc.older > 0 /\ (request.bots \/ request.view = "full")
             read == [known |-> TRUE, statuses |-> request.bots, total |-> loc.read,
                      unresolved |-> loc.unresolved, incomplete |-> loc.incomplete,
                      head |-> loc.first, comments_incomplete |-> missing]
             facet == IF Wants("reviews") THEN read ELSE signals.reviews
             head == IF request.view = "full" /\ Wants("pull-requests") THEN loc.first
                     ELSE signals.pull.head
  <1>1. request.bots \in BOOLEAN /\ loc.first \in Heads /\ loc.head \in Heads
        /\ loc.incomplete \in BOOLEAN
    BY CollectConstants DEF TypeInv, CollectOK, Locs
  <1>2. read \in Facet
    BY <1>1 DEF Facet
  <1>3. /\ facet \in Facet /\ facet.unresolved <= facet.total /\ facet.total <= MaxThreads
    BY <1>2, CountFacts DEF Signals, Reviews
  <1>4. head \in Heads
    BY <1>1 DEF Signals, Pulls
  <1>5. signals' = [signals EXCEPT !.reviews = facet, !.pull.head = head]
    BY DEF CommentsDone, ReviewsDone
  <1>6. loc' = [loc EXCEPT !.head = Overriding] /\ Overriding \in Heads
    BY <1>1 DEF CommentsDone, ReviewsDone, Overriding
  <1>7. pc' \in Others /\ UNCHANGED diags /\ Keep
    BY DEF CommentsDone, ReviewsDone, Others
  <1> HIDE DEF facet, head
  <1>8. signals' \in Signals /\ Reviews' = facet
    <2>1. signals' = [[signals EXCEPT !.reviews = facet] EXCEPT !.pull.head = head]
      BY <1>5
    <2>2. [signals EXCEPT !.reviews = facet] \in Signals
      BY <1>3 DEF Signals
    <2>3. signals' \in Signals
      BY <1>4, <2>1, <2>2 DEF Signals, Pulls
    <2>4. Reviews' = facet
      BY <1>5 DEF Signals, Reviews
    <2>5. QED  BY <2>3, <2>4
  <1>9. loc' \in Locs /\ loc'.unresolved = loc.unresolved /\ loc'.read = loc.read
    BY <1>6 DEF Locs
  <1>10. QED  BY <1>3, <1>7, <1>8, <1>9, CollectKeeps

(***************************************************************************)
(* The rollup takes the worst.                                             *)
(***************************************************************************)
LEMMA StatusFacts ==
  /\ Statuses = {"unknown", "success", "pending", "failure"}
  /\ RankOf["unknown"] = 0 /\ RankOf["success"] = 1 /\ RankOf["pending"] = 2
  /\ RankOf["failure"] = 3
  BY DEF Statuses, RankOf

LEMMA WorstFacts ==
  ASSUME NEW S \in SUBSET Statuses, S # {}
  PROVE  WorstOf(S) \in S /\ \A t \in S : RankOf[t] <= RankOf[WorstOf(S)]
  <1>1. \E s \in S : \A t \in S : RankOf[t] <= RankOf[s]
    <2>1. CASE "failure" \in S
      BY <2>1, StatusFacts
    <2>2. CASE "failure" \notin S /\ "pending" \in S
      BY <2>2, StatusFacts
    <2>3. CASE "failure" \notin S /\ "pending" \notin S /\ "success" \in S
      BY <2>3, StatusFacts
    <2>4. CASE S = {"unknown"}
      BY <2>4, StatusFacts
    <2>5. QED  BY <2>1, <2>2, <2>3, <2>4, StatusFacts
  <1>2. QED  BY <1>1 DEF WorstOf

LEMMA RankFacts ==
  ASSUME NEW run
  PROVE  RankCheckRun(run) \in {"failure", "success", "pending"} /\ RankCheckRun(run) \in Statuses
  BY StatusFacts DEF RankCheckRun

LEMMA RollupFacts ==
  ASSUME NEW legacy \in Statuses, NEW runs
  PROVE  /\ Rollup(legacy, runs) \in Statuses
         /\ Rollup(legacy, runs) = "success" =>
              /\ legacy \in {"unknown", "success"}
              /\ \A i \in DOMAIN runs : RankCheckRun(runs[i]) = "success"
  <1> DEFINE S == {legacy} \cup {RankCheckRun(runs[i]) : i \in DOMAIN runs}
  <1>1. S \in SUBSET Statuses /\ S # {}
    BY RankFacts
  <1>2. legacy \in S /\ \A i \in DOMAIN runs : RankCheckRun(runs[i]) \in S
    OBVIOUS
  <1>3. Rollup(legacy, runs) = WorstOf(S)
    BY DEF Rollup
  <1> HIDE DEF S
  <1>4. WorstOf(S) \in Statuses /\ \A t \in S : RankOf[t] <= RankOf[WorstOf(S)]
    BY <1>1, WorstFacts
  <1>5. ASSUME WorstOf(S) = "success"
        PROVE  \A t \in S : t \in {"unknown", "success"}
    BY <1>1, <1>4, <1>5, StatusFacts
  <1>6. ASSUME WorstOf(S) = "success", NEW i \in DOMAIN runs
        PROVE  RankCheckRun(runs[i]) = "success"
    BY <1>2, <1>5, <1>6, RankFacts
  <1>7. QED  BY <1>2, <1>3, <1>4, <1>5, <1>6

LEMMA CheckFacts ==
  ASSUME TypeInv, NEW c \in Commits
  PROVE  checks[c].legacy \in Statuses /\ checks[c].runs \in Seq(STRING)
  BY DEF TypeInv, WorldOK

\* The last signals are those of the ci facet.
LEMMA CIKeeps ==
  ASSUME TypeInv, NEW ci \in CIs, signals' = [signals EXCEPT !.ci = ci]
  PROVE  signals' \in Signals /\ Reviews' = Reviews /\ signals'.ci = ci
  BY CollectNumbers DEF Signals, Reviews

LEMMA ChecksType ==
  ASSUME TypeInv, CI \/ GitHeadFails \/ Status \/ Runs
  PROVE  TypeInv'
  <1> USE CollectNumbers, DiagFacts, OthersFacts, FreshFacts DEF Goto
  <1>1. CASE GitHeadFails
    <2>1. signals' \in Signals /\ Reviews' = Reviews
      BY <1>1, CIKeeps DEF GitHeadFails
    <2>2. diags' \subseteq Diags
      BY <1>1 DEF GitHeadFails, Report
    <2>3. pc' \in Others /\ UNCHANGED loc /\ Keep
      BY <1>1 DEF GitHeadFails, Others
    <2>4. QED  BY <2>1, <2>2, <2>3, CollectKeeps
  <1>2. CASE CI
    <2>1. CASE ~ Wants("ci") /\ Goto("done") /\ UNCHANGED <<loc, signals, diags>>
      BY <1>2, <2>1, CollectKeeps DEF CI, Others, Reviews
    <2>2. CASE Goto("done") /\ Report({Error("github.ci")})
                 /\ signals' = [signals EXCEPT !.ci = UnknownCI] /\ UNCHANGED loc
      <3>1. signals' \in Signals /\ Reviews' = Reviews
        BY <2>2, CIKeeps
      <3>2. diags' \subseteq Diags /\ pc' \in Others
        BY <2>2 DEF Report, Others
      <3>3. QED  BY <1>2, <2>2, <3>1, <3>2, CollectKeeps DEF CI
    <2>3. CASE Goto("status") /\ UNCHANGED <<signals, diags>>
                 /\ loc' = [loc EXCEPT !.sha = IF loc.head = NoCommit THEN local.head ELSE loc.head]
      <3> DEFINE sha == IF loc.head = NoCommit THEN local.head ELSE loc.head
      <3>1. sha \in Commits /\ sha \in Heads
        BY DEF TypeInv, WorldOK, Locs, Heads
      <3>2. loc' = [loc EXCEPT !.sha = sha]
        BY <2>3
      <3> HIDE DEF sha
      <3>3. /\ loc' \in Locs /\ loc'.sha = sha
            /\ loc'.unresolved = loc.unresolved /\ loc'.read = loc.read
        BY <3>1, <3>2 DEF Locs
      <3>4. pc' \in Stages
        BY <2>3 DEF Stages, Asking
      <3>5. QED  BY <1>2, <2>3, <3>1, <3>3, <3>4, CollectKeeps DEF CI, Reviews
    <2>4. QED  BY <1>2, <2>1, <2>2, <2>3 DEF CI
  <1>3. CASE Status
    <2>1. CASE Goto("done") /\ Report({Error("github.ci")}) /\ UNCHANGED loc
      <3>1. diags' \subseteq Diags /\ pc' \in Others
        BY <2>1 DEF Report, Others
      <3>2. QED  BY <1>3, <2>1, <3>1, CollectKeeps DEF Status, Reviews
    <2>2. CASE Goto("runs") /\ loc' = [loc EXCEPT !.legacy = checks[loc.sha].legacy] /\ UNCHANGED diags
      <3> DEFINE legacy == checks[loc.sha].legacy
      <3>1. loc.sha \in Commits
        BY <1>3 DEF Status, TypeInv, CollectOK, Asking
      <3>2. legacy \in Statuses /\ loc' = [loc EXCEPT !.legacy = legacy]
        BY <2>2, <3>1, CheckFacts
      <3> HIDE DEF legacy
      <3>3. /\ loc' \in Locs /\ loc'.sha = loc.sha
            /\ loc'.unresolved = loc.unresolved /\ loc'.read = loc.read
        BY <3>2 DEF Locs
      <3>4. pc' \in Stages
        BY <2>2 DEF Stages, Asking
      <3>5. QED  BY <1>3, <2>2, <3>1, <3>3, <3>4, CollectKeeps DEF Status, Reviews
    <2>3. QED  BY <1>3, <2>1, <2>2 DEF Status
  <1>4. CASE Runs
    <2>1. loc.sha \in Commits /\ loc.sha \in Heads /\ loc.legacy \in Statuses
      BY <1>4 DEF Runs, TypeInv, CollectOK, Asking, Heads, Locs
    <2>2. PICK status \in Statuses :
            signals' = [signals EXCEPT !.ci = [known |-> TRUE, status |-> status, head |-> loc.sha]]
      BY <1>4, <2>1, RollupFacts DEF Runs
    <2>3. [known |-> TRUE, status |-> status, head |-> loc.sha] \in CIs
      BY <2>1 DEF CIs
    <2>4. signals' \in Signals /\ Reviews' = Reviews
      BY <2>2, <2>3, CIKeeps
    <2>5. diags' \subseteq Diags
      BY <1>4 DEF Runs, Report
    <2>6. pc' \in Others /\ UNCHANGED loc /\ Keep
      BY <1>4 DEF Runs, Others
    <2>7. QED  BY <2>4, <2>5, <2>6, CollectKeeps
  <1>5. QED  BY <1>1, <1>2, <1>3, <1>4

LEMMA StepType == TypeInv /\ [Next]_vars => TypeInv'
  <1> SUFFICES ASSUME TypeInv, [Next]_vars PROVE TypeInv'
    OBVIOUS
  <1>1. CASE UNCHANGED vars
    BY <1>1 DEF vars, TypeInv, WorldOK, CollectOK, Reviews
  <1>2. CASE World
    BY <1>2, WorldType
  <1>3. CASE Collect
    BY <1>3, EarlyType, SelectType, ReviewsType, CommentsType, ChecksType DEF Collect
  <1>4. QED  BY <1>1, <1>2, <1>3 DEF Next

THEOREM SpecTypeInv == Spec => []TypeInv
  <1>1. QED  BY InitType, StepType, PTL DEF Spec

\* prquery.go and the facets of provider_github.go: the walk through pages keeps its
\* budget, counts no thread twice, and the fragment has the shape it is read with.
THEOREM SpecTypeOK == Spec => []TypeOK
  <1>1. TypeInv => TypeOK
    <2> SUFFICES ASSUME TypeInv PROVE TypeOK
      OBVIOUS
    <2>1. github.head \in Commits /\ github.threads \in Seq(BOOLEAN) /\ local.head \in Commits
      BY DEF TypeInv, WorldOK, Repositories, Threadings
    <2>2. moves \in 0..MaxMoves /\ pc \in Stages /\ diags \subseteq Diags
      BY DEF TypeInv, WorldOK, CollectOK
    <2>3. /\ loc.page \in 0..(MaxPages - 1) /\ loc.back \in 0..MaxBackPages
          /\ loc.head \in Heads /\ loc.first \in Heads /\ loc.sha \in Heads
      BY DEF TypeInv, CollectOK, Locs
    <2>4. signals.pull \in Pulls /\ signals.ci \in CIs
      BY DEF TypeInv, CollectOK, Signals
    <2>5. Reviews.unresolved \in 0..Reviews.total /\ Reviews.total \in 0..MaxThreads
      <3>1. /\ Reviews.unresolved \in Nat /\ Reviews.total \in Nat
            /\ Reviews.unresolved <= Reviews.total /\ Reviews.total <= MaxThreads
        BY DEF TypeInv, CollectOK, Signals, Facet, Reviews
      <3>2. QED  BY <3>1, CountFacts
    <2>6. QED
      BY <2>1, <2>2, <2>3, <2>4, <2>5
      DEF TypeOK, Stages, Others, Asking, Heads, Pulls, CIs, Statuses, Diags
  <1>2. QED  BY <1>1, SpecTypeInv, PTL

(***************************************************************************)
(* The checks.                                                             *)
(***************************************************************************)
Passes == {"unknown", "success"}

\* What is green now has been seen so, and no run is taken away.
HistoryInv ==
  /\ {"passing", "green", "runs"} \subseteq DOMAIN seen
  /\ \A c \in Commits :
       /\ seen.runs[c] \in Nat /\ seen.runs[c] <= Len(checks[c].runs)
       /\ checks[c].legacy \in Passes => c \in seen.passing
       /\ \A i \in DOMAIN checks[c].runs :
            RankCheckRun(checks[c].runs[i]) = "success" => <<c, i>> \in seen.green

\* The status that was read first was the status then.
LegacyInv ==
  /\ pc = "runs" /\ loc.legacy \in Passes => loc.sha \in seen.passing
  /\ signals.ci.known => pc = "done"

GreenInv == TypeInv /\ HistoryInv /\ LegacyInv /\ SuccessWasGreen

LEMMA InitGreen == Init => GreenInv
  <1> SUFFICES ASSUME Init PROVE GreenInv
    OBVIOUS
  <1>1. TypeInv
    BY InitType
  <1>2. HistoryInv
    <2>1. /\ seen.runs = [c \in Commits |-> Len(checks[c].runs)]
          /\ seen.passing = {c \in Commits : checks[c].legacy \in Passes}
          /\ seen.green = {p \in Commits \X (1..MaxRuns) : Green(p[1], p[2])}
          /\ {"passing", "green", "runs"} \subseteq DOMAIN seen
      BY DEF Init, SeenAtStart, Passes
    <2>2. ASSUME NEW c \in Commits
          PROVE  /\ checks[c].runs \in Seq(STRING) /\ Len(checks[c].runs) <= MaxRuns
      <3>1. PICK w \in Worlds : checks = w.checks
        BY DEF Init
      <3>2. QED  BY <1>1, <3>1, CheckFacts, WorldsAssumption
    <2>3. ASSUME NEW c \in Commits, NEW i \in DOMAIN checks[c].runs,
                 RankCheckRun(checks[c].runs[i]) = "success"
          PROVE  <<c, i>> \in seen.green
      <3>1. i \in 1..MaxRuns
        BY <2>2, CountFacts
      <3>2. Green(c, i)
        BY <2>3 DEF Green
      <3>3. QED  BY <2>1, <3>1, <3>2
    <2>4. ASSUME NEW c \in Commits
          PROVE  seen.runs[c] \in Nat /\ seen.runs[c] <= Len(checks[c].runs)
      BY <2>1, <2>2
    <2>5. QED  BY <2>1, <2>3, <2>4 DEF HistoryInv
  <1>3. LegacyInv /\ SuccessWasGreen
    BY DEF Init, LegacyInv, SuccessWasGreen, NoCI
  <1>4. QED  BY <1>1, <1>2, <1>3 DEF GreenInv

\* The world's moves: what turns green is seen, and nothing unseen.
LEMMA WorldGreen ==
  ASSUME GreenInv, World
  PROVE  HistoryInv' /\ LegacyInv' /\ SuccessWasGreen'
  <1>1. Moves
    BY DEF World, Push, OpenOrClose, OpenThread, ToggleThread, Check, CommitStatus, DetachOrAttach
  <1>2. UNCHANGED <<pc, loc, signals, diags>> /\ ~ signals.ci.known
    BY <1>1 DEF Moves, GreenInv, LegacyInv
  <1> USE DEF GreenInv, HistoryInv
  <1> DEFINE Grown == /\ {"passing", "green", "runs"} \subseteq DOMAIN seen'
                      /\ seen.passing \subseteq seen'.passing /\ seen.green \subseteq seen'.green
                      /\ seen'.runs = seen.runs
  <1>3. HistoryInv' /\ Grown
    <2>1. ASSUME UNCHANGED checks, Grown  PROVE HistoryInv'
      BY <2>1
    <2>2. CASE \E c \in Commits : Push(c)
      <3>1. UNCHANGED checks /\ Grown
        BY <2>2 DEF Push
      <3>2. QED  BY <2>1, <3>1
    <2>3. CASE OpenOrClose \/ OpenThread \/ DetachOrAttach
      <3>1. UNCHANGED checks /\ Grown
        BY <2>3 DEF OpenOrClose, OpenThread, DetachOrAttach
      <3>2. QED  BY <2>1, <3>1
    <2>4. CASE \E i \in DOMAIN github.threads : ToggleThread(i)
      <3>1. UNCHANGED checks /\ Grown
        BY <2>4 DEF ToggleThread
      <3>2. QED  BY <2>1, <3>1
    <2>5. ASSUME NEW c \in Commits, NEW i \in 1..MaxRuns, NEW run \in Conclusions, Check(c, i, run)
          PROVE  HistoryInv' /\ Grown
      <3> DEFINE runs  == checks[c].runs
                 later == IF i \in DOMAIN runs THEN [runs EXCEPT ![i] = run] ELSE Append(runs, run)
                 green == IF RankCheckRun(run) = "success" THEN seen.green \cup {<<c, i>>}
                          ELSE seen.green
      <3>1. /\ checks' = [checks EXCEPT ![c].runs = later] /\ i <= Len(runs) + 1
            /\ seen' = [seen EXCEPT !.green = green]
        BY <2>5 DEF Check
      <3>2. Grown /\ seen'.passing = seen.passing /\ seen'.green = green
        BY <3>1
      <3>3. runs \in Seq(STRING) /\ Len(runs) \in Nat
        BY CheckFacts
      <3>4. /\ Len(runs) <= Len(later) /\ later[i] = run
            /\ \A j \in DOMAIN later : j # i => j \in DOMAIN runs /\ later[j] = runs[j]
        <4>1. CASE i \in DOMAIN runs
          BY <3>3, <4>1
        <4>2. CASE i \notin DOMAIN runs
          <5>1. i = Len(runs) + 1
            BY <3>1, <3>3, <4>2
          <5>2. QED  BY <3>3, <4>2, <5>1
        <4>3. QED  BY <4>1, <4>2
      <3> HIDE DEF later, green
      <3>5. \A d \in Commits \ {c} : checks'[d] = checks[d]
        BY <3>1 DEF TypeInv, WorldOK
      <3>6. checks'[c].runs = later /\ checks'[c].legacy = checks[c].legacy
        BY <3>1 DEF TypeInv, WorldOK
      <3>7. ASSUME NEW j \in DOMAIN later, RankCheckRun(later[j]) = "success"
            PROVE  <<c, j>> \in green
        <4>1. CASE j = i
          BY <3>4, <3>7, <4>1 DEF green
        <4>2. CASE j # i
          BY <3>4, <3>7, <4>2 DEF green
        <4>3. QED  BY <4>1, <4>2
      <3>8. seen'.runs[c] \in Nat /\ seen'.runs[c] <= Len(later)
        <4>1. Len(later) \in Nat
          BY <3>3 DEF later
        <4>2. QED  BY <3>2, <3>3, <3>4, <4>1
      <3>9. QED  BY <3>2, <3>5, <3>6, <3>7, <3>8
    <2>6. ASSUME NEW c \in Commits, NEW status \in DOMAIN RankOf, CommitStatus(c, status)
          PROVE  HistoryInv' /\ Grown
      <3> DEFINE passing == IF status \in Passes THEN seen.passing \cup {c} ELSE seen.passing
      <3>1. /\ checks' = [checks EXCEPT ![c].legacy = status]
            /\ seen' = [seen EXCEPT !.passing = passing]
        BY <2>6 DEF CommitStatus, Passes
      <3>2. Grown /\ seen'.passing = passing /\ seen'.green = seen.green
        BY <3>1
      <3>3. \A d \in Commits \ {c} : checks'[d] = checks[d]
        BY <3>1 DEF TypeInv, WorldOK
      <3>4. checks'[c].runs = checks[c].runs /\ checks'[c].legacy = status
        BY <3>1 DEF TypeInv, WorldOK
      <3>5. QED  BY <3>2, <3>3, <3>4
    <2> HIDE DEF Grown, HistoryInv
    <2>7. QED  BY <2>2, <2>3, <2>4, <2>5, <2>6 DEF World
  <1>4. LegacyInv'
    BY <1>2, <1>3 DEF LegacyInv
  <1>5. SuccessWasGreen'
    BY <1>2 DEF SuccessWasGreen
  <1>6. QED  BY <1>3, <1>4, <1>5

\* Before the checks are read nothing is said of them.
LEMMA QuietGreen ==
  ASSUME GreenInv,
         \/ IdentifyFails \/ Identify \/ Issues \/ LookupFails \/ Search \/ Select \/ Detail
         \/ PrQueryFails \/ PrMissing \/ Threads \/ OlderComments \/ CommentsDone
  PROVE  LegacyInv' /\ SuccessWasGreen'
  <1>1. ~ signals.ci.known /\ signals.ci \in CIs /\ "ci" \in DOMAIN signals
    BY DEF GreenInv, LegacyInv, TypeInv, CollectOK, Signals,
           IdentifyFails, Identify, Issues, LookupFails, Search, Select, Detail,
           PrQueryFails, PrMissing, Threads, OlderComments, CommentsDone
  <1>2. signals'.ci = signals.ci
    BY <1>1 DEF IdentifyFails, Identify, Issues, LookupFails, Search, Select, Detail,
           LookupDone, PrQueryFails, PrMissing, Threads, OlderComments, CommentsDone, ReviewsDone
  <1>3. pc' # "runs"
    BY DEF IdentifyFails, Identify, Issues, LookupFails, Search, Select, Detail,
           LookupDone, PrQueryFails, PrMissing, Threads, OlderComments, CommentsDone, ReviewsDone,
           Goto, AfterIssues, AfterLookup
  <1>4. QED  BY <1>1, <1>2, <1>3 DEF LegacyInv, SuccessWasGreen

\* Success is said of the checks at the end, and only if all of them were read.
LEMMA ChecksGreen ==
  ASSUME GreenInv, CI \/ GitHeadFails \/ Status \/ Runs
  PROVE  LegacyInv' /\ SuccessWasGreen'
  <1> USE DEF Goto
  <1>1. /\ signals \in Signals /\ UNCHANGED <<checks, seen>> /\ ~ signals.ci.known
        /\ pc \in {"ci", "status", "runs"}
    BY DEF GreenInv, TypeInv, CollectOK, LegacyInv, CI, GitHeadFails, Status, Runs, Keep, world
  <1>2. ASSUME pc' = "done", signals' = [signals EXCEPT !.ci = UnknownCI]
        PROVE  LegacyInv' /\ SuccessWasGreen'
    <2>1. signals'.ci.status = "unknown"
      BY <1>1, <1>2 DEF Signals, UnknownCI, NoCI
    <2>2. QED  BY <1>2, <2>1 DEF LegacyInv, SuccessWasGreen
  <1>3. ASSUME pc' # "runs", UNCHANGED signals  PROVE LegacyInv' /\ SuccessWasGreen'
    BY <1>1, <1>3 DEF LegacyInv, SuccessWasGreen
  <1>4. CASE CI
    BY <1>2, <1>3, <1>4 DEF CI
  <1>5. CASE GitHeadFails
    BY <1>2, <1>5 DEF GitHeadFails
  <1>6. CASE Status
    <2>1. CASE pc' = "done" /\ UNCHANGED signals
      BY <1>3, <2>1
    <2>2. CASE pc' = "runs" /\ loc' = [loc EXCEPT !.legacy = checks[loc.sha].legacy] /\ UNCHANGED signals
      <3>1. loc.sha \in Commits /\ loc \in Locs
        BY <1>6 DEF Status, GreenInv, TypeInv, CollectOK, Asking
      <3>2. loc'.legacy = checks[loc.sha].legacy /\ loc'.sha = loc.sha
        BY <2>2, <3>1 DEF Locs
      <3>3. loc'.legacy \in Passes => loc'.sha \in seen.passing
        BY <3>1, <3>2 DEF GreenInv, HistoryInv
      <3>4. QED  BY <1>1, <2>2, <3>3 DEF LegacyInv, SuccessWasGreen
    <2>3. QED  BY <1>6, <2>1, <2>2 DEF Status
  <1>7. CASE Runs
    <2> DEFINE runs == checks[loc.sha].runs
               c    == loc.sha
    <2>1. /\ c \in Commits /\ loc.legacy \in Statuses /\ runs \in Seq(STRING) /\ pc' = "done"
          /\ loc.legacy \in Passes => c \in seen.passing
      BY <1>7, CheckFacts DEF Runs, GreenInv, TypeInv, CollectOK, Asking, Locs, LegacyInv
    <2>2. \A status : [known |-> TRUE, status |-> status, head |-> c].status = status
      OBVIOUS
    <2>3. CASE Warnings("github.ci") \in diags'
      BY <2>1, <2>3 DEF LegacyInv, SuccessWasGreen
    <2>4. CASE Warnings("github.ci") \notin diags'
      <3>1. /\ ~ Truncated(runs)
            /\ signals' = [signals EXCEPT !.ci = [known |-> TRUE, head |-> c,
                                                 status |-> Rollup(loc.legacy, FirstRuns(runs))]]
        BY <1>7, <2>4 DEF Runs, Report
      <3>2. signals'.ci.status = Rollup(loc.legacy, FirstRuns(runs)) /\ signals'.ci.head = c
        BY <1>1, <3>1 DEF Signals
      <3>3. FirstRuns(runs) = runs
        BY <2>1, <3>1 DEF FirstRuns, Truncated
      <3>4. ASSUME signals'.ci.status = "success"
            PROVE  c \in seen.passing /\ \A i \in 1..seen.runs[c] : <<c, i>> \in seen.green
        <4>1. loc.legacy \in Passes /\ \A i \in DOMAIN runs : RankCheckRun(runs[i]) = "success"
          BY <2>1, <3>2, <3>3, <3>4, RollupFacts DEF Passes
        <4>2. \A i \in DOMAIN runs : <<c, i>> \in seen.green
          BY <2>1, <4>1 DEF GreenInv, HistoryInv
        <4>3. seen.runs[c] \in Nat /\ seen.runs[c] <= Len(runs)
          BY <2>1 DEF GreenInv, HistoryInv
        <4>4. QED  BY <2>1, <4>1, <4>2, <4>3
      <3>5. QED  BY <1>1, <2>1, <3>2, <3>4 DEF LegacyInv, SuccessWasGreen
    <2>5. QED  BY <2>3, <2>4
  <1>8. QED  BY <1>4, <1>5, <1>6, <1>7

LEMMA StepGreen == GreenInv /\ [Next]_vars => GreenInv'
  <1> SUFFICES ASSUME GreenInv, [Next]_vars PROVE GreenInv'
    OBVIOUS
  <1>1. TypeInv'
    BY StepType DEF GreenInv
  <1>2. CASE UNCHANGED vars
    BY <1>1, <1>2 DEF vars, GreenInv, HistoryInv, LegacyInv, SuccessWasGreen
  <1>3. CASE World
    BY <1>1, <1>3, WorldGreen DEF GreenInv
  <1>4. CASE Collect
    <2>1. UNCHANGED <<checks, seen>>
      BY <1>4 DEF Collect, IdentifyFails, Identify, Issues, LookupFails, Search, Select, Detail,
           PrQueryFails, PrMissing, Threads, OlderComments, CommentsDone, CI, GitHeadFails,
           Status, Runs, Keep, world
    <2>2. HistoryInv'
      BY <2>1 DEF GreenInv, HistoryInv
    <2>3. LegacyInv' /\ SuccessWasGreen'
      BY <1>4, QuietGreen, ChecksGreen DEF Collect
    <2>4. QED  BY <1>1, <2>2, <2>3 DEF GreenInv
  <1>5. QED  BY <1>2, <1>3, <1>4 DEF Next

\* checks.go and the rollup: success without a complaint means that every check run
\* there was at the start, and the combined status, has been green, for any number
\* of check runs and whatever they did between the two requests.
THEOREM SpecSuccessWasGreen == Spec => []SuccessWasGreen
  <1>1. GreenInv => SuccessWasGreen
    BY DEF GreenInv
  <1>2. QED  BY <1>1, InitGreen, StepGreen, PTL DEF Spec

(***************************************************************************)
(* Gaps.                                                                   *)
(***************************************************************************)
BeforeIssues == {"identify", "issues"}
InLookup     == {"search", "select", "detail"}
InReviews    == {"threads", "comments"}

\* What was asked for is there or accounted for, as soon as its turn is over.
IssuesMet == Wants("issues") => signals.issues \/ Error("github.issues") \in diags
PullMet   ==
  Wants("pull-requests") => signals.pull.known \/ Error("github.pull-requests") \in diags
ReviewsMet ==
  Wants("reviews") => \/ Reviews.known
                      \/ {Error("github.pull-requests"), Error("github.pr-query")} \cap diags # {}
                      \/ loc.looked /\ ~ loc.found
ChecksMet == Wants("ci") => signals.ci.known \/ Error("github.ci") \in diags

GapInv ==
  \/ Error("github") \in diags
  \/ /\ pc \in BeforeIssues \/ IssuesMet
     /\ pc \in BeforeIssues \cup InLookup \/ PullMet
     /\ pc \in BeforeIssues \cup InLookup \cup InReviews \/ ReviewsMet
     /\ pc = "done" => ChecksMet

LEMMA CollectGap ==
  ASSUME TypeInv, GapInv, Collect
  PROVE  GapInv'
  <1> USE DEF IssuesMet, PullMet, ReviewsMet, ChecksMet, Goto, Report
  <1>1. signals \in Signals /\ loc \in Locs /\ diags \subseteq diags' /\ request' = request
    BY DEF TypeInv, CollectOK, Collect, IdentifyFails, Identify, Issues, LookupFails, Search,
           Select, Detail, LookupDone, PrQueryFails, PrMissing, Threads, OlderComments,
           CommentsDone, ReviewsDone, CI, GitHeadFails, Status, Runs, Keep
  <1> USE DEF GapInv, BeforeIssues, InLookup, InReviews
  <1>2. CASE IdentifyFails
    BY <1>2 DEF IdentifyFails
  <1>3. CASE Identify
    BY <1>1, <1>3 DEF Identify, AfterIssues, NeedsLookup, Wants
  <1>4. CASE Issues
    BY <1>1, <1>4 DEF Issues, AfterIssues, NeedsLookup, Wants, Signals
  <1>5. CASE LookupFails
    BY <1>1, <1>5 DEF LookupFails, Wants
  <1>6. CASE Search
    BY <1>1, <1>6 DEF Search, Wants
  <1>7. ASSUME NEW found \in BOOLEAN, NEW head, LookupDone(found, head), pc \in InLookup
        PROVE  GapInv'
    BY <1>1, <1>7 DEF LookupDone, AfterLookup, WantsReviews, Wants, Signals, Locs
  <1>8. CASE Select \/ Detail
    BY <1>1, <1>7, <1>8 DEF Select, Detail, Wants
  <1>9. CASE PrQueryFails
    BY <1>1, <1>9 DEF PrQueryFails, Wants
  <1>10. CASE PrMissing
    BY <1>1, <1>10 DEF PrMissing, Wants, EmptyReviews, NoReviews, Signals, Reviews
  <1>11. CASE Threads \/ OlderComments
    BY <1>1, <1>11 DEF Threads, OlderComments, Wants
  <1>12. CASE CommentsDone
    <2>1. signals.pull \in Pulls
      BY <1>1 DEF Signals
    <2>2. signals'.issues = signals.issues /\ signals'.pull.known = signals.pull.known
      BY <1>1, <1>12, <2>1 DEF CommentsDone, ReviewsDone, Signals, Pulls
    <2>3. Wants("reviews") => Reviews'.known
      BY <1>1, <1>12 DEF CommentsDone, ReviewsDone, Signals, Reviews
    <2>4. pc \in InReviews /\ pc' = "ci" /\ diags' = diags
      BY <1>12 DEF CommentsDone, ReviewsDone
    <2>5. QED  BY <1>1, <2>2, <2>3, <2>4 DEF Wants
  <1>13. CASE CI
    BY <1>1, <1>13 DEF CI, Wants, Signals, UnknownCI, NoCI, Locs, Reviews
  <1>14. CASE GitHeadFails
    BY <1>1, <1>14 DEF GitHeadFails, Wants, Signals, UnknownCI, NoCI, Reviews
  <1>15. CASE Status
    BY <1>1, <1>15 DEF Status, Wants, Locs, Reviews
  <1>16. CASE Runs
    BY <1>1, <1>16 DEF Runs, Wants, Signals, Reviews
  <1>17. QED
    BY <1>2, <1>3, <1>4, <1>5, <1>6, <1>8, <1>9, <1>10, <1>11, <1>12, <1>13, <1>14, <1>15, <1>16
    DEF Collect

\* provider_github.go, Collect: no facet that was asked for is missing in silence,
\* whichever requests fail and in whatever order.
THEOREM SpecNoSilentGap == Spec => []NoSilentGap
  <1>1. Init => GapInv
    BY DEF Init, GapInv, BeforeIssues, InLookup, InReviews
  <1>2. TypeInv /\ GapInv /\ [Next]_vars => GapInv'
    <2> SUFFICES ASSUME TypeInv, GapInv, [Next]_vars PROVE GapInv'
      OBVIOUS
    <2>1. CASE UNCHANGED vars
      BY <2>1 DEF vars, GapInv, IssuesMet, PullMet, ReviewsMet, ChecksMet, Wants, Reviews
    <2>2. CASE World
      <3>1. UNCHANGED <<request, pc, loc, signals, diags>>
        BY <2>2 DEF World, Push, OpenOrClose, OpenThread, ToggleThread, Check, CommitStatus,
               DetachOrAttach, Moves
      <3>2. QED  BY <3>1 DEF GapInv, IssuesMet, PullMet, ReviewsMet, ChecksMet, Wants, Reviews
    <2>3. CASE Collect
      BY <2>3, CollectGap
    <2>4. QED  BY <2>1, <2>2, <2>3 DEF Next
  <1>3. GapInv => NoSilentGap
    BY DEF GapInv, NoSilentGap, IssuesMet, PullMet, ReviewsMet, ChecksMet, BeforeIssues, InLookup,
           InReviews
  <1>4. QED  BY <1>1, <1>2, <1>3, SpecTypeInv, PTL DEF Spec
==============================================================================
