------------------------ MODULE PullRequestWatchProofs ------------------------
(***************************************************************************)
(* Theorems about PullRequestWatch, for any plans, any number of pushes,   *)
(* reruns and failed requests.                                             *)
(*                                                                         *)
(* Why success is earned: a key that has a workflow run in it was taken    *)
(* when both jobs had passed (KeyInv), and what passed stays so.  A poll   *)
(* that finds the same key comes after an interval in which the checks of  *)
(* the head were registered (RegisteredInv), so the checks it finds        *)
(* neither pending nor failed are all there are (ChecksInv).  The last     *)
(* look at the head, before success, tells that all of them were those of  *)
(* one commit (ConfirmInv).                                                *)
(***************************************************************************)
EXTENDS PullRequestWatch, FiniteSetTheorems, TLAPS

Reading == {"pr", "checks", "reviews", "inline", "runs"}

(* The watcher ends by its verdict, and not after as many errors as end it.*)
EndInv ==
    /\ watcher.exit # "none" => watcher.phase = "ended"
    /\ watcher.phase # "ended" => watcher.errors < MaxErrors

(* No commit is known before it is the head.                               *)
HeadInv == watcher.pr.head <= pr.head /\ watcher.green.sha <= pr.head

(* The head that a key was taken of is older than an interval.             *)
RegisteredInv ==
    (watcher.phase \notin {"sleep", "ended"} /\ watcher.green.sha = pr.head) =>
        jobs[pr.head]["first"] # "none" /\ jobs[pr.head]["status"] # "none"

Passed(s, j) == jobs[s][j] \in {"pass", "skip"}

(* A key with a run in it was taken after the run.                         *)
KeyInv ==
    watcher.green.runs = 1 =>
        Passed(watcher.green.sha, "first") /\ Passed(watcher.green.sha, "second")

(* Checks of the head without pending and failed ones are complete, from   *)
(* the second poll on.                                                     *)
ChecksInv ==
    (/\ watcher.phase \in {"reviews", "inline", "runs"}
     /\ watcher.green.sha = pr.head /\ watcher.green.runs = 1
     /\ watcher.checks.pending = 0 /\ watcher.checks.failed = 0)
    => AllPassed(pr.head)

ConfirmInv ==
    watcher.phase = "confirm" =>
        /\ watcher.green # NoKey
        /\ watcher.green.sha = pr.head => AllPassed(pr.head)

(* What a poll that has seen the request of changes goes on to read.       *)
ShownInv ==
    /\ (watcher.pr.changes /\ watcher.phase \in Reading \cup {"sleep"}) => review = "changes"
    /\ (watcher.pr.changes /\ watcher.phase = "inline") =>
        (watcher.found = {"review"} /\ ~watcher.draft)
    /\ (watcher.pr.changes /\ watcher.phase = "runs") => watcher.found = {"review", "inline"}
    /\ watcher.exit = "changes" => watcher.seen = {"review", "inline"}

(* A failed poll costs an interval, a poll that does not fail ends in time.*)
ClockInv ==
    plan.timeout > 0 =>
        /\ watcher.phase = "sleep" => watcher.elapsed < plan.timeout + watcher.errors
        /\ watcher.phase \in Reading => watcher.elapsed <= plan.timeout + watcher.errors
        /\ watcher.phase \in {"confirm", "ended"} => watcher.elapsed < plan.timeout + MaxErrors

WatchInv ==
    /\ TypeOK
    /\ EndInv /\ HeadInv
    /\ RegisteredInv /\ KeyInv /\ ChecksInv /\ ConfirmInv
    /\ ShownInv /\ ClockInv

-----------------------------------------------------------------------------
(* GitHub and its users.                                                   *)

(* A step outside the watcher: no check is forgotten, none that passed is  *)
(* run again, and only the commit pushed next becomes the head.            *)
Outside ==
    /\ TypeOK'
    /\ UNCHANGED <<plan, watcher>>
    /\ pr'.head = pr.head \/ pr'.head = pr.head + 1
    /\ \A s \in Shas, j \in Jobs :
        /\ jobs[s][j] # "none" => jobs'[s][j] # "none"
        /\ jobs[s][j] \in {"pass", "skip"} => jobs'[s][j] = jobs[s][j]
    /\ review = "changes" => review' = "changes"

(* What the chosen plan may hold.                                          *)
LEMMA ChosenPlan ==
    ASSUME TypeOK
    PROVE  /\ plan.timeout \in Nat /\ plan.follow \in BOOLEAN
           /\ plan.pushes \in 0 .. MaxPushes /\ plan.reruns \in Nat
           /\ plan.results \subseteq {"pass", "skip", "fail"}
           /\ plan.merges \subseteq {"MERGEABLE", "CONFLICTING"}
           /\ plan.closures \subseteq {"MERGED", "CLOSED"}
           /\ MaxPushes \in Nat /\ MaxErrors \in Nat \ {0}
BY WatchAssumption DEF TypeOK, Plan

(* Checks come, end and are run again outside the watcher.                 *)
LEMMA CheckEffect ==
    ASSUME TypeOK, NEW s \in Shas, NEW j \in Jobs,
           Register(s, j) \/ Complete(s, j) \/ Rerun(s, j)
    PROVE  Outside
<1>1. /\ plan.results \subseteq {"pass", "skip", "fail"}
      /\ UNCHANGED <<plan, pr, review, watcher>>
  BY ChosenPlan DEF Register, Complete, Rerun
<1>2. reruns' \in Nat
  BY DEF TypeOK, Register, Complete, Rerun
<1>3. PICK result \in JobStates \ {"none"} : jobs' = [jobs EXCEPT ![s][j] = result]
  BY <1>1 DEF Register, Complete, Rerun, JobStates
<1>4. jobs[s][j] \notin {"pass", "skip"}
  BY DEF Register, Complete, Rerun
<1>5. jobs' \in [Shas -> [Jobs -> JobStates]]
  BY <1>3 DEF TypeOK
<1>6. \A t \in Shas, i \in Jobs :
        jobs'[t][i] = IF t = s /\ i = j THEN result ELSE jobs[t][i]
  BY <1>3 DEF TypeOK
<1>7. TypeOK'
  BY <1>1, <1>2, <1>5 DEF TypeOK
<1>. QED BY <1>1, <1>3, <1>4, <1>6, <1>7 DEF Outside

(* So do pushes, reviews and the rest.                                     *)
LEMMA UserEffect ==
    ASSUME TypeOK, Push \/ ComputeMergeable \/ Close \/ Review
    PROVE  Outside
<1>1. /\ plan.pushes \in 0 .. MaxPushes /\ MaxPushes \in Nat
      /\ plan.merges \subseteq {"MERGEABLE", "CONFLICTING"}
      /\ plan.closures \subseteq {"MERGED", "CLOSED"}
  BY ChosenPlan
<1>2. UNCHANGED <<plan, jobs, watcher, reruns>>
  BY DEF Push, ComputeMergeable, Close, Review
<1>3. /\ pr' \in [head : Shas, state : {"OPEN", "MERGED", "CLOSED"},
                  mergeable : {"UNKNOWN", "MERGEABLE", "CONFLICTING"}]
      /\ pr'.head = pr.head \/ pr'.head = pr.head + 1
  <2>1. CASE Push
    <3> DEFINE next == pr.head + 1
    <3>1. pr.head \in Shas
      BY DEF TypeOK
    <3>2. next \in Shas
      <4> DEFINE head == pr.head
                 pushes == plan.pushes
      <4>1. /\ head \in 1 .. MaxPushes + 1 /\ head <= pushes
            /\ pushes \in 0 .. MaxPushes /\ MaxPushes \in Nat
        BY <1>1, <2>1, <3>1 DEF Push, Shas
      <4> HIDE DEF head, pushes
      <4>2. head + 1 \in 1 .. MaxPushes + 1
        BY <4>1
      <4>. QED BY <4>2 DEF Shas, head
    <3>3. pr' = [pr EXCEPT !.head = next, !.mergeable = "UNKNOWN"]
      BY <2>1 DEF Push
    <3> HIDE DEF next
    <3>4. /\ pr' \in [head : Shas, state : {"OPEN", "MERGED", "CLOSED"},
                      mergeable : {"UNKNOWN", "MERGEABLE", "CONFLICTING"}]
          /\ pr'.head = next
      BY <3>2, <3>3 DEF TypeOK
    <3>. QED BY <3>4 DEF next
  <2>2. CASE ComputeMergeable
    BY <1>1, <2>2 DEF ComputeMergeable, TypeOK
  <2>3. CASE Close
    BY <1>1, <2>3 DEF Close, TypeOK
  <2>4. CASE Review
    BY <2>4 DEF Review, TypeOK
  <2>. QED BY <2>1, <2>2, <2>3, <2>4
<1>4. review' \in {"none", "draft", "comment", "changes"} /\ (review = "changes" => review' = "changes")
  BY DEF Push, ComputeMergeable, Close, Review, TypeOK
<1>5. TypeOK'
  BY <1>2, <1>3, <1>4 DEF TypeOK
<1>. QED BY <1>2, <1>3, <1>4, <1>5 DEF Outside

(* What the watcher knows survives them.                                   *)
LEMMA OutsideKeeps ==
    ASSUME WatchInv, Outside
    PROVE  WatchInv'
<1>1. /\ TypeOK /\ TypeOK' /\ watcher' = watcher /\ plan' = plan
      /\ pr.head \in Shas /\ pr'.head \in Shas
      /\ watcher.pr.head \in Shas /\ watcher.green.sha \in Shas \cup {NoSha}
  BY DEF WatchInv, Outside, TypeOK, Watcher, PullRequest, GreenKey, NoKey
<1>2. Shas \subseteq Int /\ NoSha \notin Shas /\ NoSha \in Int
  BY WatchAssumption DEF Shas, NoSha
<1>3. HeadInv'
  BY <1>1, <1>2 DEF WatchInv, Outside, HeadInv
<1>4. watcher.green.sha = pr'.head => pr'.head = pr.head
  <2> DEFINE known == watcher.green.sha
             head == pr.head
             next == pr'.head
  <2>1. known \in Int /\ head \in Int /\ known <= head /\ (next = head \/ next = head + 1)
    BY <1>1, <1>2 DEF WatchInv, Outside, HeadInv
  <2> HIDE DEF known, head, next
  <2>2. known = next => next = head
    BY <2>1
  <2>. QED BY <2>2 DEF known, head, next
<1>5. RegisteredInv'
  <2>1. {"first", "status"} \subseteq Jobs
    BY DEF Jobs
  <2>. QED BY <1>1, <1>4, <2>1 DEF WatchInv, Outside, RegisteredInv
<1>6. \A s \in Shas : AllPassed(s) => AllPassed(s)'
  BY DEF Outside, AllPassed
<1>7. ChecksInv' /\ ConfirmInv'
  BY <1>1, <1>4, <1>6 DEF WatchInv, ChecksInv, ConfirmInv
<1>8. KeyInv'
  <2>1. watcher.green.runs = 1 => watcher.green.sha \in Shas
    BY <1>1 DEF TypeOK, Watcher, GreenKey, NoKey
  <2>2. {"first", "second"} \subseteq Jobs
    BY DEF Jobs
  <2>. QED BY <1>1, <2>1, <2>2 DEF WatchInv, Outside, KeyInv, Passed
<1>9. EndInv' /\ ShownInv' /\ ClockInv'
  BY <1>1 DEF WatchInv, Outside, EndInv, ShownInv, ClockInv
<1>. QED BY <1>1, <1>3, <1>5, <1>7, <1>8, <1>9 DEF WatchInv

-----------------------------------------------------------------------------
(* The reads of a poll.                                                    *)

(* What a step of the watcher leaves alone.                                *)
Frame == UNCHANGED <<plan, pr, jobs, review, reruns>>

(* What GitHub shows of the pull request.                                  *)
LEMMA ViewForm ==
    ASSUME TypeOK
    PROVE  /\ View \in PullRequest /\ View.head = pr.head
           /\ View.changes = (review = "changes")
BY DEF View, PullRequest, TypeOK

(* The head and the request of changes are of one moment.                  *)
LEMMA ReadPrKeeps ==
    ASSUME WatchInv, ReadPr
    PROVE  WatchInv'
<1>1. Frame /\ watcher.phase = "pr" /\ TypeOK
  BY DEF ReadPr, Frame, WatchInv
<1> DEFINE view == View
<1>2. view \in PullRequest /\ view.head = pr.head /\ view.changes = (review = "changes")
  BY <1>1, ViewForm
<1>3. watcher' = [watcher EXCEPT !.phase = "checks", !.pr = view]
  BY DEF ReadPr
<1> HIDE DEF view
<1>4. /\ watcher' \in Watcher /\ watcher'.phase = "checks" /\ watcher'.pr = view
      /\ watcher'.green = watcher.green /\ watcher'.exit = watcher.exit
      /\ watcher'.errors = watcher.errors /\ watcher'.elapsed = watcher.elapsed
      /\ watcher'.seen = watcher.seen
  BY <1>1, <1>2, <1>3 DEF TypeOK, Watcher, Phases
<1>5. TypeOK'
  BY <1>1, <1>4 DEF TypeOK, Frame
<1>6. HeadInv'
  <2>1. pr.head \in Int
    BY <1>1, WatchAssumption DEF TypeOK, Shas
  <2>2. pr.head <= pr.head
    BY <2>1
  <2>. QED BY <1>1, <1>2, <1>4, <2>2 DEF WatchInv, HeadInv, Frame
<1>7. RegisteredInv' /\ KeyInv' /\ ChecksInv' /\ ConfirmInv'
  BY <1>1, <1>4 DEF WatchInv, Frame, RegisteredInv, KeyInv, Passed, ChecksInv, ConfirmInv
<1>8. EndInv' /\ ShownInv' /\ ClockInv'
  BY <1>1, <1>2, <1>4 DEF WatchInv, Frame, EndInv, ShownInv, ClockInv, Reading
<1>. QED BY <1>5, <1>6, <1>7, <1>8 DEF WatchInv

(* None is counted exactly if there is none.                               *)
LEMMA CountForm ==
    ASSUME NEW checks \in [Jobs -> JobStates], NEW states
    PROVE  LET found == {j \in Jobs : checks[j] \in states}
           IN /\ Cardinality(found) \in 0 .. 3
              /\ Cardinality(found) = 0 => \A j \in Jobs : checks[j] \notin states
<1> DEFINE found == {j \in Jobs : checks[j] \in states}
           three == {"first", "second", "status"}
<1>1. IsFiniteSet(three) /\ Cardinality(three) = 3
  <2>1. IsFiniteSet({"first"}) /\ Cardinality({"first"}) = 1
    BY FS_Singleton
  <2>2. IsFiniteSet({"first", "second"}) /\ Cardinality({"first", "second"}) = 2
    <3>1. {"first"} \cup {"second"} = {"first", "second"} /\ "second" \notin {"first"}
      OBVIOUS
    <3>. QED BY <2>1, <3>1, FS_AddElement
  <2>3. {"first", "second"} \cup {"status"} = three /\ "status" \notin {"first", "second"}
    OBVIOUS
  <2>. QED BY <2>2, <2>3, FS_AddElement
<1>2. found \subseteq three
  BY DEF Jobs
<1>3. IsFiniteSet(found) /\ Cardinality(found) <= 3
  BY <1>1, <1>2, FS_Subset
<1>4. Cardinality(found) \in Nat /\ (Cardinality(found) = 0 <=> found = {})
  BY <1>3, FS_CardinalityType, FS_EmptySet
<1>5. Cardinality(found) = 0 => \A j \in Jobs : checks[j] \notin states
  BY <1>4
<1> HIDE DEF found
<1>6. Cardinality(found) \in 0 .. 3
  BY <1>3, <1>4
<1>. QED BY <1>5, <1>6 DEF found

(* Checks of which none is pending or failed in the count are neither.     *)
LEMMA ClassifyForm ==
    ASSUME NEW checks \in [Jobs -> JobStates]
    PROVE  /\ Classify(checks) \in Summary
           /\ Classify(checks).pending = 0 => \A j \in Jobs : checks[j] # "pending"
           /\ Classify(checks).failed = 0 => \A j \in Jobs : checks[j] # "fail"
<1> DEFINE in(states) == Cardinality({j \in Jobs : checks[j] \in states})
<1>1. /\ in(JobStates \ {"none"}) \in 0 .. 3 /\ in({"pass"}) \in 0 .. 3
      /\ in({"skip"}) \in 0 .. 3 /\ in({"pending"}) \in 0 .. 3 /\ in({"fail"}) \in 0 .. 3
  BY CountForm
<1>2. /\ in({"pending"}) = 0 => \A j \in Jobs : checks[j] \notin {"pending"}
      /\ in({"fail"}) = 0 => \A j \in Jobs : checks[j] \notin {"fail"}
  BY CountForm
<1>3. Classify(checks) =
        [total |-> in(JobStates \ {"none"}), passed |-> in({"pass"}), skipped |-> in({"skip"}),
         pending |-> in({"pending"}), failed |-> in({"fail"})]
  BY DEF Classify
<1> HIDE DEF in
<1>. QED BY <1>1, <1>2, <1>3 DEF Summary

(* What is neither pending nor failed of a head whose key was taken is all *)
(* there is.                                                               *)
LEMMA ReadChecksKeeps ==
    ASSUME WatchInv, ReadChecks
    PROVE  WatchInv'
<1>1. Frame /\ watcher.phase = "checks" /\ TypeOK /\ pr.head \in Shas
  BY DEF ReadChecks, Frame, WatchInv, TypeOK
<1> DEFINE summary == Classify(jobs[pr.head])
<1>2. /\ summary \in Summary
      /\ summary.pending = 0 => \A j \in Jobs : jobs[pr.head][j] # "pending"
      /\ summary.failed = 0 => \A j \in Jobs : jobs[pr.head][j] # "fail"
  <2>1. jobs[pr.head] \in [Jobs -> JobStates]
    BY <1>1 DEF TypeOK
  <2>2. PICK checks \in [Jobs -> JobStates] : checks = jobs[pr.head]
    BY <2>1
  <2>. QED BY <2>2, ClassifyForm
<1>3. watcher' = [watcher EXCEPT !.phase = "reviews", !.checks = summary]
  BY DEF ReadChecks
<1> HIDE DEF summary
<1>4. /\ watcher' \in Watcher /\ watcher'.phase = "reviews" /\ watcher'.checks = summary
      /\ watcher'.pr = watcher.pr
      /\ watcher'.green = watcher.green /\ watcher'.exit = watcher.exit
      /\ watcher'.errors = watcher.errors /\ watcher'.elapsed = watcher.elapsed
      /\ watcher'.seen = watcher.seen
  BY <1>1, <1>2, <1>3 DEF TypeOK, Watcher, Phases
<1>5. TypeOK'
  BY <1>1, <1>4 DEF TypeOK, Frame
<1>6. ChecksInv'
  <2>1. SUFFICES ASSUME watcher.green.sha = pr.head, watcher.green.runs = 1,
                        summary.pending = 0, summary.failed = 0
                 PROVE  AllPassed(pr.head)
    BY <1>1, <1>4 DEF ChecksInv, Frame, AllPassed
  <2>2. \A j \in Jobs : jobs[pr.head][j] # "none"
    BY <1>1, <2>1 DEF WatchInv, RegisteredInv, KeyInv, Passed, Jobs
  <2>3. \A j \in Jobs : jobs[pr.head][j] \in JobStates
    BY <1>1 DEF TypeOK
  <2>. QED BY <1>2, <2>1, <2>2, <2>3 DEF AllPassed, JobStates
<1>7. HeadInv' /\ RegisteredInv' /\ KeyInv' /\ ConfirmInv'
  BY <1>1, <1>4 DEF WatchInv, Frame, HeadInv, RegisteredInv, KeyInv, Passed, ConfirmInv
<1>8. EndInv' /\ ShownInv' /\ ClockInv'
  BY <1>1, <1>4 DEF WatchInv, Frame, EndInv, ShownInv, ClockInv, Reading
<1>. QED BY <1>5, <1>6, <1>7, <1>8 DEF WatchInv

(* The drafts come before the comments.                                    *)
LEMMA ReadReviewsKeeps ==
    ASSUME WatchInv, ReadReviews
    PROVE  WatchInv'
<1>1. Frame /\ watcher.phase = "reviews" /\ TypeOK
  BY DEF ReadReviews, Frame, WatchInv
<1> DEFINE draft == review = "draft"
           found == IF review \in {"comment", "changes"} THEN {"review"} ELSE {}
<1>2. /\ draft \in BOOLEAN /\ found \subseteq {"review", "inline"}
      /\ review = "changes" => (found = {"review"} /\ ~draft)
  OBVIOUS
<1>3. watcher' = [watcher EXCEPT !.phase = "inline", !.draft = draft, !.found = found]
  BY DEF ReadReviews
<1> HIDE DEF draft, found
<1>4. /\ watcher' \in Watcher /\ watcher'.phase = "inline"
      /\ watcher'.draft = draft /\ watcher'.found = found
      /\ watcher'.pr = watcher.pr /\ watcher'.checks = watcher.checks
      /\ watcher'.green = watcher.green /\ watcher'.exit = watcher.exit
      /\ watcher'.errors = watcher.errors /\ watcher'.elapsed = watcher.elapsed
      /\ watcher'.seen = watcher.seen
  BY <1>1, <1>2, <1>3 DEF TypeOK, Watcher, Phases
<1>5. TypeOK'
  BY <1>1, <1>4 DEF TypeOK, Frame
<1>6. HeadInv' /\ RegisteredInv' /\ KeyInv' /\ ChecksInv' /\ ConfirmInv'
  BY <1>1, <1>4 DEF WatchInv, Frame, HeadInv, RegisteredInv, KeyInv, Passed, ChecksInv,
                    ConfirmInv, AllPassed
<1>7. ShownInv'
  BY <1>1, <1>2, <1>4 DEF WatchInv, Frame, ShownInv, Reading
<1>8. EndInv' /\ ClockInv'
  BY <1>1, <1>4 DEF WatchInv, Frame, EndInv, ClockInv, Reading
<1>. QED BY <1>5, <1>6, <1>7, <1>8 DEF WatchInv

(* The inline comments are found unless the review they belong to is a     *)
(* draft.                                                                  *)
LEMMA ReadInlineKeeps ==
    ASSUME WatchInv, ReadInline
    PROVE  WatchInv'
<1>1. Frame /\ watcher.phase = "inline" /\ TypeOK
  BY DEF ReadInline, Frame, WatchInv
<1> DEFINE found == IF review # "none" /\ ~watcher.draft
                    THEN watcher.found \cup {"inline"} ELSE watcher.found
<1>2. /\ found \subseteq {"review", "inline"}
      /\ watcher.pr.changes => found = {"review", "inline"}
  BY <1>1 DEF TypeOK, Watcher, WatchInv, ShownInv, Reading
<1>3. watcher' = [watcher EXCEPT !.phase = "runs", !.draft = FALSE, !.found = found]
  BY DEF ReadInline
<1> HIDE DEF found
<1>4. /\ watcher' \in Watcher /\ watcher'.phase = "runs"
      /\ watcher'.found = found
      /\ watcher'.pr = watcher.pr /\ watcher'.checks = watcher.checks
      /\ watcher'.green = watcher.green /\ watcher'.exit = watcher.exit
      /\ watcher'.errors = watcher.errors /\ watcher'.elapsed = watcher.elapsed
      /\ watcher'.seen = watcher.seen
  BY <1>1, <1>2, <1>3 DEF TypeOK, Watcher, Phases
<1>5. TypeOK'
  BY <1>1, <1>4 DEF TypeOK, Frame
<1>6. HeadInv' /\ RegisteredInv' /\ KeyInv' /\ ChecksInv' /\ ConfirmInv'
  BY <1>1, <1>4 DEF WatchInv, Frame, HeadInv, RegisteredInv, KeyInv, Passed, ChecksInv,
                    ConfirmInv, AllPassed
<1>7. ShownInv'
  BY <1>1, <1>2, <1>4 DEF WatchInv, Frame, ShownInv, Reading
<1>8. EndInv' /\ ClockInv'
  BY <1>1, <1>4 DEF WatchInv, Frame, EndInv, ClockInv, Reading
<1>. QED BY <1>5, <1>6, <1>7, <1>8 DEF WatchInv

-----------------------------------------------------------------------------
(* The end of a poll.                                                      *)

Exits == {"none", "success", "merged", "closed", "changes", "conflict", "failed", "timeout", "error"}

(* A watcher that ends keeps all it has found.                             *)
LEMMA EndingForm ==
    ASSUME NEW w \in Watcher, NEW exit \in Exits
    PROVE  /\ Ending(w, exit) \in Watcher
           /\ Ending(w, exit).phase = "ended" /\ Ending(w, exit).exit = exit
           /\ Ending(w, exit).pr = w.pr /\ Ending(w, exit).green = w.green
           /\ Ending(w, exit).seen = w.seen /\ Ending(w, exit).announced = w.announced
           /\ Ending(w, exit).errors = w.errors /\ Ending(w, exit).elapsed = w.elapsed
BY DEF Ending, Watcher, Phases, Exits

(* A watcher at rest forgets the poll and keeps what it has shown.         *)
LEMMA SettledForm ==
    ASSUME NEW w \in Watcher
    PROVE  /\ Settled(w) \in Watcher
           /\ Settled(w).phase = w.phase /\ Settled(w).exit = w.exit
           /\ Settled(w).pr = NotRead /\ Settled(w).green = w.green
           /\ Settled(w).seen = w.seen /\ Settled(w).announced = w.announced
           /\ Settled(w).errors = w.errors /\ Settled(w).elapsed = w.elapsed
<1>1. NotRead \in PullRequest
  BY WatchAssumption DEF NotRead, PullRequest, Shas
<1>2. NoChecks \in Summary
  BY DEF NoChecks, Summary
<1>. QED BY <1>1, <1>2 DEF Settled, Watcher

(* A poll that does not end the watcher, unless the time is up.            *)
LEMMA RestingForm ==
    ASSUME TypeOK, NEW w \in Watcher
    PROVE  /\ Resting(w) \in Watcher
           /\ Resting(w).pr = NotRead /\ Resting(w).green = w.green
           /\ Resting(w).seen = w.seen /\ Resting(w).announced = w.announced
           /\ Resting(w).errors = w.errors /\ Resting(w).elapsed = w.elapsed
           /\ \/ Resting(w).phase = "ended" /\ Resting(w).exit = "timeout"
              \/ /\ Resting(w).phase = "sleep" /\ Resting(w).exit = w.exit
                 /\ plan.timeout > 0 => w.elapsed < plan.timeout
<1> DEFINE settled == Settled(w)
<1>1. /\ settled \in Watcher
      /\ settled.phase = w.phase /\ settled.exit = w.exit
      /\ settled.pr = NotRead /\ settled.green = w.green
      /\ settled.seen = w.seen /\ settled.announced = w.announced
      /\ settled.errors = w.errors /\ settled.elapsed = w.elapsed
  BY SettledForm
<1>2. Resting(w) = IF plan.timeout > 0 /\ w.elapsed >= plan.timeout THEN Ending(settled, "timeout")
                   ELSE [settled EXCEPT !.phase = "sleep"]
  BY DEF Resting
<1> HIDE DEF settled
<1>3. CASE plan.timeout > 0 /\ w.elapsed >= plan.timeout
  <2>1. Resting(w) = Ending(settled, "timeout") /\ "timeout" \in Exits
    BY <1>2, <1>3 DEF Exits
  <2>. QED BY <1>1, <2>1, EndingForm
<1>4. CASE ~(plan.timeout > 0 /\ w.elapsed >= plan.timeout)
  <2>1. Resting(w) = [settled EXCEPT !.phase = "sleep"]
    BY <1>2, <1>4
  <2>2. plan.timeout > 0 => w.elapsed < plan.timeout
    BY <1>4, ChosenPlan DEF Watcher
  <2>. QED BY <1>1, <2>1, <2>2 DEF Watcher, Phases
<1>. QED BY <1>3, <1>4

(* A key names the head and counts the run that was found.                 *)
LEMMA KeyForm ==
    ASSUME NEW w \in Watcher, NEW found
    PROVE  /\ KeyOf(w, found) \in GreenKey /\ KeyOf(w, found).sha = w.pr.head
           /\ KeyOf(w, found).runs = (IF found = "absent" THEN 0 ELSE 1)
BY DEF KeyOf, GreenKey, Watcher, PullRequest, Summary

(* What a complete poll w may lead to: the watcher ends, sleeps, or        *)
(* confirms a key that it has found before.                                *)
Judged(w, found, v) ==
    /\ v \in Watcher /\ v.phase \in {"ended", "sleep", "confirm"}
    /\ v.pr \in {w.pr, NotRead} /\ (v.phase = "sleep" => v.pr = NotRead)
    /\ v.seen = w.seen /\ v.announced = w.announced
    /\ v.errors = w.errors /\ v.elapsed = w.elapsed
    /\ v.exit # "none" => v.phase = "ended"
    /\ v.exit = "changes" => w.pr.changes
    /\ (v.phase = "sleep" /\ plan.timeout > 0) => v.elapsed < plan.timeout
    /\ \/ v.green \in {w.green, NoKey} /\ v.phase # "confirm"
       \/ /\ v.green = KeyOf(w, found) /\ (v.phase = "confirm" => w.green = v.green)
          /\ Green(w, found) /\ w.checks.failed = 0 /\ found # "failure"

(* A poll that ends without a verdict keeps its key only if it was green.  *)
LEMMA RestingIsJudged ==
    ASSUME TypeOK, NEW w \in Watcher, w.exit = "none", NEW found,
           NEW green \in GreenKey \cup {NoKey},
           \/ green = NoKey
           \/ /\ green = KeyOf(w, found)
              /\ Green(w, found) /\ w.checks.failed = 0 /\ found # "failure"
    PROVE  Judged(w, found, Resting([w EXCEPT !.green = green]))
<1> DEFINE u == [w EXCEPT !.green = green]
           v == Resting(u)
<1>1. /\ u \in Watcher /\ u.green = green /\ u.exit = "none" /\ u.seen = w.seen
      /\ u.announced = w.announced /\ u.errors = w.errors /\ u.elapsed = w.elapsed
  BY DEF Watcher
<1> HIDE DEF u
<1>2. /\ v \in Watcher /\ v.pr = NotRead /\ v.green = u.green
      /\ v.seen = u.seen /\ v.announced = u.announced
      /\ v.errors = u.errors /\ v.elapsed = u.elapsed
      /\ \/ v.phase = "ended" /\ v.exit = "timeout"
         \/ /\ v.phase = "sleep" /\ v.exit = u.exit
            /\ plan.timeout > 0 => u.elapsed < plan.timeout
  BY <1>1, RestingForm
<1> HIDE DEF v
<1>3. Judged(w, found, v)
  BY <1>1, <1>2 DEF Judged
<1>. QED BY <1>3 DEF u, v

(* Nothing is demanded of a verdict but that a request of changes was      *)
(* read.                                                                   *)
LEMMA EndingIsJudged ==
    ASSUME NEW w \in Watcher, NEW found, NEW exit \in Exits \ {"none"},
           exit = "changes" => w.pr.changes
    PROVE  Judged(w, found, Ending(w, exit))
<1> DEFINE v == Ending(w, exit)
<1>1. /\ v \in Watcher /\ v.phase = "ended" /\ v.exit = exit
      /\ v.pr = w.pr /\ v.green = w.green
      /\ v.seen = w.seen /\ v.announced = w.announced
      /\ v.errors = w.errors /\ v.elapsed = w.elapsed
  BY EndingForm
<1> HIDE DEF v
<1>2. Judged(w, found, v)
  BY <1>1 DEF Judged
<1>. QED BY <1>2 DEF v

(* Every branch of the verdict is one of these.                            *)
LEMMA JudgeForm ==
    ASSUME TypeOK, NEW w \in Watcher, w.exit = "none", NEW found
    PROVE  Judged(w, found, Judge(w, found))
<1> DEFINE key == KeyOf(w, found)
<1>1. key \in GreenKey
  BY KeyForm
<1>2. CASE \E exit \in Exits \ {"none"} :
            Judge(w, found) = Ending(w, exit) /\ (exit = "changes" => w.pr.changes)
  BY <1>2, EndingIsJudged
<1>3. CASE Judge(w, found) = Resting([w EXCEPT !.green = NoKey])
  BY <1>3, RestingIsJudged
<1>4. CASE /\ Green(w, found) /\ w.checks.failed = 0 /\ found # "failure"
           /\ Judge(w, found) = AfterGreen(w, key)
  <2>1. CASE w.green = key
    <3> DEFINE v == [w EXCEPT !.phase = "confirm"]
    <3>1. /\ v \in Watcher /\ v.phase = "confirm" /\ v.exit = "none"
          /\ v.pr = w.pr /\ v.green = w.green
          /\ v.seen = w.seen /\ v.announced = w.announced
          /\ v.errors = w.errors /\ v.elapsed = w.elapsed
      BY DEF Watcher, Phases
    <3>2. Judge(w, found) = v
      BY <1>4, <2>1 DEF AfterGreen
    <3> HIDE DEF v
    <3>3. Judged(w, found, v)
      BY <1>4, <2>1, <3>1 DEF Judged
    <3>. QED BY <3>2, <3>3
  <2>2. CASE w.green # key
    <3>1. Judge(w, found) = Resting([w EXCEPT !.green = key])
      BY <1>4, <2>2 DEF AfterGreen
    <3> HIDE DEF key
    <3>2. Judged(w, found, Resting([w EXCEPT !.green = key]))
      BY <1>1, <1>4, RestingIsJudged DEF key
    <3>. QED BY <3>1, <3>2
  <2>. QED BY <2>1, <2>2
<1>5. w.checks.failed \in Nat
  BY DEF Watcher, Summary
<1>6. w.checks.failed > 0 \/ w.checks.failed = 0
  <2> DEFINE failed == w.checks.failed
  <2> HIDE DEF failed
  <2>1. failed > 0 \/ failed = 0
    BY <1>5 DEF failed
  <2>. QED BY <2>1 DEF failed
<1>. QED BY <1>2, <1>3, <1>4, <1>6 DEF Judge, Exits

(* A run that was found, does not go on and has not failed has passed both *)
(* its jobs.                                                               *)
LEMMA RunForm ==
    ASSUME TypeOK, NEW s \in Shas
    PROVE  /\ RunOf(s) = "absent" => jobs[s]["first"] = "none"
           /\ RunOf(s) \notin {"absent", "failure", "running"} =>
                Passed(s, "first") /\ Passed(s, "second")
BY DEF RunOf, Passed, Finished

(* A key that is found twice, of what is still the head, is of a commit    *)
(* all of whose checks have passed.                                        *)
LEMMA ReadRunsKeeps ==
    ASSUME WatchInv, ReadRuns
    PROVE  WatchInv' /\ watcher'.announced = watcher.announced
<1>1. /\ Frame /\ watcher.phase = "runs" /\ TypeOK /\ watcher.exit = "none"
      /\ watcher \in Watcher
  BY DEF ReadRuns, Frame, WatchInv, EndInv, TypeOK
<1> DEFINE seen == watcher.seen \cup watcher.found
           w == [watcher EXCEPT !.errors = 0, !.seen = seen]
           found == RunOf(watcher.pr.head)
<1>2. /\ w \in Watcher /\ w.errors = 0 /\ w.seen = watcher.seen \cup watcher.found
      /\ w.pr = watcher.pr /\ w.checks = watcher.checks /\ w.green = watcher.green
      /\ w.exit = "none" /\ w.elapsed = watcher.elapsed /\ w.announced = watcher.announced
  <2>1. seen \subseteq {"review", "inline"} /\ 0 \in 0 .. MaxErrors
    BY <1>1, WatchAssumption DEF Watcher
  <2>2. seen = watcher.seen \cup watcher.found
    OBVIOUS
  <2> HIDE DEF seen
  <2>. QED BY <1>1, <2>1, <2>2 DEF Watcher
<1>3. watcher' = Judge(w, found)
  BY DEF ReadRuns
<1>4. watcher.pr.head \in Shas
  BY <1>1 DEF Watcher, PullRequest
<1>5. /\ found = "absent" => jobs[watcher.pr.head]["first"] = "none"
      /\ found \notin {"absent", "failure", "running"} =>
            Passed(watcher.pr.head, "first") /\ Passed(watcher.pr.head, "second")
  <2>1. PICK s \in Shas : s = watcher.pr.head
    BY <1>4
  <2>. QED BY <1>1, <2>1, RunForm
<1> HIDE DEF w, found
<1>6. Judged(w, found, watcher')
  <2>1. PICK u \in Watcher : u = w
    BY <1>2
  <2>2. Judged(u, found, Judge(u, found))
    BY <1>1, <1>2, <2>1, JudgeForm
  <2>. QED BY <1>3, <2>1, <2>2
<1>7. TypeOK'
  BY <1>1, <1>6 DEF TypeOK, Frame, Judged
<1>8. EndInv'
  BY <1>2, <1>6, WatchAssumption DEF EndInv, Judged
<1>9. KeyOf(w, found).sha = watcher.pr.head
      /\ KeyOf(w, found).runs = (IF found = "absent" THEN 0 ELSE 1)
  <2>1. PICK u \in Watcher : u = w
    BY <1>2
  <2>. QED BY <1>2, <2>1, KeyForm
<1>10. HeadInv'
  <2>1. NotRead.head <= pr.head /\ NoKey.sha <= pr.head
    <3>1. pr.head \in Shas /\ MaxPushes \in Nat
      BY <1>1, WatchAssumption DEF TypeOK
    <3>. QED BY <3>1 DEF Shas, NotRead, NoKey, NoSha
  <2>. QED BY <1>1, <1>2, <1>6, <1>9, <2>1 DEF WatchInv, HeadInv, Judged, Frame
<1>11. KeyInv'
  BY <1>1, <1>2, <1>5, <1>6, <1>9 DEF WatchInv, KeyInv, Passed, Judged, Frame, Green, NoKey
<1>12. RegisteredInv' /\ ChecksInv' /\ ConfirmInv'
  <2>1. CASE watcher'.phase = "confirm"
    <3>1. /\ watcher'.green = watcher.green /\ watcher.green.sha = watcher.pr.head
          /\ watcher.green.runs = (IF found = "absent" THEN 0 ELSE 1)
          /\ watcher.checks.pending = 0 /\ watcher.checks.failed = 0 /\ found # "failure"
      BY <1>2, <1>6, <1>9, <2>1 DEF Judged, Green
    <3>2. watcher.green # NoKey
      BY <1>4, <3>1, WatchAssumption DEF Shas, NoKey, NoSha
    <3>3. watcher.green.sha = pr.head => (found # "absent" /\ AllPassed(pr.head))
      BY <1>1, <1>5, <3>1 DEF WatchInv, RegisteredInv, ChecksInv
    <3>. QED BY <1>1, <2>1, <3>1, <3>2, <3>3
             DEF WatchInv, Frame, RegisteredInv, ChecksInv, ConfirmInv, AllPassed
  <2>2. CASE watcher'.phase \in {"sleep", "ended"}
    BY <2>2 DEF RegisteredInv, ChecksInv, ConfirmInv
  <2>. QED BY <1>6, <2>1, <2>2 DEF Judged
<1>13. ShownInv'
  <2>1. watcher'.exit = "changes" => watcher'.seen = {"review", "inline"}
    BY <1>1, <1>2, <1>6 DEF WatchInv, ShownInv, Judged, Watcher
  <2>. QED BY <1>6, <2>1 DEF ShownInv, Reading, Judged, NotRead
<1>14. ClockInv'
  <2>1. plan.timeout > 0 => watcher.elapsed < plan.timeout + MaxErrors
    <3> DEFINE elapsed == watcher.elapsed
               errors == watcher.errors
               timeout == plan.timeout
    <3>1. /\ elapsed \in Nat /\ errors \in Nat /\ timeout \in Nat /\ MaxErrors \in Nat
          /\ errors < MaxErrors /\ (timeout > 0 => elapsed <= timeout + errors)
      BY <1>1, ChosenPlan DEF WatchInv, EndInv, ClockInv, Reading, Watcher
    <3> HIDE DEF elapsed, errors, timeout
    <3>2. timeout > 0 => elapsed < timeout + MaxErrors
      BY <3>1
    <3>. QED BY <3>2 DEF elapsed, timeout
  <2>2. plan.timeout + 0 = plan.timeout
    BY <1>1, ChosenPlan
  <2>. QED BY <1>1, <1>2, <1>6, <2>1, <2>2 DEF ClockInv, Judged, Reading, Frame
<1>. QED BY <1>2, <1>6, <1>7, <1>8, <1>10, <1>11, <1>12, <1>13, <1>14
        DEF WatchInv, Judged

(* Success needs nothing but the head to be the same.                      *)
LEMMA ConfirmKeeps ==
    ASSUME WatchInv, Confirm
    PROVE  /\ WatchInv'
           /\ watcher'.announced # watcher.announced => AllPassed(watcher'.announced)
<1>1. /\ Frame /\ watcher.phase = "confirm" /\ TypeOK /\ watcher.exit = "none"
      /\ watcher \in Watcher /\ pr.head \in Shas
  BY DEF Confirm, Frame, WatchInv, EndInv, TypeOK
<1> DEFINE sha == watcher.green.sha
           w == [watcher EXCEPT !.announced = sha]
<1>2. sha = pr.head => AllPassed(pr.head)
  BY <1>1 DEF WatchInv, ConfirmInv
<1>3. sha \in Shas \cup {NoSha}
  BY <1>1 DEF Watcher, GreenKey, NoKey
<1>4. watcher' = IF pr.head # sha THEN Resting(watcher)
                 ELSE IF plan.follow THEN Resting(w) ELSE Ending(Settled(w), "success")
  BY DEF Confirm
<1> HIDE DEF sha
<1>5. /\ w \in Watcher /\ w.announced = sha /\ w.green = watcher.green /\ w.exit = "none"
      /\ w.seen = watcher.seen /\ w.errors = watcher.errors /\ w.elapsed = watcher.elapsed
  BY <1>1, <1>3 DEF Watcher
<1> HIDE DEF w
<1>6. /\ watcher' \in Watcher /\ watcher'.phase \in {"ended", "sleep"}
      /\ watcher'.pr = NotRead /\ watcher'.green = watcher.green
      /\ watcher'.exit # "none" => watcher'.phase = "ended"
      /\ watcher'.exit # "changes" /\ watcher'.seen = watcher.seen
      /\ watcher'.errors = watcher.errors /\ watcher'.elapsed = watcher.elapsed
      /\ (watcher'.phase = "sleep" /\ plan.timeout > 0) => watcher.elapsed < plan.timeout
      /\ watcher'.announced # watcher.announced => (sha = pr.head /\ watcher'.announced = sha)
  <2>1. CASE pr.head # sha
    BY <1>1, <1>4, <2>1, RestingForm
  <2>2. CASE pr.head = sha /\ plan.follow
    BY <1>1, <1>4, <1>5, <2>2, RestingForm
  <2>3. CASE pr.head = sha /\ ~plan.follow
    <3>1. PICK u \in Watcher : u = Settled(w)
      BY <1>5, SettledForm
    <3>2. watcher' = Ending(u, "success") /\ "success" \in Exits
      BY <1>4, <2>3, <3>1 DEF Exits
    <3>3. /\ u.pr = NotRead /\ u.green = w.green /\ u.seen = w.seen
          /\ u.announced = w.announced /\ u.errors = w.errors /\ u.elapsed = w.elapsed
      BY <1>5, <3>1, SettledForm
    <3>. QED BY <1>5, <2>3, <3>2, <3>3, EndingForm
  <2>. QED BY <2>1, <2>2, <2>3
<1>7. TypeOK'
  BY <1>1, <1>6 DEF TypeOK, Frame
<1>8. HeadInv'
  <2>1. NotRead.head <= pr.head
    <3>1. MaxPushes \in Nat
      BY WatchAssumption
    <3>. QED BY <1>1, <3>1 DEF Shas, NotRead
  <2>. QED BY <1>1, <1>6, <2>1 DEF WatchInv, HeadInv, Frame
<1>9. RegisteredInv' /\ KeyInv' /\ ChecksInv' /\ ConfirmInv'
  BY <1>1, <1>6 DEF WatchInv, Frame, RegisteredInv, KeyInv, Passed, ChecksInv, ConfirmInv
<1>10. EndInv'
  BY <1>1, <1>6 DEF WatchInv, EndInv
<1>11. ShownInv'
  BY <1>1, <1>6 DEF WatchInv, ShownInv, Reading, NotRead
<1>12. ClockInv'
  <2>1. watcher.errors \in Nat /\ plan.timeout \in Nat /\ watcher.elapsed \in Nat
    BY <1>1, ChosenPlan DEF Watcher
  <2>2. (plan.timeout > 0 /\ watcher'.phase = "sleep") =>
            watcher.elapsed < plan.timeout + watcher.errors
    <3> DEFINE elapsed == watcher.elapsed
               errors == watcher.errors
               timeout == plan.timeout
    <3>1. /\ elapsed \in Nat /\ errors \in Nat /\ timeout \in Nat
          /\ (timeout > 0 /\ watcher'.phase = "sleep") => elapsed < timeout
      BY <1>6, <2>1
    <3> HIDE DEF elapsed, errors, timeout
    <3>2. (timeout > 0 /\ watcher'.phase = "sleep") => elapsed < timeout + errors
      BY <3>1
    <3>. QED BY <3>2 DEF elapsed, errors, timeout
  <2>. QED BY <1>1, <1>6, <2>2 DEF WatchInv, ClockInv, Reading, Frame
<1>. QED BY <1>2, <1>6, <1>7, <1>8, <1>9, <1>10, <1>11, <1>12 DEF WatchInv

(* A failed poll leaves nothing behind but its error.                      *)
LEMMA ReadFailsKeeps ==
    ASSUME WatchInv, ReadFails
    PROVE  WatchInv' /\ watcher'.announced = watcher.announced
<1>1. /\ Frame /\ watcher.phase \in Reading \cup {"confirm"} /\ TypeOK /\ watcher.exit = "none"
      /\ watcher \in Watcher /\ pr.head \in Shas
  BY DEF ReadFails, Frame, WatchInv, EndInv, TypeOK, Reading, Phases
<1> DEFINE u == Settled(watcher)
           errors == u.errors + 1
           w == [u EXCEPT !.errors = errors]
<1>2. /\ u \in Watcher /\ u.exit = "none" /\ u.pr = NotRead /\ u.green = watcher.green
      /\ u.seen = watcher.seen /\ u.announced = watcher.announced
      /\ u.errors = watcher.errors /\ u.elapsed = watcher.elapsed
  BY <1>1, SettledForm
<1>3. /\ watcher.errors \in Nat /\ watcher.elapsed \in Nat /\ MaxErrors \in Nat
      /\ watcher.errors < MaxErrors /\ plan.timeout \in Nat
  BY <1>1, ChosenPlan DEF WatchInv, EndInv, Watcher, Reading
<1>4. /\ errors \in 0 .. MaxErrors /\ errors = watcher.errors + 1
  <2> DEFINE before == watcher.errors
  <2>1. before \in Nat /\ before < MaxErrors
    BY <1>3
  <2> HIDE DEF before
  <2>2. before + 1 \in 0 .. MaxErrors
    BY <1>3, <2>1
  <2>. QED BY <1>2, <2>2 DEF before
<1>5. watcher' = IF w.errors >= MaxErrors \/ watcher.phase = "confirm" THEN Ending(w, "error")
                 ELSE [w EXCEPT !.phase = "sleep"]
  BY DEF ReadFails
<1> HIDE DEF u, errors
<1>6. /\ w \in Watcher /\ w.errors = errors /\ w.exit = "none" /\ w.pr = NotRead
      /\ w.green = watcher.green /\ w.seen = watcher.seen
      /\ w.announced = watcher.announced /\ w.elapsed = watcher.elapsed
  BY <1>2, <1>4 DEF Watcher
<1> HIDE DEF w
<1>7. /\ watcher' \in Watcher /\ watcher'.pr = NotRead /\ watcher'.green = watcher.green
      /\ watcher'.seen = watcher.seen /\ watcher'.announced = watcher.announced
      /\ watcher'.errors = errors /\ watcher'.elapsed = watcher.elapsed
      /\ \/ watcher'.phase = "ended" /\ watcher'.exit = "error"
         \/ /\ watcher'.phase = "sleep" /\ watcher'.exit = "none"
            /\ errors < MaxErrors /\ watcher.phase \in Reading
  <2>1. CASE w.errors >= MaxErrors \/ watcher.phase = "confirm"
    <3>1. watcher' = Ending(w, "error") /\ "error" \in Exits
      BY <1>5, <2>1 DEF Exits
    <3>. QED BY <1>6, <3>1, EndingForm
  <2>2. CASE ~(w.errors >= MaxErrors \/ watcher.phase = "confirm")
    <3>1. watcher' = [w EXCEPT !.phase = "sleep"]
      BY <1>5, <2>2
    <3>2. errors < MaxErrors
      BY <1>3, <1>4, <1>6, <2>2
    <3>. QED BY <1>1, <1>6, <2>2, <3>1, <3>2 DEF Watcher, Phases
  <2>. QED BY <2>1, <2>2
<1>8. TypeOK'
  BY <1>1, <1>7 DEF TypeOK, Frame
<1>9. HeadInv'
  <2>1. NotRead.head <= pr.head
    <3>1. MaxPushes \in Nat
      BY WatchAssumption
    <3>. QED BY <1>1, <3>1 DEF Shas, NotRead
  <2>. QED BY <1>1, <1>7, <2>1 DEF WatchInv, HeadInv, Frame
<1>10. RegisteredInv' /\ KeyInv' /\ ChecksInv' /\ ConfirmInv'
  BY <1>1, <1>7 DEF WatchInv, Frame, RegisteredInv, KeyInv, Passed, ChecksInv, ConfirmInv
<1>11. EndInv' /\ ShownInv'
  BY <1>7 DEF EndInv, ShownInv, Reading, NotRead
<1>12. ClockInv'
  <2> DEFINE elapsed == watcher.elapsed
             before == watcher.errors
             timeout == plan.timeout
  <2>1. /\ elapsed \in Nat /\ before \in Nat /\ timeout \in Nat /\ errors = before + 1
        /\ before < MaxErrors
        /\ (timeout > 0 /\ watcher.phase \in Reading) => elapsed <= timeout + before
        /\ (timeout > 0 /\ watcher.phase = "confirm") => elapsed < timeout + MaxErrors
    BY <1>3, <1>4 DEF WatchInv, ClockInv
  <2> HIDE DEF elapsed, before, timeout
  <2>2. /\ (timeout > 0 /\ watcher.phase \in Reading) => elapsed < timeout + errors
        /\ timeout > 0 => elapsed < timeout + MaxErrors
    BY <1>1, <1>3, <2>1
  <2>. QED BY <1>1, <1>7, <2>2 DEF ClockInv, Reading, Frame, elapsed, timeout
<1>. QED BY <1>7, <1>8, <1>9, <1>10, <1>11, <1>12 DEF WatchInv

(* After an interval the checks of the head are registered.                *)
LEMMA SleepKeeps ==
    ASSUME WatchInv, Sleep
    PROVE  WatchInv' /\ watcher'.announced = watcher.announced
<1>1. /\ Frame /\ watcher.phase = "sleep" /\ TypeOK /\ watcher.exit = "none"
      /\ watcher \in Watcher
      /\ jobs[pr.head]["first"] # "none" /\ jobs[pr.head]["status"] # "none"
  BY DEF Sleep, Frame, WatchInv, EndInv, TypeOK
<1> DEFINE elapsed == IF plan.timeout = 0 THEN 0 ELSE watcher.elapsed + 1
<1>2. elapsed \in Nat /\ (plan.timeout # 0 => elapsed = watcher.elapsed + 1)
  BY <1>1 DEF Watcher
<1>3. watcher' = [watcher EXCEPT !.phase = "pr", !.elapsed = elapsed]
  BY DEF Sleep
<1> HIDE DEF elapsed
<1>4. /\ watcher' \in Watcher /\ watcher'.phase = "pr" /\ watcher'.elapsed = elapsed
      /\ watcher'.pr = watcher.pr /\ watcher'.green = watcher.green
      /\ watcher'.exit = watcher.exit /\ watcher'.seen = watcher.seen
      /\ watcher'.announced = watcher.announced /\ watcher'.errors = watcher.errors
  BY <1>1, <1>2, <1>3 DEF Watcher, Phases
<1>5. TypeOK'
  BY <1>1, <1>4 DEF TypeOK, Frame
<1>6. HeadInv' /\ RegisteredInv' /\ KeyInv' /\ ChecksInv' /\ ConfirmInv' /\ EndInv'
  BY <1>1, <1>4 DEF WatchInv, Frame, HeadInv, RegisteredInv, KeyInv, Passed, ChecksInv,
                    ConfirmInv, EndInv
<1>7. ShownInv'
  BY <1>1, <1>4 DEF WatchInv, ShownInv, Frame, Reading
<1>8. ClockInv'
  <2> DEFINE before == watcher.elapsed
             bound == plan.timeout + watcher.errors
  <2>1. /\ before \in Nat /\ bound \in Nat
        /\ plan.timeout > 0 => before < bound
        /\ plan.timeout > 0 => elapsed = before + 1
    BY <1>1, <1>2, ChosenPlan DEF WatchInv, ClockInv, Watcher
  <2> HIDE DEF before, bound
  <2>2. plan.timeout > 0 => elapsed <= bound
    BY <2>1
  <2>. QED BY <1>1, <1>4, <2>2 DEF ClockInv, Reading, Frame, bound
<1>. QED BY <1>4, <1>5, <1>6, <1>7, <1>8 DEF WatchInv

-----------------------------------------------------------------------------
(* Theorems.                                                               *)

(* The watcher starts with nothing read.                                   *)
LEMMA InitInv == Init => WatchInv
<1> SUFFICES ASSUME Init PROVE WatchInv
  OBVIOUS
<1>1. 1 \in Shas /\ 0 \in 0 .. MaxErrors /\ MaxErrors > 0
  BY WatchAssumption DEF Shas
<1>2. NotRead \in PullRequest /\ NotRead.head = 1 /\ NotRead.changes = FALSE
  BY <1>1 DEF NotRead, PullRequest
<1>3. NoChecks \in Summary
  BY DEF NoChecks, Summary
<1>4. /\ watcher \in Watcher /\ watcher.phase = "pr" /\ watcher.pr = NotRead
      /\ watcher.green = NoKey /\ watcher.errors = 0 /\ watcher.elapsed = 0
      /\ watcher.exit = "none"
  BY <1>1, <1>2, <1>3 DEF Init, Watcher, Phases
<1>5. TypeOK /\ pr.head = 1
  BY <1>1, <1>4 DEF Init, TypeOK, JobStates
<1>6. EndInv /\ HeadInv /\ ShownInv
  BY <1>1, <1>2, <1>4, <1>5 DEF EndInv, HeadInv, ShownInv, NoKey, NoSha
<1>7. RegisteredInv /\ KeyInv /\ ChecksInv /\ ConfirmInv
  BY <1>4, <1>5 DEF RegisteredInv, KeyInv, ChecksInv, ConfirmInv, NoKey, NoSha
<1>8. ClockInv
  BY <1>4, <1>5, ChosenPlan DEF ClockInv, Reading
<1>. QED BY <1>5, <1>6, <1>7, <1>8 DEF WatchInv

(* Only Confirm announces.                                                 *)
LEMMA StepInv ==
    ASSUME WatchInv, [Next]_vars
    PROVE  /\ WatchInv'
           /\ watcher'.announced # watcher.announced => AllPassed(watcher'.announced)
<1>1. TypeOK /\ watcher \in Watcher
  BY DEF WatchInv, TypeOK
<1>2. CASE Confirm
  BY <1>2, ConfirmKeeps
<1>3. CASE ReadFails \/ Sleep
  BY <1>3, ReadFailsKeeps, SleepKeeps
<1>4. CASE ReadPr \/ ReadChecks \/ ReadReviews \/ ReadInline
  <2>1. WatchInv'
    BY <1>4, ReadPrKeeps, ReadChecksKeeps, ReadReviewsKeeps, ReadInlineKeeps
  <2>2. watcher'.announced = watcher.announced
    BY <1>1, <1>4 DEF ReadPr, ReadChecks, ReadReviews, ReadInline, Watcher
  <2>. QED BY <2>1, <2>2
<1>5. CASE ReadRuns
  BY <1>5, ReadRunsKeeps
<1>6. CASE \E s \in Shas, j \in Jobs : Register(s, j) \/ Complete(s, j) \/ Rerun(s, j)
  <2>1. Outside
    BY <1>1, <1>6, CheckEffect
  <2>. QED BY <2>1, OutsideKeeps DEF Outside
<1>7. CASE Push \/ ComputeMergeable \/ Close \/ Review
  <2>1. Outside
    BY <1>1, <1>7, UserEffect
  <2>. QED BY <2>1, OutsideKeeps DEF Outside
<1>8. CASE UNCHANGED vars
  <2>1. Outside
    BY <1>1, <1>8 DEF Outside, vars, TypeOK
  <2>. QED BY <2>1, OutsideKeeps DEF Outside
<1>. QED BY <1>2, <1>3, <1>4, <1>5, <1>6, <1>7, <1>8 DEF Next, Watch, Checks

(* The invariant that the other theorems follow from.                      *)
THEOREM WatchInvariant == Spec => []WatchInv
BY InitInv, StepInv, PTL DEF Spec

(* The state of the watcher and of the pull request has its type, however  *)
(* many requests fail.                                                     *)
THEOREM TypeCorrect == Spec => []TypeOK
<1>1. WatchInv => TypeOK
  BY DEF WatchInv
<1>. QED BY <1>1, WatchInvariant, PTL

(* Success is announced only for a commit all of whose checks have passed, *)
(* also those that were not registered at the first look.                  *)
THEOREM Earned == Spec => SuccessIsEarned
<1>1. (WatchInv /\ [Next]_vars) =>
        [watcher'.announced # watcher.announced => AllPassed(watcher'.announced)]_vars
  BY StepInv
<1>. QED BY <1>1, WatchInvariant, PTL DEF Spec, SuccessIsEarned

(* A watcher that ends for requested changes has shown the review and its  *)
(* inline comment.                                                         *)
THEOREM Shown == Spec => []RequestedChangesWereShown
<1>1. WatchInv => RequestedChangesWereShown
  BY DEF WatchInv, ShownInv, RequestedChangesWereShown
<1>. QED BY <1>1, WatchInvariant, PTL

(* The watcher is late by no more intervals than polls may fail in a row.  *)
THEOREM InTime == Spec => []TimeoutIsKept
<1>1. WatchInv => TimeoutIsKept
  <2> SUFFICES ASSUME WatchInv, plan.timeout > 0
               PROVE  watcher.elapsed < plan.timeout + MaxErrors
    BY DEF TimeoutIsKept
  <2>1. watcher \in Watcher /\ TypeOK
    BY DEF WatchInv, TypeOK
  <2>2. CASE watcher.phase \in {"confirm", "ended"}
    BY <2>2 DEF WatchInv, ClockInv
  <2>3. CASE watcher.phase \notin {"confirm", "ended"}
    <3> DEFINE elapsed == watcher.elapsed
               errors == watcher.errors
               timeout == plan.timeout
    <3>1. watcher.phase \in Reading \cup {"sleep"}
      BY <2>1, <2>3 DEF Watcher, Phases, Reading
    <3>2. /\ elapsed \in Nat /\ errors \in Nat /\ timeout \in Nat /\ MaxErrors \in Nat
          /\ errors < MaxErrors /\ elapsed <= timeout + errors
      BY <2>1, <2>3, <3>1, ChosenPlan DEF WatchInv, EndInv, ClockInv, Watcher
    <3> HIDE DEF elapsed, errors, timeout
    <3>3. elapsed < timeout + MaxErrors
      BY <3>2
    <3>. QED BY <3>3 DEF elapsed, timeout
  <2>. QED BY <2>2, <2>3
<1>. QED BY <1>1, WatchInvariant, PTL

=============================================================================
