-------------------------- MODULE PullRequestWatch --------------------------
(***************************************************************************)
(* The watcher of a pull request (scripts/babysit-pr.py).                  *)
(*                                                                         *)
(* A poll reads the pull request, its checks, its reviews, their inline    *)
(* comments and the workflow runs of the commit it read first, one request *)
(* after the other; pushes, checks and reviews go on between them.  What   *)
(* is green in two polls is confirmed by one more read of the head.        *)
(***************************************************************************)
EXTENDS Naturals, FiniteSets

CONSTANTS
    MaxPushes, \* bound of the pushes
    MaxErrors, \* failed polls in a row that end the watcher, 3
    Plans      \* command lines, each with what may happen to the pull request

(* timeout: in intervals, 0 is none; follow: whether success does not end  *)
(* the watcher; pushes, reruns: bounds; results: how a job may end;        *)
(* merges: what GitHub may find of the mergeability; closures: how the     *)
(* pull request may be closed; reviews: how far the review may go.         *)
Plan == [timeout : Nat, follow : BOOLEAN, pushes : 0 .. MaxPushes, reruns : Nat,
         results : SUBSET {"pass", "skip", "fail"},
         merges : SUBSET {"MERGEABLE", "CONFLICTING"},
         closures : SUBSET {"MERGED", "CLOSED"},
         reviews : SUBSET {"draft", "comment", "changes"}]

ASSUME WatchAssumption ==
    /\ MaxPushes \in Nat
    /\ MaxErrors \in Nat \ {0}
    /\ Plans \subseteq Plan

VARIABLES
    plan,    \* what was chosen at the start
    pr,      \* the pull request: head, state and mergeability
    jobs,    \* of each commit: its checks
    review,  \* how far the one review is, its one inline comment with it
    watcher, \* the process
    reruns   \* how many there were

vars == <<plan, pr, jobs, review, watcher, reruns>>

(* Commits in the order they are pushed.                                   *)
Shas == 1 .. MaxPushes + 1
NoSha == 0

(* The two jobs of the one workflow, the second after the first, and the   *)
(* status another service sets.                                            *)
Jobs == {"first", "second", "status"}
JobStates == {"none", "pending", "pass", "skip", "fail"}

PullRequest == [head : Shas, state : {"OPEN", "MERGED", "CLOSED"},
                mergeable : {"UNKNOWN", "MERGEABLE", "CONFLICTING"}, changes : BOOLEAN]

Phases == {"pr", "checks", "reviews", "inline", "runs", "confirm", "sleep", "ended"}

Summary == [total : 0 .. 3, passed : 0 .. 3, skipped : 0 .. 3, pending : 0 .. 3, failed : 0 .. 3]

GreenKey == [sha : Shas, total : 0 .. 3, passed : 0 .. 3, skipped : 0 .. 3, runs : 0 .. 1]
NoKey == [sha |-> NoSha, total |-> 0, passed |-> 0, skipped |-> 0, runs |-> 0]

Watcher == [phase : Phases, pr : PullRequest, checks : Summary,
            draft : BOOLEAN, found : SUBSET {"review", "inline"},
            seen : SUBSET {"review", "inline"},
            green : GreenKey \cup {NoKey}, announced : Shas \cup {NoSha},
            errors : 0 .. MaxErrors, elapsed : Nat,
            exit : {"none", "success", "merged", "closed", "changes", "conflict",
                    "failed", "timeout", "error"}]

TypeOK ==
    /\ plan \in Plans
    /\ pr \in [head : Shas, state : {"OPEN", "MERGED", "CLOSED"},
               mergeable : {"UNKNOWN", "MERGEABLE", "CONFLICTING"}]
    /\ jobs \in [Shas -> [Jobs -> JobStates]]
    /\ review \in {"none", "draft", "comment", "changes"}
    /\ watcher \in Watcher
    /\ reruns \in Nat

NoChecks == [total |-> 0, passed |-> 0, skipped |-> 0, pending |-> 0, failed |-> 0]
NotRead == [head |-> 1, state |-> "OPEN", mergeable |-> "UNKNOWN", changes |-> FALSE]

Init ==
    /\ plan \in Plans
    /\ pr = [head |-> 1, state |-> "OPEN", mergeable |-> "UNKNOWN"]
    /\ jobs = [s \in Shas |-> [j \in Jobs |-> "none"]]
    /\ review = "none"
    /\ watcher = [phase |-> "pr", pr |-> NotRead, checks |-> NoChecks,
                  draft |-> FALSE, found |-> {}, seen |-> {},
                  green |-> NoKey, announced |-> NoSha,
                  errors |-> 0, elapsed |-> 0, exit |-> "none"]
    /\ reruns = 0

-----------------------------------------------------------------------------
(* GitHub and its users.                                                   *)

Finished == {"pass", "skip", "fail"}

(* The status of the workflow run follows from its jobs.                   *)
RunOf(s) ==
    IF jobs[s]["first"] = "none" THEN "absent"
    ELSE IF "fail" \in {jobs[s]["first"], jobs[s]["second"]} THEN "failure"
    ELSE IF {jobs[s]["first"], jobs[s]["second"]} \subseteq Finished THEN "success"
    ELSE "running"

(* The second job is registered some time after the first has passed.      *)
Register(s, j) ==
    /\ jobs[s][j] = "none"
    /\ IF j = "second" THEN jobs[s]["first"] \in {"pass", "skip"} ELSE s = pr.head
    /\ jobs' = [jobs EXCEPT ![s][j] = "pending"]
    /\ UNCHANGED <<plan, pr, review, watcher, reruns>>

Complete(s, j) ==
    /\ jobs[s][j] = "pending"
    /\ \E result \in plan.results :
        jobs' = [jobs EXCEPT ![s][j] = result]
    /\ UNCHANGED <<plan, pr, review, watcher, reruns>>

(* Only jobs that failed are rerun, so what has passed stays passed.       *)
Rerun(s, j) ==
    /\ reruns < plan.reruns /\ reruns' = reruns + 1
    /\ jobs[s][j] = "fail"
    /\ jobs' = [jobs EXCEPT ![s][j] = "pending"]
    /\ UNCHANGED <<plan, pr, review, watcher>>

Push ==
    /\ pr.state = "OPEN" /\ pr.head <= plan.pushes
    /\ pr' = [pr EXCEPT !.head = @ + 1, !.mergeable = "UNKNOWN"]
    /\ UNCHANGED <<plan, jobs, review, watcher, reruns>>

ComputeMergeable ==
    /\ pr.mergeable = "UNKNOWN"
    /\ \E m \in plan.merges : pr' = [pr EXCEPT !.mergeable = m]
    /\ UNCHANGED <<plan, jobs, review, watcher, reruns>>

Close ==
    /\ pr.state = "OPEN"
    /\ \E s \in plan.closures : pr' = [pr EXCEPT !.state = s]
    /\ UNCHANGED <<plan, jobs, review, watcher, reruns>>

Review ==
    /\ \/ review = "none" /\ review' = "draft"
       \/ review = "draft" /\ review' \in {"comment", "changes"}
    /\ review' \in plan.reviews
    /\ UNCHANGED <<plan, pr, jobs, watcher, reruns>>

-----------------------------------------------------------------------------
(* A poll.                                                                 *)

Goto(phase) == watcher' = [watcher EXCEPT !.phase = phase]

View == [head |-> pr.head, state |-> pr.state, mergeable |-> pr.mergeable,
         changes |-> review = "changes"]

ReadPr ==
    /\ watcher.phase = "pr"
    /\ watcher' = [watcher EXCEPT !.phase = "checks", !.pr = View]
    /\ UNCHANGED <<plan, pr, jobs, review, reruns>>

(* classify_checks; any state it does not know is a failure.               *)
Classify(checks) ==
    LET in(states) == Cardinality({j \in Jobs : checks[j] \in states})
    IN [total |-> in(JobStates \ {"none"}), passed |-> in({"pass"}), skipped |-> in({"skip"}),
        pending |-> in({"pending"}), failed |-> in({"fail"})]

(* `gh pr checks' is about the commit that is the head by now.             *)
ReadChecks ==
    /\ watcher.phase = "checks"
    /\ watcher' = [watcher EXCEPT !.phase = "reviews", !.checks = Classify(jobs[pr.head])]
    /\ UNCHANGED <<plan, pr, jobs, review, reruns>>

(* The reviews, and which of them are drafts; a review without a body is   *)
(* reported by its state.                                                  *)
ReadReviews ==
    /\ watcher.phase = "reviews"
    /\ watcher' = [watcher EXCEPT !.phase = "inline",
                                  !.draft = review = "draft",
                                  !.found = IF review \in {"comment", "changes"}
                                            THEN {"review"} ELSE {}]
    /\ UNCHANGED <<plan, pr, jobs, review, reruns>>

(* The inline comments, those of a draft of one's own included.            *)
ReadInline ==
    /\ watcher.phase = "inline"
    /\ watcher' = [watcher EXCEPT !.phase = "runs", !.draft = FALSE,
                                  !.found = IF review # "none" /\ ~watcher.draft
                                            THEN @ \cup {"inline"} ELSE @]
    /\ UNCHANGED <<plan, pr, jobs, review, reruns>>

(* What a poll has read is of no interest to the next one.                 *)
Ending(w, exit) == [w EXCEPT !.phase = "ended", !.exit = exit]
Settled(w) == [w EXCEPT !.pr = NotRead, !.checks = NoChecks, !.found = {}, !.draft = FALSE]

(* The end of a poll that did not end the watcher.                         *)
Resting(w) ==
    IF plan.timeout > 0 /\ w.elapsed >= plan.timeout THEN Ending(Settled(w), "timeout")
    ELSE [Settled(w) EXCEPT !.phase = "sleep"]

(* Mutant: workflow runs that are not over do not count.                   *)
GreenDespiteRuns(w, run) == w.checks.total > 0 /\ w.checks.pending = 0 /\ w.pr.mergeable = "MERGEABLE"

Green(w, run) ==
    /\ w.checks.total > 0 /\ w.checks.pending = 0
    /\ run # "running"
    /\ w.pr.mergeable = "MERGEABLE"

KeyOf(w, run) ==
    [sha |-> w.pr.head, total |-> w.checks.total, passed |-> w.checks.passed,
     skipped |-> w.checks.skipped, runs |-> IF run = "absent" THEN 0 ELSE 1]

(* Mutant: the key is dropped whenever it is not confirmed.                *)
AfterGreenForgets(w, key) ==
    IF w.green = key THEN [w EXCEPT !.phase = "confirm"]
    ELSE Resting([w EXCEPT !.green = NoKey])

AfterGreen(w, key) ==
    IF w.green = key THEN [w EXCEPT !.phase = "confirm"]
    ELSE Resting([w EXCEPT !.green = key])

(* What watch makes of a complete snapshot, reported first.                *)
Judge(w, run) ==
    IF w.pr.state = "MERGED" THEN Ending(w, "merged")
    ELSE IF w.pr.state = "CLOSED" THEN Ending(w, "closed")
    ELSE IF w.pr.changes THEN Ending(w, "changes")
    ELSE IF w.pr.mergeable = "CONFLICTING" THEN Ending(w, "conflict")
    ELSE IF w.checks.failed > 0 \/ run = "failure" THEN Ending(w, "failed")
    ELSE IF Green(w, run) THEN AfterGreen(w, KeyOf(w, run))
    ELSE Resting([w EXCEPT !.green = NoKey])

(* Mutant: the feedback is reported once the poll has been judged.         *)
ReadRunsReportsLast ==
    /\ watcher.phase = "runs"
    /\ watcher' = LET w == Judge([watcher EXCEPT !.errors = 0], RunOf(watcher.pr.head))
                  IN IF w.phase = "ended" THEN w ELSE [w EXCEPT !.seen = @ \cup watcher.found]
    /\ UNCHANGED <<plan, pr, jobs, review, reruns>>

ReadRuns ==
    /\ watcher.phase = "runs"
    /\ watcher' = Judge([watcher EXCEPT !.errors = 0, !.seen = @ \cup watcher.found],
                        RunOf(watcher.pr.head))
    /\ UNCHANGED <<plan, pr, jobs, review, reruns>>

(* The second green poll in a row.                                         *)
Confirm ==
    /\ watcher.phase = "confirm"
    /\ watcher' =
        IF pr.head # watcher.green.sha THEN Resting(watcher)
        ELSE LET w == [watcher EXCEPT !.announced = watcher.green.sha]
             IN IF plan.follow THEN Resting(w) ELSE Ending(Settled(w), "success")
    /\ UNCHANGED <<plan, pr, jobs, review, reruns>>

(* Mutant: the count of errors is compared too late.                       *)
ReadFailsOffByOne ==
    /\ watcher.phase \in Phases \ {"sleep", "ended"}
    /\ watcher' = LET w == [Settled(watcher) EXCEPT !.errors = @ + 1]
                  IN IF watcher.errors >= MaxErrors \/ watcher.phase = "confirm" THEN Ending(w, "error")
                     ELSE [w EXCEPT !.phase = "sleep"]
    /\ UNCHANGED <<plan, pr, jobs, review, reruns>>

(* A request fails: the whole poll is skipped, with its look at the clock, *)
(* but the third in a row, or one that fails to confirm, ends the watcher.   *)
ReadFails ==
    /\ watcher.phase \in Phases \ {"sleep", "ended"}
    /\ watcher' = LET w == [Settled(watcher) EXCEPT !.errors = @ + 1]
                  IN IF w.errors >= MaxErrors \/ watcher.phase = "confirm" THEN Ending(w, "error")
                     ELSE [w EXCEPT !.phase = "sleep"]
    /\ UNCHANGED <<plan, pr, jobs, review, reruns>>

(* Within an interval GitHub registers the run and the status of a commit. *)
Sleep ==
    /\ watcher.phase = "sleep"
    /\ \A j \in {"first", "status"} : jobs[pr.head][j] # "none"
    /\ watcher' = [watcher EXCEPT !.phase = "pr",
                                  !.elapsed = IF plan.timeout = 0 THEN 0 ELSE @ + 1]
    /\ UNCHANGED <<plan, pr, jobs, review, reruns>>

Watch == ReadPr \/ ReadChecks \/ ReadReviews \/ ReadInline \/ ReadRuns \/ Confirm
            \/ ReadFails \/ Sleep

Checks == \E s \in Shas, j \in Jobs : Register(s, j) \/ Complete(s, j)

(* What happens after the watcher has ended is of no interest.             *)
Next ==
    \/ Watch
    \/ /\ watcher.phase # "ended"
       /\ \/ Checks
          \/ \E s \in Shas, j \in Jobs : Rerun(s, j)
          \/ Push \/ ComputeMergeable \/ Close \/ Review

Spec == Init /\ [][Next]_vars

(* The watcher goes on, whether its requests fail or not; GitHub starts    *)
(* and finishes the jobs of a commit and computes the mergeability.        *)
FairSpec == Spec /\ WF_vars(Watch) /\ WF_vars(Checks) /\ WF_vars(ComputeMergeable)

-----------------------------------------------------------------------------
(* Properties.                                                             *)

AllPassed(s) == \A j \in Jobs : jobs[s][j] \in {"pass", "skip"}

(* Success is announced only for a commit all of whose checks have passed, *)
(* those that had not been registered at the first look and those of jobs  *)
(* that wait for another included: the checks of a commit that was pushed  *)
(* between two requests of a poll are never taken for those of the commit  *)
(* the poll is about.                                                      *)
SuccessIsEarned ==
    [][watcher'.announced # watcher.announced => AllPassed(watcher'.announced)]_vars

(* If the watcher ends because changes were requested, it has shown the    *)
(* review and its inline comment, as its message says; a draft that was    *)
(* published while a poll was going on is not left out of the next one.    *)
RequestedChangesWereShown ==
    watcher.exit = "changes" => watcher.seen = {"review", "inline"}

(* A poll that fails does not look at the clock; the watcher still ends at *)
(* most two intervals late.                                                *)
TimeoutIsKept == plan.timeout > 0 => watcher.elapsed < plan.timeout + MaxErrors

(* Once nobody pushes any more the watcher ends, unless it follows: two    *)
(* equal green polls come, whatever part of the requests fails.            *)
WatchEnds == plan.follow \/ <>(watcher.phase = "ended")

=============================================================================
