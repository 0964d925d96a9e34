------------------------- MODULE MCPullRequestWatch -------------------------
(* Small instances of PullRequestWatch.                                    *)
EXTENDS PullRequestWatch

Quiet == [timeout |-> 0, follow |-> FALSE, pushes |-> 0, reruns |-> 0,
          results |-> {"pass", "fail"}, merges |-> {"MERGEABLE"},
          closures |-> {}, reviews |-> {}]

(* A commit is pushed; a job is run again; people review and close, with a *)
(* watcher that follows and has a timeout.                                 *)
MCPlans == {
    [Quiet EXCEPT !.pushes = 1],
    [Quiet EXCEPT !.reruns = 1],
    [Quiet EXCEPT !.timeout = 2, !.follow = TRUE, !.results = {"skip"},
                  !.merges = {"MERGEABLE", "CONFLICTING"}, !.closures = {"MERGED"},
                  !.reviews = {"draft", "comment", "changes"}]}

=============================================================================
