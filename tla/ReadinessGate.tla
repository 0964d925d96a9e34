---------------------------- MODULE ReadinessGate ----------------------------
(***************************************************************************)
(* The gate that labels a pull request `ready-to-merge' and points its     *)
(* signal ref at the commit that passed (.github/scripts/pr-ready.cjs, run *)
(* by .github/workflows/pr-ready-gate.yml).                                *)
(*                                                                         *)
(* One pull request.  A gate run is for one commit; runs for the same      *)
(* commit are serialised by the concurrency group of the workflow, runs    *)
(* for different commits are not.  Every request a gate makes to GitHub is *)
(* a step of its own; pushes, reruns, conversions and other gates fall     *)
(* between them.                                                           *)
(***************************************************************************)
EXTENDS Naturals

CONSTANTS
    Shas,            \* commits the pull request may have as head
    NoRef,           \* the signal ref does not exist
    Budgets          \* bounds on what happens outside, one of which is chosen

Disturbances == {"push", "rerun", "toggle", "failure"}

ASSUME GateAssumption ==
    /\ NoRef \notin Shas
    /\ Budgets \subseteq [Disturbances -> Nat]

VARIABLES
    pr,          \* the pull request: head, eligible, labelled
    ref,         \* the signal ref automation/pr-ready/<number>
    run,         \* of each commit and workflow: the state of its workflow run
    check,       \* of each commit and workflow: the aggregate check
    inflight,    \* number of events GitHub has yet to deliver, by commit and kind
    pending,     \* the one waiting run of each concurrency group, or "none"
    gate,        \* the one active run of each concurrency group
    overtaken,   \* gates that act on what they read before a push, or beside such a gate
    unfinished,  \* a gate died or was overtaken, and none of the head went through alone since
    budget       \* what may still happen outside

vars == <<pr, ref, run, check, inflight, pending, gate, overtaken, unfinished, budget>>

Workflows == {"CI", "PostgreSQL builds"}

(* An event is about the present workflow run of its commit that was       *)
(* requested, went on or completed (named after the workflow), or about    *)
(* anything else, as a manual dispatch is: the pull request itself, or an  *)
(* earlier run of the commit, which is over.                               *)
Kinds == Workflows \cup {"pull request"}

(* A rerun leaves the old aggregate check in place until its own begins.   *)
RunStates == {"none", "started", "checking", "completed"}

CheckStates == {"missing", "pending", "success", "failure"}

(* open, not a draft, and aimed at the default branch: `eligible'          *)
PullRequest == [head : Shas, eligible : BOOLEAN, labelled : BOOLEAN]

Phases == {"idle", "first read", "read run", "check CI", "check builds",
           "second read", "write label", "read ref", "write ref"}

(* Stands for a pull request that a gate has not read yet.                 *)
NotRead(s) == [head |-> s, eligible |-> TRUE, labelled |-> FALSE]

Gate == [phase : Phases, kind : Kinds, saved : PullRequest, ready : BOOLEAN,
         existing : BOOLEAN]

TypeOK ==
    /\ pr \in PullRequest
    /\ ref \in Shas \cup {NoRef}
    /\ run \in [Shas -> [Workflows -> RunStates]]
    /\ check \in [Shas -> [Workflows -> CheckStates]]
    /\ inflight \in [Shas -> [Kinds -> Nat]]
    /\ pending \in [Shas -> Kinds \cup {"none"}]
    /\ gate \in [Shas -> Gate]
    /\ overtaken \subseteq Shas
    /\ unfinished \in BOOLEAN
    /\ budget \in [Disturbances -> Nat]

(* What a gate has read is of no interest to the next one.                 *)
Idle(s) == [phase |-> "idle", kind |-> "pull request", saved |-> NotRead(s),
            ready |-> FALSE, existing |-> FALSE]

Ready(s) == pr.eligible /\ \A w \in Workflows : check[s][w] = "success"

(* Label and signal agree with the state of the current head.              *)
Reconciled ==
    /\ pr.labelled = Ready(pr.head)
    /\ ref = IF Ready(pr.head) THEN pr.head ELSE NoRef

(* A pull request at rest: the workflows of its head are over, those of    *)
(* another commit are over or never ran.                                   *)
Init ==
    /\ pr \in PullRequest
    /\ ref \in Shas \cup {NoRef}
    /\ check \in [Shas -> [Workflows -> {"missing", "success", "failure"}]]
    /\ run = [s \in Shas |-> [w \in Workflows |->
                IF check[s][w] = "missing" THEN "none" ELSE "completed"]]
    /\ \A s \in Shas : (\E w \in Workflows : check[s][w] = "missing")
                        => s # pr.head /\ \A w \in Workflows : check[s][w] = "missing"
    /\ Reconciled
    /\ inflight = [s \in Shas |-> [k \in Kinds |-> 0]]
    /\ pending = [s \in Shas |-> "none"]
    /\ gate = [s \in Shas |-> Idle(s)]
    /\ overtaken = {}
    /\ unfinished = FALSE
    /\ budget \in Budgets

-----------------------------------------------------------------------------
(* GitHub and its users.                                                   *)

Emit(s, k) == inflight' = [inflight EXCEPT ![s][k] = @ + 1]

Spend(what) == budget[what] > 0 /\ budget' = [budget EXCEPT ![what] = @ - 1]

(* A gate that will act on what it read of the pull request, not read it   *)
(* again.                                                                  *)
InWindow(s) == gate[s].phase \notin {"idle", "first read", "second read"}

OfEarlierRun(k) == IF k \in Workflows THEN "pull request" ELSE k

(* A push makes another commit the head, a new one or (forced) an earlier  *)
(* one whose runs are over; both workflows are requested for it.  What is  *)
(* still to be done for the events of its earlier runs will find those     *)
(* completed.  A gate between its reads and its writes goes on with what   *)
(* it has read.                                                            *)
Push(s) ==
    /\ s # pr.head
    /\ \A w \in Workflows : run[s][w] \in {"none", "completed"}
    /\ Spend("push")
    /\ pr' = [pr EXCEPT !.head = s]
    /\ run' = [run EXCEPT ![s] = [w \in Workflows |-> "started"]]
    /\ inflight' = [inflight EXCEPT ![s] = [k \in Kinds |->
            IF k \in Workflows THEN 1
            ELSE @["CI"] + @["PostgreSQL builds"] + @["pull request"] + 1]]
    /\ pending' = [pending EXCEPT ![s] = OfEarlierRun(@)]
    /\ gate' = [gate EXCEPT ![s].kind = OfEarlierRun(@)]
    /\ overtaken' = {t \in Shas : InWindow(t)}
    /\ unfinished' = (unfinished \/ \E t \in Shas : InWindow(t))
    /\ UNCHANGED <<ref, check>>

(* Closed or reopened, converted or ready for review, retargeted.          *)
Toggle ==
    /\ Spend("toggle")
    /\ pr' = [pr EXCEPT !.eligible = ~@]
    /\ Emit(pr.head, "pull request")
    /\ UNCHANGED <<ref, run, check, pending, gate, overtaken, unfinished>>

Rerun(s, w) ==
    /\ run[s][w] = "completed"
    /\ Spend("rerun")
    /\ run' = [run EXCEPT ![s][w] = "started"]
    /\ Emit(s, w)
    /\ UNCHANGED <<pr, ref, check, pending, gate, overtaken, unfinished>>

CheckBegins(s, w) ==
    /\ run[s][w] = "started"
    /\ run' = [run EXCEPT ![s][w] = "checking"]
    /\ check' = [check EXCEPT ![s][w] = "pending"]
    /\ UNCHANGED <<pr, ref, inflight, pending, gate, overtaken, unfinished, budget>>

RunCompletes(s, w) ==
    /\ run[s][w] = "checking"
    /\ run' = [run EXCEPT ![s][w] = "completed"]
    /\ \E result \in {"success", "failure"} : check' = [check EXCEPT ![s][w] = result]
    /\ Emit(s, w)
    /\ UNCHANGED <<pr, ref, pending, gate, overtaken, unfinished, budget>>

(* Events arrive late and in any order.  One that arrives while another    *)
(* waits in the concurrency group takes its place.                         *)
Deliver(s, k) ==
    /\ inflight[s][k] > 0
    /\ inflight' = [inflight EXCEPT ![s][k] = @ - 1]
    /\ pending' = [pending EXCEPT ![s] = k]
    /\ UNCHANGED <<pr, ref, run, check, gate, overtaken, unfinished, budget>>

-----------------------------------------------------------------------------
(* The gate.                                                               *)

StartGate(s) ==
    /\ gate[s].phase = "idle" /\ pending[s] # "none"
    /\ gate' = [gate EXCEPT ![s].phase = "first read", ![s].kind = pending[s]]
    /\ pending' = [pending EXCEPT ![s] = "none"]
    /\ UNCHANGED <<pr, ref, run, check, inflight, overtaken, unfinished, budget>>

(* readiness returned; saved is the pull request it returned.              *)
Decide(g, saved, ready) ==
    [g EXCEPT !.saved = saved, !.ready = ready,
              !.phase = IF saved.labelled # ready THEN "write label" ELSE "read ref"]

(* Mutant: an old commit's gate is not ready, and goes on to say so.       *)
AfterReadOfAny(s, continued) ==
    IF pr.head # s \/ ~pr.eligible THEN Decide(gate[s], pr, FALSE) ELSE continued

(* Mutant: a draft, a closed or a retargeted pull request passes.          *)
AfterReadForgetful(s, continued) == IF pr.head # s THEN Idle(s) ELSE continued

(* The pull request was read: an old commit's gate ends here, an           *)
(* ineligible pull request is not ready, otherwise the gate goes on.       *)
AfterRead(s, continued) ==
    IF pr.head # s THEN Idle(s)
    ELSE IF ~pr.eligible THEN Decide(gate[s], pr, FALSE)
    ELSE continued

(* From a read of the head on it is alone with the label and the ref,      *)
(* unless a gate is under way that was overtaken by a push.                *)
SeesOthers(s) ==
    overtaken' = IF pr.head = s /\ \E t \in Shas \ {s} : InWindow(t)
                 THEN overtaken \cup {s} ELSE overtaken \ {s}

FirstRead(s) ==
    /\ gate[s].phase = "first read"
    /\ gate' = [gate EXCEPT ![s] =
            AfterRead(s, [gate[s] EXCEPT !.saved = pr,
                !.phase = IF gate[s].kind \in Workflows THEN "read run" ELSE "check CI"])]
    /\ SeesOthers(s)
    /\ UNCHANGED <<pr, ref, run, check, inflight, pending, unfinished, budget>>

NotReady(s) == Decide(gate[s], gate[s].saved, FALSE)

(* The run of the event, which is over if it is an earlier one.            *)
ReadRun(s) ==
    /\ gate[s].phase = "read run"
    /\ gate' = [gate EXCEPT ![s] =
            IF gate[s].kind \in Workflows /\ run[s][gate[s].kind] # "completed" THEN NotReady(s)
            ELSE [gate[s] EXCEPT !.phase = "check CI"]]
    /\ UNCHANGED <<pr, ref, run, check, inflight, pending, overtaken, unfinished, budget>>

ReadCheck(s, phase, w, next) ==
    /\ gate[s].phase = phase
    /\ gate' = [gate EXCEPT ![s] =
            IF check[s][w] # "success" THEN NotReady(s)
            ELSE [gate[s] EXCEPT !.phase = next]]
    /\ UNCHANGED <<pr, ref, run, check, inflight, pending, overtaken, unfinished, budget>>

ReadCI(s) == ReadCheck(s, "check CI", "CI", "check builds")

ReadBuilds(s) == ReadCheck(s, "check builds", "PostgreSQL builds", "second read")

SecondRead(s) ==
    /\ gate[s].phase = "second read"
    /\ gate' = [gate EXCEPT ![s] = AfterRead(s, Decide(gate[s], pr, TRUE))]
    /\ SeesOthers(s)
    /\ UNCHANGED <<pr, ref, run, check, inflight, pending, unfinished, budget>>

(* A gate dies with an error; one that dies at a write may have written.   *)
Died(s) ==
    /\ gate' = [gate EXCEPT ![s] = Idle(s)]
    /\ overtaken' = overtaken \ {s}
    /\ unfinished' = TRUE

Completed(s) ==
    /\ gate' = [gate EXCEPT ![s] = Idle(s)]
    /\ overtaken' = overtaken \ {s}
    /\ unfinished' = (unfinished /\ (s # pr.head \/ s \in overtaken))

(* removeLabel on a pull request without the label is an error.            *)
WriteLabel(s) ==
    /\ gate[s].phase = "write label"
    /\ pr' = [pr EXCEPT !.labelled = gate[s].ready]
    /\ IF ~gate[s].ready /\ ~pr.labelled
       THEN Died(s)
       ELSE /\ gate' = [gate EXCEPT ![s].phase = "read ref"]
            /\ UNCHANGED <<overtaken, unfinished>>
    /\ UNCHANGED <<ref, run, check, inflight, pending, budget>>

(* Nothing is left to write if the ref is as it should be.                 *)
ReadRef(s) ==
    /\ gate[s].phase = "read ref"
    /\ IF ref = (IF gate[s].ready THEN s ELSE NoRef)
       THEN Completed(s)
       ELSE /\ gate' = [gate EXCEPT ![s].phase = "write ref", ![s].existing = ref # NoRef]
            /\ UNCHANGED <<overtaken, unfinished>>
    /\ UNCHANGED <<pr, ref, run, check, inflight, pending, budget>>

(* Delete, update or create, as the ref that was read says; each is an     *)
(* error if another gate created or deleted the ref since.                 *)
WriteRef(s) ==
    /\ gate[s].phase = "write ref"
    /\ IF gate[s].existing = (ref = NoRef)
       THEN Died(s) /\ UNCHANGED ref
       ELSE Completed(s) /\ ref' = IF gate[s].ready THEN s ELSE NoRef
    /\ UNCHANGED <<pr, run, check, inflight, pending, budget>>

(* A request fails or the job runs into its time limit; a write may have   *)
(* been done all the same.                                                 *)
Fail(s) ==
    /\ gate[s].phase # "idle"
    /\ Spend("failure")
    /\ Died(s)
    /\ \/ UNCHANGED <<pr, ref>>
       \/ /\ gate[s].phase = "write label"
          /\ pr' = [pr EXCEPT !.labelled = gate[s].ready]
          /\ UNCHANGED ref
       \/ /\ gate[s].phase = "write ref" /\ gate[s].existing = (ref # NoRef)
          /\ ref' = IF gate[s].ready THEN s ELSE NoRef
          /\ UNCHANGED pr
    /\ UNCHANGED <<run, check, inflight, pending>>

GateStep(s) ==
    \/ StartGate(s) \/ FirstRead(s) \/ ReadRun(s) \/ ReadCI(s) \/ ReadBuilds(s)
    \/ SecondRead(s) \/ WriteLabel(s) \/ ReadRef(s) \/ WriteRef(s)

RunStep(s, w) == CheckBegins(s, w) \/ RunCompletes(s, w)

Next ==
    \/ Toggle
    \/ \E s \in Shas :
        \/ Push(s) \/ Fail(s) \/ GateStep(s)
        \/ \E w \in Workflows : Rerun(s, w) \/ RunStep(s, w)
        \/ \E k \in Kinds : Deliver(s, k)

Spec == Init /\ [][Next]_vars

(* Workflow runs end, events are delivered, gates are run and end.         *)
FairSpec ==
    /\ Spec
    /\ \A s \in Shas :
        /\ WF_vars(GateStep(s))
        /\ \A w \in Workflows : WF_vars(RunStep(s, w))
        /\ \A k \in Kinds : WF_vars(Deliver(s, k))

-----------------------------------------------------------------------------
(* Properties.                                                             *)

(* Every workflow run is over and every event has been dealt with.         *)
Settled ==
    \A s \in Shas :
        /\ \A w \in Workflows : run[s][w] \in {"none", "completed"}
        /\ \A k \in Kinds : inflight[s][k] = 0
        /\ pending[s] = "none"
        /\ gate[s].phase = "idle"

(* Whatever pushes, reruns, conversions, failures and uncertain writes     *)
(* there were, and however the gates of several commits have interleaved,  *)
(* once a gate of the head went through that was alone with the label and  *)
(* the ref, both agree with the head: no event that was coalesced away,    *)
(* read a stale check or was half done leaves them apart ("Reconcile       *)
(* independently of the label, including after a partial failure").        *)
SettledIsReconciled == Settled /\ ~unfinished => Reconciled

(* The comment in gate(): an old commit's completion must not remove a     *)
(* newer head's readiness.                                                 *)
NewerHeadIsSpared ==
    [][\A s \in Shas :
            /\ gate[s].phase \in {"write label", "write ref"}
            /\ gate'[s].phase # gate[s].phase
            /\ s # pr.head /\ Ready(pr.head) /\ ref = pr.head
        => pr'.labelled = pr.labelled /\ ref' = ref]_vars

(* What comes of that comment: only a gate that was overtaken by a push    *)
(* after its last read of the pull request, while it had writes to do,     *)
(* touches the readiness of a newer head.                                  *)
OnlyTheOvertakenDisturb ==
    [][\A s \in Shas \ overtaken :
            /\ gate[s].phase \in {"write label", "write ref"}
            /\ gate'[s].phase # gate[s].phase
            /\ s # pr.head /\ Ready(pr.head) /\ ref = pr.head
        => pr'.labelled = pr.labelled /\ ref' = ref]_vars

==============================================================================
