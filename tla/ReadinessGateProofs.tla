------------------------- MODULE ReadinessGateProofs -------------------------
(***************************************************************************)
(* Theorems about ReadinessGate, for any commits and any number of pushes, *)
(* reruns, conversions and failures, at any point of any gate.             *)
(*                                                                         *)
(* What a gate has read may be stale, but whatever made it so is an event  *)
(* that has not reached a gate yet: as long as no event is owed to the     *)
(* head (Stirred), all that its gate has read still holds (SavedInv,       *)
(* ChecksInv, VerdictInv).  A gate that read the head and was not          *)
(* overtaken since is alone with the label and the ref (WindowInv).  Hence *)
(* the last gate of the head leaves both right (RestInv), unless what an   *)
(* overtaken or a dead one did to them has still to be repaired.           *)
(***************************************************************************)
EXTENDS ReadinessGate, TLAPS

(* A gate for the commit is due: a workflow run of it will complete, or an *)
(* event is on its way or waits.                                           *)
Stirred(s) ==
    \/ \E w \in Workflows : run[s][w] # "completed"
    \/ \E k \in Kinds : inflight[s][k] > 0
    \/ pending[s] # "none"

WritePhases == {"write label", "read ref", "write ref"}

(* The head has its workflow runs.                                         *)
HeadInv == \A w \in Workflows : run[pr.head][w] # "none"

(* Another gate may write the label and the ref as well.                   *)
Shared(s) == \E t \in Shas \ {s} : InWindow(t)

(* A gate that acts on what it has read is that of the head and the only   *)
(* one, or it was overtaken.                                               *)
AloneInv(s) == InWindow(s) /\ s \notin overtaken => s = pr.head /\ ~Shared(s)

(* One that was overtaken leaves something to repair.                      *)
TakenInv(s) == InWindow(s) /\ ~unfinished => s = pr.head /\ s \notin overtaken

WindowInv == \A s \in Shas : AloneInv(s) /\ TakenInv(s)

(* No other gate writes the label after it was read.                       *)
SavedInv(s) ==
    s \notin overtaken =>
    /\ gate[s].phase \in {"read run", "check CI", "check builds"}
        => gate[s].saved.labelled = pr.labelled
    /\ gate[s].phase \in {"read ref", "write ref"} => pr.labelled = gate[s].ready

(* What the gate of the head has found is so, or an event is owed.         *)
ChecksInv(s) ==
    s = pr.head /\ ~Stirred(s) =>
        /\ gate[s].phase \in {"check builds", "second read"} => check[s]["CI"] = "success"
        /\ gate[s].phase = "second read" => check[s]["PostgreSQL builds"] = "success"

(* So is what it has decided by it.                                        *)
VerdictInv(s) ==
    s = pr.head /\ ~Stirred(s) =>
        (gate[s].phase \in WritePhases => gate[s].ready = Ready(s))

(* A head that no event is owed to was left in order by its last gate.     *)
RestInv(s) ==
    s = pr.head /\ ~Stirred(s) => (gate[s].phase = "idle" /\ ~unfinished => Reconciled)

GateOK(s) ==
    /\ SavedInv(s) /\ ChecksInv(s)
    /\ VerdictInv(s) /\ RestInv(s)

GateInv == TypeOK /\ HeadInv /\ WindowInv /\ \A s \in Shas : GateOK(s)

-----------------------------------------------------------------------------
(* The type.                                                               *)

(* What a step of a gate leaves to the others.                             *)
Others(s) ==
    /\ gate' \in [Shas -> Gate] /\ overtaken' \subseteq Shas
    /\ \A t \in Shas \ {s} :
        gate'[t] = gate[t] /\ (t \in overtaken' <=> t \in overtaken)

(* Nothing is left of a gate that has ended.                               *)
LEMMA IdleForm ==
    ASSUME NEW s \in Shas
    PROVE  Idle(s) \in Gate /\ Idle(s).phase = "idle"
BY DEF Idle, NotRead, Gate, Phases, Kinds, Workflows, PullRequest

(* A gate that has decided writes the label first, unless it is right.     *)
LEMMA DecideForm ==
    ASSUME NEW g \in Gate, NEW saved \in PullRequest, NEW ready \in BOOLEAN
    PROVE  /\ Decide(g, saved, ready) \in Gate
           /\ Decide(g, saved, ready).saved = saved
           /\ Decide(g, saved, ready).ready = ready
           /\ Decide(g, saved, ready).phase =
                IF saved.labelled # ready THEN "write label" ELSE "read ref"
BY DEF Decide, Gate, Phases

(* An event more is under way.                                             *)
LEMMA EmitForm ==
    ASSUME TypeOK, NEW s \in Shas, NEW k \in Kinds, Emit(s, k)
    PROVE  /\ inflight' \in [Shas -> [Kinds -> Nat]]
           /\ \A t \in Shas, j \in Kinds :
                inflight'[t][j] = IF t = s /\ j = k THEN inflight[t][j] + 1 ELSE inflight[t][j]
BY DEF TypeOK, Emit

(* A budget that is spent stays a budget.                                  *)
LEMMA SpendForm ==
    ASSUME TypeOK, NEW what \in Disturbances, Spend(what)
    PROVE  budget' \in [Disturbances -> Nat]
BY DEF TypeOK, Spend

-----------------------------------------------------------------------------
(* What GitHub and its users do.                                           *)

(* A step outside the gate that leaves the head: what it changes for the   *)
(* head is an event that is owed.                                          *)
Quiet ==
    /\ UNCHANGED <<ref, gate, overtaken, unfinished>>
    /\ pr'.head = pr.head /\ pr'.labelled = pr.labelled
    /\ \A w \in Workflows : run[pr.head][w] # "none" => run'[pr.head][w] # "none"
    /\ Stirred(pr.head) => Stirred(pr.head)'
    /\ ~Stirred(pr.head)' =>
        /\ pr'.eligible = pr.eligible
        /\ \A w \in Workflows : check'[pr.head][w] = check[pr.head][w]

(* A conversion is an event of the head.                                   *)
LEMMA ToggleEffect ==
    ASSUME TypeOK, Toggle
    PROVE  Quiet /\ TypeOK'
<1>1. /\ pr \in PullRequest /\ pr.head \in Shas /\ "pull request" \in Kinds
      /\ "toggle" \in Disturbances
  BY DEF TypeOK, PullRequest, Kinds, Disturbances
<1>2. /\ pr' \in PullRequest /\ pr'.head = pr.head /\ pr'.labelled = pr.labelled
  BY <1>1 DEF Toggle, PullRequest
<1>3. /\ inflight' \in [Shas -> [Kinds -> Nat]]
      /\ inflight'[pr.head]["pull request"] > 0
  <2>1. PICK h \in Shas : h = pr.head
    BY <1>1
  <2>2. Emit(h, "pull request")
    BY <2>1 DEF Toggle
  <2> DEFINE before == inflight[h]["pull request"]
             after == inflight'[h]["pull request"]
  <2>3. before \in Nat
    BY <1>1, <2>1 DEF TypeOK
  <2>4. inflight' \in [Shas -> [Kinds -> Nat]] /\ after = before + 1
    BY <1>1, <2>2, EmitForm
  <2>5. after > 0
    <3> HIDE DEF before, after
    <3>. QED BY <2>3, <2>4
  <2>. QED BY <2>1, <2>4, <2>5
<1>4. Stirred(pr.head)'
  <2>1. inflight'[pr'.head]["pull request"] > 0
    BY <1>2, <1>3
  <2>. QED BY <1>1, <2>1 DEF Stirred
<1>5. budget' \in [Disturbances -> Nat]
  BY <1>1, SpendForm DEF Toggle
<1>6. Quiet
  BY <1>2, <1>4 DEF Quiet, Toggle
<1>7. TypeOK'
  BY <1>2, <1>3, <1>5 DEF TypeOK, Toggle
<1>. QED BY <1>6, <1>7

(* A rerun will complete.                                                  *)
LEMMA RerunEffect ==
    ASSUME TypeOK, NEW s \in Shas, NEW w \in Workflows, Rerun(s, w)
    PROVE  Quiet /\ TypeOK'
<1>1. pr.head \in Shas /\ w \in Kinds /\ "rerun" \in Disturbances
  BY DEF TypeOK, PullRequest, Kinds, Disturbances
<1>2. /\ run' \in [Shas -> [Workflows -> RunStates]]
      /\ \A t \in Shas, v \in Workflows :
           run'[t][v] = IF t = s /\ v = w THEN "started" ELSE run[t][v]
  BY DEF Rerun, TypeOK, RunStates
<1>3. /\ inflight' \in [Shas -> [Kinds -> Nat]]
      /\ \A t \in Shas, j \in Kinds :
           inflight'[t][j] = IF t = s /\ j = w THEN inflight[t][j] + 1 ELSE inflight[t][j]
  BY <1>1, EmitForm DEF Rerun
<1>4. Stirred(pr.head) => Stirred(pr.head)'
  <2>1. \A k \in Kinds : inflight[pr.head][k] \in Nat
    BY <1>1 DEF TypeOK
  <2>. QED BY <1>1, <1>2, <1>3, <2>1 DEF Stirred, Rerun
<1>5. Quiet
  BY <1>1, <1>2, <1>4 DEF Quiet, Rerun
<1>6. budget' \in [Disturbances -> Nat]
  BY <1>1, SpendForm DEF Rerun
<1>7. TypeOK'
  BY <1>2, <1>3, <1>6 DEF TypeOK, Rerun
<1>. QED BY <1>5, <1>7

(* A check begins while its workflow run goes on.                          *)
LEMMA CheckBeginsEffect ==
    ASSUME TypeOK, NEW s \in Shas, NEW w \in Workflows, CheckBegins(s, w)
    PROVE  Quiet /\ TypeOK'
<1>1. pr.head \in Shas
  BY DEF TypeOK, PullRequest
<1>2. /\ run' \in [Shas -> [Workflows -> RunStates]]
      /\ \A t \in Shas, v \in Workflows :
           run'[t][v] = IF t = s /\ v = w THEN "checking" ELSE run[t][v]
  BY DEF CheckBegins, TypeOK, RunStates
<1>3. /\ check' \in [Shas -> [Workflows -> CheckStates]]
      /\ \A t \in Shas \ {s} : check'[t] = check[t]
  BY DEF CheckBegins, TypeOK, CheckStates
<1>4. Stirred(pr.head) => Stirred(pr.head)'
  BY <1>1, <1>2 DEF Stirred, CheckBegins
<1>5. pr.head = s => Stirred(pr.head)
  BY DEF Stirred, CheckBegins
<1>6. Quiet
  BY <1>1, <1>2, <1>3, <1>4, <1>5 DEF Quiet, CheckBegins
<1>7. TypeOK'
  BY <1>2, <1>3 DEF TypeOK, CheckBegins
<1>. QED BY <1>6, <1>7

(* A completed run is an event of its commit.                              *)
LEMMA RunCompletesEffect ==
    ASSUME TypeOK, NEW s \in Shas, NEW w \in Workflows, RunCompletes(s, w)
    PROVE  Quiet /\ TypeOK'
<1>1. pr.head \in Shas /\ w \in Kinds
  BY DEF TypeOK, PullRequest, Kinds
<1>2. /\ run' \in [Shas -> [Workflows -> RunStates]]
      /\ \A t \in Shas, v \in Workflows :
           run'[t][v] = IF t = s /\ v = w THEN "completed" ELSE run[t][v]
  BY DEF RunCompletes, TypeOK, RunStates
<1>3. /\ check' \in [Shas -> [Workflows -> CheckStates]]
      /\ \A t \in Shas \ {s} : check'[t] = check[t]
  BY DEF RunCompletes, TypeOK, CheckStates
<1>4. /\ inflight' \in [Shas -> [Kinds -> Nat]]
      /\ \A t \in Shas, j \in Kinds :
           inflight'[t][j] = IF t = s /\ j = w THEN inflight[t][j] + 1 ELSE inflight[t][j]
  BY <1>1, EmitForm DEF RunCompletes
<1>5. \A k \in Kinds : inflight[pr.head][k] \in Nat
  BY <1>1 DEF TypeOK
<1>6. Stirred(pr.head) => Stirred(pr.head)'
  BY <1>1, <1>2, <1>4, <1>5 DEF Stirred, RunCompletes
<1>7. pr.head = s => Stirred(pr.head)
  BY DEF Stirred, RunCompletes
<1>8. Quiet
  BY <1>1, <1>2, <1>3, <1>6, <1>7 DEF Quiet, RunCompletes
<1>9. TypeOK'
  BY <1>2, <1>3, <1>4 DEF TypeOK, RunCompletes
<1>. QED BY <1>8, <1>9

(* An event that arrives waits or begins a gate.                           *)
LEMMA DeliverEffect ==
    ASSUME TypeOK, NEW s \in Shas, NEW k \in Kinds, Deliver(s, k)
    PROVE  Quiet /\ TypeOK'
<1>1. pr.head \in Shas /\ k # "none"
  BY DEF TypeOK, PullRequest, Kinds, Workflows
<1>2. /\ inflight' \in [Shas -> [Kinds -> Nat]]
      /\ \A t \in Shas \ {s} : inflight'[t] = inflight[t]
  BY DEF Deliver, TypeOK
<1>3. /\ pending' \in [Shas -> Kinds \cup {"none"}]
      /\ \A t \in Shas : pending'[t] = IF t = s THEN k ELSE pending[t]
  BY DEF Deliver, TypeOK
<1>4. Stirred(pr.head) => Stirred(pr.head)'
  BY <1>1, <1>2, <1>3 DEF Stirred, Deliver
<1>5. Quiet
  BY <1>1, <1>4 DEF Quiet, Deliver
<1>6. TypeOK'
  BY <1>2, <1>3 DEF TypeOK, Deliver
<1>. QED BY <1>5, <1>6

(* A push overtakes the gates in their windows; events are owed to the new *)
(* head.                                                                   *)
LEMMA PushEffect ==
    ASSUME TypeOK, NEW s \in Shas, Push(s)
    PROVE  /\ TypeOK'
           /\ pr'.head = s /\ pr'.labelled = pr.labelled
           /\ Stirred(s)'
           /\ \A w \in Workflows : run'[s][w] = "started"
           /\ \A t \in Shas : gate'[t].phase = gate[t].phase /\ gate'[t].ready = gate[t].ready
           /\ overtaken' = {t \in Shas : InWindow(t)}
           /\ unfinished' \/ (UNCHANGED unfinished /\ \A t \in Shas : ~InWindow(t))
<1>1. "push" \in Disturbances /\ "CI" \in Kinds
  BY DEF Disturbances, Kinds, Workflows
<1>2. pr' \in PullRequest /\ pr'.head = s /\ pr'.labelled = pr.labelled
  BY DEF TypeOK, Push, PullRequest
<1>3. /\ run' \in [Shas -> [Workflows -> RunStates]]
      /\ \A w \in Workflows : run'[s][w] = "started"
  BY DEF TypeOK, Push, RunStates
<1>4. /\ inflight' \in [Shas -> [Kinds -> Nat]]
      /\ inflight'[s]["CI"] > 0
  <2>1. PICK old \in [Kinds -> Nat] : old = inflight[s]
    BY DEF TypeOK
  <2>2. PICK total \in Nat :
          total = old["CI"] + old["PostgreSQL builds"] + old["pull request"] + 1
    <3>1. PICK x, y, z \in Nat : x = old["CI"] /\ y = old["PostgreSQL builds"]
                                 /\ z = old["pull request"]
      BY DEF Kinds, Workflows
    <3>2. x + y + z + 1 \in Nat
      OBVIOUS
    <3>. QED BY <3>1, <3>2
  <2> DEFINE owed == [k \in Kinds |-> IF k \in Workflows THEN 1 ELSE total]
  <2>3. owed \in [Kinds -> Nat]
    BY <2>2
  <2>4. owed["CI"] = 1
    BY DEF Kinds, Workflows
  <2>5. inflight' = [inflight EXCEPT ![s] = owed]
    BY <2>1, <2>2 DEF Push
  <2> HIDE DEF owed
  <2>. QED BY <2>3, <2>4, <2>5 DEF TypeOK
<1>9. pending' \in [Shas -> Kinds \cup {"none"}]
  BY DEF TypeOK, Push, OfEarlierRun, Kinds
<1>10. /\ gate' \in [Shas -> Gate]
       /\ \A t \in Shas : gate'[t].phase = gate[t].phase /\ gate'[t].ready = gate[t].ready
  <2>1. PICK old \in Gate : old = gate[s]
    BY DEF TypeOK
  <2> DEFINE next == [old EXCEPT !.kind = OfEarlierRun(old.kind)]
  <2>2. next \in Gate /\ next.phase = old.phase /\ next.ready = old.ready
    BY DEF Gate, OfEarlierRun, Kinds
  <2>3. gate' = [gate EXCEPT ![s] = next]
    BY <2>1 DEF Push, TypeOK
  <2> HIDE DEF next
  <2>. QED BY <2>1, <2>2, <2>3 DEF TypeOK
<1>5. budget' \in [Disturbances -> Nat]
  BY <1>1, SpendForm DEF Push
<1>6. Stirred(s)'
  BY <1>1, <1>4 DEF Stirred
<1>7. /\ overtaken' = {t \in Shas : InWindow(t)} /\ unfinished' \in BOOLEAN
      /\ unfinished' \/ (UNCHANGED unfinished /\ \A t \in Shas : ~InWindow(t))
  BY DEF Push, TypeOK
<1>8. TypeOK'
  BY <1>2, <1>3, <1>4, <1>5, <1>7, <1>9, <1>10 DEF TypeOK, Push
<1>. QED BY <1>2, <1>3, <1>6, <1>7, <1>8, <1>10

-----------------------------------------------------------------------------
(* What a gate does.                                                       *)

(* All a gate does but to write.                                           *)
Reads(s) ==
    /\ TypeOK' /\ Others(s)
    /\ UNCHANGED <<pr, run, check, inflight, budget, ref>>

(* A gate takes the event that waits.                                      *)
LEMMA StartGateEffect ==
    ASSUME TypeOK, NEW s \in Shas, StartGate(s)
    PROVE  /\ Reads(s) /\ UNCHANGED <<overtaken, unfinished>>
           /\ \A t \in Shas \ {s} : pending'[t] = pending[t]
           /\ gate'[s].phase = "first read"
<1>1. pending[s] \in Kinds
  BY DEF TypeOK, StartGate
<1>2. Others(s) /\ gate'[s].phase = "first read"
  BY <1>1 DEF TypeOK, StartGate, Others, Gate, Phases
<1>3. /\ pending' \in [Shas -> Kinds \cup {"none"}]
      /\ \A t \in Shas \ {s} : pending'[t] = pending[t]
  BY DEF TypeOK, StartGate
<1>4. TypeOK'
  BY <1>2, <1>3 DEF TypeOK, StartGate, Others
<1>. QED BY <1>2, <1>3, <1>4 DEF Reads, StartGate

(* A gate that learns that it is for an old commit ends.                   *)
LEMMA Elsewhere ==
    ASSUME TypeOK, NEW s \in Shas, FirstRead(s) \/ SecondRead(s), s # pr.head
    PROVE  /\ Reads(s) /\ SeesOthers(s) /\ UNCHANGED <<pending, unfinished>>
           /\ gate'[s].phase = "idle"
<1>1. gate' = [gate EXCEPT ![s] = Idle(s)]
  BY DEF FirstRead, SecondRead, AfterRead
<1>2. Others(s) /\ gate'[s].phase = "idle"
  BY <1>1, IdleForm DEF TypeOK, Others, FirstRead, SecondRead, SeesOthers
<1>3. SeesOthers(s) /\ UNCHANGED <<pr, ref, run, check, inflight, pending, unfinished, budget>>
  BY DEF FirstRead, SecondRead
<1>4. TypeOK'
  BY <1>2, <1>3 DEF TypeOK, Others
<1>. QED BY <1>2, <1>3, <1>4 DEF Reads

(* A gate decides by what it has read of the pull request.                 *)
Decides(s, saved, ready) ==
    /\ gate'[s].ready = ready
    /\ gate'[s].saved = saved
    /\ gate'[s].phase = IF saved.labelled # ready THEN "write label" ELSE "read ref"

(* The gate of the head decides against it, or goes on with what it has    *)
(* read.                                                                   *)
LEMMA FirstReadEffect ==
    ASSUME TypeOK, NEW s \in Shas, FirstRead(s), s = pr.head
    PROVE  /\ Reads(s) /\ SeesOthers(s) /\ UNCHANGED <<pending, unfinished>>
           /\ \/ ~pr.eligible /\ Decides(s, pr, FALSE)
              \/ /\ pr.eligible
                 /\ gate'[s].saved = pr
                 /\ \/ gate'[s].phase = "read run" /\ gate'[s].kind \in Workflows
                    \/ gate'[s].phase = "check CI"
<1> DEFINE phase == IF gate[s].kind \in Workflows THEN "read run" ELSE "check CI"
           next == [gate[s] EXCEPT !.saved = pr, !.phase = phase]
<1>0. gate[s] \in Gate /\ pr \in PullRequest /\ pr.eligible \in BOOLEAN
  BY DEF TypeOK, PullRequest
<1>1. gate' = [gate EXCEPT ![s] = IF ~pr.eligible THEN Decide(gate[s], pr, FALSE) ELSE next]
  BY DEF FirstRead, AfterRead
<1>2. /\ phase \in {"read run", "check CI"}
      /\ phase = "read run" => gate[s].kind \in Workflows
  OBVIOUS
<1> HIDE DEF phase
<1>3. /\ next \in Gate /\ next.saved = pr /\ next.phase = phase
      /\ next.kind = gate[s].kind
  BY <1>0, <1>2 DEF Gate, Phases
<1> HIDE DEF next
<1>4. SeesOthers(s) /\ UNCHANGED <<pr, ref, run, check, inflight, pending, unfinished, budget>>
  BY DEF FirstRead
<1>5. CASE ~pr.eligible
  <2> DEFINE d == Decide(gate[s], pr, FALSE)
  <2>1. d \in Gate /\ d.ready = FALSE /\ d.saved = pr
        /\ d.phase = IF pr.labelled # FALSE THEN "write label" ELSE "read ref"
    BY <1>0, DecideForm
  <2> HIDE DEF d
  <2>2. gate' = [gate EXCEPT ![s] = d]
    BY <1>1, <1>5 DEF d
  <2>3. Others(s) /\ gate'[s] = d
    BY <1>4, <2>1, <2>2 DEF TypeOK, Others, SeesOthers
  <2>4. TypeOK'
    BY <1>4, <2>3 DEF TypeOK, Others
  <2>. QED BY <1>4, <1>5, <2>1, <2>3, <2>4 DEF Reads, Decides
<1>6. CASE pr.eligible
  <2>1. Others(s) /\ gate'[s] = next
    BY <1>1, <1>3, <1>4, <1>6 DEF TypeOK, Others, SeesOthers
  <2>2. TypeOK'
    BY <1>4, <2>1 DEF TypeOK, Others
  <2>. QED BY <1>2, <1>3, <1>4, <1>6, <2>1, <2>2 DEF Reads
<1>. QED BY <1>0, <1>5, <1>6

(* Not ready for what was read of the pull request before.                 *)
LEMMA NotReadyEffect ==
    ASSUME TypeOK, NEW s \in Shas, gate' = [gate EXCEPT ![s] = NotReady(s)],
           UNCHANGED overtaken
    PROVE  Others(s) /\ Decides(s, gate[s].saved, FALSE)
<1> DEFINE d == Decide(gate[s], gate[s].saved, FALSE)
<1>1. gate[s] \in Gate /\ gate[s].saved \in PullRequest
  BY DEF TypeOK, Gate
<1>2. /\ d \in Gate /\ d.ready = FALSE /\ d.saved = gate[s].saved
      /\ d.phase = IF gate[s].saved.labelled # FALSE THEN "write label" ELSE "read ref"
  BY <1>1, DecideForm
<1> HIDE DEF d
<1>3. gate' = [gate EXCEPT ![s] = d]
  BY DEF NotReady, d
<1>. QED BY <1>2, <1>3 DEF TypeOK, Others, Decides

(* A gate goes on to read something else.                                  *)
GoesOn(s, phase) ==
    /\ gate'[s].phase = phase
    /\ gate'[s].saved = gate[s].saved

(* A gate that goes on changes nothing but its phase.                      *)
LEMMA GoesOnEffect ==
    ASSUME TypeOK, NEW s \in Shas, NEW phase \in Phases,
           gate' = [gate EXCEPT ![s] = [gate[s] EXCEPT !.phase = phase]],
           UNCHANGED overtaken
    PROVE  Others(s) /\ GoesOn(s, phase)
<1> DEFINE next == [gate[s] EXCEPT !.phase = phase]
<1>1. gate[s] \in Gate
  BY DEF TypeOK
<1>2. next \in Gate /\ next.phase = phase /\ next.saved = gate[s].saved
  BY <1>1 DEF Gate
<1> HIDE DEF next
<1>3. gate' = [gate EXCEPT ![s] = next]
  BY DEF next
<1>. QED BY <1>2, <1>3 DEF TypeOK, Others, GoesOn

(* A workflow run that is not completed is a decision against the commit.  *)
LEMMA ReadRunEffect ==
    ASSUME TypeOK, NEW s \in Shas, ReadRun(s)
    PROVE  /\ Reads(s) /\ UNCHANGED <<pending, overtaken, unfinished>>
           /\ gate[s].phase = "read run"
           /\ \/ /\ gate[s].kind \in Workflows /\ run[s][gate[s].kind] # "completed"
                 /\ Decides(s, gate[s].saved, FALSE)
              \/ GoesOn(s, "check CI")
<1>1. /\ gate[s].phase = "read run"
      /\ UNCHANGED <<pr, ref, run, check, inflight, pending, overtaken, unfinished, budget>>
  BY DEF ReadRun
<1>2. CASE gate[s].kind \in Workflows /\ run[s][gate[s].kind] # "completed"
  <2>1. gate' = [gate EXCEPT ![s] = NotReady(s)]
    BY <1>2 DEF ReadRun
  <2>2. Others(s) /\ Decides(s, gate[s].saved, FALSE)
    BY <1>1, <2>1, NotReadyEffect
  <2>3. TypeOK'
    BY <1>1, <2>2 DEF TypeOK, Others
  <2>. QED BY <1>1, <1>2, <2>2, <2>3 DEF Reads
<1>3. CASE ~(gate[s].kind \in Workflows /\ run[s][gate[s].kind] # "completed")
  <2>1. gate' = [gate EXCEPT ![s] = [gate[s] EXCEPT !.phase = "check CI"]]
    BY <1>3 DEF ReadRun
  <2>2. Others(s) /\ GoesOn(s, "check CI")
    BY <1>1, <2>1, GoesOnEffect DEF Phases
  <2>3. TypeOK'
    BY <1>1, <2>2 DEF TypeOK, Others
  <2>. QED BY <1>1, <2>2, <2>3 DEF Reads
<1>. QED BY <1>2, <1>3

(* So is a check that has not succeeded.                                   *)
LEMMA ReadCheckEffect ==
    ASSUME TypeOK, NEW s \in Shas, NEW phase, NEW w \in Workflows, NEW next \in Phases,
           ReadCheck(s, phase, w, next)
    PROVE  /\ Reads(s) /\ UNCHANGED <<pending, overtaken, unfinished>>
           /\ gate[s].phase = phase
           /\ \/ check[s][w] # "success" /\ Decides(s, gate[s].saved, FALSE)
              \/ check[s][w] = "success" /\ GoesOn(s, next)
<1>1. /\ gate[s].phase = phase
      /\ UNCHANGED <<pr, ref, run, check, inflight, pending, overtaken, unfinished, budget>>
  BY DEF ReadCheck
<1>2. CASE check[s][w] # "success"
  <2>1. gate' = [gate EXCEPT ![s] = NotReady(s)]
    BY <1>2 DEF ReadCheck
  <2>2. Others(s) /\ Decides(s, gate[s].saved, FALSE)
    BY <1>1, <2>1, NotReadyEffect
  <2>3. TypeOK'
    BY <1>1, <2>2 DEF TypeOK, Others
  <2>. QED BY <1>1, <1>2, <2>2, <2>3 DEF Reads
<1>3. CASE check[s][w] = "success"
  <2>1. gate' = [gate EXCEPT ![s] = [gate[s] EXCEPT !.phase = next]]
    BY <1>3 DEF ReadCheck
  <2>2. Others(s) /\ GoesOn(s, next)
    BY <1>1, <2>1, GoesOnEffect
  <2>3. TypeOK'
    BY <1>1, <2>2 DEF TypeOK, Others
  <2>. QED BY <1>1, <1>3, <2>2, <2>3 DEF Reads
<1>. QED BY <1>2, <1>3

(* The second read decides for the head if it is still eligible.           *)
LEMMA SecondReadEffect ==
    ASSUME TypeOK, NEW s \in Shas, SecondRead(s), s = pr.head
    PROVE  /\ Reads(s) /\ SeesOthers(s) /\ UNCHANGED <<pending, unfinished>>
           /\ gate[s].phase = "second read"
           /\ Decides(s, pr, pr.eligible)
<1>1. /\ gate[s] \in Gate /\ pr.eligible \in BOOLEAN /\ SeesOthers(s)
      /\ UNCHANGED <<pr, ref, run, check, inflight, pending, unfinished, budget>>
  BY DEF TypeOK, PullRequest, SecondRead
<1>2. PICK p \in PullRequest : p = pr
  BY DEF TypeOK
<1>3. CASE ~p.eligible
  <2> DEFINE d == Decide(gate[s], p, FALSE)
  <2>1. gate' = [gate EXCEPT ![s] = d]
    BY <1>2, <1>3 DEF SecondRead, AfterRead
  <2>2. /\ d \in Gate /\ d.ready = FALSE /\ d.saved = p
        /\ d.phase = IF p.labelled # FALSE THEN "write label" ELSE "read ref"
    BY <1>1, DecideForm
  <2> HIDE DEF d
  <2>3. Others(s) /\ Decides(s, p, FALSE)
    BY <1>1, <2>1, <2>2 DEF TypeOK, Others, Decides, SeesOthers
  <2>4. Decides(s, pr, pr.eligible)
    BY <1>1, <1>2, <1>3, <2>3 DEF Decides
  <2>5. TypeOK'
    BY <1>1, <2>3 DEF TypeOK, Others
  <2>. QED BY <1>1, <2>3, <2>4, <2>5 DEF Reads, SecondRead
<1>4. CASE p.eligible
  <2> DEFINE d == Decide(gate[s], p, TRUE)
  <2>1. gate' = [gate EXCEPT ![s] = d]
    BY <1>2, <1>4 DEF SecondRead, AfterRead
  <2>2. /\ d \in Gate /\ d.ready = TRUE /\ d.saved = p
        /\ d.phase = IF p.labelled # TRUE THEN "write label" ELSE "read ref"
    BY <1>1, DecideForm
  <2> HIDE DEF d
  <2>3. Others(s) /\ Decides(s, p, TRUE)
    BY <1>1, <2>1, <2>2 DEF TypeOK, Others, Decides, SeesOthers
  <2>4. Decides(s, pr, pr.eligible)
    BY <1>1, <1>2, <1>4, <2>3 DEF Decides
  <2>5. TypeOK'
    BY <1>1, <2>3 DEF TypeOK, Others
  <2>. QED BY <1>1, <2>3, <2>4, <2>5 DEF Reads, SecondRead
<1>. QED BY <1>3, <1>4

(* The label is written, or was already gone.                              *)
LEMMA WriteLabelEffect ==
    ASSUME TypeOK, NEW s \in Shas, WriteLabel(s)
    PROVE  /\ TypeOK' /\ Others(s)
           /\ gate[s].phase = "write label"
           /\ UNCHANGED <<ref, run, check, inflight, pending, budget>>
           /\ pr'.head = pr.head /\ pr'.eligible = pr.eligible /\ pr'.labelled = gate[s].ready
           /\ \/ unfinished' /\ gate'[s].phase = "idle"
              \/ /\ UNCHANGED <<overtaken, unfinished>>
                 /\ gate'[s].phase = "read ref" /\ gate'[s].ready = gate[s].ready
<1>0. gate[s].ready \in BOOLEAN
  BY DEF TypeOK, Gate
<1>1. /\ gate[s].phase = "write label"
      /\ UNCHANGED <<ref, run, check, inflight, pending, budget>>
      /\ pr' = [pr EXCEPT !.labelled = gate[s].ready]
  BY DEF WriteLabel
<1>2. /\ pr' \in PullRequest
      /\ pr'.head = pr.head /\ pr'.eligible = pr.eligible /\ pr'.labelled = gate[s].ready
  BY <1>0, <1>1 DEF TypeOK, PullRequest
<1>3. /\ Others(s) /\ unfinished' \in BOOLEAN
      /\ \/ unfinished' /\ gate'[s].phase = "idle"
         \/ /\ UNCHANGED <<overtaken, unfinished>>
            /\ gate'[s].phase = "read ref" /\ gate'[s].ready = gate[s].ready
  <2>1. CASE ~gate[s].ready /\ ~pr.labelled
    <3>1. Died(s)
      BY <2>1 DEF WriteLabel
    <3>. QED BY <3>1, IdleForm DEF Died, TypeOK, Others
  <2>2. CASE ~(~gate[s].ready /\ ~pr.labelled)
    <3>1. gate' = [gate EXCEPT ![s].phase = "read ref"] /\ UNCHANGED <<overtaken, unfinished>>
      BY <2>2 DEF WriteLabel
    <3>. QED BY <3>1 DEF TypeOK, Others, Gate, Phases
  <2>. QED BY <2>1, <2>2
<1>4. TypeOK'
  BY <1>1, <1>2, <1>3 DEF TypeOK, Others
<1>. QED BY <1>1, <1>2, <1>3, <1>4

(* A gate that has ended, the commit of the head or another.               *)
LEMMA CompletedEffect ==
    ASSUME TypeOK, NEW s \in Shas, Completed(s)
    PROVE  /\ Others(s) /\ gate'[s].phase = "idle" /\ unfinished' \in BOOLEAN
           /\ UNCHANGED unfinished \/ (s = pr.head /\ s \notin overtaken)
BY IdleForm DEF Completed, TypeOK, Others

(* A gate whose request fails is over, and its work unfinished.            *)
LEMMA DiedEffect ==
    ASSUME TypeOK, NEW s \in Shas, Died(s)
    PROVE  Others(s) /\ gate'[s].phase = "idle" /\ unfinished' = TRUE
BY IdleForm DEF Died, TypeOK, Others

(* What the ref is to be for the commit.                                   *)
Signal(s, ready) == IF ready THEN s ELSE NoRef

(* A ref that is right already is left alone.                              *)
LEMMA ReadRefEffect ==
    ASSUME TypeOK, NEW s \in Shas, ReadRef(s)
    PROVE  /\ Reads(s) /\ UNCHANGED pending
           /\ gate[s].phase = "read ref"
           /\ \/ /\ gate'[s].phase = "idle" /\ ref = Signal(s, gate[s].ready)
                 /\ UNCHANGED unfinished \/ (s = pr.head /\ s \notin overtaken)
              \/ /\ gate'[s].phase = "write ref" /\ gate'[s].ready = gate[s].ready
                 /\ UNCHANGED <<overtaken, unfinished>>
<1>1. /\ gate[s].phase = "read ref"
      /\ UNCHANGED <<pr, ref, run, check, inflight, pending, budget>>
  BY DEF ReadRef
<1>2. CASE ref = (IF gate[s].ready THEN s ELSE NoRef)
  <2>1. Completed(s)
    BY <1>2 DEF ReadRef
  <2>2. TypeOK'
    BY <1>1, <2>1, CompletedEffect DEF TypeOK, Others
  <2>. QED BY <1>1, <1>2, <2>1, <2>2, CompletedEffect DEF Reads, Signal
<1>3. CASE ref # (IF gate[s].ready THEN s ELSE NoRef)
  <2> DEFINE exists == ref # NoRef
  <2>1. gate' = [gate EXCEPT ![s].phase = "write ref", ![s].existing = exists]
        /\ UNCHANGED <<overtaken, unfinished>>
    BY <1>3 DEF ReadRef
  <2>2. exists \in BOOLEAN
    OBVIOUS
  <2> HIDE DEF exists
  <2>3. /\ Others(s) /\ gate'[s].phase = "write ref"
        /\ gate'[s].ready = gate[s].ready
    BY <2>1, <2>2 DEF TypeOK, Others, Gate, Phases
  <2>4. TypeOK'
    BY <1>1, <2>1, <2>3 DEF TypeOK, Others
  <2>. QED BY <1>1, <2>1, <2>3, <2>4 DEF Reads
<1>. QED BY <1>2, <1>3

(* Otherwise it is written, and the gate is through.                       *)
LEMMA WriteRefEffect ==
    ASSUME TypeOK, NEW s \in Shas, WriteRef(s)
    PROVE  /\ TypeOK' /\ Others(s)
           /\ gate[s].phase = "write ref" /\ gate'[s].phase = "idle"
           /\ UNCHANGED <<pr, run, check, inflight, pending, budget>>
           /\ \/ unfinished'
              \/ /\ ref' = Signal(s, gate[s].ready)
                 /\ UNCHANGED unfinished \/ (s = pr.head /\ s \notin overtaken)
<1>1. /\ gate[s].phase = "write ref" /\ gate[s].ready \in BOOLEAN
      /\ UNCHANGED <<pr, run, check, inflight, pending, budget>>
  BY DEF WriteRef, TypeOK, Gate
<1>2. CASE gate[s].existing = (ref = NoRef)
  <2>1. Died(s) /\ UNCHANGED ref
    BY <1>2 DEF WriteRef
  <2>2. TypeOK'
    BY <1>1, <2>1, DiedEffect DEF TypeOK, Others
  <2>. QED BY <1>1, <2>1, <2>2, DiedEffect
<1>3. CASE gate[s].existing # (ref = NoRef)
  <2>1. Completed(s) /\ ref' = Signal(s, gate[s].ready)
    BY <1>3 DEF WriteRef, Signal
  <2>2. ref' \in Shas \cup {NoRef}
    BY <1>1, <2>1 DEF Signal
  <2>3. TypeOK'
    BY <1>1, <2>1, <2>2, CompletedEffect DEF TypeOK, Others
  <2>. QED BY <1>1, <2>1, <2>3, CompletedEffect
<1>. QED BY <1>2, <1>3

(* A gate that dies may have written, but then what it was to write.       *)
LEMMA FailEffect ==
    ASSUME TypeOK, NEW s \in Shas, Fail(s)
    PROVE  /\ TypeOK' /\ Others(s)
           /\ gate'[s].phase = "idle" /\ unfinished'
           /\ UNCHANGED <<run, check, inflight, pending>>
           /\ pr'.head = pr.head /\ pr'.eligible = pr.eligible
           /\ UNCHANGED <<pr, ref>> \/ InWindow(s)
<1>1. /\ Others(s) /\ gate'[s].phase = "idle" /\ unfinished' = TRUE
      /\ UNCHANGED <<run, check, inflight, pending>>
  BY DiedEffect DEF Fail
<1>2. budget' \in [Disturbances -> Nat]
  BY SpendForm DEF Fail, Disturbances
<1>3. gate[s].ready \in BOOLEAN
  BY DEF TypeOK, Gate
<1>4. CASE UNCHANGED <<pr, ref>>
  BY <1>1, <1>2, <1>4 DEF TypeOK, Others
<1>5. CASE /\ gate[s].phase = "write label"
           /\ pr' = [pr EXCEPT !.labelled = gate[s].ready]
           /\ UNCHANGED ref
  <2>1. pr' \in PullRequest /\ pr'.head = pr.head /\ pr'.eligible = pr.eligible
    BY <1>3, <1>5 DEF TypeOK, PullRequest
  <2>2. TypeOK'
    BY <1>1, <1>2, <1>5, <2>1 DEF TypeOK, Others
  <2>. QED BY <1>1, <1>5, <2>1, <2>2 DEF InWindow
<1>6. CASE /\ gate[s].phase = "write ref"
           /\ ref' = IF gate[s].ready THEN s ELSE NoRef
           /\ UNCHANGED pr
  <2>1. ref' \in Shas \cup {NoRef}
    BY <1>3, <1>6
  <2>2. TypeOK'
    BY <1>1, <1>2, <1>6, <2>1 DEF TypeOK, Others
  <2>. QED BY <1>1, <1>6, <2>2 DEF InWindow
<1>. QED BY <1>4, <1>5, <1>6 DEF Fail

-----------------------------------------------------------------------------
(* The windows.                                                            *)

(* A gate that goes on in its window, or leaves it, keeps the windows as   *)
(* they are; only one that is alone in it settles what was unfinished.     *)
LEMMA StaysKeeps ==
    ASSUME WindowInv, NEW s \in Shas, Others(s), pr'.head = pr.head,
           InWindow(s)' => InWindow(s) /\ (s \in overtaken' <=> s \in overtaken),
           \/ unfinished' \/ UNCHANGED unfinished
           \/ InWindow(s) /\ ~InWindow(s)' /\ s \notin overtaken
    PROVE  WindowInv'
<1>1. \A t \in Shas : InWindow(t)' => InWindow(t) /\ (t \in overtaken' <=> t \in overtaken)
  BY DEF Others, InWindow
<1>2. \A t \in Shas : Shared(t)' => Shared(t)
  BY <1>1 DEF Shared
<1>3. \A t \in Shas : AloneInv(t)'
  BY <1>1, <1>2 DEF WindowInv, AloneInv
<1>4. ASSUME NEW t \in Shas
      PROVE  TakenInv(t)'
  <2>1. CASE unfinished' \/ UNCHANGED unfinished
    BY <1>1, <2>1 DEF WindowInv, TakenInv
  <2>2. CASE InWindow(s) /\ ~InWindow(s)' /\ s \notin overtaken
    <3>1. ~Shared(s)
      BY <2>2 DEF WindowInv, AloneInv
    <3>2. ~InWindow(t)'
      BY <1>1, <2>2, <3>1 DEF Shared
    <3>. QED BY <3>2 DEF TakenInv
  <2>. QED BY <2>1, <2>2
<1>. QED BY <1>3, <1>4 DEF WindowInv

(* A gate that has read the pull request knows of those it is not alone    *)
(* with.                                                                   *)
LEMMA EntersKeeps ==
    ASSUME WindowInv, NEW s \in Shas, Others(s), pr'.head = pr.head, SeesOthers(s),
           UNCHANGED unfinished, s = pr.head \/ ~InWindow(s)'
    PROVE  WindowInv'
<1>1. \A t \in Shas \ {s} :
        (InWindow(t)' <=> InWindow(t)) /\ (t \in overtaken' <=> t \in overtaken)
  BY DEF Others, InWindow
<1>2. CASE s # pr.head
  BY <1>2, StaysKeeps
<1>3. CASE s = pr.head
  <2>1. /\ s \in overtaken' <=> Shared(s)
        /\ Shared(s)' <=> Shared(s)
    BY <1>1, <1>3 DEF SeesOthers, Shared
  <2>2. AloneInv(s)'
    BY <1>3, <2>1 DEF AloneInv
  <2>3. \A t \in Shas \ {s} : AloneInv(t)'
    BY <1>1, <1>3 DEF WindowInv, AloneInv
  <2>4. ~unfinished => ~Shared(s)
    BY <1>3 DEF WindowInv, TakenInv, Shared
  <2>5. TakenInv(s)'
    BY <1>3, <2>1, <2>4 DEF TakenInv
  <2>6. \A t \in Shas \ {s} : TakenInv(t)'
    BY <1>1, <1>3 DEF WindowInv, TakenInv
  <2>. QED BY <2>2, <2>3, <2>5, <2>6 DEF WindowInv
<1>. QED BY <1>2, <1>3

-----------------------------------------------------------------------------
(* The invariant.                                                          *)

(* What a step of a gate leaves as it was for the gate of another commit,  *)
(* if it reads, dies before it has written, or writes in its window.       *)
LEMMA Frame ==
    ASSUME TypeOK, WindowInv, NEW s \in Shas, Others(s), NEW t \in Shas \ {s}, GateOK(t),
           pr'.head = pr.head, pr'.eligible = pr.eligible,
           UNCHANGED <<run, check, inflight>>, pending'[t] = pending[t],
           UNCHANGED <<pr, ref>> \/ InWindow(s),
           unfinished' \/ UNCHANGED unfinished \/ s = pr.head
    PROVE  GateOK(t)'
<1>1. gate'[t] = gate[t] /\ (t \in overtaken' <=> t \in overtaken)
  BY DEF Others
<1>2. Stirred(t)' = Stirred(t) /\ Ready(t)' = Ready(t)
  BY DEF Stirred, Ready
<1>4. SavedInv(t)'
  <2>1. CASE UNCHANGED <<pr, ref>>
    BY <1>1, <2>1 DEF GateOK, SavedInv
  <2>2. CASE InWindow(s)
    <3>1. InWindow(t) => t \in overtaken
      BY <2>2 DEF WindowInv, AloneInv, Shared
    <3>. QED BY <1>1, <3>1 DEF SavedInv, InWindow
  <2>. QED BY <2>1, <2>2
<1>5. ChecksInv(t)' /\ VerdictInv(t)'
  BY <1>1, <1>2 DEF GateOK, ChecksInv, VerdictInv
<1>6. RestInv(t)'
  <2>1. CASE s = pr.head
    BY <2>1 DEF RestInv
  <2>2. CASE s # pr.head /\ UNCHANGED <<pr, ref>>
    BY <1>1, <1>2, <2>2 DEF GateOK, RestInv, Reconciled, Ready
  <2>3. CASE s # pr.head /\ InWindow(s)
    <3>1. unfinished
      BY <2>3 DEF WindowInv, TakenInv
    <3>. QED BY <2>3, <3>1 DEF RestInv
  <2>. QED BY <2>1, <2>2, <2>3
<1>. QED BY <1>4, <1>5, <1>6 DEF GateOK

(* A quiet step keeps the invariant: if it changes what a gate has read,   *)
(* an event is owed.                                                       *)
LEMMA QuietKeeps ==
    ASSUME GateInv, Quiet, TypeOK'
    PROVE  GateInv'
<1>1. HeadInv'
  BY DEF GateInv, HeadInv, Quiet
<1>2. WindowInv'
  BY DEF GateInv, Quiet, WindowInv, AloneInv, TakenInv, Shared, InWindow
<1>3. ASSUME NEW s \in Shas
      PROVE  GateOK(s)'
  <2>1. /\ GateOK(s) /\ gate'[s] = gate[s] /\ UNCHANGED overtaken
        /\ pr'.head = pr.head /\ pr'.labelled = pr.labelled
    BY DEF GateInv, Quiet
  <2>2. SavedInv(s)'
    BY <2>1 DEF GateOK, SavedInv
  <2>3. ASSUME s = pr.head, ~Stirred(s)'
        PROVE  /\ ~Stirred(s)
               /\ pr'.eligible = pr.eligible
               /\ \A w \in Workflows : check'[s][w] = check[s][w]
    <3>1. ~Stirred(pr.head)' /\ Stirred(pr.head) = Stirred(s)
      BY <2>1, <2>3 DEF Stirred
    <3>. QED BY <2>3, <3>1 DEF Quiet
  <2>4. ASSUME s = pr.head, ~Stirred(s)'
        PROVE  Ready(s)' = Ready(s)
    BY <2>3, <2>4 DEF Ready
  <2>5. ChecksInv(s)'
    BY <2>1, <2>3 DEF GateOK, ChecksInv, Workflows
  <2>6. VerdictInv(s)'
    BY <2>1, <2>3, <2>4 DEF GateOK, VerdictInv
  <2>7. RestInv(s)'
    <3>1. SUFFICES ASSUME s = pr.head, ~Stirred(s)', gate[s].phase = "idle", ~unfinished'
                   PROVE  Reconciled'
      BY <2>1 DEF RestInv
    <3>2. Reconciled
      BY <2>1, <2>3, <3>1 DEF GateOK, RestInv, Quiet
    <3>3. Ready(s)' = Ready(s) /\ ref' = ref
      BY <2>4, <3>1 DEF Quiet
    <3>. QED BY <2>1, <3>1, <3>2, <3>3 DEF Reconciled, Ready
  <2>. QED BY <2>2, <2>5, <2>6, <2>7 DEF GateOK
<1>. QED BY <1>1, <1>2, <1>3 DEF GateInv

(* A push makes a head that events are owed to; the gates in their windows *)
(* go on with what they have read, which it leaves to be repaired.         *)
LEMMA PushKeeps ==
    ASSUME GateInv, NEW s \in Shas, Push(s)
    PROVE  GateInv'
<1>1. /\ TypeOK' /\ pr'.head = s /\ pr'.labelled = pr.labelled /\ Stirred(s)'
      /\ \A w \in Workflows : run'[s][w] = "started"
      /\ \A t \in Shas : gate'[t].phase = gate[t].phase /\ gate'[t].ready = gate[t].ready
      /\ overtaken' = {t \in Shas : InWindow(t)}
      /\ unfinished' \/ (UNCHANGED unfinished /\ \A t \in Shas : ~InWindow(t))
  BY PushEffect DEF GateInv
<1>2. HeadInv'
  BY <1>1 DEF HeadInv
<1>3. \A t \in Shas : InWindow(t)' = InWindow(t)
  BY <1>1 DEF InWindow
<1>4. WindowInv'
  <2>1. \A t \in Shas : AloneInv(t)'
    BY <1>1, <1>3 DEF AloneInv
  <2>2. \A t \in Shas : TakenInv(t)'
    BY <1>1, <1>3 DEF TakenInv
  <2>. QED BY <2>1, <2>2 DEF WindowInv
<1>5. ASSUME NEW t \in Shas
      PROVE  GateOK(t)'
  <2>1. SavedInv(t)'
    BY <1>1 DEF SavedInv, InWindow
  <2>2. t = pr'.head => Stirred(t)'
    BY <1>1
  <2>. QED BY <2>1, <2>2 DEF GateOK, ChecksInv, VerdictInv, RestInv
<1>. QED BY <1>1, <1>2, <1>4, <1>5 DEF GateInv

(* A gate that only reads keeps the invariant if it keeps its own part.    *)
LEMMA ReadsKeeps ==
    ASSUME GateInv, WindowInv', NEW s \in Shas, Reads(s),
           \A t \in Shas \ {s} : pending'[t] = pending[t],
           UNCHANGED unfinished, GateOK(s)'
    PROVE  GateInv'
<1>1. HeadInv'
  BY DEF GateInv, HeadInv, Reads
<1>2. ASSUME NEW t \in Shas \ {s}
      PROVE  GateOK(t)'
  <2>1. /\ TypeOK /\ WindowInv /\ Others(s) /\ GateOK(t)
        /\ UNCHANGED <<pr, ref, run, check, inflight>>
        /\ pending'[t] = pending[t]
    BY DEF GateInv, Reads
  <2>2. pr'.head = pr.head /\ pr'.eligible = pr.eligible
    BY <2>1
  <2>. QED BY <2>1, <2>2, Frame
<1>. QED BY <1>1, <1>2 DEF GateInv, Reads

(* The facts of the head do not change while a gate reads.                 *)
LEMMA SameFacts ==
    ASSUME NEW s \in Shas, Reads(s), UNCHANGED pending
    PROVE  /\ Stirred(s)' = Stirred(s) /\ Ready(s)' = Ready(s)
           /\ Reconciled' = Reconciled
BY DEF Reads, Stirred, Ready, Reconciled

(* The event that a gate starts with needs no fact about what it reads.    *)
LEMMA StartGateKeeps ==
    ASSUME GateInv, NEW s \in Shas, StartGate(s)
    PROVE  GateInv'
<1>1. /\ Reads(s) /\ UNCHANGED <<overtaken, unfinished>> /\ gate'[s].phase = "first read"
      /\ \A t \in Shas \ {s} : pending'[t] = pending[t]
  BY StartGateEffect DEF GateInv
<1>2. GateOK(s)'
  BY <1>1 DEF GateOK, SavedInv, ChecksInv, VerdictInv, RestInv, WritePhases
<1>3. WindowInv'
  BY <1>1, StaysKeeps DEF GateInv, Reads, InWindow
<1>. QED BY <1>1, <1>2, <1>3, ReadsKeeps

(* A gate decides by what its part of the invariant says it has read.      *)
LEMMA DecidesKeeps ==
    ASSUME NEW s \in Shas, Reads(s), UNCHANGED pending,
           NEW saved \in PullRequest, NEW ready \in BOOLEAN, Decides(s, saved, ready),
           s \in overtaken' \/ saved.labelled = pr.labelled,
           s = pr.head /\ ~Stirred(s) => ready = Ready(s)
    PROVE  GateOK(s)'
<1>1. /\ gate'[s].phase \in {"write label", "read ref"} /\ gate'[s].ready = ready
      /\ gate'[s].phase = "read ref" => saved.labelled = ready
  BY DEF Decides
<1>2. UNCHANGED pr
  BY DEF Reads
<1>3. SavedInv(s)'
  BY <1>1, <1>2 DEF SavedInv
<1>4. ChecksInv(s)' /\ VerdictInv(s)' /\ RestInv(s)'
  BY <1>1, <1>2, SameFacts DEF ChecksInv, VerdictInv, RestInv, WritePhases
<1>. QED BY <1>3, <1>4 DEF GateOK

(* What the first read decides of the head is so.                          *)
LEMMA FirstReadKeeps ==
    ASSUME GateInv, NEW s \in Shas, FirstRead(s)
    PROVE  GateInv'
<1>0. gate[s].phase = "first read" /\ TypeOK
  BY DEF FirstRead, GateInv
<1>1. CASE s # pr.head
  <2>1. /\ Reads(s) /\ SeesOthers(s) /\ UNCHANGED <<pending, unfinished>>
        /\ gate'[s].phase = "idle"
    BY <1>0, <1>1, Elsewhere
  <2>2. GateOK(s)'
    BY <1>1, <2>1 DEF GateOK, SavedInv, ChecksInv, VerdictInv, RestInv, Reads
  <2>3. WindowInv'
    BY <2>1, EntersKeeps DEF GateInv, Reads, InWindow
  <2>. QED BY <2>1, <2>2, <2>3, ReadsKeeps
<1>2. CASE s = pr.head
  <2>1. /\ Reads(s) /\ SeesOthers(s) /\ UNCHANGED <<pending, unfinished>>
        /\ \/ ~pr.eligible /\ Decides(s, pr, FALSE)
           \/ /\ pr.eligible
              /\ gate'[s].saved = pr
              /\ \/ gate'[s].phase = "read run" /\ gate'[s].kind \in Workflows
                 \/ gate'[s].phase = "check CI"
    BY <1>0, <1>2, FirstReadEffect
  <2>2. WindowInv'
    BY <1>2, <2>1, EntersKeeps DEF GateInv, Reads
  <2>3. CASE ~pr.eligible /\ Decides(s, pr, FALSE)
    <3>1. PICK p \in PullRequest : p = pr
      BY <1>0 DEF TypeOK
    <3>2. Decides(s, p, FALSE) /\ p.labelled = pr.labelled /\ Ready(s) = FALSE
      BY <2>3, <3>1 DEF Ready, Decides
    <3>3. GateOK(s)'
      BY <2>1, <3>2, DecidesKeeps
    <3>. QED BY <2>1, <2>2, <3>3, ReadsKeeps
  <2>4. CASE /\ pr.eligible
             /\ gate'[s].saved = pr
             /\ \/ gate'[s].phase = "read run" /\ gate'[s].kind \in Workflows
                \/ gate'[s].phase = "check CI"
    <3>1. GateOK(s)'
      BY <1>2, <2>1, <2>4 DEF GateOK, SavedInv, ChecksInv, VerdictInv, RestInv,
                              WritePhases, Reads
    <3>. QED BY <2>1, <2>2, <3>1, ReadsKeeps
  <2>. QED BY <2>1, <2>3, <2>4
<1>. QED BY <1>1, <1>2

(* What a gate has read of the label stays so unless it is overtaken.      *)
LEMMA SavedHolds ==
    ASSUME GateInv, NEW s \in Shas, UNCHANGED overtaken,
           gate[s].phase \in {"read run", "check CI", "check builds"}
    PROVE  s \in overtaken' \/ gate[s].saved.labelled = pr.labelled
BY DEF GateInv, GateOK, SavedInv

(* Not ready, for a reason that holds unless an event is owed.             *)
LEMMA NotReadyKeeps ==
    ASSUME GateInv, NEW s \in Shas, Reads(s), UNCHANGED <<pending, overtaken, unfinished>>,
           gate[s].phase \in {"read run", "check CI", "check builds"},
           Decides(s, gate[s].saved, FALSE), Stirred(s) \/ ~Ready(s)
    PROVE  GateInv'
<1>1. s \in overtaken' \/ gate[s].saved.labelled = pr.labelled
  BY SavedHolds
<1>2. PICK p \in PullRequest : p = gate[s].saved
  BY DEF GateInv, TypeOK, Gate
<1>3. Decides(s, p, FALSE)
  BY <1>2
<1>4. ~Stirred(s) => Ready(s) = FALSE
  BY DEF Ready
<1>5. GateOK(s)'
  BY <1>1, <1>2, <1>3, <1>4, DecidesKeeps
<1>6. WindowInv'
  BY StaysKeeps DEF GateInv, Reads, InWindow
<1>. QED BY <1>5, <1>6, ReadsKeeps

(* A gate that reads on stays in its window.                               *)
LEMMA GoesOnKeeps ==
    ASSUME GateInv, NEW s \in Shas, Reads(s), UNCHANGED <<pending, overtaken, unfinished>>,
           InWindow(s), GateOK(s)'
    PROVE  GateInv'
<1>1. WindowInv'
  BY StaysKeeps DEF GateInv, Reads
<1>. QED BY <1>1, ReadsKeeps

(* A run that is not completed will bring an event; a completed one lets   *)
(* the gate go on.                                                         *)
LEMMA ReadRunKeeps ==
    ASSUME GateInv, NEW s \in Shas, ReadRun(s)
    PROVE  GateInv'
<1>1. /\ Reads(s) /\ UNCHANGED <<pending, overtaken, unfinished>>
      /\ gate[s].phase = "read run"
      /\ \/ /\ gate[s].kind \in Workflows /\ run[s][gate[s].kind] # "completed"
            /\ Decides(s, gate[s].saved, FALSE)
         \/ GoesOn(s, "check CI")
  BY ReadRunEffect DEF GateInv
<1>2. InWindow(s) /\ (s \in overtaken' \/ gate[s].saved.labelled = pr.labelled)
  BY <1>1, SavedHolds DEF InWindow
<1>3. CASE /\ gate[s].kind \in Workflows /\ run[s][gate[s].kind] # "completed"
           /\ Decides(s, gate[s].saved, FALSE)
  <2>1. Stirred(s)
    BY <1>3 DEF Stirred
  <2>. QED BY <1>1, <1>3, <2>1, NotReadyKeeps
<1>4. CASE GoesOn(s, "check CI")
  <2>1. GateOK(s)'
    BY <1>1, <1>2, <1>4 DEF GoesOn, GateOK, SavedInv, ChecksInv, VerdictInv, RestInv,
                            WritePhases, Reads
  <2>. QED BY <1>1, <1>2, <2>1, GoesOnKeeps
<1>. QED BY <1>1, <1>3, <1>4

(* What a gate has read of CI is so until an event is owed.                *)
LEMMA ReadCIKeeps ==
    ASSUME GateInv, NEW s \in Shas, ReadCI(s)
    PROVE  GateInv'
<1>1. /\ Reads(s) /\ UNCHANGED <<pending, overtaken, unfinished>>
      /\ gate[s].phase = "check CI"
      /\ \/ check[s]["CI"] # "success" /\ Decides(s, gate[s].saved, FALSE)
         \/ check[s]["CI"] = "success" /\ GoesOn(s, "check builds")
  BY ReadCheckEffect DEF GateInv, ReadCI, Workflows, Phases
<1>2. /\ InWindow(s)
      /\ s \in overtaken' \/ gate[s].saved.labelled = pr.labelled
  BY <1>1, SavedHolds DEF InWindow
<1>3. CASE check[s]["CI"] # "success" /\ Decides(s, gate[s].saved, FALSE)
  <2>1. ~Ready(s)
    BY <1>3 DEF Ready, Workflows
  <2>. QED BY <1>1, <1>3, <2>1, NotReadyKeeps
<1>4. CASE check[s]["CI"] = "success" /\ GoesOn(s, "check builds")
  <2>1. GateOK(s)'
    BY <1>1, <1>2, <1>4 DEF GoesOn, GateOK, SavedInv, ChecksInv, VerdictInv, RestInv,
                            WritePhases, Reads
  <2>. QED BY <1>1, <1>2, <2>1, GoesOnKeeps
<1>. QED BY <1>1, <1>3, <1>4

(* So is what it has read of the builds.                                   *)
LEMMA ReadBuildsKeeps ==
    ASSUME GateInv, NEW s \in Shas, ReadBuilds(s)
    PROVE  GateInv'
<1>1. /\ Reads(s) /\ UNCHANGED <<pending, overtaken, unfinished>>
      /\ gate[s].phase = "check builds"
      /\ \/ check[s]["PostgreSQL builds"] # "success" /\ Decides(s, gate[s].saved, FALSE)
         \/ check[s]["PostgreSQL builds"] = "success" /\ GoesOn(s, "second read")
  BY ReadCheckEffect DEF GateInv, ReadBuilds, Workflows, Phases
<1>2. /\ InWindow(s)
      /\ s = pr.head /\ ~Stirred(s) => check[s]["CI"] = "success"
  BY <1>1 DEF GateInv, GateOK, InWindow, ChecksInv
<1>3. CASE check[s]["PostgreSQL builds"] # "success" /\ Decides(s, gate[s].saved, FALSE)
  <2>1. ~Ready(s)
    BY <1>3 DEF Ready, Workflows
  <2>. QED BY <1>1, <1>3, <2>1, NotReadyKeeps
<1>4. CASE check[s]["PostgreSQL builds"] = "success" /\ GoesOn(s, "second read")
  <2>1. SavedInv(s)' /\ VerdictInv(s)' /\ RestInv(s)'
    BY <1>4 DEF GoesOn, SavedInv, VerdictInv, RestInv, WritePhases
  <2>2. ChecksInv(s)'
    BY <1>1, <1>2, <1>4, SameFacts DEF ChecksInv, Reads
  <2>3. GateOK(s)'
    BY <2>1, <2>2 DEF GateOK
  <2>. QED BY <1>1, <1>2, <2>3, GoesOnKeeps
<1>. QED BY <1>1, <1>3, <1>4

(* The pull request is read again: its gate decides by that, an old        *)
(* commit's gate ends.                                                     *)
LEMMA SecondReadKeeps ==
    ASSUME GateInv, NEW s \in Shas, SecondRead(s)
    PROVE  GateInv'
<1>0. gate[s].phase = "second read" /\ TypeOK
  BY DEF SecondRead, GateInv
<1>1. CASE s # pr.head
  <2>1. /\ Reads(s) /\ SeesOthers(s) /\ UNCHANGED <<pending, unfinished>>
        /\ gate'[s].phase = "idle"
    BY <1>0, <1>1, Elsewhere
  <2>2. GateOK(s)'
    BY <1>1, <2>1 DEF GateOK, SavedInv, ChecksInv, VerdictInv, RestInv, Reads
  <2>3. WindowInv'
    BY <2>1, EntersKeeps DEF GateInv, Reads, InWindow
  <2>. QED BY <2>1, <2>2, <2>3, ReadsKeeps
<1>2. CASE s = pr.head
  <2>1. /\ Reads(s) /\ SeesOthers(s) /\ UNCHANGED <<pending, unfinished>>
        /\ Decides(s, pr, pr.eligible)
    BY <1>0, <1>2, SecondReadEffect
  <2>2. PICK p \in PullRequest : p = pr
    BY <1>0 DEF TypeOK
  <2>3. ~Stirred(s) => \A w \in Workflows : check[s][w] = "success"
    BY <1>0, <1>2 DEF GateInv, GateOK, ChecksInv, Workflows
  <2>4. p.eligible \in BOOLEAN /\ Decides(s, p, p.eligible) /\ p.labelled = pr.labelled
    BY <2>1, <2>2 DEF Decides, PullRequest
  <2>5. ~Stirred(s) => p.eligible = Ready(s)
    <3>1. CASE p.eligible
      BY <2>2, <2>3, <2>4, <3>1 DEF Ready
    <3>2. CASE ~p.eligible
      BY <2>2, <2>4, <3>2 DEF Ready
    <3>. QED BY <3>1, <3>2
  <2>6. GateOK(s)'
    BY <2>1, <2>4, <2>5, DecidesKeeps
  <2>7. WindowInv'
    BY <1>2, <2>1, EntersKeeps DEF GateInv, Reads
  <2>. QED BY <2>1, <2>6, <2>7, ReadsKeeps
<1>. QED BY <1>1, <1>2

(* A gate that writes keeps the invariant if it keeps its own part.        *)
LEMMA WritesKeeps ==
    ASSUME GateInv, WindowInv', TypeOK', NEW s \in Shas, Others(s), InWindow(s),
           UNCHANGED <<run, check, inflight, pending>>,
           pr'.head = pr.head, pr'.eligible = pr.eligible,
           unfinished' \/ UNCHANGED unfinished \/ s = pr.head, GateOK(s)'
    PROVE  GateInv'
<1>1. HeadInv'
  BY DEF GateInv, HeadInv
<1>2. ASSUME NEW t \in Shas \ {s}
      PROVE  GateOK(t)'
  <2>1. TypeOK /\ WindowInv /\ GateOK(t) /\ pending'[t] = pending[t]
    BY DEF GateInv
  <2>. QED BY <2>1, Frame
<1>. QED BY <1>1, <1>2 DEF GateInv

(* The label follows the decision of the gate, which is that of the head,  *)
(* or was overtaken.                                                       *)
LEMMA WriteLabelKeeps ==
    ASSUME GateInv, NEW s \in Shas, WriteLabel(s)
    PROVE  GateInv'
<1>1. /\ TypeOK' /\ Others(s)
      /\ gate[s].phase = "write label"
      /\ UNCHANGED <<ref, run, check, inflight, pending, budget>>
      /\ pr'.head = pr.head /\ pr'.eligible = pr.eligible /\ pr'.labelled = gate[s].ready
      /\ \/ unfinished' /\ gate'[s].phase = "idle"
         \/ /\ UNCHANGED <<overtaken, unfinished>>
            /\ gate'[s].phase = "read ref" /\ gate'[s].ready = gate[s].ready
  BY WriteLabelEffect DEF GateInv
<1>2. InWindow(s)
  BY <1>1 DEF InWindow
<1>3. Stirred(s)' = Stirred(s) /\ Ready(s)' = Ready(s)
  BY <1>1 DEF Stirred, Ready
<1>4. s = pr.head /\ ~Stirred(s) => gate[s].ready = Ready(s)
  BY <1>1 DEF GateInv, GateOK, VerdictInv, WritePhases
<1>5. SavedInv(s)' /\ ChecksInv(s)'
  BY <1>1 DEF SavedInv, ChecksInv
<1>6. VerdictInv(s)'
  BY <1>1, <1>3, <1>4 DEF VerdictInv, WritePhases
<1>7. RestInv(s)'
  BY <1>1 DEF RestInv
<1>8. GateOK(s)'
  BY <1>5, <1>6, <1>7 DEF GateOK
<1>9. WindowInv'
  <2>1. InWindow(s)' => InWindow(s) /\ (s \in overtaken' <=> s \in overtaken)
    BY <1>1, <1>2 DEF InWindow
  <2>. QED BY <1>1, <2>1, StaysKeeps DEF GateInv
<1>. QED BY <1>1, <1>2, <1>8, <1>9, WritesKeeps

(* A gate that went through is that of the head, alone, or it leaves what  *)
(* was unfinished so.                                                      *)
LEMMA ThroughAlone ==
    ASSUME GateInv, NEW s \in Shas, gate[s].phase \in {"read ref", "write ref"},
           UNCHANGED unfinished \/ (s = pr.head /\ s \notin overtaken), ~unfinished'
    PROVE  s = pr.head /\ s \notin overtaken /\ pr.labelled = gate[s].ready
<1>1. InWindow(s)
  BY DEF InWindow
<1>2. s = pr.head /\ s \notin overtaken
  <2>1. ~unfinished => s = pr.head /\ s \notin overtaken
    BY <1>1 DEF GateInv, WindowInv, TakenInv
  <2>2. CASE unfinished' = unfinished
    <3>1. ~unfinished
      BY <2>2, Zenon
    <3>. QED BY <2>1, <3>1
  <2>. QED BY <2>2
<1>. QED BY <1>2 DEF GateInv, GateOK, SavedInv

(* A ref that is right completes what the label began.                     *)
LEMMA ReadRefKeeps ==
    ASSUME GateInv, NEW s \in Shas, ReadRef(s)
    PROVE  GateInv'
<1>1. /\ Reads(s) /\ UNCHANGED pending
      /\ gate[s].phase = "read ref" /\ InWindow(s)
      /\ \/ /\ gate'[s].phase = "idle" /\ ref = Signal(s, gate[s].ready)
            /\ UNCHANGED unfinished \/ (s = pr.head /\ s \notin overtaken)
         \/ /\ gate'[s].phase = "write ref" /\ gate'[s].ready = gate[s].ready
            /\ UNCHANGED <<overtaken, unfinished>>
  BY ReadRefEffect DEF GateInv, InWindow
<1>2. s = pr.head /\ ~Stirred(s) => gate[s].ready = Ready(s)
  BY <1>1 DEF GateInv, GateOK, VerdictInv, WritePhases
<1>3. /\ Stirred(s)' = Stirred(s) /\ Ready(s)' = Ready(s) /\ Reconciled' = Reconciled
      /\ UNCHANGED <<pr, ref>>
  BY <1>1, SameFacts DEF Reads
<1>4. ChecksInv(s)'
  BY <1>1 DEF ChecksInv
<1>5. SavedInv(s)'
  BY <1>1, <1>3 DEF GateInv, GateOK, SavedInv
<1>6. VerdictInv(s)'
  BY <1>1, <1>2, <1>3 DEF VerdictInv, WritePhases
<1>7. RestInv(s)'
  <2>1. gate'[s].phase = "idle" /\ ~Stirred(s) /\ ~unfinished' => Reconciled
    BY <1>1, <1>2, ThroughAlone DEF Reconciled, Signal
  <2>. QED BY <1>3, <2>1 DEF RestInv
<1>8. GateOK(s)'
  BY <1>4, <1>5, <1>6, <1>7 DEF GateOK
<1>9. WindowInv'
  <2>1. /\ InWindow(s)' => InWindow(s) /\ (s \in overtaken' <=> s \in overtaken)
        /\ \/ UNCHANGED unfinished
           \/ InWindow(s) /\ ~InWindow(s)' /\ s \notin overtaken
    BY <1>1 DEF InWindow
  <2>. QED BY <1>1, <2>1, StaysKeeps DEF GateInv, Reads
<1>10. unfinished' \/ UNCHANGED unfinished \/ s = pr.head
  BY <1>1
<1>. QED BY <1>1, <1>3, <1>8, <1>9, <1>10, WritesKeeps DEF Reads

(* So does the ref once it is written.                                     *)
LEMMA WriteRefKeeps ==
    ASSUME GateInv, NEW s \in Shas, WriteRef(s)
    PROVE  GateInv'
<1>1. /\ TypeOK' /\ Others(s)
      /\ gate[s].phase = "write ref" /\ gate'[s].phase = "idle"
      /\ UNCHANGED <<pr, run, check, inflight, pending, budget>>
      /\ \/ unfinished'
         \/ /\ ref' = Signal(s, gate[s].ready)
            /\ UNCHANGED unfinished \/ (s = pr.head /\ s \notin overtaken)
  BY WriteRefEffect DEF GateInv
<1>2. InWindow(s) /\ ~InWindow(s)'
  BY <1>1 DEF InWindow
<1>3. s = pr.head /\ ~Stirred(s) => gate[s].ready = Ready(s)
  BY <1>1 DEF GateInv, GateOK, VerdictInv, WritePhases
<1>4. Stirred(s)' = Stirred(s) /\ Ready(s)' = Ready(s)
  BY <1>1 DEF Stirred, Ready
<1>5. RestInv(s)'
  <2>1. ~Stirred(s) /\ ~unfinished' => Reconciled'
    BY <1>1, <1>3, ThroughAlone DEF Reconciled, Signal, Ready
  <2>. QED BY <1>4, <2>1 DEF RestInv
<1>6. GateOK(s)'
  BY <1>1, <1>5 DEF GateOK, SavedInv, ChecksInv, VerdictInv, WritePhases
<1>7. WindowInv'
  BY <1>1, <1>2, StaysKeeps DEF GateInv
<1>8. unfinished' \/ UNCHANGED unfinished \/ s = pr.head
  BY <1>1
<1>. QED BY <1>1, <1>2, <1>6, <1>7, <1>8, WritesKeeps

(* After a death nothing is claimed of the head.                           *)
LEMMA FailKeeps ==
    ASSUME GateInv, NEW s \in Shas, Fail(s)
    PROVE  GateInv'
<1>1. /\ TypeOK' /\ Others(s)
      /\ gate'[s].phase = "idle" /\ unfinished'
      /\ UNCHANGED <<run, check, inflight, pending>>
      /\ pr'.head = pr.head /\ pr'.eligible = pr.eligible
      /\ UNCHANGED <<pr, ref>> \/ InWindow(s)
  BY FailEffect DEF GateInv
<1>2. GateOK(s)'
  BY <1>1 DEF GateOK, SavedInv, ChecksInv, VerdictInv, RestInv, WritePhases
<1>3. WindowInv'
  BY <1>1, StaysKeeps DEF GateInv, InWindow
<1>4. HeadInv'
  BY <1>1 DEF GateInv, HeadInv
<1>5. ASSUME NEW t \in Shas \ {s}
      PROVE  GateOK(t)'
  <2>1. TypeOK /\ WindowInv /\ GateOK(t) /\ pending'[t] = pending[t]
    BY <1>1 DEF GateInv
  <2>. QED BY <1>1, <2>1, Frame
<1>. QED BY <1>1, <1>2, <1>3, <1>4, <1>5 DEF GateInv

-----------------------------------------------------------------------------
(* The theorems.                                                           *)

(* The state at first.                                                     *)
LEMMA InitType == Init => TypeOK
<1> SUFFICES ASSUME Init PROVE TypeOK
  OBVIOUS
<1>1. budget \in [Disturbances -> Nat]
  BY GateAssumption DEF Init
<1>2. run \in [Shas -> [Workflows -> RunStates]]
  BY DEF Init, RunStates
<1>3. check \in [Shas -> [Workflows -> CheckStates]]
  BY DEF Init, CheckStates
<1>4. gate \in [Shas -> Gate]
  BY IdleForm DEF Init
<1>. QED BY <1>1, <1>2, <1>3, <1>4 DEF Init, TypeOK

(* A pull request at rest is in order.                                     *)
LEMMA InitInv == Init => GateInv
<1> SUFFICES ASSUME Init PROVE GateInv
  OBVIOUS
<1>1. TypeOK
  BY InitType
<1>2. HeadInv
  <2>1. pr.head \in Shas
    BY <1>1 DEF TypeOK, PullRequest
  <2>2. \A w \in Workflows : check[pr.head][w] # "missing"
    BY <2>1 DEF Init
  <2>. QED BY <2>1, <2>2 DEF Init, HeadInv
<1>3. \A s \in Shas : gate[s].phase = "idle"
  BY IdleForm DEF Init
<1>4. WindowInv
  BY <1>3 DEF WindowInv, AloneInv, TakenInv, InWindow
<1>5. ASSUME NEW s \in Shas
      PROVE  GateOK(s)
  <2>1. gate[s].phase = "idle" /\ Reconciled
    BY <1>3 DEF Init
  <2>. QED BY <2>1 DEF GateOK, SavedInv, ChecksInv, VerdictInv, RestInv, WritePhases
<1>. QED BY <1>1, <1>2, <1>4, <1>5 DEF GateInv

(* Every step keeps the type.                                              *)
LEMMA StepType == TypeOK /\ [Next]_vars => TypeOK'
<1> SUFFICES ASSUME TypeOK, [Next]_vars PROVE TypeOK'
  OBVIOUS
<1>1. CASE Toggle
  BY <1>1, ToggleEffect
<1>2. ASSUME NEW s \in Shas, Push(s) \/ Fail(s)
      PROVE  TypeOK'
  BY <1>2, PushEffect, FailEffect
<1>3. ASSUME NEW s \in Shas, GateStep(s)
      PROVE  TypeOK'
  <2>1. CASE StartGate(s)
    BY <2>1, StartGateEffect DEF Reads
  <2>2. CASE FirstRead(s)
    BY <2>2, FirstReadEffect, Elsewhere DEF Reads
  <2>3. CASE ReadRun(s)
    BY <2>3, ReadRunEffect DEF Reads
  <2>4. CASE ReadCI(s)
    BY <2>4, ReadCheckEffect DEF Reads, ReadCI, Workflows, Phases
  <2>5. CASE ReadBuilds(s)
    BY <2>5, ReadCheckEffect DEF Reads, ReadBuilds, Workflows, Phases
  <2>6. CASE SecondRead(s)
    BY <2>6, SecondReadEffect, Elsewhere DEF Reads
  <2>7. CASE WriteLabel(s)
    BY <2>7, WriteLabelEffect
  <2>8. CASE ReadRef(s)
    BY <2>8, ReadRefEffect DEF Reads
  <2>9. CASE WriteRef(s)
    BY <2>9, WriteRefEffect
  <2>. QED BY <1>3, <2>1, <2>2, <2>3, <2>4, <2>5, <2>6, <2>7, <2>8, <2>9 DEF GateStep
<1>4. ASSUME NEW s \in Shas, NEW w \in Workflows, Rerun(s, w) \/ RunStep(s, w)
      PROVE  TypeOK'
  BY <1>4, RerunEffect, CheckBeginsEffect, RunCompletesEffect DEF RunStep
<1>5. ASSUME NEW s \in Shas, NEW k \in Kinds, Deliver(s, k)
      PROVE  TypeOK'
  BY <1>5, DeliverEffect
<1>6. CASE UNCHANGED vars
  BY <1>6 DEF vars, TypeOK
<1>. QED BY <1>1, <1>2, <1>3, <1>4, <1>5, <1>6 DEF Next

(* The pull request, the workflow runs and the gates keep their types.     *)
THEOREM TypeCorrect == Spec => []TypeOK
BY InitType, StepType, PTL DEF Spec

(* Every step keeps the invariant.                                         *)
LEMMA StepInv == GateInv /\ [Next]_vars => GateInv'
<1> SUFFICES ASSUME GateInv, [Next]_vars PROVE GateInv'
  OBVIOUS
<1>0. TypeOK
  BY DEF GateInv
<1>1. CASE Toggle
  BY <1>0, <1>1, ToggleEffect, QuietKeeps
<1>2. ASSUME NEW s \in Shas, Push(s) \/ Fail(s)
      PROVE  GateInv'
  BY <1>2, PushKeeps, FailKeeps
<1>3. ASSUME NEW s \in Shas, GateStep(s)
      PROVE  GateInv'
  BY <1>3, StartGateKeeps, FirstReadKeeps, ReadRunKeeps, ReadCIKeeps, ReadBuildsKeeps,
     SecondReadKeeps, WriteLabelKeeps, ReadRefKeeps, WriteRefKeeps DEF GateStep
<1>4. ASSUME NEW s \in Shas, NEW w \in Workflows, Rerun(s, w) \/ RunStep(s, w)
      PROVE  GateInv'
  BY <1>0, <1>4, RerunEffect, CheckBeginsEffect, RunCompletesEffect, QuietKeeps DEF RunStep
<1>5. ASSUME NEW s \in Shas, NEW k \in Kinds, Deliver(s, k)
      PROVE  GateInv'
  BY <1>0, <1>5, DeliverEffect, QuietKeeps
<1>6. CASE UNCHANGED vars
  <2>1. Quiet
    BY <1>6 DEF vars, Quiet, Stirred
  <2>2. TypeOK'
    BY <1>0, <1>6, StepType
  <2>. QED BY <2>1, <2>2, QuietKeeps
<1>. QED BY <1>1, <1>2, <1>3, <1>4, <1>5, <1>6 DEF Next

(* The inductive invariant: whatever a gate of the head has read and       *)
(* decided holds, or an event is owed; a gate in its window is alone with  *)
(* the label and the ref, or was overtaken by a push and leaves something  *)
(* to repair.                                                              *)
THEOREM GateInvariant == Spec => []GateInv
BY InitInv, StepInv, PTL DEF Spec

(* The last gate leaves label and signal as the head deserves, whatever    *)
(* events were coalesced, checks rerun, gates died and commits pushed, at  *)
(* any point of any gate.                                                  *)
THEOREM Settles == Spec => []SettledIsReconciled
<1>1. GateInv => SettledIsReconciled
  <2> SUFFICES ASSUME GateInv, Settled, ~unfinished PROVE Reconciled
    BY DEF SettledIsReconciled
  <2>1. pr.head \in Shas
    BY DEF GateInv, TypeOK, PullRequest
  <2>2. ~Stirred(pr.head) /\ gate[pr.head].phase = "idle"
    <3>1. \A w \in Workflows : run[pr.head][w] = "completed"
      BY <2>1 DEF GateInv, HeadInv, Settled
    <3>2. \A k \in Kinds : ~(inflight[pr.head][k] > 0)
      BY <2>1 DEF Settled
    <3>. QED BY <2>1, <3>1, <3>2 DEF Settled, Stirred
  <2>. QED BY <2>1, <2>2 DEF GateInv, GateOK, RestInv
<1>. QED BY <1>1, GateInvariant, PTL

(* An old commit's gate that was not overtaken by a push spares the        *)
(* readiness of a newer head: the window that the run GateStaleHead shows  *)
(* is the only one.                                                        *)
THEOREM OnlyTheWindow == Spec => OnlyTheOvertakenDisturb
<1>1. GateInv => \A s \in Shas \ overtaken :
        gate[s].phase \in {"write label", "write ref"} => s = pr.head
  BY DEF GateInv, WindowInv, AloneInv, InWindow
<1>2. GateInv /\ [Next]_vars =>
        [\A s \in Shas \ overtaken :
            /\ gate[s].phase \in {"write label", "write ref"}
            /\ gate'[s].phase # gate[s].phase
            /\ s # pr.head /\ Ready(pr.head) /\ ref = pr.head
          => pr'.labelled = pr.labelled /\ ref' = ref]_vars
  BY <1>1
<1>. QED BY <1>2, GateInvariant, PTL DEF Spec, OnlyTheOvertakenDisturb

==============================================================================
