---------------------------- MODULE HookSyncProofs ----------------------------
(***************************************************************************)
(* Theorems about HookSync, for any hooks, any number of overlapping runs, *)
(* edits, interruptions and commands that fail unnoticed.                  *)
(*                                                                         *)
(* Only users make a section foreign, and a run that could read the        *)
(* command refuses what was foreign when it began to read (OwnInv).  A     *)
(* hook that is not complete and that nobody has changed since the runs    *)
(* took note of it has a run that will take its section in hand or put     *)
(* right what is missing (CoveredInv): the last run that removed the       *)
(* section or tried to, or one that is to be run again.                    *)
(***************************************************************************)
EXTENDS HookSync, FiniteSetTheorems, WellFoundedInduction, TLAPS

Active == Phases \ RestPhases
Writing == {"remove", "set marker", "set command", "append"}

(* A run that goes on has hooks left, as they were found.                  *)
LeftInv(r) ==
    /\ run[r].phase \in Active => Left(r) # {}
    /\ \A h \in Left(r) \ overtaken[r] : run[r].todo[h] = files[h]

(* What a run takes is not foreign, or was written too late, or could not  *)
(* be read.                                                                *)
OwnInv(r) ==
    /\ (run[r].phase = "command" /\ run[r].marker = "postgresbuild" /\ Foreign(Section(r)))
            => Current(r) \in overtaken[r]
    /\ (run[r].phase \in Writing /\ Foreign(Section(r)))
            => Current(r) \in overtaken[r] \/ r \in blind

(* The run will take the section of the hook in hand.                      *)
Due(r, h) ==
    \/ run[r].phase \in {"idle", "refused"}
    \/ /\ run[r].phase \in Active /\ h \in Left(r)
       /\ run[r].phase \in {"marker", "command", "remove"} \/ Current(r) # h

(* The run adds what the section still lacks.                              *)
Mending(r, h) ==
    /\ run[r].phase \in Active /\ h = Current(r)
    /\ \/ run[r].phase = "set marker"
       \/ run[r].phase = "set command" /\ config[h].marker = "postgresbuild"
       \/ /\ run[r].phase = "append"
          /\ config[h].marker = "postgresbuild" /\ config[h].command = files[h]

Complete(h) ==
    config[h].marker = "postgresbuild" /\ config[h].command = files[h] /\ config[h].events > 0

(* Nobody has changed the hook since the runs took note of it.             *)
Settled(h) == files[h] # "none" /\ \A r \in Present : h \notin overtaken[r]

CoveredInv(h) ==
    Settled(h) => (Complete(h) \/ \E r \in Runs : Due(r, h) \/ Mending(r, h))

(* A run adds one event to what it has removed.                            *)
Adding(h) == {r \in Runs : run[r].phase \in {"set marker", "set command", "append"}
                            /\ Current(r) = h}
EventsInv(h) ==
    h \notin kept => config[h].events + Cardinality(Adding(h)) <= Cardinality(Present)

HookInv ==
    /\ TypeOK
    /\ Present # {}
    /\ \A r \in Runs : LeftInv(r) /\ OwnInv(r)
    /\ \A h \in Hooks : CoveredInv(h) /\ EventsInv(h)

-----------------------------------------------------------------------------
(* Operators.                                                              *)

(* The first of the hooks that are left is one of them.                    *)
LEMMA MinForm ==
    ASSUME NEW S \in SUBSET Nat, S # {}
    PROVE  Min(S) \in S
<1> DEFINE less == OpToRel(<, Nat)
<1>1. IsWellFoundedOn(less, Nat)
  BY NatLessThanWellFounded, Zenon
<1>2. \A a, b \in Nat : a < b => <<a, b>> \in less
  <2> SUFFICES ASSUME NEW a \in Nat, NEW b \in Nat, a < b
               PROVE  <<a, b>> \in less
    OBVIOUS
  <2> DEFINE pair == <<a, b>>
  <2>1. pair \in Nat \X Nat /\ pair[1] < pair[2]
    OBVIOUS
  <2> HIDE DEF pair
  <2>2. pair \in less
    BY <2>1, Zenon DEF OpToRel
  <2>. QED BY <2>2, Zenon DEF pair
<1> HIDE DEF less
<1>3. PICK n \in S : \A m \in S : <<m, n>> \notin less
  BY <1>1, WFMin, Zenon
<1>4. ASSUME NEW m \in S
      PROVE  n <= m
  <2>1. ~(m < n)
    BY <1>2, <1>3
  <2>. QED BY <2>1
<1>. QED BY <1>3, <1>4 DEF Min

(* The hook in hand is one of those that are left.                         *)
LEMMA CurrentForm ==
    ASSUME NEW r \in Runs, Left(r) # {}
    PROVE  Current(r) \in Left(r) /\ Current(r) \in Hooks
<1>1. PICK S \in SUBSET Nat : S = Left(r)
  BY HookAssumption DEF Left
<1>2. Min(S) \in S
  BY <1>1, MinForm
<1>. QED BY <1>1, <1>2 DEF Current, Left

(* A run that goes on has a hook in hand; its path is that of the file,    *)
(* unless the hook has changed since.                                      *)
LEMMA InHand ==
    ASSUME HookInv, NEW r \in Runs, run[r].phase \in Active
    PROVE  /\ Current(r) \in Left(r) /\ Current(r) \in Hooks
           /\ Path(r) \in Paths
           /\ Current(r) \notin overtaken[r] => Path(r) = files[Current(r)]
           /\ Section(r) = config[Current(r)] /\ Section(r) \in Sections
<1>1. Current(r) \in Left(r) /\ Current(r) \in Hooks /\ LeftInv(r) /\ TypeOK
  BY CurrentForm DEF HookInv, LeftInv
<1>2. Path(r) \in Paths
  <2>1. run[r].todo \in [Hooks -> Paths \cup {"none"}]
    BY <1>1 DEF TypeOK, Run
  <2>. QED BY <1>1, <2>1 DEF Path, Left
<1>3. Current(r) \notin overtaken[r] => Path(r) = files[Current(r)]
  BY <1>1 DEF Path, LeftInv
<1>. QED BY <1>1, <1>2, <1>3 DEF Section, TypeOK

(* A run whose list of hooks does not change keeps its hook in hand.       *)
LEMMA SameHand ==
    ASSUME NEW q \in Runs, run'[q].todo = run[q].todo
    PROVE  Left(q)' = Left(q) /\ Current(q)' = Current(q)
<1>1. Left(q)' = Left(q)
  BY DEF Left
<1>. QED BY <1>1 DEF Current

(* A run at rest has no hooks left.                                        *)
LEMMA RestForm ==
    ASSUME NEW phase \in RestPhases
    PROVE  /\ AtRest(phase) \in Run /\ AtRest(phase).phase = phase
           /\ \A h \in Hooks : AtRest(phase).todo[h] = "none"
<1>1. NoHooks \in [Hooks -> Paths \cup {"none"}] /\ \A h \in Hooks : NoHooks[h] = "none"
  BY DEF NoHooks
<1>. QED BY <1>1 DEF AtRest, Run, Phases, RestPhases

(* Spending keeps the type of the budget.                                  *)
LEMMA SpendForm ==
    ASSUME TypeOK, NEW what \in {"edit", "meddle", "crash", "failure"}, Spend(what)
    PROVE  budget' \in [Disturbances -> Nat]
BY DEF TypeOK, Spend, Disturbances

-----------------------------------------------------------------------------
(* What a step of a run leaves to the others.                              *)

Frame(r) ==
    /\ files' = files
    /\ run' \in [Runs -> Run] /\ config' \in [Hooks -> Sections]
    /\ budget' \in [Disturbances -> Nat]
    /\ overtaken' \in [Runs -> SUBSET Hooks] /\ blind' \subseteq Runs /\ kept' \subseteq Hooks
    /\ run[r].phase # "absent" /\ run'[r].phase # "absent"
    /\ \A q \in Runs \ {r} : /\ run'[q] = run[q] /\ overtaken'[q] = overtaken[q]
                             /\ q \in blind => q \in blind'
    /\ \A h \in Hooks : Foreign(config'[h]) => Foreign(config[h])

(* A step of one run disturbs nothing that another relies on.              *)
LEMMA OthersKeep ==
    ASSUME HookInv, NEW r \in Runs, Frame(r), NEW q \in Runs \ {r}
    PROVE  LeftInv(q)' /\ OwnInv(q)'
<1>1. /\ run'[q] = run[q] /\ overtaken'[q] = overtaken[q] /\ files' = files /\ q \in Runs
      /\ q \in blind => q \in blind'
  BY DEF Frame
<1>2. Left(q)' = Left(q) /\ Current(q)' = Current(q)
  BY <1>1, SameHand
<1>3. LeftInv(q)'
  BY <1>1, <1>2 DEF HookInv, LeftInv
<1>4. run[q].phase \in Active => Current(q) \in Hooks
  BY <1>1, InHand
<1>5. OwnInv(q)'
  <2>1. Section(q)' = config'[Current(q)]
    BY <1>2 DEF Section
  <2>2. OwnInv(q)
    BY <1>1 DEF HookInv
  <2>. QED BY <1>1, <1>2, <1>4, <2>1, <2>2
           DEF OwnInv, Section, Frame, Active, Phases, RestPhases, Writing
<1>. QED BY <1>3, <1>5

(* The runs that take place are the same.                                  *)
LEMMA PresentKept ==
    ASSUME NEW r \in Runs, Frame(r)
    PROVE  Present' = Present
BY DEF Frame, Present

(* Nothing is taken from the section of the hook.                          *)
NoWorse(h) ==
    /\ config[h].marker = "postgresbuild" => config'[h].marker = "postgresbuild"
    /\ config[h].command = files[h] => config'[h].command = files[h]
    /\ config[h].events > 0 => config'[h].events > 0

(* Nor does it take a hook from a run that will see to it.                 *)
LEMMA OthersCover ==
    ASSUME HookInv, NEW r \in Runs, Frame(r), NEW h \in Hooks, NEW q \in Runs \ {r}
    PROVE  /\ Due(q, h) => Due(q, h)'
           /\ (Mending(q, h) /\ NoWorse(h)) => Mending(q, h)'
<1>1. run'[q] = run[q] /\ files' = files
  BY DEF Frame
<1>2. Left(q)' = Left(q) /\ Current(q)' = Current(q)
  BY <1>1, SameHand
<1>. QED BY <1>1, <1>2 DEF Due, Mending, NoWorse

(* If the run itself covers the hook after the step, or somebody else did  *)
(* before, it is covered.                                                  *)
LEMMA CoverKept ==
    ASSUME HookInv, NEW r \in Runs, Frame(r), NEW h \in Hooks,
           Settled(h)' =>
              \/ Due(r, h)' \/ Mending(r, h)'
              \/ /\ Settled(h) /\ NoWorse(h)
                 /\ (Due(r, h) \/ Mending(r, h)) => Complete(h)'
    PROVE  CoveredInv(h)'
<1> SUFFICES ASSUME Settled(h)', ~Due(r, h)', ~Mending(r, h)'
             PROVE  Complete(h)' \/ \E q \in Runs : Due(q, h)' \/ Mending(q, h)'
  BY DEF CoveredInv
<1>1. CASE Complete(h)
  BY <1>1 DEF Complete, NoWorse, Frame
<1>2. CASE \E q \in Runs : Due(q, h) \/ Mending(q, h)
  <2>1. PICK q \in Runs : Due(q, h) \/ Mending(q, h)
    BY <1>2
  <2>2. CASE q = r
    BY <2>1, <2>2
  <2>3. CASE q # r
    BY <2>1, <2>3, OthersCover
  <2>. QED BY <2>2, <2>3
<1>. QED BY <1>1, <1>2 DEF HookInv, CoveredInv

(* A hook is settled as before if the runs note nothing new.               *)
LEMMA SettledKept ==
    ASSUME NEW r \in Runs, Frame(r), NEW h \in Hooks,
           h \in overtaken[r] => h \in overtaken'[r]
    PROVE  Settled(h)' => Settled(h)
<1>1. Present' = Present /\ Present \subseteq Runs /\ files' = files
  BY PresentKept DEF Present, Frame
<1>2. \A q \in Runs : h \in overtaken[q] => h \in overtaken'[q]
  BY DEF Frame
<1>. QED BY <1>1, <1>2 DEF Settled

(* No run more adds to the hook, and nothing was added.                    *)
LEMMA EventsKept ==
    ASSUME HookInv, NEW h \in Hooks, Adding(h)' \subseteq Adding(h), Present' = Present,
           h \notin kept' => h \notin kept,
           config'[h].events <= config[h].events, config'[h].events \in Nat
    PROVE  EventsInv(h)'
<1> SUFFICES ASSUME h \notin kept'
             PROVE  config'[h].events + Cardinality(Adding(h)') <= Cardinality(Present)
  BY DEF EventsInv
<1>1. PICK A \in SUBSET Runs : A = Adding(h)
  BY DEF Adding
<1>2. PICK B \in SUBSET Runs : B = Adding(h)'
  BY DEF Adding
<1>3. PICK P \in SUBSET Runs : P = Present
  BY DEF Present
<1>4. IsFiniteSet(Runs) /\ IsFiniteSet(A) /\ IsFiniteSet(P)
  BY HookAssumption, FS_Subset
<1>5. Cardinality(A) \in Nat /\ Cardinality(P) \in Nat /\ Cardinality(B) <= Cardinality(A)
      /\ Cardinality(B) \in Nat
  BY <1>1, <1>2, <1>4, FS_Subset, FS_CardinalityType
<1> DEFINE before == config[h].events
           after == config'[h].events
<1>6. before \in Nat
  BY DEF HookInv, TypeOK, Sections
<1>7. before + Cardinality(A) <= Cardinality(P)
  BY <1>1, <1>3 DEF HookInv, EventsInv
<1>8. after <= before /\ after \in Nat
  OBVIOUS
<1> HIDE DEF before, after
<1>9. after + Cardinality(B) <= Cardinality(P)
  BY <1>5, <1>6, <1>7, <1>8
<1>. QED BY <1>2, <1>3, <1>9 DEF after

(* A run adds to a hook as long as it has it in hand.                      *)
LEMMA AddingKept ==
    ASSUME NEW r \in Runs, Frame(r), NEW h \in Hooks, r \in Adding(h)' => r \in Adding(h)
    PROVE  Adding(h)' \subseteq Adding(h)
<1>1. ASSUME NEW q \in Adding(h)', q # r
      PROVE  q \in Adding(h)
  <2>1. q \in Runs /\ run'[q] = run[q]
    BY <1>1 DEF Adding, Frame
  <2>2. Current(q)' = Current(q)
    BY <2>1, SameHand
  <2>. QED BY <1>1, <2>1, <2>2 DEF Adding
<1>. QED BY <1>1

(* What is to be shown of a step of a run.                                 *)
LEMMA RunKeeps ==
    ASSUME HookInv, NEW r \in Runs, Frame(r),
           LeftInv(r)', OwnInv(r)', \A h \in Hooks : CoveredInv(h)' /\ EventsInv(h)'
    PROVE  HookInv'
<1>1. TypeOK'
  BY DEF HookInv, TypeOK, Frame
<1>2. \A q \in Runs : LeftInv(q)' /\ OwnInv(q)'
  BY OthersKeep
<1>3. Present' # {}
  BY PresentKept DEF HookInv
<1>. QED BY <1>1, <1>2, <1>3 DEF HookInv

(* A step that writes nothing adds no event, if the run is to add none.    *)
LEMMA ReadKeepsEvents ==
    ASSUME HookInv, NEW r \in Runs, Frame(r), config' = config, kept' = kept,
           NEW h \in Hooks, r \notin Adding(h)'
    PROVE  EventsInv(h)'
<1>1. config'[h].events \in Nat /\ config'[h].events <= config[h].events
  BY DEF HookInv, TypeOK, Sections
<1>. QED BY <1>1, AddingKept, PresentKept, EventsKept

-----------------------------------------------------------------------------
(* The steps that read.                                                    *)

(* A run begins with the hooks it discovers, none of which it has looked   *)
(* at.                                                                     *)
LEMMA StartKeeps ==
    ASSUME HookInv, NEW r \in Runs, Start(r)
    PROVE  HookInv'
<1> DEFINE next == IF files = NoHooks THEN AtRest("installed")
                   ELSE [phase |-> "marker", todo |-> files, marker |-> "none"]
<1>1. TypeOK /\ run[r].phase \in {"idle", "installed", "refused"}
  BY DEF HookInv, Start
<1>2. /\ UNCHANGED <<files, config, budget, blind, kept>>
      /\ run' = [run EXCEPT ![r] = next] /\ overtaken' = [overtaken EXCEPT ![r] = {}]
  BY DEF Start
<1>3. /\ next \in Run /\ next.phase \in {"installed", "marker"}
      /\ next.phase = "installed" => (files = NoHooks /\ \A h \in Hooks : next.todo[h] = "none")
      /\ next.phase = "marker" => (files # NoHooks /\ next.todo = files)
  <2>1. CASE files = NoHooks
    <3>1. next = AtRest("installed") /\ "installed" \in RestPhases
      BY <2>1 DEF RestPhases
    <3>. QED BY <2>1, <3>1, RestForm
  <2>2. CASE files # NoHooks
    BY <1>1, <2>2 DEF TypeOK, Run, Phases
  <2>. QED BY <2>1, <2>2
<1> HIDE DEF next
<1>4. run' \in [Runs -> Run] /\ run'[r] = next /\ \A q \in Runs \ {r} : run'[q] = run[q]
  BY <1>1, <1>2, <1>3 DEF TypeOK
<1>5. overtaken' \in [Runs -> SUBSET Hooks] /\ \A q \in Runs \ {r} : overtaken'[q] = overtaken[q]
  BY <1>1, <1>2 DEF TypeOK
<1>6. Frame(r)
  <2>1. run[r].phase # "absent" /\ run'[r].phase # "absent"
    BY <1>1, <1>3, <1>4
  <2>. QED BY <1>1, <1>2, <1>4, <1>5, <2>1 DEF Frame, TypeOK
<1>7. Left(r)' = {h \in Hooks : next.todo[h] # "none"}
  BY <1>4 DEF Left
<1>8. files # NoHooks => \E h \in Hooks : files[h] # "none"
  BY <1>1 DEF TypeOK, NoHooks
<1>9. LeftInv(r)'
  BY <1>2, <1>3, <1>4, <1>7, <1>8 DEF LeftInv, Active, RestPhases
<1>10. OwnInv(r)'
  BY <1>3, <1>4 DEF OwnInv, Writing
<1>11. ASSUME NEW h \in Hooks
       PROVE  CoveredInv(h)'
  <2>1. CASE files[h] = "none"
    BY <1>2, <2>1 DEF CoveredInv, Settled
  <2>2. CASE files[h] # "none"
    <3>1. next.phase = "marker" /\ h \in Left(r)'
      BY <1>3, <1>7, <2>2 DEF NoHooks
    <3>2. Due(r, h)'
      BY <1>4, <3>1 DEF Due, Active, Phases, RestPhases
    <3>. QED BY <1>6, <3>2, CoverKept
  <2>. QED BY <2>1, <2>2
<1>12. ASSUME NEW h \in Hooks
       PROVE  EventsInv(h)'
  <2>1. r \notin Adding(h)'
    BY <1>3, <1>4 DEF Adding
  <2>. QED BY <1>2, <1>6, <2>1, ReadKeepsEvents
<1>. QED BY <1>6, <1>9, <1>10, <1>11, <1>12, RunKeeps

(* A section whose marker was ours is not foreign when its command is      *)
(* read, unless it has changed since; a marker that could not be read is   *)
(* not ours.                                                               *)
LEMMA ReadMarkerKeeps ==
    ASSUME HookInv, NEW r \in Runs, ReadMarker(r)
    PROVE  HookInv'
<1>1. TypeOK /\ run[r].phase = "marker" /\ run[r].phase \in Active /\ LeftInv(r)
  BY DEF HookInv, ReadMarker, Active, Phases, RestPhases
<1>2. UNCHANGED <<files, config, blind, kept>>
  BY DEF ReadMarker
<1>3. PICK current \in Hooks : current = Current(r)
  BY <1>1, InHand
<1>4. PICK marker \in {"none", Section(r).marker} :
        /\ IF marker = Section(r).marker THEN UNCHANGED budget ELSE Spend("failure")
        /\ run' = [run EXCEPT ![r].phase = "command", ![r].marker = marker]
  BY DEF ReadMarker
<1>5. marker \in {"none", "postgresbuild", "other"}
  BY <1>1, InHand DEF Sections
<1>6. marker = "postgresbuild" => ~Foreign(Section(r))
  BY <1>4 DEF Foreign
<1>7. budget' \in [Disturbances -> Nat]
  <2>1. CASE marker = Section(r).marker
    BY <1>1, <1>4, <2>1 DEF TypeOK
  <2>2. CASE marker # Section(r).marker
    BY <1>1, <1>4, <2>2, SpendForm
  <2>. QED BY <2>1, <2>2
<1>8. /\ run' \in [Runs -> Run] /\ run'[r].phase = "command" /\ run'[r].marker = marker
      /\ run'[r].todo = run[r].todo /\ \A q \in Runs \ {r} : run'[q] = run[q]
  BY <1>1, <1>4, <1>5 DEF TypeOK, Run, Phases
<1>9. /\ overtaken' \in [Runs -> SUBSET Hooks]
      /\ \A q \in Runs \ {r} : overtaken'[q] = overtaken[q]
      /\ \A h \in Hooks : (h # current \/ Path(r) # files[current])
                            => (h \in overtaken'[r] <=> h \in overtaken[r])
  <2>1. PICK noted \in SUBSET Hooks :
           noted = IF Path(r) = files[current] THEN overtaken[r] \ {current} ELSE overtaken[r]
    BY <1>1 DEF TypeOK
  <2>2. overtaken' = [overtaken EXCEPT ![r] = noted]
    BY <1>3, <2>1 DEF ReadMarker
  <2>3. overtaken' \in [Runs -> SUBSET Hooks] /\ overtaken'[r] = noted
    BY <1>1, <2>2 DEF TypeOK
  <2>. QED BY <1>1, <2>1, <2>2, <2>3 DEF TypeOK
<1>10. Frame(r)
  <2>1. run[r].phase # "absent" /\ run'[r].phase # "absent"
    BY <1>1, <1>8
  <2>. QED BY <1>1, <1>2, <1>7, <1>8, <1>9, <2>1 DEF Frame, TypeOK
<1>11. Left(r)' = Left(r) /\ Current(r)' = Current(r)
  BY <1>8, SameHand
<1>12. LeftInv(r)'
  <2>1. ASSUME NEW h \in Left(r), h \notin overtaken'[r]
        PROVE  run[r].todo[h] = files[h]
    <3>1. CASE h \in overtaken[r]
      <4>1. h = current /\ Path(r) = files[current]
        BY <1>9, <2>1, <3>1 DEF Left
      <4>. QED BY <1>3, <4>1 DEF Path
    <3>2. CASE h \notin overtaken[r]
      BY <1>1, <3>2 DEF LeftInv
    <3>. QED BY <3>1, <3>2
  <2>2. \A h \in Left(r)' \ overtaken'[r] : run'[r].todo[h] = files'[h]
    BY <1>2, <1>8, <1>11, <2>1
  <2>. QED BY <1>1, <1>11, <2>2 DEF LeftInv
<1>13. OwnInv(r)'
  BY <1>2, <1>6, <1>8, <1>11 DEF OwnInv, Writing, Section
<1>14. ASSUME NEW h \in Hooks
       PROVE  CoveredInv(h)'
  <2>1. NoWorse(h)
    BY <1>2 DEF NoWorse
  <2>2. (Due(r, h) \/ Mending(r, h)) => Due(r, h)'
    BY <1>1, <1>8, <1>11 DEF Due, Mending, Active, Phases, RestPhases
  <2>3. CASE h = current
    <3>1. h \in Left(r)
      BY <1>1, <1>3, <2>3, InHand
    <3>2. Due(r, h)'
      BY <1>8, <1>11, <3>1 DEF Due, Active, Phases, RestPhases
    <3>. QED BY <1>10, <3>2, CoverKept
  <2>4. CASE h # current
    <3>1. Settled(h)' => Settled(h)
      BY <1>9, <1>10, <2>4, SettledKept
    <3>. QED BY <1>10, <2>1, <2>2, <3>1, CoverKept
  <2>. QED BY <2>3, <2>4
<1>15. ASSUME NEW h \in Hooks
       PROVE  EventsInv(h)'
  <2>1. r \notin Adding(h)'
    BY <1>8 DEF Adding
  <2>. QED BY <1>2, <1>10, <2>1, ReadKeepsEvents
<1>. QED BY <1>10, <1>12, <1>13, <1>14, <1>15, RunKeeps

(* A section that was foreign when the run began to read it is refused     *)
(* when its command can be read.                                           *)
LEMMA ReadCommandKeeps ==
    ASSUME HookInv, NEW r \in Runs, ReadCommand(r)
    PROVE  HookInv'
<1>1. TypeOK /\ run[r].phase = "command" /\ run[r].phase \in Active /\ LeftInv(r) /\ OwnInv(r)
  BY DEF HookInv, ReadCommand, Active, Phases, RestPhases
<1>2. UNCHANGED <<files, config, overtaken, kept>>
  BY DEF ReadCommand
<1>3. PICK command \in {"none", Section(r).command} :
        /\ run' = [run EXCEPT ![r] =
                IF Refuses(run[r].marker, command, Path(r)) THEN AtRest("refused")
                ELSE [run[r] EXCEPT !.phase = "remove", !.marker = "none"]]
        /\ IF command = Section(r).command THEN blind' = blind \ {r} /\ UNCHANGED budget
           ELSE blind' = blind \cup {r} /\ Spend("failure")
  BY DEF ReadCommand
<1> DEFINE refused == Refuses(run[r].marker, command, Path(r))
           next == IF refused THEN AtRest("refused")
                   ELSE [run[r] EXCEPT !.phase = "remove", !.marker = "none"]
<1>4. run' = [run EXCEPT ![r] = next]
  BY <1>3
<1>5. (~refused /\ Foreign(Section(r))) => Current(r) \in overtaken[r] \/ r \in blind'
  <2>1. run[r].marker \in {"none", "postgresbuild", "other"}
    BY <1>1 DEF TypeOK, Run
  <2>2. Path(r) # "foreign"
    BY <1>1, InHand, HookAssumption
  <2>3. CASE command = Section(r).command
    BY <1>1, <2>1, <2>2, <2>3 DEF Refuses, Foreign, OwnInv
  <2>4. CASE command # Section(r).command
    BY <1>3, <2>4
  <2>. QED BY <2>3, <2>4
<1>6. /\ blind' \subseteq Runs /\ \A q \in Runs \ {r} : q \in blind => q \in blind'
      /\ budget' \in [Disturbances -> Nat]
  <2>1. CASE command = Section(r).command
    BY <1>1, <1>3, <2>1 DEF TypeOK
  <2>2. CASE command # Section(r).command
    BY <1>1, <1>3, <2>2, SpendForm DEF TypeOK
  <2>. QED BY <2>1, <2>2
<1>7. /\ next \in Run
      /\ \/ next.phase = "refused" /\ \A h \in Hooks : next.todo[h] = "none"
         \/ next.phase = "remove" /\ next.todo = run[r].todo /\ ~refused
  <2>1. CASE refused
    <3>1. next = AtRest("refused") /\ "refused" \in RestPhases
      BY <2>1 DEF RestPhases
    <3>. QED BY <3>1, RestForm
  <2>2. CASE ~refused
    BY <1>1, <2>2 DEF TypeOK, Run, Phases
  <2>. QED BY <2>1, <2>2
<1> HIDE DEF next, refused
<1>8. run' \in [Runs -> Run] /\ run'[r] = next /\ \A q \in Runs \ {r} : run'[q] = run[q]
  BY <1>1, <1>4, <1>7 DEF TypeOK
<1>9. Frame(r)
  <2>1. run[r].phase # "absent" /\ run'[r].phase # "absent"
    BY <1>1, <1>7, <1>8
  <2>. QED BY <1>1, <1>2, <1>6, <1>8, <2>1 DEF Frame, TypeOK
<1>10. \A h \in Hooks : (Settled(h)' => Settled(h)) /\ NoWorse(h)
  BY <1>2, <1>9, SettledKept DEF NoWorse
<1>11. \A h \in Hooks : EventsInv(h)'
  <2>1. \A h \in Hooks : r \notin Adding(h)'
    BY <1>7, <1>8 DEF Adding
  <2>. QED BY <1>2, <1>9, <2>1, ReadKeepsEvents
<1>12. CASE next.phase = "refused"
  <2>1. Left(r)' = {}
    BY <1>7, <1>8, <1>12 DEF Left
  <2>2. LeftInv(r)' /\ OwnInv(r)'
    BY <1>8, <1>12, <2>1 DEF LeftInv, OwnInv, Active, RestPhases, Writing
  <2>3. \A h \in Hooks : Due(r, h)'
    BY <1>8, <1>12 DEF Due
  <2>4. \A h \in Hooks : CoveredInv(h)'
    BY <1>9, <2>3, CoverKept
  <2>. QED BY <1>9, <1>11, <2>2, <2>4, RunKeeps
<1>13. CASE next.phase = "remove"
  <2>1. Left(r)' = Left(r) /\ Current(r)' = Current(r)
    BY <1>7, <1>8, <1>13, SameHand
  <2>2. LeftInv(r)'
    BY <1>1, <1>2, <1>7, <1>8, <1>13, <2>1 DEF LeftInv
  <2>3. OwnInv(r)'
    <3>1. Section(r)' = Section(r) /\ overtaken' = overtaken
      BY <1>2, <2>1 DEF Section
    <3>2. ~refused
      BY <1>7, <1>13
    <3>. QED BY <1>5, <1>8, <1>13, <2>1, <3>1, <3>2 DEF OwnInv
  <2>4. ASSUME NEW h \in Hooks
        PROVE  (Due(r, h) \/ Mending(r, h)) => Due(r, h)'
    BY <1>1, <1>8, <1>13, <2>1 DEF Due, Mending, Active, Phases, RestPhases
  <2>5. \A h \in Hooks : CoveredInv(h)'
    BY <1>9, <1>10, <2>4, CoverKept
  <2>. QED BY <1>9, <1>11, <2>2, <2>3, <2>5, RunKeeps
<1>. QED BY <1>7, <1>12, <1>13

(* A run that is interrupted is run again.                                 *)
LEMMA CrashKeeps ==
    ASSUME HookInv, NEW r \in Runs, Crash(r)
    PROVE  HookInv'
<1>1. /\ TypeOK /\ UNCHANGED <<files, config, history>>
      /\ budget' \in [Disturbances -> Nat]
      /\ run[r].phase \notin RestPhases
  BY SpendForm DEF HookInv, Crash
<1> DEFINE next == AtRest("idle")
<1>2. next \in Run /\ next.phase = "idle" /\ \A h \in Hooks : next.todo[h] = "none"
  <2>1. "idle" \in RestPhases
    BY DEF RestPhases
  <2>. QED BY <2>1, RestForm
<1>3. run' = [run EXCEPT ![r] = next]
  BY DEF Crash
<1> HIDE DEF next
<1>4. run' \in [Runs -> Run] /\ run'[r] = next /\ \A q \in Runs \ {r} : run'[q] = run[q]
  BY <1>1, <1>2, <1>3 DEF TypeOK
<1>5. Frame(r)
  <2>1. run[r].phase # "absent" /\ run'[r].phase # "absent"
    BY <1>1, <1>2, <1>4 DEF RestPhases
  <2>. QED BY <1>1, <1>4, <2>1 DEF Frame, TypeOK, history
<1>6. Left(r)' = {}
  BY <1>2, <1>4 DEF Left
<1>7. LeftInv(r)' /\ OwnInv(r)'
  BY <1>2, <1>4, <1>6 DEF LeftInv, OwnInv, Active, RestPhases, Writing
<1>8. \A h \in Hooks : Due(r, h)' /\ r \notin Adding(h)'
  BY <1>2, <1>4 DEF Due, Adding
<1>9. \A h \in Hooks : CoveredInv(h)'
  BY <1>5, <1>8, CoverKept
<1>10. \A h \in Hooks : EventsInv(h)'
  BY <1>1, <1>5, <1>8, ReadKeepsEvents DEF history
<1>. QED BY <1>5, <1>7, <1>9, <1>10, RunKeeps

-----------------------------------------------------------------------------
(* The steps that write.                                                   *)

(* What a run writes is not foreign, unless what was there already was.    *)
LEMMA WriteForm ==
    ASSUME HookInv, NEW r \in Runs, run[r].phase \in Writing,
           NEW section \in Sections, Foreign(section) => Foreign(Section(r)),
           Configure(r, section), UNCHANGED <<files, overtaken, blind>>,
           budget' \in [Disturbances -> Nat],
           kept' \subseteq Hooks,
           run' \in [Runs -> Run], \A q \in Runs \ {r} : run'[q] = run[q],
           run'[r].phase # "absent"
    PROVE  /\ Frame(r) /\ config'[Current(r)] = section /\ Current(r) \in Hooks
           /\ \A h \in Hooks : h # Current(r) => config'[h] = config[h] /\ NoWorse(h)
           /\ \A h \in Hooks : Settled(h)' => Settled(h)
<1> DEFINE current == Current(r)
<1>1. TypeOK /\ run[r].phase \in Active
  BY DEF HookInv, Writing, Active, Phases, RestPhases
<1>2. current \in Hooks /\ Section(r) = config[current]
  BY <1>1, InHand
<1>3. config' = [config EXCEPT ![current] = section]
  BY DEF Configure
<1> HIDE DEF current
<1>4. /\ config' \in [Hooks -> Sections] /\ config'[current] = section
      /\ \A h \in Hooks : h # current => config'[h] = config[h]
  BY <1>1, <1>2, <1>3 DEF TypeOK
<1>5. \A h \in Hooks : Foreign(config'[h]) => Foreign(config[h])
  BY <1>2, <1>4
<1>6. Frame(r)
  <2>1. run[r].phase # "absent"
    BY DEF Writing
  <2>. QED BY <1>1, <1>4, <1>5, <2>1 DEF Frame, TypeOK
<1>7. \A h \in Hooks : Settled(h)' => Settled(h)
  BY <1>6, SettledKept
<1>8. \A h \in Hooks : h # current => NoWorse(h)
  BY <1>4 DEF NoWorse
<1>. QED BY <1>2, <1>4, <1>6, <1>7, <1>8 DEF current

(* A write that leaves the run with the same hook.                         *)
LEMMA WriteAdvances ==
    ASSUME HookInv, NEW r \in Runs, run[r].phase \in Writing,
           NEW section \in Sections, Foreign(section) => Foreign(Section(r)),
           Configure(r, section), UNCHANGED <<files, overtaken, blind>>,
           budget' \in [Disturbances -> Nat],
           kept' \subseteq Hooks, NEW phase \in Writing, Advance(r, phase)
    PROVE  /\ Frame(r) /\ config'[Current(r)] = section /\ Current(r) \in Hooks
           /\ \A h \in Hooks : h # Current(r) => config'[h] = config[h] /\ NoWorse(h)
           /\ \A h \in Hooks : Settled(h)' => Settled(h)
           /\ run'[r].phase = phase /\ Left(r)' = Left(r) /\ Current(r)' = Current(r)
           /\ LeftInv(r)' /\ OwnInv(r)'
<1>1. TypeOK /\ run[r].phase \in Active /\ LeftInv(r) /\ OwnInv(r) /\ phase \in Phases
  BY DEF HookInv, Writing, Active, Phases, RestPhases
<1>2. run' = [run EXCEPT ![r].phase = phase]
  BY DEF Advance
<1>3. /\ run' \in [Runs -> Run] /\ run'[r].phase = phase /\ run'[r].todo = run[r].todo
      /\ \A q \in Runs \ {r} : run'[q] = run[q] /\ phase # "absent"
  BY <1>1, <1>2 DEF TypeOK, Run, Writing
<1>4. Left(r)' = Left(r) /\ Current(r)' = Current(r)
  BY <1>3, SameHand
<1>5. /\ Frame(r) /\ config'[Current(r)] = section /\ Current(r) \in Hooks
      /\ \A h \in Hooks : h # Current(r) => config'[h] = config[h] /\ NoWorse(h)
      /\ \A h \in Hooks : Settled(h)' => Settled(h)
  <2>1. run'[r].phase # "absent"
    BY <1>3 DEF Writing
  <2>. QED BY <1>3, <2>1, WriteForm
<1>6. LeftInv(r)'
  BY <1>1, <1>3, <1>4 DEF LeftInv
<1>7. OwnInv(r)'
  <2>1. Section(r)' = section
    BY <1>4, <1>5 DEF Section
  <2>. QED BY <1>1, <1>3, <1>4, <2>1 DEF OwnInv, Writing
<1>. QED BY <1>3, <1>4, <1>5, <1>6, <1>7

(* The hooks other than the one in hand are covered as they were.          *)
LEMMA OtherHooksKeep ==
    ASSUME HookInv, NEW r \in Runs, run[r].phase \in Writing, Frame(r),
           run'[r].phase \in Writing, Left(r)' = Left(r), Current(r)' = Current(r),
           NEW h \in Hooks, h # Current(r), config'[h] = config[h], NoWorse(h),
           Settled(h)' => Settled(h), h \notin kept' => h \notin kept
    PROVE  CoveredInv(h)' /\ EventsInv(h)'
<1>1. Due(r, h) => Due(r, h)'
  BY DEF Due, Writing, Active, Phases, RestPhases
<1>2. CoveredInv(h)'
  BY <1>1, CoverKept DEF Mending
<1>3. r \notin Adding(h)'
  BY DEF Adding
<1>4. config'[h].events \in Nat /\ config'[h].events <= config[h].events
  BY DEF HookInv, TypeOK, Sections
<1>. QED BY <1>2, <1>3, <1>4, AddingKept, PresentKept, EventsKept

(* The run that has removed a section, or has failed to, is to put all of  *)
(* it back; no more runs than take place add to what was removed.          *)
LEMMA RemoveSectionKeeps ==
    ASSUME HookInv, NEW r \in Runs, RemoveSection(r)
    PROVE  HookInv'
<1>1. /\ TypeOK /\ run[r].phase = "remove" /\ run[r].phase \in Writing
      /\ run[r].phase \in Active
  BY DEF HookInv, RemoveSection, Writing, Active, Phases, RestPhases
<1>2. PICK current \in Hooks : current = Current(r)
  BY <1>1, InHand
<1>3. NoSection \in Sections /\ ~Foreign(NoSection) /\ NoSection.events = 0
  BY DEF NoSection, Sections, Foreign
<1>4. /\ Advance(r, "set marker") /\ "set marker" \in Writing
      /\ UNCHANGED <<files, overtaken, blind>>
  BY DEF RemoveSection, Writing
<1>5. PICK section \in Sections :
        /\ Configure(r, section)
        /\ Foreign(section) => Foreign(Section(r))
        /\ budget' \in [Disturbances -> Nat] /\ kept' \subseteq Hooks
        /\ \A h \in Hooks \ {current} : h \notin kept' => h \notin kept
        /\ current \notin kept' => section.events = 0
  <2>1. CASE Configure(r, NoSection) /\ kept' = kept \ {Current(r)} /\ UNCHANGED budget
    BY <1>1, <1>2, <1>3, <2>1 DEF TypeOK
  <2>2. CASE Spend("failure") /\ kept' = kept \cup {Current(r)} /\ UNCHANGED config
    <3>1. Section(r) \in Sections /\ Configure(r, Section(r))
      <4>1. config' = [config EXCEPT ![current] = config[current]] /\ config[current] \in Sections
        BY <1>1, <2>2 DEF TypeOK
      <4>. QED BY <1>2, <4>1 DEF Section, Configure
    <3>2. budget' \in [Disturbances -> Nat]
      BY <1>1, <2>2, SpendForm
    <3>. QED BY <1>1, <1>2, <2>2, <3>1, <3>2 DEF TypeOK
  <2>. QED BY <2>1, <2>2 DEF RemoveSection
<1>6. /\ Frame(r) /\ config'[current] = section /\ current \in Hooks
      /\ \A h \in Hooks : h # current => config'[h] = config[h] /\ NoWorse(h)
      /\ \A h \in Hooks : Settled(h)' => Settled(h)
      /\ run'[r].phase = "set marker" /\ Left(r)' = Left(r) /\ Current(r)' = current
      /\ LeftInv(r)' /\ OwnInv(r)'
  BY <1>1, <1>2, <1>4, <1>5, WriteAdvances
<1>7. CoveredInv(current)'
  <2>1. Mending(r, current)'
    BY <1>6 DEF Mending, Active, Phases, RestPhases
  <2>. QED BY <2>1 DEF CoveredInv
<1>8. EventsInv(current)'
  <2>1. PICK A \in SUBSET Runs : A = Adding(current)'
    BY DEF Adding
  <2>2. PICK P \in SUBSET Runs : P = Present'
    BY DEF Present
  <2>3. A \subseteq P
    BY <2>1, <2>2 DEF Adding, Present
  <2>4. IsFiniteSet(P)
    BY HookAssumption, FS_Subset
  <2>5. Cardinality(A) \in Nat /\ Cardinality(P) \in Nat /\ Cardinality(A) <= Cardinality(P)
    BY <2>3, <2>4, FS_Subset, FS_CardinalityType
  <2>6. current \notin kept' => config'[current].events = 0
    BY <1>5, <1>6
  <2>. QED BY <2>1, <2>2, <2>5, <2>6 DEF EventsInv
<1>9. \A h \in Hooks : h # current => CoveredInv(h)' /\ EventsInv(h)'
  BY <1>1, <1>2, <1>4, <1>5, <1>6, OtherHooksKeep
<1>. QED BY <1>6, <1>7, <1>8, <1>9, RunKeeps

(* The marker is set first: the section is ours from then on.              *)
LEMMA SetMarkerKeeps ==
    ASSUME HookInv, NEW r \in Runs, SetMarker(r)
    PROVE  HookInv'
<1>0. PICK current \in Hooks : current = Current(r)
  BY InHand DEF SetMarker, Active, Phases, RestPhases
<1>1. /\ run[r].phase = "set marker" /\ run[r].phase \in Writing /\ run[r].phase \in Active
      /\ Section(r) \in Sections /\ Section(r) = config[current] /\ TypeOK
  BY <1>0, InHand DEF SetMarker, Writing, Active, Phases, RestPhases, HookInv
<1> PICK old \in Sections : old = Section(r)
  BY <1>1
<1> DEFINE section == [old EXCEPT !.marker = "postgresbuild"]
<1>2. /\ section \in Sections /\ section.marker = "postgresbuild"
      /\ section.command = config[current].command /\ section.events \in Nat
      /\ section.events = config[current].events
  BY <1>1 DEF Sections
<1>3. "set command" \in Writing /\ ~Foreign(section)
  BY <1>2 DEF Writing, Foreign
<1>4. /\ Configure(r, section) /\ Advance(r, "set command")
      /\ UNCHANGED <<files, overtaken, blind>> /\ UNCHANGED kept
      /\ budget' \in [Disturbances -> Nat] /\ kept' \subseteq Hooks
  BY <1>1 DEF SetMarker, history, TypeOK
<1> HIDE DEF section
<1>5. /\ Frame(r) /\ config'[current] = section /\ current \in Hooks
      /\ \A h \in Hooks : h # current => config'[h] = config[h] /\ NoWorse(h)
      /\ \A h \in Hooks : Settled(h)' => Settled(h)
      /\ run'[r].phase = "set command" /\ Left(r)' = Left(r) /\ Current(r)' = current
      /\ LeftInv(r)' /\ OwnInv(r)'
  BY <1>0, <1>1, <1>2, <1>3, <1>4, WriteAdvances
<1>6. CoveredInv(current)'
  <2>1. Mending(r, current)'
    BY <1>0, <1>2, <1>5 DEF Mending, Active, Phases, RestPhases
  <2>. QED BY <2>1, <1>5 DEF CoveredInv
<1>7. EventsInv(current)'
  <2>1. r \in Adding(current)
    BY <1>0, <1>1 DEF Adding
  <2>2. config'[current].events \in Nat /\ config'[current].events <= config[current].events
    <3>1. config'[current].events = config[current].events /\ config'[current].events \in Nat
      BY <1>2, <1>5
    <3>. QED BY <3>1
  <2>. QED BY <1>4, <1>5, <2>1, <2>2, AddingKept, PresentKept, EventsKept
<1>8. \A h \in Hooks : h # current => CoveredInv(h)' /\ EventsInv(h)'
  BY <1>0, <1>1, <1>3, <1>4, <1>5, OtherHooksKeep
<1>. QED BY <1>5, <1>6, <1>7, <1>8, RunKeeps

(* The command is set second: only the event is lacking.                   *)
LEMMA SetCommandKeeps ==
    ASSUME HookInv, NEW r \in Runs, SetCommand(r)
    PROVE  HookInv'
<1>0. PICK current \in Hooks : current = Current(r)
  BY InHand DEF SetCommand, Active, Phases, RestPhases
<1>1. /\ run[r].phase = "set command" /\ run[r].phase \in Writing /\ run[r].phase \in Active
      /\ Section(r) \in Sections /\ Section(r) = config[current] /\ TypeOK
      /\ Path(r) \in Paths
      /\ current \notin overtaken[r] => Path(r) = files[current]
  BY <1>0, InHand DEF SetCommand, Writing, Active, Phases, RestPhases, HookInv
<1> PICK old \in Sections, path \in Paths : old = Section(r) /\ path = Path(r)
  BY <1>1
<1> DEFINE section == [old EXCEPT !.command = path]
<1>2. /\ section \in Sections /\ section.marker = config[current].marker
      /\ section.command = path /\ section.events \in Nat
      /\ section.events = config[current].events
  BY <1>1 DEF Sections
<1>3. "append" \in Writing /\ ~Foreign(section)
  BY <1>2, HookAssumption DEF Writing, Foreign
<1>4. /\ Configure(r, section) /\ Advance(r, "append")
      /\ UNCHANGED <<files, overtaken, blind>> /\ UNCHANGED kept
      /\ budget' \in [Disturbances -> Nat] /\ kept' \subseteq Hooks
  BY <1>1 DEF SetCommand, history, TypeOK
<1> HIDE DEF section
<1>5. /\ Frame(r) /\ config'[current] = section /\ current \in Hooks
      /\ \A h \in Hooks : h # current => config'[h] = config[h] /\ NoWorse(h)
      /\ \A h \in Hooks : Settled(h)' => Settled(h)
      /\ run'[r].phase = "append" /\ Left(r)' = Left(r) /\ Current(r)' = current
      /\ LeftInv(r)' /\ OwnInv(r)'
  BY <1>0, <1>1, <1>2, <1>3, <1>4, WriteAdvances
<1>6. CoveredInv(current)'
  <2>1. Settled(current) => section.command = files[current]
    BY <1>1, <1>2 DEF Settled, Present
  <2>2. Settled(current) => NoWorse(current)
    BY <1>2, <1>5, <2>1 DEF NoWorse
  <2>3. ~Due(r, current)
    BY <1>0, <1>1 DEF Due, Active, Phases, RestPhases
  <2>4. (Settled(current) /\ Mending(r, current)) => Mending(r, current)'
    <3>1. files' = files
      BY <1>5 DEF Frame
    <3>. QED BY <1>0, <1>1, <1>2, <1>5, <2>1, <3>1 DEF Mending, Active, Phases, RestPhases
  <2>. QED BY <1>5, <2>2, <2>3, <2>4, CoverKept
<1>7. EventsInv(current)'
  <2>1. r \in Adding(current)
    BY <1>0, <1>1 DEF Adding
  <2>2. config'[current].events \in Nat /\ config'[current].events <= config[current].events
    <3>1. config'[current].events = config[current].events /\ config'[current].events \in Nat
      BY <1>2, <1>5
    <3>. QED BY <3>1
  <2>. QED BY <1>4, <1>5, <2>1, <2>2, AddingKept, PresentKept, EventsKept
<1>8. \A h \in Hooks : h # current => CoveredInv(h)' /\ EventsInv(h)'
  BY <1>0, <1>1, <1>3, <1>4, <1>5, OtherHooksKeep
<1>. QED BY <1>5, <1>6, <1>7, <1>8, RunKeeps

(* The last step of a hook leaves it complete if the run had put back all  *)
(* of it; what the run adds to the events it no longer is to add.          *)
LEMMA AppendEventKeeps ==
    ASSUME HookInv, NEW r \in Runs, AppendEvent(r)
    PROVE  HookInv'
<1>0. PICK current \in Hooks : current = Current(r)
  BY InHand DEF AppendEvent, Active, Phases, RestPhases
<1>1. /\ run[r].phase = "append" /\ run[r].phase \in Writing /\ run[r].phase \in Active
      /\ Section(r) \in Sections /\ Section(r) = config[current] /\ current \in Left(r)
      /\ TypeOK /\ LeftInv(r)
  BY <1>0, InHand DEF AppendEvent, Writing, Active, Phases, RestPhases, HookInv
<1> PICK old \in Sections : old = Section(r)
  BY <1>1
<1> DEFINE section == [old EXCEPT !.events = @ + 1]
<1>2. /\ section \in Sections /\ section.marker = config[current].marker
      /\ section.command = config[current].command
      /\ section.events = config[current].events + 1 /\ config[current].events \in Nat
  BY <1>1 DEF Sections
<1>3. Foreign(section) => Foreign(Section(r))
  BY <1>1, <1>2 DEF Foreign
<1>4. /\ Configure(r, section) /\ UNCHANGED <<files, overtaken, blind>> /\ UNCHANGED kept
      /\ budget' \in [Disturbances -> Nat] /\ kept' \subseteq Hooks
  BY <1>1 DEF AppendEvent, history, TypeOK
<1> HIDE DEF section
<1> DEFINE left == [run[r].todo EXCEPT ![current] = "none"]
           next == IF left = NoHooks THEN AtRest("installed")
                   ELSE [phase |-> "marker", todo |-> left, marker |-> "none"]
<1>5. run' = [run EXCEPT ![r] = next]
  BY <1>0 DEF AppendEvent
<1>6. /\ left \in [Hooks -> Paths \cup {"none"}] /\ left[current] = "none"
      /\ \A h \in Hooks : h # current => left[h] = run[r].todo[h]
  BY <1>1 DEF TypeOK, Run
<1> HIDE DEF left
<1>7. /\ next \in Run /\ next.phase \in {"installed", "marker"}
      /\ \A h \in Hooks : next.todo[h] = left[h]
      /\ next.phase = "installed" => \A h \in Hooks : left[h] = "none"
      /\ next.phase = "marker" => \E h \in Hooks : left[h] # "none"
  <2>1. CASE left = NoHooks
    <3>1. next = AtRest("installed") /\ "installed" \in RestPhases
      BY <2>1 DEF RestPhases
    <3>2. \A h \in Hooks : left[h] = "none"
      BY <2>1 DEF NoHooks
    <3>. QED BY <3>1, <3>2, RestForm
  <2>2. CASE left # NoHooks
    <3>1. next = [phase |-> "marker", todo |-> left, marker |-> "none"]
      BY <2>2
    <3>2. \E h \in Hooks : left[h] # "none"
      BY <1>6, <2>2 DEF NoHooks
    <3>3. next.phase = "marker" /\ next.todo = left /\ next.marker = "none"
      BY <3>1
    <3>4. next \in Run
      <4> HIDE DEF next
      <4>1. left \in [Hooks -> Paths \cup {"none"}]
        BY <1>6
      <4>. QED BY <4>1, <3>1 DEF Run, Phases
    <3>. QED BY <3>2, <3>3, <3>4
  <2>. QED BY <2>1, <2>2
<1> HIDE DEF next
<1>8. /\ run' \in [Runs -> Run] /\ run'[r] = next /\ \A q \in Runs \ {r} : run'[q] = run[q]
      /\ run'[r].phase # "absent"
  BY <1>1, <1>5, <1>7 DEF TypeOK
<1>9. /\ Frame(r) /\ config'[current] = section
      /\ \A h \in Hooks : h # current => config'[h] = config[h] /\ NoWorse(h)
      /\ \A h \in Hooks : Settled(h)' => Settled(h)
  BY <1>0, <1>1, <1>2, <1>3, <1>4, <1>8, WriteForm
<1>10. Left(r)' = {h \in Hooks : left[h] # "none"}
  BY <1>7, <1>8 DEF Left
<1>11. LeftInv(r)'
  <2>1. \A h \in Left(r)' \ overtaken'[r] : run'[r].todo[h] = files'[h]
    BY <1>1, <1>4, <1>6, <1>7, <1>8, <1>10 DEF LeftInv, Left
  <2>2. run'[r].phase \in Active => Left(r)' # {}
    BY <1>7, <1>8, <1>10 DEF Active, RestPhases
  <2>. QED BY <2>1, <2>2 DEF LeftInv
<1>12. OwnInv(r)'
  BY <1>7, <1>8 DEF OwnInv, Writing
<1>13. \A h \in Hooks : r \notin Adding(h)'
  BY <1>7, <1>8 DEF Adding
<1>14. CoveredInv(current)'
  <2>0. section.events > 0
    BY <1>2
  <2>1. NoWorse(current)
    BY <1>2, <1>9, <2>0 DEF NoWorse
  <2>2. ~Due(r, current)
    BY <1>0, <1>1 DEF Due, Active, Phases, RestPhases
  <2>3. Mending(r, current) => Complete(current)'
    BY <1>1, <1>2, <1>9, <2>0 DEF Mending, Complete, Frame
  <2>. QED BY <1>9, <2>1, <2>2, <2>3, CoverKept
<1>15. EventsInv(current)'
  <2> SUFFICES ASSUME current \notin kept'
               PROVE  config'[current].events + Cardinality(Adding(current)') <= Cardinality(Present')
    BY DEF EventsInv
  <2>1. PICK A \in SUBSET Runs : A = Adding(current)
    BY DEF Adding
  <2>2. PICK B \in SUBSET Runs : B = Adding(current)'
    BY DEF Adding
  <2>3. PICK P \in SUBSET Runs : P = Present /\ P = Present'
    BY <1>9, PresentKept DEF Present
  <2>4. r \in A /\ r \notin B /\ B \subseteq A
    BY <1>0, <1>1, <1>9, <1>13, <2>1, <2>2, AddingKept DEF Adding
  <2>5. IsFiniteSet(A) /\ IsFiniteSet(A \ {r}) /\ IsFiniteSet(P)
    BY HookAssumption, FS_Subset
  <2>6. /\ Cardinality(A) \in Nat /\ Cardinality(A \ {r}) = Cardinality(A) - 1
        /\ Cardinality(B) <= Cardinality(A \ {r}) /\ Cardinality(B) \in Nat
        /\ Cardinality(A \ {r}) \in Nat /\ Cardinality(P) \in Nat
    BY <2>4, <2>5, FS_RemoveElement, FS_Subset, FS_CardinalityType
  <2> DEFINE before == config[current].events
             after == config'[current].events
  <2>7. before \in Nat /\ after = before + 1
    BY <1>2, <1>9
  <2>8. before + Cardinality(A) <= Cardinality(P)
    BY <1>4, <2>1, <2>3 DEF HookInv, EventsInv
  <2> HIDE DEF before, after
  <2>9. after + Cardinality(B) <= Cardinality(P)
    BY <2>6, <2>7, <2>8
  <2>. QED BY <2>2, <2>3, <2>9 DEF after
<1>16. ASSUME NEW h \in Hooks, h # current
       PROVE  CoveredInv(h)' /\ EventsInv(h)'
  <2>1. Due(r, h) => Due(r, h)'
    BY <1>1, <1>6, <1>7, <1>8, <1>10, <1>16 DEF Due, Active, Phases, RestPhases, Left
  <2>2. ~Mending(r, h)
    BY <1>0, <1>16 DEF Mending
  <2>3. CoveredInv(h)'
    BY <1>9, <1>16, <2>1, <2>2, CoverKept
  <2>4. config'[h].events \in Nat /\ config'[h].events <= config[h].events
    BY <1>1, <1>9, <1>16 DEF TypeOK, Sections
  <2>. QED BY <1>4, <1>9, <1>13, <2>3, <2>4, AddingKept, PresentKept, EventsKept
<1>. QED BY <1>9, <1>11, <1>12, <1>14, <1>15, <1>16, RunKeeps

-----------------------------------------------------------------------------
(* Users and checkouts.                                                    *)

(* An edit overtakes all runs: it leaves nothing to be shown of its hook,  *)
(* and the others as they were.                                            *)
LEMMA EditKeeps ==
    ASSUME HookInv, NEW h \in Hooks, Edit(h),
           files' \in [Hooks -> Paths \cup {"none"}], config' \in [Hooks -> Sections],
           kept' \subseteq Hooks,
           \A g \in Hooks \ {h} : files'[g] = files[g] /\ config'[g] = config[g],
           \A g \in Hooks : g \notin kept' => g \notin kept /\ config'[g].events <= config[g].events
    PROVE  HookInv'
<1>1. /\ TypeOK /\ run' = run /\ blind' = blind
      /\ overtaken' = [r \in Runs |-> overtaken[r] \cup {h}]
      /\ Spend(IF Resting THEN "edit" ELSE "meddle")
  BY DEF HookInv, Edit
<1>2. /\ overtaken' \in [Runs -> SUBSET Hooks]
      /\ \A r \in Runs : overtaken'[r] = overtaken[r] \cup {h}
  BY <1>1 DEF TypeOK
<1>3. TypeOK'
  <2>1. budget' \in [Disturbances -> Nat]
    BY <1>1, SpendForm
  <2>. QED BY <1>1, <1>2, <2>1 DEF TypeOK
<1>4. Present' = Present /\ Present # {} /\ Present \subseteq Runs
  BY <1>1 DEF Present, HookInv
<1>5. \A r \in Runs : Left(r)' = Left(r) /\ Current(r)' = Current(r)
  BY <1>1, SameHand
<1>6. ASSUME NEW r \in Runs
      PROVE  LeftInv(r)' /\ OwnInv(r)'
  <2>1. LeftInv(r) /\ OwnInv(r) /\ Left(r)' = Left(r) /\ Current(r)' = Current(r)
    BY <1>5 DEF HookInv
  <2>2. LeftInv(r)'
    BY <1>1, <1>2, <2>1 DEF LeftInv, Left
  <2>3. OwnInv(r)'
    <3>1. CASE Current(r) = h
      BY <1>2, <2>1, <3>1 DEF OwnInv
    <3>2. CASE run[r].phase \notin Active
      BY <1>1, <3>2 DEF OwnInv, Active, Phases, RestPhases, Writing
    <3>3. CASE run[r].phase \in Active /\ Current(r) # h
      <4>1. Section(r)' = Section(r)
        BY <2>1, <3>3, InHand DEF Section
      <4>. QED BY <1>1, <1>2, <2>1, <4>1 DEF OwnInv
    <3>. QED BY <3>1, <3>2, <3>3
  <2>. QED BY <2>2, <2>3
<1>7. ASSUME NEW g \in Hooks
      PROVE  CoveredInv(g)'
  <2>1. CASE g = h
    BY <1>2, <1>4, <2>1 DEF CoveredInv, Settled
  <2>2. CASE g # h
    <3>1. Settled(g)' => Settled(g)
      BY <1>2, <1>4, <2>2 DEF Settled
    <3>2. \A r \in Runs : (Due(r, g)' <=> Due(r, g)) /\ (Mending(r, g)' <=> Mending(r, g))
      BY <1>1, <1>5, <2>2 DEF Due, Mending
    <3>3. CoveredInv(g)
      BY DEF HookInv
    <3>. QED BY <2>2, <3>1, <3>2, <3>3 DEF CoveredInv, Complete
  <2>. QED BY <2>1, <2>2
<1>8. ASSUME NEW g \in Hooks
      PROVE  EventsInv(g)'
  <2>1. Adding(g)' \subseteq Adding(g)
    BY <1>1, <1>5 DEF Adding
  <2>2. CASE g \in kept'
    BY <2>2 DEF EventsInv
  <2>3. CASE g \notin kept'
    <3>1. config'[g].events \in Nat
      BY DEF Sections
    <3>. QED BY <1>4, <2>1, <2>3, <3>1, EventsKept
  <2>. QED BY <2>2, <2>3
<1>. QED BY <1>3, <1>4, <1>6, <1>7, <1>8 DEF HookInv

(* Users and checkouts change sections and files at any time.              *)
LEMMA UsersKeep ==
    ASSUME HookInv, NEW h \in Hooks, UserWrites(h) \/ UserRemoves(h) \/ Checkout(h)
    PROVE  HookInv'
<1>0. TypeOK
  BY DEF HookInv
<1>1. \A g \in Hooks : config[g].events \in Nat /\ config[g].events <= config[g].events
  BY <1>0 DEF TypeOK, Sections
<1>2. CASE UserWrites(h)
  <2>1. PICK marker \in {config[h].marker, "other"}, command \in {config[h].command, "foreign"},
             added \in 0 .. 1 :
          config' = [config EXCEPT ![h] =
            [marker |-> marker, command |-> command, events |-> @.events + added]]
    BY <1>2 DEF UserWrites
  <2>2. PICK events \in Nat : events = config[h].events + added
    BY <1>1
  <2> DEFINE section == [marker |-> marker, command |-> command, events |-> events]
  <2>3. section \in Sections
    BY <1>0 DEF TypeOK, Sections
  <2>4. config' = [config EXCEPT ![h] = section]
    BY <2>1, <2>2
  <2> HIDE DEF section
  <2>5. config' \in [Hooks -> Sections] /\ \A g \in Hooks \ {h} : config'[g] = config[g]
    BY <1>0, <2>3, <2>4 DEF TypeOK
  <2>6. Edit(h) /\ files' = files /\ kept' = kept \cup {h}
    BY <1>2 DEF UserWrites
  <2>7. \A g \in Hooks : g \notin kept' => g \notin kept /\ config'[g].events <= config[g].events
    BY <1>1, <2>5, <2>6
  <2>. QED BY <1>0, <2>5, <2>6, <2>7, EditKeeps DEF TypeOK
<1>3. CASE UserRemoves(h)
  <2>1. NoSection \in Sections /\ NoSection.events = 0
    BY DEF Sections, NoSection
  <2>2. /\ config' \in [Hooks -> Sections] /\ config'[h] = NoSection
        /\ \A g \in Hooks \ {h} : config'[g] = config[g]
    BY <1>0, <1>3, <2>1 DEF TypeOK, UserRemoves
  <2>3. \A g \in Hooks : config'[g].events <= config[g].events
    BY <1>1, <2>1, <2>2
  <2>4. Edit(h) /\ files' = files /\ kept' = kept
    BY <1>3 DEF UserRemoves
  <2>. QED BY <1>0, <2>2, <2>3, <2>4, EditKeeps DEF TypeOK
<1>4. CASE Checkout(h)
  <2>1. PICK path \in (Paths \cup {"none"}) \ {files[h]} : files' = [files EXCEPT ![h] = path]
    BY <1>4 DEF Checkout
  <2>2. /\ files' \in [Hooks -> Paths \cup {"none"}]
        /\ \A g \in Hooks \ {h} : files'[g] = files[g]
    BY <1>0, <2>1 DEF TypeOK
  <2>3. Edit(h) /\ config' = config /\ kept' = kept
    BY <1>4 DEF Checkout
  <2>. QED BY <1>0, <1>1, <2>2, <2>3, EditKeeps DEF TypeOK
<1>. QED BY <1>2, <1>3, <1>4

-----------------------------------------------------------------------------
(* The invariant.                                                          *)

(* At first all runs are to be run, or do not take place.                  *)
LEMMA InitInv == Init => HookInv
<1> SUFFICES ASSUME Init
             PROVE  HookInv
  OBVIOUS
<1>1. \A r \in Runs : /\ run[r] \in Run /\ run[r].phase \in {"absent", "idle"}
                      /\ \A h \in Hooks : run[r].todo[h] = "none"
  <2> SUFFICES ASSUME NEW r \in Runs
               PROVE  /\ run[r] \in Run /\ run[r].phase \in {"absent", "idle"}
                      /\ \A h \in Hooks : run[r].todo[h] = "none"
    OBVIOUS
  <2>1. PICK p \in {"absent", "idle"} : run[r] = AtRest(p)
    BY DEF Init
  <2>2. p \in RestPhases
    BY DEF RestPhases
  <2>. QED BY <2>1, <2>2, RestForm
<1>2. NoSection \in Sections /\ NoSection.events = 0
  BY DEF NoSection, Sections
<1>3. /\ budget \in [Disturbances -> Nat]
      /\ overtaken \in [Runs -> SUBSET Hooks] /\ blind \subseteq Runs /\ kept \subseteq Hooks
  BY HookAssumption DEF Init
<1>4. TypeOK
  <2>1. files \in [Hooks -> Paths \cup {"none"}] /\ config \in [Hooks -> Sections]
    BY <1>2 DEF Init
  <2>2. run \in [Runs -> Run]
    <3>1. run = [r \in Runs |-> run[r]]
      BY DEF Init
    <3>. QED BY <1>1, <3>1
  <2>. QED BY <1>3, <2>1, <2>2 DEF TypeOK
<1>5. PICK r \in Runs : run[r].phase = "idle"
  <2>1. PICK plan \in Plans :
          run = [r \in Runs |-> AtRest(IF r \in plan.runs THEN "idle" ELSE "absent")]
    BY DEF Init
  <2>2. PICK r \in plan.runs : r \in Runs
    BY <2>1, HookAssumption
  <2>. QED BY <2>1, <2>2 DEF AtRest
<1>6. ASSUME NEW q \in Runs
      PROVE  LeftInv(q) /\ OwnInv(q)
  <2>1. Left(q) = {}
    BY <1>1 DEF Left
  <2>. QED BY <1>1, <2>1 DEF LeftInv, OwnInv, Active, RestPhases, Writing
<1>7. ASSUME NEW h \in Hooks
      PROVE  CoveredInv(h) /\ EventsInv(h)
  <2>1. CoveredInv(h)
    BY <1>5 DEF CoveredInv, Due
  <2>2. Adding(h) = {} /\ config[h].events = 0
    BY <1>1, <1>2 DEF Adding, Init
  <2>3. PICK P \in SUBSET Runs : P = Present
    BY DEF Present
  <2>4. Cardinality(P) \in Nat /\ Cardinality({}) = 0
    BY HookAssumption, FS_Subset, FS_CardinalityType, FS_EmptySet
  <2>. QED BY <2>1, <2>2, <2>3, <2>4 DEF EventsInv
<1>8. Present # {}
  BY <1>5 DEF Present
<1>. QED BY <1>4, <1>6, <1>7, <1>8 DEF HookInv

(* Every step keeps the invariant.                                         *)
LEMMA StepInv ==
    ASSUME HookInv, [Next]_vars
    PROVE  HookInv'
<1>1. ASSUME NEW h \in Hooks, UserWrites(h) \/ UserRemoves(h) \/ Checkout(h)
      PROVE  HookInv'
  BY <1>1, UsersKeep
<1>2. ASSUME NEW r \in Runs, Start(r) \/ Step(r) \/ Crash(r)
      PROVE  HookInv'
  <2>1. CASE Start(r)
    BY <2>1, StartKeeps
  <2>2. CASE ReadMarker(r)
    BY <2>2, ReadMarkerKeeps
  <2>3. CASE ReadCommand(r)
    BY <2>3, ReadCommandKeeps
  <2>4. CASE RemoveSection(r)
    BY <2>4, RemoveSectionKeeps
  <2>5. CASE SetMarker(r)
    BY <2>5, SetMarkerKeeps
  <2>6. CASE SetCommand(r)
    BY <2>6, SetCommandKeeps
  <2>7. CASE AppendEvent(r)
    BY <2>7, AppendEventKeeps
  <2>8. CASE Crash(r)
    BY <2>8, CrashKeeps
  <2>. QED BY <1>2, <2>1, <2>2, <2>3, <2>4, <2>5, <2>6, <2>7, <2>8 DEF Step
<1>3. CASE UNCHANGED vars
  <2>1. /\ files' = files /\ config' = config /\ run' = run /\ budget' = budget
        /\ overtaken' = overtaken /\ blind' = blind /\ kept' = kept
    BY <1>3 DEF vars
  <2>2. \A r \in Runs : Left(r)' = Left(r) /\ Current(r)' = Current(r)
    BY <2>1, SameHand
  <2>3. \A r \in Runs : LeftInv(r)' /\ OwnInv(r)'
    BY <2>1, <2>2 DEF HookInv, LeftInv, OwnInv, Section
  <2>4. Present' = Present
    BY <2>1 DEF Present
  <2>5. ASSUME NEW h \in Hooks
        PROVE  CoveredInv(h)' /\ EventsInv(h)'
    <3>1. \A r \in Runs : (Due(r, h)' <=> Due(r, h)) /\ (Mending(r, h)' <=> Mending(r, h))
      BY <2>1, <2>2 DEF Due, Mending
    <3>2. Adding(h)' = Adding(h)
      BY <2>1, <2>2 DEF Adding
    <3>3. CoveredInv(h) /\ EventsInv(h)
      BY DEF HookInv
    <3>4. CoveredInv(h)'
      BY <2>1, <2>4, <3>1, <3>3 DEF CoveredInv, Complete, Settled
    <3>5. EventsInv(h)'
      BY <2>1, <2>4, <3>2, <3>3 DEF EventsInv
    <3>. QED BY <3>4, <3>5
  <2>6. TypeOK'
    BY <2>1 DEF HookInv, TypeOK
  <2>. QED BY <2>3, <2>4, <2>5, <2>6 DEF HookInv
<1>. QED BY <1>1, <1>2, <1>3 DEF Next

-----------------------------------------------------------------------------
(* Theorems.                                                               *)

(* What holds of every hook, run and section at any time: a hook that is   *)
(* not complete and that nobody has changed has a run that will see to it; *)
(* what a run is about to write is not somebody else's, unless it came too *)
(* late or could not be read; and since its section was last removed a     *)
(* hook is bound to its event no more often than there are runs.           *)
THEOREM HookInvariant == Spec => []HookInv
BY InitInv, StepInv, PTL DEF Spec

(* The sections, runs and files are what TypeOK says.                      *)
THEOREM TypeCorrect == Spec => []TypeOK
<1>1. HookInv => TypeOK
  BY DEF HookInv
<1>. QED BY <1>1, HookInvariant, PTL

(* Whatever ran before, was interrupted, overlapped, or failed unnoticed:  *)
(* when the last of the runs is through and all report success, every hook *)
(* that nobody has changed meanwhile is installed with the path of its     *)
(* file and bound to its event; and no more often than there are runs,     *)
(* once if there is one, unless the removal of its section failed.         *)
THEOREM Completed == Spec => []InstalledIsComplete
<1>1. HookInv => InstalledIsComplete
  <2> SUFFICES ASSUME HookInv, \A r \in Runs : run[r].phase \in {"absent", "installed"},
                      NEW h \in Hooks, Settled(h)
               PROVE  /\ config[h].marker = "postgresbuild" /\ config[h].command = files[h]
                      /\ config[h].events > 0
                      /\ h \notin kept => config[h].events <= Cardinality(Present)
    BY DEF InstalledIsComplete, Settled
  <2>1. Complete(h)
    BY DEF HookInv, CoveredInv, Due, Mending, Active, RestPhases
  <2>2. Cardinality(Adding(h)) = 0
    <3>1. Adding(h) = {}
      BY DEF Adding
    <3>. QED BY <3>1, FS_EmptySet
  <2>3. PICK events \in Nat : events = config[h].events
    BY DEF HookInv, TypeOK, Sections
  <2>4. h \notin kept => events + 0 <= Cardinality(Present)
    BY <2>2, <2>3 DEF HookInv, EventsInv
  <2>5. h \notin kept => events <= Cardinality(Present)
    BY <2>4
  <2>. QED BY <2>1, <2>3, <2>5 DEF Complete
<1>. QED BY <1>1, HookInvariant, PTL

(* A run goes on to a hook that somebody else has written only if it was   *)
(* written after the run had begun to read it, or if its command could not *)
(* be read, whatever the other runs do between its two reads and the       *)
(* removal.                                                                *)
THEOREM ForeignKept == Spec => []ForeignHookIsKept
<1>1. HookInv => ForeignHookIsKept
  BY DEF HookInv, OwnInv, Writing, ForeignHookIsKept
<1>. QED BY <1>1, HookInvariant, PTL

=============================================================================
