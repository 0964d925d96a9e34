------------------------------ MODULE HookSync ------------------------------
(***************************************************************************)
(* The synchronisation of the repository's hooks with the configuration of *)
(* git (scripts/sync-githooks.py).                                         *)
(*                                                                         *)
(* Each `git config' is a process and a step of its own.  Between any two  *)
(* of them a run may be interrupted, users and checkouts may change the    *)
(* same sections and files, and another run may go on in another checkout. *)
(* git takes config.lock without waiting: a command that finds it taken    *)
(* fails, and what that means depends on whether the script checks it.     *)
(***************************************************************************)
EXTENDS Naturals, FiniteSetsExt

CONSTANTS
    Hooks,      \* the hooks, numbered in the order of their files
    Paths,      \* paths a hook may be found at
    Runs,       \* runs of the script
    Plans       \* the runs that take place and bounds of what disturbs them

(* What users and checkouts change between runs, and while a run goes on;  *)
(* interruptions; commands that fail unnoticed.                            *)
Disturbances == {"edit", "meddle", "crash", "failure"}

ASSUME HookAssumption ==
    /\ Hooks \subseteq Nat
    /\ Paths \cap {"none", "foreign"} = {}
    /\ IsFiniteSet(Runs)
    /\ Plans \subseteq [runs : (SUBSET Runs) \ {{}}, budget : [Disturbances -> Nat]]

VARIABLES
    files,   \* path of each hook in scripts/githooks, or "none"
    config,  \* section hook.<event>-<name> of each hook
    run,     \* each run of the script
    budget,
    overtaken, \* history: the hooks that changed since a run took note of them
    blind,     \* history: the runs that could not read the command in hand
    kept       \* history: the hooks with events from before the last removal

vars == <<files, config, run, budget, overtaken, blind, kept>>
history == <<overtaken, blind, kept>>

(* managed-by, command and the number of events of a section.              *)
Sections == [marker : {"none", "postgresbuild", "other"},
             command : Paths \cup {"none", "foreign"}, events : Nat]
NoSection == [marker |-> "none", command |-> "none", events |-> 0]

Phases == {"absent", "idle", "marker", "command", "remove", "set marker", "set command", "append",
           "installed", "refused"}

(* todo: the paths that the hooks that are left were found at.             *)
Run == [phase : Phases, todo : [Hooks -> Paths \cup {"none"}],
        marker : {"none", "postgresbuild", "other"}]

TypeOK ==
    /\ files \in [Hooks -> Paths \cup {"none"}]
    /\ config \in [Hooks -> Sections]
    /\ run \in [Runs -> Run]
    /\ budget \in [Disturbances -> Nat]
    /\ overtaken \in [Runs -> SUBSET Hooks]
    /\ blind \subseteq Runs /\ kept \subseteq Hooks

NoHooks == [h \in Hooks |-> "none"]
AtRest(phase) == [phase |-> phase, todo |-> NoHooks, marker |-> "none"]

Init ==
    /\ files \in [Hooks -> Paths]
    /\ config = [h \in Hooks |-> NoSection]
    /\ \E plan \in Plans :
        /\ run = [r \in Runs |-> AtRest(IF r \in plan.runs THEN "idle" ELSE "absent")]
        /\ budget = plan.budget
    /\ overtaken = [r \in Runs |-> {}] /\ blind = {} /\ kept = {}

Spend(what) == budget[what] > 0 /\ budget' = [budget EXCEPT ![what] = @ - 1]

RestPhases == {"absent", "idle", "installed", "refused"}
Resting == \A r \in Runs : run[r].phase \in RestPhases

-----------------------------------------------------------------------------
(* Users and checkouts, at any time.                                       *)

Edit(h) ==
    /\ Spend(IF Resting THEN "edit" ELSE "meddle")
    /\ overtaken' = [r \in Runs |-> overtaken[r] \cup {h}]
    /\ UNCHANGED <<run, blind>>

(* One `git config', or an editor: keys of the section, in whatever state. *)
UserWrites(h) ==
    /\ Edit(h)
    /\ \E marker \in {config[h].marker, "other"}, command \in {config[h].command, "foreign"},
          added \in 0 .. 1 :
        /\ <<marker, command, added>> # <<config[h].marker, config[h].command, 0>>
        /\ config' = [config EXCEPT ![h] =
                [marker |-> marker, command |-> command, events |-> @.events + added]]
    /\ kept' = kept \cup {h}
    /\ UNCHANGED files

UserRemoves(h) ==
    /\ Edit(h)
    /\ config[h] # NoSection
    /\ config' = [config EXCEPT ![h] = NoSection]
    /\ UNCHANGED <<files, kept>>

(* A hook is added, renamed or removed in scripts/githooks.                *)
Checkout(h) ==
    /\ Edit(h)
    /\ \E path \in (Paths \cup {"none"}) \ {files[h]} : files' = [files EXCEPT ![h] = path]
    /\ UNCHANGED <<config, kept>>

-----------------------------------------------------------------------------
(* A run.                                                                  *)

Left(r) == {h \in Hooks : run[r].todo[h] # "none"}
Current(r) == Min(Left(r))
Path(r) == run[r].todo[Current(r)]
Section(r) == config[Current(r)]

Advance(r, phase) == run' = [run EXCEPT ![r].phase = phase]
Configure(r, section) == config' = [config EXCEPT ![Current(r)] = section]

(* discover_hooks, and on to the first of them.                            *)
Start(r) ==
    /\ run[r].phase \in {"idle", "installed", "refused"}
    /\ run' = [run EXCEPT ![r] =
            IF files = NoHooks THEN AtRest("installed")
            ELSE [phase |-> "marker", todo |-> files, marker |-> "none"]]
    /\ overtaken' = [overtaken EXCEPT ![r] = {}]
    /\ UNCHANGED <<files, config, budget, blind, kept>>

(* A read that fails is a key that is not there.                           *)
ReadMarker(r) ==
    /\ run[r].phase = "marker"
    /\ \E marker \in {"none", Section(r).marker} :
        /\ IF marker = Section(r).marker THEN UNCHANGED budget ELSE Spend("failure")
        /\ run' = [run EXCEPT ![r].phase = "command", ![r].marker = marker]
    /\ overtaken' = [overtaken EXCEPT ![r] =
            IF Path(r) = files[Current(r)] THEN @ \ {Current(r)} ELSE @]
    /\ UNCHANGED <<files, config, blind, kept>>

(* Mutant: a section without a marker is free to be taken.                 *)
RefusesMarked(marker, command, path) == marker = "other" /\ command # path

Refuses(marker, command, path) ==
    \/ marker = "other" /\ command # path
    \/ marker = "none" /\ command # "none"

(* The first refusal ends the run; the hooks before it stay installed.     *)
ReadCommand(r) ==
    /\ run[r].phase = "command"
    /\ \E command \in {"none", Section(r).command} :
        /\ run' = [run EXCEPT ![r] =
                IF Refuses(run[r].marker, command, Path(r)) THEN AtRest("refused")
                ELSE [run[r] EXCEPT !.phase = "remove", !.marker = "none"]]
        /\ IF command = Section(r).command THEN blind' = blind \ {r} /\ UNCHANGED budget
           ELSE blind' = blind \cup {r} /\ Spend("failure")
    /\ UNCHANGED <<files, config, overtaken, kept>>

(* Mutant: the old section stays and is added to.                          *)
RemoveNothing(r) ==
    /\ run[r].phase = "remove"
    /\ Advance(r, "set marker")
    /\ UNCHANGED <<files, config, budget, history>>

(* check=False: if the removal fails the section stays, and is added to.   *)
RemoveSection(r) ==
    /\ run[r].phase = "remove"
    /\ Advance(r, "set marker")
    /\ \/ /\ Configure(r, NoSection)
          /\ kept' = kept \ {Current(r)}
          /\ UNCHANGED budget
       \/ /\ Spend("failure")
          /\ kept' = kept \cup {Current(r)}
          /\ UNCHANGED config
    /\ UNCHANGED <<files, overtaken, blind>>

(* Mutant: the marker comes after the command.                             *)
SetMarkerLate(r) ==
    \/ /\ run[r].phase = "set marker" /\ Section(r).command # Path(r)
       /\ Configure(r, [Section(r) EXCEPT !.command = Path(r)])
       /\ UNCHANGED <<files, run, budget, history>>
    \/ /\ run[r].phase = "set marker" /\ Section(r).command = Path(r)
       /\ Configure(r, [Section(r) EXCEPT !.marker = "postgresbuild"])
       /\ Advance(r, "append")
       /\ UNCHANGED <<files, budget, history>>

SetMarker(r) ==
    /\ run[r].phase = "set marker"
    /\ Configure(r, [Section(r) EXCEPT !.marker = "postgresbuild"])
    /\ Advance(r, "set command")
    /\ UNCHANGED <<files, budget, history>>

SetCommand(r) ==
    /\ run[r].phase = "set command"
    /\ Configure(r, [Section(r) EXCEPT !.command = Path(r)])
    /\ Advance(r, "append")
    /\ UNCHANGED <<files, budget, history>>

(* The last step of a hook; the next one follows.                          *)
AppendEvent(r) ==
    /\ run[r].phase = "append"
    /\ Configure(r, [Section(r) EXCEPT !.events = @ + 1])
    /\ LET left == [run[r].todo EXCEPT ![Current(r)] = "none"]
       IN run' = [run EXCEPT ![r] =
            IF left = NoHooks THEN AtRest("installed")
            ELSE [phase |-> "marker", todo |-> left, marker |-> "none"]]
    /\ UNCHANGED <<files, budget, history>>

(* The run is interrupted, or one of the commands that are checked fails:  *)
(* those that set the marker and the command and append the event.         *)
Crash(r) ==
    /\ run[r].phase \notin RestPhases
    /\ Spend("crash")
    /\ run' = [run EXCEPT ![r] = AtRest("idle")]
    /\ UNCHANGED <<files, config, history>>

Step(r) == ReadMarker(r) \/ ReadCommand(r) \/ RemoveSection(r) \/ SetMarker(r)
            \/ SetCommand(r) \/ AppendEvent(r)

Next ==
    \/ \E h \in Hooks : UserWrites(h) \/ UserRemoves(h) \/ Checkout(h)
    \/ \E r \in Runs : Start(r) \/ Step(r) \/ Crash(r)

Spec == Init /\ [][Next]_vars

(* A run that was begun goes on, and the setup is run again.               *)
FairSpec == Spec /\ \A r \in Runs : WF_vars(Step(r)) /\ WF_vars(Start(r))

-----------------------------------------------------------------------------
(* Properties.                                                             *)

Foreign(section) == section.command = "foreign" /\ section.marker # "postgresbuild"

(* A run goes on to remove and rewrite a hook that somebody else has       *)
(* written only if it was written after the run had begun to read it, or   *)
(* if its command could not be read.  Neither what other runs do between   *)
(* the two reads and the removal nor a marker that could not be read lets  *)
(* it take one.                                                            *)
ForeignHookIsKept ==
    \A r \in Runs :
        (/\ run[r].phase \in {"remove", "set marker", "set command", "append"}
         /\ Foreign(Section(r)))
            => Current(r) \in overtaken[r] \/ r \in blind

Present == {r \in Runs : run[r].phase # "absent"}

(* When the last of the runs is through and all report success, every hook *)
(* that nobody has changed meanwhile is complete, also over what           *)
(* interrupted runs and removals that failed have left.  It is bound to    *)
(* its event: exactly once by a run that is alone, and at most once per    *)
(* run by runs that overlap, unless a removal failed.                      *)
InstalledIsComplete ==
    (\A r \in Runs : run[r].phase \in {"absent", "installed"}) =>
        \A h \in Hooks : (files[h] # "none" /\ \A r \in Present : h \notin overtaken[r]) =>
            /\ config[h].marker = "postgresbuild" /\ config[h].command = files[h]
            /\ config[h].events > 0
            /\ h \notin kept => config[h].events <= Cardinality(Present)

Alone == \E r \in Runs : \A q \in Runs \ {r} : run[q].phase = "absent"

(* Nobody changes a section or a file while a run goes on.                 *)
Undisturbed == \A r \in Runs : run[r].phase \notin RestPhases => overtaken[r] = {}

(* If a setup that is alone and undisturbed is run again it installs all   *)
(* hooks in the end, bound once, unless somebody else's section stops it:  *)
(* what an interrupted run or a removal that failed has left is taken      *)
(* over, never mistaken for somebody else's.                               *)
EventuallyInstalled ==
    (Alone /\ []Undisturbed) => <>[](Resting =>
        \/ \E h \in Hooks : Foreign(config[h]) \/ config[h].marker = "other"
        \/ \A h \in Hooks : files[h] # "none" =>
             config[h] = [marker |-> "postgresbuild", command |-> files[h], events |-> 1])

=============================================================================
