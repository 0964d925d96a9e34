-------------------------- MODULE MaintenanceBatch --------------------------
(***************************************************************************)
(* The discovery of upstream releases and the application of a batch of    *)
(* them to the working tree (src/postgresbuild/maintenance.py).            *)
(*                                                                         *)
(* Discovery looks at one package after the other and leaves a report;     *)
(* the batch is applied later, maybe to another revision, and looks at     *)
(* each selected package again.  Upstream goes on publishing and           *)
(* withdrawing between any two requests; the working tree only changes     *)
(* under the operator's hands while neither command runs.                  *)
(*                                                                         *)
(* A version is a number and its tens are its major version.               *)
(***************************************************************************)
EXTENDS Integers, FiniteSets

CONSTANTS
    Packages,
    Offers,     \* per package: what the upstream may offer, sets of versions
    First,      \* per package: the versions it declares at first
    Pins,       \* <<consumer, package>>: the consumer pins the exact version
    Selections, \* "all" candidates of a report are applied, or "some"
    MaxMoves,   \* bound of the changes upstream
    MaxEdits,   \* bound of the maintainers' edits
    MaxErrors   \* bound of the requests that fail

Major(v) == v \div 10

Versions == UNION UNION {Offers[p] : p \in Packages}

(* Discovery returns the latest release: of each major version for the     *)
(* server, of all for the packages it pins.                                *)
ASSUME BatchAssumption ==
    /\ Versions \subseteq Nat
    /\ First \in [Packages -> SUBSET Versions]
    /\ Pins \subseteq Packages \X Packages
    /\ \A p \in Packages :
        /\ First[p] \in Offers[p] /\ First[p] # {}
        /\ \A offer \in Offers[p] :
            /\ offer # {} => \E v \in offer : \A w \in offer : w <= v
            /\ \A v, w \in offer : Major(v) = Major(w) => v = w
            /\ (\E pin \in Pins : pin[2] = p) => \A v, w \in offer : v = w
    /\ Selections \subseteq {"all", "some"}
    /\ {MaxMoves, MaxEdits, MaxErrors} \subseteq Nat

VARIABLES
    upstream, \* per package: the versions its discovery returns
    tree,     \* the working tree
    report,   \* candidates.json
    process,  \* the command that runs, if one does
    texts,    \* of the recipes for which it has staged an edit
    budget

vars == <<upstream, tree, report, process, texts, budget>>

(* declared: the releases of each recipe; pin: the exact pins in each      *)
(* consumer's recipe; bound: the versions all ranges on a package allow;   *)
(* fixture: the version the tests expect of a package.                     *)
Trees == [declared : [Packages -> SUBSET Versions], pin : [Pins -> Versions],
          bound : [Packages -> SUBSET Versions], fixture : [Packages -> Versions]]

Candidate == [package : Packages, previous : SUBSET Versions, current : SUBSET Versions]

(* doing: the command and the loop it is in; todo: the packages that loop  *)
(* has left.                                                               *)
Process == [doing : {"nothing", "discover", "revalidate", "declare", "pin"},
            todo : SUBSET Packages, candidates : SUBSET Candidate, failed : BOOLEAN]

Idle == [doing |-> "nothing", todo |-> {}, candidates |-> {}, failed |-> FALSE]

Pinned(p) == {q \in Packages : <<p, q>> \in Pins}

(* The text of a recipe: what it declares and the pins it states.          *)
Text(p) == [declared : SUBSET Versions, pin : [Pinned(p) -> Versions]]

NoTexts == [p \in {} |-> First]

TypeOK ==
    /\ upstream \in [Packages -> SUBSET Versions]
    /\ tree \in Trees
    /\ report \in [success : BOOLEAN, candidates : SUBSET Candidate]
    /\ process \in Process
    /\ DOMAIN texts \subseteq Packages
    /\ \A p \in DOMAIN texts : texts[p] \in Text(p)
    /\ budget \in [{"move", "edit", "error"} -> Nat]

Greatest(S) == CHOOSE v \in S : \A w \in S : w <= v

Init ==
    /\ upstream = First
    /\ tree = [declared |-> First,
               pin |-> [pin \in Pins |-> Greatest(First[pin[2]])],
               bound |-> [p \in Packages |-> Versions],
               fixture |-> [p \in Packages |-> Greatest(First[p])]]
    /\ report = [success |-> FALSE, candidates |-> {}]
    /\ process = Idle /\ texts = NoTexts
    /\ budget = [move |-> MaxMoves, edit |-> MaxEdits, error |-> MaxErrors]

Spend(what) == budget[what] > 0 /\ budget' = [budget EXCEPT ![what] = @ - 1]

-----------------------------------------------------------------------------
(* The batch as operators.                                                 *)

(* Mutant: each version is compared with the greatest declared one.        *)
CompatibleWithGreatest(p, desired) ==
    /\ desired # {}
    /\ \A v \in desired :
        /\ \E w \in tree.declared[p] : Major(w) = Major(v)
        /\ v >= Greatest(tree.declared[p])
    /\ desired \subseteq tree.bound[p]

(* Mutant: a downgrade is an update like any other.                        *)
CompatibleDowngrade(p, desired) ==
    /\ desired # {}
    /\ \A v \in desired : \E w \in tree.declared[p] : Major(w) = Major(v)
    /\ desired \subseteq tree.bound[p]

(* compatibility: no new major, no downgrade within a major, and inside    *)
(* the ranges that the recipe and its consumers state.                     *)
Compatible(p, desired) ==
    /\ desired # {}
    /\ \A v \in desired :
        LET bases == {w \in tree.declared[p] : Major(w) = Major(v)}
        IN bases # {} /\ \E w \in bases : w <= v
    /\ desired \subseteq tree.bound[p]

(* Mutant: only the upstream is compared with the report.                  *)
ApplicableIfCurrent(c) ==
    c.current = upstream[c.package] /\ Compatible(c.package, c.current)

(* What apply_batch demands of each candidate before it stages any.        *)
Applicable(c) ==
    /\ c.previous = tree.declared[c.package]
    /\ c.current = upstream[c.package]
    /\ Compatible(c.package, c.current)

(* Pairs of an old version and the one that replaces it in the fixtures.   *)
Substitutions(c) ==
    {<<v, Greatest({w \in c.current : Major(w) = Major(v)})>> :
        v \in {v \in c.previous \ c.current : \E w \in c.current : Major(w) = Major(v)}}

Replacements(batch) == UNION {Substitutions(c) : c \in batch}

(* Mutant: a later replacement silently overrides an earlier one.          *)
ConflictingNever(batch) == FALSE

Conflicting(batch) ==
    \E r, q \in Replacements(batch) : r[1] = q[1] /\ r[2] # q[2]

(* All replacements at once, so that none is replaced again.               *)
Rewrite(v, batch) ==
    IF \E r \in Replacements(batch) : r[1] = v
    THEN (CHOOSE r \in Replacements(batch) : r[1] = v)[2] ELSE v

OnDisk(p) == [declared |-> tree.declared[p],
              pin |-> [q \in Pinned(p) |-> tree.pin[<<p, q>>]]]

(* What the next edit of a recipe begins with.                             *)
TextOf(p) == IF p \in DOMAIN texts THEN texts[p] ELSE OnDisk(p)

(* rewrite_declarations.                                                   *)
Declared(c) ==
    [p \in DOMAIN texts \cup {c.package} |->
        IF p = c.package THEN [TextOf(p) EXCEPT !.declared = c.current] ELSE texts[p]]

(* Mutant: the pin is edited in the text on disk, not in the staged one.   *)
SyncedFromDisk(c) ==
    LET consumers == {p \in Packages : c.package \in Pinned(p)
                                      /\ OnDisk(p).pin[c.package] \in c.previous}
    IN [p \in DOMAIN texts \cup consumers |->
            IF p \in consumers
            THEN [OnDisk(p) EXCEPT !.pin[c.package] = Greatest(c.current)] ELSE texts[p]]

(* sync_pins, over the recipes of all consumers.  The ranges are preserved.*)
Synced(c) ==
    LET consumers == {p \in Packages : c.package \in Pinned(p)
                                      /\ TextOf(p).pin[c.package] \in c.previous}
    IN [p \in DOMAIN texts \cup consumers |->
            IF p \in consumers
            THEN [TextOf(p) EXCEPT !.pin[c.package] = Greatest(c.current)] ELSE texts[p]]

(* The tree with the staged texts and with the fixtures rewritten.         *)
Written(batch) ==
    [tree EXCEPT
        !.declared = [p \in Packages |-> TextOf(p).declared],
        !.pin = [pin \in Pins |-> TextOf(pin[1]).pin[pin[2]]],
        !.fixture = [p \in Packages |-> Rewrite(@[p], batch)]]

-----------------------------------------------------------------------------
(* Upstream and the maintainers.                                           *)

UpstreamMoves(p) ==
    /\ Spend("move")
    /\ \E offer \in Offers[p] \ {upstream[p]} : upstream' = [upstream EXCEPT ![p] = offer]
    /\ UNCHANGED <<tree, report, process, texts>>

(* The checkout moves to a revision where a package has been updated by    *)
(* other means, completely.                                                *)
MaintainerUpdates(p) ==
    /\ process.doing = "nothing" /\ Spend("edit")
    /\ upstream[p] # tree.declared[p] /\ Compatible(p, upstream[p])
    /\ tree' = [tree EXCEPT
            !.declared[p] = upstream[p],
            !.pin = [pin \in Pins |-> IF pin[2] = p THEN Greatest(upstream[p]) ELSE @[pin]],
            !.fixture[p] = Greatest(upstream[p])]
    /\ UNCHANGED <<upstream, report, process, texts>>

(* ... or where a range has been narrowed to what is declared.             *)
MaintainerNarrows(p) ==
    /\ process.doing = "nothing" /\ Spend("edit")
    /\ tree.bound[p] # tree.declared[p]
    /\ tree' = [tree EXCEPT !.bound[p] = tree.declared[p]]
    /\ UNCHANGED <<upstream, report, process, texts>>

-----------------------------------------------------------------------------
(* discover.                                                               *)

StartDiscover ==
    /\ process.doing = "nothing"
    /\ process' = [Idle EXCEPT !.doing = "discover", !.todo = Packages]
    /\ UNCHANGED <<upstream, tree, report, texts, budget>>

(* What is declared already is no candidate, and what is blocked is only   *)
(* reported.                                                               *)
Look(p) ==
    /\ process.doing = "discover" /\ p \in process.todo
    /\ LET c == [package |-> p, previous |-> tree.declared[p], current |-> upstream[p]]
       IN process' = [process EXCEPT
                !.todo = @ \ {p},
                !.candidates = IF c.previous # c.current /\ Compatible(p, c.current)
                               THEN @ \cup {c} ELSE @]
    /\ UNCHANGED <<upstream, tree, report, texts, budget>>

LookFails(p) ==
    /\ process.doing = "discover" /\ p \in process.todo
    /\ Spend("error")
    /\ process' = [process EXCEPT !.todo = @ \ {p}, !.failed = TRUE]
    /\ UNCHANGED <<upstream, tree, report, texts>>

(* A failure fails the report as a whole.                                  *)
WriteReport ==
    /\ process.doing = "discover" /\ process.todo = {}
    /\ report' = [success |-> ~process.failed, candidates |-> process.candidates]
    /\ process' = Idle
    /\ UNCHANGED <<upstream, tree, texts, budget>>

-----------------------------------------------------------------------------
(* apply.                                                                  *)

PackagesOf(batch) == {c.package : c \in batch}

StartApply ==
    /\ process.doing = "nothing"
    /\ report.success /\ report.candidates # {}
    /\ \E batch \in (SUBSET report.candidates) \ {{}} :
        /\ "some" \in Selections \/ batch = report.candidates
        /\ process' = [Idle EXCEPT !.doing = "revalidate", !.todo = PackagesOf(batch),
                                  !.candidates = batch]
    /\ UNCHANGED <<upstream, tree, report, texts, budget>>

(* The next loop over the batch begins.                                    *)
NextLoop ==
    /\ process.todo = {}
    /\ \E loop \in {<<"revalidate", "declare">>, <<"declare", "pin">>} :
        /\ process.doing = loop[1]
        /\ process' = [process EXCEPT !.doing = loop[2], !.todo = PackagesOf(process.candidates)]
    /\ UNCHANGED <<upstream, tree, report, texts, budget>>

(* One candidate that is stale or not compatible refuses the batch.        *)
Revalidate(c) ==
    /\ process.doing = "revalidate" /\ c.package \in process.todo
    /\ process' = IF Applicable(c) THEN [process EXCEPT !.todo = @ \ {c.package}] ELSE Idle
    /\ UNCHANGED <<upstream, tree, report, texts, budget>>

(* The candidates that the present loop has done.                          *)
Done == {c \in process.candidates : c.package \notin process.todo}

(* The declarations of one candidate are staged, unless its replacements   *)
(* conflict with those of the ones before.                                 *)
Declare(c) ==
    /\ process.doing = "declare" /\ c.package \in process.todo
    /\ IF Conflicting(Done \cup {c})
       THEN process' = Idle /\ texts' = NoTexts
       ELSE process' = [process EXCEPT !.todo = @ \ {c.package}] /\ texts' = Declared(c)
    /\ UNCHANGED <<upstream, tree, report, budget>>

(* The pins on a package that had one version and has one are staged.      *)
SyncPins(c) ==
    /\ process.doing = "pin" /\ c.package \in process.todo
    /\ process' = [process EXCEPT !.todo = @ \ {c.package}]
    /\ texts' = IF Cardinality(c.previous) = 1 /\ Cardinality(c.current) = 1
                THEN Synced(c) ELSE texts
    /\ UNCHANGED <<upstream, tree, report, budget>>

(* A request fails: for a version, an archive or the staged workflow.      *)
ApplyFails ==
    /\ process.doing \in {"revalidate", "declare", "pin"}
    /\ Spend("error")
    /\ process' = Idle /\ texts' = NoTexts
    /\ UNCHANGED <<upstream, tree, report>>

(* All that has been staged is written at once.                            *)
Write ==
    /\ process.doing = "pin" /\ process.todo = {}
    /\ tree' = Written(process.candidates)
    /\ process' = Idle /\ texts' = NoTexts
    /\ UNCHANGED <<upstream, report, budget>>

Command ==
    \/ StartApply \/ NextLoop \/ Write \/ WriteReport \/ StartDiscover
    \/ \E p \in Packages : Look(p) \/ LookFails(p)
    \/ \E c \in process.candidates : Revalidate(c) \/ Declare(c) \/ SyncPins(c)
    \/ ApplyFails

Outside == \E p \in Packages : UpstreamMoves(p) \/ MaintainerUpdates(p) \/ MaintainerNarrows(p)

Next == Command \/ Outside

Spec == Init /\ [][Next]_vars

(* The scheduled run discovers, and applies what it has found.             *)
FairSpec ==
    /\ Spec
    /\ WF_vars(process.doing # "nothing" /\ Command)
    /\ SF_vars(StartDiscover) /\ SF_vars(StartApply)

-----------------------------------------------------------------------------
(* Properties.                                                             *)

(* A consumer never pins a version that is not declared, though the pin is *)
(* in another file than the declaration and both files are in the batch;   *)
(* and what is declared stays inside the ranges: also if the report is     *)
(* from before the checkout moved or a range was narrowed.                 *)
PinsAreDeclared == \A pin \in Pins : tree.pin[pin] \in tree.declared[pin[2]]
RangesHold == \A p \in Packages : tree.declared[p] \subseteq tree.bound[p]
TreeIsConsistent == TypeOK /\ PinsAreDeclared /\ RangesHold

Changed(p) == tree.declared[p] # tree'.declared[p]

(* A fixture of a package that is updated goes with its declaration, if    *)
(* its major version is still declared, whatever other packages the batch  *)
(* updates.  A package with several versions whose name another package of *)
(* the batch also uses is beyond the textual rewriting; none has any.      *)
FixturesFollow ==
    [][\A p \in Packages :
        /\ Changed(p)
        /\ tree.fixture[p] \in tree.declared[p]
        /\ \E w \in tree'.declared[p] : Major(w) = Major(tree.fixture[p])
        => tree'.fixture[p] \in tree'.declared[p]]_vars

(* No major version of a package is ever taken back, also if the upstream  *)
(* withdraws a release after it was declared.                              *)
NoDowngrade ==
    [][\A p \in Packages : \A v \in tree.declared[p], w \in tree'.declared[p] :
        Major(v) = Major(w) => v <= w]_vars

(* A batch is written whole, though its edits are staged one by one and    *)
(* several of them may be in the same recipe: no edit of the batch undoes  *)
(* another, and no declaration and no pin of another package is touched.   *)
BatchIsWhole ==
    [][(process.doing # "nothing" /\ tree' # tree) =>
        \A p \in Packages :
            \/ \E c \in process.candidates :
                    /\ c.package = p /\ tree'.declared[p] = c.current
                    /\ \A pin \in Pins : pin[2] = p => tree'.pin[pin] \in c.current
            \/ /\ \A c \in process.candidates : c.package # p
               /\ tree'.declared[p] = tree.declared[p]
               /\ \A pin \in Pins : pin[2] = p => tree'.pin[pin] = tree.pin[pin]]_vars

(* The upstream offers a version outside the ranges, or one of which no    *)
(* earlier version of the same major is declared.                          *)
Blocked(p) ==
    \E v \in upstream[p] :
        v \notin tree.bound[p] \/ \A w \in tree.declared[p] : Major(w) # Major(v) \/ w > v

Outstanding ==
    {[package |-> p, previous |-> tree.declared[p], current |-> upstream[p]] :
        p \in {p \in Packages : tree.declared[p] # upstream[p] /\ ~Blocked(p)}}

(* Once the upstream and the maintainers are quiet every package is up to  *)
(* date in the end, unless it is blocked or the outstanding updates want   *)
(* to replace the same version by different ones; a report that was        *)
(* overtaken does not stand in the way.                                    *)
EventuallyUpToDate ==
    <>[][~Outside]_vars =>
        <>[](Outstanding = {} \/ Conflicting(Outstanding))

=============================================================================
