----------------------- MODULE MaintenanceBatchProofs -----------------------
(***************************************************************************)
(* Theorems about MaintenanceBatch, for any packages, versions and pins.   *)
(*                                                                         *)
(* The upstream may move at any time, the working tree only while no       *)
(* command runs: what apply_batch has demanded of a candidate still holds  *)
(* of the tree when it writes (CheckedInv).  A batch has one candidate per *)
(* package (CandidatesInv), so that it says of each what is to be          *)
(* declared; and of each recipe, what the next edit begins with is what is *)
(* on disk with the edits staged so far, and no other (StagingInv).        *)
(***************************************************************************)
EXTENDS MaintenanceBatch, FiniteSetTheorems, TLAPS

OnePerPackage(batch) == \A c, d \in batch : c.package = d.package => c = d

(* What upstream offers and the tree declares is what discovery may return.*)
OffersInv == \A p \in Packages : upstream[p] \in Offers[p] /\ tree.declared[p] \in Offers[p]

CandidatesInv ==
    /\ OnePerPackage(report.candidates) /\ OnePerPackage(process.candidates)
    /\ process.doing = "discover" => \A c \in process.candidates : c.package \notin process.todo

Checked(c) ==
    /\ c.previous = tree.declared[c.package]
    /\ c.current \in Offers[c.package]
    /\ Compatible(c.package, c.current)

CheckedInv ==
    /\ process.doing = "revalidate" =>
         \A c \in process.candidates : c.package \in process.todo \/ Checked(c)
    /\ process.doing \in {"declare", "pin"} => \A c \in process.candidates : Checked(c)

(* The texts when the declarations of some candidates and the pins on some *)
(* have been staged.                                                       *)
StagedTexts(declared, synced) ==
    \A p \in Packages :
        /\ TextOf(p) \in Text(p)
        /\ \A c \in declared : c.package = p => TextOf(p).declared = c.current
        /\ (\A c \in declared : c.package # p) => TextOf(p).declared = tree.declared[p]
        /\ \A q \in Pinned(p) :
             /\ \A c \in synced : c.package = q => TextOf(p).pin[q] \in c.current
             /\ (\A c \in synced : c.package # q) => TextOf(p).pin[q] = tree.pin[<<p, q>>]

StagingInv ==
    /\ process.doing = "declare" => StagedTexts(Done, {}) /\ ~Conflicting(Done)
    /\ process.doing = "pin" =>
         StagedTexts(process.candidates, Done) /\ ~Conflicting(process.candidates)
    /\ process.doing \notin {"declare", "pin"} => texts = NoTexts

BatchInv ==
    /\ TypeOK /\ OffersInv /\ CandidatesInv /\ CheckedInv /\ StagingInv
    /\ PinsAreDeclared /\ RangesHold

-----------------------------------------------------------------------------
(* Operators.                                                              *)

(* The greatest version of an offer is one of it.                          *)
LEMMA GreatestForm ==
    ASSUME NEW S, NEW v \in S, \A w \in S : w <= v
    PROVE  Greatest(S) \in S /\ \A w \in S : w <= Greatest(S)
BY DEF Greatest

(* What is offered are versions, and a greatest one is among them.         *)
LEMMA OfferForm ==
    ASSUME NEW p \in Packages, NEW offer \in Offers[p]
    PROVE  /\ offer \subseteq Versions
           /\ offer # {} => Greatest(offer) \in offer
<1>1. offer \subseteq Versions
  BY DEF Versions
<1>2. ASSUME offer # {}
      PROVE  Greatest(offer) \in offer
  <2>1. PICK v \in offer : \A w \in offer : w <= v
    BY <1>2, BatchAssumption
  <2>. QED BY <2>1, GreatestForm
<1>. QED BY <1>1, <1>2

(* The one version of a major version is the greatest of it.               *)
LEMMA GreatestOfMajor ==
    ASSUME NEW p \in Packages, NEW offer \in Offers[p], NEW w \in offer
    PROVE  Greatest({x \in offer : Major(x) = Major(w)}) = w
<1> DEFINE same == {x \in offer : Major(x) = Major(w)}
<1>1. \A x \in same : x = w
  BY BatchAssumption
<1>2. w \in same /\ w \in Nat
  BY OfferForm, BatchAssumption
<1> HIDE DEF same
<1>3. \A x \in same : x <= w
  BY <1>1, <1>2
<1>4. Greatest(same) \in same
  BY <1>2, <1>3, GreatestForm
<1>. QED BY <1>1, <1>4 DEF same

(* A candidate of a batch is the one of its package.                       *)
LEMMA ChosenForm ==
    ASSUME NEW batch, OnePerPackage(batch), NEW c \in batch, NEW p, c.package = p
    PROVE  (CHOOSE d \in batch : d.package = p) = c
BY DEF OnePerPackage

(* An old version is replaced by the one of its major version.             *)
LEMMA SubstitutionForm ==
    ASSUME NEW c, NEW p \in Packages, c.current \in Offers[p], NEW r \in Substitutions(c)
    PROVE  /\ r[1] \in c.previous \ c.current
           /\ r[2] \in c.current /\ Major(r[2]) = Major(r[1])
<1>1. PICK v \in c.previous \ c.current :
        /\ \E w \in c.current : Major(w) = Major(v)
        /\ r = <<v, Greatest({w \in c.current : Major(w) = Major(v)})>>
  BY DEF Substitutions
<1>2. PICK w \in c.current : Major(w) = Major(v)
  BY <1>1
<1>3. {x \in c.current : Major(x) = Major(v)} = {x \in c.current : Major(x) = Major(w)}
  BY <1>2
<1>4. Greatest({x \in c.current : Major(x) = Major(v)}) = w
  BY <1>3, GreatestOfMajor
<1>. QED BY <1>1, <1>2, <1>4

(* What a batch whose candidates were all checked makes of the tree.       *)
StagedForm(batch, next) ==
    /\ next \in Trees
    /\ \A c \in batch : next.declared[c.package] = c.current
    /\ \A p \in Packages :
         (\A c \in batch : c.package # p) => next.declared[p] = tree.declared[p]
    /\ \A pin \in Pins : \A c \in batch : c.package = pin[2] => next.pin[pin] \in c.current
    /\ \A pin \in Pins :
         (\A c \in batch : c.package # pin[2]) => next.pin[pin] = tree.pin[pin]
    /\ next.bound = tree.bound
    /\ next.fixture = [p \in Packages |-> Rewrite(tree.fixture[p], batch)]

(* A pin is of a consumer on a package that it pins.                       *)
LEMMA PinForm ==
    ASSUME NEW pin \in Pins
    PROVE  /\ pin[1] \in Packages /\ pin[2] \in Packages /\ pin = <<pin[1], pin[2]>>
           /\ pin[2] \in Pinned(pin[1])
BY BatchAssumption DEF Pinned

(* The recipe on disk is a text that says what the tree has.               *)
LEMMA OnDiskForm ==
    ASSUME tree \in Trees, NEW p \in Packages
    PROVE  /\ OnDisk(p) \in Text(p) /\ OnDisk(p).declared = tree.declared[p]
           /\ \A q \in Pinned(p) : OnDisk(p).pin[q] = tree.pin[<<p, q>>]
<1>1. \A q \in Pinned(p) : tree.pin[<<p, q>>] \in Versions
  BY DEF Trees, Pinned
<1>2. tree.declared[p] \in SUBSET Versions
  BY DEF Trees
<1>. QED BY <1>1, <1>2 DEF OnDisk, Text

(* Texts that are not touched say what they did.                           *)
LEMMA TextsSame ==
    ASSUME NEW declared, NEW synced, StagedTexts(declared, synced), UNCHANGED <<tree, texts>>
    PROVE  StagedTexts(declared, synced)'
<1>1. \A p : TextOf(p)' = TextOf(p)
  BY DEF TextOf, OnDisk
<1>. QED BY <1>1 DEF StagedTexts

(* What is written when all is staged.                                     *)
LEMMA StagedEffect ==
    ASSUME TypeOK, NEW batch \in SUBSET Candidate, \A c \in batch : Checked(c),
           StagedTexts(batch, batch)
    PROVE  StagedForm(batch, Written(batch))
<1> DEFINE declared == [p \in Packages |-> TextOf(p).declared]
           pins == [pin \in Pins |-> TextOf(pin[1]).pin[pin[2]]]
           fixture == [p \in Packages |-> Rewrite(tree.fixture[p], batch)]
           next == Written(batch)
<1>1. /\ tree \in Trees
      /\ \A c \in batch : /\ c.package \in Packages /\ c.current \in Offers[c.package]
                           /\ c.current # {} /\ c.previous = tree.declared[c.package]
  BY DEF TypeOK, Candidate, Checked, Compatible
<1>2. \A c \in batch : c.current \subseteq Versions
  BY <1>1, OfferForm
<1>3. declared \in [Packages -> SUBSET Versions]
  BY DEF StagedTexts, Text
<1>4. \A c \in batch : declared[c.package] = c.current
  BY <1>1 DEF StagedTexts
<1>5. \A p \in Packages : (\A c \in batch : c.package # p) => declared[p] = tree.declared[p]
  BY DEF StagedTexts
<1>6. \A pin \in Pins : \A c \in batch : c.package = pin[2] => pins[pin] \in c.current
  BY PinForm DEF StagedTexts
<1>7. \A pin \in Pins : (\A c \in batch : c.package # pin[2]) => pins[pin] = tree.pin[pin]
  BY PinForm DEF StagedTexts
<1>8. pins \in [Pins -> Versions]
  BY PinForm DEF StagedTexts, Text
<1>9. fixture \in [Packages -> Versions]
  <2>1. ASSUME NEW p \in Packages
        PROVE  Rewrite(tree.fixture[p], batch) \in Versions
    <3>1. CASE \E r \in Replacements(batch) : r[1] = tree.fixture[p]
      <4>1. PICK r \in Replacements(batch) : Rewrite(tree.fixture[p], batch) = r[2]
        BY <3>1 DEF Rewrite
      <4>2. PICK c \in batch : r \in Substitutions(c)
        BY <4>1 DEF Replacements
      <4>3. r[2] \in c.current
        BY <1>1, <4>2, SubstitutionForm
      <4>. QED BY <1>2, <4>1, <4>3
    <3>2. CASE ~\E r \in Replacements(batch) : r[1] = tree.fixture[p]
      BY <1>1, <3>2 DEF Rewrite, Trees
    <3>. QED BY <3>1, <3>2
  <2>. QED BY <2>1
<1>10. next = [tree EXCEPT !.declared = declared, !.pin = pins, !.fixture = fixture]
  BY <1>1 DEF Written, Trees
<1> HIDE DEF declared, pins, fixture, next
<1>11. /\ next \in Trees /\ next.declared = declared /\ next.pin = pins
       /\ next.bound = tree.bound /\ next.fixture = fixture
  BY <1>1, <1>3, <1>8, <1>9, <1>10 DEF Trees
<1>. QED BY <1>4, <1>5, <1>6, <1>7, <1>11 DEF StagedForm, fixture, next

(* A budget that is spent stays a budget.                                  *)
LEMMA SpendForm ==
    ASSUME TypeOK, NEW what \in {"move", "edit", "error"}, Spend(what)
    PROVE  budget' \in [{"move", "edit", "error"} -> Nat]
BY DEF TypeOK, Spend

-----------------------------------------------------------------------------
(* The invariant: upstream and maintainers.                                *)

(* What holds of the tree alone.                                           *)
TreeInv ==
    /\ tree \in Trees
    /\ \A p \in Packages : tree.declared[p] \in Offers[p]
    /\ PinsAreDeclared /\ RangesHold

(* Staging stays as it is.                                                 *)
LEMMA StagingSame ==
    ASSUME StagingInv, UNCHANGED <<tree, process, texts>>
    PROVE  StagingInv'
<1>1. PICK done, batch : done = Done /\ batch = process.candidates
  OBVIOUS
<1>2. Done' = done /\ process'.candidates = batch
  BY <1>1 DEF Done
<1>3. process.doing = "declare" => StagedTexts(done, {})' /\ ~Conflicting(done)
  BY <1>1, TextsSame DEF StagingInv
<1>4. process.doing = "pin" => StagedTexts(batch, done)' /\ ~Conflicting(batch)
  BY <1>1, TextsSame DEF StagingInv
<1>. QED BY <1>2, <1>3, <1>4 DEF StagingInv

(* Upstream releases disturb nothing: the tree is what candidates are      *)
(* checked against.                                                        *)
LEMMA UpstreamMovesKeeps ==
    ASSUME BatchInv, NEW p \in Packages, UpstreamMoves(p)
    PROVE  BatchInv'
<1>1. PICK offer \in Offers[p] : upstream' = [upstream EXCEPT ![p] = offer]
  BY DEF UpstreamMoves
<1>2. UNCHANGED <<tree, report, process, texts>> /\ TypeOK
  BY DEF UpstreamMoves, BatchInv
<1>3. budget' \in [{"move", "edit", "error"} -> Nat]
  BY <1>2, SpendForm DEF UpstreamMoves
<1>4. upstream' \in [Packages -> SUBSET Versions]
  BY <1>1, <1>2, OfferForm DEF TypeOK
<1>5. OffersInv'
  BY <1>1, <1>2 DEF BatchInv, OffersInv, TypeOK
<1>6. StagingInv'
  BY <1>2, StagingSame DEF BatchInv
<1>. QED BY <1>2, <1>3, <1>4, <1>5, <1>6
         DEF BatchInv, TypeOK, CandidatesInv, CheckedInv, Checked, Compatible, PinsAreDeclared,
             RangesHold

(* A maintainer leaves a tree in order, and no command is under way.       *)
LEMMA MaintainerKeeps ==
    ASSUME BatchInv, TreeInv', process.doing = "nothing", Spend("edit"),
           UNCHANGED <<upstream, report, process, texts>>
    PROVE  BatchInv'
<1>1. TypeOK /\ OffersInv /\ CandidatesInv /\ StagingInv
  BY DEF BatchInv
<1>2. budget' \in [{"move", "edit", "error"} -> Nat]
  BY <1>1, SpendForm
<1>3. TypeOK' /\ OffersInv' /\ CandidatesInv' /\ CheckedInv' /\ StagingInv'
  BY <1>1, <1>2 DEF TypeOK, OffersInv, CandidatesInv, CheckedInv, StagingInv, TreeInv
<1>. QED BY <1>3 DEF BatchInv, TreeInv

(* The tree after a package has been updated completely.                   *)
LEMMA MaintainerUpdatesEffect ==
    ASSUME BatchInv, NEW p \in Packages, MaintainerUpdates(p)
    PROVE  /\ TreeInv'
           /\ tree'.declared = [tree.declared EXCEPT ![p] = upstream[p]]
           /\ tree'.fixture = [tree.fixture EXCEPT ![p] = Greatest(upstream[p])]
           /\ Compatible(p, upstream[p])
<1>0. /\ tree \in Trees /\ Compatible(p, upstream[p])
      /\ \A q \in Packages : upstream[q] \in Offers[q] /\ tree.declared[q] \in Offers[q]
  BY DEF BatchInv, TypeOK, OffersInv, MaintainerUpdates
<1>1. PICK offer \in Offers[p] : offer = upstream[p]
  BY <1>0
<1>2. offer # {} /\ offer \subseteq tree.bound[p]
  BY <1>0, <1>1 DEF Compatible
<1>3. offer \subseteq Versions /\ Greatest(offer) \in offer
  BY <1>2, OfferForm
<1> DEFINE declared == [tree.declared EXCEPT ![p] = offer]
           pins == [pin \in Pins |-> IF pin[2] = p THEN Greatest(offer) ELSE tree.pin[pin]]
           fixture == [tree.fixture EXCEPT ![p] = Greatest(offer)]
<1>4. tree' = [tree EXCEPT !.declared = declared, !.pin = pins, !.fixture = fixture]
  BY <1>0, <1>1 DEF MaintainerUpdates, Trees
<1>5. /\ declared \in [Packages -> SUBSET Versions] /\ pins \in [Pins -> Versions]
      /\ fixture \in [Packages -> Versions]
  BY <1>0, <1>3 DEF Trees
<1>6. \A q \in Packages : declared[q] = IF q = p THEN offer ELSE tree.declared[q]
  BY <1>0 DEF Trees
<1>7. \A pin \in Pins : pins[pin] = IF pin[2] = p THEN Greatest(offer) ELSE tree.pin[pin]
  OBVIOUS
<1> HIDE DEF declared, pins, fixture
<1>8. /\ tree' \in Trees /\ tree'.declared = declared /\ tree'.pin = pins
      /\ tree'.bound = tree.bound /\ tree'.fixture = fixture
  BY <1>0, <1>4, <1>5 DEF Trees
<1>9. PinsAreDeclared'
  <2>1. \A pin \in Pins : pin[2] \in Packages /\ tree.pin[pin] \in tree.declared[pin[2]]
    BY BatchAssumption DEF BatchInv, PinsAreDeclared
  <2>2. \A pin \in Pins : pins[pin] \in declared[pin[2]]
    BY <1>3, <1>6, <1>7, <2>1
  <2>. QED BY <1>8, <2>2 DEF PinsAreDeclared
<1>10. RangesHold'
  BY <1>2, <1>6, <1>8 DEF BatchInv, RangesHold
<1>11. \A q \in Packages : tree'.declared[q] \in Offers[q]
  BY <1>0, <1>6, <1>8
<1>. QED BY <1>0, <1>1, <1>8, <1>9, <1>10, <1>11 DEF TreeInv, declared, fixture

(* A maintainer narrows a range no further than to what is declared.       *)
LEMMA MaintainerNarrowsEffect ==
    ASSUME BatchInv, NEW p \in Packages, MaintainerNarrows(p)
    PROVE  /\ TreeInv'
           /\ tree'.declared = tree.declared /\ tree'.fixture = tree.fixture
<1>0. /\ tree \in Trees
      /\ \A q \in Packages : tree.declared[q] \in Offers[q]
  BY DEF BatchInv, TypeOK, OffersInv
<1> DEFINE bound == [tree.bound EXCEPT ![p] = tree.declared[p]]
<1>1. tree' = [tree EXCEPT !.bound = bound]
  BY <1>0 DEF MaintainerNarrows, Trees
<1>2. /\ bound \in [Packages -> SUBSET Versions]
      /\ \A q \in Packages : bound[q] = IF q = p THEN tree.declared[p] ELSE tree.bound[q]
  BY <1>0 DEF Trees
<1> HIDE DEF bound
<1>3. /\ tree' \in Trees /\ tree'.declared = tree.declared /\ tree'.pin = tree.pin
      /\ tree'.bound = bound /\ tree'.fixture = tree.fixture
  BY <1>0, <1>1, <1>2 DEF Trees
<1>4. PinsAreDeclared' /\ RangesHold'
  BY <1>2, <1>3 DEF BatchInv, PinsAreDeclared, RangesHold
<1>. QED BY <1>0, <1>3, <1>4 DEF TreeInv

-----------------------------------------------------------------------------
(* The invariant: the commands.                                            *)

(* A command that leaves the tree keeps the invariant if it keeps what is  *)
(* said of the candidates and of the texts.                                *)
LEMMA CommandKeeps ==
    ASSUME BatchInv, TypeOK', CandidatesInv', CheckedInv', StagingInv',
           UNCHANGED <<upstream, tree>>
    PROVE  BatchInv'
BY DEF BatchInv, OffersInv, PinsAreDeclared, RangesHold

(* An idle process has no candidates, and nothing is staged.               *)
LEMMA IdleForm ==
    /\ Idle \in Process /\ Idle.doing = "nothing" /\ Idle.candidates = {}
    /\ DOMAIN NoTexts = {}
BY DEF Idle, Process, NoTexts

(* A command that ends leaves the tree and the report.                     *)
LEMMA EndsKeeps ==
    ASSUME BatchInv, process' = Idle, texts' = NoTexts, UNCHANGED <<upstream, tree, report>>,
           budget' \in [{"move", "edit", "error"} -> Nat]
    PROVE  BatchInv'
<1>1. TypeOK'
  BY IdleForm DEF BatchInv, TypeOK
<1>2. CandidatesInv' /\ CheckedInv' /\ StagingInv'
  BY IdleForm DEF BatchInv, CandidatesInv, CheckedInv, StagingInv, OnePerPackage
<1>. QED BY <1>1, <1>2, CommandKeeps

(* A discovery begins without candidates.                                  *)
LEMMA StartDiscoverKeeps ==
    ASSUME BatchInv, StartDiscover
    PROVE  BatchInv'
<1> DEFINE next == [Idle EXCEPT !.doing = "discover", !.todo = Packages]
<1>1. process' = next /\ UNCHANGED <<upstream, tree, report, texts, budget>>
  BY DEF StartDiscover
<1>2. next \in Process /\ next.doing = "discover" /\ next.candidates = {}
  BY DEF Idle, Process
<1> HIDE DEF next
<1>3. TypeOK'
  BY <1>1, <1>2 DEF BatchInv, TypeOK
<1>4. CandidatesInv' /\ CheckedInv' /\ StagingInv'
  BY <1>1, <1>2 DEF BatchInv, CandidatesInv, CheckedInv, StagingInv, OnePerPackage, StartDiscover
<1>. QED BY <1>1, <1>3, <1>4, CommandKeeps

(* A package is looked at once, so that it becomes one candidate at most.  *)
LEMMA LookKeeps ==
    ASSUME BatchInv, NEW p \in Packages, Look(p)
    PROVE  BatchInv'
<1>0. /\ TypeOK /\ process \in Process /\ process.doing = "discover" /\ p \in process.todo
      /\ UNCHANGED <<upstream, tree, report, texts, budget>>
  BY DEF BatchInv, TypeOK, Look
<1> DEFINE c == [package |-> p, previous |-> tree.declared[p], current |-> upstream[p]]
           candidates == IF c.previous # c.current /\ Compatible(p, c.current)
                         THEN process.candidates \cup {c} ELSE process.candidates
           todo == process.todo \ {p}
           next == [process EXCEPT !.todo = todo, !.candidates = candidates]
<1>1. process' = next
  BY DEF Look
<1>2. c \in Candidate /\ c.package = p
  BY <1>0 DEF TypeOK, Trees, Candidate
<1>3. candidates = process.candidates \/ candidates = process.candidates \cup {c}
  OBVIOUS
<1> HIDE DEF c, candidates
<1>4. candidates \in SUBSET Candidate /\ todo \in SUBSET Packages
  BY <1>0, <1>2, <1>3 DEF Process
<1>5. /\ next \in Process /\ next.doing = "discover"
      /\ next.todo = todo /\ next.candidates = candidates
  BY <1>0, <1>4 DEF Process
<1>6. \A d \in process.candidates : d.package \notin process.todo
  BY <1>0 DEF BatchInv, CandidatesInv
<1>7. OnePerPackage(candidates)
  BY <1>0, <1>2, <1>3, <1>6 DEF BatchInv, CandidatesInv, OnePerPackage
<1>8. \A d \in candidates : d.package \notin todo
  BY <1>2, <1>3, <1>6
<1> HIDE DEF todo, next
<1>9. TypeOK'
  BY <1>0, <1>1, <1>5 DEF TypeOK
<1>10. CandidatesInv' /\ CheckedInv' /\ StagingInv'
  BY <1>0, <1>1, <1>5, <1>7, <1>8 DEF BatchInv, CandidatesInv, CheckedInv, StagingInv
<1>. QED BY <1>0, <1>9, <1>10, CommandKeeps

(* A failed discovery leaves the last report.                              *)
LEMMA LookFailsKeeps ==
    ASSUME BatchInv, NEW p \in Packages, LookFails(p)
    PROVE  BatchInv'
<1>0. /\ TypeOK /\ process \in Process /\ process.doing = "discover"
      /\ UNCHANGED <<upstream, tree, report, texts>>
  BY DEF BatchInv, TypeOK, LookFails
<1> DEFINE next == [process EXCEPT !.todo = process.todo \ {p}, !.failed = TRUE]
<1>1. process' = next
  BY DEF LookFails
<1>2. /\ next \in Process /\ next.doing = "discover"
      /\ next.todo \subseteq process.todo /\ next.candidates = process.candidates
  BY <1>0 DEF Process
<1> HIDE DEF next
<1>3. budget' \in [{"move", "edit", "error"} -> Nat]
  BY <1>0, SpendForm DEF LookFails
<1>4. TypeOK'
  BY <1>0, <1>1, <1>2, <1>3 DEF TypeOK
<1>5. CandidatesInv' /\ CheckedInv' /\ StagingInv'
  BY <1>0, <1>1, <1>2 DEF BatchInv, CandidatesInv, CheckedInv, StagingInv
<1>. QED BY <1>0, <1>4, <1>5, CommandKeeps

(* The report gets the candidates, one for each package.                   *)
LEMMA WriteReportKeeps ==
    ASSUME BatchInv, WriteReport
    PROVE  BatchInv'
<1>1. /\ TypeOK /\ process \in Process /\ process' = Idle
      /\ UNCHANGED <<upstream, tree, texts, budget>>
  BY DEF BatchInv, TypeOK, WriteReport
<1> DEFINE success == ~process.failed
<1>2. report' = [success |-> success, candidates |-> process.candidates] /\ success \in BOOLEAN
  BY DEF WriteReport
<1> HIDE DEF success
<1>3. /\ report' \in [success : BOOLEAN, candidates : SUBSET Candidate]
      /\ report'.candidates = process.candidates
  BY <1>1, <1>2 DEF Process
<1>4. TypeOK'
  BY <1>1, <1>3, IdleForm DEF TypeOK
<1>5. CandidatesInv' /\ CheckedInv' /\ StagingInv'
  BY <1>1, <1>3, IdleForm
     DEF BatchInv, CandidatesInv, CheckedInv, StagingInv, OnePerPackage, WriteReport
<1>. QED BY <1>1, <1>4, <1>5, CommandKeeps

(* An application begins with the candidates of the report, none           *)
(* revalidated.                                                            *)
LEMMA StartApplyKeeps ==
    ASSUME BatchInv, StartApply
    PROVE  BatchInv'
<1>1. PICK batch \in (SUBSET report.candidates) \ {{}} :
        process' = [Idle EXCEPT !.doing = "revalidate", !.todo = PackagesOf(batch),
                                !.candidates = batch]
  BY DEF StartApply
<1>2. TypeOK /\ process.doing = "nothing" /\ UNCHANGED <<upstream, tree, report, texts, budget>>
  BY DEF BatchInv, StartApply
<1>3. batch \in SUBSET Candidate
  BY <1>2 DEF TypeOK
<1>4. PackagesOf(batch) \in SUBSET Packages /\ \A c \in batch : c.package \in PackagesOf(batch)
  BY <1>3 DEF Candidate, PackagesOf
<1>5. /\ process' \in Process /\ process'.doing = "revalidate"
      /\ process'.candidates = batch /\ process'.todo = PackagesOf(batch)
  BY <1>1, <1>3, <1>4 DEF Process, Idle
<1>6. TypeOK'
  BY <1>2, <1>5 DEF TypeOK
<1>7. CandidatesInv'
  BY <1>2, <1>5 DEF BatchInv, CandidatesInv, OnePerPackage
<1>8. CheckedInv' /\ StagingInv'
  BY <1>2, <1>4, <1>5 DEF BatchInv, CheckedInv, StagingInv
<1>. QED BY <1>2, <1>6, <1>7, <1>8, CommandKeeps

(* A loop begins with nothing done, when the one before has done all.      *)
LEMMA NextLoopKeeps ==
    ASSUME BatchInv, NextLoop
    PROVE  BatchInv'
<1>0. /\ TypeOK /\ process \in Process /\ process.todo = {}
      /\ UNCHANGED <<upstream, tree, report, texts, budget>>
  BY DEF BatchInv, TypeOK, NextLoop
<1>1. PICK loop \in {"declare", "pin"} :
        /\ process.doing = IF loop = "declare" THEN "revalidate" ELSE "declare"
        /\ process' = [process EXCEPT !.doing = loop, !.todo = PackagesOf(process.candidates)]
  <2>1. PICK pair \in {<<"revalidate", "declare">>, <<"declare", "pin">>} :
          /\ process.doing = pair[1]
          /\ process' = [process EXCEPT !.doing = pair[2],
                                       !.todo = PackagesOf(process.candidates)]
    BY DEF NextLoop
  <2>2. CASE pair = <<"revalidate", "declare">>
    BY <2>1, <2>2
  <2>3. CASE pair = <<"declare", "pin">>
    BY <2>1, <2>3
  <2>. QED BY <2>2, <2>3
<1>2. PICK batch : batch = process.candidates
  OBVIOUS
<1>3. /\ batch \in SUBSET Candidate /\ PackagesOf(batch) \in SUBSET Packages
      /\ \A c \in batch : c.package \in PackagesOf(batch)
  BY <1>0, <1>2 DEF Process, Candidate, PackagesOf
<1>4. /\ process' \in Process /\ process'.doing = loop
      /\ process'.todo = PackagesOf(batch) /\ process'.candidates = batch
  BY <1>0, <1>1, <1>2, <1>3 DEF Process
<1>5. \A c \in batch : Checked(c) /\ Checked(c)' = Checked(c)
  BY <1>0, <1>1, <1>2 DEF BatchInv, CheckedInv, Checked, Compatible
<1>6. Done = batch /\ Done' = {}
  BY <1>0, <1>2, <1>3, <1>4 DEF Done
<1>7. TypeOK'
  BY <1>0, <1>4 DEF TypeOK
<1>8. CandidatesInv' /\ CheckedInv'
  BY <1>0, <1>2, <1>4, <1>5 DEF BatchInv, CandidatesInv, CheckedInv
<1>9. StagingInv'
  <2>1. CASE process.doing = "revalidate"
    <3>1. texts = NoTexts /\ tree \in Trees
      BY <1>0, <2>1 DEF BatchInv, StagingInv, TypeOK
    <3>2. \A p \in Packages : TextOf(p) = OnDisk(p)
      BY <3>1, IdleForm DEF TextOf
    <3>3. StagedTexts({}, {})
      BY <3>1, <3>2, OnDiskForm DEF StagedTexts
    <3>4. StagedTexts({}, {})' /\ ~Conflicting({})
      BY <1>0, <3>3, TextsSame DEF Conflicting, Replacements
    <3>. QED BY <1>1, <1>4, <1>6, <2>1, <3>4 DEF StagingInv
  <2>2. CASE process.doing = "declare"
    <3>1. StagedTexts(batch, {}) /\ ~Conflicting(batch)
      BY <1>6, <2>2 DEF BatchInv, StagingInv
    <3>2. StagedTexts(batch, {})'
      BY <1>0, <3>1, TextsSame
    <3>. QED BY <1>1, <1>4, <1>6, <2>2, <3>1, <3>2 DEF StagingInv
  <2>. QED BY <1>1, <2>1, <2>2
<1>. QED BY <1>0, <1>7, <1>8, <1>9, CommandKeeps

(* A candidate leaves todo when it has been found applicable.              *)
LEMMA RevalidateKeeps ==
    ASSUME BatchInv, NEW c \in process.candidates, Revalidate(c)
    PROVE  BatchInv'
<1>0. /\ TypeOK /\ process \in Process /\ process.doing = "revalidate"
      /\ UNCHANGED <<upstream, tree, report, texts, budget>>
      /\ c.package \in Packages /\ texts = NoTexts
  BY DEF BatchInv, TypeOK, Revalidate, Process, Candidate, StagingInv
<1>1. CASE ~Applicable(c)
  BY <1>0, <1>1, EndsKeeps DEF Revalidate, TypeOK
<1>2. CASE Applicable(c)
  <2> DEFINE todo == process.todo \ {c.package}
             next == [process EXCEPT !.todo = todo]
  <2>1. process' = next
    BY <1>2 DEF Revalidate
  <2>2. /\ next \in Process /\ next.doing = "revalidate"
        /\ next.todo = todo /\ next.candidates = process.candidates
    BY <1>0 DEF Process
  <2> HIDE DEF next
  <2>3. Checked(c)
    BY <1>0, <1>2 DEF Applicable, Checked, BatchInv, OffersInv
  <2>4. \A d \in process.candidates : d.package \in process.todo \/ Checked(d)
    BY <1>0 DEF BatchInv, CheckedInv
  <2>5. \A d \in process.candidates : d.package = c.package => d = c
    BY DEF BatchInv, CandidatesInv, OnePerPackage
  <2>6. \A d \in process.candidates : d.package \in todo \/ Checked(d)
    BY <2>3, <2>4, <2>5
  <2> HIDE DEF todo
  <2>7. \A d \in process.candidates : Checked(d)' = Checked(d)
    BY <1>0 DEF Checked, Compatible
  <2>8. TypeOK'
    BY <1>0, <2>1, <2>2 DEF TypeOK
  <2>9. CandidatesInv'
    BY <1>0, <2>1, <2>2 DEF BatchInv, CandidatesInv
  <2>10. CheckedInv' /\ StagingInv'
    BY <1>0, <2>1, <2>2, <2>6, <2>7 DEF CheckedInv, StagingInv
  <2>. QED BY <1>0, <2>8, <2>9, <2>10, CommandKeeps
<1>. QED BY <1>1, <1>2

(* The texts of a loop that goes on are those of recipes.                  *)
LEMMA TextsTyped ==
    ASSUME NEW declared, NEW synced, StagedTexts(declared, synced)', DOMAIN texts' \subseteq Packages
    PROVE  \A p \in DOMAIN texts' : texts'[p] \in Text(p)
BY DEF StagedTexts, TextOf

(* Staging a declaration changes nothing else in the text of its recipe,   *)
(* and no other text.                                                      *)
LEMMA DeclaredTexts ==
    ASSUME TypeOK, NEW c \in Candidate, NEW done, \A d \in done : d.package # c.package,
           StagedTexts(done, {}), texts' = Declared(c), UNCHANGED tree
    PROVE  StagedTexts(done \cup {c}, {})' /\ DOMAIN texts' \subseteq Packages
<1>1. c.package \in Packages /\ c.current \in SUBSET Versions
  BY DEF Candidate
<1>2. DOMAIN texts' = DOMAIN texts \cup {c.package} /\ DOMAIN texts \subseteq Packages
  BY DEF Declared, TypeOK
<1>3. ASSUME NEW p \in Packages
      PROVE  /\ TextOf(p)' \in Text(p)
             /\ TextOf(p)'.declared = IF p = c.package THEN c.current ELSE TextOf(p).declared
             /\ TextOf(p)'.pin = TextOf(p).pin
  <2>1. TextOf(p)' = IF p = c.package THEN [TextOf(p) EXCEPT !.declared = c.current]
                                      ELSE TextOf(p)
    <3>1. OnDisk(p)' = OnDisk(p)
      BY DEF OnDisk
    <3>. QED BY <1>2, <3>1 DEF TextOf, Declared
  <2>2. PICK text \in Text(p) : text = TextOf(p)
    BY DEF StagedTexts
  <2> DEFINE next == [text EXCEPT !.declared = c.current]
  <2>3. next \in Text(p) /\ next.declared = c.current /\ next.pin = text.pin
    BY <1>1 DEF Text
  <2> HIDE DEF next
  <2>. QED BY <2>1, <2>2, <2>3 DEF next
<1>4. ASSUME NEW p \in Packages
      PROVE  /\ \A d \in done \cup {c} : d.package = p => TextOf(p)'.declared = d.current
             /\ (\A d \in done \cup {c} : d.package # p) => TextOf(p)'.declared = tree'.declared[p]
             /\ \A q \in Pinned(p) : TextOf(p)'.pin[q] = tree'.pin[<<p, q>>]
  BY <1>3 DEF StagedTexts
<1>5. StagedTexts(done \cup {c}, {})'
  BY <1>3, <1>4 DEF StagedTexts
<1>. QED BY <1>1, <1>2, <1>5

(* Staging the pins on a package changes those of all its consumers, which *)
(* pin what it declared before, and nothing else in any text.              *)
LEMMA SyncedTexts ==
    ASSUME TypeOK, OffersInv, PinsAreDeclared,
           NEW batch, NEW c \in Candidate, Checked(c),
           NEW done, \A d \in done : d.package # c.package,
           StagedTexts(batch, done), UNCHANGED tree,
           texts' = IF Cardinality(c.previous) = 1 /\ Cardinality(c.current) = 1
                    THEN Synced(c) ELSE texts
    PROVE  StagedTexts(batch, done \cup {c})' /\ DOMAIN texts' \subseteq Packages
<1>1. PICK r \in Packages : r = c.package
  BY DEF Candidate
<1>2. /\ c.previous \in Offers[r] /\ c.current \in Offers[r]
      /\ c.current # {} /\ c.previous = tree.declared[r]
  BY <1>1 DEF Checked, Compatible, OffersInv
<1>3. PICK g : g = Greatest(c.current)
  OBVIOUS
<1>4. g \in c.current /\ g \in Versions
  BY <1>2, <1>3, OfferForm
<1>5. ASSUME NEW p \in Packages, r \in Pinned(p)
      PROVE  /\ TextOf(p).pin[r] \in c.previous
             /\ Cardinality(c.previous) = 1 /\ Cardinality(c.current) = 1
  <2>1. <<p, r>> \in Pins
    BY <1>5 DEF Pinned
  <2>2. tree.pin[<<p, r>>] \in c.previous
    BY <1>2, <2>1 DEF PinsAreDeclared
  <2>3. TextOf(p).pin[r] = tree.pin[<<p, r>>]
    BY <1>1, <1>5 DEF StagedTexts
  <2>4. \A offer \in Offers[r] : \A v, w \in offer : v = w
    <3>1. \E pin \in Pins : pin[2] = r
      BY <2>1
    <3>. QED BY <3>1, BatchAssumption
  <2>5. c.previous = {tree.pin[<<p, r>>]} /\ c.current = {g}
    BY <1>2, <1>4, <2>2, <2>4
  <2>. QED BY <2>2, <2>3, <2>5, FS_Singleton
<1>6. DOMAIN texts \subseteq Packages /\ DOMAIN Synced(c) \subseteq Packages
  BY DEF TypeOK, Synced
<1>7. ASSUME NEW p \in Packages
      PROVE  TextOf(p)' = IF r \in Pinned(p) THEN [TextOf(p) EXCEPT !.pin[r] = g] ELSE TextOf(p)
  <2>0. OnDisk(p)' = OnDisk(p)
    BY DEF OnDisk
  <2>1. CASE r \in Pinned(p)
    <3>1. texts' = Synced(c)
      BY <1>5, <2>1
    <3>2. p \in DOMAIN texts' /\ texts'[p] = [TextOf(p) EXCEPT !.pin[r] = g]
      BY <1>1, <1>3, <1>5, <2>1, <3>1 DEF Synced
    <3>. QED BY <2>1, <3>2 DEF TextOf
  <2>2. CASE r \notin Pinned(p)
    <3>1. CASE texts' = texts
      BY <2>0, <2>2, <3>1 DEF TextOf
    <3>2. CASE texts' = Synced(c)
      <4>1. /\ p \in DOMAIN texts' <=> p \in DOMAIN texts
            /\ p \in DOMAIN texts => texts'[p] = texts[p]
        BY <1>1, <2>2, <3>2 DEF Synced
      <4>. QED BY <2>0, <2>2, <4>1 DEF TextOf
    <3>. QED BY <3>1, <3>2
  <2>. QED BY <2>1, <2>2
<1>8. ASSUME NEW p \in Packages
      PROVE  /\ TextOf(p)' \in Text(p) /\ TextOf(p)'.declared = TextOf(p).declared
             /\ \A q \in Pinned(p) :
                  TextOf(p)'.pin[q] = IF q = r THEN g ELSE TextOf(p).pin[q]
  <2>1. PICK text \in Text(p) : text = TextOf(p)
    BY DEF StagedTexts
  <2> DEFINE next == [text EXCEPT !.pin[r] = g]
  <2>2. r \in Pinned(p) =>
          /\ next \in Text(p) /\ next.declared = text.declared
          /\ \A q \in Pinned(p) : next.pin[q] = IF q = r THEN g ELSE text.pin[q]
    BY <1>4 DEF Text
  <2> HIDE DEF next
  <2>3. TextOf(p)' = IF r \in Pinned(p) THEN next ELSE text
    BY <1>7, <2>1 DEF next
  <2>. QED BY <2>1, <2>2, <2>3
<1>9. ASSUME NEW p \in Packages, NEW q \in Pinned(p)
      PROVE  /\ \A d \in done \cup {c} : d.package = q => TextOf(p)'.pin[q] \in d.current
             /\ (\A d \in done \cup {c} : d.package # q) =>
                  TextOf(p)'.pin[q] = tree'.pin[<<p, q>>]
  BY <1>1, <1>4, <1>8 DEF StagedTexts
<1>10. StagedTexts(batch, done \cup {c})'
  BY <1>8, <1>9 DEF StagedTexts
<1>. QED BY <1>6, <1>10

(* A loop that goes on has done one candidate more.                        *)
LEMMA LoopForm ==
    ASSUME BatchInv, NEW c \in process.candidates, c.package \in process.todo,
           process' = [process EXCEPT !.todo = @ \ {c.package}]
    PROVE  /\ process' \in Process /\ process'.doing = process.doing
           /\ process'.candidates = process.candidates /\ Done' = Done \cup {c}
           /\ c \in Candidate /\ \A d \in Done : d.package # c.package
<1>1. process \in Process /\ OnePerPackage(process.candidates)
  BY DEF BatchInv, TypeOK, CandidatesInv
<1>2. /\ process' \in Process /\ process'.doing = process.doing
      /\ process'.candidates = process.candidates
      /\ process'.todo = process.todo \ {c.package} /\ c \in Candidate
  BY <1>1 DEF Process
<1>3. Done' = Done \cup {c} /\ \A d \in Done : d.package # c.package
  BY <1>1, <1>2 DEF Done, OnePerPackage
<1>. QED BY <1>2, <1>3

(* Replacements that conflict end the batch, so that none is staged with   *)
(* another that it conflicts with.                                         *)
LEMMA DeclareKeeps ==
    ASSUME BatchInv, NEW c \in process.candidates, Declare(c)
    PROVE  BatchInv'
<1>0. /\ TypeOK /\ process.doing = "declare" /\ c.package \in process.todo
      /\ UNCHANGED <<upstream, tree, report, budget>>
  BY DEF BatchInv, Declare
<1>1. CASE Conflicting(Done \cup {c})
  BY <1>0, <1>1, EndsKeeps DEF Declare, TypeOK
<1>2. CASE ~Conflicting(Done \cup {c})
  <2>1. process' = [process EXCEPT !.todo = @ \ {c.package}] /\ texts' = Declared(c)
    BY <1>2 DEF Declare
  <2>2. /\ process' \in Process /\ process'.doing = "declare"
        /\ process'.candidates = process.candidates /\ Done' = Done \cup {c}
        /\ c \in Candidate /\ \A d \in Done : d.package # c.package
    BY <1>0, <2>1, LoopForm
  <2>3. PICK done : done = Done
    OBVIOUS
  <2>4. StagedTexts(done, {})
    BY <1>0, <2>3 DEF BatchInv, StagingInv
  <2>5. StagedTexts(done \cup {c}, {})' /\ DOMAIN texts' \subseteq Packages
    BY <1>0, <2>1, <2>2, <2>3, <2>4, DeclaredTexts
  <2>6. TypeOK'
    BY <1>0, <2>2, <2>5, TextsTyped DEF TypeOK
  <2>7. CandidatesInv'
    BY <1>0, <2>2 DEF BatchInv, CandidatesInv
  <2>8. CheckedInv'
    BY <1>0, <2>2 DEF BatchInv, CheckedInv, Checked, Compatible
  <2>9. StagingInv'
    BY <1>2, <2>2, <2>3, <2>5 DEF StagingInv
  <2>. QED BY <1>0, <2>6, <2>7, <2>8, <2>9, CommandKeeps
<1>. QED BY <1>1, <1>2

(* The pins on one package more are staged.                                *)
LEMMA SyncPinsKeeps ==
    ASSUME BatchInv, NEW c \in process.candidates, SyncPins(c)
    PROVE  BatchInv'
<1>0. /\ TypeOK /\ process.doing = "pin" /\ c.package \in process.todo
      /\ UNCHANGED <<upstream, tree, report, budget>>
  BY DEF BatchInv, SyncPins
<1>1. process' = [process EXCEPT !.todo = @ \ {c.package}]
  BY DEF SyncPins
<1>2. /\ process' \in Process /\ process'.doing = "pin"
      /\ process'.candidates = process.candidates /\ Done' = Done \cup {c}
      /\ c \in Candidate /\ \A d \in Done : d.package # c.package
  BY <1>0, <1>1, LoopForm
<1>3. PICK done, batch : done = Done /\ batch = process.candidates
  OBVIOUS
<1>4. StagedTexts(batch, done) /\ ~Conflicting(batch)
  BY <1>0, <1>3 DEF BatchInv, StagingInv
<1>5. Checked(c) /\ OffersInv /\ PinsAreDeclared
  BY <1>0 DEF BatchInv, CheckedInv
<1>6. texts' = IF Cardinality(c.previous) = 1 /\ Cardinality(c.current) = 1
               THEN Synced(c) ELSE texts
  BY DEF SyncPins
<1>7. StagedTexts(batch, done \cup {c})' /\ DOMAIN texts' \subseteq Packages
  BY <1>0, <1>2, <1>3, <1>4, <1>5, <1>6, SyncedTexts
<1>8. TypeOK'
  BY <1>0, <1>2, <1>7, TextsTyped DEF TypeOK
<1>9. CandidatesInv'
  BY <1>0, <1>2 DEF BatchInv, CandidatesInv
<1>10. CheckedInv'
  BY <1>0, <1>2 DEF BatchInv, CheckedInv, Checked, Compatible
<1>11. StagingInv'
  BY <1>2, <1>3, <1>4, <1>7 DEF StagingInv
<1>. QED BY <1>0, <1>8, <1>9, <1>10, <1>11, CommandKeeps

(* A failed application leaves the tree as it was.                         *)
LEMMA ApplyFailsKeeps ==
    ASSUME BatchInv, ApplyFails
    PROVE  BatchInv'
BY SpendForm, EndsKeeps DEF ApplyFails, BatchInv

(* What is written is a batch that was checked and staged whole.           *)
LEMMA WriteEffect ==
    ASSUME BatchInv, Write
    PROVE  /\ ~Conflicting(process.candidates) /\ StagedForm(process.candidates, tree')
           /\ \A c \in process.candidates : c \in Candidate /\ Checked(c)
           /\ OnePerPackage(process.candidates)
           /\ process' = Idle /\ texts' = NoTexts /\ UNCHANGED <<upstream, report, budget>>
<1>1. /\ TypeOK /\ OffersInv /\ process.candidates \in SUBSET Candidate
      /\ process.doing = "pin" /\ process.todo = {}
  BY DEF BatchInv, TypeOK, Process, Write
<1>2. \A c \in process.candidates : Checked(c)
  BY <1>1 DEF BatchInv, CheckedInv
<1>3. OnePerPackage(process.candidates)
  BY DEF BatchInv, CandidatesInv
<1>4. PICK batch \in SUBSET Candidate : batch = process.candidates
  BY <1>1
<1>5. Done = batch
  BY <1>1, <1>4 DEF Done
<1>6. StagedTexts(batch, batch) /\ ~Conflicting(batch)
  BY <1>1, <1>4, <1>5 DEF BatchInv, StagingInv
<1>7. StagedForm(batch, Written(batch))
  BY <1>1, <1>2, <1>4, <1>6, StagedEffect
<1>8. tree' = Written(batch)
  BY <1>4 DEF Write
<1>9. StagedForm(process.candidates, tree')
  BY <1>4, <1>7, <1>8
<1>. QED BY <1>1, <1>2, <1>3, <1>4, <1>6, <1>9 DEF Write

(* A staged batch leaves a tree whose pins and ranges hold.                *)
LEMMA StagedTree ==
    ASSUME BatchInv, StagedForm(process.candidates, tree'),
           \A c \in process.candidates : c \in Candidate /\ Checked(c)
    PROVE  TreeInv'
<1>0. /\ tree' \in Trees /\ tree'.bound = tree.bound
      /\ \A p \in Packages : tree.declared[p] \in Offers[p]
  BY DEF StagedForm, BatchInv, OffersInv
<1>1. ASSUME NEW p \in Packages
      PROVE  /\ tree'.declared[p] \in Offers[p]
             /\ tree'.declared[p] \subseteq tree.bound[p]
  <2>1. CASE \E c \in process.candidates : c.package = p
    <3>1. PICK c \in process.candidates : c.package = p
      BY <2>1
    <3>. QED BY <3>1 DEF StagedForm, Checked, Compatible
  <2>2. CASE \A c \in process.candidates : c.package # p
    BY <1>0, <2>2 DEF StagedForm, BatchInv, RangesHold
  <2>. QED BY <2>1, <2>2
<1>2. ASSUME NEW pin \in Pins
      PROVE  tree'.pin[pin] \in tree'.declared[pin[2]]
  <2>1. pin[2] \in Packages /\ tree.pin[pin] \in tree.declared[pin[2]]
    BY BatchAssumption DEF BatchInv, PinsAreDeclared
  <2>2. CASE \E c \in process.candidates : c.package = pin[2]
    <3>1. PICK c \in process.candidates : c.package = pin[2]
      BY <2>2
    <3>2. tree'.declared[pin[2]] = c.current
      BY <3>1 DEF StagedForm
    <3>. QED BY <3>1, <3>2 DEF StagedForm
  <2>3. CASE \A c \in process.candidates : c.package # pin[2]
    <3>1. tree'.pin[pin] = tree.pin[pin]
      BY <2>3 DEF StagedForm
    <3>2. tree'.declared[pin[2]] = tree.declared[pin[2]]
      BY <2>1, <2>3 DEF StagedForm
    <3>. QED BY <2>1, <3>1, <3>2
  <2>. QED BY <2>2, <2>3
<1>. QED BY <1>0, <1>1, <1>2 DEF TreeInv, PinsAreDeclared, RangesHold

(* The tree that is written is in order.                                   *)
LEMMA WriteKeeps ==
    ASSUME BatchInv, Write
    PROVE  BatchInv'
<1>1. TreeInv' /\ process' = Idle /\ texts' = NoTexts /\ UNCHANGED <<upstream, report, budget>>
  BY WriteEffect, StagedTree
<1>2. TypeOK'
  BY <1>1, IdleForm DEF BatchInv, TypeOK, TreeInv
<1>3. OffersInv'
  BY <1>1 DEF BatchInv, OffersInv, TreeInv
<1>4. CandidatesInv' /\ CheckedInv' /\ StagingInv'
  BY <1>1, IdleForm DEF BatchInv, CandidatesInv, CheckedInv, StagingInv, OnePerPackage
<1>. QED BY <1>1, <1>2, <1>3, <1>4 DEF BatchInv, TreeInv

-----------------------------------------------------------------------------
(* The theorems.                                                           *)

(* At first nothing is reported and the tree is consistent.                *)
LEMMA InitInv == Init => BatchInv
<1> SUFFICES ASSUME Init PROVE BatchInv
  OBVIOUS
<1> DEFINE pins == [pin \in Pins |-> Greatest(First[pin[2]])]
           bound == [p \in Packages |-> Versions]
           fixture == [p \in Packages |-> Greatest(First[p])]
<1>0. \A p \in Packages : /\ First[p] \in Offers[p] /\ First[p] \subseteq Versions
                          /\ Greatest(First[p]) \in First[p]
  BY BatchAssumption, OfferForm
<1>1. tree = [declared |-> First, pin |-> pins, bound |-> bound, fixture |-> fixture]
  BY DEF Init
<1>2. \A pin \in Pins : pin[2] \in Packages
  BY BatchAssumption
<1>3. /\ First \in [Packages -> SUBSET Versions] /\ pins \in [Pins -> Versions]
      /\ bound \in [Packages -> SUBSET Versions] /\ fixture \in [Packages -> Versions]
  BY <1>0, <1>2, BatchAssumption
<1>4. /\ \A pin \in Pins : pins[pin] \in First[pin[2]]
      /\ \A p \in Packages : bound[p] = Versions
  BY <1>0, <1>2
<1> HIDE DEF pins, bound, fixture
<1>5. tree \in Trees /\ tree.declared = First /\ tree.pin = pins /\ tree.bound = bound
  BY <1>1, <1>3 DEF Trees
<1>6. budget \in [{"move", "edit", "error"} -> Nat]
  BY BatchAssumption DEF Init
<1>7. report \in [success : BOOLEAN, candidates : SUBSET Candidate] /\ report.candidates = {}
  BY DEF Init
<1>8. TypeOK
  BY <1>3, <1>5, <1>6, <1>7, IdleForm DEF Init, TypeOK
<1>9. OffersInv
  BY <1>0, <1>5 DEF Init, OffersInv
<1>10. CandidatesInv /\ CheckedInv /\ StagingInv
  BY <1>7, IdleForm DEF Init, CandidatesInv, CheckedInv, StagingInv, OnePerPackage
<1>11. PinsAreDeclared /\ RangesHold
  BY <1>0, <1>4, <1>5 DEF PinsAreDeclared, RangesHold
<1>. QED BY <1>8, <1>9, <1>10, <1>11 DEF BatchInv

(* Every step keeps the invariant.                                         *)
LEMMA StepInv == BatchInv /\ [Next]_vars => BatchInv'
<1> SUFFICES ASSUME BatchInv, [Next]_vars PROVE BatchInv'
  OBVIOUS
<1>1. CASE Command
  <2>1. CASE StartApply
    BY <2>1, StartApplyKeeps
  <2>2. CASE Write
    BY <2>2, WriteKeeps
  <2>3. CASE WriteReport
    BY <2>3, WriteReportKeeps
  <2>4. CASE StartDiscover
    BY <2>4, StartDiscoverKeeps
  <2>5. CASE \E p \in Packages : Look(p) \/ LookFails(p)
    BY <2>5, LookKeeps, LookFailsKeeps
  <2>6. CASE \E c \in process.candidates : Revalidate(c) \/ Declare(c) \/ SyncPins(c)
    <3>1. PICK c \in process.candidates : Revalidate(c) \/ Declare(c) \/ SyncPins(c)
      BY <2>6
    <3>. QED BY <3>1, RevalidateKeeps, DeclareKeeps, SyncPinsKeeps
  <2>7. CASE ApplyFails
    BY <2>7, ApplyFailsKeeps
  <2>8. CASE NextLoop
    BY <2>8, NextLoopKeeps
  <2>. QED BY <1>1, <2>1, <2>2, <2>3, <2>4, <2>5, <2>6, <2>7, <2>8 DEF Command
<1>2. ASSUME NEW p \in Packages, UpstreamMoves(p)
      PROVE  BatchInv'
  BY <1>2, UpstreamMovesKeeps
<1>3. ASSUME NEW p \in Packages, MaintainerUpdates(p)
      PROVE  BatchInv'
  BY <1>3, MaintainerUpdatesEffect, MaintainerKeeps DEF MaintainerUpdates
<1>4. ASSUME NEW p \in Packages, MaintainerNarrows(p)
      PROVE  BatchInv'
  BY <1>4, MaintainerNarrowsEffect, MaintainerKeeps DEF MaintainerNarrows
<1>5. CASE UNCHANGED vars
  <2>1. StagingInv'
    BY <1>5, StagingSame DEF vars, BatchInv
  <2>. QED BY <1>5, <2>1 DEF vars, BatchInv, TypeOK, OffersInv, CandidatesInv, CheckedInv, Checked,
                             Compatible, PinsAreDeclared, RangesHold
<1>. QED BY <1>1, <1>2, <1>3, <1>4, <1>5 DEF Next, Outside

(* The inductive invariant: when a batch is written, every candidate of it *)
(* has been found to fit the very tree that is written.                    *)
THEOREM BatchInvariant == Spec => []BatchInv
BY InitInv, StepInv, PTL DEF Spec

(* Pins are declared and declarations stay inside the ranges, however old  *)
(* the report is that the batch is taken from.                             *)
THEOREM Consistent == Spec => []TreeIsConsistent
<1>1. BatchInv => TreeIsConsistent
  BY DEF BatchInv, TreeIsConsistent
<1>. QED BY <1>1, BatchInvariant, PTL

(* Only these steps change the tree.                                       *)
LEMMA TreeSteps ==
    ASSUME [Next]_vars
    PROVE  \/ UNCHANGED tree
           \/ Write
           \/ \E p \in Packages : MaintainerUpdates(p) \/ MaintainerNarrows(p)
BY DEF Next, Command, Outside, vars, StartApply, NextLoop, WriteReport, StartDiscover, Look,
       LookFails, Revalidate, Declare, SyncPins, ApplyFails, UpstreamMoves

(* What a package declares after a step was compatible with what it        *)
(* declared before, or is the same.                                        *)
LEMMA DeclaredStep ==
    ASSUME BatchInv, [Next]_vars, NEW p \in Packages
    PROVE  tree'.declared[p] = tree.declared[p] \/ Compatible(p, tree'.declared[p])
<1>1. CASE Write
  <2>1. CASE \E c \in process.candidates : c.package = p
    <3>1. PICK c \in process.candidates : c.package = p
      BY <2>1
    <3>2. tree'.declared[p] = c.current /\ Compatible(p, c.current)
      BY <1>1, <3>1, WriteEffect DEF StagedForm, Checked
    <3>. QED BY <3>2
  <2>2. CASE \A c \in process.candidates : c.package # p
    BY <1>1, <2>2, WriteEffect DEF StagedForm
  <2>. QED BY <2>1, <2>2
<1>2. ASSUME NEW q \in Packages, MaintainerUpdates(q)
      PROVE  tree'.declared[p] = tree.declared[p] \/ Compatible(p, tree'.declared[p])
  BY <1>2, MaintainerUpdatesEffect DEF BatchInv, TypeOK, Trees
<1>3. ASSUME NEW q \in Packages, MaintainerNarrows(q)
      PROVE  tree'.declared[p] = tree.declared[p]
  BY <1>3, MaintainerNarrowsEffect
<1>. QED BY <1>1, <1>2, <1>3, TreeSteps

(* No major version is ever taken back, by a batch or by a maintainer.     *)
THEOREM NeverDown == Spec => NoDowngrade
<1>1. ASSUME BatchInv, [Next]_vars, NEW p \in Packages,
             NEW v \in tree.declared[p], NEW w \in tree'.declared[p], Major(v) = Major(w)
      PROVE  v <= w
  <2>0. tree.declared[p] \in Offers[p] /\ v \in Nat
    <3>1. PICK offer \in Offers[p] : offer = tree.declared[p]
      BY <1>1 DEF BatchInv, OffersInv
    <3>2. offer \subseteq Nat
      BY OfferForm, BatchAssumption
    <3>. QED BY <1>1, <3>1, <3>2
  <2>1. \A x \in tree.declared[p] : Major(x) = Major(v) => x = v
    BY <2>0, BatchAssumption
  <2>2. CASE tree'.declared[p] = tree.declared[p]
    BY <1>1, <2>0, <2>1, <2>2
  <2>3. CASE Compatible(p, tree'.declared[p])
    <3>1. PICK x \in tree.declared[p] : Major(x) = Major(w) /\ x <= w
      BY <1>1, <2>3 DEF Compatible
    <3>. QED BY <1>1, <2>1, <3>1
  <2>. QED BY <1>1, <2>2, <2>3, DeclaredStep
<1>2. BatchInv /\ [Next]_vars =>
        [\A p \in Packages : \A v \in tree.declared[p], w \in tree'.declared[p] :
            Major(v) = Major(w) => v <= w]_vars
  BY <1>1
<1>. QED BY <1>2, BatchInvariant, PTL DEF Spec, NoDowngrade

(* A batch that changes the tree gives every package of it the versions it *)
(* was selected for, in its declaration and in the pins of all consumers,  *)
(* and no other package any: the edits are staged one by one, in any order *)
(* and in recipes that several packages of the batch change, and none of   *)
(* them is lost or undone.                                                 *)
THEOREM Whole == Spec => BatchIsWhole
<1> DEFINE Follows(p) ==
        \/ \E c \in process.candidates :
                /\ c.package = p /\ tree'.declared[p] = c.current
                /\ \A pin \in Pins : pin[2] = p => tree'.pin[pin] \in c.current
        \/ /\ \A c \in process.candidates : c.package # p
           /\ tree'.declared[p] = tree.declared[p]
           /\ \A pin \in Pins : pin[2] = p => tree'.pin[pin] = tree.pin[pin]
<1>1. ASSUME BatchInv, [Next]_vars, process.doing # "nothing", tree' # tree, NEW p \in Packages
      PROVE  Follows(p)
  <2>1. Write
    BY <1>1, TreeSteps DEF MaintainerUpdates, MaintainerNarrows
  <2>2. StagedForm(process.candidates, tree')
    BY <1>1, <2>1, WriteEffect
  <2>3. CASE \E c \in process.candidates : c.package = p
    <3>1. PICK c \in process.candidates : c.package = p
      BY <2>3
    <3>2. tree'.declared[p] = c.current
      BY <2>2, <3>1 DEF StagedForm
    <3>3. \A pin \in Pins : pin[2] = p => tree'.pin[pin] \in c.current
      BY <2>2, <3>1 DEF StagedForm
    <3>. QED BY <3>1, <3>2, <3>3
  <2>4. CASE ~\E c \in process.candidates : c.package = p
    BY <2>2, <2>4 DEF StagedForm
  <2>. QED BY <2>3, <2>4
<1>2. BatchInv /\ [Next]_vars =>
        [(process.doing # "nothing" /\ tree' # tree) => \A p \in Packages : Follows(p)]_vars
  BY <1>1
<1>. QED BY <1>2, BatchInvariant, PTL DEF Spec, BatchIsWhole

(* The fixture of a package follows when its version is replaced, unless   *)
(* the replacements conflict, and then nothing is written.                 *)
LEMMA ReplacedFixture ==
    ASSUME NEW batch, ~Conflicting(batch),
           NEW c \in batch, NEW p \in Packages, c.current \in Offers[p],
           NEW v \in c.previous \ c.current, NEW w \in c.current, Major(w) = Major(v)
    PROVE  Rewrite(v, batch) \in c.current
<1> DEFINE new == Greatest({x \in c.current : Major(x) = Major(v)})
           r == <<v, new>>
<1>1. r \in Substitutions(c)
  BY DEF Substitutions
<1>2. r \in Replacements(batch) /\ new \in c.current
  BY <1>1, SubstitutionForm DEF Replacements
<1>3. PICK q \in Replacements(batch) : q[1] = v /\ Rewrite(v, batch) = q[2]
  BY <1>2 DEF Rewrite
<1>4. q[2] = new
  BY <1>2, <1>3 DEF Conflicting
<1>. QED BY <1>2, <1>3, <1>4

(* A package that declares several versions shares none with another.      *)
OwnVersions ==
    \A p, q \in Packages : p # q =>
        \/ \A offer \in Offers[p] : \A v, w \in offer : v = w
        \/ \A offer \in Offers[p], other \in Offers[q] : offer \cap other = {}

(* A fixture that still holds is left alone by the other packages of the   *)
(* batch.                                                                  *)
LEMMA KeptFixture ==
    ASSUME OwnVersions, NEW batch, NEW c \in batch, OnePerPackage(batch),
           \A d \in batch : d.package \in Packages /\ d.current \in Offers[d.package]
                            /\ d.previous \in Offers[d.package],
           c.previous # c.current, NEW v \in c.previous, v \in c.current
    PROVE  Rewrite(v, batch) = v
<1>1. ASSUME NEW r \in Replacements(batch)
      PROVE  r[1] # v
  <2>1. PICK d \in batch : r \in Substitutions(d)
    BY DEF Replacements
  <2>2. r[1] \in d.previous \ d.current
    BY <2>1, SubstitutionForm
  <2>3. CASE d = c
    BY <2>2, <2>3
  <2>4. CASE d # c
    <3>1. d.package # c.package
      BY <2>4 DEF OnePerPackage
    <3>2. CASE \A offer \in Offers[c.package] : \A x, y \in offer : x = y
      BY <3>2
    <3>3. CASE \A offer \in Offers[c.package], other \in Offers[d.package] :
                 offer \cap other = {}
      BY <2>2, <3>3
    <3>. QED BY <3>1, <3>2, <3>3 DEF OwnVersions
  <2>. QED BY <2>3, <2>4
<1>. QED BY <1>1 DEF Rewrite

(* Fixtures go with the declarations, if a package with several versions   *)
(* has none that another package has too: two of the same name cannot be   *)
(* told apart in the text of the tests.                                    *)
THEOREM FixturesGo ==
    ASSUME OwnVersions
    PROVE  Spec => FixturesFollow
<1>1. ASSUME BatchInv, [Next]_vars, NEW p \in Packages, Changed(p),
             tree.fixture[p] \in tree.declared[p],
             \E w \in tree'.declared[p] : Major(w) = Major(tree.fixture[p])
      PROVE  tree'.fixture[p] \in tree'.declared[p]
  <2>1. CASE Write
    <3>1. StagedForm(process.candidates, tree') /\ ~Conflicting(process.candidates)
      BY <1>1, <2>1, WriteEffect DEF Changed
    <3>2. PICK c \in process.candidates : c.package = p
      BY <1>1, <3>1 DEF StagedForm, Changed
    <3>3. /\ tree'.declared[p] = c.current
          /\ tree'.fixture[p] = Rewrite(tree.fixture[p], process.candidates)
      BY <3>1, <3>2 DEF StagedForm
    <3>4. /\ OnePerPackage(process.candidates)
          /\ \A d \in process.candidates :
               d.package \in Packages /\ d.current \in Offers[d.package]
               /\ d.previous \in Offers[d.package]
          /\ c.previous = tree.declared[p]
      BY <1>1, <2>1, <3>2, WriteEffect DEF Checked, Candidate, BatchInv, OffersInv
    <3>5. PICK batch, v : batch = process.candidates /\ v = tree.fixture[p]
      OBVIOUS
    <3>6. CASE v \in c.current
      <4>1. Rewrite(v, batch) = v
        BY <1>1, <3>2, <3>3, <3>4, <3>5, <3>6, KeptFixture DEF Changed
      <4>. QED BY <3>3, <3>5, <3>6, <4>1
    <3>7. CASE v \notin c.current
      <4>1. Rewrite(v, batch) \in c.current
        BY <1>1, <3>1, <3>2, <3>3, <3>4, <3>5, <3>7, ReplacedFixture
      <4>. QED BY <3>3, <3>5, <4>1
    <3>. QED BY <3>6, <3>7
  <2>2. ASSUME NEW q \in Packages, MaintainerUpdates(q)
        PROVE  tree'.fixture[p] \in tree'.declared[p]
    <3>0. /\ tree'.declared = [tree.declared EXCEPT ![q] = upstream[q]]
          /\ tree'.fixture = [tree.fixture EXCEPT ![q] = Greatest(upstream[q])]
          /\ Compatible(q, upstream[q])
          /\ tree \in Trees
      BY <1>1, <2>2, MaintainerUpdatesEffect DEF BatchInv, TypeOK
    <3>1. p = q
      BY <1>1, <3>0 DEF Changed, Trees
    <3>2. upstream[p] \in Offers[p] /\ upstream[p] # {}
      BY <1>1, <3>0, <3>1 DEF BatchInv, OffersInv, Compatible
    <3>3. PICK offer \in Offers[p] : offer = upstream[p]
      BY <3>2
    <3>4. Greatest(upstream[p]) \in upstream[p]
      BY <3>2, <3>3, OfferForm
    <3>. QED BY <3>0, <3>1, <3>4 DEF Trees
  <2>3. ASSUME NEW q \in Packages, MaintainerNarrows(q)
        PROVE  FALSE
    BY <1>1, <2>3, MaintainerNarrowsEffect DEF Changed
  <2>. QED BY <1>1, <2>1, <2>2, <2>3, TreeSteps DEF Changed
<1>2. BatchInv /\ [Next]_vars =>
        [\A p \in Packages :
            /\ Changed(p)
            /\ tree.fixture[p] \in tree.declared[p]
            /\ \E w \in tree'.declared[p] : Major(w) = Major(tree.fixture[p])
            => tree'.fixture[p] \in tree'.declared[p]]_vars
  BY <1>1
<1>. QED BY <1>2, BatchInvariant, PTL DEF Spec, FixturesFollow

=============================================================================
