--------------------------- MODULE ReleaseListing ---------------------------
(***************************************************************************)
(* The latest release of a GitHub repository, read from its public pages   *)
(* (src/postgresbuild/github.py): the designated one, or the greatest      *)
(* stable one of a major version among the first releases of the listing.  *)
(*                                                                         *)
(* The listing is read page by page, newest release first; releases are    *)
(* published and deleted between two pages.  A release is a number, and    *)
(* the greater is the later version.                                       *)
(***************************************************************************)
EXTENDS Naturals, Sequences, FiniteSetsExt, SequencesExt

CONSTANTS
    Releases,   \* all that may be published, all numbers
    Stable,     \* those that match the tag and the major version of the policy
    PageSize,   \* releases on a web page; 10 at GitHub
    Pages,      \* pages that are read at most; 10
    Limit,      \* releases that count; 100
    Initial,    \* listings at first
    MaxBurst,   \* releases published while one call reads its pages
    MaxDeletions \* releases deleted while one call reads its pages

ASSUME ListingAssumption ==
    /\ Releases \subseteq Nat \ {0} /\ Stable \subseteq Releases
    /\ {PageSize, Pages, Limit} \subseteq Nat \ {0} /\ {MaxBurst, MaxDeletions} \subseteq Nat
    /\ \A listing \in Initial : listing \in Seq(Releases) /\ IsInjective(listing)

VARIABLES
    listing,    \* the published releases, newest first
    used,       \* releases that have been published
    designated, \* what /releases/latest redirects to, 0 if nothing
    scan,       \* a call of latest_release
    deletions

vars == <<listing, used, designated, scan, deletions>>

(* page: pages read; tags: what they showed; began: the listing when the   *)
(* first was read; burst: releases published since; answer: a release, or 0.*)
Scan == [phase : {"idle", "reading", "answered", "failed"}, page : 0 .. Pages,
         tags : Seq(Releases), began : Seq(Releases), burst : 0 .. MaxBurst,
         answer : Releases \cup {0}]

TypeOK ==
    /\ listing \in Seq(Releases) /\ IsInjective(listing)
    /\ used \subseteq Releases /\ ToSet(listing) \subseteq used
    /\ designated \in ToSet(listing) \cup {0}
    /\ scan \in Scan
    /\ deletions \in 0 .. MaxDeletions

NewScan == [phase |-> "idle", page |-> 0, tags |-> <<>>, began |-> <<>>, burst |-> 0,
            answer |-> 0]

Init ==
    /\ listing \in Initial
    /\ used = ToSet(listing)
    /\ designated \in ToSet(listing) \cup {0}
    /\ scan = NewScan
    /\ deletions = 0

-----------------------------------------------------------------------------
(* The repository, while a call reads its pages.                           *)

Publish(r) ==
    /\ scan.phase = "reading" /\ scan.burst < MaxBurst
    /\ r \notin used
    /\ listing' = <<r>> \o listing
    /\ used' = used \cup {r}
    /\ designated' \in {designated, r}
    /\ scan' = [scan EXCEPT !.burst = @ + 1]
    /\ UNCHANGED deletions

Delete(i) ==
    /\ deletions < MaxDeletions /\ deletions' = deletions + 1
    /\ scan.phase = "reading" /\ i \in DOMAIN listing
    /\ listing' = RemoveAt(listing, i)
    /\ designated' = IF designated = listing[i] THEN 0 ELSE designated
    /\ UNCHANGED <<used, scan>>

-----------------------------------------------------------------------------
(* A call.                                                                 *)

Page(n) ==
    SubSeq(listing, (n - 1) * PageSize + 1,
           IF n * PageSize < Len(listing) THEN n * PageSize ELSE Len(listing))

HasNext(n) == n * PageSize < Len(listing)

Answer(tags) ==
    LET versions == ToSet(SubSeq(tags, 1, IF Len(tags) < Limit THEN Len(tags) ELSE Limit))
                        \cap Stable
    IN IF versions = {} THEN 0 ELSE Max(versions)

(* Mutant: without a match nothing is kept of the call.                    *)
FinishForgetting(s) ==
    IF Answer(s.tags) = 0 THEN [phase |-> "failed"]
    ELSE [s EXCEPT !.phase = "answered", !.answer = Answer(s.tags)]

Finish(s) ==
    IF Answer(s.tags) = 0 THEN [s EXCEPT !.phase = "failed"]
    ELSE [s EXCEPT !.phase = "answered", !.answer = Answer(s.tags)]

(* Without a major version: the designated release, if it is a stable one. *)
ReadLatest ==
    /\ scan.phase = "idle"
    /\ scan' = IF designated \in Stable
               THEN [NewScan EXCEPT !.phase = "answered", !.began = <<designated>>,
                                    !.answer = designated]
               ELSE [NewScan EXCEPT !.phase = "failed"]
    /\ UNCHANGED <<listing, used, designated, deletions>>

(* Mutant: releases that were on an earlier page already are counted again.*)
ReadPageAgain ==
    /\ scan.phase \in {"idle", "reading"} /\ scan.page < Pages
    /\ LET n == scan.page + 1
           s == [scan EXCEPT !.phase = "reading", !.page = n, !.tags = @ \o Page(n),
                             !.began = IF n = 1 THEN listing ELSE @]
       IN scan' = CASE Page(n) = <<>> -> [s EXCEPT !.phase = "failed"]
                    [] Page(n) # <<>> /\ (Len(s.tags) >= Limit \/ ~HasNext(n)) -> Finish(s)
                    [] OTHER -> s
    /\ UNCHANGED <<listing, used, designated, deletions>>

(* With one: the next page.  A page that is empty or shows a release again *)
(* is an error, and so are too many pages.                                 *)
ReadPage ==
    /\ scan.phase \in {"idle", "reading"} /\ scan.page < Pages
    /\ LET n == scan.page + 1
           s == [scan EXCEPT !.phase = "reading", !.page = n, !.tags = @ \o Page(n),
                             !.began = IF n = 1 THEN listing ELSE @]
           broken == Page(n) = <<>> \/ ToSet(Page(n)) \cap ToSet(scan.tags) # {}
       IN scan' = CASE broken -> [s EXCEPT !.phase = "failed", !.tags = scan.tags]
                    [] ~broken /\ (Len(s.tags) >= Limit \/ ~HasNext(n)) -> Finish(s)
                    [] ~broken /\ Len(s.tags) < Limit /\ HasNext(n) /\ n = Pages ->
                            [s EXCEPT !.phase = "failed"]
                    [] OTHER -> s
    /\ UNCHANGED <<listing, used, designated, deletions>>

Next ==
    \/ ReadLatest \/ ReadPage
    \/ \E r \in Releases : Publish(r)
    \/ \E i \in DOMAIN listing : Delete(i)

Spec == Init /\ [][Next]_vars

-----------------------------------------------------------------------------
(* Properties.                                                             *)

(* The stable releases that counted when the call began, still exist, and  *)
(* are greater than the answer.                                            *)
Missed == {r \in Stable \cap ToSet(listing) :
            r > scan.answer /\ \E i \in DOMAIN scan.began : i <= Limit /\ scan.began[i] = r}

(* A call that reads the pages at different times misses at most one       *)
(* release for each that was deleted meanwhile, and none because of those  *)
(* that were published: those make it fail, as long as they are not more   *)
(* than a page.                                                            *)
MissesOnlyForDeletions == Cardinality(Missed) <= deletions

(* Nor does a release count that was too far down the listing, or that was *)
(* not in it: only as many come up as were deleted.                        *)
AnswerIsAmongFirst ==
    \E i \in DOMAIN scan.began : i <= Limit + deletions /\ scan.began[i] = scan.answer

(* The answer to a call is the greatest of the first releases that counted *)
(* when it began, as far as deletions allow.                               *)
AnswerIsSound == scan.phase = "answered" => MissesOnlyForDeletions /\ AnswerIsAmongFirst

=============================================================================
