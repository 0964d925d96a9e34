----------------------------- MODULE VersionFeed -----------------------------
(***************************************************************************)
(* The public inventory: GET /index.json and GET /versions.ndjson          *)
(* (main.py: get_index, get_versions; publication.py: versions_ndjson,     *)
(* _postgres_version_key, _postgres_semver).                               *)
(*                                                                         *)
(* The index that is stored when a request is served is any that the       *)
(* ingestion may have left, which demands of a source version that it is   *)
(* not empty.  A source version is the sequence of its numbers with the    *)
(* phase and the number of a prerelease; a target is a number because the  *)
(* archives of a line are ordered by it.                                   *)
(***************************************************************************)
EXTENDS Naturals, Sequences, FiniteSets

CONSTANTS
    Tags,       \* release tags, all numbers
    Targets,    \* build targets, all numbers
    Versions,   \* source versions that occur
    Digests,
    Histories   \* sequences of snapshots, the newest first, as the index lists them

Phases == {"alpha", "beta", "rc", "release"}

(* 19beta4 is [numbers |-> <<19>>, phase |-> "beta", number |-> 4].        *)
Version == [numbers : Seq(Nat), phase : Phases, number : Nat]

Record == [version : Versions, target : Targets, sha256 : Digests]

Snapshot == [tag : Tags, successful : SUBSET Record]

(* What validate_index demands: no tag and no coordinate occurs twice.      *)
Canonical(snapshots) ==
    /\ snapshots \in Seq(Snapshot)
    /\ \A i, j \in DOMAIN snapshots : snapshots[i].tag = snapshots[j].tag => i = j
    /\ \A i \in DOMAIN snapshots :
        /\ IsFiniteSet(snapshots[i].successful)
        /\ \A r, q \in snapshots[i].successful :
                r.version = q.version /\ r.target = q.target => r = q

ASSUME FeedAssumption ==
    /\ Tags \subseteq Nat /\ Targets \subseteq Nat
    /\ Versions \subseteq Version
    /\ \A snapshots \in Histories : Canonical(snapshots)

VARIABLES
    stored,   \* what index.json holds
    response  \* the last response

feedVars == <<stored, response>>

NoIndex == [state |-> "none", snapshots |-> <<>>]
CorruptIndex == [state |-> "corrupt", snapshots |-> <<>>]
Index(snapshots) == [state |-> "canonical", snapshots |-> snapshots]

NoAnswer == [route |-> "none", status |-> 0, lines |-> <<>>]

FeedInit ==
    /\ stored \in {NoIndex, CorruptIndex} \cup {Index(h) : h \in Histories}
    /\ response = NoAnswer

-----------------------------------------------------------------------------
(* Versions.                                                               *)

(* What the regular expression of _postgres_version_key lets through.      *)
IsPostgresVersion(v) == Len(v.numbers) \in 1 .. 3

Component(v, i) == IF i <= Len(v.numbers) THEN v.numbers[i] ELSE 0

PhaseOrder(v) == CASE v.phase = "alpha" -> 0 [] v.phase = "beta" -> 1
                   [] v.phase = "rc" -> 2 [] v.phase = "release" -> 3

(* Mutant: a release sorts before its prereleases.                         *)
VersionKeyReleaseFirst(v) ==
    <<Component(v, 1), Component(v, 2), Component(v, 3), (PhaseOrder(v) + 1) % 4, v.number>>

VersionKey(v) ==
    <<Component(v, 1), Component(v, 2), Component(v, 3), PhaseOrder(v), v.number>>

KeyLess(k, l) ==
    \E i \in 1 .. 5 : k[i] < l[i] /\ \A j \in 1 .. i - 1 : k[j] = l[j]

(* The version of a line without its tag; a release has no prerelease      *)
(* identifiers.                                                            *)
Semver(v) ==
    [core |-> <<Component(v, 1), Component(v, 2), Component(v, 3)>>,
     pre |-> IF v.phase = "release" THEN <<>> ELSE <<v.phase, v.number>>]

-----------------------------------------------------------------------------
(* The feed.                                                               *)

(* The elements of S in the order of `before', a total order on S.         *)
InOrder(S, before) ==
    [i \in 1 .. Cardinality(S) |->
        CHOOSE x \in S : Cardinality({y \in S : <<y, x>> \in before}) = i - 1]

(* Mutant: of versions that compare equal only one is listed.              *)
VersionsOfByKey(snapshot) ==
    LET versions == {record.version : record \in snapshot.successful}
    IN {CHOOSE v \in versions : VersionKey(v) = k : k \in {VersionKey(v) : v \in versions}}

VersionsOf(snapshot) == {record.version : record \in snapshot.successful}

(* Greatest version first; versions with the same key stay in the order of *)
(* the records, which is that of their names: 19 before 19.0, but 19beta1  *)
(* after 19.0beta1, a dot being before a letter.                           *)
Precedes(u, v) ==
    \/ KeyLess(VersionKey(v), VersionKey(u))
    \/ /\ VersionKey(u) = VersionKey(v)
       /\ IF u.phase = "release" THEN Len(u.numbers) < Len(v.numbers)
                                 ELSE Len(u.numbers) > Len(v.numbers)

ByPrecedence(versions) == {p \in versions \X versions : Precedes(p[1], p[2])}

RecordsOf(snapshot, version) == {r \in snapshot.successful : r.version = version}

ByTarget(records) == {p \in records \X records : p[1].target < p[2].target}

Artifacts(snapshot, version) ==
    InOrder(RecordsOf(snapshot, version), ByTarget(RecordsOf(snapshot, version)))

Line(snapshot, version) ==
    [tag |-> snapshot.tag, version |-> Semver(version),
     artifacts |-> [i \in DOMAIN Artifacts(snapshot, version) |->
         [target |-> Artifacts(snapshot, version)[i].target,
          sha256 |-> Artifacts(snapshot, version)[i].sha256]]]

Lines(snapshot) ==
    LET versions == InOrder(VersionsOf(snapshot), ByPrecedence(VersionsOf(snapshot)))
    IN [i \in DOMAIN versions |-> Line(snapshot, versions[i])]

VersionsNdjson(snapshots) ==
    LET upTo[n \in 0 .. Len(snapshots)] ==
            IF n = 0 THEN <<>> ELSE upTo[n - 1] \o Lines(snapshots[n])
    IN upTo[Len(snapshots)]

(* A version the key does not know is an error for the whole feed.         *)
Feedable(snapshots) ==
    \A i \in DOMAIN snapshots : \A v \in VersionsOf(snapshots[i]) : IsPostgresVersion(v)

GetIndex ==
    /\ response' = [route |-> "index.json", lines |-> stored.snapshots,
                  status |-> CASE stored.state = "none" -> 404
                               [] stored.state = "corrupt" -> 500
                               [] OTHER -> 200]
    /\ UNCHANGED stored

GetVersions ==
    /\ response' =
        IF stored.state = "none" THEN [route |-> "versions.ndjson", status |-> 404, lines |-> <<>>]
        ELSE IF stored.state = "corrupt" \/ ~Feedable(stored.snapshots)
             THEN [route |-> "versions.ndjson", status |-> 500, lines |-> <<>>]
        ELSE [route |-> "versions.ndjson", status |-> 200,
              lines |-> VersionsNdjson(stored.snapshots)]
    /\ UNCHANGED stored

FeedNext == GetIndex \/ GetVersions

FeedSpec == FeedInit /\ [][FeedNext]_feedVars

-----------------------------------------------------------------------------
(* Properties.                                                             *)

(* Precedence as the SemVer specification defines it: the numbers, then a  *)
(* prerelease before its release, then its identifiers, words in ASCII     *)
(* order and numbers as numbers.                                           *)
SemverLess(a, b) ==
    LET word(x) == CHOOSE i \in 1 .. 3 : <<"alpha", "beta", "rc">>[i] = x
    IN \/ a.core[1] < b.core[1]
       \/ a.core[1] = b.core[1] /\ a.core[2] < b.core[2]
       \/ a.core[1] = b.core[1] /\ a.core[2] = b.core[2] /\ a.core[3] < b.core[3]
       \/ /\ a.core = b.core /\ a.pre # <<>>
          /\ \/ b.pre = <<>>
             \/ word(a.pre[1]) < word(b.pre[1])
             \/ a.pre[1] = b.pre[1] /\ a.pre[2] < b.pre[2]

Served == response.route = "versions.ndjson" /\ response.status = 200

(* Of the lines of one release, an earlier one never has a lower           *)
(* precedence, by the definition of SemVer and not by the key the code     *)
(* sorts with.                                                             *)
FeedIsInPrecedenceOrder ==
    Served => \A i, j \in DOMAIN response.lines :
        i < j /\ response.lines[i].tag = response.lines[j].tag
            => ~SemverLess(response.lines[i].version, response.lines[j].version)

(* What lines offer, and at how many places; what an index lists, and how  *)
(* often.                                                                  *)
Offered(lines) ==
    UNION {{<<lines[i].tag, lines[i].version, lines[i].artifacts[j]>> :
                j \in DOMAIN lines[i].artifacts} : i \in DOMAIN lines}
Places(lines) == UNION {{<<i, j>> : j \in DOMAIN lines[i].artifacts} : i \in DOMAIN lines}

Indexed(snapshots) ==
    UNION {{<<snapshots[i].tag, Semver(r.version), [target |-> r.target, sha256 |-> r.sha256]>> :
                r \in snapshots[i].successful} : i \in DOMAIN snapshots}
Entries(snapshots) == UNION {{<<i, r>> : r \in snapshots[i].successful} : i \in DOMAIN snapshots}

(* Every archive of the index is offered once in the feed, under its own   *)
(* release, version, target and digest, and nothing else is; versions that *)
(* compare equal, such as 19 and 19.0, do not hide each other's.           *)
FeedIsTheIndex ==
    Served =>
        /\ Offered(response.lines) = Indexed(stored.snapshots)
        /\ Cardinality(Places(response.lines)) = Cardinality(Entries(stored.snapshots))

==============================================================================
