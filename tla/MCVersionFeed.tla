---------------------------- MODULE MCVersionFeed ----------------------------
(* Small instances of VersionFeed.                                         *)
EXTENDS VersionFeed

CONSTANTS good, other

Release(numbers) == [numbers |-> numbers, phase |-> "release", number |-> 0]
Pre(numbers, phase, number) == [numbers |-> numbers, phase |-> phase, number |-> number]

(* Releases of two, one and three numbers, equal and unequal ones, and     *)
(* prereleases whose numbers order differently as text.                    *)
PostgresVersions ==
    {Release(<<19, 0>>), Release(<<19>>), Release(<<9, 6, 24>>), Release(<<18, 4>>),
     Pre(<<19>>, "alpha", 1), Pre(<<19>>, "beta", 4), Pre(<<19, 0>>, "beta", 4),
     Pre(<<19>>, "beta", 10), Pre(<<19>>, "rc", 1)}

(* A version that only the ingestion accepts: 19.0.0.1.                    *)
AnyVersions == PostgresVersions \cup {Release(<<19, 0, 0, 1>>)}

On(target, digest, versions) ==
    {[version |-> v, target |-> target, sha256 |-> digest] : v \in versions}

(* Up to five versions on one target, with up to two of them also on a     *)
(* second one, after an older release.                                     *)
HistoriesOf(versions) ==
    {<<[tag |-> 2, successful |-> On(1, good, vs) \cup On(2, other, ws)],
       [tag |-> 1, successful |-> On(1, other, {Release(<<18, 4>>)})]>> :
        vs \in {vs \in SUBSET versions : Cardinality(vs) <= 5},
        ws \in {{}, {Release(<<18, 4>>), Pre(<<19>>, "rc", 1)}}}

MCHistories ==
    HistoriesOf(PostgresVersions) \cup
    {h \in HistoriesOf(AnyVersions) : Cardinality(VersionsOf(h[1])) \in 1 .. 2}

==============================================================================
