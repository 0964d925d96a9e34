--------------------------- MODULE IndexProjection ---------------------------
(***************************************************************************)
(* The pure part of the publication service: what a snapshot fragment is,  *)
(* and how the public index is projected from a set of fragments           *)
(* (publication.py: fragment, project_index, validate_index).              *)
(*                                                                         *)
(* Names, coordinates and digests are opaque; a release tag and a          *)
(* publication time are numbers because the code orders by them.  A file   *)
(* name is a number because the code walks the files in name order.        *)
(***************************************************************************)
EXTENDS Naturals

CONSTANTS
    Tags,         \* release tags (twelve-digit UTC minutes)
    Times,        \* publication times, assigned by GitHub
    Names,        \* release file names
    Coordinates,  \* (package, source version, target) triples
    Digests       \* SHA-256 values

ASSUME OrderedData ==
    /\ Tags \subseteq Nat \ {0}
    /\ Times \subseteq Nat
    /\ Names \subseteq Nat

(* The distributions a release makes public; the other roles a manifest    *)
(* lists are never downloaded.                                             *)
File == [name : Names, coordinate : Coordinates,
         role : {"primary-archive", "dbgsym"}, sha256 : Digests]

Fragment == [tag : Tags, published_at : Times, successful : SUBSET File]

LatestRecord == [tag : Tags, coordinate : Coordinates, files : SUBSET File]

IndexBody == [snapshots : SUBSET Fragment, latest : SUBSET LatestRecord]

CoordinatesOf(fragment) == {file.coordinate : file \in fragment.successful}

FilesAt(fragment, coordinate) ==
    {file \in fragment.successful : file.coordinate = coordinate}

(* The order of the projection: publication time, then tag.                *)
Newer(f, g) ==
    \/ f.published_at > g.published_at
    \/ f.published_at = g.published_at /\ f.tag > g.tag

(* Mutant: the snapshots are walked oldest first.                          *)
OldestOf(fragments, coordinate) ==
    {f \in fragments :
        /\ coordinate \in CoordinatesOf(f)
        /\ \A g \in fragments : coordinate \in CoordinatesOf(g) => ~Newer(f, g)}

NewestOf(fragments, coordinate) ==
    {f \in fragments :
        /\ coordinate \in CoordinatesOf(f)
        /\ \A g \in fragments : coordinate \in CoordinatesOf(g) => ~Newer(g, f)}

(* Mutant: the entries of `latest` do not say which release they are from. *)
LatestWithoutTag(fragments) ==
    UNION {{[coordinate |-> c, files |-> FilesAt(f, c)] :
                c \in {d \in CoordinatesOf(f) : f \in NewestOf(fragments, d)}} :
           f \in fragments}

Latest(fragments) ==
    UNION {{[tag |-> f.tag, coordinate |-> c, files |-> FilesAt(f, c)] :
                c \in {d \in CoordinatesOf(f) : f \in NewestOf(fragments, d)}} :
           f \in fragments}

ProjectIndex(fragments) ==
    [snapshots |-> fragments, latest |-> Latest(fragments)]

(* What a reader of the stored index checks before using it: no tag occurs *)
(* twice, and the document is the projection of its own snapshots.         *)
ValidateIndex(body) ==
    /\ \A f, g \in body.snapshots : f.tag = g.tag => f = g
    /\ ProjectIndex(body.snapshots) = body

==============================================================================
