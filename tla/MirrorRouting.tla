---------------------------- MODULE MirrorRouting ----------------------------
(***************************************************************************)
(* What the mirror makes of the path of a request (mirror/router.go, and   *)
(* NormalizeRepository in mirror/upstream.go), and what the token service  *)
(* makes of the name in it (upstreamAuth/route.ts).  A path is the         *)
(* sequence of its segments after /v2/.                                    *)
(***************************************************************************)
EXTENDS Integers, Sequences, FiniteSets

CONSTANT Registered   \* slugs of the upstreams that are registered

\* Where a marker stands between slashes, with something before it.
Places(marker, path) == {n \in 2 .. Len(path) - 1 : path[n] = marker}

\* Manifests come first, whatever stands behind them.
Resource(path) == IF Places("manifests", path) # {} THEN "manifests" ELSE "blobs"

Found(path) == Places(Resource(path), path)

Last(n, path) == n \in Found(path) /\ \A m \in Found(path) : m =< n

Splits(path) == \E n \in DOMAIN path : Last(n, path)

\* Mutant: the first place of the marker, not the last.
Split_First(path) ==
    CHOOSE n \in DOMAIN path : n \in Found(path) /\ \A m \in Found(path) : n =< m

\* splitDistributionTail: the last place of the marker.
Split(path) == CHOOSE n \in DOMAIN path : Last(n, path)

Reference(path) == SubSeq(path, Split(path) + 1, Len(path))
NameOf(path)    == SubSeq(path, 1, Split(path) - 1)

-----------------------------------------------------------------------------
(* The name of a repository, as it stands in the path.                     *)

Explicit(name) == name[1] = "aocr"

SlugOf(name) == IF Explicit(name) THEN name[2] ELSE "docker"

Segments(name) == IF Explicit(name) THEN SubSeq(name, 3, Len(name)) ELSE name

\* The repository as its upstream knows it.
Repository(name) ==
    IF SlugOf(name) = "docker" /\ Len(Segments(name)) = 1
      THEN <<"library">> \o Segments(name) ELSE Segments(name)

\* Mutant: the upstream is left out of the path.
Storage_NoUpstream(slug, repository) == <<"mirror">> \o repository

\* Where the writer keeps it.
Storage(slug, repository) == <<"mirror", slug>> \o repository

\* No upstream has that name.
Unknown(name) == (Explicit(name) /\ Len(name) < 3) \/ SlugOf(name) \notin Registered

\* What the upstream's NormalizeRepository refuses.
Incomplete(name) == SlugOf(name) \in {"ghcr", "gcr", "quay"} /\ Len(Segments(name)) < 2

-----------------------------------------------------------------------------
(* The same names, as the token service reads them (upstreamAuth/route.ts). *)

Prefixed(name) == Explicit(name) /\ Len(name) > 2 /\ name[2] \in {"ghcr", "gcr", "quay", "k8s"}

\* Mutant: an unknown prefix is a user of Docker Hub.
AtHub_Any(name) == ~Prefixed(name)

\* What has no prefix is at Docker Hub.
AtHub(name) == ~Explicit(name)

\* routeMirrorRepoToUpstream: where a proof for the name is to come from, if anywhere.
ProofRoute(name) ==
    CASE Prefixed(name) -> {[slug |-> name[2], repository |-> SubSeq(name, 3, Len(name))]}
      [] AtHub(name)   -> {[slug |-> "docker", repository |-> name]}
      [] OTHER          -> {}
=============================================================================
