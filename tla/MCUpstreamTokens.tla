------------------------- MODULE MCUpstreamTokens -------------------------
(***************************************************************************)
(* A small instance of UpstreamTokens for TLC: three requests, for two     *)
(* names of one repository of Docker Hub, its namesake at GHCR, a library  *)
(* image, an image of registry.k8s.io, which takes no token, repositories  *)
(* named like the markers of paths, and what does not resolve.             *)
(***************************************************************************)
EXTENDS UpstreamTokens, TLC

CONSTANTS r1, r2, r3

MCRequest == {r1, r2, r3}

\* The requests are alike.
Alike == Permutations(MCRequest)

Manifest(name) == [name |-> name, resource |-> "manifests", reference |-> "v1"]
Blob(name)     == [name |-> name, resource |-> "blobs", reference |-> "sha256:1"]

MCAsks ==
    {Manifest(<<"org", "app">>), Manifest(<<"aocr", "docker", "org", "app">>),
     Manifest(<<"aocr", "ghcr", "org", "app">>),
     Blob(<<"redis">>), Manifest(<<"aocr", "k8s", "pause">>),
     Blob(<<"org", "blobs", "app">>),
     Manifest(<<"org", "manifests", "app">>), Blob(<<"org", "manifests">>)}
    \cup
    {[name |-> <<"org", "app">>, resource |-> "tags", reference |-> "list"],
     [name |-> <<"org", "app">>, resource |-> "blobs", reference |-> "v1"],
     Manifest(<<"aocr", "ghcr", "app">>), Manifest(<<"aocr", "acr", "org", "app">>)}

Hub == Manifest(<<"org", "app">>)
Namesake == Manifest(<<"aocr", "ghcr", "org", "app">>)

\* One request is for the image of Docker Hub, one for that or its namesake, and one
\* for anything.
MCWorkloads ==
    {w \in [MCRequest -> MCAsks] :
       \E q, other \in MCRequest :
          /\ q # other /\ w[q] = Hub /\ w[other] \in {Hub, Namesake}}
=============================================================================
