---------------------------- MODULE MCMirrorWarm ----------------------------
(***************************************************************************)
(* Small instances of MirrorWarm for TLC: an index of two images that share*)
(* a blob, a second one of a third image to which the tag moves, and       *)
(* requests for the tag and for the digest of an image.                    *)
(***************************************************************************)
EXTENDS MirrorWarm, TLC

MCBlobsOf ==
    [m \in Single |-> CASE m = "amd64" -> {"base", "a"}
                        [] m = "arm64" -> {"base"}
                        [] m = "next"  -> {"base"}]
MCChildrenOf == [m \in Index |-> IF m = "list" THEN {"amd64", "arm64"} ELSE {"next"}]

MCContents == <<[index |-> "list", single |-> "amd64"], [index |-> "nextList", single |-> "next"]>>

MCRefOf == [q \in Request |-> IF q = "byDigest" THEN "amd64" ELSE "latest"]
=============================================================================
