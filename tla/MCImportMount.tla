---------------------------- MODULE MCImportMount ---------------------------
(***************************************************************************)
(* Small instances of ImportMount for TLC: two calls import two builds that*)
(* share a layer under the same tag, or the same build, or ask for what    *)
(* cannot be imported: a list, or a manifest without blobs.                *)
(***************************************************************************)
EXTENDS ImportMount, TLC

MCBlobsOf == ("old" :> {"base", "a"}) @@ ("new" :> {"base", "b"}) @@ ("bare" :> {})

\* The calls import a and b, the mirror pulls both; f faults, r reaps, s sweeps.
Case(a, b, f, r, s) ==
    [job   |-> ("first" :> a) @@ ("next" :> b),
     bound |-> [pulled |-> {a, b}, faults |-> f, reaps |-> r, sweeps |-> s]]

MCCases == {Case("old", "new", 1, 1, 0), Case("old", "new", 0, 1, 1), Case("old", "new", 1, 0, 1),
            Case("old", "old", 1, 1, 1), Case("bare", "list", 1, 1, 0)}
=============================================================================
