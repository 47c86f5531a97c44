---------------------------- MODULE MCImageListing ----------------------------
(***************************************************************************)
(* Small instances of ImageListing for TLC: three images in two            *)
(* repositories, with an old row that has no time, and pages of one to     *)
(* three.                                                                  *)
(***************************************************************************)
EXTENDS ImageListing, TLC

MCImage  == {"a", "b", "c"}
MCRepoOf == [i \in MCImage |-> IF i \in {"a", "b"} THEN "app" ELSE "lib"]

MCCaller == {"operator", "one", "zero", "ann", "cluster", "sandbox", "stranger"}
MCStrategyOf ==
    [c \in MCCaller |-> CASE c \in {"operator", "one", "zero"} -> "pat"
                          [] c = "ann"      -> "api"
                          [] c = "cluster"  -> "cluster-pat"
                          [] c = "sandbox"  -> "wrapped-upstream"
                          [] c = "stranger" -> "none"]
MCUserOf == [c \in MCCaller |-> IF c = "ann" THEN "ann" ELSE Nobody]
MCAsks   == [c \in MCCaller |-> CASE c = "operator" -> 9 [] c = "one" -> 1
                          [] c = "zero" -> 0 [] OTHER -> NaN]

\* b was pushed, c comes from before there were times, and is nobody's.
MCStart ==
    {[images   |-> here,
      pushedAt |-> [i \in MCImage |-> IF i = "b" THEN 1 ELSE 0],
      ownerOf  |-> [r \in {"app", "lib"} |-> IF r = "app" THEN "ann" ELSE Nobody]] :
        here \in {{"b", "c"}, {"a", "b", "c"}}}
=============================================================================
