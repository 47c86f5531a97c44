--------------------------- MODULE MCTagLifecycle ---------------------------
(***************************************************************************)
(* Small instances of TagLifecycle for TLC.  A cfg picks the images and the*)
(* repositories; what they are called decides their path and their suffix. *)
(***************************************************************************)
EXTENDS TagLifecycle, TLC

MCRepoOf ==
    [i \in Image |->
        CASE i \in {"app:v1", "app:v2", "app:ttl", "app:idle", "app:odd"} -> "app"
          [] i \in {"python:3.11", "python:3.12"} -> "python"
          [] i = "stdlib:v1" -> "stdlib"
          [] i = "kube:v1" -> "kube"
          [] i = "snap:v1" -> "snap"
          [] i = "alpine:v1" -> "alpine"]

MCPathOf ==
    [r \in Repo |->
        CASE r = "app"    -> <<"acme", "app">>
          [] r = "python" -> <<"wasm", "std", "python">>
          [] r = "stdlib" -> <<"wasm", "stdlib">>
          [] r = "kube"   -> <<"mirror", "k8s", "kube">>
          [] r = "snap"   -> <<"cluster", "prod", "snap">>
          [] r = "alpine" -> <<"alpine">>]

MCSuffixOf ==
    [i \in Image |->
        CASE i = "app:ttl"  -> [kind |-> "ttl",  label |-> "7d"]
          [] i = "app:idle" -> [kind |-> "idle", label |-> "30d"]
          [] i = "app:odd"  -> [kind |-> "ttl",  label |-> "5d"]
          [] OTHER          -> [kind |-> "none", label |-> ""]]

\* Both windows are twice the debounce.
MCSuffixSeconds == ("7d" :> 2) @@ ("30d" :> 2)

TagOrder == <<"app:idle", "app:odd", "app:ttl", "app:v1", "app:v2", "alpine:v1", "kube:v1",
              "python:3.11", "python:3.12", "snap:v1", "stdlib:v1">>
MCTagRank == [i \in Image |-> CHOOSE n \in 1 .. Len(TagOrder) : TagOrder[n] = i]

MCFrontendOf == [r \in Repo |-> IF MCPathOf[r][1] = "mirror" /\ "writer" \in Frontend
                                THEN "writer" ELSE "main"]

\* The environment of the containers: the default protected namespace, and a
\* mirror default of 2 with an override of 3 for k8s.
MCEnvOf ==
    [p \in Handler \cup Cron |->
        [protected |-> {<<"wasm", "std">>}, defaultIdle |-> 2,
         overrides |-> {[matches |-> {"kube"}, length |-> 3, seconds |-> 3]}]]

\* What a behaviour may do.  The bounds of a run are alternatives: every
\* behaviour has one of them, so that each case stays small.
NoUse == [b \in {"push", "pull", "delete", "blob", "timeout", "fault", "crash"} |-> 0]

Races ==
    [images |-> {"app:v1", "app:v2"}, handlers |-> Handler, batch |-> 1, time |-> 0,
     use |-> [NoUse EXCEPT !["push"] = 3, !["timeout"] = 1]]
Deletes ==
    [Races EXCEPT !.use = [NoUse EXCEPT !["push"] = 2, !["timeout"] = 1, !["delete"] = 1]]
Faults ==
    [images |-> {"app:v1", "app:odd", "alpine:v1", "snap:v1"}, handlers |-> {"h1"}, batch |-> 1,
     time |-> 0, use |-> [NoUse EXCEPT !["push"] = 2, !["pull"] = 1, !["fault"] = 1]]
Guarded ==
    [images |-> {"python:3.11", "python:3.12", "stdlib:v1"}, handlers |-> {"h1"}, batch |-> 2,
     time |-> 0, use |-> [NoUse EXCEPT !["push"] = 2, !["delete"] = 1, !["blob"] = 1]]
Idle ==
    [images |-> {"app:idle", "kube:v1"}, handlers |-> {"h1"}, batch |-> 1, time |-> 3,
     use |-> [NoUse EXCEPT !["push"] = 1, !["pull"] = 2]]
Windows ==
    [images |-> {"app:ttl"}, handlers |-> Handler, batch |-> 1, time |-> 2,
     use |-> [NoUse EXCEPT !["push"] = 2, !["timeout"] = 1]]
Retries ==
    [images |-> {"app:v1", "app:v2"}, handlers |-> Handler, batch |-> 1, time |-> 0,
     use |-> [NoUse EXCEPT !["push"] = 2, !["timeout"] = 1, !["fault"] = 1, !["crash"] = 1]]
Pushes ==
    [images |-> Image, handlers |-> Handler, batch |-> 1, time |-> 2,
     use |-> [NoUse EXCEPT !["push"] = 3]]

MCReaps   == {Races, Deletes, Faults, Guarded, Idle}
MCWindows == {Windows, Retries}
MCPushes  == {Pushes}
=============================================================================
