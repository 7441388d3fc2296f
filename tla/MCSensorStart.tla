---------------------------- MODULE MCSensorStart ----------------------------
(* Instances of SensorStart: two policy files against every runtime. *)
EXTENDS SensorStart, TLC

MCTrimmed == (" Deny" :> "Deny") @@ (" " :> "")
MCLowered == ("Deny" :> "deny") @@ ("LOCKED" :> "locked") @@ ("Core" :> "core")
MCDotted == "locked" :> ".locked"
MCDurations == ("10s" :> 10) @@ ("10m" :> 600) @@ ("5s" :> 5) @@ ("2s" :> 2) @@ ("0s" :> 0)
MCCIDRs == {"10.0.0.0/8"}
MCOps == {"process_exit", "openat", "openat2", "rename", "open", "file_open"}
MCDirStat == ("/data" :> 1) @@ ("/link-to-data" :> 1)
MCCgroupStat == "/app" :> 7

Rule(action) == [name |-> "many files", feature |-> "distinct_paths", op |-> ">=", value |-> 3,
                 action |-> action, reason |-> ""]

\* The file the distribution ships, and files a team adds to it.
Base == [NoPolicy EXCEPT !.text["window"] = "10s", !.number["threshold"] = 45,
    !.list["name"] = <<"base">>, !.list["protected_dirs"] = <<"/data">>,
    !.list["suspicious_extensions"] = <<"LOCKED", ".enc">>,
    !.list["rules"] = <<Rule("log"), Rule("")>>]
Team == [NoPolicy EXCEPT !.text["action"] = " Deny", !.text["window"] = "2s",
    !.number["write"] = 2, !.number["network_egress"] = 9,
    !.list["protected_dirs"] = <<"/link-to-data", "/gone">>, !.list["cgroup_paths"] = <<"/app">>,
    !.enabled = TRUE]
Kill == [NoPolicy EXCEPT !.text["action"] = "kill", !.list["rules"] = <<Rule("block")>>]
BadWindow == [NoPolicy EXCEPT !.text["window"] = "0s"]
BadPort == [NoPolicy EXCEPT !.list["ports"] = <<65536>>]

Host(files, modeValue, arch, btf, dryRun, lsm, lastCPU) ==
    [files |-> files, modeValue |-> modeValue, arch |-> arch, btf |-> btf, dryRun |-> dryRun,
     lsm |-> lsm, lastCPU |-> lastCPU]

MCEnvironments ==
    {Host(<<Base, Team>>, "", "amd64", "none", FALSE, TRUE, 2),
     Host(<<Base, Kill>>, "auto", "amd64", "none", TRUE, FALSE, 1),
     Host(<<Team, Base>>, "legacy", "arm64", "none", FALSE, TRUE, 1)}
    \cup {Host(<<Kill, Base>>, "Core", "arm64", btf, FALSE, TRUE, 1) : btf \in {"none", "bad"}}
    \cup {Host(<<Base, Team>>, mode, "amd64", "none", dry, FALSE, 1) :
             mode \in {"ultra_legacy_map", "ultra"}, dry \in BOOLEAN}
    \cup {Host(files, "", "amd64", "none", TRUE, FALSE, 1) :
             files \in {<<Base, BadWindow>>, <<BadPort>>, <<Base, Missing>>}}
===============================================================================
