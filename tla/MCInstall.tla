------------------------------ MODULE MCInstall ------------------------------
\* Two releases, one with CUDA builds for two drivers, on machines with and
\* without a GPU; pins are required by default, no longer by the legacy file and
\* as the user likes; one asset is pinned from the start.
EXTENDS Install

Asset(name, major) == [name |-> name, major |-> major, arch |-> IF "arm64" \in name THEN "Arm64" ELSE "X64"]
Avx == Asset({"-avx2-", "avx2", "x64"}, 0)
Cpu == Asset({"-cpu-", "cpu"}, 0)
Arm == Asset({"-cpu-", "cpu", "arm64"}, 0)
Cuda12 == Asset({"x64"}, 12)
Cuda13 == Asset({"x64"}, 13)
MCReleases == ("b1" :> <<Arm, Cuda13, Cpu, Cuda12, Avx>>) @@ ("b2" :> <<Arm, Cpu>>)
MCHosts == {[arch |-> "X64", driver |-> 12], [arch |-> "X64", driver |-> 0], [arch |-> "Arm64", driver |-> 0]}
MCDefaults == ("require_pins" :> TRUE) @@ ("tag" :> "latest")
MCLegacy == "require_pins" :> FALSE
MCCatalog == ("Models" :> "catalog") @@ ("tag" :> "ignored")
MCSettings == {<<>>, "require_pins" :> TRUE, ("Models" :> "hijack") @@ ("require_pins" :> TRUE)}
MCValues == ("require_pins" :> BOOLEAN) @@ ("tag" :> {"latest", "b1"}) @@ ("Models" :> {"hijack"})
MCPinned == {[tag |-> "b1", asset |-> Cuda12], [tag |-> "b2", asset |-> Cpu]}
=============================================================================
