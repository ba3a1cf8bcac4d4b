-------------------------------- MODULE Install --------------------------------
(***************************************************************************)
(* Keeping a llama.cpp build installed (localx-llama-runtime, download.rs; *)
(* localx-llama-core, config.rs): the layers of the configuration, the tag *)
(* they pin, whether the installed build is stale, which asset of the      *)
(* release to fetch, and whether the fetched bytes may be installed.       *)
(*                                                                         *)
(* The decisions are the code's.  Fetching, writing and the order of the   *)
(* calls are the application's, which may crash at any time; the release   *)
(* page and the network are the environment.  A name is the set of what it *)
(* is searched for; the bytes of an asset stand for their digest.          *)
(***************************************************************************)
EXTENDS Integers, Sequences, SequencesExt, Functions

CONSTANTS
  Hosts,     \* the machines: [arch, driver], the CUDA major of the driver or 0
  Releases,  \* tag -> the assets it lists, in order: [name, major, arch], the CUDA
             \* major or 0 and the machines it is built for
  DefaultsLayer, LegacyLayer, CatalogLayer, \* the layers below the settings
  SettingsLayers,                           \* the settings a machine may start with
  Values,    \* key -> the values a user may set it to
  Pinned     \* the assets pinned from the start, [tag, asset], by their true bytes

CATALOG_ONLY_KEYS == {"Models", "CommandAliases"}

VARIABLES
  host,      \* the machine
  settings,  \* its per-machine settings
  latest,    \* the newest tag on the release page
  pins,      \* asset -> the bytes it is pinned to
  pc,        \* "idle", "fetching" or "checking"
  job,       \* what is being installed: [tag, left, bytes]
  installed, \* <<>> or [tag, asset, bytes, tried], tried the assets refused before it
  stamp,     \* .build-stamp, the lines of it
  lax,       \* history: pins were not required at some check
  needless   \* history: a fetch was begun for the build that is installed

vars == <<host, settings, latest, pins, pc, job, installed, stamp, lax, needless>>

-----------------------------------------------------------------------------
(* config.rs *)

\* overlay: a layer above another.
Overlay(base, top) ==
  [key \in DOMAIN base \cup DOMAIN top |-> IF key \in DOMAIN top THEN top[key] ELSE base[key]]

\* assemble_config
AssembleConfig(defaults, legacy, catalog, own) ==
  LET shipped == Overlay(Overlay(defaults, legacy), Restrict(catalog, DOMAIN catalog \cap CATALOG_ONLY_KEYS))
  IN  Overlay(shipped, Restrict(own, DOMAIN own \ CATALOG_ONLY_KEYS))

Config == AssembleConfig(DefaultsLayer, LegacyLayer, CatalogLayer, settings)

\* set_setting, which refuses the keys of the catalog
SetSetting(key, value) ==
  settings' = IF key \in CATALOG_ONLY_KEYS THEN settings ELSE Overlay(settings, [k \in {key} |-> value])

-----------------------------------------------------------------------------
(* download.rs *)

IsArm64Asset(name) == name \cap {"arm64", "aarch64"} # {}
IsX64Asset(name) == name \cap {"x64", "x86_64", "win64"} # {} /\ ~IsArm64Asset(name)

\* asset_arch_matches: an unmarked name is an x64 build.
AssetArchMatches(name, arch) ==
  IF arch = "Arm64" THEN IsArm64Asset(name) ELSE IsX64Asset(name) \/ ~IsArm64Asset(name)

\* select_cpu_asset: by token, then by place; last any name of a CPU build.
SelectCpuAsset(assets, arch) ==
  LET tokens == <<{"-avx2-"}, {"-avx512-"}, {"-avx-"}, {"-noavx-"}, {"-cpu-"}, {"cpu", "avx2"}>>
      With(wanted) == {i \in DOMAIN assets : /\ assets[i].name \cap wanted # {}
                                             /\ AssetArchMatches(assets[i].name, arch)}
      hits == {n \in DOMAIN tokens : With(tokens[n]) # {}}
  IN  IF hits = {} THEN <<>> ELSE <<assets[Min(With(tokens[Min(hits)]))]>>

\* A finite set of numbers, the highest first.
Falling(S) ==
  CHOOSE order \in [1..Cardinality(S) -> S] :
    \A i, j \in DOMAIN order : i < j => order[i] > order[j]

\* cuda_major_order, of majors that are available once each
CudaMajorOrder(driver_major, available) ==
  (IF driver_major \in available THEN <<driver_major>> ELSE <<>>)
    \o Falling(available \ {driver_major})

\* build_stamp_is_stale: anything but the tag among blank lines.
BuildStampIsStale(lines, resolved_tag) ==
  ~\E i \in DOMAIN lines : /\ lines[i] = resolved_tag
                           /\ \A j \in DOMAIN lines : j # i => lines[j] = ""

\* Mutant of CheckDownloadPin: a wrong pin counts as none.
TrustOnMismatch(bytes, pin, require_pins) ==
  CASE pin = {bytes} -> "Verified"
    [] pin # {bytes} /\ require_pins -> "PinRequired"
    [] OTHER -> "Unpinned"

\* check_download_pin
CheckDownloadPin(bytes, pin, require_pins) ==
  CASE pin # {} /\ pin = {bytes} -> "Verified"
    [] pin # {} /\ pin # {bytes} -> "ShaMismatch"
    [] pin = {} /\ require_pins -> "PinRequired"
    [] OTHER -> "Unpinned"

\* The names tell the truth: "an unmarked name is an x64 build".
ASSUME ReleasesAssumption ==
  /\ Hosts \subseteq [arch : {"X64", "Arm64"}, driver : Nat]
  /\ \A tag \in DOMAIN Releases :
       /\ Releases[tag] \in Seq(ToSet(Releases[tag]))
       /\ \A asset \in ToSet(Releases[tag]) :
            /\ asset.major \in Nat
            /\ asset.arch = IF IsArm64Asset(asset.name) THEN "Arm64" ELSE "X64"

-----------------------------------------------------------------------------
(* The application. *)

TrueBytes(tag, asset) == [of |-> tag, asset |-> asset, intact |-> TRUE]
Pin(tag, asset) == IF [tag |-> tag, asset |-> asset] \in DOMAIN pins
                     THEN {pins[[tag |-> tag, asset |-> asset]]} ELSE {}

NoJob == [tag |-> "", left |-> <<>>, bytes |-> <<>>]

Init ==
  /\ host \in Hosts
  /\ settings \in SettingsLayers
  /\ latest \in DOMAIN Releases
  /\ pins = [p \in Pinned |-> TrueBytes(p.tag, p.asset)]
  /\ pc = "idle" /\ job = NoJob
  /\ installed = <<>> /\ stamp = <<>>
  /\ lax = FALSE /\ needless = FALSE

\* The resolved tag: the one the configuration pins, or the newest.
ResolvedTag == IF Config["tag"] = "latest" THEN latest ELSE Config["tag"]

\* The assets to try: CUDA builds in the order of their majors, else a CPU build.
Candidates(assets) ==
  LET fitting == {i \in DOMAIN assets : assets[i].major > 0 /\ AssetArchMatches(assets[i].name, host.arch)}
      majors == CudaMajorOrder(host.driver, {assets[i].major : i \in fitting})
  IN  IF host.driver = 0 \/ fitting = {} THEN SelectCpuAsset(assets, host.arch)
      ELSE [n \in DOMAIN majors |-> assets[Min({i \in fitting : assets[i].major = majors[n]})]]

Update ==
  /\ pc = "idle"
  /\ BuildStampIsStale(stamp, ResolvedTag)
  /\ ResolvedTag \in DOMAIN Releases
  /\ job' = [tag |-> ResolvedTag, left |-> Candidates(Releases[ResolvedTag]), bytes |-> <<>>]
  /\ job'.left # <<>>
  /\ pc' = "fetching"
  /\ needless' = (needless \/ (installed # <<>> /\ installed[1].tag = ResolvedTag))
  /\ UNCHANGED <<host, settings, latest, pins, installed, stamp, lax>>

\* The bytes arrive, intact or not.
Arrive ==
  /\ pc = "fetching"
  /\ \E intact \in BOOLEAN :
       job' = [job EXCEPT !.bytes = <<[TrueBytes(job.tag, Head(job.left)) EXCEPT !.intact = intact]>>]
  /\ pc' = "checking"
  /\ UNCHANGED <<host, settings, latest, pins, installed, stamp, lax, needless>>

\* A refused asset is deleted and the next one is tried.
Refuse ==
  /\ job' = [tag |-> job.tag, left |-> Tail(job.left), bytes |-> <<>>]
  /\ pc' = IF Len(job.left) > 1 THEN "fetching" ELSE "idle"
  /\ UNCHANGED <<pins, installed, stamp>>

\* An asset that may be installed is, with its stamp; the operator may record the
\* bytes of an unpinned one as its pin.
Accept(record) ==
  LET asset == Head(job.left)
  IN  /\ installed' = <<[tag |-> job.tag, asset |-> asset, bytes |-> Head(job.bytes),
                        tried |-> Len(Candidates(Releases[job.tag])) - Len(job.left)]>>
      /\ stamp' = <<job.tag, "">>
      /\ pins' = IF record THEN Overlay(pins, [pin \in {[tag |-> job.tag, asset |-> asset]} |-> Head(job.bytes)])
                           ELSE pins
      /\ job' = NoJob
      /\ pc' = "idle"

Check ==
  /\ pc = "checking"
  /\ \E outcome \in {CheckDownloadPin(Head(job.bytes), Pin(job.tag, Head(job.left)), Config["require_pins"])} :
       CASE outcome = "Verified" -> Accept(FALSE)
         [] outcome = "Unpinned" -> \E record \in BOOLEAN : Accept(record)
         [] OTHER -> Refuse
  /\ lax' = (lax \/ ~Config["require_pins"])
  /\ UNCHANGED <<host, settings, latest, needless>>

\* The application ends in the middle of an installation.
Crash ==
  /\ pc # "idle"
  /\ pc' = "idle" /\ job' = NoJob
  /\ UNCHANGED <<host, settings, latest, pins, installed, stamp, lax, needless>>

\* The user changes a setting, or tries to.
Set ==
  /\ \E key \in DOMAIN Values : \E value \in Values[key] : SetSetting(key, value)
  /\ UNCHANGED <<host, latest, pins, pc, job, installed, stamp, lax, needless>>

\* A release is published or withdrawn.
Publish ==
  /\ latest' \in DOMAIN Releases
  /\ UNCHANGED <<host, settings, pins, pc, job, installed, stamp, lax, needless>>

Next == Update \/ Arrive \/ Check \/ Crash \/ Set \/ Publish

Spec == Init /\ [][Next]_vars

-----------------------------------------------------------------------------
\* The user's own word is the last one: what was set is what counts, an explicit
\* false as well, and nothing a machine says replaces the catalog.
SettingsCount ==
  /\ \A key \in DOMAIN settings \ CATALOG_ONLY_KEYS : Config[key] = settings[key]
  /\ \A key \in DOMAIN CatalogLayer \cap CATALOG_ONLY_KEYS : Config[key] = CatalogLayer[key]

\* "verify-or-abort / trust-on-first-use / require-pins": what is installed has the
\* bytes of its pin, also when the pin is that of a first use long ago, and is the
\* true build as long as pins were required at every check.
InstalledIsVetted ==
  \A build \in ToSet(installed) :
    /\ Pin(build.tag, build.asset) \subseteq {build.bytes}
    /\ ~lax => build.bytes = TrueBytes(build.tag, build.asset)

\* The installed build is of the machine's architecture, and of the CUDA major of
\* its driver when the release has one and none was tried before. A major above the
\* driver's, whose build floods garbage, may still follow.
InstalledFits ==
  \A build \in ToSet(installed) :
    LET fitting == {a \in ToSet(Releases[build.tag]) : a.arch = host.arch}
    IN  /\ build.asset \in fitting
        /\ build.tried = 0 /\ host.driver > 0 /\ host.driver \in {a.major : a \in fitting}
             => build.asset.major = host.driver

\* "Never latest, otherwise a pinned build re-downloads the pin it already has":
\* whatever is published, a build that is installed is not fetched again.
NothingTwice == ~needless

InstallIsTrue == InstalledIsVetted /\ InstalledFits /\ NothingTwice /\ SettingsCount
=============================================================================
