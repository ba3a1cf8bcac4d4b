---------------------------- MODULE InstallProofs ----------------------------
(***************************************************************************)
(* What is installed, for any releases, machines, layers and settings and  *)
(* whatever the network, the release page and the user do: it is vetted by *)
(* its pin, is of the architecture, not fetched twice, and settings count. *)
(***************************************************************************)
EXTENDS Install, FiniteSetTheorems, WellFoundedInduction, TLAPS

-----------------------------------------------------------------------------
(* The highest major first. *)

LEMMA LeastOf ==
  ASSUME NEW T \in SUBSET Nat, T # {}
  PROVE  \E n \in T : \A m \in T : n <= m
<1>1. PICK n \in T : \A m \in T : <<m, n>> \notin OpToRel(<, Nat)
  BY NatLessThanWellFounded, WFMin
<1>2. \A m \in T : ~(m < n)
  BY <1>1 DEF OpToRel
<1> QED BY <1>2

LEMMA MinIs ==
  ASSUME NEW T \in SUBSET Nat, T # {}
  PROVE  Min(T) \in T
<1>1. \E n \in T : \A m \in T : n <= m
  BY LeastOf
<1> QED BY <1>1 DEF Min

Falls(order, S) ==
  /\ order \in [1..Cardinality(S) -> S]
  /\ \A i, j \in DOMAIN order : i < j => order[i] > order[j]

\* Every finite set of numbers has a falling order: its least number is last.
LEMMA FallingExists ==
  ASSUME NEW S \in SUBSET Nat, IsFiniteSet(S)
  PROVE  \E order : Falls(order, S)
<1> DEFINE Unordered(n) == \E T \in SUBSET Nat : /\ IsFiniteSet(T) /\ Cardinality(T) = n
                                                /\ ~\E order : Falls(order, T)
           Sizes == {n \in Nat : Unordered(n)}
<1>1. SUFFICES ASSUME Sizes # {} PROVE FALSE
  <2>1. Cardinality(S) \in Nat
    BY FS_CardinalityType
  <2> QED BY <2>1
<1>2. PICK n \in Sizes : \A m \in Sizes : n <= m
  <2>1. Sizes \in SUBSET Nat
    OBVIOUS
  <2> HIDE DEF Sizes
  <2> QED BY <1>1, <2>1, LeastOf
<1>3. PICK T \in SUBSET Nat : IsFiniteSet(T) /\ Cardinality(T) = n /\ ~\E order : Falls(order, T)
  OBVIOUS
<1>4. T # {}
  <2> SUFFICES ASSUME T = {} PROVE FALSE
    OBVIOUS
  <2>1. Cardinality(T) = 0
    BY FS_EmptySet
  <2>2. Falls(<<>>, T)
    BY <2>1 DEF Falls
  <2> QED BY <1>3, <2>2
<1>5. PICK last \in T : \A x \in T : last <= x
  BY <1>4, LeastOf
<1> DEFINE R == T \ {last}
<1>6. IsFiniteSet(R) /\ Cardinality(R) = n - 1 /\ n \in Nat /\ n - 1 \in Nat /\ R \in SUBSET Nat
  <2>1. IsFiniteSet(R) /\ Cardinality(R) = n - 1
    BY <1>3, <1>5, FS_RemoveElement
  <2>2. Cardinality(R) \in Nat
    BY <2>1, FS_CardinalityType
  <2> QED BY <2>1, <2>2
<1>7. PICK order : Falls(order, R)
  BY <1>2, <1>6
<1> DEFINE longer == [i \in 1..n |-> IF i = n THEN last ELSE order[i]]
<1>8. order \in [1..(n - 1) -> R] /\ \A i, j \in 1..(n - 1) : i < j => order[i] > order[j]
  BY <1>6, <1>7 DEF Falls
<1>9. \A i \in 1..n : longer[i] \in T
  BY <1>5, <1>6, <1>8
<1>10. ASSUME NEW i \in 1..n, NEW j \in 1..n, i < j
       PROVE  longer[i] > longer[j]
  <2>1. i \in 1..(n - 1) /\ longer[i] = order[i] /\ order[i] \in R
    BY <1>6, <1>8, <1>10
  <2>2. CASE j = n
    <3>1. longer[j] = last /\ order[i] \in Nat /\ last \in Nat /\ order[i] # last
      BY <1>6, <2>1, <2>2
    <3>2. last <= order[i]
      BY <1>5, <2>1
    <3> QED BY <2>1, <3>1, <3>2
  <2>3. CASE j # n
    BY <1>6, <1>8, <1>10, <2>1, <2>3
  <2> QED BY <2>2, <2>3
<1>11. Falls(longer, T)
  BY <1>3, <1>9, <1>10 DEF Falls
<1> QED BY <1>3, <1>11

LEMMA FallingIs ==
  ASSUME NEW S \in SUBSET Nat, IsFiniteSet(S)
  PROVE  Falls(Falling(S), S)
<1>1. \E order \in [1..Cardinality(S) -> S] : \A i, j \in DOMAIN order : i < j => order[i] > order[j]
  BY FallingExists DEF Falls
<1> QED BY <1>1, Zenon DEF Falls, Falling

\* cuda_major_order: every major it names is available, and the driver's is the
\* first if it is.
LEMMA MajorsAre ==
  ASSUME NEW S \in SUBSET Nat, IsFiniteSet(S), NEW driver \in Nat
  PROVE  LET majors == CudaMajorOrder(driver, S)
         IN  /\ majors \in Seq(S)
             /\ driver \in S => majors # <<>> /\ majors[1] = driver
<1> DEFINE R == S \ {driver}
           rest == Falling(R)
           first == IF driver \in S THEN <<driver>> ELSE <<>>
<1>1. IsFiniteSet(R) /\ R \in SUBSET Nat
  BY FS_RemoveElement
<1>2. Cardinality(R) \in Nat
  BY <1>1, FS_CardinalityType
<1>3. rest \in [1..Cardinality(R) -> R]
  BY <1>1, FallingIs DEF Falls
<1>4. rest \in Seq(S)
  <2> HIDE DEF rest
  <2>1. PICK n \in Nat : n = Cardinality(R)
    BY <1>2
  <2>2. rest \in [1..n -> S]
    BY <1>3, <2>1
  <2> QED BY <2>2
<1>5. CudaMajorOrder(driver, S) = first \o rest
  BY DEF CudaMajorOrder
<1> HIDE DEF rest
<1>6. CASE driver \in S
  BY <1>4, <1>5, <1>6
<1>7. CASE driver \notin S
  BY <1>4, <1>5, <1>7
<1> QED BY <1>6, <1>7

-----------------------------------------------------------------------------
(* What is tried fits. *)

\* The assets of a release that run on the machine.
Fitting(tag) == {a \in ToSet(Releases[tag]) : a.arch = host.arch}

\* asset_arch_matches: what the name says of the machine is true.
LEMMA MatchIsFit ==
  ASSUME host \in Hosts, NEW tag \in DOMAIN Releases, NEW i \in DOMAIN Releases[tag]
  PROVE  /\ Releases[tag][i] \in ToSet(Releases[tag]) /\ Releases[tag][i].major \in Nat
         /\ AssetArchMatches(Releases[tag][i].name, host.arch) <=> Releases[tag][i] \in Fitting(tag)
<1> DEFINE asset == Releases[tag][i]
<1>1. asset \in ToSet(Releases[tag])
  BY DEF ToSet
<1>2. /\ asset.major \in Nat
      /\ asset.arch = IF IsArm64Asset(asset.name) THEN "Arm64" ELSE "X64"
      /\ host.arch \in {"X64", "Arm64"}
  BY <1>1, ReleasesAssumption
<1> HIDE DEF asset
<1>3. AssetArchMatches(asset.name, host.arch) <=> asset.arch = host.arch
  BY <1>2 DEF AssetArchMatches, IsX64Asset
<1> QED BY <1>1, <1>2, <1>3 DEF asset, Fitting

\* select_cpu_asset
LEMMA CpuFits ==
  ASSUME host \in Hosts, NEW tag \in DOMAIN Releases
  PROVE  LET tried == SelectCpuAsset(Releases[tag], host.arch)
         IN  tried = <<>> \/ \E a \in Fitting(tag) : tried = <<a>>
<1> DEFINE assets == Releases[tag]
           arch == host.arch
           tokens == <<{"-avx2-"}, {"-avx512-"}, {"-avx-"}, {"-noavx-"}, {"-cpu-"}, {"cpu", "avx2"}>>
           With(wanted) == {i \in DOMAIN assets : /\ assets[i].name \cap wanted # {}
                                                  /\ AssetArchMatches(assets[i].name, arch)}
           hits == {n \in DOMAIN tokens : With(tokens[n]) # {}}
<1>1. SelectCpuAsset(assets, arch) = IF hits = {} THEN <<>> ELSE <<assets[Min(With(tokens[Min(hits)]))]>>
  BY DEF SelectCpuAsset
<1>2. CASE hits = {}
  BY <1>1, <1>2
<1>3. CASE hits # {}
  <2>1. Min(hits) \in hits
    <3>1. hits \in SUBSET Nat
      OBVIOUS
    <3> HIDE DEF hits
    <3> QED BY <1>3, <3>1, MinIs
  <2>2. PICK wanted : wanted = With(tokens[Min(hits)])
    OBVIOUS
  <2>3. wanted # {} /\ wanted \subseteq {i \in DOMAIN assets : AssetArchMatches(assets[i].name, arch)}
    <3>1. \A n : n \in hits => With(tokens[n]) # {}
      OBVIOUS
    <3>2. \A w : With(w) \subseteq {i \in DOMAIN assets : AssetArchMatches(assets[i].name, arch)}
      OBVIOUS
    <3> HIDE DEF hits, With
    <3> QED BY <2>1, <2>2, <3>1, <3>2
  <2>4. wanted \in SUBSET Nat
    BY <2>3, ReleasesAssumption
  <2>5. Min(wanted) \in wanted
    BY <2>3, <2>4, MinIs
  <2>6. assets[Min(wanted)] \in Fitting(tag)
    BY <2>3, <2>5, MatchIsFit
  <2>7. SelectCpuAsset(assets, arch) = <<assets[Min(wanted)]>>
    BY <1>1, <1>3, <2>2
  <2> HIDE DEF assets, arch
  <2> QED BY <2>6, <2>7 DEF assets, arch
<1> QED BY <1>2, <1>3

\* select_cpu_asset and cuda_major_order, download.rs: everything that is tried is of
\* the machine's architecture (whether it runs there is not said: a major above the
\* driver's may be among it), and with a driver whose major the release has, the
\* first that is tried is of that major.
LEMMA CandidatesFit ==
  ASSUME host \in Hosts, NEW tag \in DOMAIN Releases
  PROVE  LET tried == Candidates(Releases[tag])
         IN  /\ tried \in Seq(Fitting(tag))
             /\ tried # <<>> /\ host.driver > 0 /\ host.driver \in {a.major : a \in Fitting(tag)}
                  => tried[1].major = host.driver
<1> DEFINE assets == Releases[tag]
           arch == host.arch
           fitting == {i \in DOMAIN assets : assets[i].major > 0 /\ AssetArchMatches(assets[i].name, arch)}
           available == {assets[i].major : i \in fitting}
           majors == CudaMajorOrder(host.driver, available)
           Of(m) == {i \in fitting : assets[i].major = m}
           cuda == [n \in DOMAIN majors |-> assets[Min(Of(majors[n]))]]
<1>1. Candidates(assets) = IF host.driver = 0 \/ fitting = {} THEN SelectCpuAsset(assets, arch) ELSE cuda
  BY DEF Candidates
<1>2. host.driver \in Nat /\ DOMAIN assets = 1..Len(assets) /\ Len(assets) \in Nat
  BY ReleasesAssumption
<1>3. \A i \in DOMAIN assets :
        /\ assets[i] \in ToSet(assets) /\ assets[i].major \in Nat
        /\ AssetArchMatches(assets[i].name, arch) <=> assets[i] \in Fitting(tag)
  BY MatchIsFit
<1> HIDE DEF assets, arch
<1>4. IsFiniteSet(fitting) /\ available \in SUBSET Nat /\ fitting \in SUBSET Nat
  <2>1. available \in SUBSET Nat
    BY <1>3
  <2>2. fitting \in SUBSET (1..Len(assets))
    BY <1>2
  <2> HIDE DEF fitting
  <2>3. IsFiniteSet(1..Len(assets))
    BY <1>2, FS_Interval
  <2>4. IsFiniteSet(fitting)
    BY <2>2, <2>3, FS_Subset
  <2>5. fitting \in SUBSET Nat
    BY <1>2, <2>2
  <2> QED BY <2>1, <2>4, <2>5
<1>5. IsFiniteSet(available)
  <2> DEFINE f == [i \in fitting |-> assets[i].major]
  <2>1. f \in Surjection(fitting, available)
    BY DEF Surjection
  <2> HIDE DEF fitting, available, f
  <2> QED BY <1>4, <2>1, FS_Surjection
<1>6. majors \in Seq(available) /\ (host.driver \in available => majors # <<>> /\ majors[1] = host.driver)
  BY <1>2, <1>4, <1>5, MajorsAre
<1>7. \A m \in available : Min(Of(m)) \in Of(m)
  <2> SUFFICES ASSUME NEW m \in available PROVE Min(Of(m)) \in Of(m)
    OBVIOUS
  <2>1. Of(m) \in SUBSET Nat /\ Of(m) # {}
    BY <1>4
  <2> HIDE DEF Of
  <2> QED BY <2>1, MinIs
<1>8. \A m \in available : assets[Min(Of(m))] \in Fitting(tag) /\ assets[Min(Of(m))].major = m
  BY <1>3, <1>7
<1>9. host.driver > 0 /\ host.driver \in {a.major : a \in Fitting(tag)} => host.driver \in available
  BY <1>3 DEF Fitting, ToSet, assets
<1> DEFINE tried == Candidates(assets)
<1>10. CASE host.driver = 0 \/ fitting = {}
  <2>1. ~(host.driver > 0 /\ host.driver \in {a.major : a \in Fitting(tag)})
    BY <1>2, <1>9, <1>10
  <2>2. tried = <<>> \/ \E a \in Fitting(tag) : tried = <<a>>
    BY <1>1, <1>10, CpuFits DEF assets, arch
  <2>3. tried \in Seq(Fitting(tag))
    <3> HIDE DEF tried
    <3>1. CASE tried = <<>>
      BY <3>1
    <3>2. CASE \E a \in Fitting(tag) : tried = <<a>>
      BY <3>2
    <3> QED BY <2>2, <3>1, <3>2
  <2> QED BY <2>1, <2>3 DEF assets
<1>11. CASE ~(host.driver = 0 \/ fitting = {})
  <2>1. tried = cuda
    BY <1>1, <1>11
  <2> HIDE DEF fitting, available, majors, Of
  <2>2. /\ majors \in Seq(available) /\ Len(majors) \in Nat /\ DOMAIN majors = 1..Len(majors)
        /\ \A n \in DOMAIN majors : majors[n] \in available
    BY <1>6
  <2>3. \A n \in DOMAIN majors : cuda[n] \in Fitting(tag) /\ cuda[n].major = majors[n]
    BY <1>8, <2>2
  <2>4. cuda \in [1..Len(majors) -> Fitting(tag)]
    BY <2>2, <2>3
  <2>5. PICK len \in Nat : len = Len(majors)
    BY <2>2
  <2>6. cuda \in Seq(Fitting(tag))
    <3> HIDE DEF cuda
    <3>1. cuda \in [1..len -> Fitting(tag)]
      BY <2>4, <2>5
    <3> QED BY <3>1
  <2>7. host.driver \in available => cuda[1].major = host.driver
    <3> SUFFICES ASSUME host.driver \in available PROVE cuda[1].major = host.driver
      OBVIOUS
    <3>1. majors # <<>> /\ majors[1] = host.driver
      BY <1>6
    <3>2. 1 \in DOMAIN majors
      BY <2>2, <3>1
    <3> QED BY <2>3, <3>1, <3>2
  <2> HIDE DEF cuda
  <2> QED BY <1>9, <2>1, <2>6, <2>7 DEF assets
<1> QED BY <1>10, <1>11

-----------------------------------------------------------------------------
(* What is installed. *)

Tried(tag) == Candidates(Releases[tag])

LEMMA SameMachine ==
  ASSUME UNCHANGED host
  PROVE  \A tag : Fitting(tag)' = Fitting(tag) /\ Tried(tag)' = Tried(tag)
<1>1. \A tag : Fitting(tag)' = Fitting(tag)
  BY DEF Fitting
<1>2. \A tag : Tried(tag)' = Tried(tag)
  BY DEF Tried, Candidates
<1> QED BY <1>1, <1>2

\* A build is of its pin, and the true one as long as pins were required.
Vetted(build) ==
  /\ Pin(build.tag, build.asset) \subseteq {build.bytes}
  /\ ~lax => build.bytes = TrueBytes(build.tag, build.asset)

Fits(build) ==
  /\ build.asset \in Fitting(build.tag)
  /\ build.tried = 0 /\ host.driver > 0 /\ host.driver \in {a.major : a \in Fitting(build.tag)}
       => build.asset.major = host.driver

\* There is no build, or one that is stamped with its tag.
BuiltIsTrue ==
  \/ installed = <<>>
  \/ \E build : /\ installed = <<build>> /\ stamp = <<build.tag, "">>
                /\ Vetted(build) /\ Fits(build)

\* What is left to try is an end of what is tried.
JobFits ==
  pc # "idle" =>
    /\ job = [tag |-> job.tag, left |-> job.left, bytes |-> job.bytes]
    /\ job.tag \in DOMAIN Releases /\ job.left \in Seq(Fitting(job.tag)) /\ job.left # <<>>
    /\ Len(job.left) <= Len(Tried(job.tag))
    /\ Len(job.left) = Len(Tried(job.tag)) => job.left = Tried(job.tag)

\* As long as pins were required, nothing was recorded on trust.
PinsAreTrue == ~lax => \A pin \in DOMAIN pins : pins[pin] = TrueBytes(pin.tag, pin.asset)

InstallInv ==
  /\ host \in Hosts
  /\ BuiltIsTrue
  /\ JobFits
  /\ PinsAreTrue
  /\ NothingTwice

LEMMA InitInstall == Init => InstallInv
BY DEF Init, InstallInv, BuiltIsTrue, JobFits, PinsAreTrue, NothingTwice

\* A step that leaves the machine, the build and the pins alone.
LEMMA BuiltStays ==
  ASSUME BuiltIsTrue, PinsAreTrue, UNCHANGED <<host, installed, stamp, pins, lax>>
  PROVE  BuiltIsTrue' /\ PinsAreTrue'
<1>1. \A tag : Fitting(tag)' = Fitting(tag)
  BY SameMachine
<1>2. ASSUME NEW build, Vetted(build), Fits(build)
      PROVE  Vetted(build)' /\ Fits(build)'
  <2>1. Vetted(build)'
    BY <1>2 DEF Vetted, Pin, TrueBytes
  <2>2. Fits(build)'
    BY <1>1, <1>2 DEF Fits
  <2> QED BY <2>1, <2>2
<1> QED BY <1>2 DEF BuiltIsTrue, PinsAreTrue, TrueBytes

LEMMA JobStays ==
  ASSUME JobFits, UNCHANGED <<host, pc, job>>
  PROVE  JobFits'
<1>1. \A tag : Fitting(tag)' = Fitting(tag) /\ Tried(tag)' = Tried(tag)
  BY SameMachine
<1> QED BY <1>1 DEF JobFits

LEMMA TwoLines ==
  ASSUME NEW first, NEW second
  PROVE  LET lines == <<first, second>>
         IN  lines[1] = first /\ lines[2] = second /\ DOMAIN lines = {1, 2}
OBVIOUS

\* build_stamp_is_stale: the build that is installed is not fetched again.
LEMMA UpdateKeeps == ASSUME InstallInv, Update PROVE InstallInv'
<1>1. /\ UNCHANGED <<host, installed, stamp, pins, lax>> /\ ResolvedTag \in DOMAIN Releases
      /\ BuildStampIsStale(stamp, ResolvedTag)
      /\ needless' = (needless \/ (installed # <<>> /\ installed[1].tag = ResolvedTag))
  BY DEF Update
<1>2. host \in Hosts' /\ host' \in Hosts /\ BuiltIsTrue' /\ PinsAreTrue'
  BY <1>1, BuiltStays DEF InstallInv
<1>3. NothingTwice'
  <2>1. ASSUME NEW build, installed = <<build>>, stamp = <<build.tag, "">>
        PROVE  build.tag # ResolvedTag /\ installed[1].tag = build.tag
    <3>1. PICK tag : tag = build.tag
      OBVIOUS
    <3>2. PICK lines : lines = <<tag, "">>
      OBVIOUS
    <3>3. lines[1] = tag /\ lines[2] = "" /\ DOMAIN lines = {1, 2}
      BY <3>2, TwoLines, Zenon
    <3>4. BuildStampIsStale(lines, ResolvedTag)
      BY <1>1, <2>1, <3>1, <3>2
    <3>6. tag # ResolvedTag
      BY <3>3, <3>4 DEF BuildStampIsStale
    <3>7. build.tag # ResolvedTag
      BY <3>1, <3>6
    <3>5. installed[1] = build
      BY <2>1
    <3> QED BY <3>5, <3>7
  <2>2. installed = <<>> \/ installed[1].tag # ResolvedTag
    BY <2>1 DEF InstallInv, BuiltIsTrue
  <2> QED BY <1>1, <2>2 DEF InstallInv, NothingTwice
<1>4. JobFits'
  <2>1. PICK tag \in DOMAIN Releases : tag = ResolvedTag
    BY <1>1
  <2>2. PICK tried : tried = Tried(tag)
    OBVIOUS
  <2>3. job' = [tag |-> tag, left |-> tried, bytes |-> <<>>] /\ job'.left # <<>>
    BY <2>1, <2>2 DEF Update, Tried
  <2>4. job'.tag = tag /\ job'.left = tried /\ job' = [tag |-> job'.tag, left |-> job'.left, bytes |-> job'.bytes]
    BY <2>3
  <2>5. tried \in Seq(Fitting(tag))
    BY <2>2, CandidatesFit DEF InstallInv, Tried
  <2>6. Len(tried) \in Nat /\ \A t : Fitting(t)' = Fitting(t) /\ Tried(t)' = Tried(t)
    BY <1>1, <2>5, SameMachine
  <2> QED BY <2>2, <2>3, <2>4, <2>5, <2>6 DEF JobFits
<1> QED BY <1>2, <1>3, <1>4 DEF InstallInv

LEMMA RefuseKeeps ==
  ASSUME InstallInv, Refuse, pc = "checking", UNCHANGED host
  PROVE  JobFits'
<1>1. /\ job = [tag |-> job.tag, left |-> job.left, bytes |-> job.bytes]
      /\ job.tag \in DOMAIN Releases /\ job.left \in Seq(Fitting(job.tag)) /\ job.left # <<>>
      /\ Len(job.left) <= Len(Tried(job.tag))
  BY DEF InstallInv, JobFits
<1>2. PICK tag \in DOMAIN Releases, left \in Seq(Fitting(job.tag)) : tag = job.tag /\ left = job.left
  BY <1>1
<1>3. /\ job' = [tag |-> tag, left |-> Tail(left), bytes |-> <<>>]
      /\ pc' = IF Len(left) > 1 THEN "fetching" ELSE "idle"
  BY <1>2 DEF Refuse
<1>4. /\ left # <<>> /\ Tail(left) \in Seq(Fitting(tag)) /\ Len(Tail(left)) = Len(left) - 1 /\ Len(left) \in Nat
      /\ Len(left) > 1 => Tail(left) # <<>>
  <2>1. PICK T : T = Fitting(tag)
    OBVIOUS
  <2>2. PICK rest \in Seq(T) : rest = left
    BY <1>1, <1>2, <2>1
  <2>3. rest # <<>> /\ Len(rest) \in Nat /\ Len(rest) # 0
    BY <1>1, <1>2, <2>2
  <2>4. Tail(rest) \in Seq(T) /\ Len(Tail(rest)) = Len(rest) - 1
    BY <2>3
  <2>5. Len(rest) > 1 => Tail(rest) # <<>>
    BY <2>3, <2>4
  <2> QED BY <2>1, <2>2, <2>3, <2>4, <2>5
<1>5. Fitting(tag)' = Fitting(tag) /\ Tried(tag)' = Tried(tag)
  BY SameMachine
<1>6. Len(left) <= Len(Tried(tag)) /\ Len(Tried(tag)) \in Nat
  BY <1>1, <1>2, CandidatesFit DEF InstallInv, Tried
<1> QED BY <1>3, <1>4, <1>5, <1>6 DEF JobFits

\* check_download_pin: what is accepted is the pinned bytes, or there is no pin
\* and none is required.
LEMMA AcceptKeeps ==
  ASSUME InstallInv, pc = "checking", UNCHANGED host, NEW record \in BOOLEAN, Accept(record),
         lax' = (lax \/ ~Config["require_pins"]),
         LET pin == Pin(job.tag, Head(job.left))
         IN  \/ pin = {Head(job.bytes)} /\ ~record
             \/ pin = {} /\ ~Config["require_pins"]
  PROVE  BuiltIsTrue' /\ JobFits' /\ PinsAreTrue'
<1>1. PICK tag \in DOMAIN Releases, asset \in Fitting(job.tag), bytes \in {Head(job.bytes)}, tried \in Int :
        /\ tag = job.tag /\ asset = Head(job.left)
        /\ tried = Len(Tried(tag)) - Len(job.left)
        /\ tried = 0 => asset = Tried(tag)[1] /\ Tried(tag) # <<>>
  <2>1. /\ job.tag \in DOMAIN Releases /\ job.left \in Seq(Fitting(job.tag)) /\ job.left # <<>>
        /\ Len(job.left) = Len(Tried(job.tag)) => job.left = Tried(job.tag)
    BY DEF InstallInv, JobFits
  <2>2. Len(Tried(job.tag)) \in Nat
    BY <2>1, CandidatesFit DEF InstallInv, Tried
  <2>3. Head(job.left) \in Fitting(job.tag) /\ Head(job.left) = job.left[1] /\ Len(job.left) \in Nat
    BY <2>1
  <2>4. PICK tag \in DOMAIN Releases, asset \in Fitting(job.tag), tried \in Int :
          tag = job.tag /\ asset = Head(job.left) /\ tried = Len(Tried(job.tag)) - Len(job.left)
    <3>1. Len(Tried(job.tag)) - Len(job.left) \in Int
      BY <2>2, <2>3
    <3> QED BY <2>1, <2>3, <3>1, Zenon
  <2>5. tried = 0 => job.left = Tried(job.tag)
    BY <2>1, <2>2, <2>3, <2>4
  <2>6. tried = 0 => asset = Tried(tag)[1] /\ Tried(tag) # <<>>
    BY <2>1, <2>3, <2>4, <2>5, Zenon
  <2>7. tried = Len(Tried(tag)) - Len(job.left) /\ Head(job.bytes) \in {Head(job.bytes)}
    BY <2>4, Zenon
  <2> QED BY <2>4, <2>6, <2>7, Zenon
<1>0. PICK build : build = [tag |-> tag, asset |-> asset, bytes |-> bytes, tried |-> tried]
  OBVIOUS
<1> DEFINE key == [tag |-> tag, asset |-> asset]
<1>2. /\ installed' = <<build>> /\ stamp' = <<tag, "">> /\ pc' = "idle"
      /\ pins' = IF record THEN Overlay(pins, [pin \in {key} |-> bytes]) ELSE pins
  BY <1>1, <1>0 DEF Accept, Tried
<1>3. \/ key \in DOMAIN pins /\ pins[key] = bytes /\ pins' = pins
      \/ key \notin DOMAIN pins /\ lax'
  BY <1>1, <1>2 DEF Pin
<1>4. key \in DOMAIN pins' => pins'[key] = bytes
  BY <1>2, <1>3 DEF Overlay
<1>5. PinsAreTrue'
  BY <1>3 DEF InstallInv, PinsAreTrue, TrueBytes
<1>6. Vetted(build)'
  <2>1. key.tag = tag /\ key.asset = asset /\ build.tag = tag /\ build.asset = asset /\ build.bytes = bytes
    BY <1>0
  <2>2. Pin(tag, asset)' \subseteq {bytes}
    BY <1>4 DEF Pin
  <2>3. ~lax' => bytes = TrueBytes(tag, asset)
    BY <1>3, <1>4, <1>5, <2>1 DEF PinsAreTrue, TrueBytes
  <2> HIDE DEF key
  <2> QED BY <2>1, <2>2, <2>3 DEF Vetted, TrueBytes, Pin
<1>7. Fits(build)'
  <2>1. host' = host /\ \A t : Fitting(t)' = Fitting(t)
    BY SameMachine
  <2>2. tried = 0 /\ host.driver > 0 /\ host.driver \in {a.major : a \in Fitting(tag)} => asset.major = host.driver
    BY <1>1, CandidatesFit DEF InstallInv, Tried
  <2>3. build.tag = tag /\ build.asset = asset /\ build.tried = tried
    BY <1>0
  <2>4. asset \in Fitting(tag)
    BY <1>1
  <2>5. Fits(build)
    BY <2>2, <2>3, <2>4 DEF Fits
  <2> QED BY <2>1, <2>5 DEF Fits
<1>8. BuiltIsTrue'
  <2>1. build.tag = tag
    BY <1>0
  <2> QED BY <1>2, <1>6, <1>7, <2>1 DEF BuiltIsTrue
<1> QED BY <1>2, <1>5, <1>8 DEF JobFits

LEMMA CheckKeeps == ASSUME InstallInv, Check PROVE InstallInv'
<1> DEFINE outcome == CheckDownloadPin(Head(job.bytes), Pin(job.tag, Head(job.left)), Config["require_pins"])
<1>1. /\ pc = "checking" /\ UNCHANGED <<host, needless>> /\ lax' = (lax \/ ~Config["require_pins"])
      /\ \/ outcome = "Verified" /\ Accept(FALSE)
         \/ outcome = "Unpinned" /\ \E record \in BOOLEAN : Accept(record)
         \/ Refuse
  BY DEF Check
<1>2. /\ outcome = "Verified" => Pin(job.tag, Head(job.left)) = {Head(job.bytes)}
      /\ outcome = "Unpinned" => Pin(job.tag, Head(job.left)) = {} /\ ~Config["require_pins"]
  BY DEF CheckDownloadPin
<1> HIDE DEF outcome
<1>3. host' \in Hosts /\ NothingTwice'
  BY <1>1 DEF InstallInv, NothingTwice
<1>4. CASE Refuse
  <2>1. JobFits'
    BY <1>1, <1>4, RefuseKeeps
  <2>2. UNCHANGED <<host, installed, stamp, pins>>
    BY <1>1, <1>4 DEF Refuse
  <2>4. PinsAreTrue'
    BY <1>1, <2>2 DEF InstallInv, PinsAreTrue, TrueBytes
  <2>5. ASSUME NEW build, Vetted(build), Fits(build)
        PROVE  Vetted(build)' /\ Fits(build)'
    <3>1. Vetted(build)'
      BY <1>1, <2>2, <2>5 DEF Vetted, Pin, TrueBytes
    <3>2. \A tag : Fitting(tag)' = Fitting(tag)
      BY <2>2, SameMachine
    <3>3. Fits(build)'
      BY <2>2, <2>5, <3>2 DEF Fits
    <3> QED BY <3>1, <3>3
  <2>6. BuiltIsTrue'
    BY <2>2, <2>5 DEF InstallInv, BuiltIsTrue
  <2> QED BY <1>3, <2>1, <2>4, <2>6 DEF InstallInv
<1>5. CASE \E record \in BOOLEAN : Accept(record) /\ (outcome = "Unpinned" \/ (outcome = "Verified" /\ ~record))
  <2>1. PICK record \in BOOLEAN : Accept(record) /\ (outcome = "Unpinned" \/ (outcome = "Verified" /\ ~record))
    BY <1>5
  <2>2. BuiltIsTrue' /\ JobFits' /\ PinsAreTrue'
    BY <1>1, <1>2, <2>1, AcceptKeeps
  <2> QED BY <1>3, <2>2 DEF InstallInv
<1> QED BY <1>1, <1>4, <1>5

LEMMA OthersKeep ==
  ASSUME InstallInv, Arrive \/ Crash \/ Set \/ Publish \/ UNCHANGED vars
  PROVE  InstallInv'
<1>1. UNCHANGED <<host, installed, stamp, pins, lax, needless>>
  BY DEF Arrive, Crash, Set, Publish, vars
<1>2. host' \in Hosts /\ BuiltIsTrue' /\ PinsAreTrue' /\ NothingTwice'
  BY <1>1, BuiltStays DEF InstallInv, NothingTwice
<1>3. CASE Crash
  BY <1>2, <1>3 DEF Crash, JobFits, InstallInv
<1>4. CASE UNCHANGED <<pc, job>>
  BY <1>1, <1>2, <1>4, JobStays DEF InstallInv
<1>5. CASE Arrive
  <2>1. PICK bytes : job' = [job EXCEPT !.bytes = bytes]
    BY <1>5 DEF Arrive
  <2>2. /\ job = [tag |-> job.tag, left |-> job.left, bytes |-> job.bytes]
        /\ job.tag \in DOMAIN Releases /\ job.left \in Seq(Fitting(job.tag)) /\ job.left # <<>>
        /\ Len(job.left) <= Len(Tried(job.tag))
        /\ Len(job.left) = Len(Tried(job.tag)) => job.left = Tried(job.tag)
    BY <1>5 DEF Arrive, InstallInv, JobFits
  <2>3. job' = [tag |-> job.tag, left |-> job.left, bytes |-> bytes]
    BY <2>1, <2>2
  <2>4. job'.tag = job.tag /\ job'.left = job.left /\ job'.bytes = bytes
    BY <2>3
  <2>5. \A tag : Fitting(tag)' = Fitting(tag) /\ Tried(tag)' = Tried(tag)
    BY <1>1, SameMachine
  <2>6. JobFits'
    BY <2>2, <2>3, <2>4, <2>5 DEF JobFits
  <2> QED BY <1>2, <2>6 DEF InstallInv
<1> QED BY <1>3, <1>4, <1>5 DEF Set, Publish, vars

\* assemble_config: the settings are above the other layers and below the catalog.
LEMMA SettingsAlwaysCount == SettingsCount
BY DEF SettingsCount, Config, AssembleConfig, Overlay, Restrict

\* check_download_pin, select_cpu_asset, cuda_major_order, build_stamp_is_stale and
\* assemble_config: what is installed is vetted, fits, is fetched once, and what the
\* user set counts.
THEOREM InstallAlwaysTrue == Spec => []InstallIsTrue
<1>1. InstallInv /\ [Next]_vars => InstallInv'
  BY UpdateKeeps, CheckKeeps, OthersKeep DEF Next
<1>2. ASSUME InstallInv PROVE InstallIsTrue
  <2>1. CASE installed = <<>>
    <3>1. ToSet(installed) = {}
      BY <2>1 DEF ToSet
    <3> QED BY <1>2, <3>1, SettingsAlwaysCount DEF InstallInv, InstallIsTrue, InstalledIsVetted, InstalledFits
  <2>2. ASSUME NEW build, installed = <<build>>, Vetted(build), Fits(build)
        PROVE  InstallIsTrue
    <3>1. ToSet(installed) = {build}
      BY <2>2 DEF ToSet
    <3>2. InstalledIsVetted
      BY <2>2, <3>1 DEF InstalledIsVetted, Vetted
    <3>3. InstalledFits
      BY <2>2, <3>1 DEF InstalledFits, Fits, Fitting
    <3> QED BY <1>2, <3>2, <3>3, SettingsAlwaysCount DEF InstallInv, InstallIsTrue
  <2> QED BY <1>2, <2>1, <2>2 DEF InstallInv, BuiltIsTrue
<1> QED BY InitInstall, <1>1, <1>2, PTL DEF Spec
=============================================================================
