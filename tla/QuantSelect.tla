----------------------------- MODULE QuantSelect ----------------------------
(***************************************************************************)
(* Which files of a repository listing are loaded for a quant request      *)
(* (quant.rs of localx-llama-core).                                        *)
(*                                                                         *)
(* A file is its name without ".gguf", cut at dots and dashes and in lower *)
(* case (segments), the shard suffix, when it has one, as <<index, total>> *)
(* and its size, when the listing has it.  Files that share their segments *)
(* share their base.  A key is a quant token without separators and        *)
(* whether an imatrix marker stands before it; a request is a key, since   *)
(* the spelling of either makes no difference.                             *)
(***************************************************************************)
EXTENDS Lists, FiniteSets

CONSTANTS
  MAX_SHARD_COUNT,  \* how many shards a name stands for at most
  QUANT_TOKENS,     \* the segments that name a quant
  KEYS_IN_ORDER     \* the keys in the order of their names

ASSUME ShardAssumption == MAX_SHARD_COUNT \in Nat

QuantKeys == [imatrix : BOOLEAN, quant : QUANT_TOKENS]

ASSUME KeysAssumption ==
  /\ KEYS_IN_ORDER \in Seq(QuantKeys) /\ QuantKeys \subseteq ToSet(KEYS_IN_ORDER)
  /\ \A i, j \in DOMAIN KEYS_IN_ORDER : KEYS_IN_ORDER[i] = KEYS_IN_ORDER[j] => i = j

IMATRIX_MARKERS == {"i1", "imat", "imatrix"}
AUXILIARY_PREFIXES == {"mmproj", "mtp"}

IsQuantToken(segment) == segment \in QUANT_TOKENS
IsAuxiliary(file) == file.segments[1] \in AUXILIARY_PREFIXES

\* The position of the last quant token, 0 without one.
QuantPosition(segments) ==
  LET positions == {i \in DOMAIN segments : IsQuantToken(segments[i])}
  IN IF positions = {} THEN 0 ELSE CHOOSE i \in positions : \A j \in positions : j <= i

QuantKeyOf(segments) ==
  LET i == QuantPosition(segments)
  IN [imatrix |-> i > 1 /\ segments[i - 1] \in IMATRIX_MARKERS, quant |-> segments[i]]

QualifierCount(segments) == Len(segments) - QuantPosition(segments)

ShardIndex(file) == IF file.shard = <<>> THEN 1 ELSE file.shard[1]

\* Mutant of IsCompleteSet: as many files as the first one says.
CountsAsComplete(parts) ==
  \/ \E f \in parts : parts = {f} /\ f.shard = <<>>
  \/ /\ \A f \in parts : f.shard # <<>>
     /\ \E f \in parts : Cardinality(parts) = f.shard[2]

\* A single file, or exactly the shards 1..total of one total, each once.
IsCompleteSet(parts) ==
  \/ \E f \in parts : parts = {f} /\ f.shard = <<>>
  \/ /\ \A f \in parts : f.shard # <<>>
     /\ \A f, g \in parts : f.shard[1] = g.shard[1] => f = g
     /\ \E f \in parts : /\ \A g \in parts : g.shard[2] = f.shard[2]
                         /\ {g.shard[1] : g \in parts} = 1..f.shard[2]

-----------------------------------------------------------------------------

BaseFiles(listing, segments) == {f \in listing : ~IsAuxiliary(f) /\ f.segments = segments}

\* The bases of a key whose files are a complete set.
CompleteBases(listing, key) ==
  {b \in {f.segments : f \in listing} :
     /\ QuantPosition(b) # 0 /\ QuantKeyOf(b) = key
     /\ BaseFiles(listing, b) # {} /\ IsCompleteSet(BaseFiles(listing, b))}

TotalSize(files) ==
  LET sum[n \in 0..Len(files)] == IF n = 0 THEN 0 ELSE sum[n - 1] + files[n].size[1]
  IN IF \E i \in DOMAIN files : files[i].size = <<>> THEN <<>> ELSE <<sum[Len(files)]>>

\* The files in the order of their shards.
InShardOrder(parts) ==
  CHOOSE files \in [1..Cardinality(parts) -> parts] :
    \A i, j \in DOMAIN files : i < j => /\ files[i] # files[j]
                                        /\ ShardIndex(files[i]) <= ShardIndex(files[j])

\* The plainest complete set of the key; of equally plain ones the code takes
\* the first by name.
CandidateOf(listing, key) ==
  LET bases == CompleteBases(listing, key)
      base == CHOOSE b \in bases : \A other \in bases : QualifierCount(b) <= QualifierCount(other)
      files == InShardOrder(BaseFiles(listing, base))
  IN [key |-> key, files |-> files, total_size |-> TotalSize(files)]

\* Of every key that has a complete set one, in the order of their names.
QuantCandidates(listing) ==
  LET offered == Only(KEYS_IN_ORDER, {key \in QuantKeys : CompleteBases(listing, key) # {}})
  IN [i \in DOMAIN offered |-> CandidateOf(listing, offered[i])]

-----------------------------------------------------------------------------

\* Q4_K_M, else the middle one by size, else the middle one by name.
DefaultIndex(candidates) ==
  LET recommended == {i \in DOMAIN candidates : candidates[i].key.quant = "q4_k_m"}
      size(i) == candidates[i].total_size[1]
      before(i, j) == size(i) < size(j) \/ (size(i) = size(j) /\ i < j)
      middle == Len(candidates) \div 2
  IN CASE recommended # {} -> CHOOSE i \in recommended : \A j \in recommended : i <= j
       [] recommended = {} /\ (\A i \in DOMAIN candidates : candidates[i].total_size # <<>>) ->
            CHOOSE i \in DOMAIN candidates :
              Cardinality({j \in DOMAIN candidates : before(j, i)}) = middle
       [] OTHER -> middle + 1

\* The key itself; else the only one that differs in the imatrix marker alone.
MatchQuant(candidates, key) ==
  LET exact == {i \in DOMAIN candidates : candidates[i].key = key}
      fuzzy == {i \in DOMAIN candidates : candidates[i].key.quant = key.quant}
  IN CASE exact # {} -> exact
       [] exact = {} /\ Cardinality(fuzzy) = 1 -> fuzzy
       [] OTHER -> {}

\* A request is <<>> or <<key>>.
SelectQuant(candidates, request) ==
  LET picked == IF request = <<>> THEN {DefaultIndex(candidates)}
                ELSE MatchQuant(candidates, request[1])
  IN CASE candidates = <<>> -> [error |-> "NoneAvailable"]
       [] candidates # <<>> /\ picked = {} -> [error |-> "Unknown"]
       [] OTHER -> [error |-> "none", candidate |-> candidates[CHOOSE i \in picked : TRUE]]

\* The names that the first shard stands for; any other name for itself.
ShardFilesFromPrimary(file) ==
  IF file.shard # <<>> /\ file.shard[1] = 1 /\ file.shard[2] \in 2..MAX_SHARD_COUNT
  THEN [i \in 1..file.shard[2] |-> [segments |-> file.segments, shard |-> <<i, file.shard[2]>>]]
  ELSE <<[segments |-> file.segments, shard |-> file.shard]>>
=============================================================================
