------------------------------ MODULE CliConfig ------------------------------
(***************************************************************************)
(* How a command of `pure-analyzer` is configured (cli/src/config.rs):     *)
(* built-in defaults, the user's file, the file of the repository or the   *)
(* one --config names, the environment, and the flags.                     *)
(*                                                                         *)
(* A layer is a function on the settings that it states; the rest it       *)
(* leaves to the layers below it.  What an invocation is given:            *)
(*   noConfig, print   the flags --no-config and --print-config            *)
(*   config            the directory of the file --config names, or None   *)
(*   flags             setting -> value; no flag of a list is an empty list*)
(*   user              the directory of the user's file, or None           *)
(*   ancestors         the working directory and those above it, in order  *)
(*   files             directory -> the configuration file in it           *)
(*   env               variable -> value, named after the settings         *)
(*   garbled           the variables whose value does not parse            *)
(*                                                                         *)
(* A file is [state, version, layer], state one of "absent", "unreadable", *)
(* "malformed" and "toml".                                                 *)
(***************************************************************************)
EXTENDS Naturals, Sequences, SequencesExt, FiniteSetsExt, TLC

CONSTANTS
  CodesOf,  \* pattern -> the registered codes it selects: none if it is malformed
  Below,    \* directory -> (relative path -> path)
  None

ConfigVersion == 1
EmptyPath == ""

\* ConfigLayer: the settings.  The first of them are parsed where the environment
\* states them, the others are lists.
Parsed == {"jobs", "format", "color", "quiet", "strict", "line_width"}
PolicyLists == {"select", "ignore", "deny", "warn"}
Settings == Parsed \cup PolicyLists \cup {"models"}

\* ResolvedConfig::default
Defaults ==
  [jobs |-> 1, format |-> "human", color |-> "auto", quiet |-> FALSE,
   select |-> {}, ignore |-> {}, deny |-> {}, warn |-> {},
   strict |-> FALSE, line_width |-> 100, models |-> <<>>]

\* ConfigError, of a layer or of the whole; a layer is paired with its error.
NoFault == "none"
Stated(layer) == [error |-> NoFault, layer |-> layer]
Rejected(error) == [error |-> error, layer |-> <<>>]

-----------------------------------------------------------------------------
(* The layers *)

\* resolve_path, resolve_paths: relative to where the layer is from.
ResolvePath(path, base) ==
  IF path = EmptyPath \/ path \notin DOMAIN Below[base] THEN path ELSE Below[base][path]
ResolvePaths(layer, base) ==
  [s \in DOMAIN layer |->
     IF s # "models" THEN layer[s]
     ELSE [i \in 1..Len(layer[s]) |-> ResolvePath(layer[s][i], base)]]

\* read_config, FileConfig::into_layer
FileLayer(given, directory) ==
  LET file == given.files[directory] IN
    CASE file.state \in {"absent", "unreadable"} -> Rejected("Read")
      [] file.state = "malformed" -> Rejected("Parse")
      [] file.state = "toml" /\ file.version # ConfigVersion -> Rejected("UnsupportedVersion")
      [] OTHER -> Stated(ResolvePaths(file.layer, directory))

IsFile(given, directory) == given.files[directory].state # "absent"

\* discover_repository_config: the file nearest to the working directory.
Discovered(given) == {i \in 1..Len(given.ancestors) : IsFile(given, given.ancestors[i])}
RepositoryConfig(given) ==
  IF given.config # None THEN <<given.config>>
  ELSE IF Discovered(given) = {} THEN <<>> ELSE <<given.ancestors[Min(Discovered(given))]>>

\* user_config_path and the check of resolve.
UserConfig(given) ==
  IF given.user # None /\ IsFile(given, given.user) THEN <<given.user>> ELSE <<>>

ConfigFiles(given) ==
  IF given.noConfig THEN <<>> ELSE UserConfig(given) \o RepositoryConfig(given)

\* environment_layer, parse_optional
EnvironmentLayer(given) ==
  IF DOMAIN given.env \subseteq Settings /\ given.garbled = {}
  THEN Stated(ResolvePaths(given.env, Head(given.ancestors)))
  ELSE Rejected(IF DOMAIN given.env \subseteq Settings THEN "InvalidValue"
                ELSE "UnknownEnvironment")

\* ConfigFlags::overrides, nonempty, ConfigOverrides::into_layer
FlagLayer(given) ==
  LET states(s) == IF s \in PolicyLists THEN given.flags[s] # {}
                   ELSE s = "models" => given.flags[s] # <<>>
  IN Stated(ResolvePaths([s \in {x \in DOMAIN given.flags : states(x)} |-> given.flags[s]],
                         Head(given.ancestors)))

Layers(given) ==
  [i \in 1..Len(ConfigFiles(given)) |-> FileLayer(given, ConfigFiles(given)[i])]
    \o <<EnvironmentLayer(given), FlagLayer(given)>>

-----------------------------------------------------------------------------
(* Their sum *)

\* What ResolvedConfig::apply refuses.
LayerFault(layer) ==
  IF "jobs" \in DOMAIN layer /\ layer["jobs"] = 0 THEN "ZeroJobs"
  ELSE IF "line_width" \in DOMAIN layer /\ layer["line_width"] = 0 THEN "ZeroLineWidth"
  ELSE IF "models" \in DOMAIN layer /\ EmptyPath \in ToSet(layer["models"]) THEN "EmptyModelPath"
  ELSE NoFault

Resolution(error, config) == [error |-> error, config |-> config]

\* Variant used to test the properties: what a lower layer states stays.
ApplyBelow(resolved, stated) ==
  IF resolved.error # NoFault THEN resolved
  ELSE IF stated.error # NoFault THEN Resolution(stated.error, Defaults)
  ELSE Resolution(LayerFault(stated.layer),
                  [s \in Settings |->
                     IF s \in DOMAIN stated.layer /\ resolved.config[s] = Defaults[s]
                     THEN stated.layer[s] ELSE resolved.config[s]])

\* One layer of resolve: read, then apply and replace_set.
ApplyLayer(resolved, stated) ==
  IF resolved.error # NoFault THEN resolved
  ELSE IF stated.error # NoFault THEN Resolution(stated.error, Defaults)
  ELSE Resolution(LayerFault(stated.layer),
                  [s \in Settings |->
                     IF s \in DOMAIN stated.layer THEN stated.layer[s] ELSE resolved.config[s]])

\* What the layers add up to, after each of them.
Sums(layers) ==
  LET sum[n \in 0..Len(layers)] ==
        IF n = 0 THEN Resolution(NoFault, Defaults) ELSE ApplyLayer(sum[n - 1], layers[n])
  IN sum

\* expand_patterns
ExpandPatterns(patterns) == UNION {CodesOf[p] : p \in patterns}

\* validate_policy: both policies compile, or neither.
PolicyFault(config) ==
  IF \E list \in PolicyLists : \E p \in config[list] : CodesOf[p] = {} THEN "InvalidPattern"
  ELSE IF ExpandPatterns(config["deny"]) \cap ExpandPatterns(config["warn"]) # {}
  THEN "ConflictingSeverity" ELSE NoFault

\* ConfigResolver::resolve
ResolveConfig(given) ==
  LET sum == Sums(Layers(given))[Len(Layers(given))]
  IN IF sum.error # NoFault THEN sum ELSE Resolution(PolicyFault(sum.config), sum.config)

\* policy: the lists as the codes they stand for.
CompiledPolicy(config) == [list \in PolicyLists |-> ExpandPatterns(config[list])]
=============================================================================
