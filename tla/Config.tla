------------------------------- MODULE Config -------------------------------
(***************************************************************************)
(* pkg/apis/config: what the ConfigMaps config-defaults-triggers and       *)
(* feature-flags-triggers say, and the store that keeps the last of them   *)
(* that could be read.  The data of a ConfigMap is a function on some of   *)
(* the keys; what a parser returns is a set, empty for an error.           *)
(***************************************************************************)
EXTENDS Integers, TLC

DefaultServiceAccountValue == "default"
defaultRunAsUserValue == 65532
defaultRunAsGroupValue == 65532
defaultFsGroupValue == 65532
defaultRunAsNonRootValue == TRUE

\* strconv.ParseInt and ParseBool, for the texts that occur
ParseInt(s) == CASE s = "0" -> {0} [] s = "1000" -> {1000} [] s = "65532" -> {65532} [] OTHER -> {}
ParseBool(s) == CASE s = "true" -> {TRUE} [] s = "false" -> {FALSE} [] OTHER -> {}

\* regexp.Compile
Compiles(pattern) == pattern # "("

Id == [value : Int, empty : BOOLEAN]
Defaults == [serviceAccount : STRING, runAsUser : Id, runAsGroup : Id, fsGroup : Id, runAsNonRoot : BOOLEAN]
FeatureFlags == [enableAPIFields : {"stable", "alpha"}, labelsExclusionPattern : STRING]

\* An empty text keeps the value and is remembered
ParseId(cfgMap, key, default) ==
    IF key \notin DOMAIN cfgMap THEN {[value |-> default, empty |-> FALSE]}
    ELSE IF cfgMap[key] = "" THEN {[value |-> default, empty |-> TRUE]}
    ELSE {[value |-> n, empty |-> FALSE] : n \in ParseInt(cfgMap[key])}

ParseNonRoot(cfgMap) ==
    IF "default-run-as-non-root" \notin DOMAIN cfgMap \/ cfgMap["default-run-as-non-root"] = ""
    THEN {defaultRunAsNonRootValue}
    ELSE ParseBool(cfgMap["default-run-as-non-root"])

NewDefaultsFromMap(cfgMap) ==
    {[serviceAccount |-> IF "default-service-account" \in DOMAIN cfgMap
                         THEN cfgMap["default-service-account"] ELSE DefaultServiceAccountValue,
      runAsUser |-> user, runAsGroup |-> group, fsGroup |-> fs, runAsNonRoot |-> nonRoot] :
        user \in ParseId(cfgMap, "default-run-as-user", defaultRunAsUserValue),
        group \in ParseId(cfgMap, "default-run-as-group", defaultRunAsGroupValue),
        fs \in ParseId(cfgMap, "default-fs-group", defaultFsGroupValue),
        nonRoot \in ParseNonRoot(cfgMap)}

\* strings.ToLower, for the texts that occur
ToLower(s) == CASE s = "Alpha" -> "alpha" [] OTHER -> s

getEnabledAPI(cfgMap) ==
    {IF "enable-api-fields" \in DOMAIN cfgMap THEN ToLower(cfgMap["enable-api-fields"]) ELSE "stable"}
    \intersect {"alpha", "stable"}

getLabelsExclusionPattern(cfgMap) ==
    IF "labels-exclusion-pattern" \in DOMAIN cfgMap
    THEN {p \in {cfgMap["labels-exclusion-pattern"]} : Compiles(p)}
    ELSE {""}

NewFeatureFlagsFromMap(cfgMap) ==
    {[enableAPIFields |-> api, labelsExclusionPattern |-> pattern] :
        api \in getEnabledAPI(cfgMap), pattern \in getLabelsExclusionPattern(cfgMap)}

\* The constructors of NewStore
Construct(name, cfgMap) ==
    IF name = "defaults" THEN NewDefaultsFromMap(cfgMap) ELSE NewFeatureFlagsFromMap(cfgMap)

\* What has not been stored yet is as if its ConfigMap were empty
Load(store) ==
    LET Or(name) == CHOOSE v \in (IF store[name] # {} THEN store[name] ELSE Construct(name, <<>>)) : TRUE
    IN  [defaults |-> Or("defaults"), flags |-> Or("flags")]
=============================================================================
