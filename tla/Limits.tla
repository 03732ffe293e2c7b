------------------------------- MODULE Limits -------------------------------
(***************************************************************************)
(* The limits a runtime is created with: internal/runtime/limits.go.  A    *)
(* profile is a record of limits; the options of a create name one and may *)
(* override three of its fields.  What the SDKs read back is Public.       *)
(***************************************************************************)
EXTENDS Integers

CONSTANTS
  Profiles,     \* from the names of the profiles to their limits
  BadOptions    \* the answer to options that are refused

Overridable == {"MaxCompiledPrograms", "MaxBatchExpressions", "MaxPreparedPrograms"}
LimitNames ==
  Overridable \cup
  {"MaxSourceBytes", "MaxVariablesBytes", "MaxBatchSourceBytes", "MaxBatchRequestBytes",
   "MaxOutputBytes"}

ASSUME LimitsAssumption ==
  /\ "default" \in DOMAIN Profiles
  /\ \A name \in DOMAIN Profiles : Profiles[name] \in [LimitNames -> Nat \ {0}]

LimitsForProfile(name) ==
  IF name = "" THEN Profiles["default"]
  ELSE IF name \in DOMAIN Profiles THEN Profiles[name] ELSE BadOptions

\* Overrides are applied unread: a mutant of Apply.
ApplyUnchecked(overrides, limits) ==
  [n \in DOMAIN limits |-> IF n \in DOMAIN overrides THEN overrides[n] ELSE limits[n]]

\* overrides is a function on some of the overridable limits.
Apply(overrides, limits) ==
  IF \E n \in DOMAIN overrides : n \notin Overridable \/ overrides[n] <= 0 THEN BadOptions
  ELSE [n \in DOMAIN limits |-> IF n \in DOMAIN overrides THEN overrides[n] ELSE limits[n]]

ParseCreateOptions(options) ==
  LET limits == LimitsForProfile(options.profile)
  IN IF limits = BadOptions THEN BadOptions ELSE Apply(options.limits, limits)

\* RuntimeInfo reports the limits under the names that the SDKs ask for.
Public(limits) ==
  [maxBatchSize |-> limits["MaxBatchExpressions"],
   maxBatchSourceBytes |-> limits["MaxBatchSourceBytes"],
   maxBatchRequestBytes |-> limits["MaxBatchRequestBytes"]]
=============================================================================
