-------------------------- MODULE MCRequestBatches --------------------------
(***************************************************************************)
(* RequestBatches with limits of a few bytes: one large variable is too    *)
(* much for the safe profile, two for any.                                 *)
(***************************************************************************)
EXTENDS RequestBatches

LimitsOf(count, source, batchSource, variables, output) ==
  [MaxCompiledPrograms |-> 1, MaxPreparedPrograms |-> 1, MaxBatchExpressions |-> count,
   MaxSourceBytes |-> source, MaxBatchSourceBytes |-> batchSource, MaxVariablesBytes |-> variables,
   MaxBatchRequestBytes |-> 2 * variables + 4, MaxOutputBytes |-> output]

MCProfiles == "default" :> LimitsOf(3, 3, 4, 15, 46) @@ "safe" :> LimitsOf(2, 2, 3, 9, 11)

Options(profile, overrides) == [profile |-> profile, limits |-> overrides]
MCCreateOptions ==
  {Options("", <<>>), Options("safe", <<>>), Options("nosuch", <<>>),
   Options("default", [MaxBatchExpressions |-> 1]), Options("", [MaxBatchExpressions |-> 0])}

\* 0.0 and -0.0 are the values that differ and are equal.
MCValueBytes == "small" :> 1 @@ "large" :> 6 @@ "ill" :> 1 @@ "0.0" :> 3 @@ "-0.0" :> 4
MCEqualityClass == [v \in DOMAIN MCValueBytes |-> IF v = "-0.0" THEN "0.0" ELSE v]

\* The name `amp' has a character that json.Marshal escapes, and `half' half a
\* surrogate pair, which the SDK escapes and the runtime replaces.
MCKeyBytes == "a" :> 2 @@ "b" :> 2 @@ "amp" :> 2 @@ "half" :> 7
MCMarshaledBytes == "a" :> 2 @@ "b" :> 2 @@ "amp" :> 7 @@ "half" :> 2

MCSourceBytes == "s" :> 1 @@ "tt" :> 3 @@ "uuuuu" :> 5 @@ "e" :> 1 @@ "f" :> 1
MCFoundBefore == [s \in DOMAIN MCSourceBytes |-> IF s = "e" THEN "invalid_environment" ELSE Blank]
MCFoundAfter == [s \in DOMAIN MCSourceBytes |-> IF s = "f" THEN "parse_error" ELSE Blank]

Request(source, program, variables) == [source |-> source, program |-> program, variables |-> variables]
A(x) == [a |-> x]
AB(x, y) == [a |-> x, b |-> y]

Plain == Request("s", Blank, A("small"))
Large == Request("s", Blank, AB("small", "large"))
Stored == Request(Blank, "p", A("small"))

Kinds ==
  {Plain, Large, Stored, Request("s", Blank, AB("small", "small")), Request("s", Blank, A("large")),
   Request("tt", Blank, <<>>)}

Zero == Request("s", Blank, A("0.0"))
NegativeZero == Request("s", Blank, A("-0.0"))

Rare ==
  {Request("uuuuu", Blank, <<>>), Request("s", Blank, AB("large", "large")), Request("s", "p", <<>>),
   Request("s", Blank, [a |-> "small", amp |-> "large"]),
   Request("s", Blank, [a |-> "small", half |-> "large"])} \cup
  {Request(source, Blank, A(value)) : source \in {"s", "tt", "e", "f"}, value \in {"small", "ill"}} \cup
  {Request(Blank, "p", A("ill"))}

WithId(request, id) == request @@ [id |-> id]
Numbered(list) == [i \in DOMAIN list |-> WithId(list[i], i)]

MCLists ==
  {Numbered(list) : list \in UNION {[1..n -> Kinds] : n \in 0..2} \cup [1..3 -> {Plain, Large, Stored}]} \cup
  {Numbered(list) : list \in UNION {[1..n -> {Zero, NegativeZero}] : n \in 1..2}} \cup
  {Numbered(<<first, r>>) : first \in {Plain, Stored}, r \in Rare} \cup {Numbered(<<r>>) : r \in Rare} \cup
  {<<WithId(Plain, 1), WithId(Large, id)>> : id \in {1, Blank}}
=============================================================================
