---------------------------- MODULE MCOperations ----------------------------
(***************************************************************************)
(* Operations on the inputs below: every declared type with every expected *)
(* one and all variables, and the sources that fail with a few of them.    *)
(* (TLC compares the fields of two records in the order in which it has    *)
(* met their names: it must meet kind, json and type before parts.)        *)
(***************************************************************************)
EXTENDS Operations

\* The timestamps: one with nanoseconds, the same without, and those whose
\* offset moves them out of the years 0000 to 9999 (texts shortened to what
\* differs).
MCReading ==
  [int |-> "1" :> "1",
   uint |-> "1" :> "1" @@ "big" :> "big",
   double |-> "1" :> "1" @@ "1.0" :> "1",
   duration |-> "1s" :> "1.000000000s" @@ "1.000000000s" :> "1.000000000s",
   timestamp |-> ".123456789Z" :> ".123456789Z" @@ ".123456Z" :> ".123456Z"
                 @@ "9999-01:00" :> "10000Z" @@ "0000+01:00" :> "-0001Z"]

\* Dart writes 1.0 for a double 1, omits the fraction of a whole second, has no
\* nanoseconds and signs a year of five digits; it parses all that is written.
MCSdkText ==
  [int |-> "1" :> "1",
   uint |-> "1" :> "1" @@ "big" :> "big",
   double |-> "1" :> "1.0",
   duration |-> "1.000000000s" :> "1s",
   timestamp |-> ".123456789Z" :> ".123456Z" @@ ".123456Z" :> ".123456Z"
                 @@ "10000Z" :> "+010000Z" @@ "-0001Z" :> "-0001Z"]

IntT == Scalar("int")
StringT == Scalar("string")

Declared ==
  {IntT, StringT, Dyn, ListOf(IntT), ListOf(Dyn), MapOf(StringT, IntT),
   ListOf(ListOf(IntT)), MapOf(Scalar("double"), IntT), Scalar("list")}

Expected ==
  {Nil, IntT, Dyn, ListOf(IntT), ListOf(Dyn), MapOf(StringT, IntT), MapOf(IntT, IntT),
   MapOf(Scalar("double"), IntT), ListOf(ListOf(ListOf(IntT))), Scalar("list"), Scalar("nosuch")}

SentAs(kind, name, json) == Tagged("kind" :> Text(kind) @@ name :> json)
Entry(k, v) == Object("key" :> k @@ "value" :> v)
One == Leaf(Value("integer", "1"))
TaggedInt(text) == SentAs("int", "value", Text(text))

Timestamp(text) == SentAs("timestamp", "value", Text(text))
Nanoseconds == Timestamp(".123456789Z")

Deep3 == Array(<<Array(<<Array(<<One>>)>>)>>)
Deep4 == Array(<<Deep3>>)

Xs ==
  {One, Text("a"), Leaf(Null), Leaf(Value("integer", "big")), Leaf(Value("integer", "huge")),
   Leaf(Value("fraction", "1.0")), TaggedInt("1"), TaggedInt("a"), SentAs("int", "value", One),
   SentAs("duration", "value", Text("1s")), Nanoseconds, Timestamp("9999-01:00"), Timestamp("0000+01:00"),
   Array(<<>>), Array(<<One, Text("a")>>), Array(<<TaggedInt("1")>>),
   SentAs("list", "items", Array(<<One>>)),
   Deep3,
   Object("k" :> One), Object("k" :> Array(<<>>)),
   Object("k" :> Nanoseconds), Array(<<Nanoseconds, Timestamp("9999-01:00")>>),
   SentAs("map", "entries", Array(<<Entry(One, One), Entry(Text("1"), One)>>)),
   SentAs("map", "entries", Array(<<Entry(One, One), Entry(TaggedInt("1"), Text("a"))>>)),
   SentAs("map", "entries", Array(<<Entry(Leaf(Value("fraction", "1.0")), One)>>))}

Wires ==
  {Object("x" :> json) : json \in Xs} \cup
  {Object([n \in {} |-> One]), Object("x" :> Array(<<Malformed>>)), Array(<<>>), TaggedInt("1")}

Input(declared, source, expected, wire, expired, contract) ==
  [declared |-> declared, source |-> source, expected |-> expected, wire |-> wire,
   expired |-> expired, contract |-> contract]

MCInputs ==
  {Input(type, s, e, w, FALSE, "prepare") : type \in Declared, s \in {"x"}, e \in Expected, w \in Wires} \cup
  {Input(type, s, e, w, b, c) :
     type \in {IntT, ListOf(Dyn), Scalar("list")}, s \in Sources, e \in {Nil, IntT, Dyn, ListOf(ListOf(ListOf(IntT)))},
     w \in {Object("x" :> One), Object("x" :> Deep3), Object("x" :> Deep4),
          Object("x" :> Array(<<Deep4>>)), Object("y" :> One), TaggedInt("1")},
     b \in BOOLEAN, c \in {"prepare", "evaluation"}}
=============================================================================
