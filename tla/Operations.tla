----------------------------- MODULE Operations -----------------------------
(***************************************************************************)
(* What the operations of one runtime answer: Validate, Evaluate,          *)
(* EvaluateMany (runtime.go), Prepare and EvaluateProgram (prepared.go),   *)
(* and a value that a client sends back after it was answered.             *)
(*                                                                         *)
(* An operation is a list of steps in the order of the code; the first     *)
(* that fails is its answer.  The environment and the program it reaches   *)
(* on its way stay in their caches, so that a later operation skips the    *)
(* steps that made them.  One client calls each operation once, in any     *)
(* order, about one input: an environment that declares x, a source, the   *)
(* variables and an expected type.  Interleavings are CompileFlight's, and *)
(* the bounds of the stores Bridge's.                                      *)
(***************************************************************************)
EXTENDS ResultTypes, ValueCodec

CONSTANTS
  Inputs,        \* what the calls of a client may be about
  Nil,           \* no type is expected
  NotPrepared    \* no program is prepared

VARIABLES
  input,      \* what this client's calls are about
  cached,     \* of "environment" and "program": those in the runtime's caches
  prepared,   \* the expected type kept with the prepared program, if there is one
  answers     \* the answer to each operation that has been called

vars == <<input, cached, prepared, answers>>

Operations == {"validate", "evaluate", "many", "prepare", "program", "echo"}
Sources == {"x", "[[x]]", "dyn(x)", "type(x)", "{}", "1/0", "y", "x +", "oversized"}
Passed == "passed"

\* A leaf that JSON can spell.
IsJsonScalar(v) ==
  /\ v = Value(v.kind, v.text)
  /\ v.kind \in {"null", "bool", "string", "integer", "fraction"} /\ (v.kind = "null" => v = Null)

\* A JSON document.
IsJson(j) ==
  \A c \in Nodes(j) :
    \/ c = Malformed
    \/ c = Leaf(c.has) /\ IsJsonScalar(c.has)
    \/ c = Array(c.parts) /\ c.parts \in Seq(Range(c.parts))
    \/ c = Object([n \in DOMAIN c.parts |-> c.parts[n]]) /\ IsFiniteSet(DOMAIN c.parts)

\* A type as a Go value: names, nested under some of the fields of TypeSpec.
IsType(t) ==
  \A u \in Nodes(t) : u = [type |-> u.type, parts |-> [p \in DOMAIN u.parts |-> u.parts[p]]]

ASSUME InputsAssumption ==
  /\ "int" \in ScalarNames /\ Unnamed \notin ScalarNames /\ Nil # Dyn
  /\ \A i \in Inputs :
       /\ i.source \in Sources /\ i.contract \in {"prepare", "evaluation"} /\ i.expired \in BOOLEAN
       /\ IsType(i.declared) /\ IsJson(i.wire)

(***************************************************************************)
(* cel-go, for the sources above.                                          *)
(***************************************************************************)
CompileStep(source) ==
  CASE source = "x +" -> "parse_error" [] source = "y" -> "compile_error" [] OTHER -> Passed

OutputType(i) ==
  CASE i.source = "x" -> i.declared
    [] i.source = "[[x]]" -> ListOf(ListOf(i.declared))
    [] i.source = "1/0" -> Scalar("int")
    [] i.source = "{}" -> MapOf(Dyn, Dyn)
    [] OTHER -> Scalar(Unnamed)

\* The value of the source, or the code of evalProgram's failure.  Variables
\* are not held against their declared types.
Eval(source, variables) ==
  LET x == variables["x"]
  IN IF source = "1/0" THEN Fail("evaluation_error")
     ELSE IF source = "{}" THEN OK(MapValue(<<>>))
     ELSE IF "x" \notin DOMAIN variables THEN Fail("missing_variable")
     ELSE CASE source = "[[x]]" -> OK(ListValue(<<ListValue(<<x>>)>>))
            [] source = "type(x)" -> OK(Value(Unnamed, x.kind))
            [] OTHER -> OK(x)

(***************************************************************************)
(* The steps.  Each is named, with the code it fails with or Passed.       *)
(***************************************************************************)
Step(name, code) == [name |-> name, code |-> code]

ParseOptions(expected) ==
  Step("options", IF expected = Nil \/ Expectable(expected) THEN Passed ELSE "invalid_request")

CheckDeadline(i) == Step("deadline", IF i.expired THEN "deadline_exceeded" ELSE Passed)

ValidateSource(i) == Step("source", IF i.source = "oversized" THEN "source_too_large" ELSE Passed)

DecodeEnvironment(i) ==
  Step("decode environment", IF Declarable(i.declared) THEN Passed ELSE "invalid_environment")

EnvFor(i) ==
  Step("environment", IF "environment" \in cached THEN Passed ELSE DecodeEnvironment(i).code)

ResultType(i) == FromCEL(OutputType(i))

\* Once the program is cached its type is not compared again: a mutant of CheckContract.
CheckContractOnce(i, expected) ==
  Step("contract", IF expected = Nil \/ "program" \in cached THEN Passed
                   ELSE IF CompileStep(i.source) # Passed THEN CompileStep(i.source)
                   ELSE IF Compatible(ResultType(i), expected) THEN Passed
                   ELSE "result_type_mismatch")

\* Parse, check and compare types, whatever is cached.
CheckContract(i, expected) ==
  Step("contract", IF expected = Nil THEN Passed
                   ELSE IF CompileStep(i.source) # Passed THEN CompileStep(i.source)
                   ELSE IF Compatible(ResultType(i), expected) THEN Passed
                   ELSE "result_type_mismatch")

DecodeVariablesStep(json) ==
  LET variables == DecodeVariables(json)
  IN Step("variables", IF variables.ok THEN Passed ELSE variables.body)

GetOrCompile(i) ==
  Step("program", IF "program" \in cached THEN Passed ELSE CompileStep(i.source))

FindProgram == Step("find", IF prepared = NotPrepared THEN "program_not_found" ELSE Passed)

EvalProgram(source, variables, expected) ==
  LET value == Eval(source, variables)
      encoded == EncodeValue(value.body)
  IN IF ~value.ok THEN value
     ELSE IF encoded = Refused THEN Fail("unsupported_value")
     ELSE IF expected # Nil /\ ~MatchesValue(expected, encoded) THEN Fail("result_type_mismatch")
     ELSE OK(encoded)

(***************************************************************************)
(* The operations.                                                         *)
(***************************************************************************)
\* The number of steps that pass before one fails.
Passing(steps) ==
  LET failing == {n \in DOMAIN steps : steps[n].code # Passed}
  IN IF failing = {} THEN Len(steps) ELSE Min(failing) - 1

\* What a step makes is stored before its error is looked at: a mutant of Reached.
ReachedOrFailed(steps) == {steps[n].name : n \in DOMAIN steps \cap 1..(Passing(steps) + 1)}

Reached(steps) == {steps[n].name : n \in 1..Passing(steps)}
Answered(steps) == Passing(steps) = Len(steps)

Answer(op, steps, result) ==
  /\ op \notin DOMAIN answers
  /\ LET answer == IF Answered(steps) THEN result ELSE Fail(steps[Passing(steps) + 1].code)
     IN answers' = [o \in DOMAIN answers \cup {op} |-> IF o = op THEN answer ELSE answers[o]]
  /\ cached' = cached \cup (Reached(steps) \cap {"environment", "program"})
  /\ UNCHANGED input

\* An invalid source or a type mismatch is a result, not a failure.
Validate ==
  /\ LET valid == CheckContract(input, Dyn).code = Passed
                     /\ CheckContract(input, input.expected).code = Passed
     IN Answer("validate",
               <<ValidateSource(input), ParseOptions(input.expected), DecodeEnvironment(input)>>,
               OK([valid |-> valid, type |-> ResultType(input)]))
  /\ UNCHANGED prepared

EvaluateSteps(expected) ==
  <<ParseOptions(expected), CheckDeadline(input), ValidateSource(input), EnvFor(input),
    CheckContract(input, expected), DecodeVariablesStep(input.wire), GetOrCompile(input)>>

Evaluate ==
  /\ Answer("evaluate", EvaluateSteps(input.expected),
            EvalProgram(input.source, DecodeVariables(input.wire).body, input.expected))
  /\ UNCHANGED prepared

\* One source: its own failure is an item of the list, and has no expected type.
EvaluateMany ==
  /\ LET steps == <<EnvFor(input), DecodeVariablesStep(input.wire), ValidateSource(input), GetOrCompile(input)>>
     IN Answer("many", steps, EvalProgram(input.source, DecodeVariables(input.wire).body, Nil))
  /\ UNCHANGED prepared

\* The expected type goes to Prepare or to EvaluateProgram.
AtPrepare == IF input.contract = "prepare" THEN input.expected ELSE Nil
AtEvaluation == IF input.contract = "evaluation" THEN input.expected ELSE Nil

Prepare ==
  LET steps == <<ValidateSource(input), ParseOptions(AtPrepare), EnvFor(input),
                 CheckContract(input, AtPrepare), GetOrCompile(input)>>
  IN /\ Answer("prepare", steps, OK("id"))
     /\ prepared' = IF Answered(steps) THEN AtPrepare ELSE NotPrepared

EvaluateProgram ==
  /\ LET steps == <<ParseOptions(AtEvaluation), CheckDeadline(input), FindProgram,
                    DecodeVariablesStep(input.wire)>>
         expected == IF AtEvaluation # Nil THEN AtEvaluation ELSE prepared
     IN Answer("program", steps, EvalProgram(input.source, DecodeVariables(input.wire).body, expected))
  /\ UNCHANGED prepared

\* The value that Evaluate answered and the SDK made a CelValue of goes back as
\* the variable of another request, for an x that is declared dyn.  The SDK counts a value's levels, the
\* runtime those of the JSON it became.
Resent(value) == Object([n \in {"x"} |-> Tag(value)])

Echo ==
  /\ "evaluate" \in DOMAIN answers /\ answers["evaluate"].ok
  /\ Receivable(answers["evaluate"].body)
  /\ LET value == answers["evaluate"].body
         inSdk == Step("encode", IF Deeper(value, MaxSdkDepth - 1) THEN "invalid_request" ELSE Passed)
     IN Answer("echo", <<inSdk, DecodeVariablesStep(Resent(value))>>,
               EvalProgram("x", DecodeVariables(Resent(value)).body, Nil))
  /\ UNCHANGED prepared

Init ==
  /\ input \in Inputs
  /\ cached = {}
  /\ prepared = NotPrepared
  /\ answers = <<>>

Next == Validate \/ Evaluate \/ EvaluateMany \/ Prepare \/ EvaluateProgram \/ Echo

Spec == Init /\ [][Next]_vars

(***************************************************************************)
(* Properties.                                                             *)
(***************************************************************************)
\* The types of the variables; and what is in the caches and the store has
\* passed the steps before it: nothing invalid is kept for later calls.
TypeOK ==
  /\ \A op \in DOMAIN answers : op \in Operations /\ answers[op].ok \in BOOLEAN
  /\ cached \subseteq {"environment", "program"}
  /\ "environment" \in cached => DecodeEnvironment(input).code = Passed
  /\ "program" \in cached => "environment" \in cached /\ CompileStep(input.source) = Passed
  /\ prepared # NotPrepared => "program" \in cached /\ prepared = AtPrepare

Gave(op) == op \in DOMAIN answers /\ answers[op].ok
Failed(op, codes) == op \in DOMAIN answers /\ ~answers[op].ok /\ answers[op].body \in codes
Both(op1, op2) == {op1, op2} \subseteq DOMAIN answers

\* A part of a value stands at the place of a part of its type.
PlacesBelow(t, v) ==
  CASE t.type = "list" /\ v.kind = "list" -> {<<t.parts["element"], c>> : c \in Range(v.parts)}
    [] t.type = "map" /\ v.kind = "map" ->
         {<<t.parts["key"], k>> : k \in DOMAIN v.parts} \cup {<<t.parts["value"], c>> : c \in Range(v.parts)}
    [] OTHER -> {}

\* Every type in t with every value that stands at its place in v.
Places(t, v) ==
  LET level[n \in 0..MaxNesting] ==
        IF n = 0 THEN {<<t, v>>} ELSE UNION {PlacesBelow(p[1], p[2]) : p \in level[n - 1]}
  IN UNION {level[n] : n \in 0..MaxNesting}

Inhabits(v, t) == \A p \in Places(t, v) : p[1].type \in {"dyn", p[2].kind}

\* A value answered under an expected type, be it given to Evaluate, to Prepare
\* or to EvaluateProgram, is of that type in all its depth.
ExpectedTypeHolds ==
  input.expected # Nil =>
    \A op \in {"evaluate", "program"} : Gave(op) => Inhabits(answers[op].body, input.expected)

WellTyped ==
  LET variables == DecodeVariables(input.wire)
  IN variables.ok /\ "x" \in DOMAIN variables.body /\ Inhabits(variables.body["x"], input.declared)

\* Validate and Evaluate see the same errors: what is invalid does not
\* evaluate, what is valid compiles, and if x has its declared type and no type
\* is left open, a valid source never yields a value of the wrong type.
ValidateForesees ==
  Both("validate", "evaluate") /\ answers["validate"].ok =>
    LET validation == answers["validate"].body
    IN IF ~validation.valid THEN ~Gave("evaluate")
       ELSE /\ ~Failed("evaluate", {"parse_error", "compile_error"})
            /\ Failed("evaluate", {"result_type_mismatch"}) => ContainsDyn(validation.type) \/ ~WellTyped

\* One source has one value, whether it is evaluated, prepared and evaluated,
\* or one of many, and whichever comes first.  Only a type compared at the
\* evaluation of a prepared program is compared later than in Evaluate.
RoutesAgree ==
  /\ Gave("prepare") /\ Both("program", "evaluate") /\ ~Failed("program", {"program_not_found"}) =>
       \/ answers["program"] = answers["evaluate"]
       \/ input.contract = "evaluation" /\ Failed("evaluate", {"result_type_mismatch"})
  /\ Both("many", "evaluate") /\ ~input.expired =>
       IF Gave("evaluate") THEN answers["many"] = answers["evaluate"]
       ELSE Gave("many") => input.expected # Nil

\* The type that Validate reports may be sent as an expected type, and then
\* changes nothing for an x that has its declared type.
ResultTypeCanBeExpected ==
  "validate" \in DOMAIN answers /\ answers["validate"].ok /\ answers["validate"].body.valid =>
    LET type == answers["validate"].body.type
        run(expected) == EvalProgram(input.source, DecodeVariables(input.wire).body, expected)
    IN /\ ParseOptions(type).code = Passed
       /\ CheckContract(input, type).code = Passed
       /\ WellTyped => run(type) = run(Nil)

\* The tagged form of v has no more than n levels of JSON: one for the object of
\* a scalar or of an empty collection, two for a list and three for a map around
\* what they hold.
Fits(v, levels) ==
  LET fits[c \in Nodes(v)] == [n \in Int |->
        IF Kids(c) = {} THEN n >= 1
        ELSE \A k \in Kids(c) : fits[k][n - (IF c.kind = "list" THEN 2 ELSE 3)]]
  IN fits[v][levels]

\* The runtime parses what the SDK sends for each scalar of v.
Resendable(v) ==
  \A c \in Nodes(v) : c.kind \in DOMAIN Reading => SentText(c) \in DOMAIN Reading[c.kind]

\* v with each scalar as the runtime reads it back.
ReadBack(v) ==
  LET back[c \in Nodes(v)] ==
        LET parts == [i \in DOMAIN c.parts |-> back[c.parts[i]]]
        IN CASE c.kind \in DOMAIN Reading -> Value(c.kind, Reading[c.kind][SentText(c)])
             [] c.kind = "list" -> ListValue(parts)
             [] c.kind = "map" -> MapValue(parts)
             [] OTHER -> c
  IN back[v]

\* A value that was answered may be sent back.  Its kinds, keys and order come
\* back as they were, and each scalar as what the runtime reads of the text that
\* the SDK has for it.  It is refused only when its tagged form is deeper than
\* variables may be, or when such a text is one that the runtime does not read.
EchoKeepsValue ==
  "echo" \in DOMAIN answers =>
    LET value == answers["evaluate"].body
    IN answers["echo"] =
         IF Fits(value, MaxValueDepth - 1) /\ Resendable(value) THEN OK(ReadBack(value))
         ELSE Fail("invalid_request")
=============================================================================
