---------------------------- MODULE StrictSchema ----------------------------
(***************************************************************************)
(* The validator of OpenAI formats compiles a schema for each of its roots *)
(* out of the components of the OpenAPI document: the components that the  *)
(* root reaches, found with a worklist although they refer to each other   *)
(* in cycles, rewritten for another draft, and made strict at the places   *)
(* the validator names.  The first root that fails fails the validator.    *)
(*                                                                         *)
(* A component is [refs, nullable, required, inner]: what it refers to,    *)
(* the names it requires, and its properties that are objects.  The        *)
(* compiled schema is checked by the jsonschema crate, which is external.  *)
(***************************************************************************)
EXTENDS Naturals, Sequences, SequencesExt, FiniteSets

CONSTANTS
    Documents,    \* the documents: functions from component names to components
    Roots         \* what is compiled, in order: records [root, strict]

IsSequence(f) == f \in Seq(ToSet(f))

\* Documents and what they refer to are finite; there is something to compile, and
\* what is made strict is named by a component and a property.
ASSUME StrictSchemaAssumption ==
    /\ \A components \in Documents :
          /\ IsFiniteSet(DOMAIN components)
          /\ \A name \in DOMAIN components :
                IsFiniteSet(components[name].refs) /\ IsSequence(components[name].required)
    /\ IsSequence(Roots) /\ Roots # <<>>
    /\ \A i \in DOMAIN Roots :
          /\ IsSequence(Roots[i].strict)
          /\ \A pointer \in ToSet(Roots[i].strict) :
                pointer = [component |-> pointer.component, property |-> pointer.property]

VARIABLES
    document,     \* the components, <<>> before they were parsed
    compiling,    \* the number of the root at hand
    pending,      \* the worklist of transitive_closure
    reachable,    \* the components it found
    targets,      \* the strict pointers left
    definitions,  \* the $defs of the schema: transformed components
    compiler,     \* "idle", "closing", "strict", "built", "failed" or "rejected"
    validators,   \* the schemas that were compiled, in the order of Roots
    verdict,      \* the last value that was validated, with its violations
    taken         \* history: what was taken from the worklist, for this root

strictSchemaVars == <<document, compiling, pending, reachable, targets, definitions, compiler,
                     validators, verdict, taken>>

Root == Roots[compiling]

\* unique_strings: the first occurrence of each.
UniqueStrings(values) ==
    LET unique[i \in 0 .. Len(values)] ==
            IF i = 0 THEN <<>>
            ELSE IF Contains(unique[i - 1], values[i]) THEN unique[i - 1]
            ELSE Append(unique[i - 1], values[i])
    IN  unique[Len(values)]

\* transform_object: nullable becomes an alternative, around the object.
TransformObject(component) ==
    [refs |-> component.refs, or_null |-> component.nullable, strict |-> {},
     required |-> UniqueStrings(component.required), inner |-> component.inner]

\* collect_component_refs, in the order of a BTreeSet.
DirectRefs(component) == SetToSeq(component.refs)

NotValidated == [kind |-> 0, unknown |-> {}, violations |-> {}]

StrictSchemaInit ==
    /\ document = <<>> /\ compiling = 0 /\ pending = <<>> /\ reachable = {} /\ targets = <<>>
    /\ definitions = <<>> /\ compiler = "idle" /\ taken = 0
    /\ validators = <<>> /\ verdict = NotValidated

\* compile_strict_schema for the next root.
CompileStrictSchema(components, next) ==
    /\ compiling' = next
    /\ pending' = <<Roots[next].root>> /\ reachable' = {}
    /\ targets' = Roots[next].strict
    /\ definitions' = <<>> /\ taken' = 0
    /\ compiler' = "closing"
    /\ document' = components
    /\ UNCHANGED verdict

\* parse_components of a document that has some.
FromOpenApi(components) ==
    /\ compiler = "idle"
    /\ CompileStrictSchema(components, 1)
    /\ UNCHANGED validators

\* parse_components of a document that cannot be read, or has no schemas.
ParseFails ==
    /\ compiler = "idle"
    /\ compiler' = "failed"
    /\ UNCHANGED <<document, compiling, pending, reachable, targets, definitions, validators, verdict,
                   taken>>

\* Faulty variant: a name the document does not have is passed by.
TakeKnownName ==
    LET name == Last(pending)
        rest == Front(pending)
    IN  /\ compiler = "closing" /\ pending # <<>>
        /\ taken' = taken + 1
        /\ IF name \in reachable \/ name \notin DOMAIN document
           THEN pending' = rest /\ UNCHANGED reachable
           ELSE /\ reachable' = reachable \cup {name}
                /\ pending' = rest \o DirectRefs(document[name])
        /\ UNCHANGED <<document, compiling, targets, definitions, compiler, validators, verdict>>

\* One round of transitive_closure.
TakeName ==
    LET name == Last(pending)
        rest == Front(pending)
    IN  /\ compiler = "closing" /\ pending # <<>>
        /\ taken' = taken + 1
        /\ IF name \in reachable
           THEN pending' = rest /\ UNCHANGED <<reachable, compiler>>
           ELSE IF name \notin DOMAIN document
           THEN compiler' = "failed" /\ UNCHANGED <<pending, reachable>>
           ELSE /\ reachable' = reachable \cup {name}
                /\ pending' = rest \o DirectRefs(document[name])
                /\ UNCHANGED compiler
        /\ UNCHANGED <<document, compiling, targets, definitions, validators, verdict>>

\* What was reached is rewritten.
Define ==
    /\ compiler = "closing" /\ pending = <<>>
    /\ definitions' = [name \in reachable |-> TransformObject(document[name])]
    /\ compiler' = "strict"
    /\ UNCHANGED <<document, compiling, pending, reachable, targets, validators, verdict, taken>>

\* pointer_mut: a property of a component that may be null is not where the pointer
\* says.
PointsAtObject(pointer) ==
    /\ pointer.component \in DOMAIN definitions
    /\ pointer.property = "" \/ ( /\ ~definitions[pointer.component].or_null
                                  /\ pointer.property \in definitions[pointer.component].inner)

\* unevaluatedProperties at the next pointer.
MakeStrict ==
    LET pointer == Head(targets)
    IN  /\ compiler = "strict" /\ targets # <<>>
        /\ IF PointsAtObject(pointer)
           THEN /\ definitions' = [definitions EXCEPT ![pointer.component].strict = @ \cup {pointer.property}]
                /\ targets' = Tail(targets)
                /\ UNCHANGED compiler
           ELSE compiler' = "failed" /\ UNCHANGED <<definitions, targets>>
        /\ UNCHANGED <<document, compiling, pending, reachable, validators, verdict, taken>>

\* validator_for refuses the schema, and the root fails; why is up to the crate.
ValidatorFails ==
    /\ compiler = "strict" /\ targets = <<>>
    /\ compiler' = "rejected"
    /\ UNCHANGED <<document, compiling, pending, reachable, targets, definitions, validators, verdict,
                   taken>>

\* validator_for takes the schema; from_components goes on with the next validator.
NextRoot ==
    /\ compiler = "strict" /\ targets = <<>>
    /\ validators' = Append(validators, definitions)
    /\ IF compiling < Len(Roots)
       THEN CompileStrictSchema(document, compiling + 1)
       ELSE /\ compiler' = "built"
            /\ UNCHANGED <<document, compiling, pending, reachable, targets, definitions, verdict, taken>>

\* The places at which a value may have a property that the document does not know.
Places ==
    UNION {ToSet(Roots[i].strict) \cup {[component |-> Roots[i].root, property |-> ""]} : i \in DOMAIN Roots}

\* schema_violations, as far as unevaluatedProperties goes.
SchemaViolations(schema, unknown) ==
    {place \in unknown : /\ place.component \in DOMAIN schema
                         /\ place.property \in schema[place.component].strict}

\* The validate functions, one for each root.
Validate(kind, unknown) ==
    /\ compiler = "built"
    /\ verdict' = [kind |-> kind, unknown |-> unknown,
                   violations |-> SchemaViolations(validators[kind], unknown)]
    /\ UNCHANGED <<document, compiling, pending, reachable, targets, definitions, compiler, validators,
                   taken>>

StrictSchemaNext ==
    \/ \E components \in Documents : FromOpenApi(components)
    \/ ParseFails
    \/ TakeName
    \/ Define
    \/ MakeStrict
    \/ ValidatorFails
    \/ NextRoot
    \/ \E kind \in DOMAIN Roots, unknown \in SUBSET Places : Validate(kind, unknown)
-----------------------------------------------------------------------------
\* The reference: a set of names that holds the root and what its members refer to.
ClosedUnderRefs(names) ==
    /\ Root.root \in names
    /\ \A name \in names \cap DOMAIN document : document[name].refs \subseteq names

AllNames ==
    {Root.root} \cup DOMAIN document \cup UNION {document[name].refs : name \in DOMAIN document}

Reached(name) == \A names \in SUBSET AllNames : ClosedUnderRefs(names) => name \in names

EdgesOf(names) == {edge \in names \X AllNames : edge[2] \in document[edge[1]].refs}

\* Before its schema is handed over, a root fails only if it reaches a name the document
\* does not have, or a pointer is no object.
FailureHasCause ==
    \/ \E name \in AllNames \ DOMAIN document : Reached(name)
    \/ \E pointer \in ToSet(Root.strict) :
          \/ ~Reached(pointer.component)
          \/ /\ pointer.property # ""
             /\ document[pointer.component].nullable
                  \/ pointer.property \notin document[pointer.component].inner

\* A schema defines the components its root reaches and no other, so no reference in
\* it dangles, and each requires what it did, once; a name is taken from the worklist
\* once for each reference at most, however the components refer to each other; a value
\* that is validated may have unknown properties everywhere but where the validator of
\* its kind says; and a root that fails has a cause, or was compiled to the end and its
\* whole schema rejected by validator_for (transitive_closure, unique_strings,
\* strict_chat_completion_schema, compile_strict_schema).
SchemaIsClosed ==
    compiling > 0 =>
        /\ taken <= 1 + Cardinality(EdgesOf(DOMAIN document))
        /\ compiler \in {"strict", "built", "rejected"} =>
              /\ ClosedUnderRefs(DOMAIN definitions)
              /\ \A name \in AllNames : name \in DOMAIN definitions <=> Reached(name)
              /\ \A name \in DOMAIN definitions :
                    /\ IsInjective(definitions[name].required)
                    /\ ToSet(definitions[name].required) = ToSet(document[name].required)
        /\ verdict.violations = {place \in verdict.unknown : Contains(Roots[verdict.kind].strict, place)}
        /\ compiler = "failed" => FailureHasCause
=============================================================================
