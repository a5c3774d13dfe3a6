---------------------------- MODULE SchemaInclusion ----------------------------
(***************************************************************************)
(* SchemaCompatibility.Prover without composed schemas: the proof that     *)
(* every value of the old schema of an operation is a value of the new     *)
(* one, keyword by keyword.  The publication of a service is refused where *)
(* the proof fails, so a proof that succeeds wrongly breaks callers.  An   *)
(* absent keyword has the value the code falls back to; TRUE is Anything,  *)
(* FALSE is Never.  Numbers are halves of values, so that fractions exist. *)
(***************************************************************************)
EXTENDS Integers, FiniteSets

Infinite == 99  \* Double.POSITIVE_INFINITY, -Infinite the other
Absent == 0
AnyValue == {}  \* no enum or const
NumberType == {"integer", "fraction"}
Atom == NumberType \cup {"string", "array", "object"}
Key == {"a", "b"}

Leaf == [types |-> Atom, minimum |-> -Infinite, exclusiveMinimum |-> -Infinite,
         maximum |-> Infinite, exclusiveMaximum |-> Infinite, multipleOf |-> Absent,
         enum |-> AnyValue]
Anything ==
    [types |-> Atom, leaf |-> Leaf, minItems |-> 0, maxItems |-> Infinite,
     uniqueItems |-> FALSE, items |-> Leaf, minProperties |-> 0, maxProperties |-> Infinite,
     required |-> {}, properties |-> [k \in {} |-> Leaf], additional |-> Leaf]
Never == [Anything EXCEPT !.types = {}, !.leaf.types = {}]

\* The schemas compared: of numbers, arrays and objects.
NumberLeaf ==
    [types : {NumberType, {"integer"}}, minimum : {-Infinite, 2}, exclusiveMinimum : {-Infinite, 0, 2},
     maximum : {Infinite, 4}, exclusiveMaximum : {Infinite, 4}, multipleOf : {Absent, 1, 2},
     enum : {AnyValue}]
    \cup {[Leaf EXCEPT !.types = t, !.enum = e] :
              t \in {Atom, {"integer"}}, e \in {{2}, {4}, {2, 3}, {2, 4}}}
Part == {Leaf, [Leaf EXCEPT !.types = {"integer"}], [Leaf EXCEPT !.types = {}]}
NumberSchema == {[Anything EXCEPT !.types = l.types, !.leaf = l] : l \in NumberLeaf}
ArraySchema ==
    {[Anything EXCEPT !.types = {"array"}, !.minItems = lo, !.maxItems = hi,
                      !.uniqueItems = u, !.items = i] :
        lo \in 0..1, hi \in {0, 1, 2, Infinite}, u \in BOOLEAN, i \in Part}
ObjectSchema ==
    {[Anything EXCEPT !.types = {"object"}, !.minProperties = lo, !.maxProperties = hi,
                      !.required = r, !.properties = p, !.additional = add] :
        lo \in 0..1, hi \in {1, Infinite}, r \in SUBSET Key,
        p \in {[k \in {} |-> Leaf]} \cup [{"a"} -> Part], add \in Part}
Schema == {Anything, Never} \cup NumberSchema \cup ArraySchema \cup ObjectSchema

VARIABLES
    source, target,  \* the schema of the active version and of the candidate
    verdict

SchemaVars == <<source, target, verdict>>

SchemaInit ==
    /\ verdict = "open"
    /\ \E family \in {NumberSchema, ArraySchema, ObjectSchema} :
           /\ source \in {Anything, Never} \cup family
           /\ target \in {Anything, Never} \cup family

SchemaTypeOK ==
    /\ source \in Schema /\ target \in Schema
    /\ verdict \in {"open", "compatible", "incompatible"}

-----------------------------------------------------------------------------
\* The tighter of minimum and exclusiveMinimum, and whether it is exclusive.
Lower(s) ==
    IF s.exclusiveMinimum > -Infinite /\ s.exclusiveMinimum >= s.minimum
    THEN [value |-> s.exclusiveMinimum, exclusive |-> TRUE]
    ELSE [value |-> s.minimum, exclusive |-> FALSE]

Upper(s) ==
    IF s.exclusiveMaximum < Infinite /\ s.exclusiveMaximum <= s.maximum
    THEN [value |-> s.exclusiveMaximum, exclusive |-> TRUE]
    ELSE [value |-> s.maximum, exclusive |-> FALSE]

\* Faulty variant: equal bounds are taken for the same bound.
RangeIncludedLoosely(x, y) ==
    Lower(x).value >= Lower(y).value /\ Upper(x).value <= Upper(y).value

RangeIncluded(x, y) ==
    LET a == Lower(x) b == Lower(y) c == Upper(x) d == Upper(y)
    IN  /\ a.value > b.value \/ (a.value = b.value /\ (a.exclusive \/ ~b.exclusive))
        /\ c.value < d.value \/ (c.value = d.value /\ (c.exclusive \/ ~d.exclusive))

MultipleIncluded(x, y) ==
    \/ y.multipleOf \in {Absent, x.multipleOf}
    \/ x.multipleOf # Absent /\ x.multipleOf % y.multipleOf = 0

LeafIncluded(x, y) ==
    \/ x = y \/ x.types = {}
    \/ /\ x.types \subseteq y.types
       /\ y.enum # AnyValue => x.enum # AnyValue /\ x.enum \subseteq y.enum
       /\ x.types \cap NumberType # {} => RangeIncluded(x, y) /\ MultipleIncluded(x, y)

SizeIncluded(lo1, hi1, lo2, hi2) == lo1 >= lo2 /\ hi1 <= hi2

ArrayIncluded(x, y) ==
    /\ SizeIncluded(x.minItems, x.maxItems, y.minItems, y.maxItems)
    /\ y.uniqueItems /\ ~x.uniqueItems => x.maxItems <= 1
    /\ x.maxItems # 0 => LeafIncluded(x.items, y.items)

Property(s, k) == IF k \in DOMAIN s.properties THEN s.properties[k] ELSE s.additional

ObjectIncluded(x, y) ==
    /\ SizeIncluded(x.minProperties, x.maxProperties, y.minProperties, y.maxProperties)
    /\ y.required \subseteq x.required
    /\ \A k \in DOMAIN x.properties \cup DOMAIN y.properties :
           LeafIncluded(Property(x, k), Property(y, k))
    /\ LeafIncluded(x.additional, y.additional)

Included(x, y) ==
    \/ x = y \/ x.types = {} \/ y = Anything
    \/ /\ x.types \subseteq y.types
       /\ LeafIncluded(x.leaf, y.leaf)
       /\ "array" \in x.types => ArrayIncluded(x, y)
       /\ "object" \in x.types => ObjectIncluded(x, y)

Compare ==
    /\ verdict = "open"
    /\ verdict' = IF Included(source, target) THEN "compatible" ELSE "incompatible"
    /\ UNCHANGED <<source, target>>

SchemaNext == Compare
SchemaSpec == SchemaInit /\ [][SchemaNext]_SchemaVars

-----------------------------------------------------------------------------
(* The values of a schema, as JSON Schema defines them.                    *)

Scalar == 0..6  \* numbers 0, 1/2, 1 ... 3; of the other types one value stands for all
Text == -1

TypeOf(v) == IF v = Text THEN "string" ELSE IF v % 2 = 0 THEN "integer" ELSE "fraction"

LeafAccepts(s, v) ==
    /\ TypeOf(v) \in s.types
    /\ s.enum # AnyValue => v \in s.enum
    /\ v # Text =>
         /\ v >= s.minimum /\ v <= s.maximum
         /\ s.exclusiveMinimum > -Infinite => v > s.exclusiveMinimum
         /\ s.exclusiveMaximum < Infinite => v < s.exclusiveMaximum
         /\ s.multipleOf # Absent => v % (2 * s.multipleOf) = 0

Scalars == Scalar \cup {Text}
Arrays == UNION {[1..n -> {0, 1, Text}] : n \in 0..3}
Objects == UNION {[K -> {0, 1, Text}] : K \in SUBSET Key}

ArrayAccepts(s, v) ==
    LET n == Cardinality(DOMAIN v)
    IN  /\ "array" \in s.types
        /\ n >= s.minItems /\ n <= s.maxItems
        /\ s.uniqueItems => \A i, j \in DOMAIN v : v[i] = v[j] => i = j
        /\ \A i \in DOMAIN v : LeafAccepts(s.items, v[i])

ObjectAccepts(s, v) ==
    LET n == Cardinality(DOMAIN v)
    IN  /\ "object" \in s.types
        /\ n >= s.minProperties /\ n <= s.maxProperties
        /\ s.required \subseteq DOMAIN v
        /\ \A k \in DOMAIN v : LeafAccepts(Property(s, k), v[k])

\* A candidate found compatible accepts every value the active version accepted:
\* no caller whose requests were valid is refused after the publication.
ProofsAreSound ==
    verdict = "compatible" =>
        /\ \A v \in Scalars :
              LeafAccepts(source.leaf, v) => LeafAccepts(target.leaf, v)
        /\ \A v \in Arrays : ArrayAccepts(source, v) => ArrayAccepts(target, v)
        /\ \A v \in Objects : ObjectAccepts(source, v) => ObjectAccepts(target, v)
=============================================================================
