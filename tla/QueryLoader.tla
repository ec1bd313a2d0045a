----------------------------- MODULE QueryLoader -----------------------------
(***************************************************************************)
(* A query of strusAnalyzeQuery: its text is parsed by loadQuery           *)
(* (src/src/program/programLoader.cpp), translated to postfix              *)
(* instructions (termExpression.cpp, metadataExpression.cpp), and these    *)
(* are run on the stack machine Query                                      *)
(* (src/src/strusAnalyzeQuery/strusAnalyzeQuery.cpp), which prints what it *)
(* has built.                                                              *)
(*                                                                         *)
(* The text is a sequence of tokens [kind, value].  The query analyzer     *)
(* makes of a field the terms Terms[value], whatever its type, and hands   *)
(* back terms and groups as instructions in the order in which they were   *)
(* put in, or it reports an error.                                         *)
(***************************************************************************)
EXTENDS Integers, Sequences, FiniteSets, SequencesExt

CONSTANTS
    Analyzer,  \* the types of field an analyzer may define, in their order
    Terms,     \* what the analyzer makes of the value of a field
    Numeric,   \* the values of restrictions it makes a number of
    JoinName,  \* the operators the query processor knows
    Query      \* the queries to look at

(* The expressions in the queries, to the depth to which they are nested.  *)
WithArguments(exprs) ==
    exprs \cup UNION {Range(e.args) : e \in {x \in exprs : x.op # "restriction"}}
Expression == WithArguments(WithArguments(UNION {Range(q) : q \in Query}))

ASSUME LoaderAssumption ==
    /\ Analyzer \subseteq Seq(STRING \ {""})
    /\ \A v \in DOMAIN Terms : Terms[v] \in Seq(STRING) /\ Terms[v] # <<>>
    /\ WithArguments(Expression) = Expression

-----------------------------------------------------------------------------
(* The queries as they are written: sequences of fields, of expressions    *)
(* over these, both with or without a variable and a weight, and of        *)
(* restrictions of a metadata field to some values.                        *)

Token(kind, value) == [kind |-> kind, value |-> value]
Sign(kind) == Token(kind, kind)
Commas(parts) ==
    FoldRight(LAMBDA p, rest : p \o IF rest = <<>> THEN rest ELSE <<Sign(",")>> \o rest,
              parts, <<>>)

Text[e \in Expression] ==
    (IF e.op = "restriction"
     THEN <<Token("name", e.value), Sign("compare")>>
          \o Commas([i \in DOMAIN e.args |-> <<e.args[i]>>])
     ELSE IF e.op = "field"
     THEN (IF e.tilde THEN <<Sign("~")>> ELSE <<>>)
          \o (IF e.value = "" THEN <<>>
              ELSE <<Token(IF e.quoted THEN "string" ELSE "name", e.value)>>)
          \o (IF e.type = "" THEN <<>> ELSE <<Sign(":"), Token("name", e.type)>>)
     ELSE <<Token("name", e.op), Sign("(")>>
          \o Commas([i \in DOMAIN e.args |-> Text[e.args[i]]])
          \o (IF e.range # 0 THEN <<Sign("|"), Token("number", e.range)>> ELSE <<>>)
          \o <<Sign(")")>>)
    \o (IF e.var # "" THEN <<Sign("="), Token("name", e.var)>> ELSE <<>>)
    \o (IF e.weight THEN <<Sign("*"), Token("number", 2)>> ELSE <<>>)

TextOf(q) == FlattenSeq([i \in DOMAIN q |-> Text[q[i]]])

-----------------------------------------------------------------------------

VARIABLES
    query,         \* the query, <<>> before one is analyzed
    cut,           \* how many of its last tokens are missing in the text
    text,          \* the tokens not yet read
    reading,       \* what the parser expects, or the phase after the parser
    fieldTypes,    \* QueryDescriptors: [default, known], the default "" if none
    frames,        \* the structure expressions being parsed, with their argc
    restrictions,  \* MetaDataExpression: [name, values] of each comparison
    weighting,     \* termExpression, as instructions
    selection,     \* selectedTermExpression, as instructions
    selected,      \* selectedTermExpression.nofExpressionsDefined()
    tree, stack, variables, features,  \* m_tree etc. of Query
    groups,        \* m_restrictions of Query
    verdictOfQuery \* "none" while at work, then "shown", "refused" or "failed"

parserVars == <<text, reading, fieldTypes, frames, restrictions, weighting, selection,
                selected>>
queryVars == <<tree, stack, variables, features, groups>>
loaderVars == <<query, cut, parserVars, queryVars, verdictOfQuery>>

LoaderInit ==
    /\ query = <<>> /\ cut = 0
    /\ text = <<>> /\ reading = "idle" /\ frames = <<>>
    /\ fieldTypes = [default |-> "", known |-> {}]
    /\ restrictions = <<>> /\ weighting = <<>> /\ selection = <<>> /\ selected = 0
    /\ tree = <<>> /\ stack = <<>> /\ variables = <<>> /\ features = <<>>
    /\ groups = <<>> /\ verdictOfQuery = "none"

BeginQuery(q) ==
    /\ reading = "idle"
    /\ query' = q /\ cut' \in 0 .. 2
    /\ cut' < Len(TextOf(q))
    /\ text' = SubSeq(TextOf(q), 1, Len(TextOf(q)) - cut')
    /\ reading' = "section"
    /\ \E types \in Analyzer : fieldTypes' =
           [default |-> IF types = <<>> THEN "" ELSE Head(types), known |-> Range(types)]
    /\ UNCHANGED <<frames, restrictions, weighting, selection, selected, queryVars,
                   verdictOfQuery>>

Reads(what) == reading = what /\ verdictOfQuery = "none"
Is(i, kind) == Len(text) >= i /\ text[i].kind = kind
Value(i) == text[i].value
From(i) == SubSeq(text, i, Len(text))
Comparison(i) == Is(i, "=") \/ Is(i, "compare")
MetaDataValue == Is(1, "name") \/ Is(1, "number") \/ Is(1, "string")

(* Every error ends in loadQuery or main with a message and no output.     *)
EndWith(verdict) ==
    /\ verdictOfQuery' = verdict
    /\ UNCHANGED <<parserVars, queryVars>>
RefuseQuery == EndWith("refused")

Term(v) == [code |-> "term", name |-> v, argc |-> 0, range |-> 0]
Operator(op, argc, range) == [code |-> "operator", name |-> op, argc |-> argc, range |-> range]
Variable(v) == [code |-> "variable", name |-> v, argc |-> 1, range |-> 0]
Feature(set) == [code |-> "feature", name |-> set, argc |-> 1, range |-> 0]

(* parseVariableRef: whatever follows the '=' is the name.                 *)
HasVariable(i) == Is(i, "=")
AfterVariable(i) == From(IF HasVariable(i) THEN i + 2 ELSE i)
Attached(i) ==
    IF HasVariable(i) /\ Len(text) > i THEN <<Variable(Value(i + 1))>> ELSE <<>>

(* An argument counts for the structure expression around it.              *)
Counted == IF frames = <<>> THEN frames
           ELSE [frames EXCEPT ![Len(frames)].argc = @ + 1]
(* After a term or an expression: in an expression, or of the query.       *)
Beyond(outer) == IF outer = <<>> THEN "feature" ELSE "after"

-----------------------------------------------------------------------------
(* The parser.                                                             *)

(* A name and a comparison is a restriction, at the level of the query.    *)
AtRestriction == reading = "section" /\ Is(1, "name") /\ Comparison(2)
ParseRestriction ==
    /\ Reads("section") /\ AtRestriction
    /\ text' = From(3) /\ reading' = "value"
    /\ restrictions' = Append(restrictions, [name |-> Value(1), values |-> <<>>])
    /\ UNCHANGED <<fieldTypes, frames, weighting, selection, selected, queryVars, verdictOfQuery>>

RestrictionValue ==
    /\ Reads("value")
    /\ \/ ~MetaDataValue /\ RefuseQuery
       \/ /\ MetaDataValue
          /\ restrictions' =
                 [restrictions EXCEPT ![Len(restrictions)].values = Append(@, Value(1))]
          /\ IF Is(2, ",") THEN text' = From(3) /\ UNCHANGED reading
                           ELSE text' = From(2) /\ reading' = "section"
          /\ UNCHANGED <<fieldTypes, frames, weighting, selection, selected, queryVars,
                         verdictOfQuery>>

Element == (Reads("section") /\ text # <<>>) \/ Reads("argument")
IsStructure == Is(1, "name") /\ Is(2, "(")

(* parseQueryStructureExpression, up to its arguments.                     *)
OpenExpression ==
    /\ Element /\ IsStructure
    /\ frames' = Append(Counted, [op |-> Value(1), argc |-> 0, range |-> 0, card |-> 0])
    /\ text' = From(3)
    /\ reading' = IF Len(text) = 2 \/ Is(3, ")") \/ Is(3, "|") \/ Is(3, "^")
                  THEN "close" ELSE "argument"
    /\ UNCHANGED <<fieldTypes, restrictions, weighting, selection, selected, queryVars,
                   verdictOfQuery>>

(* parseQueryTermExpression and pushField: a value, a colon and a type, or *)
(* both.  Without a type the default is taken; a type named behind a value *)
(* is known from then on.  The terms of one field are a sequence.  A field *)
(* with a tilde is not for the selection.                                  *)
ParseTerm ==
    /\ Element /\ ~IsStructure /\ ~AtRestriction
    /\ LET v == IF Is(1, "~") THEN 2 ELSE 1
           named == Is(v, "name") \/ Is(v, "string")
           colon == IF named THEN v + 1 ELSE v
           typed == Is(colon, ":") /\ Is(colon + 1, "name")
           type == IF typed THEN Value(colon + 1)
                   ELSE IF Is(colon, ":") THEN "" ELSE fieldTypes.default
           known == fieldTypes.known \cup (IF named /\ typed THEN {type} ELSE {})
           terms == Terms[IF named THEN Value(v) ELSE ""]
           field == [i \in DOMAIN terms |-> Term(terms[i])]
                    \o IF Len(terms) > 1 THEN <<Operator("sequence_imm", Len(terms), 0)>>
                       ELSE <<>>
           next == IF typed THEN colon + 2 ELSE colon
           legal == (named \/ Is(colon, ":")) /\ type \in known
       IN
       \/ ~legal /\ RefuseQuery
       \/ /\ legal
          /\ fieldTypes' = [fieldTypes EXCEPT !.known = known]
          /\ weighting' = weighting \o field \o Attached(next)
          /\ selection' = IF v = 1 THEN selection \o field ELSE selection
          /\ selected' = IF v = 1 THEN selected + 1 ELSE selected
          /\ text' = AfterVariable(next)
          /\ frames' = Counted
          /\ reading' = Beyond(frames)
          /\ UNCHANGED <<restrictions, queryVars, verdictOfQuery>>

AfterArgument ==
    /\ Reads("after")
    /\ IF Is(1, ",") THEN text' = Tail(text) /\ reading' = "argument"
                     ELSE reading' = "close" /\ UNCHANGED text
    /\ UNCHANGED <<fieldTypes, frames, restrictions, weighting, selection, selected,
                   queryVars, verdictOfQuery>>

(* '|' range and '^' cardinality, each at most once and not 0.             *)
Modifier ==
    /\ Reads("close") /\ (Is(1, "|") \/ Is(1, "^"))
    /\ LET part == IF Is(1, "|") THEN "range" ELSE "card"
           legal == Is(2, "number") /\ Last(frames)[part] = 0
                    /\ (part = "range" => Value(2) # 0)
       IN
       \/ ~legal /\ RefuseQuery
       \/ /\ legal
          /\ frames' = [frames EXCEPT ![Len(frames)][part] = Value(2)]
          /\ text' = From(3)
          /\ UNCHANGED <<reading, fieldTypes, restrictions, weighting, selection,
                         selected, queryVars, verdictOfQuery>>

CloseExpression ==
    /\ Reads("close") /\ ~Is(1, "|") /\ ~Is(1, "^")
    /\ \/ ~Is(1, ")") /\ RefuseQuery
       \/ /\ Is(1, ")")
          /\ weighting' = Append(weighting, Operator(Last(frames).op, Last(frames).argc,
                                                     Last(frames).range)) \o Attached(2)
          /\ text' = AfterVariable(2)
          /\ frames' = Front(frames)
          /\ reading' = Beyond(Front(frames))
          /\ UNCHANGED <<fieldTypes, restrictions, selection, selected, queryVars,
                         verdictOfQuery>>

(* The asterisk of a weight is never seen: the two strings for '*' and     *)
(* '<-' in g_tokens are one, so the token is none the lexer knows.         *)
AssignFeature ==
    /\ Reads("feature")
    /\ weighting' = Append(weighting, Feature("weight")) /\ reading' = "section"
    /\ UNCHANGED <<text, fieldTypes, frames, restrictions, selection, selected, queryVars,
                   verdictOfQuery>>

(* The end of the text: all selected fields are joined.                    *)
Select ==
    /\ Reads("section") /\ text = <<>>
    /\ selection' = selection \o <<Operator("contains", selected, 0), Feature("select")>>
    /\ reading' = "restrict"
    /\ UNCHANGED <<text, fieldTypes, frames, restrictions, weighting, selected, queryVars,
                   verdictOfQuery>>

-----------------------------------------------------------------------------
(* The translation.                                                        *)

(* analyze: the error of the analyzer ends each of the three translations  *)
(* before it starts.                                                       *)
AnalyzerFails ==
    /\ \/ Reads("restrict")
       \/ Reads("translate") /\ stack = <<>> /\ selection # <<>>
          /\ (tree = <<>> \/ weighting = <<>>)
    /\ EndWith("failed")

(* MetaDataExpression::translate: several values are alternatives.  termc  *)
(* counts the comparisons since the last alternative.  Each value, as it   *)
(* comes from the analyzer, has to be a number.                            *)
AddGroup(cnf, r, starts(_)) ==
    LET n == Len(r.values)
    IN  [termc |-> IF n = 1 THEN cnf.termc + 1 ELSE 0,
         legal |-> cnf.legal /\ (n > 1 => cnf.termc = 0) /\ Range(r.values) \subseteq Numeric,
         list |-> cnf.list \o [i \in 1 .. n |->
                      [name |-> r.name, value |-> r.values[i], newGroup |-> starts(i)]]]
(* faulty: the last of the alternatives starts a group, not the first.     *)
AddRestrictionLast(cnf, r) == AddGroup(cnf, r, LAMBDA i : i = Len(r.values))
AddRestriction(cnf, r) == AddGroup(cnf, r, LAMBDA i : i = 1)
TranslateRestrictions ==
    /\ Reads("restrict")
    /\ LET cnf == FoldLeft(AddRestriction, [termc |-> 0, legal |-> TRUE, list |-> <<>>],
                           restrictions)
       IN
       \/ ~cnf.legal /\ RefuseQuery
       \/ cnf.legal /\ groups' = cnf.list /\ reading' = "translate"
          /\ UNCHANGED <<text, fieldTypes, frames, restrictions, weighting, selection,
                         selected, tree, stack, variables, features, verdictOfQuery>>

(* The instructions of the weighting, then those of the selection.         *)
Instructions == weighting \o selection
Executes(code) == Reads("translate") /\ Instructions # <<>> /\ Head(Instructions).code = code
Step ==
    /\ IF weighting # <<>> THEN weighting' = Tail(weighting) /\ UNCHANGED selection
                           ELSE selection' = Tail(selection) /\ UNCHANGED weighting
    /\ UNCHANGED <<text, reading, fieldTypes, frames, restrictions, selected, groups,
                   verdictOfQuery>>
Node(name, range, child) == [name |-> name, range |-> range, child |-> child, left |-> 0]

PushTerm ==
    /\ Executes("term") /\ Step
    /\ tree' = Append(tree, Node(Head(Instructions).name, 0, 0))
    /\ stack' = Append(stack, Len(tree) + 1)
    /\ UNCHANGED <<variables, features>>

(* The query processor has to know the operator and the stack to hold its  *)
(* arguments.  These are copied behind the new node and linked, except     *)
(* that of a node with one argument, which stays where it is.  Then the    *)
(* stack is cut to size - stkidx, with stkidx being the size by then.      *)
Operands(argc) == SubSeq(stack, Len(stack) - argc + 1, Len(stack))
StackBelow(argc) == <<>>
PushExpression ==
    /\ Executes("operator")
    /\ LET i == Head(Instructions)
           n == i.argc
           at == Len(tree) + 1
           child == IF n = 0 THEN 0 ELSE IF n = 1 THEN Last(stack) ELSE at + 1
           copies == [k \in 1 .. n |->
               [tree[Operands(n)[k]] EXCEPT !.left = IF k < n THEN at + k + 1 ELSE 0]]
       IN
       \/ (i.name \notin JoinName \/ n > Len(stack)) /\ RefuseQuery
       \/ /\ i.name \in JoinName /\ n <= Len(stack) /\ Step
          /\ tree' = Append(tree, Node(i.name, i.range, child)) \o copies
          /\ stack' = Append(StackBelow(n), at)
          /\ UNCHANGED <<variables, features>>

AttachVariable ==
    /\ Executes("variable")
    /\ \/ stack = <<>> /\ RefuseQuery
       \/ /\ stack # <<>> /\ Step
          /\ variables' = (Last(stack) :> Head(Instructions).name) @@ variables
          /\ UNCHANGED <<tree, stack, features>>

DefineFeature ==
    /\ Executes("feature")
    /\ \/ stack = <<>> /\ RefuseQuery
       \/ /\ stack # <<>> /\ Step
          /\ features' = Append(features, [set |-> Head(Instructions).name, node |-> Last(stack)])
          /\ stack' = Front(stack)
          /\ UNCHANGED <<tree, variables>>

(* check and print.                                                        *)
Show ==
    /\ Reads("translate") /\ Instructions = <<>>
    /\ verdictOfQuery' = IF stack = <<>> THEN "shown" ELSE "refused"
    /\ UNCHANGED <<parserVars, queryVars>>

LoaderStep ==
    /\ \/ ParseRestriction \/ RestrictionValue \/ OpenExpression \/ ParseTerm
       \/ AfterArgument \/ Modifier \/ CloseExpression \/ AssignFeature \/ Select
       \/ AnalyzerFails \/ TranslateRestrictions \/ PushTerm \/ PushExpression \/ AttachVariable
       \/ DefineFeature \/ Show
    /\ UNCHANGED <<query, cut>>

LoaderSpec == LoaderInit /\ [][(\E q \in Query : BeginQuery(q)) \/ LoaderStep]_loaderVars

(* print_expression: a node, its arguments, then its siblings.             *)
Printed[i \in 0 .. Len(tree)] ==
    IF i = 0 THEN <<>>
    ELSE <<[name |-> tree[i].name, range |-> tree[i].range,
            var |-> IF i \in DOMAIN variables THEN variables[i] ELSE "",
            args |-> Printed[tree[i].child]]>> \o Printed[tree[i].left]

-----------------------------------------------------------------------------
(* What is to be shown of a query.  A variable of an argument is shown     *)
(* only if it is the only argument.                                        *)
Leaf(term) == [name |-> term, range |-> 0, var |-> "", args |-> <<>>]
Grouped(terms) == [i \in DOMAIN terms |-> Leaf(terms[i])]
Plain(v) ==
    IF Len(Terms[v]) = 1 THEN Leaf(Terms[v][1])
    ELSE [name |-> "sequence_imm", range |-> 0, var |-> "", args |-> Grouped(Terms[v])]
Written[e \in Expression, shows \in BOOLEAN] ==
    [IF e.op = "field" THEN Plain(e.value)
     ELSE [name |-> e.op, range |-> e.range, var |-> "",
           args |-> [i \in DOMAIN e.args |-> Written[e.args[i], Len(e.args) = 1]]]
     EXCEPT !.var = IF shows THEN e.var ELSE ""]

Selected[e \in Expression] ==
    IF e.op = "field" THEN (IF e.tilde THEN <<>> ELSE <<e.value>>)
    ELSE IF e.op = "restriction" THEN <<>>
    ELSE FlattenSeq([i \in DOMAIN e.args |-> Selected[e.args[i]]])

(* At the level of the query a name and '=' is a restriction.              *)
Meant(e) ==
    IF e.op = "field" /\ e.type = "" /\ e.var # "" /\ ~e.quoted /\ ~e.tilde
    THEN [e EXCEPT !.op = "restriction", !.args = <<Token("name", e.var)>>, !.var = ""]
    ELSE e
MeantQuery == [i \in DOMAIN query |-> Meant(query[i])]
Restrictions == SelectSeq(MeantQuery, LAMBDA e : e.op = "restriction")
Expressions == SelectSeq(MeantQuery, LAMBDA e : e.op # "restriction")
SelectedFields == FlattenSeq([i \in DOMAIN Expressions |-> Selected[Expressions[i]]])

(* A query that is shown is shown as it was written: its expressions in    *)
(* their order, all selected terms joined, and each restriction as one     *)
(* group of alternatives; with tokens missing at its end it is shown only  *)
(* if its brackets are closed.  Which queries are refused is not said:     *)
(* loadQuery, TermExpression, MetaDataExpression and the class Query.      *)
ShownAsWritten ==
    /\ verdictOfQuery = "shown" /\ cut = 0 =>
           /\ [i \in DOMAIN features |-> <<features[i].set, Printed[features[i].node]>>]
              = Append([i \in DOMAIN Expressions |->
                            <<"weight", <<Written[Expressions[i], TRUE]>> >>],
                       <<"select", <<[name |-> "contains", range |-> 0, var |-> "",
                            args |-> [i \in DOMAIN SelectedFields |->
                                          Plain(SelectedFields[i])]]>> >>)
           /\ groups = FlattenSeq([r \in DOMAIN Restrictions |->
                  [i \in DOMAIN Restrictions[r].args |->
                      [name |-> Restrictions[r].value,
                       value |-> Restrictions[r].args[i].value, newGroup |-> i = 1]]])
    /\ verdictOfQuery = "shown" =>
           LET read == SubSeq(TextOf(query), 1, Len(TextOf(query)) - cut)
           IN  Len(SelectSeq(read, LAMBDA t : t.kind = "("))
               = Len(SelectSeq(read, LAMBDA t : t.kind = ")"))

(* Nothing outside of the program speaks against an expression: operators  *)
(* and types are known and the values of a restriction are numbers.        *)
Proper[e \in Expression] ==
    CASE e.op = "restriction" -> \A i \in DOMAIN e.args : e.args[i].value \in Numeric
      [] e.op = "field" -> e.value = "" => e.type \in fieldTypes.known
      [] OTHER -> e.op \in JoinName /\ \A i \in DOMAIN e.args : Proper[e.args[i]]

(* No proper query is refused.  Restrictions are a conjunction of          *)
(* comparisons and of alternatives between values, so "all operands of an  *)
(* OR are atomic terms (CNF)" (metadataExpression.cpp:99) in each query,   *)
(* whatever stands before the alternatives; an operator takes expressions  *)
(* as arguments wherever parseQueryStructureExpression reads them; and an  *)
(* asterisk and a weight follow a term (programLoader.cpp:573).            *)
ProperIsShown ==
    verdictOfQuery = "refused" =>
        \/ cut > 0 \/ fieldTypes.default = ""
        \/ \E i \in DOMAIN query : ~Proper[query[i]] \/ Meant(query[i]) # query[i]
=============================================================================
