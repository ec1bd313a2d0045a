----------------------------- MODULE MCUtilities -----------------------------
(* Every program with each of its options, each contradiction and each two *)
(* of the options that its stages relate to each other; those with a       *)
(* component in detail with a few options; every number of arguments at or *)
(* next to a limit of the program.  The calls of strusInspect are those of *)
(* MCInspect, the queries of strusAnalyzeQuery those of MCQueryLoader.     *)
EXTENDS Utilities, MCInspect, MCQueryLoader, FiniteSetsExt, TLC

MCProgram == DOMAIN Scripts
StagesOf(p) == {Scripts[p][i] : i \in DOMAIN Scripts[p]}
OptionsOf(p) == UNION {s.need \cup s.bar : s \in StagesOf(p)}
RelatedOf(p) ==
    UNION {s.need \cup s.bar : s \in {r \in StagesOf(p) :
                                       r.bar # {} \/ Cardinality(r.need) > 1}}
LimitsOf(p) ==
    LET checks == {s \in StagesOf(p) : s.do = "arguments"}
    IN  UNION {{s.low - 1, s.low, s.high, s.high + 1} : s \in checks} \cap 0 .. 5
MCCommandLine == [p \in MCProgram |->
    [given : IF p \in Detailed
             THEN kSubset(1, OptionsOf(p) \cap {"help", "program"})
                  \cup {{}} \cup Contradictions[p]
             ELSE {{}} \cup kSubset(1, OptionsOf(p)) \cup kSubset(2, RelatedOf(p))
                  \cup Contradictions[p],
     nargs : LimitsOf(p)]]

(* Two files, the second with two documents.                               *)
CONSTANTS f1, f2
MCFile == <<f1, f2>>
MCDocuments == f1 :> << << <<1, 2>>, <<>>, <<1>> >> >>
            @@ f2 :> << << <<1>> >>, << >> >>
Matched(threads, fetch, multiple, shared) ==
    [threads |-> threads, fetch |-> fetch, multiple |-> multiple, shared |-> shared,
     always |-> TRUE, tokens |-> FALSE, markup |-> FALSE, frail |-> FALSE,
     found |-> {<<f1, 1>>, <<f2, 2>>}]
MCMatching == {
    Matched({1, 2}, 1, TRUE, FALSE),
    [Matched({1, 2}, 1, FALSE, TRUE) EXCEPT !.always = FALSE],
    [Matched({}, 1, FALSE, TRUE) EXCEPT !.tokens = TRUE, !.frail = TRUE],
    [Matched({}, 3, TRUE, TRUE) EXCEPT !.always = FALSE, !.tokens = TRUE],
    [Matched({1}, 1, TRUE, FALSE) EXCEPT !.always = FALSE, !.tokens = TRUE, !.markup = TRUE]}
=============================================================================
