----------------------------- MODULE MCQueryLoader -----------------------------
EXTENDS QueryLoader, TLC

(* A value of one term and one of two terms, alone and in expressions.     *)
MCTerms == [a |-> <<"a">>, b |-> <<"b1", "b2">>, field |-> <<"field">>] @@ "" :> <<"none">>
MCAnalyzer == {<<"text", "title">>, <<>>}
MCNumeric == {"7", "8", "9", "Europe"}
MCJoinName == {"within", "contains", "sequence_imm"}
Bare(op, value, args) ==
    [op |-> op, value |-> value, type |-> "", tilde |-> FALSE, quoted |-> FALSE, var |-> "",
     weight |-> FALSE, range |-> 0, args |-> args]
Field(v, tilde, quoted, var, weight) ==
    [Bare("field", v, <<>>) EXCEPT !.tilde = tilde, !.quoted = quoted, !.var = var,
                                       !.weight = weight]
Typed(v, type) == [Bare("field", v, <<>>) EXCEPT !.type = type]
Joined(op, args, range, var) ==
    [Bare(op, "", args) EXCEPT !.range = range, !.var = var]
Fields == {Field("a", FALSE, FALSE, "", FALSE), Field("b", FALSE, TRUE, "X", FALSE),
           Field("a", TRUE, FALSE, "X", FALSE)}
OddFields == {Field("a", FALSE, FALSE, "X", FALSE), Field("a", FALSE, FALSE, "Europe", FALSE),
              Field("b", FALSE, FALSE, "", TRUE)}
(* With a type: of a value or alone, known, or not known before.           *)
TypedFields == {Typed("a", "title"), Typed("a", "new"), Typed("", "title"), Typed("", "new")}
Simple == {Joined("within", <<f>>, 2, "Y") : f \in Fields}
          \cup {Joined("within", <<f, g>>, r, "") : f \in Fields, g \in Fields, r \in {0, 2}}
Nested == {Joined("contains", <<s, f>>, 0, "") : s \in Simple, f \in Fields}
          \cup {Joined("contains", <<f, s>>, 0, "Y") : s \in Simple, f \in Fields}
Limit(values) == Bare("restriction", "field", values)
Number(v) == Token("number", v)
Limits == {Limit(<<Number("7")>>), Limit(<<Number("8"), Number("9")>>),
           Limit(<<Token("string", "Europe")>>), Limit(<<Number("8"), Token("name", "Asia")>>)}
(* Some field of the query is selected.                                    *)
Chosen(e) ==
    CASE e.op = "field" -> ~e.tilde
      [] e.op = "restriction" -> FALSE
      [] OTHER -> \E i \in DOMAIN e.args : LET a == e.args[i] IN
             IF a.op = "field" THEN ~a.tilde ELSE \E j \in DOMAIN a.args : ~a.args[j].tilde
MCQuery ==
    {q \in {<<e>> : e \in Fields \cup OddFields \cup TypedFields \cup Simple \cup Nested}
           \cup {<<Joined("unknown", <<f>>, 0, "")>> : f \in Fields}
           \cup (Fields \cup Simple) \X (Fields \cup OddFields)
           \cup {Typed("a", "new")} \X TypedFields
           \cup {<<l, Field("a", FALSE, FALSE, "", FALSE), m>> : l \in Limits, m \in Limits} :
        \E i \in DOMAIN q : Chosen(q[i])}

(* Restrictions around a term of the default type.                         *)
MCRestricted == {<<l, Field("a", FALSE, FALSE, "", FALSE), m>> : l \in Limits, m \in Limits}
=============================================================================
