---------------------------- MODULE MCMergeMarkup ----------------------------
(* A directory of three files, the first two with a common error file.     *)
(* The last one has every input of two leaves at most and every markup of  *)
(* three leaves at most of those below; the others hold one document each. *)
EXTENDS MergeMarkup, TLC
CONSTANTS f1, f2, f3, d1, e1, e2, a, b, p, v, w1
MCPath == <<d1>>
MCFilesIn == d1 :> <<f1, f2, f3>>
MCSubDirs == d1 :> <<>>
MCErrorFile == f1 :> e1 @@ f2 :> e1 @@ f3 :> e2

Leaf(above, name, key) == [above |-> above, name |-> name, key |-> key]

(* A paragraph, text outside of it and an element without a text.          *)
InputLeaf == { Leaf(<<>>, p, <<a, b>>), Leaf(<<>>, NoName, <<a, b>>),
               Leaf(<<>>, v, <<>>) }
(* The same text with the tags w1 and v, inside and outside of a paragraph.*)
MarkupLeaf == { Leaf(<<p>>, w1, <<a>>), Leaf(<<p>>, NoName, <<b>>),
                Leaf(<<p>>, v, <<b>>), Leaf(<<p>>, w1, <<>>),
                Leaf(<<>>, v, <<>>), Leaf(<<>>, p, <<a, b>>) }
UpTo(n, leaves) == UNION {[1 .. k -> leaves] : k \in 0 .. n}
One == {<<Leaf(<<>>, p, <<a, b>>)>>}
MCInputs == f1 :> One @@ f2 :> One @@ f3 :> UpTo(2, InputLeaf)
MCMarkups == f1 :> {<<Leaf(<<p>>, w1, <<a, b>>)>>} @@ f2 :> {<<>>}
               @@ f3 :> UpTo(3, MarkupLeaf)
MCOptions == {{}, {w1}}
=============================================================================
