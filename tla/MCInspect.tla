----------------------------- MODULE MCInspect -----------------------------
(* Every listing of a small index, and forward indexes of four positions.  *)
EXTENDS Inspect, TLC

(* An index of three documents, each set of them with the item, each item. *)
MCMaxDocno == 3
Call(item, having, empty, handle, document, fields) ==
    [item |-> item, having |-> having, empty |-> empty, handle |-> handle,
     document |-> document, fields |-> fields]
Listings == {"pos", "indexterms", "ff", "ttf", "indexstructs", "attribute",
             "metadata", "content", "fwmap"}
MCTask ==
    {Call(i, h, e, a, AllDocuments, <<>>) :
        i \in Listings, h \in SUBSET (1 .. MCMaxDocno), e \in BOOLEAN, a \in {-1, 1}}
    \cup {Call(i, h, FALSE, 0, d, <<>>) :
        i \in Listings \cup {"token"}, h \in {{}, {1}}, d \in {UnknownDocument, 1}}
    \cup {Call("fields", h, FALSE, -1, 1, <<f, g>>) :
        h \in SUBSET (1 .. 4), f \in {<<1, 3>>, <<2, 3>>}, g \in {<<3, 5>>, <<4, 4>>}}
    \cup {Call(i, {}, FALSE, -1, AllDocuments, <<>>) : i \in {"value", "unknown"}}
=============================================================================
