---------------------------- MODULE MCKeyMapGen ----------------------------
(* A small corpus for KeyMapGen: four files in two chunks, two threads.    *)
EXTENDS KeyMapGen
CONSTANTS f1, f2, f3, f4
MCPath == <<f1, f2, f3, f4>>
MCTerms == f1 :> <<1, 1>> @@ f2 :> <<2, 3>> @@ f3 :> <<2, 1>> @@ f4 :> <<2>>
=============================================================================
