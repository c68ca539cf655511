----------------------------- MODULE MCComposing -----------------------------
(* Instances of Composing.                                                 *)
EXTENDS Composing, TLC

CONSTANTS e1, e2, t1, t2, t3

\* In their first editions the packages share a file bin, and one has a file lib
\* where the other has a directory; in their second they get along.
FilesOf ==
  1 :> (e1 :> ("bin" :> t1 @@ "lib" :> t2) @@ e2 :> ("bin" :> t2)) @@
  2 :> (e1 :> ("bin" :> t2 @@ "lib/x" :> t3) @@ e2 :> ("lib/x" :> t3))

LibInside == {<<"lib/x", "lib">>}

Apart == [k \in Package |-> e2]

AtOdds == [k \in Package |-> e1]

Alone == 1 :> e1

LocksAll == {Apart, AtOdds, Alone}

IdsAll == {<<Apart, "symlink">>, <<Apart, "copy">>, <<AtOdds, "copy">>, <<Alone, "hardlink">>}

StocksAll == {[k \in Package |-> [ed |-> e, add |-> 0]] : e \in Edition}
=============================================================================
