--------------------------- MODULE MCReferenceDepth ---------------------------
(* ReferenceDepth.tla over every small document of two families.           *)
EXTENDS ReferenceDepth

MCIds == 1 .. 3

Elem(parent, id, refs) == [parent |-> parent, id |-> id, refs |-> refs]

SeqsUpTo(S, n) == UNION {[1 .. m -> S] : m \in 0 .. n}

\* Three identified elements side by side with up to two references each, to
\* each other or to an id that does not exist: every graph over three ids.
Dangling == 4
FlatDocuments ==
  {<<Elem(0, NoId, <<>>)>> \o [k \in 1 .. 3 |-> Elem(1, k, refs[k])] :
     refs \in [1 .. 3 -> SeqsUpTo(MCIds \cup {Dangling}, 2)]}

\* Three elements below the root, nested in any way, with ids that may be
\* missing or repeated and at most one reference each.
NestedDocuments ==
  {<<Elem(0, NoId, <<>>)>> \o [k \in 1 .. 3 |-> Elem(parents[k], ids[k], refs[k])] :
     parents \in {p \in [1 .. 3 -> 1 .. 3] : \A k \in 1 .. 3 : p[k] <= k},
     ids \in [1 .. 3 -> {NoId, 1, 2}],
     refs \in [1 .. 3 -> SeqsUpTo({1, 2}, 1)]}

SmallDocuments == FlatDocuments \cup NestedDocuments
AllIds == MCIds \cup {Dangling}
=============================================================================
