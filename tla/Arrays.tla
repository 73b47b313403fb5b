-------------------------------- MODULE Arrays --------------------------------
(***************************************************************************)
(* The methods of Array.prototype the code uses.  filter and sort are       *)
(* SelectSeq and SortSeq of the standard modules, stated without recursion, *)
(* by the place each element takes in the result.  reduce, findIndex and    *)
(* findLastIndex are FoldLeft, SelectInSeq and SelectLastInSeq of           *)
(* SequencesExt, whose other operators every instance of a module would     *)
(* carry into every obligation of its proofs.                               *)
(***************************************************************************)
EXTENDS Integers, Sequences, FiniteSets, FiniteSetsExt, Folds, Functions

\* The indices in the order in which upTo[i] grows, upTo[i] being the set of
\* the indices that come no later than i: the k-th has k of them.
Arranged(upTo) ==
    [k \in 1 .. Cardinality(DOMAIN upTo) |->
        CHOOSE i \in DOMAIN upTo : Cardinality(upTo[i]) = k]

Along(s, places) == [k \in DOMAIN places |-> s[places[k]]]

\* The elements at the given indices, in the order they have.
Picked(s, indices) ==
    Along(s, Arranged([i \in indices |-> {j \in indices : j <= i}]))

Where(s, Test(_)) == Picked(s, {i \in DOMAIN s : Test(s[i])})

\* The sort is stable: equal elements keep their order.
SortedBy(s, Before(_, _)) ==
    Along(s, Arranged([i \in DOMAIN s |->
                {j \in DOMAIN s : \/ Before(s[j], s[i])
                                  \/ ~Before(s[i], s[j]) /\ j <= i}]))

Reduce(op(_, _), base, s) ==
    MapThenFoldSet(LAMBDA x, acc : op(acc, x), base, LAMBDA i : s[i],
                   LAMBDA S : Max(S), DOMAIN s)

\* The least and the greatest index whose element passes, 0 if none does.
FindIndex(s, Test(_)) ==
    LET found == {i \in 1 .. Len(s) : Test(s[i])}
    IN  IF found # {} THEN Min(found) ELSE 0

FindLastIndex(s, Test(_)) ==
    LET found == {i \in 1 .. Len(s) : Test(s[i])}
    IN  IF found # {} THEN Max(found) ELSE 0
===============================================================================
