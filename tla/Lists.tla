------------------------------- MODULE Lists -------------------------------
(***************************************************************************)
(* The array methods the nodes are written with, by definitions that       *)
(* can be proved about: none of them takes a recursive operator.           *)
(***************************************************************************)
EXTENDS Integers, Sequences, SequencesExt

\* Array.prototype.filter
Only(s, Test(_)) == FlattenSeq([i \in DOMAIN s |-> IF Test(s[i]) THEN <<s[i]>> ELSE <<>>])

\* Array.prototype.find, which gives none when nothing passes
FirstOf(s, Test(_), none) ==
  LET at == {i \in DOMAIN s : Test(s[i])}
  IN IF at = {} THEN none ELSE s[CHOOSE i \in at : \A j \in at : i <= j]

\* Array.prototype.map
Each(s, F(_)) == [i \in DOMAIN s |-> F(s[i])]

\* The sum that Array.prototype.reduce makes
SumOf(numbers) ==
  LET sum[n \in 0..Len(numbers)] == IF n = 0 THEN 0 ELSE sum[n - 1] + numbers[n] IN sum[Len(numbers)]
Total(s, Of(_)) == SumOf(Each(s, Of))

\* Array.prototype.sort: entries that neither goes Before the other keep their order.
\* Placed puts each entry behind as many as upTo counts, itself included.
Placed(s, upTo) == [r \in DOMAIN s |-> s[CHOOSE i \in DOMAIN s : Cardinality(upTo[i]) = r]]
StableSort(s, Before(_, _)) ==
  LET upTo(i) == {j \in DOMAIN s : Before(s[j], s[i]) \/ (~Before(s[i], s[j]) /\ j <= i)}
  IN Placed(s, [i \in DOMAIN s |-> upTo(i)])
=============================================================================
