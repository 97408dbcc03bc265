--------------------------------- MODULE Sums ---------------------------------
(***************************************************************************)
(* Sums of sequences of numbers, as recursive functions.                   *)
(***************************************************************************)
EXTENDS Naturals, Sequences

\* The sum of a sequence of numbers.
Total(numbers) ==
  LET upTo[k \in 0 .. Len(numbers)] == IF k = 0 THEN 0 ELSE upTo[k - 1] + numbers[k]
  IN upTo[Len(numbers)]

\* The sum of what f is at the members of a sequence.
SumOf(f, names) == Total([i \in DOMAIN names |-> f[names[i]]])
=============================================================================
