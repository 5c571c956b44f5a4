------------------------------- MODULE Rankings -------------------------------
(* Lists as queries make them: ordered, cut, and without repetitions.        *)
EXTENDS Naturals, Sequences, FiniteSets, SequencesExt

\* ORDER BY: a set in the order of a strict total order on it.
Ordered(S, before(_, _)) ==
  LET place == [x \in S |-> 1 + Cardinality({y \in S : before(y, x)})]
  IN  [n \in 1..Cardinality(S) |-> CHOOSE x \in S : place[x] = n]

\* LIMIT: the first n entries.
AtMost(n, s) == SubSeq(s, 1, IF n < Len(s) THEN n ELSE Len(s))

\* WHERE on a list: the entries that are in T.
Among(s, T) ==
  LET upTo[n \in 0..Len(s)] ==
        IF n = 0 THEN <<>>
        ELSE IF s[n] \in T THEN Append(upTo[n - 1], s[n]) ELSE upTo[n - 1]
  IN  upTo[Len(s)]

\* op of every entry, as a tuple: TLC would evaluate a function again and again.
Each(op(_), s) == SubSeq([n \in DOMAIN s |-> op(s[n])], 1, Len(s))

\* The lists that op makes of the entries, one after the other.
EachIn(op(_), s) == FlattenSeq(Each(op, s))

\* The entries at some of the places.
EntriesAt(s, places) == Each(LAMBDA n : s[n], Ordered(places, LAMBDA i, j : i < j))

\* Every entry where it occurs first.
Distinct(s) ==
  LET upTo[n \in 0..Len(s)] ==
        IF n = 0 THEN <<>>
        ELSE IF s[n] \in Range(upTo[n - 1]) THEN upTo[n - 1]
        ELSE Append(upTo[n - 1], s[n])
  IN  upTo[Len(s)]
=============================================================================
