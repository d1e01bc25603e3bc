---------------------------- MODULE MCQueryCache ----------------------------
(* Queries over two tables; q1 to q3 have three different keys. *)
EXTENDS QueryCache, TLC

CONSTANTS r1, r2, u1

Q(t, a, b, trashed) == [table |-> t, where |-> "w", args |-> <<a, b>>, trashed |-> trashed]

q1 == Q("users", <<1>>, <<2>>, FALSE)
q2 == Q("users", <<1>>, <<3>>, FALSE)
q3 == Q("posts", <<1>>, <<2>>, FALSE)

DistinctKeys == {q1, q2, q3}

\* Arguments (1, 23) and (12, 3) of the same text.
RunTogether == {Q("users", <<1>>, <<2, 3>>, FALSE), Q("users", <<1, 2>>, <<3>>, FALSE)}

Perms == Permutations(Readers)
=============================================================================
