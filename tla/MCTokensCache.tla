--------------------------- MODULE MCTokensCache ---------------------------
(* Instances of TokensCache for TLC.                                       *)
EXTENDS TokensCache

CONSTANTS tag, subtag, A, U, v1, v2

MCKey == {tag, subtag}
MCRoot == [k \in MCKey |-> IF k = subtag THEN tag ELSE None]
MCData == [amount : 1..4, reissuable : BOOLEAN, royalty : {0}, units : 0..1]

flag(k, on) == [op |-> "flag", key |-> k, on |-> on]
issue(n, v) ==
    [op |-> "issue", name |-> n, ver |-> v,
     data |-> [amount |-> 1, reissuable |-> TRUE, royalty |-> 0, units |-> 0]]
reissue(id, n, units, v) ==
    [op |-> "reissue", id |-> id, name |-> n, amount |-> 1, reissuable |-> TRUE,
     royalty |-> 0, units |-> units, ver |-> v]

MCBlock ==
    { << flag(subtag, TRUE), flag(subtag, TRUE) >>, << flag(subtag, FALSE) >>,
      << issue(A, v1) >>, << issue(U, None), issue(A, v2), issue(A, v2) >>,
      << reissue(1, A, 1, v2) >>,
      << reissue(2, A, None, v2), reissue(3, A, None, v1) >> }

\* A sub-qualifier given to an address and taken from it.
QualifierBlock == { << flag(subtag, TRUE) >>, << flag(subtag, FALSE) >> }
=============================================================================
