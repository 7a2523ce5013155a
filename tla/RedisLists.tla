----------------------------- MODULE RedisLists -----------------------------
(* The commands on a Redis list that the pool of keys is kept with          *)
(* (services/provider_key_pool.py): LPUSH adds at index 1, RPOP takes the   *)
(* last.                                                                    *)
EXTENDS Naturals, SequencesExt

LPush(s, x) == Cons(x, s)

\* Of a list that is not empty.
RPopLPush(s) == LPush(Front(s), Last(s))

\* LREM with count 0: every x is removed.
LRem(s, x) ==
  LET kept[n \in 0..Len(s)] == IF n = 0 THEN <<>>
                               ELSE IF s[n] = x THEN kept[n - 1]
                               ELSE Append(kept[n - 1], s[n])
  IN  kept[Len(s)]
=============================================================================
