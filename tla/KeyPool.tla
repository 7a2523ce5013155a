------------------------------- MODULE KeyPool -------------------------------
(***************************************************************************)
(* The pool of API keys of one provider kind (gemini, ors, gmaps), shared  *)
(* through Redis by every process of the application.                      *)
(*                                                                         *)
(*   services/provider_key_pool.py  the Redis commands on order, secrets,  *)
(*                                  parked                                 *)
(*   services/provider_keys.py, routers/proxy_ors.py,                      *)
(*   core/plate_checker_ws.py       the loops that try key after key       *)
(*   routers/admin_provider.py      adding, listing and deleting keys      *)
(*                                                                         *)
(* A step is one Redis command.  None of the functions uses a transaction, *)
(* so the commands of two actors interleave freely.                        *)
(***************************************************************************)
EXTENDS Naturals, SequencesExt, RedisLists

CONSTANTS
  Keys,         \* the uuids add_key ever draws
  StartOrder,   \* the rotation list at the start, oldest key last
  Clients,      \* concurrent loops over the keys
  Admins,       \* concurrent admin requests
  MidnightRaises,
    \* TRUE is the source: next_midnight_utc_ts reads time.min, the module "time"
    \* has no such attribute, so it raises AttributeError.  FALSE is the function
    \* with datetime.time.min, for the run that exercises parking and promotion.
  NoKey

Actors == Clients \cup Admins

ASSUME ConstantsAssumption ==
  /\ StartOrder \in Seq(Keys)
  /\ \A i, k \in 1..Len(StartOrder) : StartOrder[i] = StartOrder[k] => i = k
  /\ Clients \cap Admins = {}
  /\ MidnightRaises \in BOOLEAN
  /\ NoKey \notin Keys

VARIABLES
  order,    \* the list :order; LPUSH adds at index 1, RPOP takes the last
  secrets,  \* the uids of the hash :secrets
  parked,   \* the zset :parked: "no", "until" a time to come, or "due"
  drawn,    \* uids add_key has used
  early,    \* history: the uids an LREM of delete_key_forever met between the HSET and
            \* the LPUSH of add_key
  pc,       \* where an actor stands
  cur,      \* the uid an actor works on
  due,      \* uids ZRANGEBYSCORE returned and promote has still to move
  left,     \* iterations left of "for _ in range(n)"
  seen,     \* seen_cycle
  must      \* history: the keys that were active when the cycle read LLEN

vars == <<order, secrets, parked, drawn, early, pc, cur, due, left, seen, must>>

Init == /\ order   = StartOrder
        /\ secrets = ToSet(StartOrder)
        /\ parked  = [k \in Keys |-> "no"]
        /\ drawn   = ToSet(StartOrder)
        /\ early   = {}
        /\ pc      = [a \in Actors |-> "idle"]
        /\ cur     = [a \in Actors |-> NoKey]
        /\ due     = [a \in Actors |-> {}]
        /\ left    = [c \in Clients |-> 0]
        /\ seen    = [c \in Clients |-> {}]
        /\ must    = [c \in Clients |-> {}]

redis == <<order, secrets, parked, drawn, early>>
cycle == <<left, seen, must>>

At(a, from)  == pc[a] = from
Goto(a, to)  == pc' = [pc EXCEPT ![a] = to]
Takes(a, k)  == cur' = [cur EXCEPT ![a] = k]

\* The generator and its locals end.
Leave(c) == /\ Goto(c, "idle")
            /\ Takes(c, NoKey)
            /\ left' = [left EXCEPT ![c] = 0]
            /\ seen' = [seen EXCEPT ![c] = {}]
            /\ must' = [must EXCEPT ![c] = {}]

\* The statement that follows a command of a loop body, or of an admin request.
Resume(a) == IF a \in Clients THEN "rotate" ELSE "idle"
-----------------------------------------------------------------------------
(* promote_parked_keys: every reader of the pool calls it first.           *)

ReadDue(a) ==
  /\ At(a, "idle")
  /\ due' = [due EXCEPT ![a] = {k \in Keys : parked[k] = "due"}]
  /\ Goto(a, "promote")
  /\ UNCHANGED <<redis, cur, cycle>>

PromotePush(a) ==
  /\ At(a, "promote")
  /\ \E k \in due[a] : /\ order' = LPush(order, k)
                       /\ Takes(a, k)
                       /\ due' = [due EXCEPT ![a] = @ \ {k}]
  /\ Goto(a, "unpark")
  /\ UNCHANGED <<secrets, parked, drawn, early, cycle>>

PromoteUnpark(a) ==
  /\ At(a, "unpark")
  /\ parked' = [parked EXCEPT ![cur[a]] = "no"]
  /\ Takes(a, NoKey)
  /\ Goto(a, "promote")
  /\ UNCHANGED <<order, secrets, drawn, early, due, cycle>>

\* has_any_key, peek_one_key and list_keys_detail only read after the promotion.
PromoteOnly(a) ==
  /\ At(a, "promote")
  /\ due[a] = {}
  /\ Goto(a, "idle")
  /\ UNCHANGED <<redis, cur, due, cycle>>
-----------------------------------------------------------------------------
(* iter_round_robin, and the loop of its caller.                           *)

ReadLength(c) ==
  /\ At(c, "promote")
  /\ due[c] = {}
  /\ left' = [left EXCEPT ![c] = Len(order)]
  /\ seen' = [seen EXCEPT ![c] = {}]
  /\ must' = [must EXCEPT ![c] = {k \in ToSet(order) : parked[k] # "until"}]
  /\ Goto(c, "rotate")
  /\ UNCHANGED <<redis, cur, due>>

\* The generator ends: range(n) is used up, the list is empty, or RPOPLPUSH moved
\* a key this cycle has seen.
RotateEnds(c) ==
  /\ At(c, "rotate")
  /\ \/ left[c] = 0 /\ UNCHANGED order
     \/ left[c] > 0 /\ order = <<>> /\ UNCHANGED order
     \/ /\ left[c] > 0 /\ order # <<>>
        /\ Last(order) \in seen[c]
        /\ order' = RPopLPush(order)
  /\ Goto(c, "exhausted")
  /\ UNCHANGED <<secrets, parked, drawn, early, cur, due, cycle>>

Rotate(c) ==
  /\ At(c, "rotate")
  /\ left[c] > 0 /\ order # <<>>
  /\ Last(order) \notin seen[c]
  /\ order' = RPopLPush(order)
  /\ left' = [left EXCEPT ![c] = @ - 1]
  /\ seen' = [seen EXCEPT ![c] = @ \cup {Last(order)}]
  /\ Takes(c, Last(order))
  /\ Goto(c, "score")
  /\ UNCHANGED <<secrets, parked, drawn, early, due, must>>

\* is_parked (ZSCORE): a parked uid in the list is skipped.
CheckParked(c) ==
  /\ At(c, "score")
  /\ \/ parked[cur[c]] = "until" /\ Takes(c, NoKey) /\ Goto(c, "rotate")
     \/ parked[cur[c]] # "until" /\ UNCHANGED cur /\ Goto(c, "secret")
  /\ UNCHANGED <<redis, due, cycle>>

\* Mutant: a uid without a secret stays in the hand of the loop.
ReadSecretKeepsUid(c) ==
  /\ At(c, "secret")
  /\ \/ cur[c] \in secrets /\ Goto(c, "using")
     \/ cur[c] \notin secrets /\ Goto(c, "rotate")
  /\ UNCHANGED <<redis, cur, due, cycle>>

\* HGET, then yield; a uid without a secret is skipped.
ReadSecret(c) ==
  /\ At(c, "secret")
  /\ \/ cur[c] \in secrets /\ UNCHANGED cur /\ Goto(c, "using")
     \/ cur[c] \notin secrets /\ Takes(c, NoKey) /\ Goto(c, "rotate")
  /\ UNCHANGED <<redis, due, cycle>>

\* The provider answers: the caller returns (success; with any other error
\* async_gemini_try_all and the ORS proxy return too, the Live loop continues), or
\* the error is "quota" or "invalid".
Use(c) ==
  /\ At(c, "using")
  /\ \/ Leave(c)
     \/ Goto(c, "rotate") /\ Takes(c, NoKey) /\ UNCHANGED cycle
     \/ Goto(c, "park") /\ UNCHANGED <<cur, cycle>>
     \/ Goto(c, "drop") /\ UNCHANGED <<cur, cycle>>
  /\ UNCHANGED <<redis, due>>

\* No key was left to try: the request fails.
Fail(c) ==
  /\ At(c, "exhausted")
  /\ Leave(c)
  /\ UNCHANGED <<redis, due>>

\* park_until_midnight_utc: LREM, then the time is computed, then ZADD.
ParkRemove(c) ==
  /\ At(c, "park")
  /\ order' = LRem(order, cur[c])
  /\ IF MidnightRaises THEN Leave(c)
                       ELSE Goto(c, "until") /\ UNCHANGED <<cur, cycle>>
  /\ UNCHANGED <<secrets, parked, drawn, early, due>>

\* Mutant: ZADD is not reached although the time was computed.
ParkForgets(c) ==
  /\ At(c, "until")
  /\ Takes(c, NoKey)
  /\ Goto(c, "rotate")
  /\ UNCHANGED <<redis, due, cycle>>

\* Mutant: the caller stops after a key without quota instead of continuing.
ParkBreaks(c) ==
  /\ At(c, "until")
  /\ parked' = [parked EXCEPT ![cur[c]] = "until"]
  /\ Takes(c, NoKey)
  /\ Goto(c, "exhausted")
  /\ UNCHANGED <<order, secrets, drawn, early, due, cycle>>

ParkAddUntil(c) ==
  /\ At(c, "until")
  /\ parked' = [parked EXCEPT ![cur[c]] = "until"]
  /\ Takes(c, NoKey)
  /\ Goto(c, "rotate")
  /\ UNCHANGED <<order, secrets, drawn, early, due, cycle>>

ParkAdd(c) == ParkAddUntil(c)

Client(c) == \/ ReadLength(c) \/ Rotate(c) \/ RotateEnds(c) \/ CheckParked(c)
             \/ ReadSecret(c) \/ Use(c) \/ Fail(c) \/ ParkRemove(c) \/ ParkAdd(c)
-----------------------------------------------------------------------------
(* delete_key_forever, by a client or an admin; add_key.                   *)

\* add_key has saved the secret and not pushed the uid.
BeingAdded(k) == \E b \in Admins : pc[b] = "add" /\ cur[b] = k

DropOrder(a) ==
  /\ At(a, "drop")
  /\ order' = LRem(order, cur[a])
  /\ early' = early \cup {k \in {cur[a]} : BeingAdded(k)}
  /\ Goto(a, "hdel")
  /\ UNCHANGED <<secrets, parked, drawn, cur, due, cycle>>

DropSecret(a) ==
  /\ At(a, "hdel")
  /\ secrets' = secrets \ {cur[a]}
  /\ Goto(a, "zrem")
  /\ UNCHANGED <<order, parked, drawn, early, cur, due, cycle>>

DropParked(a) ==
  /\ At(a, "zrem")
  /\ parked' = [parked EXCEPT ![cur[a]] = "no"]
  /\ Takes(a, NoKey)
  /\ Goto(a, Resume(a))
  /\ UNCHANGED <<order, secrets, drawn, early, due, cycle>>

\* Mutant: LPUSH before HSET.
AddPushFirst(a) ==
  /\ At(a, "idle")
  /\ \E k \in Keys \ drawn : /\ drawn' = drawn \cup {k}
                             /\ order' = LPush(order, k)
                             /\ Takes(a, k)
  /\ Goto(a, "add")
  /\ UNCHANGED <<secrets, parked, early, due, cycle>>

\* HSET of a fresh uuid4.
AddSecretFirst(a) ==
  /\ At(a, "idle")
  /\ \E k \in Keys \ drawn : /\ drawn' = drawn \cup {k}
                             /\ secrets' = secrets \cup {k}
                             /\ Takes(a, k)
  /\ Goto(a, "add")
  /\ UNCHANGED <<order, parked, early, due, cycle>>

AddSecret(a) == AddSecretFirst(a)

AddPush(a) ==
  /\ At(a, "add")
  /\ order' = LPush(order, cur[a])
  /\ Takes(a, NoKey)
  /\ Goto(a, "idle")
  /\ UNCHANGED <<secrets, parked, drawn, early, due, cycle>>

\* DELETE /admin/provider/key-pools/{kind}/keys/{key_id}: any uid a listing has shown, also
\* one that is gone by now, and, as an orphan, one add_key has not pushed yet.
AdminDelete(a) ==
  /\ At(a, "idle")
  /\ \E k \in drawn : Takes(a, k)
  /\ Goto(a, "drop")
  /\ UNCHANGED <<redis, due, cycle>>

Admin(a) == AddSecret(a) \/ AddPush(a) \/ AdminDelete(a)

Shared(a) == \/ ReadDue(a) \/ PromotePush(a) \/ PromoteUnpark(a) \/ PromoteOnly(a)
             \/ DropOrder(a) \/ DropSecret(a) \/ DropParked(a)

\* The clock passes midnight UTC.
Midnight ==
  /\ \E k \in Keys : parked[k] = "until"
  /\ parked' = [k \in Keys |-> IF parked[k] = "until" THEN "due" ELSE parked[k]]
  /\ UNCHANGED <<order, secrets, drawn, early, pc, cur, due, cycle>>

Next == \/ \E a \in Actors : Shared(a)
        \/ \E c \in Clients : Client(c)
        \/ \E a \in Admins : Admin(a)
        \/ Midnight

Spec == Init /\ [][Next]_vars
-----------------------------------------------------------------------------
(* Properties.                                                             *)

AtClient == {"idle", "promote", "unpark", "rotate", "score", "secret", "using",
             "exhausted", "park", "until", "drop", "hdel", "zrem"}
AtAdmin  == {"idle", "promote", "unpark", "drop", "hdel", "zrem", "add"}
Empty    == {"idle", "promote", "rotate", "exhausted"}

\* Every variable has its type, and an actor has a uid in hand exactly between the
\* commands that are about it.
TypeOK ==
  /\ order \in Seq(Keys)
  /\ secrets \subseteq drawn
  /\ drawn \subseteq Keys
  /\ early \subseteq Keys
  /\ parked \in [Keys -> {"no", "until", "due"}]
  /\ pc \in [Actors -> AtClient \cup AtAdmin]
  /\ \A c \in Clients : pc[c] \in AtClient
  /\ \A a \in Admins : pc[a] \in AtAdmin
  /\ cur \in [Actors -> Keys \cup {NoKey}]
  /\ \A a \in Actors : pc[a] \in Empty <=> cur[a] = NoKey
  /\ due \in [Actors -> SUBSET Keys]
  /\ left \in [Clients -> Nat]
  /\ seen \in [Clients -> SUBSET Keys]
  /\ must \in [Clients -> SUBSET Keys]

\* Whatever the actors interleave, the rotation list names each key once (iter_round_robin
\* stops at the first repeated uid), and only keys that have a secret, so that no turn is
\* wasted and has_any_key counts no dead entry; except a key that an admin deletes from the
\* listing while another one is still adding it, which the LPUSH brings back without secret.
RotationSound ==
  /\ \A i, k \in 1..Len(order) : order[i] = order[k] => i = k
  /\ ToSet(order) \ early \subseteq secrets

\* "park on 429 until next midnight UTC, permanent delete on invalid key"
\* (provider_key_pool.py:2): a key that has a secret is in the rotation list or parked,
\* unless an actor is about to put it there.  Otherwise no request uses it again.
KeyKept ==
  \A k \in secrets : \/ k \in ToSet(order)
                     \/ parked[k] # "no"
                     \/ \E a \in Actors : cur[a] = k /\ pc[a] \in {"add", "until", "hdel"}

\* "Try each Gemini key in rotation order until success or exhaustion"
\* (provider_keys.py:112): a request fails for want of keys only after it tried every
\* key that was active when it began and still is.
CycleCoversPool ==
  \A c \in Clients : pc[c] = "exhausted" =>
    must[c] \cap ToSet(order) \cap secrets \subseteq seen[c]
=============================================================================
