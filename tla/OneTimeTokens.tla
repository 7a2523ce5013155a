--------------------------- MODULE OneTimeTokens ---------------------------
(***************************************************************************)
(* The two stores of one-time tokens of the live check: tickets for the    *)
(* WebSocket (services/ws_check_live_ticket.py) and references to uploaded *)
(* workbooks (services/live_excel_upload_store.py), each in Redis or in    *)
(* the memory of a process.                                                *)
(*                                                                         *)
(* Both modules run on the event loop and take no await, and the scripts   *)
(* of Redis are atomic: a call is a step, with the outcomes of its Redis   *)
(* command - applied, not applied, applied with the reply lost.            *)
(***************************************************************************)
EXTENDS Naturals, FiniteSets

CONSTANTS Tickets,    \* the values of token_urlsafe for tickets
          Uploads,    \* those for uploads
          Procs,      \* processes
          PruneAt,    \* entries that make a process prune its memory (2000)
          MaxLosses   \* bound: failing Redis commands and restarts

ASSUME TokensAssumption ==
    /\ Tickets \cap Uploads = {}
    /\ PruneAt \in Nat \ {0} /\ MaxLosses \in Nat

Tokens == Tickets \cup Uploads

VARIABLES
    running,     \* the worker processes of this deployment
    configured,  \* REDIS_URL is set
    stored,      \* keys in Redis
    memory,      \* _memory of each process and kind
    expired,     \* tokens older than their ttl
    drawn,       \* tokens made so far
    files,       \* uploads whose temporary file exists
    takes,       \* history: how often a token was accepted
    doubled,     \* history: tickets that a failed SET left in Redis all the same
    late,        \* history: a token was accepted after it had expired
    losses       \* failures so far

deployment == <<running, configured>>
tokenVars == <<deployment, stored, memory, expired, drawn, files, takes, doubled, late, losses>>

TokensTypeOK ==
    /\ running \subseteq Procs
    /\ configured \in BOOLEAN
    /\ stored \subseteq Tokens
    /\ memory \in [Procs -> SUBSET Tokens]
    /\ expired \subseteq drawn
    /\ drawn \subseteq Tokens
    /\ files \subseteq Uploads
    /\ takes \in [Tokens -> Nat]
    /\ doubled \subseteq Tickets
    /\ late \in BOOLEAN
    /\ losses \in 0..MaxLosses

TokensInit ==
    /\ running \in (SUBSET Procs) \ {{}}
    /\ configured \in BOOLEAN
    /\ stored = {} /\ memory = [p \in Procs |-> {}] /\ expired = {} /\ drawn = {}
    /\ files = {} /\ takes = [t \in Tokens |-> 0] /\ doubled = {} /\ late = FALSE /\ losses = 0

Multi == Cardinality(running) > 1      \* _multi_worker_mode

KindOf(t) == IF t \in Tickets THEN Tickets ELSE Uploads

Loss == losses < MaxLosses /\ losses' = losses + 1

(* _memory_prune_unlocked, of the module of t: it removes 500 of the       *)
(* expired entries at most, but those it leaves are refused as well.       *)
Pruned(p, t) == IF Cardinality(memory[p] \cap KindOf(t)) < PruneAt THEN memory[p]
                ELSE memory[p] \ (expired \cap KindOf(t))

Remember(p, t) == memory' = [memory EXCEPT ![p] = Pruned(p, t) \cup {t}]

-----------------------------------------------------------------------------
(* Mutant: the memory is also written when Redis holds the ticket. *)
MintTwice(p, t) ==
    /\ t \in Tickets \ drawn
    /\ drawn' = drawn \cup {t}
    /\ IF configured THEN stored' = stored \cup {t} ELSE UNCHANGED stored
    /\ Remember(p, t)
    /\ UNCHANGED <<deployment, expired, files, takes, doubled, late, losses>>

(* mint_ticket.  Without several workers a failing SET falls back to the   *)
(* memory, whether it was applied or not; with several it is refused.      *)
Mint(p, t) ==
    /\ t \in Tickets \ drawn
    /\ drawn' = drawn \cup {t}
    /\ \/ /\ configured
          /\ stored' = stored \cup {t}
          /\ UNCHANGED <<memory, doubled, losses>>
       \/ /\ configured
          /\ Loss
          /\ \E applied \in BOOLEAN :
               /\ stored' = IF applied THEN stored \cup {t} ELSE stored
               /\ doubled' = IF applied /\ ~Multi THEN doubled \cup {t} ELSE doubled
          /\ IF Multi THEN UNCHANGED memory ELSE Remember(p, t)
       \/ /\ ~configured
          /\ IF Multi THEN UNCHANGED memory ELSE Remember(p, t)
          /\ UNCHANGED <<stored, doubled, losses>>
    /\ UNCHANGED <<deployment, expired, files, takes, late>>

(* POST upload-excel and put_upload_path: a failing SETEX fails the        *)
(* request, and the temporary file stays.                                  *)
Put(p, t) ==
    /\ t \in Uploads \ drawn
    /\ drawn' = drawn \cup {t}
    /\ files' = files \cup {t}
    /\ \/ /\ configured
          /\ stored' = stored \cup {t}
          /\ UNCHANGED <<memory, losses>>
       \/ /\ configured
          /\ Loss
          /\ stored' \in {stored, stored \cup {t}}
          /\ UNCHANGED memory
       \/ /\ ~configured
          /\ Remember(p, t)
          /\ UNCHANGED <<stored, losses>>
    /\ UNCHANGED <<deployment, expired, takes, doubled, late>>

(* The request presents t and is let in, or is handed the file, which it   *)
(* reads and removes.                                                      *)
Accept(t) ==
    /\ takes' = [takes EXCEPT ![t] = @ + 1]
    /\ files' = files \ {t}
    /\ late' = (late \/ t \in expired)

(* _memory_consume, under the lock of the module. *)
FromMemory(p, t) ==
    /\ memory' = [memory EXCEPT ![p] = Pruned(p, t) \ {t}]
    /\ IF t \in Pruned(p, t) \ expired THEN Accept(t) ELSE UNCHANGED <<takes, files, late>>

(* consume_ticket, any number of times.  With one worker a ticket that     *)
(* Redis does not give may be in the memory; with several nothing else is  *)
(* asked.                                                                  *)
TakeTicket(p, t) ==
    LET Fallback == IF Multi THEN UNCHANGED <<memory, takes, files, late>> ELSE FromMemory(p, t) IN
    /\ t \in drawn \cap Tickets
    /\ \/ /\ configured /\ t \in stored
          /\ stored' = stored \ {t}
          /\ Accept(t)
          /\ UNCHANGED <<memory, losses>>
       \/ /\ configured /\ t \notin stored
          /\ Fallback
          /\ UNCHANGED <<stored, losses>>
       \/ /\ configured
          /\ Loss
          /\ stored' \in {stored, stored \ {t}}
          /\ Fallback
       \/ /\ ~configured
          /\ Fallback
          /\ UNCHANGED <<stored, losses>>
    /\ UNCHANGED <<deployment, expired, drawn, doubled>>

(* pop_upload_path: there is no second store. *)
TakeUpload(p, t) ==
    /\ t \in drawn \cap Uploads
    /\ \/ /\ configured /\ t \in stored
          /\ stored' = stored \ {t}
          /\ Accept(t)
          /\ UNCHANGED <<memory, losses>>
       \/ /\ configured
          /\ Loss
          /\ stored' \in {stored, stored \ {t}}
          /\ UNCHANGED <<memory, takes, files, late>>
       \/ /\ ~configured
          /\ FromMemory(p, t)
          /\ UNCHANGED <<stored, losses>>
    /\ UNCHANGED <<deployment, expired, drawn, doubled>>

(* The ttl runs out: Redis removes its key. *)
Lapse(t) ==
    /\ t \in drawn \ expired
    /\ expired' = expired \cup {t}
    /\ stored' = stored \ {t}
    /\ UNCHANGED <<deployment, memory, drawn, files, takes, doubled, late, losses>>

(* A process restarts with an empty memory. *)
Restart(p) ==
    /\ memory[p] # {}
    /\ Loss
    /\ memory' = [memory EXCEPT ![p] = {}]
    /\ UNCHANGED <<deployment, stored, expired, drawn, files, takes, doubled, late>>

TokensNext == \/ \E p \in running, t \in Tokens : Mint(p, t) \/ Put(p, t)
                                             \/ TakeTicket(p, t) \/ TakeUpload(p, t)
              \/ \E t \in Tokens : Lapse(t)
              \/ \E p \in running : Restart(p)

TokensSpec == TokensInit /\ [][TokensNext]_tokenVars

-----------------------------------------------------------------------------
(* "consumed exactly once" (ws_check_live_ticket.py:31): whatever process  *)
(* it is presented to, a token is accepted once at most and not after it   *)
(* expired - except a ticket whose SET was applied although it failed: it  *)
(* is in both stores, and each of them accepts it.  A reference that can   *)
(* still be taken has its file.                                            *)
TakenOnce ==
    /\ \A t \in Tokens \ doubled : takes[t] <= 1
    /\ \A t \in doubled : takes[t] <= 2
    /\ ~late
    /\ (stored \cup UNION {memory[p] : p \in Procs}) \cap Uploads \subseteq files
=============================================================================
