----------------------------- MODULE TempSession -----------------------------
(***************************************************************************)
(* A temporary check session of one user: the plates of one uploaded file  *)
(* that the check page asks for, kept for CHECK_TEMP_TTL_MINUTES after the *)
(* last request (services/check_temp_storage.py and the routes             *)
(* /check/temp/... of routers/check.py).                                   *)
(*                                                                         *)
(* Every request runs in a thread and its statements are steps             *)
(* (READ COMMITTED).  The UPDATE of last_seen_at holds the lock of the     *)
(* session's row until the commit; now() is the time the transaction       *)
(* began.                                                                  *)
(***************************************************************************)
EXTENDS Naturals

CONSTANTS PlateTexts,   \* normalised plates
          TempRequests, \* requests that may be in progress at a time
          Nobody,       \* holds the lock when no request does
          Ttl,          \* CHECK_TEMP_TTL_MINUTES, in ticks
          MaxClock,     \* bound: ticks
          MaxBegun      \* bound: requests begun

ASSUME TempAssumption ==
    /\ Nobody \notin TempRequests
    /\ Ttl \in Nat /\ MaxClock \in Nat /\ MaxBegun \in Nat

VARIABLES
    bypass,    \* the role of the dsn is not subject to row level security
    clock,
    session,   \* "none", "live" or "gone"
    lastSeen,  \* last_seen_at
    plates,    \* committed rows of check_temp_plates
    lock,      \* who holds the lock of the session's row
    temp,      \* the requests in progress
    begunTemp, \* requests begun
    lastFile,  \* history: the plates of the upload that committed last
    touched,   \* history: the latest time a request gave the session
    overtaken, \* history: a request wrote an older time over a later one
    cut        \* history: a purge removed the session too early

tempVars == <<bypass, clock, session, lastSeen, plates, lock, temp, begunTemp,
              lastFile, touched, overtaken, cut>>

TempRequest ==
    [pc: {"idle", "purge", "find", "touch", "delete", "insert", "look", "commit"},
     kind: {"ping", "upload", "query", "exists"}, want: SUBSET PlateTexts, begin: 0..MaxClock,
     gone: SUBSET PlateTexts,      \* the rows the DELETE saw
     asked: SUBSET PlateTexts, found: SUBSET PlateTexts,
     could: SUBSET SUBSET PlateTexts]   \* history: the contents since the request found the session

TempTypeOK ==
    /\ bypass \in BOOLEAN
    /\ clock \in 0..MaxClock /\ lastSeen \in 0..MaxClock /\ touched \in 0..MaxClock
    /\ session \in {"none", "live", "gone"}
    /\ plates \subseteq PlateTexts /\ lastFile \subseteq PlateTexts
    /\ lock \in TempRequests \cup {Nobody}
    /\ temp \in [TempRequests -> TempRequest]
    /\ begunTemp \in 0..MaxBegun
    /\ overtaken \in BOOLEAN /\ cut \in BOOLEAN

NoTemp == [pc |-> "idle", kind |-> "ping", want |-> {}, begin |-> 0, gone |-> {},
           asked |-> {}, found |-> {}, could |-> {}]

TempInit ==
    /\ bypass \in BOOLEAN
    /\ clock = 0 /\ session = "none" /\ lastSeen = 0 /\ plates = {} /\ lock = Nobody
    /\ temp = [r \in TempRequests |-> NoTemp] /\ begunTemp = 0
    /\ lastFile = {} /\ touched = 0 /\ overtaken = FALSE /\ cut = FALSE

Alive == session = "live"
Free == lock = Nobody

(* The content becomes S; those that are asking may answer by it. *)
Content(S, requests) ==
    /\ plates' = S
    /\ temp' = [r \in TempRequests |->
                  IF requests[r].pc \in {"touch", "look"}
                  THEN [requests[r] EXCEPT !.could = @ \cup {S}] ELSE requests[r]]

Turn(r, new) == [temp EXCEPT ![r] = new]

-----------------------------------------------------------------------------
TempTick ==
    /\ clock < MaxClock
    /\ clock' = clock + 1
    /\ UNCHANGED <<bypass, session, lastSeen, plates, lock, temp, begunTemp, lastFile,
                   touched, overtaken, cut>>

StartSession ==
    /\ session = "none"
    /\ session' = "live" /\ lastSeen' = clock /\ touched' = clock
    /\ UNCHANGED <<bypass, clock, plates, lock, temp, begunTemp, lastFile, overtaken, cut>>

(* A request with the token of the session.  Only temp_plate_exists_sync   *)
(* does not purge first.                                                   *)
Ask(r) ==
    /\ temp[r].pc = "idle" /\ session # "none"
    /\ begunTemp < MaxBegun /\ begunTemp' = begunTemp + 1
    /\ \E k \in {"ping", "upload", "query", "exists"}, S \in SUBSET PlateTexts :
         /\ k = "ping" <=> S = {}
         /\ k = "exists" => \E p \in PlateTexts : S = {p}
         /\ temp' = Turn(r, [NoTemp EXCEPT !.pc = IF k = "exists" THEN "find" ELSE "purge",
                                             !.kind = k, !.want = S])
    /\ UNCHANGED <<bypass, clock, session, lastSeen, plates, lock, lastFile, touched,
                   overtaken, cut>>

(* purge_expired_temp_sessions_sync sets no app.user_id: under forced row  *)
(* level security it sees no row.                                          *)
Purge(r) ==
    LET dead == bypass /\ Alive /\ lastSeen + Ttl < clock IN
    /\ temp[r].pc = "purge"
    /\ dead => Free
    /\ session' = IF dead THEN "gone" ELSE session
    /\ cut' = (cut \/ (dead /\ ~(touched + Ttl < clock)))
    /\ Content(IF dead THEN {} ELSE plates, Turn(r, [temp[r] EXCEPT !.pc = "find"]))
    /\ UNCHANGED <<bypass, clock, lastSeen, lock, begunTemp, lastFile, touched, overtaken>>

(* The transaction begins; ping has no SELECT of its own. *)
Find(r) ==
    /\ temp[r].pc = "find"
    /\ temp' = Turn(r, IF Alive \/ temp[r].kind = "ping"
                         THEN [temp[r] EXCEPT !.pc = "touch", !.begin = clock, !.could = {plates}]
                         ELSE NoTemp)
    /\ UNCHANGED <<bypass, clock, session, lastSeen, plates, lock, begunTemp, lastFile,
                   touched, overtaken, cut>>

AfterTouch(k) == CASE k = "upload" -> "delete" [] k = "ping" -> "commit" [] OTHER -> "look"

(* Mutant: the session is read, not updated. *)
TouchReads(r) ==
    /\ temp[r].pc = "touch"
    /\ temp' = Turn(r, [temp[r] EXCEPT !.pc = AfterTouch(temp[r].kind)])
    /\ UNCHANGED <<bypass, clock, session, lastSeen, plates, lock, begunTemp, lastFile,
                   touched, overtaken, cut>>

(* UPDATE ... SET last_seen_at = now(), whether or not the session has     *)
(* expired; it waits for the lock.  Without the row it changes nothing,    *)
(* and only ping looks at that.                                            *)
Touch(r) ==
    /\ temp[r].pc = "touch"
    /\ Free
    /\ IF Alive
       THEN /\ lock' = r
            /\ lastSeen' = temp[r].begin
            /\ touched' = IF temp[r].begin > touched THEN temp[r].begin ELSE touched
            /\ overtaken' = (overtaken \/ temp[r].begin < lastSeen)
       ELSE UNCHANGED <<lock, lastSeen, touched, overtaken>>
    /\ temp' = Turn(r, IF Alive \/ temp[r].kind # "ping"
                         THEN [temp[r] EXCEPT !.pc = AfterTouch(temp[r].kind)] ELSE NoTemp)
    /\ UNCHANGED <<bypass, clock, session, plates, begunTemp, lastFile, cut>>

DeleteRows(r) ==
    /\ temp[r].pc = "delete"
    /\ temp' = Turn(r, [temp[r] EXCEPT !.pc = "insert", !.gone = plates])
    /\ UNCHANGED <<bypass, clock, session, lastSeen, plates, lock, begunTemp, lastFile,
                   touched, overtaken, cut>>

Release(r) == lock' = IF lock = r THEN Nobody ELSE lock

(* The INSERTs and the commit; without the session the foreign key fails.  *)
InsertRows(r) ==
    LET t == temp[r] IN
    /\ t.pc = "insert"
    /\ Release(r)
    /\ IF Alive THEN /\ Content((plates \ t.gone) \cup t.want, Turn(r, NoTemp))
                    /\ lastFile' = t.want
               ELSE temp' = Turn(r, NoTemp) /\ UNCHANGED <<plates, lastFile>>
    /\ UNCHANGED <<bypass, clock, session, lastSeen, begunTemp, touched, overtaken, cut>>

(* A SELECT for each plate, within one transaction. *)
Look(r) ==
    LET t == temp[r] IN
    /\ t.pc = "look"
    /\ \E p \in t.want \ t.asked :
         temp' = Turn(r, [t EXCEPT !.asked = @ \cup {p}, !.found = @ \cup ({p} \cap plates),
                                     !.pc = IF t.asked \cup {p} = t.want THEN "commit" ELSE "look"])
    /\ UNCHANGED <<bypass, clock, session, lastSeen, plates, lock, begunTemp, lastFile,
                   touched, overtaken, cut>>

Answer(r) ==
    /\ temp[r].pc = "commit"
    /\ Release(r)
    /\ temp' = Turn(r, NoTemp)
    /\ UNCHANGED <<bypass, clock, session, lastSeen, plates, begunTemp, lastFile, touched,
                   overtaken, cut>>

(* delete_temp_session_sync; the plates go with the session.  No other     *)
(* session takes its token.                                                *)
CloseSession ==
    /\ Alive /\ Free
    /\ session' = "gone"
    /\ Content({}, temp)
    /\ UNCHANGED <<bypass, clock, lastSeen, lock, begunTemp, lastFile, touched, overtaken, cut>>

TempStep(r) == \/ Ask(r) \/ Purge(r) \/ Find(r) \/ Touch(r) \/ DeleteRows(r)
               \/ InsertRows(r) \/ Look(r) \/ Answer(r)

TempNext == TempTick \/ StartSession \/ CloseSession \/ \E r \in TempRequests : TempStep(r)

TempSpec == TempInit /\ [][TempNext]_tempVars

-----------------------------------------------------------------------------
(* The plates of a session are those of the upload that committed last,    *)
(* and a query answers all of its plates by the content of one moment -    *)
(* however uploads, queries, purges and the close interleave; and a        *)
(* session is not purged within the ttl of a request that used it, unless  *)
(* a transaction that began earlier wrote its time over it                 *)
(* (check_temp_storage.py:131-143, 282-300, 336-356).                      *)
OneFile    == Alive => plates = lastFile
OneMoment  == \A r \in TempRequests : temp[r].pc = "commit" /\ temp[r].kind # "ping" =>
                \E S \in temp[r].could : temp[r].found = temp[r].want \cap S
KeptAlive  == cut => overtaken
TempSound  == OneFile /\ OneMoment /\ KeptAlive
=============================================================================
