----------------------------- MODULE LiveSession -----------------------------
(***************************************************************************)
(* The state a live check keeps per session_key ("user_id:client_id"): the *)
(* SessionState object, the idle-cleanup tasks, and the metering of the    *)
(* Gemini Live upstream.  The browser keeps client_id in localStorage, so  *)
(* reconnections and other tabs of a user come with the same session_key.  *)
(*                                                                         *)
(*   core/plate_checker_ws.py  handle_plate_checker_client, the cleanup    *)
(*   core/session.py           the registry of SessionState objects        *)
(*   services/gemini_usage.py  flush_live_gemini_usage_for_session_sync    *)
(*                                                                         *)
(* All of it runs on one event loop: a step is the code between two awaits.*)
(* Objects and cleanup tasks are named by the connection that creates them.*)
(***************************************************************************)
EXTENDS Naturals, FiniteSets

CONSTANTS
  Conns,    \* the connections of one session_key, one websocket each
  MaxLive,  \* gemini_live_max_concurrent
  DbFails,  \* the user database may raise
  None

ASSUME ConstantsAssumption ==
  /\ MaxLive \in Nat \ {0}
  /\ DbFails \in BOOLEAN
  /\ None \notin Conns

VARIABLES
  dict,       \* _sessions[session_key]
  connected,  \* SessionState.connected, per object
  genai,      \* SessionState.genai_session: the connection that opened the upstream
  kid,        \* SessionState.gemini_redis_key_id is set
  meter,      \* the upstreams whose usage the counters of the object hold
  pc,         \* where the handler of a connection stands
  obj,        \* the local variable session of the handler
  heard,      \* the upstream handle_gemini_responses iterates over
  reg,        \* _live_cleanup_tasks[session_key]
  task,       \* the state of a cleanup task
  tobj,       \* the object a closing cleanup task holds
  touched,    \* the tasks since whose start last_activity_at was set
  spent,      \* history: upstreams that reported usage
  bills,      \* history: how many usage rows contain an upstream's usage
  mishaps     \* history: "overlap" of connections, "db" errors

object == <<connected, genai, kid, meter>>
tasks  == <<reg, task, tobj, touched>>
history == <<spent, bills, mishaps>>
vars   == <<dict, object, pc, obj, heard, tasks, history>>

Init == /\ dict = None
        /\ connected = [o \in Conns |-> FALSE]
        /\ genai     = [o \in Conns |-> None]
        /\ kid       = [o \in Conns |-> FALSE]
        /\ meter     = [o \in Conns |-> {}]
        /\ pc        = [c \in Conns |-> "new"]
        /\ obj       = [c \in Conns |-> None]
        /\ heard     = [c \in Conns |-> None]
        /\ reg       = None
        /\ task      = [t \in Conns |-> "none"]
        /\ tobj      = [t \in Conns |-> None]
        /\ touched   = {}
        /\ spent     = {}
        /\ bills     = [u \in Conns |-> 0]
        /\ mishaps   = {}

Goto(c, from, to) == pc[c] = from /\ pc' = [pc EXCEPT ![c] = to]

\* touch_session: the object in the registry, whichever it is.
Touch == touched' = touched \cup {t \in Conns : task[t] \in {"sleep", "closing"}}

\* _cancel_cleanup_task.  A cancelled task still has to run its finally.
Cancelled == [t \in Conns |-> IF t = reg /\ task[t] \in {"sleep", "closing"}
                             THEN "cancelled" ELSE task[t]]

\* create_task(_schedule_idle_cleanup): an entry in the registry is overwritten.
Schedule(c, states) ==
  /\ task' = [states EXCEPT ![c] = "sleep"]
  /\ reg'  = c
  /\ UNCHANGED tobj

Inside == {"policy", "model", "wait", "dial", "ready", "live", "ending", "flush", "wipe"}
InSem  == {"dial", "ready", "live"}

\* No connection is being served.
Abandoned == \A c \in Conns : pc[c] \notin Inside
-----------------------------------------------------------------------------
(* handle_plate_checker_client: the init message.                          *)

\* The init message: the cleanup is cancelled, the session found or created.  The
\* policy checks follow without an await; an SQLAlchemy error in them is not among
\* the exceptions caught, and leaves the session as it is.
Connect(c) ==
  /\ pc[c] = "new"
  /\ LET o == IF dict = None THEN c ELSE dict
     IN  /\ dict' = o
         /\ obj'  = [obj EXCEPT ![c] = o]
         /\ connected' = [connected EXCEPT ![o] = TRUE]
  /\ \/ pc' = [pc EXCEPT ![c] = "model"]
     \/ pc' = [pc EXCEPT ![c] = "policy"]
     \/ DbFails /\ pc' = [pc EXCEPT ![c] = "closed"]
  /\ mishaps' = mishaps \cup (IF Abandoned THEN {} ELSE {"overlap"})
                        \cup (IF pc'[c] = "closed" THEN {"db"} ELSE {})
  /\ task' = Cancelled
  /\ reg'  = None
  /\ Touch
  /\ UNCHANGED <<genai, kid, meter, heard, tobj, spent, bills>>

\* Mutant: the session is looked up again after the policy checks only.
ConnectLate(c) ==
  /\ pc[c] = "new"
  /\ LET o == IF dict = None THEN c ELSE dict
     IN  /\ dict' = o
         /\ connected' = [connected EXCEPT ![o] = TRUE]
         /\ \/ pc' = [pc EXCEPT ![c] = "model"] /\ obj' = [obj EXCEPT ![c] = o]
            \/ pc' = [pc EXCEPT ![c] = "policy"] /\ UNCHANGED obj
  /\ mishaps' = mishaps \cup (IF Abandoned THEN {} ELSE {"overlap"})
  /\ task' = Cancelled
  /\ reg'  = None
  /\ Touch
  /\ UNCHANGED <<genai, kid, meter, heard, tobj, spent, bills>>

Accept(c) == Connect(c)

\* is_gemini_model_allowed_sync in a thread.
CheckModel(c) ==
  /\ \/ Goto(c, "model", "wait")
     \/ Goto(c, "model", "policy")
     \/ DbFails /\ Goto(c, "model", "closed")
  /\ mishaps' = mishaps \cup (IF pc'[c] = "closed" THEN {"db"} ELSE {})
  /\ UNCHANGED <<dict, object, obj, heard, tasks, spent, bills>>

\* The error was sent: a cleanup is scheduled, none is cancelled.
RejectSchedules(c) ==
  /\ Goto(c, "policy", "closed")
  /\ connected' = [connected EXCEPT ![obj[c]] = FALSE]
  /\ Schedule(c, task)
  /\ UNCHANGED <<dict, genai, kid, meter, obj, heard, touched, history>>

\* Mutant: the rejected connection schedules no cleanup.
RejectOnly(c) ==
  /\ Goto(c, "policy", "closed")
  /\ connected' = [connected EXCEPT ![obj[c]] = FALSE]
  /\ UNCHANGED <<dict, genai, kid, meter, obj, heard, tasks, history>>

Reject(c) == RejectSchedules(c)
-----------------------------------------------------------------------------
(* The live part, under the semaphore.                                     *)

EnterSem(c) ==
  /\ Cardinality({d \in Conns : pc[d] \in InSem}) < MaxLive
  /\ Goto(c, "wait", "dial")
  /\ UNCHANGED <<dict, object, obj, heard, tasks, history>>

\* A key worked: the upstream and the metering of the session are now this
\* connection's, whatever they held.
Open(c) ==
  /\ Goto(c, "dial", "ready")
  /\ genai' = [genai EXCEPT ![obj[c]] = c]
  /\ kid'   = [kid EXCEPT ![obj[c]] = TRUE]
  /\ meter' = [meter EXCEPT ![obj[c]] = {}]
  /\ UNCHANGED <<dict, connected, obj, heard, tasks, history>>

\* No key worked, or the pool itself raised.
NoUpstream(c) ==
  /\ Goto(c, "dial", "ending")
  /\ UNCHANGED <<dict, object, obj, heard, tasks, history>>

\* "ready" was sent and the two tasks start; handle_gemini_responses reads the
\* upstream from the session, and returns at once when there is none.
Listen(c) ==
  /\ \/ /\ Goto(c, "ready", "live")
        /\ genai[obj[c]] # None
        /\ heard' = [heard EXCEPT ![c] = genai[obj[c]]]
     \/ /\ Goto(c, "ready", "ending")
        /\ genai[obj[c]] = None
        /\ UNCHANGED heard
  /\ UNCHANGED <<dict, object, obj, tasks, history>>

\* handle_client_messages: every message touches the session in the registry.
Message(c) ==
  /\ pc[c] = "live"
  /\ dict # None
  /\ Touch
  /\ UNCHANGED <<dict, object, pc, obj, heard, reg, task, tobj, history>>

\* _merge_live_usage_metadata.
Usage(c) ==
  /\ pc[c] = "live"
  /\ meter' = [meter EXCEPT ![obj[c]] = @ \cup {heard[c]}]
  /\ spent' = spent \cup {heard[c]}
  /\ UNCHANGED <<dict, connected, genai, kid, pc, obj, heard, tasks, bills, mishaps>>

\* The websocket or the upstream ended: the tasks, the upstream and the semaphore are
\* released, and heard with them.
HangUp(c) ==
  /\ Goto(c, "live", "ending")
  /\ heard' = [heard EXCEPT ![c] = None]
  /\ UNCHANGED <<dict, object, obj, tasks, history>>
-----------------------------------------------------------------------------
(* The finally clause.                                                     *)

BeginFlush(c) ==
  /\ \/ Goto(c, "ending", "flush") /\ kid[obj[c]]
     \/ Goto(c, "ending", "wipe") /\ ~ kid[obj[c]]
  /\ UNCHANGED <<dict, object, obj, heard, tasks, history>>

\* flush_live_gemini_usage_for_session_sync in a thread: one row from the counters,
\* unless the key id was cleared meanwhile.  A failure of the insert is logged.
Flush(c) ==
  /\ Goto(c, "flush", "wipe")
  /\ \/ /\ kid[obj[c]]
        /\ bills' = [u \in Conns |-> IF u \in meter[obj[c]] THEN bills[u] + 1 ELSE bills[u]]
        /\ UNCHANGED mishaps
     \/ ~ kid[obj[c]] /\ UNCHANGED <<bills, mishaps>>
     \/ DbFails /\ mishaps' = mishaps \cup {"db"} /\ UNCHANGED bills
  /\ UNCHANGED <<dict, object, obj, heard, tasks, spent>>

\* The fields are cleared, the session touched, the cleanup cancelled and scheduled.
WipeAll(c) ==
  /\ Goto(c, "wipe", "closed")
  /\ kid'       = [kid EXCEPT ![obj[c]] = FALSE]
  /\ meter'     = [meter EXCEPT ![obj[c]] = {}]
  /\ connected' = [connected EXCEPT ![obj[c]] = FALSE]
  /\ genai'     = [genai EXCEPT ![obj[c]] = None]
  /\ IF dict = None THEN UNCHANGED touched ELSE Touch
  /\ Schedule(c, Cancelled)
  /\ UNCHANGED <<dict, obj, heard, history>>

\* Mutant: the metering fields are not cleared.
WipeKeepsMeter(c) ==
  /\ Goto(c, "wipe", "closed")
  /\ connected' = [connected EXCEPT ![obj[c]] = FALSE]
  /\ genai'     = [genai EXCEPT ![obj[c]] = None]
  /\ IF dict = None THEN UNCHANGED touched ELSE Touch
  /\ Schedule(c, Cancelled)
  /\ UNCHANGED <<dict, kid, meter, obj, heard, history>>

\* Mutant: session.connected stays True.
WipeKeepsConnected(c) ==
  /\ Goto(c, "wipe", "closed")
  /\ kid'   = [kid EXCEPT ![obj[c]] = FALSE]
  /\ meter' = [meter EXCEPT ![obj[c]] = {}]
  /\ genai' = [genai EXCEPT ![obj[c]] = None]
  /\ IF dict = None THEN UNCHANGED touched ELSE Touch
  /\ Schedule(c, Cancelled)
  /\ UNCHANGED <<dict, connected, obj, heard, history>>

Wipe(c) == WipeAll(c)

Handler(c) == \/ CheckModel(c) \/ Reject(c) \/ EnterSem(c) \/ Open(c) \/ NoUpstream(c)
              \/ Listen(c) \/ BeginFlush(c) \/ Flush(c) \/ Wipe(c)
-----------------------------------------------------------------------------
(* _schedule_idle_cleanup.                                                 *)

\* The finally of the task t pops the registry entry, also when it is another task's.
TaskEnds(t) ==
  /\ task' = [task EXCEPT ![t] = "done"]
  /\ tobj' = [tobj EXCEPT ![t] = None]
  /\ touched' = touched \ {t}
  /\ reg'  = None

Unused == dict # None /\ ~ connected[dict]

\* The session is idle for the TTL unless something touched it since the task started;
\* a session of any idle time may be older than the hard TTL.
WakeChecks(t) ==
  /\ task[t] = "sleep"
  /\ \/ /\ ~ Unused
        /\ TaskEnds(t)
        /\ UNCHANGED dict
     \/ /\ Unused /\ t \in touched
        /\ TaskEnds(t)
        /\ UNCHANGED dict
     \/ /\ Unused /\ genai[dict] = None
        /\ TaskEnds(t)
        /\ dict' = None
     \/ /\ Unused /\ genai[dict] # None
        /\ task' = [task EXCEPT ![t] = "closing"]
        /\ tobj' = [tobj EXCEPT ![t] = dict]
        /\ UNCHANGED <<dict, reg, touched>>
  /\ UNCHANGED <<object, pc, obj, heard, history>>

\* Mutant: the task does not look at session.connected.
WakeBlind(t) ==
  /\ task[t] = "sleep"
  /\ TaskEnds(t)
  /\ dict' = None
  /\ genai' = [o \in Conns |-> IF o = dict THEN None ELSE genai[o]]
  /\ UNCHANGED <<connected, kid, meter, pc, obj, heard, history>>

Wake(t) == WakeChecks(t)

\* genai_session.close() returned.
Closed(t) ==
  /\ task[t] = "closing"
  /\ genai' = [genai EXCEPT ![tobj[t]] = None]
  /\ dict'  = None
  /\ TaskEnds(t)
  /\ UNCHANGED <<connected, kid, meter, pc, obj, heard, history>>

\* CancelledError reaches a cancelled task.
Unwind(t) ==
  /\ task[t] = "cancelled"
  /\ TaskEnds(t)
  /\ UNCHANGED <<dict, object, pc, obj, heard, history>>

Cleanup(t) == Wake(t) \/ Closed(t) \/ Unwind(t)

Next == \/ \E c \in Conns : Accept(c) \/ Handler(c) \/ Message(c) \/ Usage(c) \/ HangUp(c)
        \/ \E t \in Conns : Cleanup(t)

Spec == Init /\ [][Next]_vars

\* The event loop resumes handlers and tasks; nothing forces a user to connect, to send
\* or to hang up.
FairSpec == /\ Spec
            /\ \A c \in Conns : WF_vars(Handler(c))
            /\ \A t \in Conns : WF_vars(Cleanup(t))
-----------------------------------------------------------------------------
(* Properties.                                                             *)

\* Every variable has its type; a handler past the init message has its session.
TypeOK ==
  /\ dict \in Conns \cup {None}
  /\ connected \in [Conns -> BOOLEAN]
  /\ genai \in [Conns -> Conns \cup {None}]
  /\ kid \in [Conns -> BOOLEAN]
  /\ meter \in [Conns -> SUBSET Conns]
  /\ pc \in [Conns -> Inside \cup {"new", "closed"}]
  /\ obj \in [Conns -> Conns \cup {None}]
  /\ \A c \in Conns : pc[c] = "new" <=> obj[c] = None
  /\ heard \in [Conns -> Conns \cup {None}]
  /\ \A c \in Conns : pc[c] = "live" <=> heard[c] # None
  /\ reg \in Conns \cup {None}
  /\ task \in [Conns -> {"none", "sleep", "closing", "cancelled", "done"}]
  /\ tobj \in [Conns -> Conns \cup {None}]
  /\ touched \subseteq Conns
  /\ spent \subseteq Conns
  /\ bills \in [Conns -> Nat]

\* While a connection that no other overlaps is served, its session is the registered one
\* and counts as connected, so that no cleanup task removes the workbook under it; its
\* audio goes to the upstream it opened, and it hears that one - whatever cleanups of
\* earlier connections are under way.
OwnSession  == \A c \in Conns : pc[c] \in Inside => dict = obj[c] /\ connected[obj[c]]
OwnUpstream == \A c \in Conns : pc[c] = "live" => genai[obj[c]] = c /\ heard[c] = c
ActiveKept  == "overlap" \notin mishaps => OwnSession /\ OwnUpstream

\* The usage of each upstream is written to the database once: not lost when its
\* connection has ended, and not again by a later connection of the session_key.
BilledOnce ==
  mishaps = {} =>
    \A u \in Conns : /\ bills[u] <= 1
                     /\ pc[u] \in {"wipe", "closed"} /\ u \in spent => bills[u] = 1

\* A session nobody is connected to has a cleanup task that will find it idle, however
\* connections, rejections and cancelled cleanups overlapped.  Only a database error in
\* a handler leaves one without.
AbandonedWatched ==
  "db" \notin mishaps /\ Abandoned /\ dict # None =>
    Unused /\ \E t \in Conns : task[t] = "sleep" /\ t \notin touched

\* "cleanup after idle" (config.py:45): a session that nobody connects to again is
\* removed, unless the database failed a handler.
IdleRemoved == Abandoned ~> (dict = None \/ ~ Abandoned \/ "db" \in mishaps)
=============================================================================
