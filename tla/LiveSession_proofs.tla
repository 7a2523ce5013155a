-------------------------- MODULE LiveSession_proofs --------------------------
(***************************************************************************)
(* The safety properties of LiveSession, for any number of connections of  *)
(* a session_key and any limit of concurrent live checks.                  *)
(***************************************************************************)
EXTENDS LiveSession, TLAPS

\* The states of a handler from the moment its upstream is open until it has cleared it.
Opened == {"ready", "live", "ending", "flush", "wipe"}

\* An object has an upstream only while a handler that will clear it is in its live part,
\* and a connection has no cleanup task before it ends.
ObjectInv ==
  /\ \A o \in Conns : genai[o] # None => \E c \in Conns : pc[c] \in Opened /\ obj[c] = o
  /\ \A c \in Conns : pc[c] # "closed" => task[c] = "none"
  /\ \A t \in Conns : task[t] = "none" => t \notin touched

\* Only a database error leaves an object connected that nobody uses.
ConnectedInv ==
  "db" \notin mishaps =>
    \A o \in Conns : connected[o] => \E c \in Conns : pc[c] \in Inside /\ obj[c] = o

\* Without an overlap one handler is served at a time and the upstream of its session is the
\* one it opened; no cleanup task finds an upstream to close.
SoleInv ==
  "overlap" \notin mishaps =>
    /\ \A c, d \in Conns : pc[c] \in Inside /\ pc[d] \in Inside => c = d
    /\ OwnSession
    /\ \A c \in Conns : pc[c] \in {"ready", "live"} => genai[obj[c]] = c
    /\ \A c \in Conns : pc[c] = "live" => heard[c] = c
    /\ \A t \in Conns : task[t] # "closing"

\* What the counters of a session hold is the usage of the connection being served, until
\* its row is written.
MeterInv ==
  mishaps = {} =>
    /\ \A o \in Conns : kid[o] \/ meter[o] # {} => \E c \in Conns : pc[c] \in Opened /\ obj[c] = o
    /\ \A c \in Conns : pc[c] \in Opened \ {"wipe"} => meter[obj[c]] = {c} \cap spent
    /\ \A c \in Conns : pc[c] \in {"ready", "live", "flush"} => kid[obj[c]]
    /\ \A c \in Conns : pc[c] = "ending" /\ c \in spent => kid[obj[c]]
    /\ \A u \in spent : pc[u] \in {"live", "ending", "flush", "wipe", "closed"}
    /\ \A u \in Conns : bills[u] = IF u \in spent /\ pc[u] \in {"wipe", "closed"} THEN 1 ELSE 0

SInv == TypeOK /\ ObjectInv /\ ConnectedInv /\ AbandonedWatched /\ SoleInv /\ MeterInv
-----------------------------------------------------------------------------
(* The handler of a connection. *)

LEMMA ConnectSInv == ASSUME SInv, NEW c \in Conns, Connect(c) PROVE SInv'
  <1> USE DEF SInv, TypeOK, Connect, Cancelled, Touch
  <1>1. TypeOK'
    BY ConstantsAssumption DEF Inside
  <1>2. ObjectInv'
    BY DEF ObjectInv, Opened
  <1>3. ConnectedInv'
    BY DEF ConnectedInv, Inside
  <1>4. AbandonedWatched'
    BY DEF AbandonedWatched, Abandoned, Unused, Inside
  <1>5. SoleInv'
    <2> SUFFICES ASSUME "overlap" \notin mishaps'
                 PROVE  SoleInv'
      BY DEF SoleInv
    <2>1. Abandoned /\ "overlap" \notin mishaps
      OBVIOUS
    <2>2. \A d \in Conns \ {c} : pc'[d] = pc[d] /\ obj'[d] = obj[d] /\ pc'[d] \notin Inside
      BY <2>1 DEF Abandoned
    <2>3. /\ obj'[c] \in Conns /\ dict' = obj'[c] /\ connected'[obj'[c]]
          /\ pc'[c] \notin {"ready", "live"}
      BY ConstantsAssumption
    <2>4. \A t \in Conns : task'[t] # "closing"
      BY <2>1 DEF SoleInv
    <2>5. QED
      BY <2>2, <2>3, <2>4 DEF SoleInv, OwnSession, Inside
  <1>6. MeterInv'
    BY DEF MeterInv, Opened
  <1>7. QED
    BY <1>1, <1>2, <1>3, <1>4, <1>5, <1>6

LEMMA CheckModelSInv == ASSUME SInv, NEW c \in Conns, CheckModel(c) PROVE SInv'
  <1> USE DEF SInv, TypeOK, CheckModel, Goto, object, tasks
  <1>1. TypeOK'
    BY DEF Inside
  <1>2. ObjectInv'
    BY DEF ObjectInv, Opened
  <1>3. ConnectedInv'
    BY DEF ConnectedInv, Inside
  <1>4. AbandonedWatched'
    BY DEF AbandonedWatched, Abandoned, Unused, Inside
  <1>5. SoleInv'
    BY DEF SoleInv, OwnSession, Inside
  <1>6. MeterInv'
    BY DEF MeterInv, Opened
  <1>7. QED
    BY <1>1, <1>2, <1>3, <1>4, <1>5, <1>6

LEMMA RejectSInv == ASSUME SInv, NEW c \in Conns, RejectSchedules(c) PROVE SInv'
  <1> USE DEF SInv, TypeOK, RejectSchedules, Goto, Schedule, history
  <1>1. TypeOK'
    BY DEF Inside
  <1>2. ObjectInv'
    BY DEF ObjectInv, Opened
  <1>3. ConnectedInv'
    BY DEF ConnectedInv, Inside
  <1>4. AbandonedWatched'
    <2> SUFFICES ASSUME "db" \notin mishaps', Abandoned', dict' # None
                 PROVE  Unused' /\ \E t \in Conns : task'[t] = "sleep" /\ t \notin touched'
      BY DEF AbandonedWatched
    <2>1. \A d \in Conns \ {c} : pc[d] \notin Inside
      BY DEF Abandoned
    <2>2. ~ connected'[dict']
      BY <2>1 DEF ConnectedInv
    <2>3. task'[c] = "sleep" /\ c \notin touched'
      BY DEF ObjectInv
    <2>4. QED
      BY <2>2, <2>3 DEF Unused
  <1>5. SoleInv'
    BY DEF SoleInv, OwnSession, Inside
  <1>6. MeterInv'
    BY DEF MeterInv, Opened
  <1>7. QED
    BY <1>1, <1>2, <1>3, <1>4, <1>5, <1>6

LEMMA EnterSemSInv == ASSUME SInv, NEW c \in Conns, EnterSem(c) PROVE SInv'
  <1> USE DEF SInv, TypeOK, EnterSem, Goto, object, tasks, history
  <1>1. TypeOK'
    BY DEF Inside
  <1>2. ObjectInv'
    BY DEF ObjectInv, Opened
  <1>3. ConnectedInv'
    BY DEF ConnectedInv, Inside
  <1>4. AbandonedWatched'
    BY DEF AbandonedWatched, Abandoned, Unused, Inside
  <1>5. SoleInv'
    BY DEF SoleInv, OwnSession, Inside
  <1>6. MeterInv'
    BY DEF MeterInv, Opened
  <1>7. QED
    BY <1>1, <1>2, <1>3, <1>4, <1>5, <1>6

LEMMA OpenSInv == ASSUME SInv, NEW c \in Conns, Open(c) PROVE SInv'
  <1> USE DEF SInv, TypeOK, Open, Goto, tasks, history
  <1>1. TypeOK'
    BY DEF Inside
  <1>2. ObjectInv'
    BY DEF ObjectInv, Opened
  <1>3. ConnectedInv'
    BY DEF ConnectedInv, Inside
  <1>4. AbandonedWatched'
    BY DEF AbandonedWatched, Abandoned, Unused, Inside
  <1>5. SoleInv'
    BY DEF SoleInv, OwnSession, Inside
  <1>6. MeterInv'
    <2> SUFFICES ASSUME mishaps' = {}
                 PROVE  MeterInv'
      BY DEF MeterInv
    <2>1. mishaps = {} /\ \A d \in Conns \ {c} : pc[d] \notin Inside
      BY DEF SoleInv, Inside
    <2>2. \A d \in Conns \ {c} : pc'[d] = pc[d] /\ pc'[d] \notin Opened
      BY <2>1 DEF Opened, Inside
    <2>3. c \notin spent /\ obj[c] \in Conns /\ ~ kid[obj[c]]
      BY <2>1 DEF MeterInv, Opened, Inside
    <2>4. \A o \in Conns \ {obj[c]} : ~ kid'[o] /\ meter'[o] = {}
      BY <2>1, <2>2 DEF MeterInv, Opened
    <2>5. kid'[obj[c]] /\ meter'[obj[c]] = {} /\ pc'[c] = "ready"
      BY <2>3
    <2>6. QED
      BY <2>1, <2>2, <2>3, <2>4, <2>5 DEF MeterInv, Opened
  <1>7. QED
    BY <1>1, <1>2, <1>3, <1>4, <1>5, <1>6

LEMMA NoUpstreamSInv == ASSUME SInv, NEW c \in Conns, NoUpstream(c) PROVE SInv'
  <1> USE DEF SInv, TypeOK, NoUpstream, Goto, object, tasks, history
  <1>1. TypeOK'
    BY DEF Inside
  <1>2. ObjectInv'
    BY DEF ObjectInv, Opened
  <1>3. ConnectedInv'
    BY DEF ConnectedInv, Inside
  <1>4. AbandonedWatched'
    BY DEF AbandonedWatched, Abandoned, Unused, Inside
  <1>5. SoleInv'
    BY DEF SoleInv, OwnSession, Inside
  <1>6. MeterInv'
    <2> SUFFICES ASSUME mishaps' = {}
                 PROVE  MeterInv'
      BY DEF MeterInv
    <2>1. mishaps = {} /\ \A d \in Conns \ {c} : pc[d] \notin Inside
      BY DEF SoleInv, Inside
    <2>2. \A d \in Conns \ {c} : pc'[d] = pc[d] /\ pc'[d] \notin Opened
      BY <2>1 DEF Opened, Inside
    <2>3. \A o \in Conns : ~ kid[o] /\ meter[o] = {}
      BY <2>1, <2>2 DEF MeterInv, Opened
    <2>4. c \notin spent /\ obj[c] \in Conns /\ pc'[c] = "ending"
      BY <2>1 DEF MeterInv
    <2>5. QED
      BY <2>1, <2>2, <2>3, <2>4 DEF MeterInv, Opened
  <1>7. QED
    BY <1>1, <1>2, <1>3, <1>4, <1>5, <1>6

LEMMA ListenSInv == ASSUME SInv, NEW c \in Conns, Listen(c) PROVE SInv'
  <1> USE DEF SInv, TypeOK, Listen, Goto, object, tasks, history
  <1>1. TypeOK'
    BY DEF Inside
  <1>2. ObjectInv'
    BY DEF ObjectInv, Opened
  <1>3. ConnectedInv'
    BY DEF ConnectedInv, Inside
  <1>4. AbandonedWatched'
    BY DEF AbandonedWatched, Abandoned, Unused, Inside
  <1>5. SoleInv'
    BY DEF SoleInv, OwnSession, Inside
  <1>6. MeterInv'
    BY DEF MeterInv, Opened
  <1>7. QED
    BY <1>1, <1>2, <1>3, <1>4, <1>5, <1>6

LEMMA MessageSInv == ASSUME SInv, NEW c \in Conns, Message(c) PROVE SInv'
  <1> USE DEF SInv, TypeOK, Message, Touch, object, history
  <1>1. TypeOK'
    BY DEF Inside
  <1>2. ObjectInv'
    BY DEF ObjectInv, Opened
  <1>3. ConnectedInv'
    BY DEF ConnectedInv, Inside
  <1>4. AbandonedWatched'
    BY DEF AbandonedWatched, Abandoned, Unused, Inside
  <1>5. SoleInv'
    BY DEF SoleInv, OwnSession, Inside
  <1>6. MeterInv'
    BY DEF MeterInv, Opened
  <1>7. QED
    BY <1>1, <1>2, <1>3, <1>4, <1>5, <1>6

LEMMA UsageSInv == ASSUME SInv, NEW c \in Conns, Usage(c) PROVE SInv'
  <1> USE DEF SInv, TypeOK, Usage, tasks
  <1>1. TypeOK'
    BY DEF Inside
  <1>2. ObjectInv'
    BY DEF ObjectInv, Opened
  <1>3. ConnectedInv'
    BY DEF ConnectedInv, Inside
  <1>4. AbandonedWatched'
    BY DEF AbandonedWatched, Abandoned, Unused, Inside
  <1>5. SoleInv'
    BY DEF SoleInv, OwnSession, Inside
  <1>6. MeterInv'
    <2> SUFFICES ASSUME mishaps' = {}
                 PROVE  MeterInv'
      BY DEF MeterInv
    <2>1. mishaps = {} /\ \A d \in Conns \ {c} : pc[d] \notin Inside
      BY DEF SoleInv, Inside
    <2>2. \A d \in Conns \ {c} : pc'[d] = pc[d] /\ pc'[d] \notin Opened
      BY <2>1 DEF Opened, Inside
    <2>3. heard[c] = c /\ kid[obj[c]] /\ pc[c] = "live" /\ obj[c] \in Conns
      BY <2>1 DEF MeterInv, SoleInv
    <2>4. meter'[obj[c]] = {c} /\ spent' = spent \cup {c}
      BY <2>1, <2>3 DEF MeterInv, Opened
    <2>5. \A o \in Conns \ {obj[c]} : meter'[o] = meter[o]
      BY <2>3
    <2>6. QED
      BY <2>1, <2>2, <2>3, <2>4, <2>5 DEF MeterInv, Opened
  <1>7. QED
    BY <1>1, <1>2, <1>3, <1>4, <1>5, <1>6

LEMMA HangUpSInv == ASSUME SInv, NEW c \in Conns, HangUp(c) PROVE SInv'
  <1> USE DEF SInv, TypeOK, HangUp, Goto, object, tasks, history
  <1>1. TypeOK'
    BY DEF Inside
  <1>2. ObjectInv'
    BY DEF ObjectInv, Opened
  <1>3. ConnectedInv'
    BY DEF ConnectedInv, Inside
  <1>4. AbandonedWatched'
    BY DEF AbandonedWatched, Abandoned, Unused, Inside
  <1>5. SoleInv'
    BY DEF SoleInv, OwnSession, Inside
  <1>6. MeterInv'
    BY DEF MeterInv, Opened
  <1>7. QED
    BY <1>1, <1>2, <1>3, <1>4, <1>5, <1>6

LEMMA BeginFlushSInv == ASSUME SInv, NEW c \in Conns, BeginFlush(c) PROVE SInv'
  <1> USE DEF SInv, TypeOK, BeginFlush, Goto, object, tasks, history
  <1>1. TypeOK'
    BY DEF Inside
  <1>2. ObjectInv'
    BY DEF ObjectInv, Opened
  <1>3. ConnectedInv'
    BY DEF ConnectedInv, Inside
  <1>4. AbandonedWatched'
    BY DEF AbandonedWatched, Abandoned, Unused, Inside
  <1>5. SoleInv'
    BY DEF SoleInv, OwnSession, Inside
  <1>6. MeterInv'
    BY DEF MeterInv, Opened
  <1>7. QED
    BY <1>1, <1>2, <1>3, <1>4, <1>5, <1>6

LEMMA FlushSInv == ASSUME SInv, NEW c \in Conns, Flush(c) PROVE SInv'
  <1> USE DEF SInv, TypeOK, Flush, Goto, object, tasks
  <1>1. TypeOK'
    BY DEF Inside
  <1>2. ObjectInv'
    BY DEF ObjectInv, Opened
  <1>3. ConnectedInv'
    BY DEF ConnectedInv, Inside
  <1>4. AbandonedWatched'
    BY DEF AbandonedWatched, Abandoned, Unused, Inside
  <1>5. SoleInv'
    BY DEF SoleInv, OwnSession, Inside
  <1>6. MeterInv'
    <2> SUFFICES ASSUME mishaps' = {}
                 PROVE  MeterInv'
      BY DEF MeterInv
    <2>1. mishaps = {} /\ \A d \in Conns \ {c} : pc[d] \notin Inside
      BY DEF SoleInv, Inside
    <2>2. \A d \in Conns \ {c} : pc'[d] = pc[d] /\ pc'[d] \notin Opened
      BY <2>1 DEF Opened, Inside
    <2>3. /\ kid[obj[c]] /\ meter[obj[c]] = {c} \cap spent /\ bills[c] = 0
          /\ pc[c] = "flush" /\ pc'[c] = "wipe"
      BY <2>1 DEF MeterInv, Opened
    <2>4. \A u \in Conns : bills'[u] = IF u = c /\ c \in spent THEN 1 ELSE bills[u]
      BY <2>1, <2>3
    <2>5. QED
      BY <2>1, <2>2, <2>3, <2>4 DEF MeterInv, Opened
  <1>7. QED
    BY <1>1, <1>2, <1>3, <1>4, <1>5, <1>6

LEMMA WipeSInv == ASSUME SInv, NEW c \in Conns, WipeAll(c) PROVE SInv'
  <1> USE DEF SInv, TypeOK, WipeAll, Goto, Touch, Schedule, Cancelled, history
  <1>1. TypeOK'
    BY DEF Inside
  <1>2. ObjectInv'
    BY DEF ObjectInv, Opened
  <1>3. ConnectedInv'
    BY DEF ConnectedInv, Inside
  <1>4. AbandonedWatched'
    <2> SUFFICES ASSUME "db" \notin mishaps', Abandoned', dict' # None
                 PROVE  Unused' /\ \E t \in Conns : task'[t] = "sleep" /\ t \notin touched'
      BY DEF AbandonedWatched
    <2>1. \A d \in Conns \ {c} : pc[d] \notin Inside
      BY DEF Abandoned
    <2>2. ~ connected'[dict']
      BY <2>1 DEF ConnectedInv
    <2>3. task[c] = "none" /\ c \notin touched
      BY DEF ObjectInv
    <2>4. task'[c] = "sleep" /\ c \notin touched'
      BY <2>3
    <2>5. QED
      BY <2>2, <2>4 DEF Unused
  <1>5. SoleInv'
    BY DEF SoleInv, OwnSession, Inside
  <1>6. MeterInv'
    <2> SUFFICES ASSUME mishaps' = {}
                 PROVE  MeterInv'
      BY DEF MeterInv
    <2>1. mishaps = {} /\ \A d \in Conns \ {c} : pc[d] \notin Inside
      BY DEF SoleInv, Inside
    <2>2. \A d \in Conns \ {c} : pc'[d] = pc[d] /\ pc'[d] \notin Opened
      BY <2>1 DEF Opened, Inside
    <2>3. \A o \in Conns : ~ kid'[o] /\ meter'[o] = {}
      BY <2>1, <2>2 DEF MeterInv, Opened
    <2>4. pc[c] = "wipe" /\ pc'[c] = "closed"
      OBVIOUS
    <2>5. QED
      BY <2>1, <2>2, <2>3, <2>4 DEF MeterInv, Opened
  <1>7. QED
    BY <1>1, <1>2, <1>3, <1>4, <1>5, <1>6
-----------------------------------------------------------------------------
(* The cleanup tasks. *)

LEMMA WakeSInv == ASSUME SInv, NEW t \in Conns, WakeChecks(t) PROVE SInv'
  <1> USE DEF SInv, TypeOK, WakeChecks, TaskEnds, Unused, object, history
  <1>1. TypeOK'
    BY DEF Inside
  <1>2. ObjectInv'
    BY DEF ObjectInv, Opened
  <1>3. ConnectedInv'
    BY DEF ConnectedInv, Inside
  <1>4. AbandonedWatched'
    <2> SUFFICES ASSUME "db" \notin mishaps', Abandoned', dict' # None
                 PROVE  Unused' /\ \E u \in Conns : task'[u] = "sleep" /\ u \notin touched'
      BY DEF AbandonedWatched
    <2>1. Abandoned /\ dict # None
      BY DEF Abandoned
    <2>2. PICK u \in Conns : Unused /\ task[u] = "sleep" /\ u \notin touched
      BY <2>1 DEF AbandonedWatched
    <2>3. genai[dict] = None
      BY <2>1 DEF ObjectInv, Abandoned, Opened, Inside
    <2>4. t \in touched /\ TaskEnds(t) /\ dict' = dict
      BY <2>2, <2>3 DEF Unused
    <2>5. QED
      BY <2>2, <2>4 DEF Unused
  <1>5. SoleInv'
    <2> SUFFICES ASSUME "overlap" \notin mishaps
                 PROVE  SoleInv'
      BY DEF SoleInv
    <2>1. genai[dict] # None /\ Unused => FALSE
      <3> SUFFICES ASSUME genai[dict] # None, Unused PROVE FALSE
        OBVIOUS
      <3>1. PICK c \in Conns : pc[c] \in Opened /\ obj[c] = dict
        BY DEF ObjectInv, Unused
      <3>2. QED
        BY <3>1 DEF SoleInv, OwnSession, Opened, Inside, Unused
    <2>2. TaskEnds(t)
      BY <2>1
    <2>3. \A c \in Conns : pc[c] \in Inside => dict' = dict
      BY DEF SoleInv, OwnSession, Unused
    <2>4. QED
      BY <2>2, <2>3 DEF SoleInv, OwnSession
  <1>6. MeterInv'
    BY DEF MeterInv, Opened
  <1>7. QED
    BY <1>1, <1>2, <1>3, <1>4, <1>5, <1>6

LEMMA ClosedSInv == ASSUME SInv, NEW t \in Conns, Closed(t) PROVE SInv'
  <1> USE DEF SInv, TypeOK, Closed, TaskEnds, history
  <1>1. TypeOK'
    BY DEF Inside
  <1>2. ObjectInv'
    BY DEF ObjectInv, Opened
  <1>3. ConnectedInv'
    BY DEF ConnectedInv, Inside
  <1>4. AbandonedWatched'
    BY DEF AbandonedWatched, Abandoned, Unused, Inside
  <1>5. SoleInv'
    BY DEF SoleInv, OwnSession, Inside
  <1>6. MeterInv'
    BY DEF MeterInv, Opened
  <1>7. QED
    BY <1>1, <1>2, <1>3, <1>4, <1>5, <1>6

LEMMA UnwindSInv == ASSUME SInv, NEW t \in Conns, Unwind(t) PROVE SInv'
  <1> USE DEF SInv, TypeOK, Unwind, TaskEnds, object, history
  <1>1. TypeOK'
    BY DEF Inside
  <1>2. ObjectInv'
    BY DEF ObjectInv, Opened
  <1>3. ConnectedInv'
    BY DEF ConnectedInv, Inside
  <1>4. AbandonedWatched'
    BY DEF AbandonedWatched, Abandoned, Unused, Inside
  <1>5. SoleInv'
    BY DEF SoleInv, OwnSession, Inside
  <1>6. MeterInv'
    BY DEF MeterInv, Opened
  <1>7. QED
    BY <1>1, <1>2, <1>3, <1>4, <1>5, <1>6
-----------------------------------------------------------------------------
(* The invariant, and what it gives. *)

LEMMA InitSInv == Init => SInv
  <1> SUFFICES ASSUME Init PROVE SInv
    OBVIOUS
  <1>1. TypeOK
    BY ConstantsAssumption DEF Init, TypeOK, Inside
  <1>2. ObjectInv /\ ConnectedInv /\ AbandonedWatched
    BY DEF Init, ObjectInv, ConnectedInv, AbandonedWatched
  <1>3. SoleInv
    BY DEF Init, SoleInv, OwnSession, Inside
  <1>4. MeterInv
    BY DEF Init, MeterInv, Opened
  <1>5. QED
    BY <1>1, <1>2, <1>3, <1>4 DEF SInv

LEMMA NextSInv == SInv /\ [Next]_vars => SInv'
  <1> SUFFICES ASSUME SInv, [Next]_vars PROVE SInv'
    OBVIOUS
  <1>1. CASE UNCHANGED vars
    <2> USE <1>1 DEF vars, object, tasks, history
    <2>1. TypeOK' /\ ObjectInv' /\ ConnectedInv'
      BY DEF SInv, TypeOK, ObjectInv, ConnectedInv
    <2>2. AbandonedWatched' /\ SoleInv' /\ MeterInv'
      BY DEF SInv, AbandonedWatched, Abandoned, Unused, SoleInv, OwnSession, MeterInv
    <2>3. QED
      BY <2>1, <2>2 DEF SInv
  <1>2. ASSUME NEW c \in Conns, Accept(c) \/ Message(c) \/ Usage(c) \/ HangUp(c) PROVE SInv'
    BY <1>2, ConnectSInv, MessageSInv, UsageSInv, HangUpSInv DEF Accept
  <1>3. ASSUME NEW c \in Conns, Handler(c) PROVE SInv'
    BY <1>3, CheckModelSInv, RejectSInv, EnterSemSInv, OpenSInv, NoUpstreamSInv, ListenSInv,
       BeginFlushSInv, FlushSInv, WipeSInv DEF Handler, Reject, Wipe
  <1>4. ASSUME NEW t \in Conns, Cleanup(t) PROVE SInv'
    BY <1>4, WakeSInv, ClosedSInv, UnwindSInv DEF Cleanup, Wake
  <1>5. QED
    BY <1>1, <1>2, <1>3, <1>4 DEF Next

LEMMA AlwaysSInv == Spec => []SInv
  BY InitSInv, NextSInv, PTL DEF Spec

\* The variables keep their types: an upstream is heard exactly while the connection is live.
THEOREM LiveTypeCorrect == Spec => []TypeOK
  <1>1. SInv => TypeOK
    BY DEF SInv
  <1>2. QED
    BY <1>1, AlwaysSInv, PTL

\* As long as no two connections overlapped, the one being served keeps its session, its
\* workbook and its own upstream, whatever cleanups of earlier connections are under way.
THEOREM ActiveIsKept == Spec => []ActiveKept
  <1>1. SInv => ActiveKept
    BY DEF SInv, SoleInv, ActiveKept, OwnUpstream
  <1>2. QED
    BY <1>1, AlwaysSInv, PTL

\* The usage of an upstream is written once, by the finally clause of its connection, and
\* never by a later connection that finds the same session.
THEOREM UsageIsBilledOnce == Spec => []BilledOnce
  <1>1. SInv => BilledOnce
    BY DEF SInv, MeterInv, BilledOnce
  <1>2. QED
    BY <1>1, AlwaysSInv, PTL

\* Overlapping connections included, a session that nobody is connected to has a cleanup
\* task that will find it idle.
THEOREM AbandonedIsWatched == Spec => []AbandonedWatched
  <1>1. SInv => AbandonedWatched
    BY DEF SInv
  <1>2. QED
    BY <1>1, AlwaysSInv, PTL
=============================================================================
