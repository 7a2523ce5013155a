--------------------------- MODULE Requests_proofs ---------------------------
(***************************************************************************)
(* What the server keeps for a request or a session of its own: accounts,  *)
(* one-time tokens, temporary check sessions and the comparison of two     *)
(* workbooks, for any number of requests, devices, tokens, processes,      *)
(* plates and rows, and any time.                                          *)
(***************************************************************************)
EXTENDS MCRequests, FiniteSetTheorems, SequenceTheorems, WellFoundedInduction, TLAPS

(***************************************************************************)
(* Accounts.  No interleaving of the requests of a user and of the admins  *)
(* makes time that was not paid for, and one in which no request commits   *)
(* on a stale row does not take away time that was.  The refresh tokens of *)
(* such an account are sound, and the usage that counts against its budget *)
(* stays counted.                                                          *)
(***************************************************************************)
(* The time up to which a row lets its user in. *)
Cover(r) == End(r) + (IF r.early = None THEN 0 ELSE Cycle)

Worth == Cycle * (1 + paid)

RowOK(r) == r \in [active : {r.active}, started : Int, early : Nat \cup {None},
                   device : {r.device}]

Shaped(r) == r \in [pc : {r.pc}, kind : {r.kind}, device : {r.device}, token : {r.token},
                    at : {r.at}, seen : {r.seen}, kill : {r.kill}]

(* What a row gives from now on has not been given before, and is paid. *)
Covered(r) == used + Cover(r) - now <= Worth

Counters == /\ now \in Nat /\ paid \in Nat /\ used \in Nat
            /\ until \in Int /\ raced \in BOOLEAN /\ disabled \in BOOLEAN
            /\ used <= now
            /\ used <= Worth

(* A request may commit the row it has seen, whatever happened since. *)
RequestOK(r) == /\ Shaped(r)
                /\ RowOK(r.seen) /\ Covered(r.seen)
                /\ r.at \in Nat /\ r.at <= now

(* A late renewal that has seen no stored one leaves one that was stored   *)
(* since; that one is paid for and has not been used.                      *)
LateOK(r) == r.pc = "late" /\ r.seen.early = None /\ row.early # None =>
               used + Cycle + r.at - now <= Worth

(* Only a cycle that is over is being switched off. *)
OverOK(r) == r.pc \in {"revoke", "switch"} /\ r.kind # "disable" => End(r.seen) <= now

RowInv == RowOK(row) /\ Covered(row)

RequestInv == /\ req = [q \in Requests |-> req[q]]
              /\ \A q \in Requests : RequestOK(req[q]) /\ LateOK(req[q]) /\ OverOK(req[q])

PaidInv == ~raced => until = Cover(row) /\ PaidKept

IInv == Counters /\ RowInv /\ RequestInv /\ PaidInv

-----------------------------------------------------------------------------
LEMMA CoverType == ASSUME NEW r, RowOK(r)
                   PROVE  /\ End(r) \in Int /\ Cover(r) \in Int
                          /\ End(r) <= Cover(r) /\ Cover(r) <= End(r) + Cycle
                          /\ r.early = None => Cover(r) = End(r)
                          /\ r.early # None => Cover(r) = End(r) + Cycle
  BY AccountsAssumption DEF RowOK, End, Cover

LEMMA WorthType == Counters => Worth \in Nat /\ Cycle \in Nat /\ Cycle <= Worth
  BY AccountsAssumption DEF Counters, Worth

(* A renewal is worth a cycle. *)
LEMMA WorthGrows == Counters /\ paid' = paid + 1 => Worth' = Worth + Cycle
<1> SUFFICES ASSUME Counters, paid' = paid + 1 PROVE Worth' = Worth + Cycle
  OBVIOUS
<1>1. \A c, n \in Int : c * (1 + (n + 1)) = c * (1 + n) + c
  OBVIOUS
<1> QED BY <1>1, AccountsAssumption DEF Counters, Worth

LEMMA FreshOK == Counters => RowOK(Fresh) /\ Covered(Fresh)
<1> SUFFICES ASSUME Counters PROVE RowOK(Fresh) /\ Covered(Fresh)
  OBVIOUS
<1>1. RowOK(Fresh) /\ Cover(Fresh) = Cycle
  BY AccountsAssumption DEF RowOK, Fresh, Cover, End
<1>2. Cycle <= Worth /\ Worth \in Nat /\ Cycle \in Nat
  BY WorthType
<1> QED BY <1>1, <1>2 DEF Covered, Counters

LEMMA IdleOK == Counters => RequestOK(Idle) /\ LateOK(Idle) /\ OverOK(Idle)
  BY FreshOK DEF RequestOK, LateOK, OverOK, Idle, Shaped, Counters

LEMMA InitIInv == Init => IInv
<1> SUFFICES ASSUME Init PROVE IInv
  OBVIOUS
<1>1. Counters
  <2>1. paid = 0 /\ Cycle \in Nat
    BY AccountsAssumption DEF Init
  <2>2. Worth = Cycle
    BY <2>1 DEF Worth
  <2>3. now = 0 /\ used = 0 /\ until = Cycle
    BY DEF Init
  <2>4. raced \in BOOLEAN /\ disabled \in BOOLEAN
    BY DEF Init
  <2> QED BY <2>1, <2>2, <2>3, <2>4 DEF Counters
<1>2. RowOK(row) /\ Cover(row) = Cycle /\ row.active
  BY AccountsAssumption DEF Init, RowOK, Fresh, Cover, End
<1>3. Covered(row)
  BY <1>1, <1>2, WorthType DEF Covered, Counters
<1>4. RequestInv
  BY <1>1, IdleOK DEF Init, RequestInv
<1>5. PaidInv
  BY <1>2 DEF Init, PaidInv, PaidKept
<1> QED BY <1>1, <1>2, <1>3, <1>4, <1>5 DEF IInv, RowInv

-----------------------------------------------------------------------------
(* Time passes. *)
LEMMA TickStep == ASSUME IInv, Tick PROVE IInv'
<1>1. /\ now' = now + 1 /\ UNCHANGED <<row, req, paid, until, raced, disabled>>
      /\ used' = IF row.active /\ now < Cover(row) THEN used + 1 ELSE used
      /\ Worth' = Worth
  <2>1. End(row) + (IF row.early = None THEN 0 ELSE Cycle) = Cover(row)
    BY DEF Cover
  <2> QED BY <2>1 DEF Tick, account, Worth
<1>2. /\ now \in Nat /\ used \in Nat /\ Worth \in Nat /\ Cover(row) \in Int /\ Cycle \in Nat
      /\ used <= now /\ used <= Worth /\ used + Cover(row) - now <= Worth
  BY WorthType, CoverType DEF IInv, Counters, RowInv, Covered
<1>3. used' \in Nat /\ used' - now' <= used - now /\ used' <= Worth
  BY <1>1, <1>2
<1>4. Counters'
  BY <1>1, <1>2, <1>3 DEF IInv, Counters
<1>5. ASSUME NEW r, RowOK(r), Covered(r) PROVE Covered(r)'
  <2>1. Cover(r)' = Cover(r) /\ Cover(r) \in Int
    BY <1>5, CoverType DEF Cover, End
  <2> QED BY <1>1, <1>2, <1>3, <1>5, <2>1 DEF Covered
<1>6. RowInv'
  BY <1>1, <1>5 DEF IInv, RowInv, RowOK
<1>7. RequestInv'
  <2>1. ASSUME NEW q \in Requests PROVE (RequestOK(req[q]) /\ LateOK(req[q]) /\ OverOK(req[q]))'
    <3>1. req'[q] = req[q] /\ RequestOK(req[q]) /\ LateOK(req[q]) /\ OverOK(req[q])
      BY <1>1 DEF IInv, RequestInv
    <3>2. RequestOK(req[q])'
      BY <1>1, <1>2, <1>5, <3>1 DEF RequestOK, RowOK, Shaped
    <3>3. LateOK(req[q])'
      BY <1>1, <1>2, <1>3, <3>1 DEF LateOK, RequestOK
    <3>4. OverOK(req[q])'
      <4>1. End(req[q].seen) \in Int
        BY <3>1, CoverType DEF RequestOK
      <4> QED BY <1>1, <1>2, <3>1, <4>1 DEF OverOK, End
    <3> QED BY <3>2, <3>3, <3>4
  <2> QED BY <1>1, <2>1 DEF IInv, RequestInv
<1>8. PaidInv'
  BY <1>1, <1>2 DEF IInv, PaidInv, PaidKept, Counters, Cover, End
<1> QED BY <1>4, <1>6, <1>7, <1>8 DEF IInv

-----------------------------------------------------------------------------
(* A step of one request: what it has to show of the row it leaves, of its *)
(* own new state n, and of the payment.                                    *)
LEMMA RequestStep ==
  ASSUME IInv, NEW q \in Requests, NEW n,
         req' = [req EXCEPT ![q] = n],
         now' = now, used' = used, paid' \in {paid, paid + 1},
         until' \in Int, raced' \in BOOLEAN, disabled' \in BOOLEAN,
         RowInv', PaidInv',
         row.early = None /\ row'.early # None => paid' = paid + 1,
         Shaped(n), RowOK(n.seen), n.at \in Nat, n.at <= now,
         n.seen \in {req[q].seen, row', Fresh},
         LateOK(n)', OverOK(n)
  PROVE  IInv'
<1>1. /\ paid \in Nat /\ now \in Nat /\ used \in Nat /\ Cycle \in Nat /\ Worth \in Nat
      /\ used <= now /\ used <= Worth
  BY WorthType DEF IInv, Counters
<1>2. /\ paid' = paid => Worth' = Worth
      /\ paid' = paid + 1 => Worth' = Worth + Cycle
  BY WorthGrows DEF IInv, Worth
<1>3. Counters'
  BY <1>1, <1>2 DEF IInv, Counters
<1>4. ASSUME NEW r, RowOK(r), Covered(r) PROVE Covered(r)'
  <2>1. Cover(r)' = Cover(r) /\ Cover(r) \in Int
    BY <1>4, CoverType DEF Cover, End
  <2> QED BY <1>1, <1>2, <1>4, <2>1 DEF Covered
<1>5. ASSUME NEW p \in Requests PROVE (RequestOK(req[p]) /\ LateOK(req[p]) /\ OverOK(req[p]))'
  <2>1. RequestOK(req[p]) /\ LateOK(req[p]) /\ OverOK(req[p])
    BY DEF IInv, RequestInv
  <2>2. CASE p = q
    <3>1. req'[p] = n
      BY <2>2 DEF IInv, RequestInv
    <3>2. Covered(n.seen)'
      <4>1. CASE n.seen = req[q].seen
        BY <1>4, <2>1, <2>2, <4>1 DEF RequestOK
      <4>2. CASE n.seen = row'
        BY <4>2 DEF RowInv
      <4>3. CASE n.seen = Fresh
        <5>1. Covered(Fresh)
          BY FreshOK DEF IInv
        <5> QED BY <1>4, <4>3, <5>1
      <4> QED BY <4>1, <4>2, <4>3
    <3>3. RequestOK(n)'
      BY <3>2 DEF RequestOK, Shaped, RowOK
    <3>4. OverOK(n)'
      BY DEF OverOK, End
    <3>5. LateOK(n)'
      OBVIOUS
    <3> QED BY <3>1, <3>3, <3>4, <3>5 DEF RequestOK, Shaped, RowOK, Covered, LateOK, OverOK, Cover, End
  <2>3. CASE p # q
    <3>1. req'[p] = req[p]
      BY <2>3 DEF IInv, RequestInv
    <3>2. RequestOK(req[p])'
      BY <1>4, <2>1, <3>1 DEF RequestOK, RowOK, Shaped
    <3>3. LateOK(req[p])'
      BY <1>1, <1>2, <2>1, <3>1 DEF LateOK, RequestOK
    <3>4. OverOK(req[p])'
      BY <2>1, <3>1 DEF OverOK, End
    <3> QED BY <3>2, <3>3, <3>4
  <2> QED BY <2>2, <2>3
<1>6. RequestInv'
  BY <1>5 DEF IInv, RequestInv
<1> QED BY <1>3, <1>6 DEF IInv

-----------------------------------------------------------------------------
LEMMA OneRequest == ASSUME IInv, NEW q \in Requests
                 PROVE  RequestOK(req[q]) /\ LateOK(req[q]) /\ OverOK(req[q])
  BY DEF IInv, RequestInv

(* The row and the payment stay, whatever happens to the tokens. *)
LEMMA RowStays == ASSUME IInv, UNCHANGED <<now, row, paid, until, used, disabled, raced>>
                  PROVE  RowInv' /\ PaidInv'
  BY DEF IInv, RowInv, PaidInv, PaidKept, Covered, Cover, End, Worth, RowOK

(* A step that leaves the row: it stops, or goes on to n. *)
LEMMA QuietStep ==
  ASSUME IInv, NEW q \in Requests, NEW n, req' = [req EXCEPT ![q] = n],
         UNCHANGED <<now, row, paid, until, used, disabled, raced>>,
         \/ n = Idle
         \/ /\ Shaped(n) /\ n.seen \in {req[q].seen, row} /\ n.at = req[q].at
            /\ n.pc # "late" /\ OverOK(n)
  PROVE  IInv'
<1>1. RowInv' /\ PaidInv'
  BY RowStays
<1>2. /\ until' \in Int /\ raced' \in BOOLEAN /\ disabled' \in BOOLEAN /\ now \in Nat
      /\ RowOK(row)
  BY DEF IInv, Counters, RowInv
<1>3. CASE n = Idle
  <2>1. LateOK(n)'
    BY <1>3 DEF LateOK, Idle
  <2>2. OverOK(n) /\ Shaped(n) /\ n.at = 0 /\ n.seen = Fresh
    BY <1>3 DEF OverOK, Shaped, Idle
  <2>3. RowOK(n.seen) /\ n.at \in Nat /\ n.at <= now
    BY <1>2, <2>2, FreshOK DEF IInv
  <2> QED BY <1>1, <1>2, <2>1, <2>2, <2>3, RequestStep
<1>4. CASE /\ Shaped(n) /\ n.seen \in {req[q].seen, row} /\ n.at = req[q].at
           /\ n.pc # "late" /\ OverOK(n)
  <2>1. RowOK(n.seen) /\ n.at \in Nat /\ n.at <= now /\ n.seen \in {req[q].seen, row', Fresh}
    BY <1>2, <1>4, OneRequest DEF RequestOK
  <2>2. LateOK(n)'
    BY <1>4 DEF LateOK
  <2> QED BY <1>1, <1>2, <1>4, <2>1, <2>2, RequestStep
<1> QED BY <1>3, <1>4

(* A step that begins a request on the row as it is. *)
LEMMA Begins ==
  ASSUME IInv, NEW q \in Requests, NEW n, req' = [req EXCEPT ![q] = n],
         UNCHANGED <<now, row, paid, until, used, disabled, raced>>,
         Shaped(n), n.seen = row, n.at \in {0, now}, OverOK(n)
  PROVE  IInv'
<1>1. RowInv' /\ PaidInv'
  BY RowStays
<1>2. /\ until' \in Int /\ raced' \in BOOLEAN /\ disabled' \in BOOLEAN /\ now \in Nat
      /\ RowOK(row)
  BY DEF IInv, Counters, RowInv
<1>3. LateOK(n)'
  BY DEF LateOK
<1>4. RowOK(n.seen) /\ n.at \in Nat /\ n.at <= now /\ n.seen = row'
  BY <1>2
<1> QED BY <1>1, <1>2, <1>3, <1>4, RequestStep

LEMMA BeginStep == ASSUME IInv, NEW q \in Requests, Begin(q) PROVE IInv'
<1>1. UNCHANGED <<now, row, paid, until, used, disabled, raced>>
  BY DEF Begin, account, history
<1>2. ASSUME NEW k \in Entering, NEW d \in Devices, NEW t,
             Become(q, [Idle EXCEPT !.pc = "promote", !.kind = k, !.device = d, !.token = t,
                                    !.seen = row])
      PROVE  IInv'
  <2> DEFINE n == [Idle EXCEPT !.pc = "promote", !.kind = k, !.device = d, !.token = t, !.seen = row]
  <2>1. Shaped(n) /\ n.seen = row /\ n.at = 0 /\ OverOK(n)
    BY DEF Idle, Shaped, OverOK
  <2>2. req' = [req EXCEPT ![q] = n]
    BY <1>2 DEF Become
  <2> HIDE DEF n
  <2> QED BY <1>1, <2>1, <2>2, Begins
<1>3. ASSUME NEW k \in Managing, NEW pc \in {"early", "late", "revoke", "write"},
             pc = "revoke" => k = "disable",
             Become(q, [Idle EXCEPT !.pc = pc, !.kind = k, !.at = now, !.seen = row])
      PROVE  IInv'
  <2> DEFINE n == [Idle EXCEPT !.pc = pc, !.kind = k, !.at = now, !.seen = row]
  <2>1. Shaped(n) /\ n.seen = row /\ n.at = now /\ OverOK(n)
    BY <1>3 DEF Idle, Shaped, OverOK
  <2>2. req' = [req EXCEPT ![q] = n]
    BY <1>3 DEF Become
  <2> HIDE DEF n
  <2> QED BY <1>1, <2>1, <2>2, Begins
<1>4. ASSUME Become(q, [Idle EXCEPT !.pc = "write", !.kind = "use", !.at = now, !.seen = row])
      PROVE  IInv'
  <2> DEFINE n == [Idle EXCEPT !.pc = "write", !.kind = "use", !.at = now, !.seen = row]
  <2>1. Shaped(n) /\ n.seen = row /\ n.at = now /\ OverOK(n)
    BY DEF Idle, Shaped, OverOK
  <2>2. req' = [req EXCEPT ![q] = n]
    BY <1>4 DEF Become
  <2> HIDE DEF n
  <2> QED BY <1>1, <2>1, <2>2, Begins
<1>5. CASE \E k \in Entering, d \in Devices :
             \E t \in (IF k = "refresh" THEN {u.id : u \in tokens} ELSE {0}) :
               Become(q, [Idle EXCEPT !.pc = "promote", !.kind = k, !.device = d, !.token = t,
                                      !.seen = row])
  BY <1>2, <1>5
<1>6. CASE \E k \in Managing :
             Become(q, [Idle EXCEPT !.pc = CASE k = "renew" -> IF now < End(row) THEN "early" ELSE "late"
                                             [] k = "disable" -> "revoke"
                                             [] OTHER -> "write",
                                    !.kind = k, !.at = now, !.seen = row])
  <2>1. PICK k \in Managing :
          Become(q, [Idle EXCEPT !.pc = CASE k = "renew" -> IF now < End(row) THEN "early" ELSE "late"
                                          [] k = "disable" -> "revoke"
                                          [] OTHER -> "write",
                                 !.kind = k, !.at = now, !.seen = row])
    BY <1>6
  <2> DEFINE pc == CASE k = "renew" -> IF now < End(row) THEN "early" ELSE "late"
                     [] k = "disable" -> "revoke"
                     [] OTHER -> "write"
  <2>2. pc \in {"early", "late", "revoke", "write"} /\ (pc = "revoke" => k = "disable")
    OBVIOUS
  <2>3. Become(q, [Idle EXCEPT !.pc = pc, !.kind = k, !.at = now, !.seen = row])
    BY <2>1
  <2> HIDE DEF pc
  <2> QED BY <1>3, <2>2, <2>3
<1> QED BY <1>4, <1>5, <1>6 DEF Begin

-----------------------------------------------------------------------------
(* The steps that leave the row. *)
LEMMA AdmitStep ==
  ASSUME IInv, NEW q \in Requests, NEW r, Shaped(r), r.seen = row, r.at = req[q].at,
         UNCHANGED <<now, row, paid, until, used, disabled, raced>>, Admit(q, r)
  PROVE  IInv'
<1>1. PICK pc \in {"bind", "replace", "token", "idle"} :
        Become(q, [r EXCEPT !.pc = pc]) \/ Stop(q)
  BY DEF Admit
<1>2. CASE Stop(q)
  BY <1>2, QuietStep DEF Stop, Become
<1>3. CASE Become(q, [r EXCEPT !.pc = pc])
  <2> DEFINE n == [r EXCEPT !.pc = pc]
  <2>1. /\ Shaped(n) /\ n.seen = row /\ n.at = req[q].at /\ n.pc # "late" /\ OverOK(n)
    BY DEF Shaped, OverOK
  <2>2. req' = [req EXCEPT ![q] = n]
    BY <1>3 DEF Become
  <2> HIDE DEF n
  <2> QED BY <2>1, <2>2, QuietStep
<1> QED BY <1>1, <1>2, <1>3

(* Goto to a place at which nothing more is asked of the request. *)
LEMMA GotoStep ==
  ASSUME IInv, NEW q \in Requests, NEW pc, pc \notin {"late", "revoke", "switch"}, Goto(q, pc),
         UNCHANGED <<now, row, paid, until, used, disabled, raced>>
  PROVE  IInv'
<1> DEFINE n == [req[q] EXCEPT !.pc = pc]
<1>1. Shaped(n) /\ n.seen = req[q].seen /\ n.at = req[q].at /\ n.pc # "late" /\ OverOK(n)
  BY OneRequest DEF RequestOK, Shaped, OverOK
<1>2. req' = [req EXCEPT ![q] = n]
  BY DEF Goto, Become
<1> HIDE DEF n
<1> QED BY <1>1, <1>2, QuietStep

LEMMA StopStep ==
  ASSUME IInv, NEW q \in Requests, Stop(q),
         UNCHANGED <<now, row, paid, until, used, disabled, raced>>
  PROVE  IInv'
  BY QuietStep DEF Stop, Become

LEMMA ExpireStep == ASSUME IInv, NEW q \in Requests, Expire(q) PROVE IInv'
<1> DEFINE r == [req[q] EXCEPT !.seen = row]
<1>1. UNCHANGED <<now, row, paid, until, used, disabled, raced>>
  BY DEF Expire, account, history
<1>2. Shaped(r) /\ r.seen = row /\ r.at = req[q].at
  BY OneRequest DEF RequestOK, Shaped
<1>3. CASE now >= End(row) /\ row.active
  <2> DEFINE n == [r EXCEPT !.pc = "revoke"]
  <2>1. Shaped(n) /\ n.seen = row /\ n.at = req[q].at /\ n.pc # "late"
    BY <1>2 DEF Shaped
  <2>2. End(row) \in Int /\ now \in Nat
    BY CoverType DEF IInv, RowInv, Counters
  <2>3. OverOK(n)
    BY <1>3, <2>1, <2>2 DEF OverOK
  <2>4. req' = [req EXCEPT ![q] = n]
    BY <1>3 DEF Expire, Become
  <2> HIDE DEF n
  <2> QED BY <1>1, <2>1, <2>3, <2>4, QuietStep
<1>4. CASE ~(now >= End(row) /\ row.active)
  <2>1. Admit(q, r)
    BY <1>4 DEF Expire
  <2> HIDE DEF r
  <2> QED BY <1>1, <1>2, <2>1, AdmitStep
<1> QED BY <1>3, <1>4

LEMMA RevokeStep == ASSUME IInv, NEW q \in Requests, Revoke(q) PROVE IInv'
<1> DEFINE n == [req[q] EXCEPT !.pc = "switch", !.kill = {t \in tokens : t.live}]
<1>1. Shaped(n) /\ n.seen = req[q].seen /\ n.at = req[q].at /\ n.pc # "late"
  BY OneRequest DEF RequestOK, Shaped
<1>2. OverOK(n)
  BY OneRequest DEF RequestOK, Shaped, OverOK, Revoke
<1>3. req' = [req EXCEPT ![q] = n] /\ UNCHANGED <<now, row, paid, until, used, disabled, raced>>
  BY DEF Revoke, Become, account, history
<1> HIDE DEF n
<1> QED BY <1>1, <1>2, <1>3, QuietStep

LEMMA RereadStep == ASSUME IInv, NEW q \in Requests, Reread(q) PROVE IInv'
<1> DEFINE r == [req[q] EXCEPT !.seen = row]
<1>1. Shaped(r) /\ r.seen = row /\ r.at = req[q].at
  BY OneRequest DEF RequestOK, Shaped
<1>2. Admit(q, r) /\ UNCHANGED <<now, row, paid, until, used, disabled, raced>>
  BY DEF Reread, account, history
<1> HIDE DEF r
<1> QED BY <1>1, <1>2, AdmitStep

-----------------------------------------------------------------------------
(* The steps that write the row. *)
LEMMA Written == ASSUME NEW a, NEW b, NEW c PROVE Write(<<a, b>>, c) = IF c = a THEN b ELSE c
  BY DEF Write

(* A request may be out of date, unless raced is set. *)
LEMMA RacedType == ASSUME IInv, NEW stale \in BOOLEAN, Relies(stale)
                   PROVE  raced' \in BOOLEAN /\ (~raced' => ~raced /\ ~stale)
  BY DEF Relies, IInv, Counters

LEMMA WriteStep ==
  ASSUME IInv, NEW q \in Requests, NEW n, req' = [req EXCEPT ![q] = n],
         now' = now, used' = used, paid' \in {paid, paid + 1},
         until' \in Int, raced' \in BOOLEAN, disabled' \in BOOLEAN,
         RowInv', PaidInv',
         row.early = None /\ row'.early # None => paid' = paid + 1,
         \/ n = Idle
         \/ /\ Shaped(n) /\ n.seen \in {req[q].seen, row'} /\ n.at = req[q].at
            /\ n.pc \notin {"late", "revoke", "switch"}
  PROVE  IInv'
<1>1. now \in Nat /\ RowOK(row')
  BY DEF IInv, Counters, RowInv, RowOK
<1>2. CASE n = Idle
  <2>1. LateOK(n)'
    BY <1>2 DEF LateOK, Idle
  <2>2. OverOK(n) /\ Shaped(n) /\ n.at = 0 /\ n.seen = Fresh
    BY <1>2 DEF OverOK, Shaped, Idle
  <2>3. RowOK(n.seen) /\ n.at \in Nat /\ n.at <= now
    BY <1>1, <2>2, FreshOK DEF IInv
  <2> QED BY <2>1, <2>2, <2>3, RequestStep
<1>3. CASE /\ Shaped(n) /\ n.seen \in {req[q].seen, row'} /\ n.at = req[q].at
           /\ n.pc \notin {"late", "revoke", "switch"}
  <2>1. LateOK(n)' /\ OverOK(n)
    BY <1>3 DEF LateOK, OverOK
  <2>2. RowOK(n.seen) /\ n.at \in Nat /\ n.at <= now
    BY <1>1, <1>3, OneRequest DEF RequestOK
  <2> QED BY <1>3, <2>1, <2>2, RequestStep
<1> QED BY <1>2, <1>3

LEMMA PromoteStep == ASSUME IInv, NEW q \in Requests, Promote(q) PROVE IInv'
<1> DEFINE r == req[q]
<1>1. CASE ~(r.seen.early # None /\ now >= End(r.seen))
  BY <1>1, GotoStep DEF Promote
<1>2. CASE r.seen.early # None /\ now >= End(r.seen)
  <2>1. /\ row' = [row EXCEPT !.started = End(r.seen), !.early = None]
        /\ Relies(Stale(q))
        /\ Goto(q, "expire")
        /\ UNCHANGED <<now, paid, until, used, disabled>>
    BY <1>2 DEF Promote
  <2>2. /\ RowOK(row) /\ Covered(row) /\ RowOK(r.seen) /\ Covered(r.seen)
        /\ Cycle \in Nat /\ End(r.seen) \in Int /\ Cover(r.seen) = End(r.seen) + Cycle
    BY <1>2, OneRequest, CoverType, AccountsAssumption DEF IInv, RowInv, RequestOK
  <2>3. /\ RowOK(row') /\ row'.started = End(r.seen) /\ row'.early = None /\ row'.active = row.active
        /\ row'.device = row.device
    BY <2>1, <2>2 DEF RowOK
  <2>4. Cover(row)' = Cover(r.seen)
    BY <2>2, <2>3 DEF Cover, End
  <2>5. RowInv'
    BY <2>1, <2>2, <2>3, <2>4 DEF RowInv, Covered, Worth, RowOK
  <2>6. raced' \in BOOLEAN /\ (~raced' => ~raced /\ row = r.seen)
    BY <2>1, RacedType DEF Stale
  <2>7. PaidInv'
    BY <2>1, <2>3, <2>4, <2>6 DEF IInv, PaidInv, PaidKept
  <2> DEFINE n == [r EXCEPT !.pc = "expire"]
  <2>8. Shaped(n) /\ n.seen = r.seen /\ n.at = r.at /\ n.pc = "expire"
    BY OneRequest DEF RequestOK, Shaped
  <2>9. req' = [req EXCEPT ![q] = n]
    BY <2>1 DEF Goto, Become
  <2>10. until' \in Int /\ disabled' \in BOOLEAN
    BY <2>1 DEF IInv, Counters
  <2> HIDE DEF n
  <2> QED BY <2>1, <2>3, <2>5, <2>6, <2>7, <2>8, <2>9, <2>10, WriteStep
<1> QED BY <1>1, <1>2

(* A commit that keeps what the row covers, and no payment is made. *)
LEMMA SameCover ==
  ASSUME IInv, UNCHANGED <<now, paid, until, used>>, RowOK(row'),
         row'.started = row.started, row'.early = row.early
  PROVE  /\ RowInv'
         /\ ~raced => until' = Cover(row)'
         /\ until' \in Int
  BY DEF IInv, RowInv, PaidInv, Covered, Cover, End, Worth, RowOK, Counters

LEMMA SwitchOffStep == ASSUME IInv, NEW q \in Requests, SwitchOff(q) PROVE IInv'
<1> DEFINE r == req[q]
           stale == \/ Stale(q)
                    \/ \E t \in tokens : t.live /\ t \notin r.kill
                    \/ r.kind # "disable" /\ r.seen.early # None
<1>1. /\ row' = [row EXCEPT !.active = Write(<<r.seen.active, @>>, FALSE)]
      /\ disabled' = (disabled \/ r.kind = "disable")
      /\ Relies(stale)
      /\ UNCHANGED <<now, paid, until, used>>
      /\ r.pc = "switch"
      /\ Stop(q) \/ Goto(q, "reread")
  BY DEF SwitchOff
<1>2. RowOK(row) /\ RowOK(r.seen) /\ now \in Nat
  BY OneRequest DEF IInv, RowInv, RequestOK, Counters
<1>3. RowOK(row') /\ row'.started = row.started /\ row'.early = row.early
  BY <1>1, <1>2 DEF RowOK
<1>4. RowInv' /\ until' \in Int /\ (~raced => until' = Cover(row)')
  BY <1>1, <1>3, SameCover
<1>5. raced' \in BOOLEAN /\ (~raced' => ~raced /\ ~stale)
  <2>1. stale \in BOOLEAN
    BY DEF Stale
  <2> HIDE DEF stale
  <2> QED BY <1>1, <2>1, RacedType
<1>6. disabled' \in BOOLEAN
  BY <1>1 DEF IInv, Counters
<1>7. ~raced' /\ ~disabled' => until' <= now
  <2> SUFFICES ASSUME ~raced', ~disabled' PROVE until' <= now
    OBVIOUS
  <2>1. r.kind # "disable" /\ row = r.seen /\ r.seen.early = None
    BY <1>1, <1>5 DEF Stale
  <2>2. End(r.seen) <= now
    BY <1>1, <2>1, OneRequest DEF OverOK
  <2> QED BY <1>1, <1>2, <1>5, <2>1, <2>2, CoverType DEF IInv, PaidInv
<1>8. PaidInv'
  <2> SUFFICES ASSUME ~raced' PROVE until' = Cover(row)' /\ PaidKept'
    BY DEF PaidInv
  <2>1. until' = Cover(row)'
    BY <1>4, <1>5
  <2>2. ~disabled' => ~(now' < until')
    BY <1>1, <1>2, <1>4, <1>7
  <2> QED BY <2>1, <2>2 DEF PaidKept
<1>9. row.early = None /\ row'.early # None => paid' = paid + 1
  BY <1>3
<1>10. CASE Stop(q)
  BY <1>1, <1>4, <1>5, <1>6, <1>8, <1>9, <1>10, WriteStep DEF Stop, Become
<1>11. CASE Goto(q, "reread")
  <2> DEFINE n == [r EXCEPT !.pc = "reread"]
  <2>1. Shaped(n) /\ n.seen = r.seen /\ n.at = r.at /\ n.pc = "reread"
    BY OneRequest DEF RequestOK, Shaped
  <2>2. req' = [req EXCEPT ![q] = n]
    BY <1>11 DEF Goto, Become
  <2> HIDE DEF n
  <2> QED BY <1>1, <1>4, <1>5, <1>6, <1>8, <1>9, <2>1, <2>2, WriteStep
<1> QED BY <1>1, <1>10, <1>11

LEMMA BindStep == ASSUME IInv, NEW q \in Requests, Bind(q) PROVE IInv'
<1> DEFINE n == [req[q] EXCEPT !.pc = "replace", !.seen = row']
<1>1. /\ row' = [row EXCEPT !.device = req[q].device]
      /\ req' = [req EXCEPT ![q] = n]
      /\ Relies(Stale(q))
      /\ UNCHANGED <<now, paid, until, used, disabled>>
  BY DEF Bind, Become
<1>2. RowOK(row)
  BY DEF IInv, RowInv
<1>3. /\ RowOK(row') /\ row'.started = row.started /\ row'.early = row.early
      /\ row'.active = row.active
  BY <1>1, <1>2 DEF RowOK
<1>4. RowInv' /\ until' \in Int /\ (~raced => until' = Cover(row)')
  BY <1>1, <1>3, SameCover
<1>5. raced' \in BOOLEAN /\ (~raced' => ~raced)
  BY <1>1, RacedType DEF Stale
<1>6. PaidInv'
  BY <1>1, <1>3, <1>4, <1>5 DEF IInv, PaidInv, PaidKept
<1>7. disabled' \in BOOLEAN
  BY <1>1 DEF IInv, Counters
<1>8. Shaped(n) /\ n.seen = row' /\ n.at = req[q].at /\ n.pc = "replace"
  BY OneRequest DEF RequestOK, Shaped
<1> HIDE DEF n
<1> QED BY <1>1, <1>3, <1>4, <1>5, <1>6, <1>7, <1>8, WriteStep

LEMMA RenewEarlyStep == ASSUME IInv, NEW q \in Requests, RenewEarly(q) PROVE IInv'
<1> DEFINE r == req[q]
           er == IF r.seen.early = None THEN r.at ELSE r.seen.early
<1>1. /\ row' = [row EXCEPT !.early = Write(<<r.seen.early, @>>, er),
                            !.active = Write(<<r.seen.active, @>>, TRUE)]
      /\ paid' = paid + 1 /\ until' = End(r.seen) + Cycle /\ disabled' = FALSE
      /\ Relies(Stale(q)) /\ Stop(q)
      /\ UNCHANGED <<now, used>>
  BY DEF RenewEarly
<1>2. /\ RowOK(row) /\ Covered(row) /\ RowOK(r.seen) /\ r.at \in Nat /\ None \notin Nat
      /\ now \in Nat /\ used \in Nat /\ Cycle \in Nat /\ Worth \in Nat
  BY OneRequest, WorthType, AccountsAssumption DEF IInv, RowInv, RequestOK, Counters
<1>3. er \in Nat
  BY <1>2 DEF RowOK
<1>4. /\ row'.early = IF er = r.seen.early THEN row.early ELSE er
      /\ row'.active = IF TRUE = r.seen.active THEN row.active ELSE TRUE
      /\ row'.started = row.started
  BY <1>1, <1>2 DEF RowOK, Write
<1>5. RowOK(row')
  BY <1>1, <1>2, <1>3 DEF RowOK, Write
<1> HIDE DEF er
<1>6. Covered(row)'
  <2>1. Cover(row)' <= Cover(row) + Cycle /\ Cover(row)' \in Int /\ Cover(row) \in Int
    BY <1>2, <1>4, <1>5, CoverType DEF Cover, End, RowOK
  <2>2. Worth' = Worth + Cycle
    BY <1>1, WorthGrows DEF IInv
  <2> QED BY <1>1, <1>2, <2>1, <2>2 DEF Covered
<1>7. RowInv'
  BY <1>5, <1>6 DEF RowInv, RowOK
<1>8. raced' \in BOOLEAN /\ (~raced' => ~raced /\ row = r.seen)
  BY <1>1, RacedType DEF Stale
<1>9. PaidInv'
  <2> SUFFICES ASSUME ~raced' PROVE until' = Cover(row)' /\ PaidKept'
    BY DEF PaidInv
  <2>1. row'.early # None
    BY <1>2, <1>3, <1>4, <1>8 DEF er
  <2>2. until' = Cover(row)'
    BY <1>1, <1>4, <1>8, <2>1 DEF Cover, End
  <2>3. row'.active
    BY <1>4, <1>8
  <2> QED BY <2>2, <2>3 DEF PaidKept
<1>10. until' \in Int /\ disabled' \in BOOLEAN
  <2>1. until' \in Int
    BY <1>1, <1>2, CoverType
  <2>2. disabled' \in BOOLEAN
    BY DEF RenewEarly
  <2> QED BY <2>1, <2>2
<1> QED BY <1>1, <1>7, <1>8, <1>9, <1>10, WriteStep DEF Stop, Become

LEMMA RenewLateStep == ASSUME IInv, NEW q \in Requests, RenewLate(q) PROVE IInv'
<1> DEFINE r == req[q]
<1>1. /\ row' = [row EXCEPT !.early = Write(<<r.seen.early, @>>, None), !.started = r.at,
                            !.active = Write(<<r.seen.active, @>>, TRUE)]
      /\ paid' = paid + 1 /\ until' = r.at + Cycle /\ disabled' = FALSE
      /\ Relies(Stale(q)) /\ Stop(q) /\ r.pc = "late"
      /\ UNCHANGED <<now, used>>
  BY DEF RenewLate
<1>2. /\ RowOK(row) /\ RowOK(r.seen) /\ r.at \in Nat /\ r.at <= now
      /\ now \in Nat /\ used \in Nat /\ used <= Worth /\ Cycle \in Nat /\ Worth \in Nat
  BY OneRequest, WorthType DEF IInv, RowInv, RequestOK, Counters
<1>3. /\ row'.early = IF None = r.seen.early THEN row.early ELSE None
      /\ row'.active = IF TRUE = r.seen.active THEN row.active ELSE TRUE
      /\ row'.started = r.at
  BY <1>1, <1>2 DEF RowOK, Write
<1>4. RowOK(row')
  <2>1. row' \in [active : {row'.active}, started : {r.at}, early : {row'.early}, device : {row'.device}]
    BY <1>1, <1>2 DEF RowOK
  <2>2. row'.early \in Nat \cup {None} /\ r.at \in Int
    BY <1>2, <1>3 DEF RowOK
  <2> QED BY <2>1, <2>2 DEF RowOK
<1>5. Covered(row)'
  <2>1. Worth' = Worth + Cycle
    BY <1>1, WorthGrows DEF IInv
  <2>2. CASE row'.early = None
    <3>1. Cover(row)' = r.at + Cycle
      BY <1>2, <1>3, <2>2 DEF Cover, End
    <3> QED BY <1>1, <1>2, <2>1, <3>1 DEF Covered
  <2>3. CASE row'.early # None
    <3>1. Cover(row)' = r.at + Cycle + Cycle
      BY <1>2, <1>3, <2>3 DEF Cover, End
    <3>2. used + Cycle + r.at - now <= Worth
      BY <1>1, <1>3, <2>3, OneRequest DEF LateOK
    <3> QED BY <1>1, <1>2, <2>1, <3>1, <3>2 DEF Covered
  <2> QED BY <2>2, <2>3
<1>6. RowInv'
  BY <1>4, <1>5 DEF RowInv, RowOK
<1>7. raced' \in BOOLEAN /\ (~raced' => ~raced /\ row = r.seen)
  BY <1>1, RacedType DEF Stale
<1>8. PaidInv'
  <2> SUFFICES ASSUME ~raced' PROVE until' = Cover(row)' /\ PaidKept'
    BY DEF PaidInv
  <2>1. row'.early = None /\ row'.active
    BY <1>3, <1>7
  <2>2. until' = Cover(row)'
    BY <1>1, <1>2, <1>3, <2>1 DEF Cover, End
  <2> QED BY <2>1, <2>2 DEF PaidKept
<1>9. until' \in Int /\ disabled' \in BOOLEAN
  <2>1. until' \in Int
    BY <1>1, <1>2
  <2>2. disabled' \in BOOLEAN
    BY DEF RenewLate
  <2> QED BY <2>1, <2>2
<1>10. row.early = None /\ row'.early # None => paid' = paid + 1
  BY <1>1
<1> QED BY <1>1, <1>6, <1>7, <1>8, <1>9, <1>10, WriteStep DEF Stop, Become

LEMMA SwitchOnStep == ASSUME IInv, NEW q \in Requests, SwitchOn(q) PROVE IInv'
<1> DEFINE r == req[q]
<1>1. /\ row' = [row EXCEPT !.active = Write(<<r.seen.active, @>>, TRUE)]
      /\ disabled' = FALSE /\ Relies(Stale(q)) /\ Stop(q)
      /\ UNCHANGED <<now, paid, until, used>>
  BY DEF SwitchOn
<1>2. RowOK(row) /\ RowOK(r.seen)
  BY OneRequest DEF IInv, RowInv, RequestOK
<1>3. /\ RowOK(row') /\ row'.started = row.started /\ row'.early = row.early
      /\ row'.active = IF TRUE = r.seen.active THEN row.active ELSE TRUE
  BY <1>1, <1>2 DEF RowOK, Write
<1>4. RowInv' /\ until' \in Int /\ (~raced => until' = Cover(row)')
  BY <1>1, <1>3, SameCover
<1>5. raced' \in BOOLEAN /\ (~raced' => ~raced /\ row = r.seen)
  BY <1>1, RacedType DEF Stale
<1>6. PaidInv'
  BY <1>3, <1>4, <1>5 DEF PaidInv, PaidKept
<1>7. disabled' \in BOOLEAN
  BY <1>1
<1> QED BY <1>1, <1>3, <1>4, <1>5, <1>6, <1>7, WriteStep DEF Stop, Become

LEMMA ResetDeviceStep == ASSUME IInv, NEW q \in Requests, ResetDevice(q) PROVE IInv'
<1> DEFINE r == req[q]
<1>1. /\ row' = [row EXCEPT !.device = Write(<<r.seen.device, @>>, None)]
      /\ Relies(Stale(q)) /\ Stop(q)
      /\ UNCHANGED <<now, paid, until, used, disabled>>
  BY DEF ResetDevice
<1>2. RowOK(row)
  BY DEF IInv, RowInv
<1>3. /\ RowOK(row') /\ row'.started = row.started /\ row'.early = row.early
      /\ row'.active = row.active
  BY <1>1, <1>2 DEF RowOK
<1>4. RowInv' /\ until' \in Int /\ (~raced => until' = Cover(row)')
  BY <1>1, <1>3, SameCover
<1>5. raced' \in BOOLEAN /\ (~raced' => ~raced)
  BY <1>1, RacedType DEF Stale
<1>6. PaidInv'
  BY <1>1, <1>3, <1>4, <1>5 DEF IInv, PaidInv, PaidKept
<1>7. disabled' \in BOOLEAN
  BY <1>1 DEF IInv, Counters
<1> QED BY <1>1, <1>3, <1>4, <1>5, <1>6, <1>7, WriteStep DEF Stop, Become

-----------------------------------------------------------------------------
(* The steps that only touch tokens and usage. *)
LEMMA TokenStep ==
  ASSUME IInv, NEW q \in Requests, Replace(q) \/ ReadToken(q) \/ Record(q) PROVE IInv'
<1>1. UNCHANGED <<now, row, paid, until, used, disabled, raced>>
  BY DEF Replace, ReadToken, Record, account, history
<1>2. Stop(q) \/ Goto(q, "issue") \/ Goto(q, "rotate")
  BY DEF Replace, ReadToken, Record
<1> QED BY <1>1, <1>2, StopStep, GotoStep

(* The steps that store a token, perhaps after a race. *)
LEMMA StoreStep ==
  ASSUME IInv, NEW q \in Requests, Issue(q) \/ Rotate(q) PROVE IInv'
<1>1. UNCHANGED <<now, row, paid, until, used, disabled>> /\ Stop(q)
  BY DEF Issue, Rotate
<1>2. PICK stale \in BOOLEAN : Relies(stale)
  <2>1. (Stale(q) \/ Live(req[q].device) # {}) \in BOOLEAN
    BY DEF Stale
  <2>2. (Stale(q) \/ \E t \in {t \in tokens : t.id = req[q].token} : ~t.live) \in BOOLEAN
    BY DEF Stale
  <2> QED BY <2>1, <2>2 DEF Issue, Rotate
<1>3. raced' \in BOOLEAN /\ (~raced' => ~raced)
  BY <1>2, RacedType
<1>4. RowOK(row') /\ row' = row
  BY <1>1 DEF IInv, RowInv
<1>5. RowInv' /\ until' \in Int /\ (~raced => until' = Cover(row)')
  BY <1>1, <1>4, SameCover
<1>6. PaidInv'
  BY <1>1, <1>3, <1>4, <1>5 DEF IInv, PaidInv, PaidKept
<1>7. disabled' \in BOOLEAN
  BY <1>1 DEF IInv, Counters
<1> QED BY <1>1, <1>3, <1>4, <1>5, <1>6, <1>7, WriteStep DEF Stop, Become

LEMMA StutterStep == ASSUME IInv, UNCHANGED vars PROVE IInv'
<1>1. UNCHANGED <<now, row, req, paid, until, used, disabled, raced>>
  BY DEF vars, account, history
<1>2. RowInv' /\ PaidInv'
  BY <1>1, RowStays
<1> QED BY <1>1, <1>2 DEF IInv, Counters, RequestInv, RequestOK, LateOK, OverOK, RowOK, Shaped,
     Covered, Cover, End, Worth

-----------------------------------------------------------------------------
LEMMA Inductive == Spec => []IInv
<1>1. IInv /\ [Next]_vars => IInv'
  <2> SUFFICES ASSUME IInv, [Next]_vars PROVE IInv'
    OBVIOUS
  <2>1. ASSUME NEW q \in Requests, Step(q) PROVE IInv'
    BY <2>1, BeginStep, PromoteStep, ExpireStep, RevokeStep, SwitchOffStep, RereadStep, BindStep,
       RenewEarlyStep, RenewLateStep, SwitchOnStep, ResetDeviceStep, TokenStep, StoreStep DEF Step
  <2> QED BY <2>1, TickStep, StutterStep DEF Next
<1> QED BY InitIInv, <1>1, PTL DEF Spec

(* No interleaving of renewals, promotions and expiries makes time that    *)
(* was not paid for (subscription.py:64-88, admin.py:411-477), for every   *)
(* number of requests, length of the cycle and time.                       *)
THEOREM NoTimeIsMade == Spec => []NoFreeTime
<1>1. IInv => NoFreeTime
  BY DEF IInv, Counters, NoFreeTime, Worth
<1> QED BY Inductive, <1>1, PTL

(* As long as no request commits on a stale row, nothing but an admin      *)
(* switches off an account within the time paid for                        *)
(* (subscription.py:64-113).                                               *)
THEOREM PaidTimeIsKept == Spec => []PaidKept
<1>1. IInv => PaidKept
  BY DEF IInv, PaidInv, PaidKept
<1> QED BY Inductive, <1>1, PTL
-----------------------------------------------------------------------------
(* The tokens.  What holds of them whatever races there were: their types, *)
(* and that a token which a refresh goes to rotate is one of the device of *)
(* the request.                                                            *)
TokenOK(t, n) == /\ t \in [id : {t.id}, device : {t.device}, live : {t.live}, era : {t.era}]
                 /\ t.device \in Devices /\ t.live \in BOOLEAN /\ t.era \in 0..n

TokensTyped == /\ resets \in Nat /\ row.active \in BOOLEAN
               /\ \A t \in tokens : TokenOK(t, resets)

RequestTyped(r) ==
    /\ r.seen.active \in BOOLEAN
    /\ r.kind \in Entering => r.device \in Devices
    /\ r.pc \in {"bind", "replace", "issue", "token", "rotate"} => r.kind \in Entering

HasToken(r) == r.pc = "rotate" => \E t \in tokens : t.id = r.token /\ t.device = r.device

(* Without a race, a request that has been let in has seen an account that *)
(* is active and bound to its device; the first login, one not bound.      *)
RequestSound(r) ==
    /\ r.pc = "bind" => r.seen.active /\ r.seen.device = None
    /\ r.pc \in {"replace", "issue", "token", "rotate"} => r.seen.active /\ r.seen.device = r.device

RowSound ==
    /\ \A t, u \in tokens : t.live /\ u.live /\ t.device = u.device => t = u
    /\ ~row.active => \A t \in tokens : ~t.live
    /\ \A t \in tokens : t.era = resets => t.device = row.device

TokensInv ==
    /\ TokensTyped
    /\ \A q \in Requests : RequestTyped(req[q]) /\ HasToken(req[q])
    /\ ~raced => RowSound /\ \A q \in Requests : RequestSound(req[q])

LEMMA IdleSound == RequestTyped(Idle) /\ RequestSound(Idle) /\ Idle.pc = "idle"
  BY DEF RequestTyped, RequestSound, Idle, Fresh, Entering

LEMMA TokenFields ==
  ASSUME NEW i, NEW d, NEW b, NEW e
  PROVE  LET t == [id |-> i, device |-> d, live |-> b, era |-> e] IN
           /\ t \in [id : {t.id}, device : {t.device}, live : {t.live}, era : {t.era}]
           /\ t.id = i /\ t.device = d /\ t.live = b /\ t.era = e
  OBVIOUS

LEMMA LiveField ==
  ASSUME NEW u, u \in [id : {u.id}, device : {u.device}, live : {u.live}, era : {u.era}], NEW b
  PROVE  LET t == [u EXCEPT !.live = b] IN
           /\ t \in [id : {t.id}, device : {t.device}, live : {t.live}, era : {t.era}]
           /\ t.id = u.id /\ t.device = u.device /\ t.live = b /\ t.era = u.era
  OBVIOUS

LEMMA InitTokens == Init => TokensInv
<1> SUFFICES ASSUME Init PROVE TokensInv
  OBVIOUS
<1>1. row.active = TRUE /\ resets = 0 /\ row.device \in Devices \cup {None}
  BY DEF Init, Fresh
<1>2. tokens = {[id |-> 0, device |-> d, live |-> TRUE, era |-> 0] : d \in Devices \cap {row.device}}
  BY DEF Init
<1>3. ASSUME NEW t \in tokens
      PROVE  /\ t = [id |-> 0, device |-> row.device, live |-> TRUE, era |-> 0]
             /\ t.device = row.device /\ t.live = TRUE /\ t.era = 0 /\ row.device \in Devices
  BY <1>2
<1>4. TokensTyped
  <2>1. ASSUME NEW t \in tokens PROVE TokenOK(t, 0)
    <3> DEFINE k == [id |-> 0, device |-> row.device, live |-> TRUE, era |-> 0]
    <3>1. /\ k \in [id : {k.id}, device : {k.device}, live : {k.live}, era : {k.era}]
          /\ k.device = row.device /\ k.live = TRUE /\ k.era = 0
      BY TokenFields
    <3>2. t = k /\ row.device \in Devices
      BY <1>3
    <3> HIDE DEF k
    <3>3. k.live \in BOOLEAN
      BY <3>1
    <3>4. k.era \in 0..0
      BY <3>1
    <3> QED BY <3>1, <3>2, <3>3, <3>4 DEF TokenOK
  <2> QED BY <1>1, <2>1 DEF TokensTyped
<1>5. RowSound
  BY <1>1, <1>3 DEF RowSound
<1>6. ASSUME NEW q \in Requests PROVE req[q] = Idle
  BY DEF Init
<1> QED BY <1>4, <1>5, <1>6, IdleSound DEF TokensInv, HasToken

(* What a revocation leaves. *)
LEMMA RevokedTokens ==
  ASSUME TokensTyped, NEW T, T \subseteq tokens
  PROVE  /\ \A t \in Revoked(T) : /\ TokenOK(t, resets)
                                  /\ \E u \in tokens : u.id = t.id /\ u.device = t.device /\ u.era = t.era
                                  /\ t.live => t \in tokens /\ t \notin T
         /\ \A u \in tokens : \E t \in Revoked(T) : t.id = u.id /\ t.device = u.device
<1>1. ASSUME NEW u \in T
      PROVE  LET t == [u EXCEPT !.live = FALSE] IN
               /\ t.id = u.id /\ t.device = u.device /\ t.era = u.era /\ t.live = FALSE
               /\ TokenOK(t, resets)
  <2> DEFINE t == [u EXCEPT !.live = FALSE]
  <2>1. TokenOK(u, resets)
    BY DEF TokensTyped
  <2>2. /\ t \in [id : {t.id}, device : {t.device}, live : {t.live}, era : {t.era}]
        /\ t.id = u.id /\ t.device = u.device /\ t.live = FALSE /\ t.era = u.era
    BY <2>1, LiveField DEF TokenOK
  <2> QED BY <2>1, <2>2 DEF TokenOK
<1>2. ASSUME NEW t \in Revoked(T)
      PROVE  /\ TokenOK(t, resets)
             /\ \E u \in tokens : u.id = t.id /\ u.device = t.device /\ u.era = t.era
             /\ t.live => t \in tokens /\ t \notin T
  <2>1. CASE t \in tokens \ T
    BY <2>1 DEF TokensTyped
  <2>2. CASE \E u \in T : t = [u EXCEPT !.live = FALSE]
    BY <1>1, <2>2
  <2> QED BY <2>1, <2>2 DEF Revoked
<1>3. ASSUME NEW u \in tokens PROVE \E t \in Revoked(T) : t.id = u.id /\ t.device = u.device
  <2>1. CASE u \in T
    BY <1>1, <2>1 DEF Revoked
  <2>2. CASE u \notin T
    BY <2>2 DEF Revoked
  <2> QED BY <2>1, <2>2
<1> QED BY <1>2, <1>3

(* A step of one request: what it has to show of its new state n, of the   *)
(* tokens, and, when no race has been met, of the row.                     *)
LEMMA TokensStep ==
  ASSUME IInv, TokensInv, NEW q \in Requests, NEW n, req' = [req EXCEPT ![q] = n],
         TokensTyped', RequestTyped(n),
         n.pc = "rotate" => tokens' = tokens /\ HasToken(n),
         \A u \in tokens : \E t \in tokens' : t.id = u.id /\ t.device = u.device,
         ~raced' => ~raced /\ RowSound' /\ RequestSound(n)
  PROVE  TokensInv'
<1>1. ASSUME NEW p \in Requests
      PROVE  /\ RequestTyped(req'[p]) /\ HasToken(req[p])'
             /\ ~raced' => RequestSound(req'[p])
  <2>1. CASE p = q
    <3>1. req'[p] = n
      BY <2>1 DEF IInv, RequestInv
    <3> QED BY <3>1 DEF HasToken
  <2>2. CASE p # q
    <3>1. req'[p] = req[p]
      BY <2>2 DEF IInv, RequestInv
    <3>2. RequestTyped(req[p]) /\ HasToken(req[p]) /\ (~raced' => RequestSound(req[p]))
      BY DEF TokensInv
    <3> QED BY <3>1, <3>2 DEF HasToken
  <2> QED BY <2>1, <2>2
<1> QED BY <1>1 DEF TokensInv, RequestTyped, RequestSound

(* A step that keeps the tokens, and the row but for what it switches on.  *)
LEMMA KeepsTokens ==
  ASSUME IInv, TokensInv, NEW q \in Requests, NEW n, req' = [req EXCEPT ![q] = n],
         UNCHANGED <<tokens, resets>>, row'.active \in BOOLEAN,
         RequestTyped(n), HasToken(n),
         ~raced' => /\ ~raced /\ RequestSound(n)
                    /\ row'.device = row.device /\ (row.active => row'.active)
  PROVE  TokensInv'
<1>1. TokensTyped'
  BY DEF TokensInv, TokensTyped, TokenOK
<1>2. ~raced' => ~raced /\ RowSound' /\ RequestSound(n)
  BY DEF TokensInv, RowSound
<1>3. \A u \in tokens : \E t \in tokens' : t.id = u.id /\ t.device = u.device
  OBVIOUS
<1> QED BY <1>1, <1>2, <1>3, TokensStep

LEMMA OneTyped == ASSUME IInv, TokensInv, NEW q \in Requests
                  PROVE  /\ Shaped(req[q]) /\ RequestTyped(req[q]) /\ HasToken(req[q])
                         /\ ~raced => RequestSound(req[q])
  BY OneRequest DEF TokensInv, RequestOK

-----------------------------------------------------------------------------
(* The steps that keep the tokens.                                         *)
LEMMA TickTokens == ASSUME IInv, TokensInv, Tick PROVE TokensInv'
<1>1. UNCHANGED <<row, tokens, req, resets, raced>>
  BY DEF Tick, account
<1> QED BY <1>1 DEF TokensInv, TokensTyped, RowSound, RequestTyped, RequestSound, HasToken

LEMMA StutterTokens == ASSUME IInv, TokensInv, UNCHANGED vars PROVE TokensInv'
<1>1. UNCHANGED <<row, tokens, req, resets, raced>>
  BY DEF vars, account, history
<1> QED BY <1>1 DEF TokensInv, TokensTyped, RowSound, RequestTyped, RequestSound, HasToken

(* A request begins, goes on or stops, and nothing else happens. *)
LEMMA OnlyRequest ==
  ASSUME IInv, TokensInv, NEW q \in Requests, NEW n, req' = [req EXCEPT ![q] = n],
         UNCHANGED <<row, tokens, resets, raced>>,
         RequestTyped(n), HasToken(n), ~raced => RequestSound(n)
  PROVE  TokensInv'
<1>1. row'.active \in BOOLEAN /\ row'.device = row.device /\ (row.active => row'.active)
  BY DEF TokensInv, TokensTyped
<1> QED BY <1>1, KeepsTokens

LEMMA BeginTokens == ASSUME IInv, TokensInv, NEW q \in Requests, Begin(q) PROVE TokensInv'
<1>1. UNCHANGED <<row, tokens, resets, raced>>
  BY DEF Begin, account, history
<1>2. PICK n : req' = [req EXCEPT ![q] = n] /\ n.seen = row
                 /\ (n.kind \in Entering => n.device \in Devices)
                 /\ n.pc \in {"promote", "early", "late", "revoke", "write"}
  <2>1. CASE \E k \in Entering, d \in Devices :
               \E t \in (IF k = "refresh" THEN {u.id : u \in tokens} ELSE {0}) :
                 Become(q, [Idle EXCEPT !.pc = "promote", !.kind = k, !.device = d, !.token = t,
                                        !.seen = row])
    <3>1. PICK k \in Entering, d \in Devices :
            \E t : Become(q, [Idle EXCEPT !.pc = "promote", !.kind = k, !.device = d, !.token = t,
                                          !.seen = row])
      BY <2>1
    <3>2. PICK t : Become(q, [Idle EXCEPT !.pc = "promote", !.kind = k, !.device = d, !.token = t,
                                          !.seen = row])
      BY <3>1
    <3> DEFINE n == [Idle EXCEPT !.pc = "promote", !.kind = k, !.device = d, !.token = t, !.seen = row]
    <3>3. n.seen = row /\ n.device = d /\ n.pc = "promote"
      BY DEF Idle
    <3>4. req' = [req EXCEPT ![q] = n]
      BY <3>2 DEF Become
    <3> HIDE DEF n
    <3> QED BY <3>3, <3>4
  <2>2. ASSUME NEW k \in Managing \cup {"use"}, NEW pc \in {"early", "late", "revoke", "write"},
               Become(q, [Idle EXCEPT !.pc = pc, !.kind = k, !.at = now, !.seen = row])
        PROVE  \E n : req' = [req EXCEPT ![q] = n] /\ n.seen = row
                        /\ (n.kind \in Entering => n.device \in Devices)
                        /\ n.pc \in {"promote", "early", "late", "revoke", "write"}
    <3> DEFINE n == [Idle EXCEPT !.pc = pc, !.kind = k, !.at = now, !.seen = row]
    <3>1. n.seen = row /\ n.kind = k /\ n.pc = pc
      BY DEF Idle
    <3>2. req' = [req EXCEPT ![q] = n]
      BY <2>2 DEF Become
    <3> HIDE DEF n
    <3> QED BY <3>1, <3>2 DEF Managing, Entering
  <2>3. CASE \E k \in Managing :
               Become(q, [Idle EXCEPT !.pc = CASE k = "renew" -> IF now < End(row) THEN "early" ELSE "late"
                                               [] k = "disable" -> "revoke"
                                               [] OTHER -> "write",
                                      !.kind = k, !.at = now, !.seen = row])
    <3>1. PICK k \in Managing :
            Become(q, [Idle EXCEPT !.pc = CASE k = "renew" -> IF now < End(row) THEN "early" ELSE "late"
                                            [] k = "disable" -> "revoke"
                                            [] OTHER -> "write",
                                   !.kind = k, !.at = now, !.seen = row])
      BY <2>3
    <3> DEFINE pc == CASE k = "renew" -> IF now < End(row) THEN "early" ELSE "late"
                       [] k = "disable" -> "revoke"
                       [] OTHER -> "write"
    <3>2. pc \in {"early", "late", "revoke", "write"}
      OBVIOUS
    <3>3. Become(q, [Idle EXCEPT !.pc = pc, !.kind = k, !.at = now, !.seen = row])
      BY <3>1
    <3> HIDE DEF pc
    <3> QED BY <2>2, <3>2, <3>3
  <2>4. CASE Become(q, [Idle EXCEPT !.pc = "write", !.kind = "use", !.at = now, !.seen = row])
    BY <2>2, <2>4
  <2> QED BY <2>1, <2>3, <2>4 DEF Begin
<1>3. RequestTyped(n) /\ RequestSound(n) /\ HasToken(n)
  BY <1>2 DEF RequestTyped, RequestSound, HasToken, TokensInv, TokensTyped
<1> QED BY <1>1, <1>2, <1>3, OnlyRequest

LEMMA StopTokens ==
  ASSUME IInv, TokensInv, NEW q \in Requests, Stop(q), UNCHANGED <<row, tokens, resets, raced>>
  PROVE  TokensInv'
  BY IdleSound, OnlyRequest DEF Stop, Become, HasToken

(* Where get_current_user lets a request in. *)
LEMMA AdmitTokens ==
  ASSUME IInv, TokensInv, NEW q \in Requests, NEW r, Shaped(r), r.seen = row,
         r.kind \in Entering => r.device \in Devices,
         UNCHANGED <<row, tokens, resets, raced>>, Admit(q, r)
  PROVE  TokensInv'
<1>1. CASE Stop(q)
  BY <1>1, StopTokens
<1>2. CASE ~Stop(q)
  <2>1. PICK pc \in {"bind", "replace", "token"} :
          /\ Become(q, [r EXCEPT !.pc = pc])
          /\ r.seen.active
          /\ pc = "bind" => r.seen.device = None
          /\ pc # "bind" => r.seen.device = r.device
          /\ r.kind \in {"login", "refresh", "logout"}
    <3>1. CASE r.kind = "login" /\ r.seen.device = None
      BY <1>2, <3>1 DEF Admit
    <3>2. CASE r.kind = "login" /\ r.seen.device # None
      BY <1>2, <3>2 DEF Admit
    <3>3. CASE r.kind = "refresh"
      BY <1>2, <3>3 DEF Admit
    <3>4. CASE r.kind = "logout"
      BY <1>2, <3>4 DEF Admit
    <3>5. CASE r.kind \notin {"login", "refresh", "logout"}
      BY <1>2, <3>5 DEF Admit
    <3> QED BY <3>1, <3>2, <3>3, <3>4, <3>5
  <2> DEFINE n == [r EXCEPT !.pc = pc]
  <2>2. n.pc = pc /\ n.seen = row /\ n.kind = r.kind /\ n.device = r.device
    BY DEF Shaped
  <2>3. req' = [req EXCEPT ![q] = n]
    BY <2>1 DEF Become
  <2> HIDE DEF n
  <2>4. RequestTyped(n) /\ RequestSound(n) /\ HasToken(n)
    BY <2>1, <2>2 DEF RequestTyped, RequestSound, HasToken, TokensInv, TokensTyped, Entering
  <2> QED BY <2>3, <2>4, OnlyRequest
<1> QED BY <1>1, <1>2

LEMMA ExpireTokens ==
  ASSUME IInv, TokensInv, NEW q \in Requests, Expire(q) \/ Reread(q) PROVE TokensInv'
<1> DEFINE r == [req[q] EXCEPT !.seen = row]
<1>1. UNCHANGED <<row, tokens, resets, raced>>
  BY DEF Expire, Reread, account, history
<1>2. /\ Shaped(r) /\ r.seen = row /\ r.kind = req[q].kind /\ r.device = req[q].device
      /\ r.kind \in Entering => r.device \in Devices
  BY OneTyped DEF Shaped, RequestTyped
<1>3. Admit(q, r) \/ Become(q, [r EXCEPT !.pc = "revoke"])
  BY DEF Expire, Reread
<1> HIDE DEF r
<1>4. CASE Become(q, [r EXCEPT !.pc = "revoke"])
  <2> DEFINE n == [r EXCEPT !.pc = "revoke"]
  <2>1. n.pc = "revoke" /\ n.seen = row /\ n.kind = r.kind /\ n.device = r.device
    BY <1>2 DEF Shaped
  <2>2. req' = [req EXCEPT ![q] = n]
    BY <1>4 DEF Become
  <2> HIDE DEF n
  <2>3. RequestTyped(n) /\ RequestSound(n) /\ HasToken(n)
    BY <1>2, <2>1 DEF RequestTyped, RequestSound, HasToken, TokensInv, TokensTyped
  <2> QED BY <1>1, <2>2, <2>3, OnlyRequest
<1> QED BY <1>1, <1>2, <1>3, <1>4, AdmitTokens

LEMMA RevokeTokens == ASSUME IInv, TokensInv, NEW q \in Requests, Revoke(q) PROVE TokensInv'
<1> DEFINE n == [req[q] EXCEPT !.pc = "switch", !.kill = {t \in tokens : t.live}]
<1>1. n.pc = "switch" /\ n.seen = req[q].seen /\ n.kind = req[q].kind /\ n.device = req[q].device
  BY OneTyped DEF Shaped
<1>2. req' = [req EXCEPT ![q] = n] /\ UNCHANGED <<row, tokens, resets, raced>>
  BY DEF Revoke, Become, account, history
<1> HIDE DEF n
<1>3. RequestTyped(n) /\ RequestSound(n) /\ HasToken(n)
  BY <1>1, OneTyped DEF RequestTyped, RequestSound, HasToken
<1> QED BY <1>2, <1>3, OnlyRequest

LEMMA ReadTokenTokens ==
  ASSUME IInv, TokensInv, NEW q \in Requests, ReadToken(q) PROVE TokensInv'
<1>1. UNCHANGED <<row, tokens, resets, raced>> /\ req[q].pc = "token"
  BY DEF ReadToken, account, history
<1>2. CASE Stop(q)
  BY <1>1, <1>2, StopTokens
<1>3. CASE (\E t \in Live(req[q].device) : t.id = req[q].token) /\ Goto(q, "rotate")
  <2> DEFINE n == [req[q] EXCEPT !.pc = "rotate"]
  <2>1. /\ n.pc = "rotate" /\ n.seen = req[q].seen /\ n.kind = req[q].kind
        /\ n.device = req[q].device /\ n.token = req[q].token
    BY OneTyped DEF Shaped
  <2>2. req' = [req EXCEPT ![q] = n]
    BY <1>3 DEF Goto, Become
  <2> HIDE DEF n
  <2>3. RequestTyped(n) /\ (~raced => RequestSound(n))
    BY <1>1, <2>1, OneTyped DEF RequestTyped, RequestSound
  <2>4. HasToken(n)
    BY <1>3, <2>1 DEF HasToken, Live
  <2> QED BY <1>1, <2>2, <2>3, <2>4, OnlyRequest
<1> QED BY <1>2, <1>3 DEF ReadToken

LEMMA RecordTokens == ASSUME IInv, TokensInv, NEW q \in Requests, Record(q) PROVE TokensInv'
  BY StopTokens DEF Record, history

-----------------------------------------------------------------------------
(* The steps that write the row.                                           *)
LEMMA StaleRow == ASSUME IInv, NEW q \in Requests, Relies(Stale(q))
                  PROVE  ~raced' => ~raced /\ row = req[q].seen
  BY RacedType DEF Stale

LEMMA SwitchedOn == ASSUME IInv, TokensInv, NEW q \in Requests
                    PROVE  LET a == Write(<<req[q].seen.active, row.active>>, TRUE) IN
                             a \in BOOLEAN /\ (row.active => a)
<1>1. req[q].seen.active \in BOOLEAN /\ row.active \in BOOLEAN
  BY OneTyped DEF RequestTyped, TokensInv, TokensTyped
<1> QED BY <1>1, Written, ZenonT(30)

LEMMA SwitchedOff == ASSUME NEW a \in BOOLEAN, NEW b \in BOOLEAN
                     PROVE  Write(<<a, b>>, FALSE) \in BOOLEAN
<1>1. Write(<<a, b>>, FALSE) = IF FALSE = a THEN b ELSE FALSE
  BY Written, Zenon
<1> QED BY <1>1, Zenon

LEMMA PromoteTokens == ASSUME IInv, TokensInv, NEW q \in Requests, Promote(q) PROVE TokensInv'
<1> DEFINE n == [req[q] EXCEPT !.pc = "expire"]
<1>1. n.pc = "expire" /\ n.seen = req[q].seen /\ n.kind = req[q].kind /\ n.device = req[q].device
  BY OneTyped DEF Shaped
<1>2. req' = [req EXCEPT ![q] = n] /\ UNCHANGED <<tokens, resets>>
  BY DEF Promote, Goto, Become
<1> HIDE DEF n
<1>3. RequestTyped(n) /\ RequestSound(n) /\ HasToken(n)
  BY <1>1, OneTyped DEF RequestTyped, RequestSound, HasToken
<1>4. row'.active = row.active /\ row'.device = row.device
  <2>1. RowOK(row)
    BY DEF IInv, RowInv
  <2>2. row' = row \/ \E s, e : row' = [row EXCEPT !.started = s, !.early = e]
    BY DEF Promote
  <2> QED BY <2>1, <2>2 DEF RowOK
<1>5. ~raced' => ~raced
  BY StaleRow DEF Promote
<1>6. row.active \in BOOLEAN
  BY DEF TokensInv, TokensTyped
<1> QED BY <1>2, <1>3, <1>4, <1>5, <1>6, KeepsTokens

(* An admin's request that ends, and may have switched the account on. *)
LEMMA OnTokens ==
  ASSUME IInv, TokensInv, NEW q \in Requests, RenewEarly(q) \/ RenewLate(q) \/ SwitchOn(q)
  PROVE  TokensInv'
<1>1. req' = [req EXCEPT ![q] = Idle] /\ UNCHANGED <<tokens, resets>> /\ Relies(Stale(q))
  BY DEF RenewEarly, RenewLate, SwitchOn, Stop, Become
<1>2. row'.device = row.device /\ row'.active = Write(<<req[q].seen.active, row.active>>, TRUE)
  <2>1. RowOK(row)
    BY DEF IInv, RowInv
  <2> DEFINE a == Write(<<req[q].seen.active, row.active>>, TRUE)
  <2>2. \/ \E e : row' = [row EXCEPT !.early = e, !.active = a]
        \/ \E e, s : row' = [row EXCEPT !.early = e, !.started = s, !.active = a]
        \/ row' = [row EXCEPT !.active = a]
    BY DEF RenewEarly, RenewLate, SwitchOn
  <2> HIDE DEF a
  <2>3. row'.device = row.device /\ row'.active = a
    BY <2>1, <2>2 DEF RowOK
  <2> QED BY <2>3 DEF a
<1>3. row'.active \in BOOLEAN /\ (row.active => row'.active)
  BY <1>2, SwitchedOn
<1>4. ~raced' => ~raced
  BY <1>1, StaleRow
<1> QED BY <1>1, <1>2, <1>3, <1>4, IdleSound, KeepsTokens DEF HasToken

LEMMA ResetTokens == ASSUME IInv, TokensInv, NEW q \in Requests, ResetDevice(q) PROVE TokensInv'
<1>1. /\ req' = [req EXCEPT ![q] = Idle] /\ tokens' = tokens /\ resets' = resets + 1
      /\ Relies(Stale(q))
  BY DEF ResetDevice, Stop, Become
<1>2. row'.active = row.active
  <2>1. RowOK(row)
    BY DEF IInv, RowInv
  <2> QED BY <2>1 DEF ResetDevice, RowOK
<1>3. resets \in Nat /\ row.active \in BOOLEAN /\ \A t \in tokens : TokenOK(t, resets)
  BY DEF TokensInv, TokensTyped
<1>4. \A t \in tokens : TokenOK(t, resets') /\ t.era # resets'
  BY <1>1, <1>3 DEF TokenOK
<1>5. TokensTyped'
  BY <1>1, <1>2, <1>3, <1>4 DEF TokensTyped
<1>6. ~raced' => ~raced /\ RowSound'
  BY <1>1, <1>2, <1>4, StaleRow DEF TokensInv, RowSound
<1> QED BY <1>1, <1>5, <1>6, IdleSound, TokensStep

(* The expiry, or the admin, that switches the account off: what it has    *)
(* not revoked it has not seen.                                            *)
LEMMA SwitchOffTokens == ASSUME IInv, TokensInv, NEW q \in Requests, SwitchOff(q) PROVE TokensInv'
<1> DEFINE r == req[q]
           unseen == \E t \in tokens : t.live /\ t \notin r.kill
           stale == Stale(q) \/ unseen \/ (r.kind # "disable" /\ r.seen.early # None)
           T == tokens \cap r.kill
<1>1. /\ row' = [row EXCEPT !.active = Write(<<r.seen.active, @>>, FALSE)]
      /\ tokens' = Revoked(T) /\ resets' = resets
      /\ Stop(q) \/ Goto(q, "reread")
  BY DEF SwitchOff
<1>2. Relies(stale)
  BY DEF SwitchOff
<1>3. ~raced' => ~raced /\ ~unseen
  <2>1. stale \in BOOLEAN /\ (unseen => stale)
    BY DEF Stale
  <2> HIDE DEF stale, unseen
  <2> QED BY <1>2, <2>1, RacedType
<1>4. row'.active \in BOOLEAN /\ row'.device = row.device
  <2>1. RowOK(row)
    BY DEF IInv, RowInv
  <2>2. row.active \in BOOLEAN /\ r.seen.active \in BOOLEAN
    BY OneTyped DEF TokensInv, TokensTyped, RequestTyped
  <2>3. Write(<<r.seen.active, row.active>>, FALSE) \in BOOLEAN
    BY <2>2, SwitchedOff
  <2> DEFINE a == Write(<<r.seen.active, row.active>>, FALSE)
  <2>4. row' = [row EXCEPT !.active = a]
    BY <1>1
  <2> HIDE DEF a
  <2>5. row'.active = a /\ row'.device = row.device
    BY <2>1, <2>4 DEF RowOK
  <2> QED BY <2>3, <2>5 DEF a
<1>5. T \subseteq tokens /\ TokensTyped
  BY DEF TokensInv
<1>6. /\ \A t \in tokens' : /\ TokenOK(t, resets)
                            /\ \E u \in tokens : u.id = t.id /\ u.device = t.device /\ u.era = t.era
                            /\ t.live => t \in tokens /\ t \notin T
      /\ \A u \in tokens : \E t \in tokens' : t.id = u.id /\ t.device = u.device
  BY <1>1, <1>5, RevokedTokens
<1>7. TokensTyped'
  BY <1>1, <1>4, <1>5, <1>6 DEF TokensTyped
<1>8. ~raced' => RowSound'
  <2> SUFFICES ASSUME ~raced' PROVE RowSound'
    OBVIOUS
  <2>1. \A t \in tokens' : ~t.live
    BY <1>3, <1>6
  <2>2. RowSound
    BY <1>3 DEF TokensInv
  <2>3. ASSUME NEW t \in tokens', t.era = resets' PROVE t.device = row'.device
    <3>1. PICK u \in tokens : u.device = t.device /\ u.era = t.era
      BY <1>6
    <3>2. u.device = row.device
      BY <1>1, <2>2, <2>3, <3>1 DEF RowSound
    <3> QED BY <1>4, <3>1, <3>2
  <2> QED BY <2>1, <2>3 DEF RowSound
<1> HIDE DEF T
<1>9. CASE Stop(q)
  BY <1>3, <1>6, <1>7, <1>8, <1>9, IdleSound, TokensStep DEF Stop, Become
<1>10. CASE Goto(q, "reread")
  <2> DEFINE n == [r EXCEPT !.pc = "reread"]
  <2>1. n.pc = "reread" /\ n.seen = r.seen /\ n.kind = r.kind /\ n.device = r.device
    BY OneTyped DEF Shaped
  <2>2. req' = [req EXCEPT ![q] = n]
    BY <1>10 DEF Goto, Become
  <2> HIDE DEF n
  <2>3. RequestTyped(n) /\ RequestSound(n)
    BY <2>1, OneTyped DEF RequestTyped, RequestSound
  <2> QED BY <1>3, <1>6, <1>7, <1>8, <2>1, <2>2, <2>3, TokensStep
<1> QED BY <1>1, <1>9, <1>10

(* The first login: no token of the current era may be there, for the      *)
(* account is bound to no device.                                          *)
LEMMA BindTokens == ASSUME IInv, TokensInv, NEW q \in Requests, Bind(q) PROVE TokensInv'
<1> DEFINE n == [req[q] EXCEPT !.pc = "replace", !.seen = row']
<1>1. /\ row' = [row EXCEPT !.device = req[q].device]
      /\ req' = [req EXCEPT ![q] = n]
      /\ tokens' = tokens /\ resets' = resets /\ req[q].pc = "bind"
      /\ Relies(Stale(q))
  BY DEF Bind, Become
<1>2. /\ n.pc = "replace" /\ n.seen = row' /\ n.kind = req[q].kind /\ n.device = req[q].device
  BY OneTyped DEF Shaped
<1>3. row'.device = req[q].device /\ row'.active = row.active
  <2>1. RowOK(row)
    BY DEF IInv, RowInv
  <2> QED BY <1>1, <2>1 DEF RowOK
<1> HIDE DEF n
<1>4. TokensTyped'
  BY <1>1, <1>3 DEF TokensInv, TokensTyped
<1>5. RequestTyped(n)
  BY <1>1, <1>2, <1>3, OneTyped DEF RequestTyped, TokensInv, TokensTyped
<1>6. ~raced' => ~raced /\ RowSound' /\ RequestSound(n)
  <2> SUFFICES ASSUME ~raced' PROVE ~raced /\ RowSound' /\ RequestSound(n)
    OBVIOUS
  <2>1. ~raced /\ row = req[q].seen
    BY <1>1, StaleRow
  <2>2. row.active /\ row.device = None
    BY <1>1, <2>1, OneTyped DEF RequestSound
  <2>3. RowSound /\ TokensTyped
    BY <2>1 DEF TokensInv
  <2>4. \A t \in tokens : t.era # resets
    BY <2>2, <2>3, AccountsAssumption DEF RowSound, TokensTyped, TokenOK
  <2>5. RowSound'
    BY <1>1, <1>3, <2>2, <2>3, <2>4 DEF RowSound
  <2>6. RequestSound(n)
    BY <1>2, <1>3, <2>2 DEF RequestSound
  <2> QED BY <2>1, <2>5, <2>6
<1>7. \A u \in tokens : \E t \in tokens' : t.id = u.id /\ t.device = u.device
  BY <1>1
<1> QED BY <1>1, <1>2, <1>4, <1>5, <1>6, <1>7, TokensStep

-----------------------------------------------------------------------------
(* The steps that write tokens.                                            *)
LEMMA ReplaceTokens == ASSUME IInv, TokensInv, NEW q \in Requests, Replace(q) PROVE TokensInv'
<1> DEFINE T == Live(req[q].device)
<1>1. /\ tokens' = Revoked(T) /\ UNCHANGED <<row, resets, raced>> /\ req[q].pc = "replace"
      /\ Stop(q) \/ Goto(q, "issue")
  BY DEF Replace, history
<1>2. T \subseteq tokens /\ TokensTyped
  BY DEF TokensInv, Live
<1> HIDE DEF T
<1>3. /\ \A t \in tokens' : /\ TokenOK(t, resets)
                            /\ \E u \in tokens : u.id = t.id /\ u.device = t.device /\ u.era = t.era
                            /\ t.live => t \in tokens /\ t \notin T
      /\ \A u \in tokens : \E t \in tokens' : t.id = u.id /\ t.device = u.device
  BY <1>1, <1>2, RevokedTokens
<1>4. TokensTyped'
  BY <1>1, <1>2, <1>3 DEF TokensTyped
<1>5. ~raced' => RowSound'
  <2> SUFFICES ASSUME ~raced' PROVE RowSound'
    OBVIOUS
  <2>1. RowSound
    BY <1>1 DEF TokensInv
  <2>2. \A t \in tokens' : t.live => t \in tokens
    BY <1>3
  <2>3. ASSUME NEW t \in tokens', t.era = resets' PROVE t.device = row'.device
    <3>1. PICK u \in tokens : u.device = t.device /\ u.era = t.era
      BY <1>3
    <3> QED BY <1>1, <2>1, <2>3, <3>1 DEF RowSound
  <2> QED BY <1>1, <2>1, <2>2, <2>3 DEF RowSound
<1>6. CASE Stop(q)
  BY <1>1, <1>3, <1>4, <1>5, <1>6, IdleSound, TokensStep DEF Stop, Become
<1>7. CASE Goto(q, "issue")
  <2> DEFINE n == [req[q] EXCEPT !.pc = "issue"]
  <2>1. n.pc = "issue" /\ n.seen = req[q].seen /\ n.kind = req[q].kind /\ n.device = req[q].device
    BY OneTyped DEF Shaped
  <2>2. req' = [req EXCEPT ![q] = n]
    BY <1>7 DEF Goto, Become
  <2> HIDE DEF n
  <2>3. RequestTyped(n) /\ (~raced => RequestSound(n))
    BY <1>1, <2>1, OneTyped DEF RequestTyped, RequestSound
  <2> QED BY <1>1, <1>3, <1>4, <1>5, <2>1, <2>2, <2>3, TokensStep
<1> QED BY <1>1, <1>6, <1>7

LEMMA NewTokenOK ==
  ASSUME TokensTyped, NEW d \in Devices
  PROVE  TokenOK(NewToken(d), resets) /\ NewToken(d).device = d /\ NewToken(d).era = resets
<1> DEFINE t == NewToken(d)
<1>1. /\ t \in [id : {t.id}, device : {t.device}, live : {t.live}, era : {t.era}]
      /\ t.device = d /\ t.live = TRUE /\ t.era = resets
  BY TokenFields DEF NewToken
<1>2. resets \in 0..resets
  BY DEF TokensTyped
<1> HIDE DEF t
<1>3. t.live \in BOOLEAN
  BY <1>1
<1>4. TokenOK(t, resets) /\ t.device = d /\ t.era = resets
  BY <1>1, <1>2, <1>3 DEF TokenOK
<1> QED BY <1>4 DEF t

(* A token is added to a set that has no other live one of its device.     *)
LEMMA AddToken ==
  ASSUME IInv, TokensInv, NEW q \in Requests, NEW T,
         req[q].pc \in {"issue", "rotate"}, Stop(q), UNCHANGED <<row, resets>>,
         tokens' = T \cup {NewToken(req[q].device)},
         \A t \in T : /\ TokenOK(t, resets)
                      /\ \E u \in tokens : u.id = t.id /\ u.device = t.device /\ u.era = t.era
                      /\ t.live => t \in tokens,
         \A u \in tokens : \E t \in T : t.id = u.id /\ t.device = u.device,
         ~raced' => /\ ~raced /\ row = req[q].seen
                    /\ \A t \in T : t.live => t.device # req[q].device
  PROVE  TokensInv'
<1> DEFINE d == req[q].device
           new == NewToken(d)
<1>1. d \in Devices
  BY OneTyped DEF RequestTyped
<1>2. TokensTyped
  BY DEF TokensInv
<1>3. TokenOK(new, resets) /\ new.device = d /\ new.era = resets
  BY <1>1, <1>2, NewTokenOK
<1>4. tokens' = T \cup {new}
  OBVIOUS
<1> HIDE DEF new
<1>5. TokensTyped'
  BY <1>2, <1>3, <1>4 DEF TokensTyped
<1>6. ~raced' => ~raced /\ RowSound'
  <2> SUFFICES ASSUME ~raced' PROVE ~raced /\ RowSound'
    OBVIOUS
  <2>1. RowSound /\ row.active /\ row.device = d
    BY OneTyped DEF TokensInv, RequestSound
  <2>2. ASSUME NEW t \in tokens', NEW u \in tokens', t.live, u.live, t.device = u.device
        PROVE  t = u
    BY <1>3, <1>4, <2>1, <2>2 DEF RowSound
  <2>3. ASSUME NEW t \in tokens', t.era = resets' PROVE t.device = row'.device
    <3>1. CASE t = new
      BY <1>3, <2>1, <3>1
    <3>2. CASE t \in T
      <4>1. PICK u \in tokens : u.device = t.device /\ u.era = t.era
        BY <3>2
      <4> QED BY <2>1, <2>3, <4>1 DEF RowSound
    <3> QED BY <1>4, <3>1, <3>2
  <2> QED BY <2>1, <2>2, <2>3 DEF RowSound
<1>7. \A u \in tokens : \E t \in tokens' : t.id = u.id /\ t.device = u.device
  BY <1>4
<1> QED BY <1>5, <1>6, <1>7, IdleSound, TokensStep DEF Stop, Become

LEMMA IssueTokens == ASSUME IInv, TokensInv, NEW q \in Requests, Issue(q) PROVE TokensInv'
<1> DEFINE held == Live(req[q].device) # {}
           stale == Stale(q) \/ held
<1>1. /\ req[q].pc = "issue" /\ Stop(q) /\ UNCHANGED <<row, resets>>
      /\ tokens' = tokens \cup {NewToken(req[q].device)}
      /\ Relies(stale)
  BY DEF Issue
<1>2. ~raced' => ~raced /\ row = req[q].seen /\ ~held
  <2>1. stale \in BOOLEAN /\ (held => stale) /\ (row # req[q].seen => stale)
    BY DEF Stale
  <2> HIDE DEF stale, held
  <2> QED BY <1>1, <2>1, RacedType
<1>3. \A t \in tokens : TokenOK(t, resets)
  BY DEF TokensInv, TokensTyped
<1>4. ~held => \A t \in tokens : t.live => t.device # req[q].device
  BY DEF Live
<1> HIDE DEF stale, held
<1> QED BY <1>1, <1>2, <1>3, <1>4, AddToken

(* The token that is presented is the only live one of the device. *)
LEMMA RotateTokens == ASSUME IInv, TokensInv, NEW q \in Requests, Rotate(q) PROVE TokensInv'
<1> DEFINE old == {t \in tokens : t.id = req[q].token}
           spent == \E t \in old : ~t.live
           stale == Stale(q) \/ spent
<1>1. /\ req[q].pc = "rotate" /\ Stop(q) /\ UNCHANGED <<row, resets>>
      /\ tokens' = Revoked(old) \cup {NewToken(req[q].device)}
      /\ Relies(stale)
  BY DEF Rotate
<1>2. ~raced' => ~raced /\ row = req[q].seen /\ ~spent
  <2>1. stale \in BOOLEAN /\ (spent => stale) /\ (row # req[q].seen => stale)
    BY DEF Stale
  <2> HIDE DEF stale, spent
  <2> QED BY <1>1, <2>1, RacedType
<1>3. old \subseteq tokens /\ TokensTyped
  BY DEF TokensInv
<1>4. PICK t \in old : t.device = req[q].device
  BY <1>1, OneTyped DEF HasToken
<1>5. ~spent => t.live
  BY <1>4
<1> HIDE DEF old, spent, stale
<1>6. /\ \A u \in Revoked(old) : /\ TokenOK(u, resets)
                                 /\ \E v \in tokens : v.id = u.id /\ v.device = u.device /\ v.era = u.era
                                 /\ u.live => u \in tokens /\ u \notin old
      /\ \A v \in tokens : \E u \in Revoked(old) : u.id = v.id /\ u.device = v.device
  BY <1>3, RevokedTokens
<1>7. ~raced' => \A u \in Revoked(old) : u.live => u.device # req[q].device
  <2> SUFFICES ASSUME ~raced', NEW u \in Revoked(old), u.live, u.device = req[q].device PROVE FALSE
    OBVIOUS
  <2>1. RowSound /\ t.live
    BY <1>2, <1>5 DEF TokensInv
  <2>2. u \in tokens /\ u \notin old /\ t \in tokens
    BY <1>3, <1>4, <1>6
  <2>3. u = t
    BY <1>4, <2>1, <2>2 DEF RowSound
  <2> QED BY <1>4, <2>2, <2>3
<1> QED BY <1>1, <1>2, <1>6, <1>7, AddToken

-----------------------------------------------------------------------------
LEMMA TokensInductive == Spec => []TokensInv
<1>1. IInv /\ TokensInv /\ [Next]_vars => TokensInv'
  <2> SUFFICES ASSUME IInv, TokensInv, [Next]_vars PROVE TokensInv'
    OBVIOUS
  <2>1. ASSUME NEW q \in Requests, Step(q) PROVE TokensInv'
    BY <2>1, BeginTokens, PromoteTokens, ExpireTokens, RevokeTokens, SwitchOffTokens, BindTokens,
       ReplaceTokens, IssueTokens, ReadTokenTokens, RotateTokens, OnTokens, ResetTokens,
       RecordTokens DEF Step
  <2> QED BY <2>1, TickTokens, StutterTokens DEF Next
<1> QED BY Inductive, InitTokens, <1>1, PTL DEF Spec

(* As long as no request commits on what has changed since it read it, a   *)
(* device has at most one live refresh token, an account that is switched  *)
(* off has none, and every token issued since the last reset is for the    *)
(* device the account is bound to (auth_service.py:48-76, 120-140,         *)
(* 186-210) - for any number of requests and devices, in any interleaving  *)
(* of logins, rotations, expiries, renewals and resets.                    *)
THEOREM TokensStaySound == Spec => []TokensSound
<1>1. ASSUME TokensInv PROVE TokensSound
  <2> SUFFICES ASSUME ~raced PROVE TokensSound
    BY DEF TokensSound
  <2>1. RowSound
    BY <1>1 DEF TokensInv
  <2>2. ASSUME NEW d \in Devices PROVE Cardinality(Live(d)) <= 1
    <3>1. CASE Live(d) = {}
      BY <3>1, FS_EmptySet
    <3>2. ASSUME NEW t, Live(d) = {t} PROVE Cardinality(Live(d)) <= 1
      <4>1. Cardinality({t}) = 1
        BY FS_Singleton
      <4> QED BY <3>2, <4>1
    <3>3. ASSUME NEW t \in Live(d) PROVE Live(d) = {t}
      BY <2>1 DEF RowSound, Live
    <3> QED BY <3>1, <3>2, <3>3
  <2>3. ~row.active => \A d \in Devices : Live(d) = {}
    BY <2>1 DEF RowSound, Live
  <2>4. \A t \in tokens : t.era = resets => t.device = row.device
    BY <2>1 DEF RowSound
  <2> QED BY <2>2, <2>3, <2>4 DEF TokensSound
<1> QED BY TokensInductive, <1>1, PTL

-----------------------------------------------------------------------------
(* The usage: every event has a time, and a late renewal is one that began *)
(* after the end of the cycle it has seen.                                 *)
EventOK(e) == e \in [id : {e.id}, at : Nat, anchor : {e.anchor}]

LateAfterEnd(r) == r.pc = "late" => End(r.seen) <= r.at

UsageInv == /\ \A e \in usage : EventOK(e)
            /\ \A q \in Requests : LateAfterEnd(req[q])

LEMMA InitUsage == Init => UsageInv
<1> SUFFICES ASSUME Init PROVE UsageInv
  OBVIOUS
<1>1. \A e \in usage : EventOK(e)
  BY DEF Init, EventOK
<1>2. \A q \in Requests : req[q].pc = "idle"
  BY DEF Init, Idle
<1> QED BY <1>1, <1>2 DEF UsageInv, LateAfterEnd

(* Only Begin starts a late renewal. *)
LEMMA LaterSteps ==
  ASSUME IInv, NEW q \in Requests, Step(q), ~Begin(q)
  PROVE  \E n : req' = [req EXCEPT ![q] = n] /\ n.pc # "late"
<1>1. Shaped(req[q])
  BY OneRequest DEF RequestOK
<1>2. ASSUME NEW pc, pc # "late", Goto(q, pc) PROVE \E n : req' = [req EXCEPT ![q] = n] /\ n.pc # "late"
  <2> DEFINE n == [req[q] EXCEPT !.pc = pc]
  <2>1. n.pc # "late"
    BY <1>1, <1>2 DEF Shaped
  <2>2. req' = [req EXCEPT ![q] = n]
    BY <1>2 DEF Goto, Become
  <2> HIDE DEF n
  <2> QED BY <2>1, <2>2
<1>3. ASSUME Stop(q) PROVE \E n : req' = [req EXCEPT ![q] = n] /\ n.pc # "late"
  BY <1>3, IdleSound DEF Stop, Become
<1>4. ASSUME NEW r, Shaped(r), NEW pc, pc # "late", Become(q, [r EXCEPT !.pc = pc])
      PROVE  \E n : req' = [req EXCEPT ![q] = n] /\ n.pc # "late"
  <2> DEFINE n == [r EXCEPT !.pc = pc]
  <2>1. n.pc # "late"
    BY <1>4 DEF Shaped
  <2>2. req' = [req EXCEPT ![q] = n]
    BY <1>4 DEF Become
  <2> HIDE DEF n
  <2> QED BY <2>1, <2>2
<1>5. ASSUME NEW r, Shaped(r), Admit(q, r) PROVE \E n : req' = [req EXCEPT ![q] = n] /\ n.pc # "late"
  <2>1. PICK pc \in {"bind", "replace", "token", "idle"} : Become(q, [r EXCEPT !.pc = pc]) \/ Stop(q)
    BY <1>5 DEF Admit
  <2> QED BY <1>3, <1>4, <1>5, <2>1
<1>6. CASE Expire(q) \/ Reread(q)
  <2> DEFINE r == [req[q] EXCEPT !.seen = row]
  <2>1. Shaped(r)
    BY <1>1 DEF Shaped
  <2>2. Admit(q, r) \/ Become(q, [r EXCEPT !.pc = "revoke"])
    BY <1>6 DEF Expire, Reread
  <2> HIDE DEF r
  <2> QED BY <1>4, <1>5, <2>1, <2>2
<1>7. CASE Revoke(q)
  <2> DEFINE n == [req[q] EXCEPT !.pc = "switch", !.kill = {t \in tokens : t.live}]
  <2>1. n.pc # "late"
    BY <1>1 DEF Shaped
  <2>2. req' = [req EXCEPT ![q] = n]
    BY <1>7 DEF Revoke, Become
  <2> HIDE DEF n
  <2> QED BY <2>1, <2>2
<1>8. CASE Bind(q)
  <2> DEFINE n == [req[q] EXCEPT !.pc = "replace", !.seen = row']
  <2>1. n.pc # "late"
    BY <1>1 DEF Shaped
  <2>2. req' = [req EXCEPT ![q] = n]
    BY <1>8 DEF Bind, Become
  <2> HIDE DEF n
  <2> QED BY <2>1, <2>2
<1>9. CASE \/ Promote(q) \/ SwitchOff(q) \/ Replace(q) \/ Issue(q) \/ ReadToken(q) \/ Rotate(q)
           \/ RenewEarly(q) \/ RenewLate(q) \/ SwitchOn(q) \/ ResetDevice(q) \/ Record(q)
  <2>1. Stop(q) \/ \E pc \in {"expire", "reread", "issue", "rotate"} : Goto(q, pc)
    BY <1>9 DEF Promote, SwitchOff, Replace, Issue, ReadToken, Rotate, RenewEarly, RenewLate,
       SwitchOn, ResetDevice, Record
  <2> QED BY <1>2, <1>3, <2>1
<1> QED BY <1>6, <1>7, <1>8, <1>9 DEF Step

LEMMA BeginsLate ==
  ASSUME IInv, NEW q \in Requests, Begin(q)
  PROVE  \E n : req' = [req EXCEPT ![q] = n] /\ LateAfterEnd(n)
<1>1. CASE \E k \in Entering, d \in Devices :
             \E t \in (IF k = "refresh" THEN {u.id : u \in tokens} ELSE {0}) :
               Become(q, [Idle EXCEPT !.pc = "promote", !.kind = k, !.device = d, !.token = t,
                                      !.seen = row])
  <2>1. PICK k \in Entering, d \in Devices :
          \E t : Become(q, [Idle EXCEPT !.pc = "promote", !.kind = k, !.device = d, !.token = t,
                                        !.seen = row])
    BY <1>1
  <2>2. PICK t : Become(q, [Idle EXCEPT !.pc = "promote", !.kind = k, !.device = d, !.token = t,
                                        !.seen = row])
    BY <2>1
  <2> DEFINE n == [Idle EXCEPT !.pc = "promote", !.kind = k, !.device = d, !.token = t, !.seen = row]
  <2>3. n.pc # "late"
    BY DEF Idle
  <2>4. req' = [req EXCEPT ![q] = n]
    BY <2>2 DEF Become
  <2> HIDE DEF n
  <2> QED BY <2>3, <2>4 DEF LateAfterEnd
<1>2. ASSUME NEW k, NEW pc, pc = "late" => End(row) <= now,
             Become(q, [Idle EXCEPT !.pc = pc, !.kind = k, !.at = now, !.seen = row])
      PROVE  \E n : req' = [req EXCEPT ![q] = n] /\ LateAfterEnd(n)
  <2> DEFINE n == [Idle EXCEPT !.pc = pc, !.kind = k, !.at = now, !.seen = row]
  <2>1. n.pc = pc /\ n.seen = row /\ n.at = now
    BY DEF Idle
  <2>2. req' = [req EXCEPT ![q] = n]
    BY <1>2 DEF Become
  <2> HIDE DEF n
  <2> QED BY <1>2, <2>1, <2>2 DEF LateAfterEnd
<1>3. CASE \E k \in Managing :
             Become(q, [Idle EXCEPT !.pc = CASE k = "renew" -> IF now < End(row) THEN "early" ELSE "late"
                                             [] k = "disable" -> "revoke"
                                             [] OTHER -> "write",
                                    !.kind = k, !.at = now, !.seen = row])
  <2>1. PICK k \in Managing :
          Become(q, [Idle EXCEPT !.pc = CASE k = "renew" -> IF now < End(row) THEN "early" ELSE "late"
                                          [] k = "disable" -> "revoke"
                                          [] OTHER -> "write",
                                 !.kind = k, !.at = now, !.seen = row])
    BY <1>3
  <2> DEFINE pc == CASE k = "renew" -> IF now < End(row) THEN "early" ELSE "late"
                     [] k = "disable" -> "revoke"
                     [] OTHER -> "write"
  <2>2. End(row) \in Int /\ now \in Nat
    BY CoverType DEF IInv, RowInv, Counters
  <2>3. pc = "late" => ~(now < End(row))
    OBVIOUS
  <2>4. Become(q, [Idle EXCEPT !.pc = pc, !.kind = k, !.at = now, !.seen = row])
    BY <2>1
  <2> HIDE DEF pc
  <2>5. pc = "late" => End(row) <= now
    BY <2>2, <2>3
  <2> QED BY <1>2, <2>4, <2>5
<1>4. CASE Become(q, [Idle EXCEPT !.pc = "write", !.kind = "use", !.at = now, !.seen = row])
  <2>1. "write" # "late"
    OBVIOUS
  <2> QED BY <1>2, <1>4, <2>1
<1> QED BY <1>1, <1>3, <1>4 DEF Begin

(* What an event becomes, when a renewal is stored. *)
LEMMA MovedEvent ==
  ASSUME NEW e, EventOK(e), NEW a
  PROVE  LET f == [e EXCEPT !.anchor = a] IN
           EventOK(f) /\ f.id = e.id /\ f.at = e.at /\ f.anchor = a
  BY DEF EventOK

LEMMA RecordedEvent ==
  ASSUME NEW i, NEW t \in Nat, NEW a
  PROVE  EventOK([id |-> i, at |-> t, anchor |-> a])
  BY DEF EventOK

LEMMA UsageInductive == Spec => []UsageInv
<1>1. ASSUME IInv, UsageInv, [Next]_vars PROVE UsageInv'
  <2>1. CASE Tick \/ UNCHANGED vars
    <3>1. UNCHANGED <<usage, req>>
      BY <2>1 DEF Tick, vars, account
    <3> QED BY <1>1, <3>1 DEF UsageInv, LateAfterEnd, End
  <2>2. ASSUME NEW q \in Requests, Step(q) PROVE UsageInv'
    <3>1. PICK n : req' = [req EXCEPT ![q] = n] /\ LateAfterEnd(n)
      BY <1>1, <2>2, LaterSteps, BeginsLate DEF LateAfterEnd
    <3>2. \A p \in Requests : LateAfterEnd(req'[p])
      BY <1>1, <3>1 DEF UsageInv, IInv, RequestInv
    <3>3. \A e \in usage' : EventOK(e)
      <4>1. CASE usage' = usage \/ usage' = {}
        BY <1>1, <4>1 DEF UsageInv
      <4>2. CASE RenewEarly(q)
        <5> DEFINE er == IF req[q].seen.early = None THEN req[q].at ELSE req[q].seen.early
        <5>1. usage' = {[e EXCEPT !.anchor = Moved(e, req[q].seen, er)] : e \in usage}
          BY <4>2 DEF RenewEarly
        <5> HIDE DEF er
        <5> QED BY <1>1, <5>1, MovedEvent DEF UsageInv
      <4>3. CASE Record(q)
        <5>1. PICK i, a : usage' = usage \cup {[id |-> i, at |-> now, anchor |-> a]}
          BY <4>3 DEF Record
        <5>2. now \in Nat
          BY <1>1 DEF IInv, Counters
        <5> QED BY <1>1, <5>1, <5>2, RecordedEvent DEF UsageInv
      <4> QED BY <2>2, <4>1, <4>2, <4>3 DEF Step, Begin, Promote, Expire, Revoke, SwitchOff, Reread,
                 Bind, Replace, Issue, ReadToken, Rotate, RenewLate, SwitchOn, ResetDevice, account
    <3> QED BY <3>2, <3>3 DEF UsageInv, LateAfterEnd, End
  <2> QED BY <1>1, <2>1, <2>2 DEF Next
<1> QED BY Inductive, InitUsage, <1>1, PTL DEF Spec

-----------------------------------------------------------------------------
(* What one step may do to an event that counts. *)
Kept(e) == \/ row'.started # row.started
           \/ raced'
           \/ \E f \in usage' : f.id = e.id /\ (Counts(f, row') \/ Remainder(f, row'))

LEMMA StaysCounted ==
  ASSUME NEW e \in usage, Counts(e, row), usage \subseteq usage',
         row'.started = row.started, row'.early = row.early
  PROVE  Kept(e)
<1>1. Counts(e, row')
  BY DEF Counts, End
<1> QED BY <1>1 DEF Kept

LEMMA RenewedCounts ==
  ASSUME IInv, UsageInv, NEW q \in Requests, RenewEarly(q), NEW e \in usage, Counts(e, row)
  PROVE  Kept(e)
<1> SUFFICES ASSUME ~raced', row'.started = row.started
             PROVE  \E f \in usage' : f.id = e.id /\ (Counts(f, row') \/ Remainder(f, row'))
  BY DEF Kept
<1> DEFINE r == req[q]
           er == IF r.seen.early = None THEN r.at ELSE r.seen.early
           f == [e EXCEPT !.anchor = Moved(e, r.seen, er)]
<1>1. /\ row' = [row EXCEPT !.early = Write(<<r.seen.early, @>>, er),
                            !.active = Write(<<r.seen.active, @>>, TRUE)]
      /\ Relies(Stale(q))
      /\ f \in usage'
  BY DEF RenewEarly
<1>2. row = r.seen
  BY <1>1, StaleRow
<1>3. /\ RowOK(row) /\ r.at \in Nat /\ None \notin Nat /\ Cycle \in Nat
      /\ row.started \in Int /\ End(row) \in Int
  BY OneRequest, CoverType, AccountsAssumption DEF IInv, RowInv, RequestOK, RowOK
<1>4. er \in Nat
  BY <1>2, <1>3 DEF RowOK
<1>5. row'.early = er /\ End(row') = End(row)
  <2>1. row'.early = Write(<<row.early, row.early>>, er)
    BY <1>1, <1>2, <1>3 DEF RowOK
  <2> QED BY <2>1, Written DEF End
<1>6. EventOK(e) /\ e.at \in Nat
  BY DEF UsageInv, EventOK
<1>7. f.id = e.id /\ f.at = e.at /\ f.anchor = Moved(e, row, er)
  BY <1>2, <1>6, MovedEvent
<1> HIDE DEF f, er
<1>8. CASE e.at < End(row) /\ e.at >= er /\ e.anchor \in {None, row.started}
  <2>1. f.anchor = End(row)
    BY <1>7, <1>8 DEF Moved
  <2> QED BY <1>1, <1>3, <1>4, <1>5, <1>7, <1>8, <2>1 DEF Remainder
<1>9. CASE /\ ~(e.at < End(row) /\ e.at >= er /\ e.anchor \in {None, row.started})
           /\ e.at >= row.started /\ e.at < er /\ e.anchor = None
  <2>1. f.anchor = row.started
    BY <1>7, <1>9 DEF Moved
  <2> QED BY <1>1, <1>7, <2>1 DEF Counts
<1>10. CASE /\ ~(e.at < End(row) /\ e.at >= er /\ e.anchor \in {None, row.started})
            /\ ~(e.at >= row.started /\ e.at < er /\ e.anchor = None)
  <2>1. f.anchor = e.anchor
    BY <1>7, <1>10 DEF Moved
  <2>2. e.anchor = row.started
    BY <1>3, <1>4, <1>6, <1>10 DEF Counts
  <2> QED BY <1>1, <1>7, <2>1, <2>2 DEF Counts
<1> QED BY <1>8, <1>9, <1>10

(* An event that counts against the budget goes on counting until a cycle  *)
(* begins, or a renewal moves it to the next one, whatever requests are    *)
(* going on - unless the renewal committed on a stale row                  *)
(* (admin.py:441-462, gemini_usage.py:20-33).                              *)
THEOREM UsageStaysCounted == Spec => UsageKept
<1>1. ASSUME IInv, UsageInv, [Next]_vars
      PROVE  [\A e \in usage : Counts(e, row) => Kept(e)]_vars
  <2> SUFFICES ASSUME Next, NEW e \in usage, Counts(e, row) PROVE Kept(e)
    BY <1>1
  <2>1. RowOK(row)
    BY <1>1 DEF IInv, RowInv
  <2>2. CASE Tick
    <3>1. row' = row /\ usage' = usage
      BY <2>2 DEF Tick, account
    <3> QED BY <3>1, StaysCounted
  <2>3. ASSUME NEW q \in Requests, Step(q) PROVE Kept(e)
    <3>1. CASE Promote(q)
      <4>1. CASE row' = row
        BY <3>1, <4>1, StaysCounted DEF Promote
      <4>2. CASE row' # row
        <5>1. row' = [row EXCEPT !.started = End(req[q].seen), !.early = None] /\ Relies(Stale(q))
          BY <3>1, <4>2 DEF Promote
        <5>2. row'.started = End(req[q].seen)
          BY <2>1, <5>1 DEF RowOK
        <5>3. ~raced' => row'.started = row.started + Cycle
          BY <1>1, <5>1, <5>2, StaleRow DEF End
        <5>4. row.started \in Int /\ Cycle \in Nat \ {0}
          BY <2>1, AccountsAssumption DEF RowOK
        <5> QED BY <5>3, <5>4 DEF Kept
      <4> QED BY <4>1, <4>2
    <3>2. CASE RenewEarly(q)
      BY <1>1, <3>2, RenewedCounts
    <3>3. CASE RenewLate(q)
      <4>1. /\ row' = [row EXCEPT !.early = Write(<<req[q].seen.early, @>>, None), !.started = req[q].at,
                                  !.active = Write(<<req[q].seen.active, @>>, TRUE)]
            /\ Relies(Stale(q)) /\ req[q].pc = "late"
        BY <3>3 DEF RenewLate
      <4>2. row'.started = req[q].at
        BY <2>1, <4>1 DEF RowOK
      <4>3. ~raced' => row.started + Cycle <= row'.started
        BY <1>1, <4>1, <4>2, StaleRow DEF UsageInv, LateAfterEnd, End
      <4>4. row.started \in Int /\ Cycle \in Nat \ {0}
        BY <2>1, AccountsAssumption DEF RowOK
      <4> QED BY <4>3, <4>4 DEF Kept
    <3>4. CASE SwitchOff(q) \/ SwitchOn(q)
      <4>1. PICK a : row' = [row EXCEPT !.active = a] /\ usage' = usage
        BY <3>4 DEF SwitchOff, SwitchOn
      <4>2. row'.started = row.started /\ row'.early = row.early
        BY <2>1, <4>1 DEF RowOK
      <4> QED BY <4>1, <4>2, StaysCounted
    <3>5. CASE Bind(q) \/ ResetDevice(q)
      <4>1. PICK d : row' = [row EXCEPT !.device = d] /\ usage' = usage
        BY <3>5 DEF Bind, ResetDevice
      <4>2. row'.started = row.started /\ row'.early = row.early
        BY <2>1, <4>1 DEF RowOK
      <4> QED BY <4>1, <4>2, StaysCounted
    <3>6. CASE \/ Begin(q) \/ Expire(q) \/ Revoke(q) \/ Reread(q) \/ Replace(q) \/ Issue(q)
               \/ ReadToken(q) \/ Rotate(q) \/ Record(q)
      <4>1. row' = row /\ usage \subseteq usage'
        BY <3>6 DEF Begin, Expire, Revoke, Reread, Replace, Issue, ReadToken, Rotate, Record, account
      <4> QED BY <4>1, StaysCounted
    <3> QED BY <2>3, <3>1, <3>2, <3>3, <3>4, <3>5, <3>6 DEF Step
  <2> QED BY <2>2, <2>3 DEF Next
<1>2. [\A e \in usage : Counts(e, row) => Kept(e)]_vars
        => [\A e \in usage :
              Counts(e, row) =>
                \/ row'.started # row.started
                \/ raced'
                \/ \E f \in usage' : f.id = e.id /\ (Counts(f, row') \/ Remainder(f, row'))]_vars
  BY DEF Kept
<1> QED BY Inductive, UsageInductive, <1>1, <1>2, PTL DEF Spec, UsageKept

-----------------------------------------------------------------------------
(* Types.  Every request leaves at most one token, one event, one renewal  *)
(* and one reset behind when it ends, so the ids and the counters do not   *)
(* exceed the requests begun.                                              *)
Serving == {"promote", "expire", "reread", "bind", "replace", "issue", "token", "rotate"}

KindOK(r) == /\ r.pc \in Serving => r.kind \in Entering
             /\ r.pc \in {"revoke", "switch"} => r.kind \in Entering \cup {"disable"}
             /\ r.kind \in Entering => r.device \in Devices

Busy == {q \in Requests : req[q].pc # "idle"}
Done == begun - Cardinality(Busy)

TallyInv == /\ IsFiniteSet(Busy) /\ IsFiniteSet(tokens) /\ IsFiniteSet(usage)
            /\ Cardinality(tokens) <= Done + 1
            /\ Cardinality(usage) <= Done + 1
            /\ paid <= Done
            /\ resets <= Done
            /\ used <= now

AccountsInv == TypeOK /\ TallyInv /\ \A q \in Requests : KindOK(req[q])

Pcs == {"idle", "promote", "expire", "revoke", "switch", "reread", "bind", "replace", "issue",
        "token", "rotate", "early", "late", "write"}

LEMMA RequestFields ==
  ASSUME NEW r \in Request
  PROVE  /\ r.pc \in Pcs /\ r.kind \in Entering \cup Managing \cup {"use"}
         /\ r.device \in Devices \cup {None} /\ r.token \in 0..MaxRequests
         /\ r.at \in Time /\ r.seen \in Row /\ r.kill \subseteq Token
  BY DEF Request, Pcs

LEMMA RequestGoes ==
  ASSUME NEW r \in Request, NEW p \in Pcs
  PROVE  LET n == [r EXCEPT !.pc = p] IN
           n \in Request /\ n.pc = p /\ n.kind = r.kind /\ n.device = r.device /\ n.seen = r.seen
  BY DEF Request, Pcs

LEMMA RequestSees ==
  ASSUME NEW r \in Request, NEW s \in Row
  PROVE  LET n == [r EXCEPT !.seen = s] IN
           n \in Request /\ n.pc = r.pc /\ n.kind = r.kind /\ n.device = r.device /\ n.seen = s
  BY DEF Request

LEMMA RowFields ==
  ASSUME NEW r \in Row
  PROVE  /\ r.active \in BOOLEAN /\ r.started \in Int /\ r.early \in Time \cup {None}
         /\ r.device \in Devices \cup {None} /\ End(r) \in Int
  BY AccountsAssumption DEF Row, End

LEMMA RowChanges ==
  ASSUME NEW r \in Row, NEW a \in BOOLEAN, NEW s \in Int, NEW e \in Time \cup {None},
         NEW d \in Devices \cup {None}
  PROVE  /\ [r EXCEPT !.active = a] \in Row
         /\ [r EXCEPT !.device = d] \in Row
         /\ [r EXCEPT !.started = s, !.early = e] \in Row
         /\ [r EXCEPT !.early = e, !.active = a] \in Row
         /\ [r EXCEPT !.early = e, !.started = s, !.active = a] \in Row
  BY DEF Row

LEMMA IdleTyped == Idle \in Request /\ Idle.pc = "idle" /\ Fresh \in Row /\ KindOK(Idle)
<1>1. Fresh \in Row
  BY AccountsAssumption DEF Fresh, Row, Time
<1>2. Idle \in Request
  BY <1>1, AccountsAssumption DEF Idle, Request, Time
<1> QED BY <1>1, <1>2 DEF Idle, KindOK, Serving, Entering

LEMMA WriteTyped == ASSUME NEW S, NEW a \in S, NEW b \in S, NEW c \in S
                    PROVE  Write(<<a, b>>, c) \in S
<1>1. Write(<<a, b>>, c) = IF c = a THEN b ELSE c
  BY DEF Write
<1> QED BY <1>1

(* A request that ends makes room for one more of everything. *)
LEMMA BusyAfter ==
  ASSUME AccountsInv, NEW q \in Requests, NEW r \in Request, req[q].pc # "idle",
         req' = [req EXCEPT ![q] = r], begun' = begun
  PROVE  /\ IsFiniteSet(Busy')
         /\ Done \in Nat /\ Done < begun
         /\ Done' = Done + (IF r.pc = "idle" THEN 1 ELSE 0)
<1>1. IsFiniteSet(Busy) /\ q \in Busy /\ begun \in Nat /\ paid \in Nat /\ paid <= Done
  BY DEF AccountsInv, TallyInv, TypeOK, Busy
<1>2. Cardinality(Busy) \in Nat /\ Cardinality(Busy) # 0
  BY <1>1, FS_CardinalityType, FS_EmptySet
<1>3. IsFiniteSet(Busy \ {q}) /\ Cardinality(Busy \ {q}) = Cardinality(Busy) - 1
  BY <1>1, FS_RemoveElement
<1>4. req'[q] = r /\ \A p \in Requests \ {q} : req'[p] = req[p]
  BY DEF AccountsInv, TypeOK
<1>5. Busy' = IF r.pc = "idle" THEN Busy \ {q} ELSE Busy
  BY <1>1, <1>4 DEF Busy
<1> QED BY <1>1, <1>2, <1>3, <1>5 DEF Done

(* A step of a request that leaves the types alone.  It adds at most one   *)
(* token, event, renewal or reset, and only when it ends.                  *)
LEMMA StepTyped ==
  ASSUME AccountsInv, NEW q \in Requests, NEW r \in Request, KindOK(r), req[q].pc # "idle",
         req' = [req EXCEPT ![q] = r], UNCHANGED <<now, begun, used>>,
         row' \in Row, tokens' \subseteq Token, usage' \subseteq Usage,
         until' \in Int, disabled' \in BOOLEAN, raced' \in BOOLEAN,
         IsFiniteSet(tokens'), IsFiniteSet(usage'), paid' \in Nat, resets' \in Nat,
         NEW one, one = IF r.pc = "idle" THEN 1 ELSE 0,
         Cardinality(tokens') <= Cardinality(tokens) + one,
         Cardinality(usage') <= Cardinality(usage) + one,
         paid' <= paid + one, resets' <= resets + one
  PROVE  AccountsInv'
<1>1. IsFiniteSet(Busy') /\ Done \in Nat /\ Done < begun /\ Done' = Done + one
  BY BusyAfter
<1>2. /\ begun \in 0..MaxRequests /\ MaxRequests \in Nat /\ begun' = begun
      /\ Cardinality(tokens) <= Done + 1 /\ Cardinality(usage) <= Done + 1
      /\ paid <= Done /\ resets <= Done /\ paid \in Nat /\ resets \in Nat
      /\ used <= now
  BY AccountsAssumption DEF AccountsInv, TallyInv, TypeOK
<1>3. Cardinality(tokens') \in Nat /\ Cardinality(usage') \in Nat
      /\ Cardinality(tokens) \in Nat /\ Cardinality(usage) \in Nat
  BY FS_CardinalityType DEF AccountsInv, TallyInv
<1>4. TallyInv'
  BY <1>1, <1>2, <1>3 DEF TallyInv
<1>5. paid' \in 0..MaxRequests /\ resets' \in 0..MaxRequests
  BY <1>1, <1>2
<1>6. TypeOK'
  BY <1>2, <1>5 DEF AccountsInv, TypeOK, Time
<1>7. \A p \in Requests : KindOK(req'[p])
  BY DEF AccountsInv, TypeOK
<1> QED BY <1>4, <1>6, <1>7 DEF AccountsInv, KindOK

(* What a step leaves as it was. *)
LEMMA Typed ==
  ASSUME AccountsInv
  PROVE  /\ now \in Time /\ row \in Row /\ tokens \subseteq Token /\ usage \subseteq Usage
         /\ until \in Int /\ disabled \in BOOLEAN /\ raced \in BOOLEAN
         /\ IsFiniteSet(tokens) /\ Cardinality(tokens) \in Nat
         /\ IsFiniteSet(usage) /\ Cardinality(usage) \in Nat
         /\ paid \in Nat /\ resets \in Nat
         /\ \A q \in Requests : req[q] \in Request /\ KindOK(req[q])
  BY AccountsAssumption, FS_CardinalityType DEF AccountsInv, TallyInv, TypeOK

LEMMA RequestOnly ==
  ASSUME AccountsInv, NEW q \in Requests, NEW r \in Request, KindOK(r), req[q].pc # "idle",
         req' = [req EXCEPT ![q] = r], UNCHANGED <<now, account, begun, history>>
  PROVE  AccountsInv'
<1> DEFINE one == IF r.pc = "idle" THEN 1 ELSE 0
<1>1. UNCHANGED <<now, row, tokens, usage, begun, paid, until, used, disabled, resets, raced>>
  BY DEF account, history
<1>2. one \in {0, 1}
  OBVIOUS
<1> HIDE DEF one
<1>3. /\ Cardinality(tokens') <= Cardinality(tokens) + one
      /\ Cardinality(usage') <= Cardinality(usage) + one
      /\ paid' <= paid + one /\ resets' <= resets + one
  BY <1>1, <1>2, Typed
<1> QED BY <1>1, <1>3, Typed, StepTyped DEF one

LEMMA AdmitTyped ==
  ASSUME NEW q \in Requests, NEW r \in Request, KindOK(r), r.kind \in Entering, Admit(q, r)
  PROVE  \E n \in Request : KindOK(n) /\ req' = [req EXCEPT ![q] = n]
<1>1. CASE Stop(q)
  BY <1>1, IdleTyped DEF Stop, Become
<1>2. CASE \E p \in {"bind", "replace", "token"} : Become(q, [r EXCEPT !.pc = p])
  <2>1. PICK p \in {"bind", "replace", "token"} : req' = [req EXCEPT ![q] = [r EXCEPT !.pc = p]]
    BY <1>2 DEF Become
  <2>2. p \in Pcs
    BY DEF Pcs
  <2> DEFINE n == [r EXCEPT !.pc = p]
  <2>3. n \in Request /\ n.pc = p /\ n.kind = r.kind /\ n.device = r.device
    BY <2>2, RequestGoes
  <2>4. KindOK(n)
    BY <2>3 DEF KindOK
  <2> QED BY <2>1, <2>3, <2>4
<1> QED BY <1>1, <1>2 DEF Admit, Entering

LEMMA TypedInit == Init => AccountsInv
<1> SUFFICES ASSUME Init PROVE AccountsInv
  OBVIOUS
<1>1. /\ now = 0 /\ begun = 0 /\ paid = 0 /\ used = 0 /\ resets = 0
      /\ until = Cycle /\ disabled = FALSE /\ raced = FALSE
      /\ req = [q \in Requests |-> Idle]
  BY DEF Init
<1>2. row \in Row
  <2>1. Fresh \in Row /\ \A d \in Devices : [Fresh EXCEPT !.device = d] \in Row
    BY IdleTyped, RowChanges, RowFields
  <2> QED BY <2>1 DEF Init
<1>3. tokens \subseteq Token /\ IsFiniteSet(tokens) /\ Cardinality(tokens) <= 1
  <2> DEFINE t == [id |-> 0, device |-> row.device, live |-> TRUE, era |-> 0]
  <2>1. tokens = {} \/ (row.device \in Devices /\ tokens = {t})
    BY DEF Init
  <2>2. row.device \in Devices => t \in Token
    BY AccountsAssumption DEF Token
  <2> HIDE DEF t
  <2>3. /\ IsFiniteSet({}) /\ Cardinality({}) = 0
        /\ IsFiniteSet({t}) /\ Cardinality({t}) = 1
    BY FS_EmptySet, FS_Singleton
  <2> QED BY <2>1, <2>2, <2>3
<1>4. usage \subseteq Usage /\ IsFiniteSet(usage) /\ Cardinality(usage) <= 1
  <2> DEFINE e == [id |-> 0, at |-> 0, anchor |-> None]
  <2>1. usage = {} \/ usage = {e}
    BY DEF Init
  <2>2. e \in Usage
    BY AccountsAssumption DEF Usage, Time
  <2> HIDE DEF e
  <2>3. /\ IsFiniteSet({}) /\ Cardinality({}) = 0
        /\ IsFiniteSet({e}) /\ Cardinality({e}) = 1
    BY FS_EmptySet, FS_Singleton
  <2> QED BY <2>1, <2>2, <2>3
<1>5. Busy = {}
  BY <1>1, IdleTyped DEF Busy
<1>6. TallyInv
  BY <1>1, <1>3, <1>4, <1>5, FS_EmptySet DEF TallyInv, Done
<1>7. TypeOK
  <2>1. /\ now \in 0..MaxTime /\ used \in 0..MaxTime /\ until \in Int
        /\ begun \in 0..MaxRequests /\ paid \in 0..MaxRequests /\ resets \in 0..MaxRequests
    BY <1>1, AccountsAssumption
  <2>2. req \in [Requests -> Request]
    BY <1>1, IdleTyped
  <2> QED BY <1>1, <1>2, <1>3, <1>4, <2>1, <2>2 DEF TypeOK, Time
<1> QED BY <1>1, <1>6, <1>7, IdleTyped DEF AccountsInv

LEMMA TypedTick == ASSUME AccountsInv, Tick PROVE AccountsInv'
<1>1. /\ now < MaxTime /\ now' = now + 1 /\ used' \in {used, used + 1}
      /\ UNCHANGED <<row, tokens, usage, req, begun, paid, until, disabled, resets, raced>>
  BY DEF Tick, account
<1>2. now \in 0..MaxTime /\ used \in 0..MaxTime /\ used <= now /\ MaxTime \in Nat
  BY AccountsAssumption DEF AccountsInv, TypeOK, TallyInv, Time
<1>3. now' \in 0..MaxTime /\ used' \in 0..MaxTime /\ used' <= now'
  BY <1>1, <1>2
<1>4. TypeOK'
  BY <1>1, <1>3 DEF AccountsInv, TypeOK, Time
<1>5. Busy' = Busy
  BY <1>1 DEF Busy
<1>6. TallyInv'
  BY <1>1, <1>3, <1>5 DEF AccountsInv, TallyInv, Done
<1> QED BY <1>1, <1>4, <1>6 DEF AccountsInv

LEMMA TypedBegin == ASSUME AccountsInv, NEW q \in Requests, Begin(q) PROVE AccountsInv'
<1>1. /\ req[q].pc = "idle" /\ begun < MaxRequests /\ begun' = begun + 1
      /\ UNCHANGED <<now, row, tokens, usage, paid, until, used, disabled, resets, raced>>
  BY DEF Begin, account, history
<1>2. PICK r \in Request : KindOK(r) /\ r.pc # "idle" /\ req' = [req EXCEPT ![q] = r]
  <2>1. /\ Idle \in Request /\ row \in Row /\ now \in Time /\ End(row) \in Int
    BY IdleTyped, Typed, RowFields
  <2>2. CASE \E k \in Entering, d \in Devices :
               \E t \in (IF k = "refresh" THEN {u.id : u \in tokens} ELSE {0}) :
                 Become(q, [Idle EXCEPT !.pc = "promote", !.kind = k, !.device = d, !.token = t,
                                        !.seen = row])
    <3>1. PICK k \in Entering, d \in Devices :
               \E t \in (IF k = "refresh" THEN {u.id : u \in tokens} ELSE {0}) :
                 Become(q, [Idle EXCEPT !.pc = "promote", !.kind = k, !.device = d, !.token = t,
                                        !.seen = row])
      BY <2>2
    <3>2. PICK t \in (IF k = "refresh" THEN {u.id : u \in tokens} ELSE {0}) :
                 Become(q, [Idle EXCEPT !.pc = "promote", !.kind = k, !.device = d, !.token = t,
                                        !.seen = row])
      BY <3>1
    <3>3. \A u \in tokens : u.id \in 0..MaxRequests
      BY Typed DEF Token
    <3>4. t \in 0..MaxRequests
      BY <3>3, AccountsAssumption
    <3> DEFINE r == [Idle EXCEPT !.pc = "promote", !.kind = k, !.device = d, !.token = t,
                                 !.seen = row]
    <3>5. r \in Request /\ r.pc = "promote" /\ r.kind = k /\ r.device = d
      BY <2>1, <3>4 DEF Request
    <3>6. req' = [req EXCEPT ![q] = r]
      BY <3>2 DEF Become
    <3> HIDE DEF r
    <3> QED BY <3>5, <3>6 DEF KindOK
  <2>3. ASSUME NEW k \in Managing,
               Become(q, [Idle EXCEPT
                            !.pc = CASE k = "renew" -> IF now < End(row) THEN "early" ELSE "late"
                                     [] k = "disable" -> "revoke"
                                     [] OTHER -> "write",
                            !.kind = k, !.at = now, !.seen = row])
        PROVE  \E r \in Request : KindOK(r) /\ r.pc # "idle" /\ req' = [req EXCEPT ![q] = r]
    <3> DEFINE p == CASE k = "renew" -> IF now < End(row) THEN "early" ELSE "late"
                      [] k = "disable" -> "revoke"
                      [] OTHER -> "write"
               r == [Idle EXCEPT !.pc = p, !.kind = k, !.at = now, !.seen = row]
    <3>1. p \in {"early", "late", "revoke", "write"} /\ (p = "revoke" => k = "disable")
      OBVIOUS
    <3>2. req' = [req EXCEPT ![q] = r]
      BY <2>3 DEF Become
    <3> HIDE DEF p
    <3>3. r \in Request /\ r.pc = p /\ r.kind = k
      BY <2>1, <3>1 DEF Request
    <3> HIDE DEF r
    <3>4. KindOK(r)
      BY <3>1, <3>3 DEF KindOK, Serving, Managing, Entering
    <3> QED BY <3>1, <3>2, <3>3, <3>4
  <2>4. CASE Become(q, [Idle EXCEPT !.pc = "write", !.kind = "use", !.at = now, !.seen = row])
    <3> DEFINE r == [Idle EXCEPT !.pc = "write", !.kind = "use", !.at = now, !.seen = row]
    <3>1. r \in Request /\ r.pc = "write" /\ r.kind = "use"
      BY <2>1 DEF Request
    <3>2. req' = [req EXCEPT ![q] = r]
      BY <2>4 DEF Become
    <3> HIDE DEF r
    <3> QED BY <3>1, <3>2 DEF KindOK, Serving, Entering
  <2> QED BY <2>2, <2>3, <2>4 DEF Begin
<1>3. /\ IsFiniteSet(Busy) /\ q \notin Busy /\ Busy' = Busy \cup {q}
  BY <1>1, <1>2 DEF AccountsInv, TallyInv, TypeOK, Busy
<1>4. /\ IsFiniteSet(Busy') /\ Cardinality(Busy') = Cardinality(Busy) + 1
      /\ Cardinality(Busy) \in Nat
  BY <1>3, FS_AddElement, FS_CardinalityType
<1>5. begun \in 0..MaxRequests /\ MaxRequests \in Nat
  BY AccountsAssumption DEF AccountsInv, TypeOK
<1>6. Done' = Done
  BY <1>1, <1>4, <1>5 DEF Done
<1>7. TallyInv'
  BY <1>1, <1>4, <1>6 DEF AccountsInv, TallyInv
<1>8. begun' \in 0..MaxRequests
  BY <1>1, <1>5
<1>9. req' \in [Requests -> Request] /\ \A p \in Requests : KindOK(req'[p])
  BY <1>2 DEF AccountsInv, TypeOK
<1>10. TypeOK'
  BY <1>1, <1>8, <1>9 DEF AccountsInv, TypeOK, Time
<1> QED BY <1>7, <1>9, <1>10 DEF AccountsInv, KindOK

LEMMA TypedExpire == ASSUME AccountsInv, NEW q \in Requests, Expire(q) PROVE AccountsInv'
<1> DEFINE r == [req[q] EXCEPT !.seen = row]
<1>1. req[q].pc = "expire" /\ UNCHANGED <<now, account, begun, history>>
  BY DEF Expire
<1>2. /\ r \in Request /\ r.pc = "expire" /\ r.kind = req[q].kind /\ r.device = req[q].device
  BY <1>1, Typed, RequestSees
<1>3. KindOK(r) /\ r.kind \in Entering
  BY <1>1, <1>2, Typed DEF KindOK, Serving
<1>4. Become(q, [r EXCEPT !.pc = "revoke"]) \/ Admit(q, r)
  BY DEF Expire
<1> HIDE DEF r
<1>5. \E n \in Request : KindOK(n) /\ req' = [req EXCEPT ![q] = n]
  <2>1. CASE Become(q, [r EXCEPT !.pc = "revoke"])
    <3> DEFINE n == [r EXCEPT !.pc = "revoke"]
    <3>1. n \in Request /\ n.pc = "revoke" /\ n.kind = r.kind /\ n.device = r.device
      BY <1>2, RequestGoes DEF Pcs
    <3>2. req' = [req EXCEPT ![q] = n]
      BY <2>1 DEF Become
    <3> HIDE DEF n
    <3> QED BY <1>3, <3>1, <3>2 DEF KindOK, Serving
  <2> QED BY <1>2, <1>3, <1>4, <2>1, AdmitTyped
<1> QED BY <1>1, <1>5, RequestOnly

LEMMA TypedReread == ASSUME AccountsInv, NEW q \in Requests, Reread(q) PROVE AccountsInv'
<1> DEFINE r == [req[q] EXCEPT !.seen = row]
<1>1. req[q].pc = "reread" /\ UNCHANGED <<now, account, begun, history>> /\ Admit(q, r)
  BY DEF Reread
<1>2. /\ r \in Request /\ r.pc = "reread" /\ r.kind = req[q].kind /\ r.device = req[q].device
  BY <1>1, Typed, RequestSees
<1>3. KindOK(r) /\ r.kind \in Entering
  BY <1>1, <1>2, Typed DEF KindOK, Serving
<1> HIDE DEF r
<1> QED BY <1>1, <1>2, <1>3, AdmitTyped, RequestOnly

LEMMA TypedRevoke == ASSUME AccountsInv, NEW q \in Requests, Revoke(q) PROVE AccountsInv'
<1> DEFINE n == [req[q] EXCEPT !.pc = "switch", !.kill = {t \in tokens : t.live}]
<1>1. /\ req[q].pc = "revoke" /\ UNCHANGED <<now, account, begun, history>>
      /\ req' = [req EXCEPT ![q] = n]
  BY DEF Revoke, Become
<1>2. n \in Request /\ n.pc = "switch" /\ n.kind = req[q].kind /\ n.device = req[q].device
  <2>1. {t \in tokens : t.live} \subseteq Token /\ req[q] \in Request
    BY Typed
  <2> QED BY <2>1 DEF Request
<1> HIDE DEF n
<1>3. KindOK(n)
  BY <1>1, <1>2, Typed DEF KindOK, Serving
<1> QED BY <1>1, <1>2, <1>3, RequestOnly

LEMMA TypedReadToken == ASSUME AccountsInv, NEW q \in Requests, ReadToken(q) PROVE AccountsInv'
<1>1. /\ req[q].pc = "token" /\ UNCHANGED <<now, account, begun, history>>
      /\ Goto(q, "rotate") \/ Stop(q)
  BY DEF ReadToken
<1>2. CASE Stop(q)
  BY <1>1, <1>2, IdleTyped, RequestOnly DEF Stop, Become
<1>3. CASE Goto(q, "rotate")
  <2> DEFINE n == [req[q] EXCEPT !.pc = "rotate"]
  <2>1. /\ n \in Request /\ n.pc = "rotate" /\ n.kind = req[q].kind /\ n.device = req[q].device
    BY Typed, RequestGoes DEF Pcs
  <2>2. req' = [req EXCEPT ![q] = n]
    BY <1>3 DEF Goto, Become
  <2> HIDE DEF n
  <2>3. KindOK(n)
    BY <1>1, <2>1, Typed DEF KindOK, Serving
  <2> QED BY <1>1, <2>1, <2>2, <2>3, RequestOnly
<1> QED BY <1>1, <1>2, <1>3

-----------------------------------------------------------------------------
LEMMA RelyTyped == ASSUME AccountsInv, NEW stale \in BOOLEAN, Relies(stale) PROVE raced' \in BOOLEAN
  BY Typed DEF Relies

(* What a request makes of the row; it goes on at p, or ends. *)
LEMMA GoesTyped ==
  ASSUME AccountsInv, NEW q \in Requests, NEW p \in Pcs, Goto(q, p),
         req[q].pc \in Serving, p \in Serving
  PROVE  \E n \in Request : KindOK(n) /\ n.pc = p /\ req' = [req EXCEPT ![q] = n]
<1> DEFINE n == [req[q] EXCEPT !.pc = p]
<1>1. n \in Request /\ n.pc = p /\ n.kind = req[q].kind /\ n.device = req[q].device
  BY Typed, RequestGoes
<1>2. req' = [req EXCEPT ![q] = n]
  BY DEF Goto, Become
<1> HIDE DEF n
<1>3. KindOK(n)
  BY <1>1, Typed DEF KindOK, Serving
<1> QED BY <1>1, <1>2, <1>3

(* A step that changes the row, and the tokens that there are. *)
LEMMA RowTyped ==
  ASSUME AccountsInv, NEW q \in Requests, NEW r \in Request, KindOK(r), req[q].pc # "idle",
         req' = [req EXCEPT ![q] = r], UNCHANGED <<now, begun, used, usage, paid, until, resets>>,
         row' \in Row, disabled' \in BOOLEAN, raced' \in BOOLEAN,
         tokens' \subseteq Token, IsFiniteSet(tokens'), Cardinality(tokens') <= Cardinality(tokens)
  PROVE  AccountsInv'
<1> DEFINE one == IF r.pc = "idle" THEN 1 ELSE 0
<1>1. one \in {0, 1}
  OBVIOUS
<1> HIDE DEF one
<1>2. Cardinality(tokens') \in Nat
  BY FS_CardinalityType
<1>3. /\ Cardinality(tokens') <= Cardinality(tokens) + one
      /\ Cardinality(usage') <= Cardinality(usage) + one
      /\ paid' <= paid + one /\ resets' <= resets + one
  BY <1>1, <1>2, Typed
<1> QED BY <1>3, Typed, StepTyped DEF one

LEMMA SeenTyped ==
  ASSUME AccountsInv, NEW q \in Requests
  PROVE  req[q].seen \in Row /\ (row # req[q].seen) \in BOOLEAN /\ End(req[q].seen) \in Int
  BY Typed, RequestFields, RowFields

LEMMA TypedPromote == ASSUME AccountsInv, NEW q \in Requests, Promote(q) PROVE AccountsInv'
<1>1. /\ req[q].pc = "promote" /\ Goto(q, "expire")
      /\ UNCHANGED <<now, tokens, usage, begun, paid, until, used, disabled, resets>>
  BY DEF Promote
<1>2. PICK n \in Request : KindOK(n) /\ req' = [req EXCEPT ![q] = n]
  BY <1>1, GoesTyped DEF Serving, Pcs
<1>3. row' \in Row /\ raced' \in BOOLEAN
  <2>1. CASE UNCHANGED <<row, raced>>
    BY <2>1, Typed
  <2>2. CASE row' = [row EXCEPT !.started = End(req[q].seen), !.early = None] /\ Relies(Stale(q))
    BY <2>2, Typed, SeenTyped, RowChanges, RowFields, RelyTyped DEF Stale
  <2> QED BY <2>1, <2>2 DEF Promote
<1>4. /\ disabled' \in BOOLEAN /\ tokens' \subseteq Token /\ IsFiniteSet(tokens')
      /\ Cardinality(tokens') <= Cardinality(tokens)
  BY <1>1, Typed
<1> QED BY <1>1, <1>2, <1>3, <1>4, RowTyped

LEMMA RevokedTyped ==
  ASSUME AccountsInv, NEW T, T \subseteq tokens
  PROVE  Revoked(T) \subseteq Token /\ IsFiniteSet(Revoked(T)) /\ Cardinality(Revoked(T)) <= Cardinality(tokens)
<1> DEFINE f == [t \in tokens |-> IF t \in T THEN [t EXCEPT !.live = FALSE] ELSE t]
<1>1. Revoked(T) = {f[t] : t \in tokens}
  BY DEF Revoked
<1>2. f \in Surjection(tokens, Revoked(T))
  <2>1. f \in [tokens -> Revoked(T)] /\ \A u \in Revoked(T) : \E t \in tokens : f[t] = u
    BY <1>1
  <2> HIDE DEF f
  <2> QED BY <2>1 DEF Surjection
<1>3. IsFiniteSet(Revoked(T)) /\ Cardinality(Revoked(T)) <= Cardinality(tokens)
  <2>1. IsFiniteSet(tokens)
    BY Typed
  <2> HIDE DEF f
  <2> QED BY <1>2, <2>1, FS_Surjection
<1>4. \A t \in Token : [t EXCEPT !.live = FALSE] \in Token
  BY DEF Token
<1> QED BY <1>3, <1>4, Typed DEF Revoked

LEMMA TypedSwitchOff == ASSUME AccountsInv, NEW q \in Requests, SwitchOff(q) PROVE AccountsInv'
<1> DEFINE stale == \/ Stale(q)
                    \/ \E t \in tokens : t.live /\ t \notin req[q].kill
                    \/ req[q].kind # "disable" /\ req[q].seen.early # None
<1>1. /\ req[q].pc = "switch"
      /\ row' = [row EXCEPT !.active = Write(<<req[q].seen.active, @>>, FALSE)]
      /\ tokens' = Revoked(tokens \cap req[q].kill)
      /\ IF req[q].kind = "disable" THEN Stop(q) ELSE Goto(q, "reread")
      /\ disabled' = (disabled \/ req[q].kind = "disable")
      /\ Relies(stale)
      /\ UNCHANGED <<now, usage, begun, paid, until, used, resets>>
  BY DEF SwitchOff
<1>2. row' \in Row
  <2>1. row.active \in BOOLEAN /\ req[q].seen.active \in BOOLEAN
    BY Typed, SeenTyped, RowFields
  <2>2. Write(<<req[q].seen.active, row.active>>, FALSE) \in BOOLEAN
    BY <2>1, WriteTyped
  <2> DEFINE a == Write(<<req[q].seen.active, row.active>>, FALSE)
  <2>3. row' = [row EXCEPT !.active = a]
    BY <1>1
  <2> HIDE DEF a
  <2> QED BY <2>2, <2>3, Typed, RowChanges, RowFields DEF a
<1>3. stale \in BOOLEAN
  BY SeenTyped DEF Stale
<1>4. raced' \in BOOLEAN /\ disabled' \in BOOLEAN
  <2> HIDE DEF stale
  <2> QED BY <1>1, <1>3, Typed, RelyTyped
<1>5. \E n \in Request : KindOK(n) /\ req' = [req EXCEPT ![q] = n]
  <2>1. CASE Stop(q)
    BY <2>1, IdleTyped DEF Stop, Become
  <2>2. CASE req[q].kind # "disable" /\ Goto(q, "reread")
    <3> DEFINE n == [req[q] EXCEPT !.pc = "reread"]
    <3>1. n \in Request /\ n.pc = "reread" /\ n.kind = req[q].kind /\ n.device = req[q].device
      BY Typed, RequestGoes, ZenonT(30) DEF Pcs
    <3>2. req' = [req EXCEPT ![q] = n]
      BY <2>2 DEF Goto, Become
    <3> HIDE DEF n
    <3>3. KindOK(n)
      BY <1>1, <2>2, <3>1, Typed DEF KindOK, Serving
    <3> QED BY <3>1, <3>2, <3>3
  <2> QED BY <1>1, <2>1, <2>2
<1>6. /\ tokens' \subseteq Token /\ IsFiniteSet(tokens')
      /\ Cardinality(tokens') <= Cardinality(tokens)
  BY <1>1, RevokedTyped
<1> HIDE DEF stale
<1> QED BY <1>1, <1>2, <1>4, <1>5, <1>6, RowTyped

LEMMA TypedBind == ASSUME AccountsInv, NEW q \in Requests, Bind(q) PROVE AccountsInv'
<1>1. /\ req[q].pc = "bind" /\ row' = [row EXCEPT !.device = req[q].device]
      /\ req' = [req EXCEPT ![q] = [req[q] EXCEPT !.pc = "replace", !.seen = row']]
      /\ Relies(Stale(q))
      /\ UNCHANGED <<now, tokens, usage, begun, paid, until, used, disabled, resets>>
  BY DEF Bind, Become
<1>2. row' \in Row /\ raced' \in BOOLEAN
  BY <1>1, Typed, RequestFields, RowChanges, RowFields, SeenTyped, RelyTyped DEF Stale
<1> DEFINE n == [req[q] EXCEPT !.pc = "replace", !.seen = row']
<1>3. n \in Request /\ n.pc = "replace" /\ n.kind = req[q].kind /\ n.device = req[q].device
  BY <1>2, Typed DEF Request
<1>4. req' = [req EXCEPT ![q] = n]
  BY <1>1
<1> HIDE DEF n
<1>5. KindOK(n)
  BY <1>1, <1>3, Typed DEF KindOK, Serving
<1>6. /\ disabled' \in BOOLEAN /\ tokens' \subseteq Token /\ IsFiniteSet(tokens')
      /\ Cardinality(tokens') <= Cardinality(tokens)
  BY <1>1, Typed
<1> QED BY <1>1, <1>2, <1>3, <1>4, <1>5, <1>6, RowTyped

LEMMA TypedReplace == ASSUME AccountsInv, NEW q \in Requests, Replace(q) PROVE AccountsInv'
<1>1. /\ req[q].pc = "replace" /\ tokens' = Revoked(Live(req[q].device))
      /\ Goto(q, "issue") \/ Stop(q)
      /\ UNCHANGED <<now, row, usage, begun, paid, until, used, disabled, resets, raced>>
  BY DEF Replace, history
<1>2. Live(req[q].device) \subseteq tokens
  BY DEF Live
<1>3. /\ tokens' \subseteq Token /\ IsFiniteSet(tokens')
      /\ Cardinality(tokens') <= Cardinality(tokens)
  BY <1>1, <1>2, RevokedTyped
<1>4. PICK n \in Request : KindOK(n) /\ req' = [req EXCEPT ![q] = n]
  <2>1. CASE Stop(q)
    BY <2>1, IdleTyped DEF Stop, Become
  <2> QED BY <1>1, <2>1, GoesTyped DEF Serving, Pcs
<1> QED BY <1>1, <1>3, <1>4, Typed, RowTyped

(* A new token has a new id. *)
LEMMA MintTyped ==
  ASSUME AccountsInv, NEW q \in Requests, req[q].pc \in {"issue", "rotate"}
  PROVE  NewToken(req[q].device) \in Token
<1>1. req[q].device \in Devices
  BY Typed DEF KindOK, Serving
<1>2. /\ begun' = begun' /\ Done < begun /\ Done \in Nat
  <2> DEFINE others == Cardinality(Busy \ {q})
  <2>1. IsFiniteSet(Busy) /\ q \in Busy /\ paid \in Nat /\ paid <= Done /\ begun \in Nat
    BY Typed DEF AccountsInv, TallyInv, TypeOK, Busy
  <2>2. Cardinality(Busy) \in Nat /\ Cardinality(Busy) # 0
    BY <2>1, FS_CardinalityType, FS_EmptySet
  <2> QED BY <2>1, <2>2 DEF Done
<1>3. Cardinality(tokens) \in 0..MaxRequests /\ resets \in 0..MaxRequests
  BY <1>2, Typed, AccountsAssumption DEF AccountsInv, TallyInv, TypeOK
<1> QED BY <1>1, <1>3 DEF NewToken, Token

(* A request that ends with one more token. *)
LEMMA AddTyped ==
  ASSUME AccountsInv, NEW q \in Requests, req[q].pc # "idle", Stop(q),
         NEW T, T \subseteq Token, IsFiniteSet(T), Cardinality(T) <= Cardinality(tokens),
         NEW t \in Token, tokens' = T \cup {t}, raced' \in BOOLEAN,
         UNCHANGED <<now, row, usage, begun, paid, until, used, disabled, resets>>
  PROVE  AccountsInv'
<1>1. req' = [req EXCEPT ![q] = Idle]
  BY DEF Stop, Become
<1>2. /\ tokens' \subseteq Token /\ IsFiniteSet(tokens') /\ Cardinality(tokens') <= Cardinality(tokens) + 1
  <2>1. /\ IsFiniteSet(T \cup {t}) /\ Cardinality(T) \in Nat
        /\ Cardinality(T \cup {t}) = IF t \in T THEN Cardinality(T) ELSE Cardinality(T) + 1
    BY FS_AddElement, FS_CardinalityType
  <2>2. Cardinality(tokens) \in Nat
    BY Typed
  <2> QED BY <2>1, <2>2
<1>3. /\ Cardinality(usage') <= Cardinality(usage) + 1 /\ paid' <= paid + 1 /\ resets' <= resets + 1
  BY Typed
<1> QED BY <1>1, <1>2, <1>3, IdleTyped, Typed, StepTyped

LEMMA TypedIssue == ASSUME AccountsInv, NEW q \in Requests, Issue(q) PROVE AccountsInv'
<1> DEFINE stale == Stale(q) \/ Live(req[q].device) # {}
<1>1. /\ req[q].pc = "issue" /\ tokens' = tokens \cup {NewToken(req[q].device)} /\ Stop(q)
      /\ Relies(stale)
      /\ UNCHANGED <<now, row, usage, begun, paid, until, used, disabled, resets>>
  BY DEF Issue
<1>2. stale \in BOOLEAN
  BY DEF Stale
<1> HIDE DEF stale
<1>3. raced' \in BOOLEAN
  BY <1>1, <1>2, RelyTyped
<1>4. NewToken(req[q].device) \in Token
  BY <1>1, MintTyped
<1> QED BY <1>1, <1>3, <1>4, Typed, AddTyped

LEMMA TypedRotate == ASSUME AccountsInv, NEW q \in Requests, Rotate(q) PROVE AccountsInv'
<1> DEFINE old == {t \in tokens : t.id = req[q].token}
           stale == Stale(q) \/ \E t \in old : ~t.live
<1>1. /\ req[q].pc = "rotate" /\ tokens' = Revoked(old) \cup {NewToken(req[q].device)} /\ Stop(q)
      /\ Relies(stale)
      /\ UNCHANGED <<now, row, usage, begun, paid, until, used, disabled, resets>>
  BY DEF Rotate
<1>2. stale \in BOOLEAN /\ old \subseteq tokens
  BY DEF Stale
<1> HIDE DEF stale, old
<1>3. raced' \in BOOLEAN
  BY <1>1, <1>2, RelyTyped
<1>4. NewToken(req[q].device) \in Token
  BY <1>1, MintTyped
<1>5. Revoked(old) \subseteq Token /\ IsFiniteSet(Revoked(old)) /\ Cardinality(Revoked(old)) <= Cardinality(tokens)
  BY <1>2, RevokedTyped
<1> QED BY <1>1, <1>3, <1>4, <1>5, AddTyped

-----------------------------------------------------------------------------
(* The admin's requests end with the step that changes the row. *)
LEMMA ManageTyped ==
  ASSUME AccountsInv, NEW q \in Requests, req[q].pc # "idle", Stop(q), row' \in Row,
         UNCHANGED <<now, begun, used, tokens>>, Relies(Stale(q)),
         disabled' \in BOOLEAN, until' \in Int,
         usage' \subseteq Usage, IsFiniteSet(usage'), Cardinality(usage') <= Cardinality(usage),
         paid' \in {paid, paid + 1}, resets' \in {resets, resets + 1}
  PROVE  AccountsInv'
<1>1. req' = [req EXCEPT ![q] = Idle]
  BY DEF Stop, Become
<1>2. raced' \in BOOLEAN
  BY SeenTyped, RelyTyped DEF Stale
<1>3. Cardinality(usage') \in Nat
  BY FS_CardinalityType
<1>4. /\ Cardinality(usage') <= Cardinality(usage) + 1 /\ Cardinality(tokens') <= Cardinality(tokens) + 1
      /\ paid' \in Nat /\ resets' \in Nat /\ paid' <= paid + 1 /\ resets' <= resets + 1
  BY <1>3, Typed
<1>5. tokens' \subseteq Token /\ IsFiniteSet(tokens')
  BY Typed
<1> QED BY <1>1, <1>2, <1>4, <1>5, IdleTyped, StepTyped

(* The columns the admin's requests write. *)
LEMMA ColumnsTyped ==
  ASSUME AccountsInv, NEW q \in Requests, NEW e \in Time \cup {None}
  PROVE  LET r == req[q] IN
         /\ Write(<<r.seen.active, row.active>>, TRUE) \in BOOLEAN
         /\ Write(<<r.seen.early, row.early>>, e) \in Time \cup {None}
         /\ Write(<<r.seen.device, row.device>>, None) \in Devices \cup {None}
<1>1. /\ row.active \in BOOLEAN /\ req[q].seen.active \in BOOLEAN
      /\ row.early \in Time \cup {None} /\ req[q].seen.early \in Time \cup {None}
      /\ row.device \in Devices \cup {None} /\ req[q].seen.device \in Devices \cup {None}
  BY Typed, SeenTyped, RowFields
<1>2. Write(<<req[q].seen.active, row.active>>, TRUE) \in BOOLEAN
  BY <1>1, WriteTyped
<1>3. Write(<<req[q].seen.early, row.early>>, e) \in Time \cup {None}
  BY <1>1, WriteTyped
<1>4. Write(<<req[q].seen.device, row.device>>, None) \in Devices \cup {None}
  BY <1>1, WriteTyped
<1> QED BY <1>2, <1>3, <1>4

(* Moving an event moves no other one onto it. *)
LEMMA MovedTyped ==
  ASSUME AccountsInv, NEW r \in Row, NEW er
  PROVE  LET U == {[e EXCEPT !.anchor = Moved(e, r, er)] : e \in usage}
         IN  U \subseteq Usage /\ IsFiniteSet(U) /\ Cardinality(U) <= Cardinality(usage)
<1> DEFINE f == [e \in usage |-> [e EXCEPT !.anchor = Moved(e, r, er)]]
           U == {f[e] : e \in usage}
<1>1. \A e \in usage : f[e] \in Usage
  <2> TAKE e \in usage
  <2>1. e \in Usage /\ e.anchor \in Int \cup {None}
    BY Typed DEF Usage
  <2>2. Moved(e, r, er) \in Int \cup {None}
    BY <2>1, RowFields DEF Moved
  <2> QED BY <2>1, <2>2 DEF Usage
<1>2. IsFiniteSet(usage)
  BY Typed
<1>3. U = {[e EXCEPT !.anchor = Moved(e, r, er)] : e \in usage}
  OBVIOUS
<1>4. f \in [usage -> U]
  OBVIOUS
<1>5. \A u \in U : \E e \in usage : f[e] = u
  OBVIOUS
<1>6. U \subseteq Usage
  BY <1>1
<1> HIDE DEF f, U
<1>7. f \in Surjection(usage, U)
  BY <1>4, <1>5 DEF Surjection
<1>8. IsFiniteSet(U) /\ Cardinality(U) <= Cardinality(usage)
  BY <1>2, <1>7, FS_Surjection
<1> QED BY <1>3, <1>6, <1>8

LEMMA TypedRenewEarly == ASSUME AccountsInv, NEW q \in Requests, RenewEarly(q) PROVE AccountsInv'
<1> DEFINE er == IF req[q].seen.early = None THEN req[q].at ELSE req[q].seen.early
           e  == Write(<<req[q].seen.early, row.early>>, er)
           a  == Write(<<req[q].seen.active, row.active>>, TRUE)
<1>1. /\ req[q].pc = "early" /\ row' = [row EXCEPT !.early = e, !.active = a]
      /\ usage' = {[u EXCEPT !.anchor = Moved(u, req[q].seen, er)] : u \in usage}
      /\ Stop(q) /\ paid' = paid + 1 /\ until' = End(req[q].seen) + Cycle
      /\ disabled' = FALSE /\ Relies(Stale(q))
      /\ UNCHANGED <<now, tokens, begun, used, resets>>
  BY DEF RenewEarly
<1>2. er \in Time \cup {None}
  BY Typed, RequestFields, SeenTyped, RowFields
<1>3. e \in Time \cup {None} /\ a \in BOOLEAN
  <2> HIDE DEF er
  <2> QED BY <1>2, ColumnsTyped
<1> HIDE DEF er, e, a
<1>4. row' \in Row
  BY <1>1, <1>3, Typed, RowChanges, RowFields
<1>5. usage' \subseteq Usage /\ IsFiniteSet(usage') /\ Cardinality(usage') <= Cardinality(usage)
  <2> DEFINE U == {[u EXCEPT !.anchor = Moved(u, req[q].seen, er)] : u \in usage}
  <2>1. U \subseteq Usage /\ IsFiniteSet(U) /\ Cardinality(U) <= Cardinality(usage)
    BY ZenonT(30), SeenTyped, MovedTyped
  <2>2. usage' = U
    BY <1>1
  <2> HIDE DEF U
  <2> QED BY <2>1, <2>2
<1>6. until' \in Int
  BY <1>1, SeenTyped, AccountsAssumption
<1> QED BY <1>1, <1>4, <1>5, <1>6, ManageTyped

LEMMA TypedRenewLate == ASSUME AccountsInv, NEW q \in Requests, RenewLate(q) PROVE AccountsInv'
<1> DEFINE e == Write(<<req[q].seen.early, row.early>>, None)
           a == Write(<<req[q].seen.active, row.active>>, TRUE)
<1>1. /\ req[q].pc = "late" /\ row' = [row EXCEPT !.early = e, !.started = req[q].at, !.active = a]
      /\ usage' = {} /\ Stop(q) /\ paid' = paid + 1 /\ until' = req[q].at + Cycle
      /\ disabled' = FALSE /\ Relies(Stale(q))
      /\ UNCHANGED <<now, tokens, begun, used, resets>>
  BY DEF RenewLate
<1>2. e \in Time \cup {None} /\ a \in BOOLEAN
  BY ColumnsTyped
<1> HIDE DEF e, a
<1>3. req[q].at \in Int
  BY Typed, RequestFields DEF Time
<1>4. row' \in Row
  BY <1>1, <1>2, <1>3, Typed, RowChanges, RowFields
<1>5. usage' \subseteq Usage /\ IsFiniteSet(usage') /\ Cardinality(usage') <= Cardinality(usage)
  BY <1>1, Typed, FS_EmptySet
<1>6. until' \in Int
  BY <1>1, <1>3, AccountsAssumption
<1> QED BY <1>1, <1>4, <1>5, <1>6, ManageTyped

LEMMA TypedSwitchOn == ASSUME AccountsInv, NEW q \in Requests, SwitchOn(q) PROVE AccountsInv'
<1> DEFINE a == Write(<<req[q].seen.active, row.active>>, TRUE)
<1>1. /\ req[q].pc = "write" /\ row' = [row EXCEPT !.active = a] /\ Stop(q)
      /\ disabled' = FALSE /\ Relies(Stale(q))
      /\ UNCHANGED <<now, tokens, usage, begun, paid, until, used, resets>>
  BY DEF SwitchOn
<1>2. a \in BOOLEAN
  BY ColumnsTyped
<1> HIDE DEF a
<1>3. row' \in Row
  BY <1>1, <1>2, Typed, RowChanges, RowFields
<1>4. usage' \subseteq Usage /\ IsFiniteSet(usage') /\ Cardinality(usage') <= Cardinality(usage)
  BY <1>1, Typed
<1>5. until' \in Int
  BY <1>1, Typed
<1> QED BY <1>1, <1>3, <1>4, <1>5, ManageTyped

LEMMA TypedResetDevice == ASSUME AccountsInv, NEW q \in Requests, ResetDevice(q) PROVE AccountsInv'
<1> DEFINE d == Write(<<req[q].seen.device, row.device>>, None)
<1>1. /\ req[q].pc = "write" /\ row' = [row EXCEPT !.device = d] /\ Stop(q)
      /\ resets' = resets + 1 /\ Relies(Stale(q))
      /\ UNCHANGED <<now, tokens, usage, begun, paid, until, used, disabled>>
  BY DEF ResetDevice
<1>2. d \in Devices \cup {None}
  BY ColumnsTyped
<1> HIDE DEF d
<1>3. row' \in Row
  BY <1>1, <1>2, Typed, RowChanges, RowFields
<1>4. usage' \subseteq Usage /\ IsFiniteSet(usage') /\ Cardinality(usage') <= Cardinality(usage)
  BY <1>1, Typed
<1>5. until' \in Int /\ disabled' \in BOOLEAN
  BY <1>1, Typed
<1> QED BY <1>1, <1>3, <1>4, <1>5, ManageTyped

LEMMA TypedRecord == ASSUME AccountsInv, NEW q \in Requests, Record(q) PROVE AccountsInv'
<1> DEFINE e == [id |-> Cardinality(usage), at |-> now, anchor |-> Anchor(req[q].seen, req[q].at)]
<1>1. /\ req[q].pc = "write" /\ usage' = usage \cup {e} /\ req' = [req EXCEPT ![q] = Idle]
      /\ UNCHANGED <<now, row, tokens, begun, paid, until, used, disabled, resets, raced>>
  BY DEF Record, history, Stop, Become
<1>2. e \in Usage
  <2>1. Anchor(req[q].seen, req[q].at) \in Int
    BY SeenTyped, RowFields DEF Anchor
  <2>2. Cardinality(usage) \in 0..MaxRequests
    <3>1. Done \in Nat /\ Done < begun
      BY <1>1, IdleTyped, BusyAfter
    <3>2. begun \in 0..MaxRequests /\ Cardinality(usage) <= Done + 1
      BY DEF AccountsInv, TypeOK, TallyInv
    <3> QED BY <3>1, <3>2, Typed, AccountsAssumption
  <2> QED BY <2>1, <2>2, Typed DEF Usage
<1> HIDE DEF e
<1>3. /\ usage' \subseteq Usage /\ IsFiniteSet(usage') /\ Cardinality(usage') <= Cardinality(usage) + 1
  <2>1. /\ IsFiniteSet(usage \cup {e})
        /\ Cardinality(usage \cup {e}) = IF e \in usage THEN Cardinality(usage) ELSE Cardinality(usage) + 1
    BY Typed, FS_AddElement
  <2> QED BY <1>1, <1>2, <2>1, Typed
<1>4. Cardinality(tokens') <= Cardinality(tokens) + 1 /\ paid' <= paid + 1 /\ resets' <= resets + 1
  BY <1>1, Typed
<1> QED BY <1>1, <1>3, <1>4, IdleTyped, Typed, StepTyped

LEMMA TypedStutter == ASSUME AccountsInv, UNCHANGED vars PROVE AccountsInv'
<1>1. UNCHANGED <<now, row, tokens, usage, req, begun, paid, until, used, disabled, resets, raced>>
  BY DEF vars, account, history
<1>2. Busy' = Busy
  BY <1>1 DEF Busy
<1>3. TypeOK' /\ TallyInv'
  BY <1>1, <1>2 DEF AccountsInv, TypeOK, TallyInv, Done
<1> QED BY <1>1, <1>3 DEF AccountsInv, KindOK

LEMMA TypedNext == AccountsInv /\ [Next]_vars => AccountsInv'
<1> SUFFICES ASSUME AccountsInv, [Next]_vars PROVE AccountsInv'
  OBVIOUS
<1>1. ASSUME NEW q \in Requests, Step(q) PROVE AccountsInv'
  BY <1>1, TypedBegin, TypedPromote, TypedExpire, TypedRevoke, TypedSwitchOff, TypedReread, TypedBind,
     TypedReplace, TypedIssue, TypedReadToken, TypedRotate, TypedRenewEarly, TypedRenewLate,
     TypedSwitchOn, TypedResetDevice, TypedRecord DEF Step
<1> QED BY <1>1, TypedTick, TypedStutter DEF Next

(* The types of an account: however the requests commit over each other,   *)
(* the ids of its tokens and events, its renewals and its resets stay      *)
(* within the requests begun, and a token is for a device                  *)
(* (auth_service.py:48-76, gemini_usage.py:20-33, admin.py:411-477).       *)
THEOREM AccountsTypeCorrect == Spec => []TypeOK
<1>1. AccountsInv => TypeOK
  BY DEF AccountsInv
<1> QED BY TypedInit, TypedNext, <1>1, PTL DEF Spec

-----------------------------------------------------------------------------
(***************************************************************************)
(* One-time tokens.  A token is accepted once at most, whatever Redis does *)
(* to the ticket of a failing command.                                     *)
(***************************************************************************)
Remembered(t) == \E p \in Procs : t \in memory[p]

Copies(t) == (IF t \in stored THEN 1 ELSE 0) + (IF Remembered(t) THEN 1 ELSE 0)

(* What is left to take and what was taken never exceed what was issued:   *)
(* one copy, or two of a ticket whose SET failed and was applied.          *)
Balance == \A t \in Tokens : takes[t] + Copies(t) <= (IF t \in doubled THEN 2 ELSE 1)

OneKeeper == \A t \in Tokens : \A p, q \in Procs :
               t \in memory[p] /\ t \in memory[q] => p = q

Undrawn == \A t \in Tokens \ drawn : takes[t] = 0 /\ t \notin stored /\ ~Remembered(t)

Timely == /\ doubled \subseteq drawn
          /\ stored \cap expired = {}
          /\ ~late

Referenced == \A t \in Uploads : t \in stored \/ Remembered(t) => t \in files

TokenInv == TokensTypeOK /\ Balance /\ OneKeeper /\ Undrawn /\ Timely /\ Referenced

-----------------------------------------------------------------------------
(* Pruning a memory adds nothing to it. *)
LEMMA PrunedIsLess == ASSUME NEW p, NEW t PROVE Pruned(p, t) \subseteq memory[p]
  BY DEF Pruned

LEMMA InitTokenInv == TokensInit => TokenInv
<1> SUFFICES ASSUME TokensInit PROVE TokenInv
  OBVIOUS
<1>1. TokensTypeOK
  <2>1. running \subseteq Procs /\ configured \in BOOLEAN /\ late \in BOOLEAN
    BY DEF TokensInit
  <2>2. memory \in [Procs -> SUBSET Tokens] /\ takes \in [Tokens -> Nat]
    BY DEF TokensInit
  <2>3. losses \in 0..MaxLosses
    BY TokensAssumption DEF TokensInit
  <2> QED BY <2>1, <2>2, <2>3 DEF TokensInit, TokensTypeOK
<1>2. \A t \in Tokens : takes[t] = 0 /\ t \notin stored /\ ~Remembered(t)
  BY DEF TokensInit, Remembered
<1>3. Balance /\ Undrawn
  BY <1>2 DEF Balance, Undrawn, Copies
<1>4. OneKeeper /\ Timely /\ Referenced
  BY <1>2 DEF TokensInit, OneKeeper, Timely, Referenced, Remembered, Tokens
<1> QED BY <1>1, <1>3, <1>4 DEF TokenInv

(* The invariant implies what the runs check. *)
LEMMA TokenInvTakenOnce == TokenInv => TakenOnce
<1> SUFFICES ASSUME TokenInv PROVE TakenOnce
  OBVIOUS
<1>1. \A t \in Tokens : takes[t] \in Nat /\ Copies(t) \in Nat
  BY DEF TokenInv, TokensTypeOK, Copies
<1>2. \A t \in Tokens : takes[t] <= (IF t \in doubled THEN 2 ELSE 1)
  <2> SUFFICES ASSUME NEW t \in Tokens PROVE takes[t] <= (IF t \in doubled THEN 2 ELSE 1)
    OBVIOUS
  <2>1. takes[t] + Copies(t) <= (IF t \in doubled THEN 2 ELSE 1)
    BY DEF TokenInv, Balance
  <2> QED BY <1>1, <2>1
<1>3. doubled \subseteq Tokens
  BY DEF TokenInv, TokensTypeOK, Tokens
<1>4. (stored \cup UNION {memory[p] : p \in Procs}) \cap Uploads \subseteq files
  BY DEF TokenInv, Referenced, Remembered
<1> QED BY <1>2, <1>3, <1>4 DEF TakenOnce, TokenInv, Timely

-----------------------------------------------------------------------------
(* A new token: t in Redis, in the memory of p, or in neither; in both     *)
(* only if it is then doubled.                                             *)
LEMMA MintedToken ==
  ASSUME TokenInv, NEW p \in Procs, NEW t \in Tokens, t \notin drawn,
         drawn' = drawn \cup {t},
         UNCHANGED <<deployment, expired, takes, late>>,
         losses' \in 0..MaxLosses,
         NEW inRedis \in BOOLEAN, NEW inMemory \in BOOLEAN,
         stored' = IF inRedis THEN stored \cup {t} ELSE stored,
         IF inMemory THEN Remember(p, t) ELSE UNCHANGED memory,
         doubled' = IF inRedis /\ inMemory THEN doubled \cup {t} ELSE doubled,
         inRedis /\ inMemory => t \in Tickets,
         files' = IF t \in Uploads THEN files \cup {t} ELSE files
  PROVE  TokenInv'
<1> USE DEF deployment
<1>1. /\ \A q \in Procs : memory'[q] \subseteq memory[q] \cup (IF inMemory /\ q = p THEN {t} ELSE {})
      /\ memory' \in [Procs -> SUBSET Tokens]
  BY PrunedIsLess DEF TokenInv, TokensTypeOK, Remember
<1>2. takes[t] = 0 /\ t \notin stored /\ ~Remembered(t)
  BY DEF TokenInv, Undrawn
<1>3. t \notin doubled /\ t \notin expired
  BY DEF TokenInv, Timely, TokensTypeOK
<1>4. TokensTypeOK'
  BY <1>1 DEF TokenInv, TokensTypeOK, Tokens
<1>5. \A s \in Tokens : s # t => (Remembered(s)' => Remembered(s)) /\ (s \in stored' <=> s \in stored)
  BY <1>1 DEF Remembered
<1>6. Remembered(t)' => inMemory
  BY <1>1, <1>2 DEF Remembered
<1>7. Balance'
  <2> SUFFICES ASSUME NEW s \in Tokens
               PROVE (takes[s] + Copies(s) <= (IF s \in doubled THEN 2 ELSE 1))'
    BY DEF Balance
  <2>1. CASE s = t
    BY <2>1, <1>2, <1>3, <1>6 DEF Copies
  <2>2. CASE s # t
    <3>1. takes[s] + Copies(s) <= (IF s \in doubled THEN 2 ELSE 1)
      BY DEF TokenInv, Balance
    <3>2. takes'[s] = takes[s] /\ takes[s] \in Nat /\ (s \in doubled' <=> s \in doubled)
      BY <2>2 DEF TokenInv, TokensTypeOK
    <3>3. Copies(s)' <= Copies(s) /\ Copies(s)' \in Nat /\ Copies(s) \in Nat
      BY <1>5, <2>2 DEF Copies
    <3> QED BY <3>1, <3>2, <3>3
  <2> QED BY <2>1, <2>2
<1>8. OneKeeper'
  BY <1>1, <1>2 DEF TokenInv, OneKeeper, Remembered
<1>9. Undrawn'
  BY <1>5 DEF TokenInv, Undrawn
<1>10. Timely'
  BY <1>3, <1>4 DEF TokenInv, Timely
<1>11. Referenced'
  BY <1>5 DEF TokenInv, Referenced, TokensTypeOK, Tokens
<1> QED BY <1>4, <1>7, <1>8, <1>9, <1>10, <1>11 DEF TokenInv

LEMMA MintStep == ASSUME TokenInv, NEW p \in running, NEW t \in Tokens, Mint(p, t) PROVE TokenInv'
<1> USE DEF deployment
<1>1. p \in Procs /\ t \in Tickets /\ t \notin drawn /\ t \notin Uploads
  BY TokensAssumption DEF TokenInv, TokensTypeOK, Mint
<1>2. losses' \in 0..MaxLosses
  BY TokensAssumption DEF TokenInv, TokensTypeOK, Mint, Loss
<1>3. PICK inRedis \in BOOLEAN, inMemory \in BOOLEAN :
        /\ stored' = IF inRedis THEN stored \cup {t} ELSE stored
        /\ IF inMemory THEN Remember(p, t) ELSE UNCHANGED memory
        /\ doubled' = IF inRedis /\ inMemory THEN doubled \cup {t} ELSE doubled
  <2>1. CASE stored' = stored \cup {t} /\ UNCHANGED <<memory, doubled, losses>>
    BY <2>1
  <2>2. CASE /\ \E applied \in BOOLEAN :
                  /\ stored' = IF applied THEN stored \cup {t} ELSE stored
                  /\ doubled' = IF applied /\ ~Multi THEN doubled \cup {t} ELSE doubled
             /\ IF Multi THEN UNCHANGED memory ELSE Remember(p, t)
    <3>1. Multi \in BOOLEAN
      BY DEF Multi
    <3> QED BY <2>2, <3>1
  <2>3. CASE /\ IF Multi THEN UNCHANGED memory ELSE Remember(p, t)
             /\ UNCHANGED <<stored, doubled, losses>>
    <3>1. Multi \in BOOLEAN
      BY DEF Multi
    <3> QED BY <2>3, <3>1
  <2> QED BY <2>1, <2>2, <2>3 DEF Mint
<1>4. drawn' = drawn \cup {t} /\ UNCHANGED <<deployment, expired, files, takes, late>>
  BY DEF Mint
<1> QED BY <1>1, <1>2, <1>3, <1>4, MintedToken

LEMMA PutStep == ASSUME TokenInv, NEW p \in running, NEW t \in Tokens, Put(p, t) PROVE TokenInv'
<1> USE DEF deployment
<1>1. p \in Procs /\ t \in Uploads /\ t \notin drawn
  BY TokensAssumption DEF TokenInv, TokensTypeOK, Put
<1>2. losses' \in 0..MaxLosses
  BY TokensAssumption DEF TokenInv, TokensTypeOK, Put, Loss
<1>3. PICK inRedis \in BOOLEAN, inMemory \in BOOLEAN :
        /\ ~(inRedis /\ inMemory)
        /\ stored' = IF inRedis THEN stored \cup {t} ELSE stored
        /\ IF inMemory THEN Remember(p, t) ELSE UNCHANGED memory
  <2>1. CASE stored' = stored \cup {t} /\ UNCHANGED <<memory, losses>>
    BY <2>1
  <2>2. CASE stored' \in {stored, stored \cup {t}} /\ UNCHANGED memory
    BY <2>2
  <2>3. CASE Remember(p, t) /\ UNCHANGED <<stored, losses>>
    BY <2>3
  <2> QED BY <2>1, <2>2, <2>3 DEF Put
<1>4. /\ drawn' = drawn \cup {t} /\ files' = files \cup {t}
      /\ UNCHANGED <<deployment, expired, takes, doubled, late>>
  BY DEF Put
<1>5. t \notin Tickets
  BY <1>1, TokensAssumption
<1>6. doubled' = IF inRedis /\ inMemory THEN doubled \cup {t} ELSE doubled
  BY <1>3, <1>4
<1> QED BY <1>1, <1>2, <1>3, <1>4, <1>6, MintedToken

-----------------------------------------------------------------------------
(* Nothing is taken, and the stores may shrink. *)
LEMMA Shrinks ==
  ASSUME TokenInv, memory' \in [Procs -> SUBSET Tokens],
         \A q \in Procs : memory'[q] \subseteq memory[q],
         stored' \subseteq stored, stored' \cap expired' = {},
         expired' \subseteq drawn, losses' \in 0..MaxLosses,
         UNCHANGED <<deployment, drawn, files, takes, doubled, late>>
  PROVE  TokenInv'
<1> USE DEF deployment
<1>1. TokensTypeOK'
  BY DEF TokenInv, TokensTypeOK
<1>2. \A s \in Tokens : (Remembered(s)' => Remembered(s)) /\ (s \in stored' => s \in stored)
  BY DEF Remembered
<1>3. Balance'
  <2> SUFFICES ASSUME NEW s \in Tokens
               PROVE (takes[s] + Copies(s) <= (IF s \in doubled THEN 2 ELSE 1))'
    BY DEF Balance
  <2>1. takes[s] + Copies(s) <= (IF s \in doubled THEN 2 ELSE 1) /\ takes[s] \in Nat
    BY DEF TokenInv, Balance, TokensTypeOK
  <2>2. Copies(s)' <= Copies(s) /\ Copies(s)' \in Nat /\ Copies(s) \in Nat
    BY <1>2 DEF Copies
  <2> QED BY <2>1, <2>2
<1>4. OneKeeper'
  BY DEF TokenInv, OneKeeper
<1>5. Undrawn' /\ Timely' /\ Referenced'
  BY <1>2 DEF TokenInv, Undrawn, Timely, Referenced, TokensTypeOK, Tokens
<1> QED BY <1>1, <1>3, <1>4, <1>5 DEF TokenInv

(* A copy of t is used up: that in Redis, or that in the memory of p. *)
LEMMA Accepts ==
  ASSUME TokenInv, NEW p \in Procs, NEW t \in Tokens, t \notin expired, Accept(t),
         memory' \in [Procs -> SUBSET Tokens],
         \A q \in Procs : memory'[q] \subseteq memory[q],
         stored' \subseteq stored, losses' \in 0..MaxLosses,
         \/ t \in stored /\ t \notin stored'
         \/ t \in memory[p] /\ t \notin memory'[p],
         UNCHANGED <<deployment, expired, drawn, doubled>>
  PROVE  TokenInv'
<1> USE DEF deployment
<1>1. /\ takes' = [takes EXCEPT ![t] = @ + 1] /\ files' = files \ {t} /\ late' = late
      /\ late \in BOOLEAN
  BY DEF Accept, TokenInv, TokensTypeOK, Timely
<1>2. TokensTypeOK'
  BY <1>1 DEF TokenInv, TokensTypeOK
<1>3. \A s \in Tokens : (Remembered(s)' => Remembered(s)) /\ (s \in stored' => s \in stored)
  BY DEF Remembered
<1>4. /\ takes'[t] = takes[t] + 1 /\ takes[t] \in Nat
      /\ \A s \in Tokens \ {t} : takes'[s] = takes[s] /\ takes[s] \in Nat
  BY <1>1 DEF TokenInv, TokensTypeOK
<1>5. Copies(t)' + 1 <= Copies(t)
  <2>1. CASE t \in stored /\ t \notin stored'
    BY <2>1, <1>3 DEF Copies
  <2>2. CASE t \in memory[p] /\ t \notin memory'[p]
    <3>1. Remembered(t)
      BY <2>2 DEF Remembered
    <3>2. ~Remembered(t)'
      BY <2>2 DEF Remembered, TokenInv, OneKeeper
    <3> QED BY <3>1, <3>2 DEF Copies
  <2> QED BY <2>1, <2>2
<1>6. \A s \in Tokens : Copies(s)' <= Copies(s) /\ Copies(s)' \in Nat /\ Copies(s) \in Nat
  BY <1>3 DEF Copies
<1>7. \A s \in Tokens : takes[s] + Copies(s) <= (IF s \in doubled THEN 2 ELSE 1)
  BY DEF TokenInv, Balance
<1>8. Balance'
  <2> SUFFICES ASSUME NEW s \in Tokens
               PROVE (takes[s] + Copies(s) <= (IF s \in doubled THEN 2 ELSE 1))'
    BY DEF Balance
  <2>1. CASE s = t
    BY <2>1, <1>4, <1>5, <1>6, <1>7
  <2>2. CASE s # t
    BY <2>2, <1>4, <1>6, <1>7
  <2> QED BY <2>1, <2>2
<1>9. OneKeeper'
  BY DEF TokenInv, OneKeeper
<1>10. t \in drawn
  BY DEF TokenInv, Undrawn, Remembered
<1>11. Undrawn'
  BY <1>3, <1>4, <1>10 DEF TokenInv, Undrawn
<1>12. Timely'
  BY <1>1 DEF TokenInv, Timely
<1>13. Referenced'
  <2> SUFFICES ASSUME NEW s \in Uploads, s \in stored' \/ Remembered(s)' PROVE s \in files'
    BY DEF Referenced
  <2>1. s \in Tokens /\ s \in files
    BY <1>3 DEF TokenInv, Referenced, Tokens
  <2>2. CASE s = t
    <3>1. s \notin doubled
      BY TokensAssumption DEF TokenInv, TokensTypeOK
    <3>2. Copies(t)' >= 1
      BY <2>2, <1>6 DEF Copies
    <3> QED BY <3>1, <3>2, <2>2, <1>4, <1>5, <1>6, <1>7
  <2>3. CASE s # t
    BY <2>1, <2>3, <1>1
  <2> QED BY <2>2, <2>3
<1> QED BY <1>2, <1>8, <1>9, <1>11, <1>12, <1>13 DEF TokenInv

(* The memory of p gives t, or it has no t that is not expired. *)
LEMMA MemoryGives ==
  ASSUME TokenInv, NEW p \in Procs, NEW t \in Tokens, FromMemory(p, t),
         stored' \subseteq stored, losses' \in 0..MaxLosses,
         UNCHANGED <<deployment, expired, drawn, doubled>>
  PROVE  TokenInv'
<1> USE DEF deployment
<1>1. /\ memory' \in [Procs -> SUBSET Tokens]
      /\ \A q \in Procs : memory'[q] \subseteq memory[q]
      /\ t \notin memory'[p]
  BY PrunedIsLess DEF TokenInv, TokensTypeOK, FromMemory
<1>2. CASE t \in Pruned(p, t) \ expired
  <2>1. t \in memory[p] /\ t \notin expired /\ Accept(t)
    BY <1>2, PrunedIsLess DEF FromMemory
  <2> QED BY <1>1, <2>1, Accepts
<1>3. CASE t \notin Pruned(p, t) \ expired
  <2>1. UNCHANGED <<takes, files, late>>
    BY <1>3 DEF FromMemory
  <2>2. stored' \cap expired' = {} /\ expired' \subseteq drawn
    BY DEF TokenInv, Timely, TokensTypeOK
  <2> QED BY <1>1, <2>1, <2>2, Shrinks
<1> QED BY <1>2, <1>3

(* Nothing is taken, and Redis may have lost keys. *)
LEMMA NothingTaken ==
  ASSUME TokenInv, UNCHANGED <<memory, takes, files, late>>, stored' \subseteq stored,
         losses' \in 0..MaxLosses, UNCHANGED <<deployment, expired, drawn, doubled>>
  PROVE  TokenInv'
<1>1. memory' \in [Procs -> SUBSET Tokens] /\ stored' \cap expired' = {} /\ expired' \subseteq drawn
  BY DEF TokenInv, Timely, TokensTypeOK, deployment
<1> QED BY <1>1, Shrinks DEF deployment

(* Redis gives t. *)
LEMMA RedisGives ==
  ASSUME TokenInv, NEW p \in Procs, NEW t \in Tokens, t \in stored, stored' = stored \ {t}, Accept(t),
         UNCHANGED <<memory, losses>>, UNCHANGED <<deployment, expired, drawn, doubled>>
  PROVE  TokenInv'
<1>1. t \notin expired /\ memory' \in [Procs -> SUBSET Tokens] /\ losses' \in 0..MaxLosses
  BY DEF TokenInv, Timely, TokensTypeOK
<1> QED BY <1>1, Accepts DEF deployment

LEMMA TakeTicketStep ==
  ASSUME TokenInv, NEW p \in running, NEW t \in Tokens, TakeTicket(p, t) PROVE TokenInv'
<1>1. p \in Procs
  BY DEF TokenInv, TokensTypeOK
<1>2. losses' \in 0..MaxLosses
  BY TokensAssumption DEF TokenInv, TokensTypeOK, TakeTicket, Loss
<1>3. UNCHANGED <<deployment, expired, drawn, doubled>>
  BY DEF TakeTicket
<1>4. CASE t \in stored /\ stored' = stored \ {t} /\ Accept(t) /\ UNCHANGED <<memory, losses>>
  BY <1>1, <1>3, <1>4, RedisGives
<1>5. CASE /\ stored' \subseteq stored
           /\ IF Multi THEN UNCHANGED <<memory, takes, files, late>> ELSE FromMemory(p, t)
  BY <1>1, <1>2, <1>3, <1>5, MemoryGives, NothingTaken
<1> QED BY <1>4, <1>5 DEF TakeTicket

LEMMA TakeUploadStep ==
  ASSUME TokenInv, NEW p \in running, NEW t \in Tokens, TakeUpload(p, t) PROVE TokenInv'
<1>1. p \in Procs
  BY DEF TokenInv, TokensTypeOK
<1>2. losses' \in 0..MaxLosses
  BY TokensAssumption DEF TokenInv, TokensTypeOK, TakeUpload, Loss
<1>3. UNCHANGED <<deployment, expired, drawn, doubled>>
  BY DEF TakeUpload
<1>4. CASE t \in stored /\ stored' = stored \ {t} /\ Accept(t) /\ UNCHANGED <<memory, losses>>
  BY <1>1, <1>3, <1>4, RedisGives
<1>5. CASE stored' \subseteq stored /\ UNCHANGED <<memory, takes, files, late>>
  BY <1>2, <1>3, <1>5, NothingTaken
<1>6. CASE FromMemory(p, t) /\ UNCHANGED <<stored, losses>>
  BY <1>1, <1>2, <1>3, <1>6, MemoryGives
<1> QED BY <1>4, <1>5, <1>6 DEF TakeUpload

LEMMA LapseStep == ASSUME TokenInv, NEW t \in Tokens, Lapse(t) PROVE TokenInv'
<1>1. /\ memory' \in [Procs -> SUBSET Tokens] /\ \A q \in Procs : memory'[q] \subseteq memory[q]
      /\ stored' \subseteq stored /\ stored' \cap expired' = {} /\ expired' \subseteq drawn
      /\ losses' \in 0..MaxLosses
      /\ UNCHANGED <<deployment, drawn, files, takes, doubled, late>>
  BY DEF Lapse, TokenInv, TokensTypeOK, Timely
<1> QED BY <1>1, Shrinks

LEMMA RestartStep == ASSUME TokenInv, NEW p \in running, Restart(p) PROVE TokenInv'
<1>1. /\ memory' \in [Procs -> SUBSET Tokens] /\ \A q \in Procs : memory'[q] \subseteq memory[q]
      /\ stored' \subseteq stored /\ stored' \cap expired' = {} /\ expired' \subseteq drawn
      /\ UNCHANGED <<deployment, drawn, files, takes, doubled, late>>
  BY DEF Restart, TokenInv, TokensTypeOK, Timely, deployment
<1>2. losses' \in 0..MaxLosses
  BY TokensAssumption DEF TokenInv, TokensTypeOK, Restart, Loss
<1> QED BY <1>1, <1>2, Shrinks

LEMMA TokenStutter == ASSUME TokenInv, UNCHANGED tokenVars PROVE TokenInv'
  BY DEF TokenInv, tokenVars, deployment, TokensTypeOK, Balance, OneKeeper, Undrawn, Timely, Referenced,
     Copies, Remembered

-----------------------------------------------------------------------------
LEMMA TokenInductive == TokensSpec => []TokenInv
<1>1. TokenInv /\ [TokensNext]_tokenVars => TokenInv'
  BY MintStep, PutStep, TakeTicketStep, TakeUploadStep, LapseStep, RestartStep, TokenStutter
     DEF TokensNext
<1> QED BY InitTokenInv, <1>1, PTL DEF TokensSpec

(* The type invariant of the two stores. *)
THEOREM TokensTypeCorrect == TokensSpec => []TokensTypeOK
<1>1. TokenInv => TokensTypeOK
  BY DEF TokenInv
<1> QED BY TokenInductive, <1>1, PTL

(* "consumed exactly once" (ws_check_live_ticket.py:31): no token is       *)
(* accepted twice or late, but for the ticket of a failed and yet applied  *)
(* SET, which both stores may accept once; for any processes and failures. *)
THEOREM AcceptedOnce == TokensSpec => []TakenOnce
  BY TokenInductive, TokenInvTakenOnce, PTL
-----------------------------------------------------------------------------
(***************************************************************************)
(* Temporary sessions: what one answers and how long it lives.             *)
(***************************************************************************)
Held == {"delete", "insert", "look", "commit"}

\* The lock of the row: a request that touched a session which is still there has it, so
\* that neither a purge, nor the close, nor another upload comes between its statements.
LockInv ==
    \A r \in TempRequests : /\ lock = r => temp[r].pc \in Held
                            /\ Alive /\ temp[r].pc \in Held => lock = r
                            /\ session = "none" => temp[r].pc = "idle"

\* Without a commit that went back in time, last_seen_at is the latest time given.
TimeInv == /\ ~overtaken => lastSeen = touched
           /\ KeptAlive

\* What request q has done so far, against the committed content.
Good(q) ==
    /\ q.pc \in {"purge", "find", "touch"} => q.asked = {} /\ q.found = {}
    /\ q.pc \in {"touch", "look"} => plates \in q.could
    /\ q.pc = "insert" /\ Alive => q.gone = plates
    /\ q.pc = "look" => q.asked \subseteq q.want /\ q.found = q.asked \cap plates
    /\ q.pc = "commit" /\ q.kind # "ping" => \E S \in q.could : q.found = q.want \cap S

ContentInv == /\ OneFile
              /\ ~Alive => plates = {}
              /\ session = "none" => lastFile = {}
              /\ \A r \in TempRequests : Good(temp[r])

TInv == TempTypeOK /\ LockInv /\ TimeInv /\ ContentInv

-----------------------------------------------------------------------------
LEMMA NoTempTyped == NoTemp \in TempRequest
  BY TempAssumption, 0 \in 0..MaxClock DEF NoTemp, TempRequest

LEMMA InitTInv == TempInit => TInv
  <1> SUFFICES ASSUME TempInit PROVE TInv
    OBVIOUS
  <1>1. TempTypeOK
    <2>1. temp \in [TempRequests -> TempRequest]
      BY NoTempTyped DEF TempInit
    <2>2. 0 \in 0..MaxClock /\ 0 \in 0..MaxBegun
      BY TempAssumption
    <2>3. overtaken \in BOOLEAN /\ cut \in BOOLEAN /\ bypass \in BOOLEAN
      BY DEF TempInit
    <2> QED
      BY <2>1, <2>2, <2>3 DEF TempInit, TempTypeOK
  <1>2. LockInv /\ TimeInv /\ ContentInv
    BY TempAssumption DEF TempInit, LockInv, TimeInv, ContentInv, NoTemp, Alive, Held, KeptAlive, OneFile, Good
  <1> QED
    BY <1>1, <1>2 DEF TInv

-----------------------------------------------------------------------------
(* Types.                                                                  *)

LEMMA TurnTyped ==
  ASSUME TempTypeOK, NEW r \in TempRequests, NEW q \in TempRequest, temp' = Turn(r, q)
  PROVE  temp' \in [TempRequests -> TempRequest]
  BY DEF TempTypeOK, Turn

LEMMA ContentTyped ==
  ASSUME TempTypeOK, NEW r \in TempRequests, NEW q \in TempRequest,
         NEW S \in SUBSET PlateTexts, Content(S, Turn(r, q))
  PROVE  temp' \in [TempRequests -> TempRequest] /\ plates' \in SUBSET PlateTexts
  <1> DEFINE turn == Turn(r, q)
  <1>1. turn \in [TempRequests -> TempRequest]
    BY DEF TempTypeOK, Turn
  <1>2. ASSUME NEW x \in TempRequests
        PROVE  [turn[x] EXCEPT !.could = @ \cup {S}] \in TempRequest
    <2>1. turn[x] \in TempRequest
      BY <1>1
    <2> QED
      BY <2>1 DEF TempRequest
  <1>3. temp' = [x \in TempRequests |->
                   IF turn[x].pc \in {"touch", "look"}
                   THEN [turn[x] EXCEPT !.could = @ \cup {S}] ELSE turn[x]]
    BY DEF Content
  <1>4. plates' = S
    BY DEF Content
  <1> HIDE DEF turn
  <1> QED
    BY <1>1, <1>2, <1>3, <1>4

LEMMA TypeStep == TempTypeOK /\ [TempNext]_tempVars => TempTypeOK'
  <1> SUFFICES ASSUME TempTypeOK, [TempNext]_tempVars PROVE TempTypeOK'
    OBVIOUS
  <1>1. CASE UNCHANGED tempVars
    BY <1>1 DEF TempTypeOK, tempVars
  <1>2. CASE TempTick
    BY <1>2, TempAssumption DEF TempTypeOK, TempTick
  <1>3. CASE StartSession
    BY <1>3 DEF TempTypeOK, StartSession
  <1>4. CASE CloseSession
    <2>1. \A q \in TempRequests : temp[q] \in TempRequest
      BY DEF TempTypeOK
    <2>2. \A q \in TempRequests : [temp[q] EXCEPT !.could = @ \cup {{}}] \in TempRequest
      BY <2>1 DEF TempRequest
    <2> QED
      BY <1>4, <2>1, <2>2 DEF TempTypeOK, CloseSession, Content
  <1>5. ASSUME NEW r \in TempRequests, TempStep(r) PROVE TempTypeOK'
    <2> USE TempAssumption
    <2>0. temp[r] \in TempRequest
      BY DEF TempTypeOK
    <2>1. CASE Ask(r)
      <3>1. PICK k \in {"ping", "upload", "query", "exists"}, S \in SUBSET PlateTexts :
              temp' = Turn(r, [NoTemp EXCEPT !.pc = IF k = "exists" THEN "find" ELSE "purge",
                                               !.kind = k, !.want = S])
        BY <2>1 DEF Ask
      <3>2. [NoTemp EXCEPT !.pc = IF k = "exists" THEN "find" ELSE "purge",
                           !.kind = k, !.want = S] \in TempRequest
        BY NoTempTyped DEF TempRequest
      <3>3. temp' \in [TempRequests -> TempRequest]
        BY <3>1, <3>2, TurnTyped
      <3> QED
        BY <2>1, <3>3 DEF TempTypeOK, Ask
    <2>2. CASE Purge(r)
      <3> DEFINE dead == bypass /\ Alive /\ lastSeen + Ttl < clock
      <3>1. [temp[r] EXCEPT !.pc = "find"] \in TempRequest
        BY <2>0 DEF TempRequest
      <3>2. Content(IF dead THEN {} ELSE plates, Turn(r, [temp[r] EXCEPT !.pc = "find"]))
        BY <2>2 DEF Purge
      <3>3. (IF dead THEN {} ELSE plates) \in SUBSET PlateTexts
        BY DEF TempTypeOK
      <3>4. temp' \in [TempRequests -> TempRequest] /\ plates' \in SUBSET PlateTexts
        BY <3>1, <3>2, <3>3, ContentTyped
      <3>5. session' \in {"none", "live", "gone"} /\ cut' \in BOOLEAN
        BY <2>2 DEF Purge, TempTypeOK
      <3>6. UNCHANGED <<bypass, clock, lastSeen, lock, begunTemp, lastFile, touched, overtaken>>
        BY <2>2 DEF Purge
      <3> QED
        BY <3>4, <3>5, <3>6 DEF TempTypeOK
    <2>3. CASE Find(r)
      <3>1. [temp[r] EXCEPT !.pc = "touch", !.begin = clock, !.could = {plates}] \in TempRequest
        BY <2>0, ZenonT(30) DEF TempRequest, TempTypeOK
      <3>2. temp' \in [TempRequests -> TempRequest]
        BY <2>3, <3>1, NoTempTyped, TurnTyped DEF Find
      <3> QED
        BY <2>3, <3>2 DEF TempTypeOK, Find
    <2>4. CASE Touch(r)
      <3>1. \A p \in {"delete", "commit", "look"} : [temp[r] EXCEPT !.pc = p] \in TempRequest
        BY <2>0 DEF TempRequest
      <3>2. AfterTouch(temp[r].kind) \in {"delete", "commit", "look"}
        BY DEF AfterTouch
      <3>3. temp' \in [TempRequests -> TempRequest]
        BY <2>4, <3>1, <3>2, NoTempTyped, TurnTyped DEF Touch
      <3>4. temp[r].begin \in 0..MaxClock
        BY <2>0 DEF TempRequest
      <3> QED
        BY <2>4, <3>3, <3>4 DEF TempTypeOK, Touch
    <2>5. CASE DeleteRows(r)
      <3>1. [temp[r] EXCEPT !.pc = "insert", !.gone = plates] \in TempRequest
        BY <2>0 DEF TempRequest, TempTypeOK
      <3>2. temp' \in [TempRequests -> TempRequest]
        BY <2>5, <3>1, TurnTyped DEF DeleteRows
      <3> QED
        BY <2>5, <3>2 DEF TempTypeOK, DeleteRows
    <2>6. CASE InsertRows(r)
      <3>1. temp[r].want \in SUBSET PlateTexts
        BY <2>0 DEF TempRequest
      <3>2. (plates \ temp[r].gone) \cup temp[r].want \in SUBSET PlateTexts
        BY <3>1 DEF TempTypeOK
      <3>3. CASE Alive
        <4>1. Content((plates \ temp[r].gone) \cup temp[r].want, Turn(r, NoTemp)) /\ lastFile' = temp[r].want
          BY <2>6, <3>3 DEF InsertRows
        <4>2. temp' \in [TempRequests -> TempRequest] /\ plates' \in SUBSET PlateTexts
          BY <3>2, <4>1, NoTempTyped, ContentTyped
        <4> QED
          BY <2>6, <3>1, <4>1, <4>2 DEF TempTypeOK, InsertRows, Release
      <3>4. CASE ~Alive
        <4>1. temp' \in [TempRequests -> TempRequest]
          BY <2>6, <3>4, NoTempTyped, TurnTyped DEF InsertRows
        <4> QED
          BY <2>6, <3>4, <4>1 DEF TempTypeOK, InsertRows, Release
      <3> QED
        BY <3>3, <3>4
    <2>7. CASE Look(r)
      <3>1. PICK p \in temp[r].want \ temp[r].asked :
              temp' = Turn(r, [temp[r] EXCEPT !.asked = @ \cup {p}, !.found = @ \cup ({p} \cap plates),
                                 !.pc = IF temp[r].asked \cup {p} = temp[r].want THEN "commit" ELSE "look"])
        BY <2>7 DEF Look
      <3>2. [temp[r] EXCEPT !.asked = @ \cup {p}, !.found = @ \cup ({p} \cap plates),
               !.pc = IF temp[r].asked \cup {p} = temp[r].want THEN "commit" ELSE "look"] \in TempRequest
        <4>1. /\ temp[r].asked \cup {p} \in SUBSET PlateTexts
              /\ temp[r].found \cup ({p} \cap plates) \in SUBSET PlateTexts
          BY <2>0 DEF TempRequest
        <4>2. \A A, F \in SUBSET PlateTexts, c \in {"commit", "look"} :
                [temp[r] EXCEPT !.asked = A, !.found = F, !.pc = c] \in TempRequest
          BY <2>0 DEF TempRequest
        <4> QED
          BY <4>1, <4>2
      <3>3. temp' \in [TempRequests -> TempRequest]
        BY <3>1, <3>2, TurnTyped
      <3> QED
        BY <2>7, <3>3 DEF TempTypeOK, Look
    <2>8. CASE Answer(r)
      <3>1. temp' \in [TempRequests -> TempRequest]
        BY <2>8, NoTempTyped, TurnTyped DEF Answer
      <3> QED
        BY <2>8, <3>1 DEF TempTypeOK, Answer, Release
    <2> QED
      BY <1>5, <2>1, <2>2, <2>3, <2>4, <2>5, <2>6, <2>7, <2>8 DEF TempStep
  <1> QED
    BY <1>1, <1>2, <1>3, <1>4, <1>5 DEF TempNext
-----------------------------------------------------------------------------
(* The requests that do not act: their work stays good when the content    *)
(* stays, or changes while they hold no lock.                              *)

\* A step of r that leaves session, content and lock alone.
LEMMA TempQuiet ==
  ASSUME TInv, TempTypeOK', NEW r \in TempRequests, NEW q, temp' = Turn(r, q),
         UNCHANGED <<session, plates, lastFile, lock>>,
         lock = r => q.pc \in Held,
         Alive /\ q.pc \in Held => lock = r,
         session # "none", Good(q)
  PROVE  LockInv' /\ ContentInv'
  <1>1. temp'[r] = q /\ \A x \in TempRequests \ {r} : temp'[x] = temp[x]
    BY DEF Turn, TInv, TempTypeOK
  <1>2. Alive' = Alive
    BY DEF Alive
  <1>3. LockInv'
    BY <1>1, <1>2 DEF TInv, LockInv
  <1>4. \A x \in TempRequests \ {r} : Good(temp[x])
    BY DEF TInv, ContentInv
  <1>5. \A x \in TempRequests : Good(temp'[x])
    BY <1>1, <1>4
  <1>6. \A x \in TempRequests : Good(temp[x])'
    BY <1>1, <1>2, <1>5 DEF Good
  <1> QED
    BY <1>2, <1>3, <1>6 DEF TInv, ContentInv, OneFile

\* A step that commits or confirms the content.
LEMMA ContentStep ==
  ASSUME TInv, NEW S, NEW requests \in [TempRequests -> TempRequest], Content(S, requests),
         NEW x \in TempRequests, Good(requests[x]),
         (S = plates /\ Alive' = Alive) \/ requests[x].pc \notin Held
  PROVE  /\ temp'[x].pc = requests[x].pc
         /\ Good(temp[x])'
  <1>1. requests[x] \in TempRequest
    OBVIOUS
  <1>2. plates' = S
    BY DEF Content
  <1>3. temp'[x] = IF requests[x].pc \in {"touch", "look"}
                   THEN [requests[x] EXCEPT !.could = @ \cup {S}] ELSE requests[x]
    BY DEF Content
  <1>4. CASE requests[x].pc \in {"touch", "look"}
    <2>1. temp'[x] = [requests[x] EXCEPT !.could = @ \cup {S}]
      BY <1>3, <1>4
    <2>2. /\ temp'[x].pc = requests[x].pc /\ temp'[x].asked = requests[x].asked
          /\ temp'[x].found = requests[x].found /\ temp'[x].want = requests[x].want
          /\ S \in temp'[x].could
      BY <1>1, <2>1 DEF TempRequest
    <2> QED
      BY <1>2, <1>4, <2>2 DEF Good, Held
  <1>5. CASE requests[x].pc \notin {"touch", "look"}
    BY <1>2, <1>3, <1>5 DEF Good, Held
  <1> QED
    BY <1>4, <1>5

\* Nobody has touched a session whose row is free to be deleted.
LEMMA FreeNotHeld ==
  ASSUME TInv, Alive, Free, NEW x \in TempRequests
  PROVE  temp[x].pc \notin Held
  BY TempAssumption DEF TInv, LockInv, Free

-----------------------------------------------------------------------------
LEMMA AskTInv == ASSUME TInv, TempTypeOK', NEW r \in TempRequests, Ask(r) PROVE TInv'
  <1>1. PICK k \in {"ping", "upload", "query", "exists"}, S \in SUBSET PlateTexts :
          temp' = Turn(r, [NoTemp EXCEPT !.pc = IF k = "exists" THEN "find" ELSE "purge",
                                           !.kind = k, !.want = S])
    BY DEF Ask
  <1> DEFINE q == [NoTemp EXCEPT !.pc = IF k = "exists" THEN "find" ELSE "purge",
                                 !.kind = k, !.want = S]
  <1>2. q.pc \in {"find", "purge"} /\ q.asked = {} /\ q.found = {}
    BY DEF NoTemp
  <1>3. Good(q)
    BY <1>2 DEF Good
  <1>4. lock # r
    BY DEF TInv, LockInv, Ask, Held
  <1> HIDE DEF q
  <1>5. LockInv' /\ ContentInv'
    BY <1>1, <1>2, <1>3, <1>4, TempQuiet DEF Ask, Held, q
  <1> QED
    BY <1>5 DEF TInv, TimeInv, KeptAlive, Ask

LEMMA FindTInv == ASSUME TInv, TempTypeOK', NEW r \in TempRequests, Find(r) PROVE TInv'
  <1> DEFINE q == IF Alive \/ temp[r].kind = "ping"
                  THEN [temp[r] EXCEPT !.pc = "touch", !.begin = clock, !.could = {plates}]
                  ELSE NoTemp
  <1>1. temp' = Turn(r, q)
    BY DEF Find
  <1>2. temp[r] \in TempRequest /\ temp[r].asked = {} /\ temp[r].found = {} /\ session # "none"
    BY DEF TInv, TempTypeOK, ContentInv, LockInv, Good, Find
  <1>3. /\ q.pc \in {"idle", "touch"} /\ q.asked = {} /\ q.found = {}
        /\ q.pc = "touch" => plates \in q.could
    BY <1>2 DEF NoTemp, TempRequest
  <1>4. Good(q)
    BY <1>3 DEF Good
  <1>5. lock # r
    BY DEF TInv, LockInv, Find, Held
  <1> HIDE DEF q
  <1>6. LockInv' /\ ContentInv'
    BY <1>1, <1>2, <1>3, <1>4, <1>5, TempQuiet DEF Find, Held
  <1> QED
    BY <1>6 DEF TInv, TimeInv, KeptAlive, Find

LEMMA DeleteTInv == ASSUME TInv, TempTypeOK', NEW r \in TempRequests, DeleteRows(r) PROVE TInv'
  <1> DEFINE q == [temp[r] EXCEPT !.pc = "insert", !.gone = plates]
  <1>1. temp' = Turn(r, q)
    BY DEF DeleteRows
  <1>2. temp[r] \in TempRequest
    BY DEF TInv, TempTypeOK
  <1>3. q.pc = "insert" /\ q.gone = plates
    BY <1>2 DEF TempRequest
  <1>4. Good(q)
    BY <1>3 DEF Good
  <1>5. session # "none" /\ (Alive => lock = r)
    BY DEF TInv, LockInv, DeleteRows, Held
  <1> HIDE DEF q
  <1>6. LockInv' /\ ContentInv'
    BY <1>1, <1>3, <1>4, <1>5, TempQuiet DEF DeleteRows, Held
  <1> QED
    BY <1>6 DEF TInv, TimeInv, KeptAlive, DeleteRows

LEMMA LookTInv == ASSUME TInv, TempTypeOK', NEW r \in TempRequests, Look(r) PROVE TInv'
  <1> DEFINE t == temp[r]
             After(p) == [t EXCEPT !.asked = @ \cup {p}, !.found = @ \cup ({p} \cap plates),
                                  !.pc = IF t.asked \cup {p} = t.want THEN "commit" ELSE "look"]
  <1>1. PICK p \in t.want \ t.asked : temp' = Turn(r, After(p))
    BY DEF Look
  <1>2. t \in TempRequest /\ t.pc = "look" /\ session # "none" /\ (Alive => lock = r)
    BY DEF TInv, TempTypeOK, LockInv, Look, Held
  <1>3. t.asked \subseteq t.want /\ t.found = t.asked \cap plates /\ plates \in t.could
    BY <1>2 DEF TInv, ContentInv, Good
  <1> DEFINE q == After(p)
  <1>4. /\ q.want = t.want /\ q.could = t.could
        /\ q.asked = t.asked \cup {p} /\ q.found = t.found \cup ({p} \cap plates)
        /\ q.pc = IF t.asked \cup {p} = t.want THEN "commit" ELSE "look"
    BY <1>2 DEF TempRequest
  <1>5. q.asked \subseteq q.want /\ q.found = q.asked \cap plates
    BY <1>1, <1>3, <1>4
  <1>6. q.pc = "commit" => q.found = q.want \cap plates
    BY <1>4, <1>5
  <1>7. plates \in q.could /\ q.pc \in {"commit", "look"}
    BY <1>3, <1>4
  <1> HIDE DEF q, t
  <1>8. Good(q)
    BY <1>5, <1>6, <1>7 DEF Good
  <1>9. LockInv' /\ ContentInv'
    BY <1>1, <1>2, <1>7, <1>8, TempQuiet DEF Look, Held, q
  <1> QED
    BY <1>9 DEF TInv, TimeInv, KeptAlive, Look

\* It may find the session gone, and then touches nothing.
LEMMA TouchTInv == ASSUME TInv, TempTypeOK', NEW r \in TempRequests, Touch(r) PROVE TInv'
  <1> DEFINE t == temp[r]
             q == IF Alive \/ t.kind # "ping" THEN [t EXCEPT !.pc = AfterTouch(t.kind)] ELSE NoTemp
  <1>1. temp' = Turn(r, q)
    BY DEF Touch
  <1>2. t \in TempRequest /\ t.pc = "touch" /\ session # "none"
    BY DEF TInv, TempTypeOK, LockInv, Touch
  <1>3. t.asked = {} /\ t.found = {} /\ plates \in t.could
    BY <1>2 DEF TInv, ContentInv, Good
  <1>4. /\ q.pc \in {"delete", "commit", "look", "idle"}
        /\ q.pc = "commit" => q.kind = "ping"
        /\ q.pc = "look" => q.asked = {} /\ q.found = {} /\ plates \in q.could
        /\ Alive => q.pc # "idle"
    <2>1. CASE Alive \/ t.kind # "ping"
      <3>1. /\ q.pc = AfterTouch(t.kind) /\ q.kind = t.kind /\ q.asked = t.asked
            /\ q.found = t.found /\ q.could = t.could
        BY <1>2, <2>1 DEF TempRequest
      <3>2. t.kind \in {"ping", "upload", "query", "exists"}
        BY <1>2 DEF TempRequest
      <3> QED
        BY <1>3, <3>1, <3>2 DEF AfterTouch
    <2>2. CASE ~(Alive \/ t.kind # "ping")
      BY <2>2 DEF NoTemp
    <2> QED
      BY <2>1, <2>2
  <1> HIDE DEF q
  <1>5. temp'[r] = q /\ \A x \in TempRequests \ {r} : temp'[x] = temp[x]
    BY <1>1 DEF Turn, TInv, TempTypeOK
  <1>6. Alive' = Alive /\ UNCHANGED <<session, plates, lastFile>>
    BY DEF Touch, Alive
  <1>7. LockInv'
    <2>1. CASE Alive
      <3>1. lock' = r
        BY <2>1 DEF Touch
      <3>2. \A x \in TempRequests : temp[x].pc \notin Held
        BY <2>1, FreeNotHeld DEF Touch
      <3> QED
        BY <1>2, <1>4, <1>5, <1>6, <2>1, <3>1, <3>2 DEF LockInv, Held
    <2>2. CASE ~Alive
      <3>1. lock' = lock /\ lock # r
        BY <2>2, TempAssumption DEF Touch, Free
      <3> QED
        BY <1>2, <1>5, <1>6, <2>2, <3>1 DEF TInv, LockInv
    <2> QED
      BY <2>1, <2>2
  <1>8. ContentInv'
    <2>1. Good(q)
      BY <1>4 DEF Good
    <2>2. \A x \in TempRequests : Good(temp'[x])
      BY <1>5, <2>1 DEF TInv, ContentInv
    <2>3. \A x \in TempRequests : Good(temp[x])'
      BY <1>6, <2>2 DEF Good
    <2> QED
      BY <1>6, <2>3 DEF TInv, ContentInv, OneFile
  <1>9. TimeInv'
    <2>1. t.begin \in Nat /\ lastSeen \in Nat /\ touched \in Nat
      BY <1>2, TempAssumption DEF TInv, TempTypeOK, TempRequest
    <2>2. CASE Alive
      <3>1. /\ lastSeen' = t.begin
            /\ touched' = IF t.begin > touched THEN t.begin ELSE touched
            /\ overtaken' = (overtaken \/ t.begin < lastSeen)
            /\ cut' = cut
        BY <2>2 DEF Touch
      <3> HIDE DEF t
      <3>2. ~overtaken' => lastSeen' = touched'
        <4> SUFFICES ASSUME ~overtaken' PROVE lastSeen' = touched'
          OBVIOUS
        <4>1. ~overtaken /\ ~(t.begin < lastSeen)
          BY <3>1
        <4>2. lastSeen = touched
          BY <4>1 DEF TInv, TimeInv
        <4> QED
          BY <2>1, <3>1, <4>1, <4>2
      <3>3. cut' => overtaken'
        BY <3>1 DEF TInv, TimeInv, KeptAlive
      <3> QED
        BY <3>2, <3>3 DEF TimeInv, KeptAlive
    <2>3. CASE ~Alive
      BY <2>3 DEF Touch, TInv, TimeInv, KeptAlive
    <2> QED
      BY <2>2, <2>3
  <1> QED
    BY <1>7, <1>8, <1>9 DEF TInv

LEMMA AnswerTInv == ASSUME TInv, TempTypeOK', NEW r \in TempRequests, Answer(r) PROVE TInv'
  <1>1. temp'[r] = NoTemp /\ \A x \in TempRequests \ {r} : temp'[x] = temp[x]
    BY DEF Answer, Turn, TInv, TempTypeOK
  <1>2. Alive' = Alive /\ UNCHANGED <<session, plates, lastFile>>
    BY DEF Answer, Alive
  <1>3. lock' = IF lock = r THEN Nobody ELSE lock
    BY DEF Answer, Release
  <1>4. LockInv'
    BY <1>1, <1>2, <1>3, TempAssumption DEF TInv, LockInv, NoTemp, Held
  <1>5. \A x \in TempRequests : Good(temp'[x])
    BY <1>1 DEF TInv, ContentInv, Good, NoTemp
  <1>6. \A x \in TempRequests : Good(temp[x])'
    BY <1>2, <1>5 DEF Good
  <1>7. ContentInv'
    BY <1>2, <1>6 DEF TInv, ContentInv, OneFile
  <1> QED
    BY <1>4, <1>7 DEF TInv, TimeInv, KeptAlive, Answer

\* The session goes, or a purge finds nothing to delete.
LEMMA PurgeTInv == ASSUME TInv, TempTypeOK', NEW r \in TempRequests, Purge(r) PROVE TInv'
  <1> DEFINE dead == bypass /\ Alive /\ lastSeen + Ttl < clock
             S == IF dead THEN {} ELSE plates
             q == [temp[r] EXCEPT !.pc = "find"]
             turn == Turn(r, q)
  <1>1. /\ Content(S, turn) /\ (dead => Free)
        /\ session' = IF dead THEN "gone" ELSE session
        /\ cut' = (cut \/ (dead /\ ~(touched + Ttl < clock)))
        /\ UNCHANGED <<lastSeen, lock, lastFile, touched, overtaken>>
    BY DEF Purge
  <1>2. temp[r] \in TempRequest /\ temp[r].pc = "purge" /\ session # "none"
    BY DEF TInv, TempTypeOK, LockInv, Purge
  <1>3. temp[r].asked = {} /\ temp[r].found = {}
    BY <1>2 DEF TInv, ContentInv, Good
  <1>4. q \in TempRequest /\ q.pc = "find" /\ q.asked = {} /\ q.found = {}
    BY <1>2, <1>3 DEF TempRequest
  <1>5. /\ turn \in [TempRequests -> TempRequest]
        /\ turn[r] = q /\ \A x \in TempRequests \ {r} : turn[x] = temp[x]
    BY <1>4 DEF Turn, TInv, TempTypeOK
  <1>6. \A x \in TempRequests : Good(turn[x])
    <2>1. Good(q)
      BY <1>4 DEF Good
    <2>2. \A x \in TempRequests : Good(temp[x])
      BY DEF TInv, ContentInv
    <2> HIDE DEF q, turn
    <2> QED
      BY <1>5, <2>1, <2>2
  <1>7. ~dead => S = plates /\ Alive' = Alive
    BY <1>1 DEF Alive
  <1>8. dead => \A x \in TempRequests : turn[x].pc \notin Held
    BY <1>1, <1>4, <1>5, FreeNotHeld DEF Held
  <1> HIDE DEF turn, q
  <1>9. \A x \in TempRequests : temp'[x].pc = turn[x].pc /\ Good(temp[x])'
    <2> SUFFICES ASSUME NEW x \in TempRequests PROVE temp'[x].pc = turn[x].pc /\ Good(temp[x])'
      OBVIOUS
    <2>1. (S = plates /\ Alive' = Alive) \/ turn[x].pc \notin Held
      BY <1>7, <1>8
    <2>2. Good(turn[x])
      BY <1>6
    <2> HIDE DEF S, dead
    <2> QED
      BY <1>1, <1>5, <2>1, <2>2, ContentStep
  <1>10. LockInv'
    <2>1. session' # "none"
      BY <1>1, <1>2
    <2>2. lock # r
      BY <1>2 DEF TInv, LockInv, Held
    <2>3. Alive' => Alive
      BY <1>1 DEF Alive
    <2>4. \A x \in TempRequests \ {r} : temp'[x].pc = temp[x].pc
      BY <1>5, <1>9
    <2>5. temp'[r].pc = "find"
      BY <1>4, <1>5, <1>9
    <2> QED
      BY <1>1, <2>1, <2>2, <2>3, <2>4, <2>5 DEF TInv, LockInv, Held
  <1>11. ContentInv'
    <2>1. plates' = S
      BY <1>1 DEF Content
    <2>2. CASE dead
      BY <1>1, <1>9, <2>1, <2>2 DEF ContentInv, OneFile, Alive
    <2>3. CASE ~dead
      BY <1>1, <1>7, <1>9, <2>1, <2>3 DEF TInv, ContentInv, OneFile
    <2> QED
      BY <2>2, <2>3
  <1>12. TimeInv'
    BY <1>1 DEF TInv, TimeInv, KeptAlive
  <1> QED
    BY <1>10, <1>11, <1>12 DEF TInv

LEMMA InsertTInv == ASSUME TInv, TempTypeOK', NEW r \in TempRequests, InsertRows(r) PROVE TInv'
  <1> DEFINE t == temp[r]
             turn == Turn(r, NoTemp)
  <1>1. t \in TempRequest /\ t.pc = "insert" /\ session # "none"
    BY DEF TInv, TempTypeOK, LockInv, InsertRows
  <1>2. /\ turn \in [TempRequests -> TempRequest]
        /\ turn[r] = NoTemp /\ \A x \in TempRequests \ {r} : turn[x] = temp[x]
    BY NoTempTyped DEF Turn, TInv, TempTypeOK
  <1>3. \A x \in TempRequests : Good(turn[x])
    BY <1>2 DEF TInv, ContentInv, Good, NoTemp
  <1>4. Alive' = Alive /\ session' = session
    BY DEF InsertRows, Alive
  <1>5. lock' = IF lock = r THEN Nobody ELSE lock
    BY DEF InsertRows, Release
  <1>6. TimeInv'
    BY DEF TInv, TimeInv, KeptAlive, InsertRows
  <1>7. CASE Alive
    <2>1. t.gone = plates /\ lock = r
      BY <1>1, <1>7 DEF TInv, LockInv, ContentInv, Good, Held
    <2>2. Content(t.want, turn) /\ lastFile' = t.want
      <3>1. (plates \ t.gone) \cup t.want = t.want
        BY <2>1
      <3> QED
        BY <1>7, <3>1 DEF InsertRows
    <2>3. \A x \in TempRequests : turn[x].pc \notin Held
      BY <1>2, <1>7, <2>1 DEF TInv, LockInv, NoTemp, Held
    <2> HIDE DEF turn, t
    <2>4. \A x \in TempRequests : temp'[x].pc = turn[x].pc /\ Good(temp[x])'
      BY <1>2, <1>3, <2>2, <2>3, ContentStep
    <2>5. LockInv'
      <3>1. \A x \in TempRequests : temp'[x].pc \notin Held
        BY <2>3, <2>4
      <3>2. lock' = Nobody
        BY <1>5, <2>1
      <3> QED
        BY <1>1, <1>4, <3>1, <3>2, TempAssumption DEF LockInv
    <2>6. plates' = t.want
      BY <2>2 DEF Content
    <2>7. ContentInv'
      BY <1>1, <1>4, <1>7, <2>2, <2>4, <2>6 DEF ContentInv, OneFile
    <2> QED
      BY <1>6, <2>5, <2>7 DEF TInv
  <1>8. CASE ~Alive
    <2>1. temp' = turn /\ UNCHANGED <<plates, lastFile>>
      BY <1>8 DEF InsertRows
    <2> HIDE DEF turn, t
    <2>2. LockInv'
      BY <1>1, <1>2, <1>4, <1>5, <1>8, <2>1, TempAssumption DEF TInv, LockInv, NoTemp, Held
    <2>3. \A x \in TempRequests : Good(temp[x])'
      BY <1>3, <1>4, <2>1 DEF Good
    <2>4. ContentInv'
      BY <1>4, <1>8, <2>1, <2>3 DEF TInv, ContentInv, OneFile
    <2> QED
      BY <1>6, <2>2, <2>4 DEF TInv
  <1> QED
    BY <1>7, <1>8

-----------------------------------------------------------------------------
LEMMA StepTInv == TInv /\ [TempNext]_tempVars => TInv'
  <1> SUFFICES ASSUME TInv, [TempNext]_tempVars PROVE TInv'
    OBVIOUS
  <1>0. TempTypeOK'
    BY TypeStep DEF TInv
  <1>1. CASE UNCHANGED tempVars
    <2>1. \A x \in TempRequests : Good(temp[x])'
      BY <1>1 DEF TInv, ContentInv, Good, tempVars, Alive
    <2> QED
      BY <1>0, <1>1, <2>1 DEF TInv, LockInv, TimeInv, KeptAlive, ContentInv, OneFile, tempVars, Alive
  <1>2. CASE TempTick
    <2>1. \A x \in TempRequests : Good(temp[x])'
      BY <1>2 DEF TInv, ContentInv, Good, TempTick, Alive
    <2> QED
      BY <1>0, <1>2, <2>1 DEF TInv, LockInv, TimeInv, KeptAlive, ContentInv, OneFile, TempTick, Alive
  <1>3. CASE StartSession
    <2>1. /\ \A x \in TempRequests : temp[x].pc = "idle" /\ temp' = temp
          /\ plates = {} /\ plates' = plates
      BY <1>3 DEF StartSession, TInv, LockInv, ContentInv, Alive
    <2>2. \A x \in TempRequests : Good(temp[x])'
      BY <2>1 DEF Good
    <2>3. LockInv'
      BY <1>3, <2>1 DEF TInv, LockInv, StartSession, Held
    <2>4. lastFile' = {} /\ session' = "live"
      BY <1>3 DEF StartSession, TInv, ContentInv
    <2> QED
      BY <1>0, <1>3, <2>1, <2>2, <2>3, <2>4 DEF TInv, TimeInv, KeptAlive, ContentInv, OneFile, StartSession, Alive
  <1>4. CASE CloseSession
    <2>1. /\ Content({}, temp) /\ session' = "gone" /\ lock' = lock
          /\ \A x \in TempRequests : temp[x].pc \notin Held
      BY <1>4, FreeNotHeld DEF CloseSession
    <2>2. /\ temp \in [TempRequests -> TempRequest]
          /\ \A x \in TempRequests : Good(temp[x])
      BY DEF TInv, TempTypeOK, ContentInv
    <2>3. \A x \in TempRequests : temp'[x].pc = temp[x].pc /\ Good(temp[x])'
      BY <2>1, <2>2, ContentStep
    <2>4. plates' = {}
      BY <2>1 DEF Content
    <2>5. LockInv'
      BY <2>1, <2>3 DEF TInv, LockInv, Alive
    <2>6. ContentInv'
      BY <2>1, <2>3, <2>4 DEF ContentInv, OneFile, Alive
    <2> QED
      BY <1>0, <1>4, <2>5, <2>6 DEF TInv, TimeInv, KeptAlive, CloseSession
  <1>5. ASSUME NEW r \in TempRequests, TempStep(r) PROVE TInv'
    BY <1>0, <1>5, AskTInv, PurgeTInv, FindTInv, TouchTInv, DeleteTInv, InsertTInv, LookTInv, AnswerTInv
       DEF TempStep
  <1> QED
    BY <1>1, <1>2, <1>3, <1>4, <1>5 DEF TempNext

\* TempTypeOK, the type invariant of the session and its requests.
THEOREM TempTypeCorrect == TempSpec => []TempTypeOK
  <1>1. TInv => TempTypeOK
    BY DEF TInv
  <1> QED
    BY InitTInv, StepTInv, <1>1, PTL DEF TempSpec

\* However uploads, queries, pings, purges and the close interleave, the session holds one
\* file, a query answers from one moment, and only a time that was written over by an
\* earlier one lets a purge come too soon.
THEOREM SessionIsSound == TempSpec => []TempSound
  <1>1. TInv => TempSound
    <2> SUFFICES ASSUME TInv PROVE TempSound
      OBVIOUS
    <2>1. OneMoment
      BY DEF TInv, ContentInv, Good, OneMoment
    <2> QED
      BY <2>1 DEF TInv, ContentInv, TimeInv, TempSound
  <1> QED
    BY InitTInv, StepTInv, <1>1, PTL DEF TempSpec

(***************************************************************************)
(* The comparison of two workbooks, for any rows whose cells are spelled   *)
(* as their writers meant, any headers, and any sizes of the sample, the   *)
(* batch, the preview and the sheets.                                      *)
(*                                                                         *)
(* Texts come first.  Keep is a recursive function, so what it returns is  *)
(* proved by induction over the positions of its argument (UpTo, from the  *)
(* well-founded order of Nat), and is then known by where its elements     *)
(* come from (KeepPicks, KeepIs).  From there, a text is given the key of  *)
(* what it means, and texts that mean the same have one key.  Then the     *)
(* join: what it is, in terms of keys (Indexed, IsJoin), and that a row    *)
(* extends it.  MatchInv puts them together for the program.               *)
(***************************************************************************)
\* Induction over 0..N.
LEMMA UpTo ==
  ASSUME NEW N \in Nat, NEW T, 0 \in T, \A n \in 0..N : n < N /\ n \in T => n + 1 \in T
  PROVE  0..N \subseteq T
  <1> DEFINE R == OpToRel(<, Nat)
             U == (0..N) \ T
  <1>1. IsWellFoundedOn(R, Nat)
    BY NatLessThanWellFounded
  <1>2. \A a, b \in Nat : <<a, b>> \in R <=> a < b
    BY DEF OpToRel
  <1>3. U \subseteq Nat
    OBVIOUS
  <1>4. CASE U # {}
    <2>1. PICK t \in U : \A u \in U : ~ (<<u, t>> \in R)
      <3> HIDE DEF R, U
      <3>1. QED
        BY <1>1, <1>3, <1>4, WFMin
    <2>2. t \in 0..N /\ t \notin T /\ t # 0
      OBVIOUS
    <2>3. t - 1 \in 0..N /\ t - 1 < N /\ (t - 1) + 1 = t
      BY <2>2
    <2>4. t - 1 \notin T
      BY <2>2, <2>3
    <2>5. t - 1 \in U /\ t - 1 < t /\ t - 1 \in Nat /\ t \in Nat
      BY <2>2, <2>3, <2>4
    <2>6. QED
      BY <1>2, <2>1, <2>5
  <1>5. CASE U = {}
    BY <1>5
  <1>6. QED
    BY <1>4, <1>5
-----------------------------------------------------------------------------
(* What Keep returns.                                                      *)

\* t holds the elements of S among the first n of s, in their order; at says where from.
From(s, S, n, t, at) ==
  /\ at \in [1..Len(t) -> 1..n]
  /\ \A k \in 1..Len(t) : t[k] = s[at[k]] /\ t[k] \in S
  /\ \A j, k \in 1..Len(t) : j < k => at[j] < at[k]
  /\ \A i \in 1..n : s[i] \in S => \E k \in 1..Len(t) : at[k] = i

Picked(s, S, n, t) == \E at : From(s, S, n, t, at)

KeepBody(s, S, f, n) == IF n = 0 THEN << >>
                        ELSE IF s[n] \in S THEN Append(f[n - 1], s[n])
                        ELSE f[n - 1]

LEMMA KeepSolved ==
  ASSUME NEW K, NEW s \in Seq(K), NEW S
  PROVE  \E f : f = [n \in 0..Len(s) |-> KeepBody(s, S, f, n)]
  <1> DEFINE Solves(f, m) == f = [n \in 0..m |-> KeepBody(s, S, f, n)]
             T == {m \in 0..Len(s) : \E f : Solves(f, m)}
  <1>1. Len(s) \in Nat
    OBVIOUS
  <1>2. 0 \in T
    <2> DEFINE f == [n \in 0..0 |-> <<>>]
    <2>1. Solves(f, 0)
      BY DEF KeepBody
    <2>2. QED
      BY <1>1, <2>1
  <1>3. ASSUME NEW m \in 0..Len(s), m < Len(s), m \in T PROVE m + 1 \in T
    <2>1. PICK f : Solves(f, m)
      BY <1>3
    <2> DEFINE g == [n \in 0..(m + 1) |-> IF n <= m THEN f[n] ELSE KeepBody(s, S, f, m + 1)]
    <2>2. \A n \in 0..m : g[n] = f[n] /\ f[n] = KeepBody(s, S, f, n)
      BY <2>1, SMTT(30)
    <2>3. \A n \in 0..(m + 1) : KeepBody(s, S, g, n) = KeepBody(s, S, f, n)
      <3>1. ASSUME NEW n \in 0..(m + 1), n # 0 PROVE g[n - 1] = f[n - 1]
        BY <2>2, <3>1
      <3>2. QED
        BY <3>1 DEF KeepBody
    <2>4. ASSUME NEW n \in 0..(m + 1) PROVE g[n] = KeepBody(s, S, g, n)
      <3>1. CASE n <= m
        <4>1. n \in 0..m
          BY <3>1
        <4>2. QED
          BY <2>2, <2>3, <4>1
      <3>2. CASE ~ (n <= m)
        <4>1. n = m + 1 /\ g[n] = KeepBody(s, S, f, m + 1)
          BY <3>2
        <4>2. QED
          BY <2>3, <4>1
      <3>3. QED
        BY <3>1, <3>2
    <2>5. Solves(g, m + 1)
      <3>1. g = [n \in 0..(m + 1) |-> g[n]]
        OBVIOUS
      <3> HIDE DEF g
      <3>2. [n \in 0..(m + 1) |-> g[n]] = [n \in 0..(m + 1) |-> KeepBody(s, S, g, n)]
        BY <2>4
      <3>3. QED
        BY <3>1, <3>2
    <2> HIDE DEF Solves, g
    <2>6. m + 1 \in 0..Len(s)
      BY <1>1, <1>3
    <2>7. QED
      BY <2>5, <2>6
  <1>4. Len(s) \in T
    <2> HIDE DEF T
    <2>1. \A m \in 0..Len(s) : m < Len(s) /\ m \in T => m + 1 \in T
      BY <1>3
    <2>2. 0..Len(s) \subseteq T
      BY <1>1, <1>2, <2>1, UpTo
    <2>3. QED
      BY <1>1, <2>2
  <1>5. QED
    BY <1>4

LEMMA KeepGrows ==
  ASSUME NEW K, NEW s \in Seq(K), NEW S, NEW n \in 0..Len(s), n < Len(s),
         NEW t \in Seq(K), Picked(s, S, n, t)
  PROVE  /\ s[n + 1] \notin S => Picked(s, S, n + 1, t)
         /\ s[n + 1] \in S => Append(t, s[n + 1]) \in Seq(K) /\ Picked(s, S, n + 1, Append(t, s[n + 1]))
  <1>1. n + 1 \in 1..Len(s) /\ s[n + 1] \in K /\ n \in Nat /\ Len(t) \in Nat
    OBVIOUS
  <1>2. PICK at : From(s, S, n, t, at)
    BY DEF Picked
  <1>3. /\ at \in [1..Len(t) -> 1..n]
        /\ \A k \in 1..Len(t) : t[k] = s[at[k]] /\ t[k] \in S
        /\ \A j, k \in 1..Len(t) : j < k => at[j] < at[k]
        /\ \A i \in 1..n : s[i] \in S => \E k \in 1..Len(t) : at[k] = i
    BY <1>2 DEF From
  <1>4. \A i \in 1..n : i \in 1..(n + 1) /\ i < n + 1
    BY <1>1
  <1>5. \A i \in 1..(n + 1) : i = n + 1 \/ i \in 1..n
    BY <1>1
  <1>6. ASSUME s[n + 1] \notin S PROVE Picked(s, S, n + 1, t)
    <2>1. at \in [1..Len(t) -> 1..(n + 1)]
      BY <1>3, <1>4
    <2>2. \A i \in 1..(n + 1) : s[i] \in S => \E k \in 1..Len(t) : at[k] = i
      BY <1>3, <1>5, <1>6
    <2>3. From(s, S, n + 1, t, at)
      BY <1>3, <2>1, <2>2 DEF From
    <2>4. QED
      BY <2>3 DEF Picked
  <1>7. ASSUME s[n + 1] \in S
        PROVE  Append(t, s[n + 1]) \in Seq(K) /\ Picked(s, S, n + 1, Append(t, s[n + 1]))
    <2> DEFINE u == Append(t, s[n + 1])
               m == Len(t) + 1
               on == [k \in 1..m |-> IF k = m THEN n + 1 ELSE at[k]]
    <2>1. /\ u \in Seq(K) /\ Len(u) = m /\ u[m] = s[n + 1]
          /\ \A k \in 1..Len(t) : u[k] = t[k]
      BY <1>1
    <2>2. m \in 1..m /\ \A k \in 1..m : k = m \/ k \in 1..Len(t)
      BY <1>1
    <2>3. \A k \in 1..Len(t) : k \in 1..m /\ k < m /\ k # m
      BY <1>1
    <2>4. /\ on \in [1..m -> 1..(n + 1)] /\ on[m] = n + 1
          /\ \A k \in 1..Len(t) : on[k] = at[k]
      BY <1>1, <1>3, <1>4, <2>2, <2>3
    <2> HIDE DEF on, u
    <2>5. \A k \in 1..m : u[k] = s[on[k]] /\ u[k] \in S
      BY <1>3, <1>7, <2>1, <2>2, <2>4
    <2>6. ASSUME NEW j \in 1..m, NEW k \in 1..m, j < k PROVE on[j] < on[k]
      <3>1. j \in 1..Len(t)
        BY <1>1, <2>6
      <3>2. CASE k = m
        <4>1. on[j] = at[j] /\ on[k] = n + 1
          BY <2>4, <3>1, <3>2
        <4>2. at[j] \in 1..n
          BY <1>3, <3>1
        <4>3. \A i \in 1..n : i < n + 1
          BY <1>4
        <4>4. QED
          BY <4>1, <4>2, <4>3
      <3>3. CASE k \in 1..Len(t)
        BY <1>3, <2>4, <2>6, <3>1, <3>3
      <3>4. QED
        BY <2>2, <3>2, <3>3
    <2>7. ASSUME NEW i \in 1..(n + 1), s[i] \in S PROVE \E k \in 1..m : on[k] = i
      <3>1. CASE i = n + 1
        BY <2>2, <2>4, <3>1
      <3>2. CASE i \in 1..n
        <4>1. PICK k \in 1..Len(t) : at[k] = i
          BY <1>3, <2>7, <3>2
        <4>2. QED
          BY <2>3, <2>4, <4>1
      <3>3. QED
        BY <1>5, <3>1, <3>2
    <2>8. From(s, S, n + 1, u, on)
      <3> HIDE DEF m
      <3>1. QED
        BY <2>1, <2>4, <2>5, <2>6, <2>7 DEF From
    <2>9. QED
      BY <2>1, <2>8 DEF Picked, u
  <1>8. QED
    BY <1>6, <1>7

\* Keep has the elements of S, in their order.
LEMMA KeepPicks ==
  ASSUME NEW K, NEW s \in Seq(K), NEW S
  PROVE  Keep(s, S) \in Seq(K) /\ Picked(s, S, Len(s), Keep(s, S))
  <1>1. PICK f : f = [n \in 0..Len(s) |-> KeepBody(s, S, f, n)] /\ Keep(s, S) = f[Len(s)]
    <2>1. PICK g : g = [n \in 0..Len(s) |-> KeepBody(s, S, g, n)]
      BY KeepSolved
    <2>2. g = [n \in 0..Len(s) |-> IF n = 0 THEN <<>> ELSE IF s[n] \in S THEN Append(g[n - 1], s[n])
                                   ELSE g[n - 1]]
      BY <2>1 DEF KeepBody
    <2>3. \E f : /\ Keep(s, S) = f[Len(s)]
                 /\ f = [n \in 0..Len(s) |-> IF n = 0 THEN <<>>
                                            ELSE IF s[n] \in S THEN Append(f[n - 1], s[n])
                                            ELSE f[n - 1]]
      BY <2>2 DEF Keep
    <2>4. QED
      BY <2>3 DEF KeepBody
  <1> DEFINE T == {n \in 0..Len(s) : f[n] \in Seq(K) /\ Picked(s, S, n, f[n])}
  <1>2. Len(s) \in Nat
    OBVIOUS
  <1>3. \A n \in 0..Len(s) : f[n] = KeepBody(s, S, f, n)
    BY <1>1
  <1>4. 0 \in T
    <2>1. f[0] = <<>>
      BY <1>2, <1>3 DEF KeepBody
    <2>2. <<>> \in Seq(K) /\ Len(<<>>) = 0
      OBVIOUS
    <2>3. From(s, S, 0, <<>>, [k \in 1..0 |-> 0])
      BY <2>2 DEF From
    <2>4. Picked(s, S, 0, <<>>)
      BY <2>3 DEF Picked
    <2>5. f[0] \in Seq(K) /\ Picked(s, S, 0, f[0]) /\ 0 \in 0..Len(s)
      BY <1>2, <2>1, <2>2, <2>4
    <2> HIDE DEF Picked
    <2>6. QED
      BY <2>5
  <1>5. ASSUME NEW n \in 0..Len(s), n < Len(s), n \in T PROVE n + 1 \in T
    <2>1. f[n] \in Seq(K) /\ Picked(s, S, n, f[n]) /\ n + 1 \in 0..Len(s)
      BY <1>2, <1>5
    <2>2. f[n + 1] = IF s[n + 1] \in S THEN Append(f[n], s[n + 1]) ELSE f[n]
      <3>1. n + 1 # 0 /\ (n + 1) - 1 = n
        OBVIOUS
      <3>2. QED
        BY <1>3, <2>1, <3>1 DEF KeepBody
    <2>3. f[n + 1] \in Seq(K) /\ Picked(s, S, n + 1, f[n + 1])
      BY <1>5, <2>1, <2>2, KeepGrows
    <2>4. QED
      BY <2>1, <2>3
  <1>6. Len(s) \in T
    <2> HIDE DEF T
    <2>1. 0..Len(s) \subseteq T
      BY <1>2, <1>4, <1>5, UpTo
    <2>2. QED
      BY <1>2, <2>1
  <1>7. QED
    BY <1>1, <1>6
-----------------------------------------------------------------------------
(* What keeps the elements of S in their order is Keep.                    *)

Rises(f, m) == /\ \A k \in 1..m : f[k] \in Nat
               /\ \A j, k \in 1..m : j < k => f[j] < f[k]

Covers(f, m, g, n) == \A j \in 1..n : \E k \in 1..m : f[k] = g[j]

LEMMA SameRange ==
  ASSUME NEW m \in Nat, NEW n \in Nat, NEW f, NEW g,
         Rises(f, m), Rises(g, n), Covers(f, m, g, n), Covers(g, n, f, m)
  PROVE  m = n /\ \A k \in 1..m : f[k] = g[k]
  <1> USE DEF Rises, Covers
  <1> DEFINE T == {k \in 0..m : k <= n /\ \A j \in 1..k : f[j] = g[j]}
  <1>1. 0 \in T
    OBVIOUS
  <1>2. ASSUME NEW k \in 0..m, k < m, k \in T PROVE k + 1 \in T
    <2>1. k <= n /\ (\A j \in 1..k : f[j] = g[j]) /\ k + 1 \in 1..m
      BY <1>2
    <2> HIDE DEF T
    <2>2. PICK j \in 1..n : g[j] = f[k + 1]
      BY <2>1
    <2>3. ~ (j <= k)
      <3>1. SUFFICES ASSUME j <= k PROVE FALSE
        OBVIOUS
      <3>2. j \in 1..k /\ j \in 1..m /\ j < k + 1
        BY <2>1, <3>1
      <3>3. f[j] = g[j] /\ f[j] < f[k + 1]
        BY <2>1, <3>2
      <3>4. QED
        BY <2>1, <2>2, <3>2, <3>3
    <2>4. k + 1 \in 1..n /\ (k + 1 < j \/ k + 1 = j)
      BY <2>1, <2>3
    <2>5. PICK i \in 1..m : f[i] = g[k + 1]
      BY <2>4
    <2>6. ~ (i <= k)
      <3>1. SUFFICES ASSUME i <= k PROVE FALSE
        OBVIOUS
      <3>2. i \in 1..k /\ i \in 1..n /\ i < k + 1
        BY <2>1, <3>1
      <3>3. f[i] = g[i] /\ g[i] < g[k + 1]
        BY <2>1, <2>4, <3>2
      <3>4. QED
        BY <2>4, <2>5, <3>2, <3>3
    <2>7. k + 1 < i \/ k + 1 = i
      BY <2>1, <2>6
    <2>8. f[k + 1] \in Nat /\ g[k + 1] \in Nat /\ f[i] \in Nat /\ g[j] \in Nat
      BY <2>1, <2>4
    <2>9. f[k + 1] <= f[i] /\ g[k + 1] <= g[j]
      <3>1. k + 1 < i => f[k + 1] < f[i]
        BY <2>1
      <3>2. k + 1 < j => g[k + 1] < g[j]
        BY <2>4
      <3>3. k + 1 = i => f[k + 1] = f[i]
        OBVIOUS
      <3>4. k + 1 = j => g[k + 1] = g[j]
        OBVIOUS
      <3>5. \A a, b \in Nat : a < b \/ a = b => a <= b
        OBVIOUS
      <3>6. QED
        BY <2>4, <2>7, <2>8, <3>1, <3>2, <3>3, <3>4, <3>5
    <2>10. f[k + 1] = g[k + 1]
      <3>1. \A a, b \in Nat : a <= b /\ b <= a => a = b
        OBVIOUS
      <3>2. f[k + 1] <= g[k + 1] /\ g[k + 1] <= f[k + 1]
        BY <2>2, <2>5, <2>9
      <3>3. QED
        BY <2>8, <3>1, <3>2
    <2>11. \A a \in 1..(k + 1) : a \in 1..k \/ a = k + 1
      BY <2>1
    <2>12. k + 1 \in 0..m /\ k + 1 <= n
      BY <2>1, <2>4
    <2>13. \A a \in 1..(k + 1) : f[a] = g[a]
      BY <2>1, <2>10, <2>11
    <2>14. QED
      BY <2>12, <2>13 DEF T
  <1>3. m \in T
    <2> HIDE DEF T
    <2>1. 0..m \subseteq T
      BY <1>1, <1>2, UpTo
    <2>2. QED
      BY <2>1
  <1>4. m <= n /\ \A j \in 1..m : f[j] = g[j]
    BY <1>3
  <1>5. m = n
    <2>1. SUFFICES ASSUME m < n PROVE FALSE
      BY <1>4
    <2>2. m + 1 \in 1..n
      BY <2>1
    <2>3. PICK i \in 1..m : f[i] = g[m + 1]
      BY <2>2
    <2>4. i \in 1..n /\ i < m + 1 /\ f[i] = g[i]
      BY <1>4
    <2>5. g[i] < g[m + 1] /\ g[i] \in Nat /\ g[m + 1] \in Nat
      BY <2>2, <2>4
    <2>6. QED
      BY <2>3, <2>4, <2>5
  <1>6. QED
    BY <1>4, <1>5

LEMMA KeepIs ==
  ASSUME NEW K, NEW s \in Seq(K), NEW S, NEW t \in Seq(K), Picked(s, S, Len(s), t)
  PROVE  t = Keep(s, S)
  <1> DEFINE u == Keep(s, S)
  <1>1. u \in Seq(K) /\ Picked(s, S, Len(s), u)
    BY KeepPicks
  <1> HIDE DEF u
  <1>2. PICK f : From(s, S, Len(s), t, f)
    BY DEF Picked
  <1>3. PICK g : From(s, S, Len(s), u, g)
    BY <1>1 DEF Picked
  <1>4. Len(t) \in Nat /\ Len(u) \in Nat /\ Len(s) \in Nat
    BY <1>1
  <1>5. /\ f \in [1..Len(t) -> 1..Len(s)]
        /\ \A k \in 1..Len(t) : t[k] = s[f[k]] /\ t[k] \in S
        /\ \A j, k \in 1..Len(t) : j < k => f[j] < f[k]
        /\ \A i \in 1..Len(s) : s[i] \in S => \E k \in 1..Len(t) : f[k] = i
    BY <1>2 DEF From
  <1>6. /\ g \in [1..Len(u) -> 1..Len(s)]
        /\ \A k \in 1..Len(u) : u[k] = s[g[k]] /\ u[k] \in S
        /\ \A j, k \in 1..Len(u) : j < k => g[j] < g[k]
        /\ \A i \in 1..Len(s) : s[i] \in S => \E k \in 1..Len(u) : g[k] = i
    BY <1>3 DEF From
  <1>7. Rises(f, Len(t)) /\ Rises(g, Len(u))
    <2>1. ASSUME NEW k \in 1..Len(t) PROVE f[k] \in Nat
      BY <1>4, <1>5
    <2>2. ASSUME NEW k \in 1..Len(u) PROVE g[k] \in Nat
      <3>1. g[k] \in 1..Len(s)
        BY <1>6
      <3>2. QED
        BY <1>4, <3>1
    <2>3. QED
      BY <1>5, <1>6, <2>1, <2>2 DEF Rises
  <1>8. Covers(g, Len(u), f, Len(t))
    <2>1. ASSUME NEW k \in 1..Len(t) PROVE \E j \in 1..Len(u) : g[j] = f[k]
      <3>1. f[k] \in 1..Len(s) /\ s[f[k]] \in S
        BY <1>5
      <3>2. QED
        BY <1>6, <3>1
    <2>2. QED
      BY <2>1 DEF Covers
  <1>9. Covers(f, Len(t), g, Len(u))
    <2>1. ASSUME NEW k \in 1..Len(u) PROVE \E j \in 1..Len(t) : f[j] = g[k]
      <3>1. g[k] \in 1..Len(s) /\ s[g[k]] \in S
        BY <1>6
      <3>2. QED
        BY <1>5, <3>1
    <2>2. QED
      BY <2>1 DEF Covers
  <1>10. Len(t) = Len(u) /\ \A k \in 1..Len(t) : f[k] = g[k]
    BY <1>4, <1>7, <1>8, <1>9, SameRange
  <1>11. \A k \in 1..Len(t) : t[k] = u[k]
    BY <1>5, <1>6, <1>10
  <1>12. t = u
    BY <1>1, <1>10, <1>11
  <1>13. QED
    BY <1>12 DEF u

LEMMA KeepSame ==
  ASSUME NEW K, NEW s \in Seq(K), NEW S, NEW T,
         \A i \in 1..Len(s) : s[i] \in S <=> s[i] \in T
  PROVE  Keep(s, S) = Keep(s, T)
  <1> DEFINE t == Keep(s, S)
  <1>1. t \in Seq(K) /\ Picked(s, S, Len(s), t)
    BY KeepPicks
  <1> HIDE DEF t
  <1>2. PICK f : From(s, S, Len(s), t, f)
    BY <1>1 DEF Picked
  <1>3. From(s, T, Len(s), t, f)
    <2>1. \A k \in 1..Len(t) : f[k] \in 1..Len(s) /\ t[k] = s[f[k]] /\ t[k] \in S
      BY <1>2 DEF From
    <2>2. \A k \in 1..Len(t) : t[k] \in T
      BY <2>1
    <2>3. QED
      BY <1>2, <2>1, <2>2 DEF From
  <1>4. Picked(s, T, Len(s), t)
    BY <1>3 DEF Picked
  <1>5. QED
    BY <1>1, <1>4, KeepIs DEF t

LEMMA KeepTyped ==
  ASSUME NEW K, NEW s \in Seq(K), NEW S
  PROVE  Keep(s, S) \in Seq(K) /\ Keep(s, S) \in Seq(S) /\ Keep(s, S) \in Seq(K \cap S)
  <1> DEFINE t == Keep(s, S)
  <1>1. t \in Seq(K) /\ Picked(s, S, Len(s), t)
    BY KeepPicks
  <1> HIDE DEF t
  <1>2. \A k \in 1..Len(t) : t[k] \in S
    BY <1>1 DEF Picked, From
  <1>3. QED
    BY <1>1, <1>2 DEF t

LEMMA KeepKeep ==
  ASSUME NEW K, NEW s \in Seq(K), NEW S, NEW T
  PROVE  Keep(Keep(s, S), T) = Keep(s, S \cap T)
  <1> DEFINE t == Keep(s, S)
             u == Keep(t, T)
  <1>1. t \in Seq(K) /\ Picked(s, S, Len(s), t)
    BY KeepPicks
  <1> HIDE DEF t
  <1>2. u \in Seq(K) /\ Picked(t, T, Len(t), u)
    BY <1>1, KeepPicks
  <1> HIDE DEF u
  <1>3. PICK f : From(s, S, Len(s), t, f)
    BY <1>1 DEF Picked
  <1>4. PICK g : From(t, T, Len(t), u, g)
    BY <1>2 DEF Picked
  <1>5. /\ f \in [1..Len(t) -> 1..Len(s)]
        /\ \A k \in 1..Len(t) : t[k] = s[f[k]] /\ t[k] \in S
        /\ \A j, k \in 1..Len(t) : j < k => f[j] < f[k]
        /\ \A i \in 1..Len(s) : s[i] \in S => \E k \in 1..Len(t) : f[k] = i
    BY <1>3 DEF From
  <1>6. /\ g \in [1..Len(u) -> 1..Len(t)]
        /\ \A k \in 1..Len(u) : u[k] = t[g[k]] /\ u[k] \in T
        /\ \A j, k \in 1..Len(u) : j < k => g[j] < g[k]
        /\ \A i \in 1..Len(t) : t[i] \in T => \E k \in 1..Len(u) : g[k] = i
    BY <1>4 DEF From
  <1> DEFINE h == [k \in 1..Len(u) |-> f[g[k]]]
  <1>7. h \in [1..Len(u) -> 1..Len(s)] /\ \A k \in 1..Len(u) : h[k] = f[g[k]] /\ g[k] \in 1..Len(t)
    BY <1>5, <1>6
  <1> HIDE DEF h
  <1>8. \A k \in 1..Len(u) : u[k] = s[h[k]] /\ u[k] \in S \cap T
    BY <1>5, <1>6, <1>7
  <1>9. \A j, k \in 1..Len(u) : j < k => h[j] < h[k]
    BY <1>5, <1>6, <1>7
  <1>10. ASSUME NEW i \in 1..Len(s), s[i] \in S \cap T PROVE \E k \in 1..Len(u) : h[k] = i
    <2>1. PICK k \in 1..Len(t) : f[k] = i
      BY <1>5, <1>10
    <2>2. t[k] \in T
      BY <1>5, <1>10, <2>1
    <2>3. PICK l \in 1..Len(u) : g[l] = k
      BY <1>6, <2>2
    <2>4. QED
      BY <1>7, <2>1, <2>3
  <1>11. From(s, S \cap T, Len(s), u, h)
    BY <1>7, <1>8, <1>9, <1>10 DEF From
  <1>12. Picked(s, S \cap T, Len(s), u)
    BY <1>11 DEF Picked
  <1>13. QED
    BY <1>2, <1>12, KeepIs DEF u, t

LEMMA KeepAll ==
  ASSUME NEW K, NEW s \in Seq(K), NEW S, \A i \in 1..Len(s) : s[i] \in S
  PROVE  Keep(s, S) = s
  <1>1. From(s, S, Len(s), s, [i \in 1..Len(s) |-> i])
    BY DEF From
  <1>2. Picked(s, S, Len(s), s)
    BY <1>1 DEF Picked
  <1>3. QED
    BY <1>2, KeepIs

LEMMA KeepNone ==
  ASSUME NEW K, NEW s \in Seq(K), NEW S, \A i \in 1..Len(s) : s[i] \notin S
  PROVE  Keep(s, S) = << >>
  <1>1. From(s, S, Len(s), << >>, [i \in 1..0 |-> 0])
    BY DEF From
  <1>2. Picked(s, S, Len(s), << >>)
    BY <1>1 DEF Picked
  <1>3. << >> \in Seq(K)
    OBVIOUS
  <1>4. QED
    BY <1>2, <1>3, KeepIs

LEMMA KeepConcat ==
  ASSUME NEW K, NEW r \in Seq(K), NEW s \in Seq(K), NEW S
  PROVE  Keep(r \o s, S) = Keep(r, S) \o Keep(s, S)
  <1> DEFINE t == Keep(r, S)
             u == Keep(s, S)
             m == Len(r)
             n == Len(t)
  <1>1. t \in Seq(K) /\ u \in Seq(K) /\ Picked(r, S, Len(r), t) /\ Picked(s, S, Len(s), u)
    BY KeepPicks
  <1> HIDE DEF t, u
  <1>2. PICK f : From(r, S, Len(r), t, f)
    BY <1>1 DEF Picked
  <1>3. PICK g : From(s, S, Len(s), u, g)
    BY <1>1 DEF Picked
  <1>4. /\ f \in [1..Len(t) -> 1..Len(r)]
        /\ \A k \in 1..Len(t) : t[k] = r[f[k]] /\ t[k] \in S
        /\ \A j, k \in 1..Len(t) : j < k => f[j] < f[k]
        /\ \A i \in 1..Len(r) : r[i] \in S => \E k \in 1..Len(t) : f[k] = i
    BY <1>2 DEF From
  <1>5. /\ g \in [1..Len(u) -> 1..Len(s)]
        /\ \A k \in 1..Len(u) : u[k] = s[g[k]] /\ u[k] \in S
        /\ \A j, k \in 1..Len(u) : j < k => g[j] < g[k]
        /\ \A i \in 1..Len(s) : s[i] \in S => \E k \in 1..Len(u) : g[k] = i
    BY <1>3 DEF From
  <1>6. m \in Nat /\ n \in Nat /\ Len(s) \in Nat /\ Len(u) \in Nat
    BY <1>1
  <1>7. /\ r \o s \in Seq(K) /\ Len(r \o s) = m + Len(s)
        /\ \A i \in 1..m : (r \o s)[i] = r[i]
        /\ \A i \in 1..Len(s) : (r \o s)[m + i] = s[i]
    BY <1>6
  <1>8. /\ t \o u \in Seq(K) /\ Len(t \o u) = n + Len(u)
        /\ \A i \in 1..n : (t \o u)[i] = t[i]
        /\ \A i \in 1..Len(u) : (t \o u)[n + i] = u[i]
    BY <1>1, <1>6
  <1> DEFINE v == r \o s
             w == t \o u
             h == [k \in 1..(n + Len(u)) |-> IF k <= n THEN f[k] ELSE m + g[k - n]]
  <1>9. /\ \A k \in 1..(n + Len(u)) : k \in 1..n \/ (k - n \in 1..Len(u) /\ k = n + (k - n) /\ ~ (k <= n))
        /\ \A k \in 1..n : k \in 1..(n + Len(u)) /\ k <= n
        /\ \A k \in 1..Len(u) : n + k \in 1..(n + Len(u)) /\ ~ (n + k <= n) /\ (n + k) - n = k
    BY <1>6
  <1>10. /\ \A k \in 1..n : h[k] = f[k]
         /\ \A k \in 1..Len(u) : h[n + k] = m + g[k]
    BY <1>9
  <1>11. /\ \A i \in 1..m : i \in 1..(m + Len(s))
         /\ \A i \in 1..Len(s) : m + i \in 1..(m + Len(s))
         /\ \A i \in 1..(m + Len(s)) : i \in 1..m \/ (i - m \in 1..Len(s) /\ i = m + (i - m))
    BY <1>6
  <1>12. h \in [1..(n + Len(u)) -> 1..(m + Len(s))]
    <2>1. ASSUME NEW k \in 1..(n + Len(u)) PROVE h[k] \in 1..(m + Len(s))
      <3>1. CASE k \in 1..n
        BY <1>4, <1>10, <1>11, <3>1
      <3>2. CASE k - n \in 1..Len(u) /\ k = n + (k - n)
        <4>1. h[k] = m + g[k - n] /\ g[k - n] \in 1..Len(s)
          BY <1>5, <1>10, <3>2
        <4>2. QED
          BY <1>11, <4>1
      <3>3. QED
        BY <1>9, <3>1, <3>2
    <2> HIDE DEF h
    <2>2. h = [k \in 1..(n + Len(u)) |-> h[k]]
      BY DEF h
    <2>3. QED
      BY <2>1, <2>2
  <1> HIDE DEF h, v, w
  <1>13. ASSUME NEW k \in 1..(n + Len(u)) PROVE w[k] = v[h[k]] /\ w[k] \in S
    <2>1. CASE k \in 1..n
      <3>1. f[k] \in 1..m
        BY <1>4, <2>1
      <3>2. QED
        BY <1>4, <1>7, <1>8, <1>10, <2>1, <3>1 DEF v, w
    <2>2. CASE k - n \in 1..Len(u) /\ k = n + (k - n)
      <3>1. h[k] = m + g[k - n] /\ g[k - n] \in 1..Len(s) /\ w[k] = u[k - n]
        BY <1>5, <1>8, <1>10, <2>2 DEF w
      <3>2. v[h[k]] = s[g[k - n]]
        BY <1>7, <3>1 DEF v
      <3>3. QED
        BY <1>5, <2>2, <3>1, <3>2
    <2>3. QED
      BY <1>9, <2>1, <2>2
  <1>14. ASSUME NEW j \in 1..(n + Len(u)), NEW k \in 1..(n + Len(u)), j < k PROVE h[j] < h[k]
    <2>1. CASE j \in 1..n /\ k \in 1..n
      BY <1>4, <1>10, <1>14, <2>1
    <2>2. CASE j \in 1..n /\ k - n \in 1..Len(u) /\ k = n + (k - n)
      <3>1. h[j] \in 1..m /\ h[k] = m + g[k - n] /\ g[k - n] \in 1..Len(s)
        BY <1>4, <1>5, <1>10, <2>2
      <3>2. QED
        BY <1>6, <3>1
    <2>3. CASE j - n \in 1..Len(u) /\ j = n + (j - n) /\ k - n \in 1..Len(u) /\ k = n + (k - n)
      <3>1. /\ h[j] = m + g[j - n] /\ g[j - n] \in 1..Len(s)
            /\ h[k] = m + g[k - n] /\ g[k - n] \in 1..Len(s)
        BY <1>5, <1>10, <2>3
      <3>2. j - n < k - n
        BY <1>6, <1>14
      <3>3. g[j - n] < g[k - n]
        BY <1>5, <2>3, <3>2
      <3>4. QED
        BY <1>6, <3>1, <3>3
    <2>4. k \in 1..n => j \in 1..n
      BY <1>6, <1>14
    <2>5. QED
      BY <1>9, <2>1, <2>2, <2>3, <2>4
  <1>15. ASSUME NEW i \in 1..(m + Len(s)), v[i] \in S PROVE \E k \in 1..(n + Len(u)) : h[k] = i
    <2>1. CASE i \in 1..m
      <3>1. r[i] \in S
        BY <1>7, <1>15, <2>1 DEF v
      <3>2. PICK k \in 1..n : f[k] = i
        BY <1>4, <2>1, <3>1
      <3>3. QED
        BY <1>9, <1>10, <3>2
    <2>2. CASE i - m \in 1..Len(s) /\ i = m + (i - m)
      <3>1. v[i] = s[i - m]
        BY <1>7, <2>2 DEF v
      <3>2. PICK k \in 1..Len(u) : g[k] = i - m
        BY <1>5, <1>15, <2>2, <3>1
      <3>3. QED
        BY <1>9, <1>10, <2>2, <3>2
    <2>3. QED
      BY <1>11, <2>1, <2>2
  <1>16. From(v, S, m + Len(s), w, h)
    <2>1. Len(w) = n + Len(u)
      BY <1>8 DEF w
    <2> HIDE DEF n, m
    <2>2. QED
      BY <1>12, <1>13, <1>14, <1>15, <2>1 DEF From
  <1>17. Picked(v, S, Len(v), w)
    <2>1. Len(v) = m + Len(s)
      BY <1>7 DEF v
    <2>2. QED
      BY <1>16, <2>1 DEF Picked
  <1>18. w = Keep(v, S)
    BY <1>7, <1>8, <1>17, KeepIs DEF v, w
  <1>19. QED
    BY <1>18 DEF v, w, t, u

\* A function applied to the elements of a sequence.
On(g, s) == [i \in DOMAIN s |-> g[s[i]]]

MapsTo(g, K, L) == \A c \in K : g[c] \in L

LEMMA OnTyped ==
  ASSUME NEW K, NEW L, NEW s \in Seq(K), NEW g, MapsTo(g, K, L)
  PROVE  /\ On(g, s) \in Seq(L) /\ Len(On(g, s)) = Len(s)
         /\ \A i \in 1..Len(s) : On(g, s)[i] = g[s[i]]
  <1>1. Len(s) \in Nat /\ DOMAIN s = 1..Len(s) /\ \A i \in 1..Len(s) : s[i] \in K
    OBVIOUS
  <1>2. On(g, s) \in [1..Len(s) -> L] /\ \A i \in 1..Len(s) : On(g, s)[i] = g[s[i]]
    BY <1>1 DEF On, MapsTo
  <1>3. QED
    BY <1>1, <1>2

\* What is kept of the images are the images of what is kept.
LEMMA KeepOn ==
  ASSUME NEW K, NEW L, NEW s \in Seq(K), NEW g, MapsTo(g, K, L), NEW S
  PROVE  Keep(On(g, s), S) = On(g, Keep(s, {c \in K : g[c] \in S}))
  <1>0. /\ On(g, s) \in Seq(L) /\ Len(On(g, s)) = Len(s)
        /\ \A i \in 1..Len(s) : On(g, s)[i] = g[s[i]]
    BY OnTyped
  <1> DEFINE C == {c \in K : g[c] \in S}
             t == Keep(s, C)
             v == On(g, s)
             w == On(g, t)
  <1>1. t \in Seq(K) /\ Picked(s, C, Len(s), t)
    BY KeepPicks
  <1> HIDE DEF t
  <1>2. PICK f : From(s, C, Len(s), t, f)
    BY <1>1 DEF Picked
  <1>3. /\ f \in [1..Len(t) -> 1..Len(s)]
        /\ \A k \in 1..Len(t) : t[k] = s[f[k]] /\ t[k] \in C
        /\ \A j, k \in 1..Len(t) : j < k => f[j] < f[k]
        /\ \A i \in 1..Len(s) : s[i] \in C => \E k \in 1..Len(t) : f[k] = i
    BY <1>2 DEF From
  <1>4. v \in Seq(L) /\ Len(v) = Len(s) /\ \A i \in 1..Len(s) : v[i] = g[s[i]]
    BY <1>0 DEF v
  <1>5. w \in Seq(L) /\ Len(w) = Len(t) /\ \A i \in 1..Len(t) : w[i] = g[t[i]]
    BY <1>1, OnTyped
  <1> HIDE DEF v, w
  <1>6. \A k \in 1..Len(t) : w[k] = v[f[k]] /\ w[k] \in S
    BY SMTT(30), <1>3, <1>4, <1>5
  <1>7. \A i \in 1..Len(s) : v[i] \in S => s[i] \in C
    BY <1>4
  <1>8. From(v, S, Len(v), w, f)
    BY <1>3, <1>4, <1>5, <1>6, <1>7 DEF From
  <1>9. Picked(v, S, Len(v), w)
    BY <1>8 DEF Picked
  <1>10. QED
    BY <1>4, <1>5, <1>9, KeepIs DEF v, w, t

LEMMA ReverseTyped ==
  ASSUME NEW K, NEW s \in Seq(K)
  PROVE  /\ Reverse(s) \in Seq(K) /\ Len(Reverse(s)) = Len(s)
         /\ \A i \in 1..Len(s) : Reverse(s)[i] = s[(Len(s) - i) + 1]
  <1>1. Len(s) \in Nat
    OBVIOUS
  <1>2. \A i \in 1..Len(s) : (Len(s) - i) + 1 \in 1..Len(s)
    BY <1>1
  <1>3. Reverse(s) \in [1..Len(s) -> K] /\ \A i \in 1..Len(s) : Reverse(s)[i] = s[(Len(s) - i) + 1]
    BY <1>2 DEF Reverse
  <1>4. QED
    BY <1>1, <1>3

LEMMA FirstNaturals == \A n \in Nat : IsFiniteSet(1..n) /\ Cardinality(1..n) = n
  <1>1. SUFFICES ASSUME NEW n \in Nat PROVE IsFiniteSet(1..n) /\ Cardinality(1..n) = n
    OBVIOUS
  <1>2. n \in Int /\ 1 \in Int /\ n = IF 1 > n THEN 0 ELSE n - 1 + 1
    OBVIOUS
  <1>3. IsFiniteSet(1..n) /\ Cardinality(1..n) = IF 1 > n THEN 0 ELSE n - 1 + 1
    BY <1>2, FS_Interval
  <1>4. QED
    BY <1>2, <1>3

\* How many are kept.
LEMMA KeepCounts ==
  ASSUME NEW K, NEW s \in Seq(K), NEW S
  PROVE  /\ IsFiniteSet({i \in DOMAIN s : s[i] \in S})
         /\ Cardinality({i \in DOMAIN s : s[i] \in S}) = Len(Keep(s, S))
  <1> DEFINE t == Keep(s, S)
             P == {i \in DOMAIN s : s[i] \in S}
  <1>1. t \in Seq(K) /\ Picked(s, S, Len(s), t)
    BY KeepPicks
  <1> HIDE DEF t
  <1>2. PICK f : From(s, S, Len(s), t, f)
    BY <1>1 DEF Picked
  <1>3. /\ f \in [1..Len(t) -> 1..Len(s)]
        /\ \A k \in 1..Len(t) : t[k] = s[f[k]] /\ t[k] \in S
        /\ \A j, k \in 1..Len(t) : j < k => f[j] < f[k]
        /\ \A i \in 1..Len(s) : s[i] \in S => \E k \in 1..Len(t) : f[k] = i
    BY <1>2 DEF From
  <1>4. Len(t) \in Nat /\ DOMAIN s = 1..Len(s) /\ Len(s) \in Nat
    BY <1>1
  <1>5. f \in [1..Len(t) -> P]
    BY <1>3, <1>4
  <1>6. f \in Bijection(1..Len(t), P)
    <2>1. f \in Injection(1..Len(t), P)
      <3>1. ASSUME NEW j \in 1..Len(t), NEW k \in 1..Len(t), f[j] = f[k] PROVE j = k
        <4>1. f[j] \in Nat
          BY <1>3, <1>4
        <4>2. ~ (f[j] < f[k]) /\ ~ (f[k] < f[j])
          BY <3>1, <4>1
        <4>3. ~ (j < k) /\ ~ (k < j)
          BY <1>3, <4>2
        <4>4. QED
          BY <1>4, <4>3
      <3>2. QED
        BY <1>5, <3>1 DEF Injection, IsInjective
    <2>2. f \in Surjection(1..Len(t), P)
      BY <1>3, <1>4, <1>5 DEF Surjection
    <2>3. QED
      BY <2>1, <2>2 DEF Bijection
  <1>7. ExistsBijection(1..Len(t), P)
    BY <1>6 DEF ExistsBijection
  <1>8. QED
    <2>1. IsFiniteSet(1..Len(t)) /\ Cardinality(1..Len(t)) = Len(t)
      BY <1>4, FirstNaturals
    <2> HIDE DEF P
    <2>2. IsFiniteSet(P) /\ Cardinality(P) = Len(t)
      BY <1>7, <2>1, FS_Bijection
    <2>3. QED
      BY <2>2 DEF P, t

LEMMA DropIs ==
  ASSUME NEW K, NEW s \in Seq(K), NEW S
  PROVE  Drop(s, S) = Keep(s, K \ S)
  <1>1. \A i \in 1..Len(s) : s[i] \in K /\ s[i] \in ToSet(s)
    BY DEF ToSet
  <1>2. \A i \in 1..Len(s) : s[i] \in ToSet(s) \ S <=> s[i] \in K \ S
    BY <1>1
  <1>3. Keep(s, ToSet(s) \ S) = Keep(s, K \ S)
    <2> DEFINE A == ToSet(s) \ S
               B == K \ S
    <2>1. \A i \in 1..Len(s) : s[i] \in A <=> s[i] \in B
      BY <1>2
    <2> HIDE DEF A, B
    <2>2. Keep(s, A) = Keep(s, B)
      BY <2>1, KeepSame
    <2>3. QED
      BY <2>2 DEF A, B
  <1>4. QED
    BY <1>3 DEF Drop

LEMMA OnOn ==
  ASSUME NEW K, NEW L, NEW s \in Seq(K), NEW f, NEW g, NEW h, MapsTo(f, K, L),
         \A c \in K : g[f[c]] = h[c]
  PROVE  On(g, On(f, s)) = On(h, s)
  <1>1. Len(s) \in Nat /\ DOMAIN s = 1..Len(s) /\ \A i \in 1..Len(s) : s[i] \in K
    OBVIOUS
  <1> DEFINE t == On(f, s)
  <1>2. t \in Seq(L) /\ Len(t) = Len(s) /\ \A i \in 1..Len(s) : t[i] = f[s[i]]
    BY OnTyped
  <1> HIDE DEF t
  <1>3. DOMAIN t = DOMAIN s /\ \A i \in DOMAIN s : g[t[i]] = h[s[i]]
    BY <1>1, <1>2
  <1>4. [i \in DOMAIN t |-> g[t[i]]] = [i \in DOMAIN s |-> h[s[i]]]
    BY <1>3
  <1>5. QED
    BY <1>4 DEF On, t

LEMMA OnSame ==
  ASSUME NEW K, NEW s \in Seq(K), NEW f, NEW g, \A c \in K : f[c] = g[c]
  PROVE  On(f, s) = On(g, s)
  <1>1. \A i \in DOMAIN s : s[i] \in K
    OBVIOUS
  <1>2. QED
    BY <1>1 DEF On

LEMMA OnReverse ==
  ASSUME NEW K, NEW L, NEW s \in Seq(K), NEW g, MapsTo(g, K, L)
  PROVE  Reverse(On(g, s)) = On(g, Reverse(s))
  <1> DEFINE t == On(g, s)
             r == Reverse(s)
             n == Len(s)
  <1>1. t \in Seq(L) /\ Len(t) = n /\ \A i \in 1..n : t[i] = g[s[i]]
    BY OnTyped
  <1>2. r \in Seq(K) /\ Len(r) = n /\ \A i \in 1..n : r[i] = s[(n - i) + 1]
    BY ReverseTyped
  <1>3. n \in Nat /\ \A i \in 1..n : (n - i) + 1 \in 1..n
    OBVIOUS
  <1> HIDE DEF t, r, n
  <1>4. /\ Reverse(t) \in Seq(L) /\ Len(Reverse(t)) = n
        /\ \A i \in 1..n : Reverse(t)[i] = t[(n - i) + 1]
    BY <1>1, ReverseTyped
  <1>5. On(g, r) \in Seq(L) /\ Len(On(g, r)) = n /\ \A i \in 1..n : On(g, r)[i] = g[r[i]]
    BY <1>2, OnTyped
  <1>6. \A i \in 1..n : Reverse(t)[i] = On(g, r)[i]
    BY <1>1, <1>2, <1>3, <1>4, <1>5
  <1>7. Reverse(t) = On(g, r)
    BY <1>4, <1>5, <1>6
  <1>8. QED
    BY <1>7 DEF t, r
-----------------------------------------------------------------------------
(* What the functions of plate_utils.py make of a text.                    *)

Sounding == Latin \cup (Arabic \ {"tatweel"})
Spoken   == {"alef", "seen"} \cup Foreign
Legible  == Characters \ (Spaces \cup {"tatweel"})
Plain    == Legible \ {"alefHamza"}

LEMMA Alphabet ==
  /\ Latin = {"A", "S", "O", "P"} /\ Foreign = {"O", "P"} /\ DOMAIN ToArabic = {"A", "S"}
  /\ Spoken = {"alef", "seen", "O", "P"} /\ DOMAIN ToWestern = {"indic1", "indic2"}
  /\ DOMAIN LetterSound = Sounding /\ DOMAIN DigitSound = Digit /\ DOMAIN WordSound = Legible
  /\ Characters = {"A", "S", "O", "P", "alef", "alefHamza", "seen", "tatweel", "1", "2",
                   "indic1", "indic2", "space", "-"}
  BY DEF Latin, Foreign, Spoken, ToArabic, ToWestern, LetterSound, DigitSound, WordSound, Sounding,
         Digit, Western, Legible, Characters, Arabic, Separators, Spaces

LEMMA LatinSound == \A c \in DOMAIN ToArabic : ToArabic[c] = IF c = "A" THEN "alef" ELSE "seen"
  <1>1. ToArabic = [c \in {"A", "S"} |-> IF c = "A" THEN "alef" ELSE "seen"]
    BY DEF ToArabic
  <1>2. QED
    BY <1>1, Alphabet

LEMMA Sounds ==
  /\ MapsTo(LetterSound, Sounding, Spoken)
  /\ MapsTo(DigitSound, Digit, Western)
  /\ MapsTo(WordSound, Legible, Plain)
  <1>1. ASSUME NEW c \in Sounding PROVE LetterSound[c] \in Spoken
    <2>1. LetterSound[c] = IF c \in DOMAIN ToArabic THEN ToArabic[c]
                           ELSE IF c = "alefHamza" THEN "alef" ELSE c
      BY Alphabet DEF LetterSound, Sounding
    <2>2. c \notin DOMAIN ToArabic => c \in {"alef", "alefHamza", "seen", "O", "P"}
      BY Alphabet DEF Sounding, Arabic
    <2>3. QED
      BY <2>1, <2>2, LatinSound, Alphabet
  <1>2. MapsTo(DigitSound, Digit, Western)
    BY Alphabet DEF MapsTo, DigitSound, Digit, Western, ToWestern
  <1>3. ASSUME NEW c \in Legible PROVE WordSound[c] \in Plain
    <2>1. WordSound[c] = IF c = "alefHamza" THEN "alef" ELSE c
      BY DEF WordSound, Legible
    <2>2. "alef" \in Plain
      BY Alphabet DEF Plain, Legible, Spaces
    <2>3. c # "alefHamza" => c \in Plain
      BY DEF Plain
    <2>4. QED
      BY <2>1, <2>2, <2>3
  <1>4. QED
    BY <1>1, <1>2, <1>3 DEF MapsTo

FoldSound == [c \in Characters |-> IF c = "alefHamza" THEN "alef" ELSE c]
MapSound  == [c \in Characters |-> IF c \in DOMAIN ToArabic THEN ToArabic[c] ELSE c]

LEMMA Mappings ==
  /\ MapsTo(MapSound, Characters, Characters) /\ MapsTo(MapSound, Latin, Spoken)
  /\ \A c \in Sounding : FoldSound[MapSound[c]] = LetterSound[c]
  /\ \A c \in Latin \cup Arabic :
       c \in {a \in Characters : MapSound[a] \in Characters \ {"tatweel"}} <=> c \in Sounding
  <1>1. Spoken \subseteq Characters /\ Latin \subseteq Characters /\ Arabic \subseteq Characters
    BY Alphabet DEF Arabic
  <1>2. \A c \in Latin : c \notin Arabic /\ c # "alefHamza"
    BY Alphabet DEF Arabic
  <1>3. ASSUME NEW c \in Characters
        PROVE  MapSound[c] = IF c \in DOMAIN ToArabic THEN ToArabic[c] ELSE c
    BY DEF MapSound
  <1>4. ASSUME NEW c \in Latin PROVE MapSound[c] \in Spoken
    <2>1. MapSound[c] = IF c \in DOMAIN ToArabic THEN ToArabic[c] ELSE c
      BY <1>1, <1>3
    <2>2. QED
      BY <2>1, LatinSound, Alphabet
  <1>5. ASSUME NEW c \in Characters PROVE MapSound[c] \in Characters
    <2>1. MapSound[c] = IF c \in DOMAIN ToArabic THEN ToArabic[c] ELSE c
      BY <1>3
    <2>2. QED
      BY <2>1, LatinSound, Alphabet
  <1>6. ASSUME NEW c \in Sounding PROVE FoldSound[MapSound[c]] = LetterSound[c]
    <2>1. c \in Characters /\ c \in (Latin \cup Arabic) \ {"tatweel"}
      BY <1>1, <1>2, Alphabet DEF Sounding
    <2>2. LetterSound[c] = IF c \in DOMAIN ToArabic THEN ToArabic[c]
                           ELSE IF c = "alefHamza" THEN "alef" ELSE c
      BY <2>1 DEF LetterSound
    <2>3. \A a \in Characters : FoldSound[a] = IF a = "alefHamza" THEN "alef" ELSE a
      BY DEF FoldSound
    <2>4. CASE c \in Latin
      <3>1. MapSound[c] \in Spoken /\ MapSound[c] = IF c \in DOMAIN ToArabic THEN ToArabic[c] ELSE c
        BY <1>3, <1>4, <2>1, <2>4
      <3>2. MapSound[c] # "alefHamza" /\ c # "alefHamza"
        BY <2>4, <3>1, Alphabet
      <3>3. QED
        BY <1>1, <2>2, <2>3, <2>4, <3>1, <3>2
    <2>5. CASE c \notin Latin
      <3>1. c \notin DOMAIN ToArabic
        BY <2>5 DEF Latin
      <3>2. QED
        BY <1>3, <2>1, <2>2, <2>3, <3>1
    <2>6. QED
      BY <2>4, <2>5
  <1>7. ASSUME NEW c \in Latin \cup Arabic
        PROVE  c \in {a \in Characters : MapSound[a] \in Characters \ {"tatweel"}} <=> c \in Sounding
    <2>1. c \in Characters /\ "tatweel" \notin Spoken /\ "tatweel" \notin Latin
      BY <1>1, Alphabet
    <2>2. CASE c \in Latin
      BY <1>1, <1>4, <2>1, <2>2 DEF Sounding
    <2>3. CASE c \notin Latin
      <3>1. c \notin DOMAIN ToArabic
        BY <2>3 DEF Latin
      <3>2. QED
        BY <1>3, <2>1, <2>3, <3>1 DEF Sounding
    <2>4. QED
      BY <2>2, <2>3
  <1>8. QED
    BY <1>4, <1>5, <1>6, <1>7 DEF MapsTo

LEMMA FoldIs ==
  ASSUME NEW text \in Seq(Characters)
  PROVE  Fold(text) = On(FoldSound, Keep(text, Characters \ {"tatweel"}))
  <1> DEFINE t == Drop(text, {"tatweel"})
  <1>1. t = Keep(text, Characters \ {"tatweel"})
    BY DropIs
  <1>2. t \in Seq(Characters)
    BY <1>1, KeepTyped
  <1> HIDE DEF t
  <1>3. \A i \in DOMAIN t : t[i] \in Characters
    BY <1>2
  <1>4. [i \in DOMAIN t |-> IF t[i] = "alefHamza" THEN "alef" ELSE t[i]] = On(FoldSound, t)
    BY <1>3 DEF On, FoldSound
  <1>5. Fold(text) = [i \in DOMAIN t |-> IF t[i] = "alefHamza" THEN "alef" ELSE t[i]]
    BY DEF Fold, Each, t
  <1>6. QED
    BY <1>1, <1>4, <1>5

LEMMA MappedIs ==
  ASSUME NEW text \in Seq(Characters)
  PROVE  Mapped(text) = On(MapSound, text)
  <1>1. \A i \in DOMAIN text : text[i] \in Characters
    OBVIOUS
  <1>2. QED
    BY <1>1 DEF Mapped, Each, On, MapSound

LEMMA DigitsIs ==
  ASSUME NEW text \in Seq(Characters)
  PROVE  Digits(text) = On(DigitSound, Keep(text, Digit))
  <1> DEFINE t == Keep(text, Digit)
  <1>1. t \in Seq(Digit)
    BY KeepTyped
  <1> HIDE DEF t
  <1>2. \A i \in DOMAIN t : t[i] \in Digit
    BY <1>1
  <1>3. [i \in DOMAIN t |-> IF t[i] \in Western THEN t[i] ELSE ToWestern[t[i]]] = On(DigitSound, t)
    BY <1>2 DEF On, DigitSound
  <1>4. QED
    BY <1>3 DEF Digits, Each, t

LEMMA LegacyIs ==
  ASSUME NEW text \in Seq(Characters)
  PROVE  Legacy(text) = On(WordSound, Keep(text, Legible))
  <1> DEFINE A == Characters \ Spaces
             B == Characters \ {"tatweel"}
             t == Keep(text, A)
  <1>1. Drop(text, Spaces) = t
    BY DropIs
  <1>2. t \in Seq(Characters)
    BY KeepTyped
  <1>3. Fold(t) = On(FoldSound, Keep(t, B))
    BY <1>2, FoldIs
  <1>4. A \cap B = Legible
    BY DEF Legible
  <1>5. Keep(t, B) = Keep(text, Legible)
    <2> HIDE DEF A, B
    <2>1. Keep(Keep(text, A), B) = Keep(text, A \cap B)
      BY KeepKeep
    <2>2. QED
      BY <1>4, <2>1
  <1>6. On(FoldSound, Keep(text, Legible)) = On(WordSound, Keep(text, Legible))
    <2>1. Keep(text, Legible) \in Seq(Legible)
      BY KeepTyped
    <2>2. \A c \in Legible : FoldSound[c] = WordSound[c]
      BY DEF FoldSound, WordSound, Legible
    <2>3. QED
      BY <2>1, <2>2, OnSame
  <1>7. QED
    BY <1>1, <1>3, <1>5, <1>6 DEF Legacy

\* Latin letters alone are read from the other end.
LEMMA LettersIs ==
  ASSUME NEW text \in Seq(Characters)
  PROVE  LET v == Keep(text, Sounding) IN
         Letters(text) = On(LetterSound, IF ToSet(text) \cap Arabic = {} THEN Reverse(v) ELSE v)
  <1> DEFINE L == Latin \cup Arabic
             u == Keep(text, L)
             v == Keep(text, Sounding)
             B == Characters \ {"tatweel"}
  <1>1. L \subseteq Characters /\ L \cap Sounding = Sounding /\ Sounding \subseteq Characters
    BY Alphabet DEF Sounding, Arabic
  <1>2. u \in Seq(Characters) /\ u \in Seq(L) /\ Picked(text, L, Len(text), u)
    BY KeepPicks, KeepTyped
  <1>3. v \in Seq(Characters) /\ v \in Seq(Sounding)
    BY KeepTyped
  <1>4. Keep(u, Sounding) = v
    <2>1. Keep(Keep(text, L), Sounding) = Keep(text, L \cap Sounding)
      BY KeepKeep
    <2>2. QED
      BY <1>1, <2>1
  <1>5. MapsTo(MapSound, Characters, Characters)
    BY Mappings
  <1>6. \A c \in Sounding : FoldSound[MapSound[c]] = LetterSound[c]
    BY Mappings
  <1>7. \A i \in DOMAIN text : text[i] \in Characters
    OBVIOUS
  <1>8. ToSet(u) \subseteq Latin <=> ToSet(text) \cap Arabic = {}
    <2>1. PICK at : From(text, L, Len(text), u, at)
      BY <1>2 DEF Picked
    <2>2. \A k \in 1..Len(u) : at[k] \in 1..Len(text) /\ u[k] = text[at[k]] /\ u[k] \in L
      BY <2>1 DEF From
    <2>3. ASSUME NEW i \in 1..Len(text), text[i] \in L PROVE \E k \in 1..Len(u) : u[k] = text[i]
      <3>1. PICK k \in 1..Len(u) : at[k] = i
        BY <2>1, <2>3 DEF From
      <3>2. QED
        BY <2>2, <3>1
    <2>4. DOMAIN u = 1..Len(u) /\ DOMAIN text = 1..Len(text)
      BY <1>2
    <2>5. L = Latin \cup Arabic /\ Latin \cap Arabic = {}
      BY Alphabet DEF Arabic
    <2> HIDE DEF L, u
    <2>6. ASSUME ToSet(u) \subseteq Latin, NEW i \in 1..Len(text), text[i] \in Arabic PROVE FALSE
      <3>1. PICK k \in 1..Len(u) : u[k] = text[i]
        BY <2>3, <2>5, <2>6
      <3>2. u[k] \in Latin
        BY <2>4, <2>6 DEF ToSet
      <3>3. QED
        BY <2>5, <2>6, <3>1, <3>2
    <2>7. ASSUME ToSet(text) \cap Arabic = {}, NEW k \in 1..Len(u) PROVE u[k] \in Latin
      <3>1. text[at[k]] \in ToSet(text)
        BY <2>2, <2>4 DEF ToSet
      <3>2. QED
        BY <2>2, <2>5, <2>7, <3>1
    <2>8. QED
      BY <2>4, <2>6, <2>7 DEF ToSet
  <1>9. Mapped(u) = On(MapSound, u)
    BY <1>2, MappedIs
  <1>10. CASE ToSet(text) \cap Arabic = {}
    <2>1. Letters(text) = Fold(Reverse(On(MapSound, u)))
      BY <1>8, <1>9, <1>10 DEF Letters
    <2>2. u = v
      <3>1. \A i \in 1..Len(text) : text[i] \in L <=> text[i] \in Sounding
        BY <1>7, <1>10 DEF Sounding, ToSet
      <3> HIDE DEF L
      <3>2. Keep(text, L) = Keep(text, Sounding)
        BY <3>1, KeepSame
      <3>3. QED
        BY <3>2
    <2>3. v \in Seq(Latin)
      <3>1. \A k \in 1..Len(v) : v[k] \in Latin
        BY <1>3, <1>8, <1>10, <2>2 DEF ToSet
      <3> HIDE DEF v
      <3>2. QED
        BY <1>3, <3>1
    <2>4. MapsTo(MapSound, Latin, Spoken)
      BY Mappings
    <2> DEFINE r == Reverse(v)
               w == On(MapSound, r)
    <2>5. r \in Seq(Latin)
      BY <2>3, ReverseTyped
    <2>6. Reverse(On(MapSound, v)) = w
      BY <2>3, <2>4, OnReverse
    <2>7. w \in Seq(Spoken)
      BY <2>4, <2>5, OnTyped
    <2> HIDE DEF r, w, v, u
    <2>8. Fold(w) = On(FoldSound, w)
      <3>0. \A c \in Spoken : c \in Characters /\ c \in B
        BY Alphabet
      <3>1. w \in Seq(Characters) /\ \A i \in 1..Len(w) : w[i] \in B
        BY <2>7, <3>0
      <3> HIDE DEF B
      <3>2. Keep(w, B) = w
        BY <3>1, KeepAll
      <3>3. QED
        BY <3>1, <3>2, FoldIs DEF B
    <2>9. On(FoldSound, On(MapSound, r)) = On(LetterSound, r)
      <3>1. \A c \in Latin : FoldSound[MapSound[c]] = LetterSound[c]
        BY <1>6 DEF Sounding
      <3>2. QED
        BY <2>4, <2>5, <3>1, OnOn
    <2>10. Letters(text) = On(LetterSound, r)
      BY <2>1, <2>2, <2>6, <2>8, <2>9 DEF w
    <2>11. QED
      BY <1>10, <2>10 DEF r, v
  <1>11. CASE ToSet(text) \cap Arabic # {}
    <2>1. Letters(text) = Fold(On(MapSound, u))
      BY <1>8, <1>9, <1>11 DEF Letters
    <2> DEFINE w == On(MapSound, u)
    <2>2. w \in Seq(Characters)
      BY <1>2, <1>5, OnTyped
    <2>3. Fold(w) = On(FoldSound, Keep(w, B))
      BY <2>2, FoldIs
    <2>4. Keep(w, B) = On(MapSound, Keep(u, {c \in Characters : MapSound[c] \in B}))
      <3> HIDE DEF u, B
      <3>1. QED
        BY <1>2, <1>5, KeepOn
    <2>5. Keep(u, {c \in Characters : MapSound[c] \in B}) = v
      <3> DEFINE C == {c \in Characters : MapSound[c] \in B}
      <3>1. \A c \in L : c \in C <=> c \in Sounding
        BY Mappings
      <3>2. \A i \in 1..Len(u) : u[i] \in L
        BY <1>2
      <3> HIDE DEF C, L
      <3>3. \A i \in 1..Len(u) : u[i] \in C <=> u[i] \in Sounding
        BY <3>1, <3>2
      <3> HIDE DEF u
      <3>4. Keep(u, C) = Keep(u, Sounding)
        BY <1>2, <3>3, KeepSame
      <3>5. QED
        BY <1>4, <3>4 DEF C
    <2>6. On(FoldSound, On(MapSound, v)) = On(LetterSound, v)
      <3>1. MapsTo(MapSound, Sounding, Characters)
        BY <1>1, <1>5 DEF MapsTo
      <3> HIDE DEF v
      <3>2. QED
        BY <1>3, <1>6, <3>1, OnOn
    <2>7. Letters(text) = On(LetterSound, v)
      BY <2>1, <2>3, <2>4, <2>5, <2>6
    <2>8. QED
      BY <1>11, <2>7
  <1>12. QED
    BY <1>10, <1>11

LEMMA ReadsIs ==
  ASSUME NEW K, NEW text \in Seq(K), NEW L, NEW word \in Seq(L), NEW sound,
         NEW back \in BOOLEAN, Reads(text, sound, word, back)
  PROVE  LET v == Keep(text, DOMAIN sound) IN word = On(sound, IF back THEN Reverse(v) ELSE v)
  <1> DEFINE S == DOMAIN sound
             n == Len(word)
             v == Keep(text, S)
  <1>1. n \in Nat /\ DOMAIN word = 1..n /\ DOMAIN text = 1..Len(text)
    OBVIOUS
  <1>2. PICK at : /\ at \in [DOMAIN word -> DOMAIN text]
                  /\ {at[k] : k \in DOMAIN word} = {i \in DOMAIN text : text[i] \in S}
                  /\ \A k \in DOMAIN word : word[k] = sound[text[at[k]]]
                  /\ \A j, k \in DOMAIN word :
                       j < k => IF back THEN at[k] < at[j] ELSE at[j] < at[k]
    BY DEF Reads
  <1> HIDE DEF S, n
  <1>7. at \in [1..n -> 1..Len(text)]
    BY <1>1, <1>2
  <1>8. ASSUME NEW k \in 1..n PROVE text[at[k]] \in S /\ word[k] = sound[text[at[k]]]
    <2>1. at[k] \in {i \in DOMAIN text : text[i] \in S}
      BY <1>1, <1>2
    <2>2. QED
      BY <1>1, <1>2, <2>1
  <1>9. ASSUME NEW i \in 1..Len(text), text[i] \in S PROVE \E k \in 1..n : at[k] = i
    <2>1. i \in {at[k] : k \in DOMAIN word}
      BY <1>1, <1>2, <1>9
    <2>2. QED
      BY <1>1, <2>1
  <1>3. /\ at \in [1..n -> 1..Len(text)]
        /\ \A k \in 1..n : text[at[k]] \in S /\ word[k] = sound[text[at[k]]]
        /\ \A i \in 1..Len(text) : text[i] \in S => \E k \in 1..n : at[k] = i
    BY <1>7, <1>8, <1>9
  <1>4. CASE ~ back
    <2> DEFINE t == [k \in 1..n |-> text[at[k]]]
    <2>1. t \in Seq(K) /\ Len(t) = n /\ DOMAIN t = 1..n /\ \A k \in 1..n : t[k] = text[at[k]]
      BY <1>1, <1>3
    <2> HIDE DEF t
    <2>2. \A j, k \in 1..n : j < k => at[j] < at[k]
      BY <1>1, <1>2, <1>4
    <2>3. From(text, S, Len(text), t, at)
      BY <1>3, <2>1, <2>2 DEF From
    <2>4. t = v
      BY <2>1, <2>3, KeepIs DEF Picked
    <2>5. word = [k \in 1..n |-> word[k]]
      BY <1>1
    <2>6. [k \in 1..n |-> word[k]] = On(sound, t)
      BY <1>3, <2>1, SMTT(30) DEF On
    <2>7. QED
      BY <1>4, <2>4, <2>5, <2>6 DEF S
  <1>5. CASE back
    <2> DEFINE f == [k \in 1..n |-> at[(n - k) + 1]]
               t == [k \in 1..n |-> text[f[k]]]
    <2>1. \A k \in 1..n : (n - k) + 1 \in 1..n /\ (n - ((n - k) + 1)) + 1 = k
      BY <1>1
    <2>2. f \in [1..n -> 1..Len(text)] /\ \A k \in 1..n : f[k] = at[(n - k) + 1]
      BY <1>3, <2>1
    <2> HIDE DEF f
    <2>3. t \in Seq(K) /\ Len(t) = n /\ DOMAIN t = 1..n /\ \A k \in 1..n : t[k] = text[f[k]]
      BY <1>1, <2>2
    <2> HIDE DEF t
    <2>4. ASSUME NEW j \in 1..n, NEW k \in 1..n, j < k PROVE f[j] < f[k]
      <3>1. (n - k) + 1 < (n - j) + 1
        BY <1>1, <2>4
      <3>2. at[(n - k) + 1] > at[(n - j) + 1]
        BY <1>1, <1>2, <1>5, <2>1, <3>1
      <3>3. QED
        BY <1>3, <2>1, <2>2, <3>2
    <2>5. ASSUME NEW k \in 1..n PROVE t[k] \in S
      <3>0. t[k] = text[f[k]] /\ f[k] = at[(n - k) + 1] /\ (n - k) + 1 \in 1..n
        BY <2>1, <2>2, <2>3
      <3>1. (n - k) + 1 \in 1..n /\ t[k] = text[at[(n - k) + 1]]
        BY <3>0
      <3>2. QED
        BY <1>3, <3>1
    <2>6. ASSUME NEW i \in 1..Len(text), text[i] \in S PROVE \E k \in 1..n : f[k] = i
      <3>1. PICK k \in 1..n : at[k] = i
        BY <1>3, <2>6
      <3>2. f[(n - k) + 1] = i
        BY <2>1, <2>2, <3>1
      <3>3. QED
        BY <2>1, <3>2
    <2>7. From(text, S, Len(text), t, f)
      BY <2>2, <2>3, <2>4, <2>5, <2>6 DEF From
    <2>8. t = v
      BY <2>3, <2>7, KeepIs DEF Picked
    <2>9. /\ Reverse(t) \in Seq(K) /\ Len(Reverse(t)) = n
          /\ \A k \in 1..n : Reverse(t)[k] = t[(n - k) + 1]
      BY <2>3, ReverseTyped
    <2>10. ASSUME NEW k \in 1..n PROVE Reverse(t)[k] = text[at[k]]
      <3> DEFINE m == (n - k) + 1
      <3>1. m \in 1..n /\ (n - m) + 1 = k /\ Reverse(t)[k] = t[m]
        BY <2>1, <2>9
      <3> HIDE DEF m
      <3>2. t[m] = text[f[m]] /\ f[m] = at[(n - m) + 1]
        BY <2>2, <2>3, <3>1
      <3>3. QED
        BY <3>1, <3>2
    <2>11. word = [k \in 1..n |-> word[k]]
      BY <1>1
    <2>12. [k \in 1..n |-> word[k]] = On(sound, Reverse(t))
      <3>1. DOMAIN Reverse(t) = 1..n
        BY <2>9
      <3>2. QED
        BY <1>3, <2>10, <3>1 DEF On
    <2>13. QED
      BY <1>5, <2>8, <2>11, <2>12 DEF S
  <1>6. QED
    BY <1>4, <1>5

\* What a text means, told by the code's own functions.
Means(text) == IF PlateFrom(text) # << >> THEN <<Letters(text), Digits(text)>>
               ELSE IF Legacy(text) # << >> THEN <<Legacy(text)>> ELSE << >>

LEMMA ElementIn == ASSUME NEW K, NEW s \in Seq(K), NEW i \in 1..Len(s) PROVE s[i] \in K
  OBVIOUS

LEMMA EmptyLength ==
  /\ Len(<< >>) = 0 /\ ~ (Len(<< >>) \in 1..3)
  /\ \A s : s = << >> => Len(s) = 0 /\ ~ (Len(s) \in 1..3)
  <1>1. Len(<< >>) = 0
    OBVIOUS
  <1>2. ~ (0 \in 1..3)
    OBVIOUS
  <1>3. QED
    BY <1>1, <1>2

LEMMA Outcomes ==
  ASSUME NEW text \in Seq(Characters)
  PROVE  /\ Letters(text) \in Seq(Spoken) /\ Len(Letters(text)) = Count(text, LetterSound)
         /\ Digits(text) \in Seq(Western) /\ Len(Digits(text)) = Count(text, DigitSound)
         /\ Legacy(text) \in Seq(Plain) /\ Len(Legacy(text)) = Count(text, WordSound)
  <1>1. /\ Letters(text) \in Seq(Spoken)
        /\ Len(Letters(text)) = Cardinality({i \in DOMAIN text : text[i] \in Sounding})
    <2> DEFINE v == Keep(text, Sounding)
               w == IF ToSet(text) \cap Arabic = {} THEN Reverse(v) ELSE v
    <2>1. v \in Seq(Sounding)
      BY KeepTyped
    <2>2. Reverse(v) \in Seq(Sounding) /\ Len(Reverse(v)) = Len(v)
      BY <2>1, ReverseTyped
    <2>3. w \in Seq(Sounding) /\ Len(w) = Len(v)
      BY <2>1, <2>2
    <2>4. Letters(text) = On(LetterSound, w)
      BY LettersIs
    <2>5. Cardinality({i \in DOMAIN text : text[i] \in Sounding}) = Len(v)
      BY KeepCounts
    <2> HIDE DEF w, v
    <2>6. On(LetterSound, w) \in Seq(Spoken) /\ Len(On(LetterSound, w)) = Len(w)
      BY <2>3, Sounds, OnTyped
    <2>7. QED
      BY <2>3, <2>4, <2>5, <2>6
  <1>2. /\ Digits(text) \in Seq(Western)
        /\ Len(Digits(text)) = Cardinality({i \in DOMAIN text : text[i] \in Digit})
    <2> DEFINE v == Keep(text, Digit)
    <2>1. v \in Seq(Digit)
      BY KeepTyped
    <2>2. Digits(text) = On(DigitSound, v)
      BY DigitsIs
    <2>3. Cardinality({i \in DOMAIN text : text[i] \in Digit}) = Len(v)
      BY KeepCounts
    <2> HIDE DEF v
    <2>4. On(DigitSound, v) \in Seq(Western) /\ Len(On(DigitSound, v)) = Len(v)
      BY <2>1, Sounds, OnTyped
    <2>5. QED
      BY <2>2, <2>3, <2>4
  <1>3. /\ Legacy(text) \in Seq(Plain)
        /\ Len(Legacy(text)) = Cardinality({i \in DOMAIN text : text[i] \in Legible})
    <2> DEFINE v == Keep(text, Legible)
    <2>1. v \in Seq(Legible)
      BY KeepTyped
    <2>2. Legacy(text) = On(WordSound, v)
      BY LegacyIs
    <2>3. Cardinality({i \in DOMAIN text : text[i] \in Legible}) = Len(v)
      BY KeepCounts
    <2> HIDE DEF v
    <2>4. On(WordSound, v) \in Seq(Plain) /\ Len(On(WordSound, v)) = Len(v)
      BY <2>1, Sounds, OnTyped
    <2>5. QED
      BY <2>2, <2>3, <2>4
  <1>4. QED
    BY <1>1, <1>2, <1>3, Alphabet DEF Count

LEMMA IsPlate ==
  ASSUME NEW text \in Seq(Characters)
  PROVE  /\ PlateFrom(text) # << >> <=> /\ Len(Letters(text)) \in 1..3
                                        /\ Len(Digits(text)) \in 1..4
         /\ PlateFrom(text) # << >> => PlateFrom(text) = Letters(text) \o Digits(text)
  <1>1. Letters(text) \in Seq(Spoken) /\ Digits(text) \in Seq(Western)
    BY Outcomes
  <1> DEFINE l == Letters(text)
             d == Digits(text)
  <1>2. PlateFrom(text) = IF Len(l) \in 1..3 /\ Len(d) \in 1..4 THEN l \o d ELSE << >>
    BY DEF PlateFrom
  <1> HIDE DEF l, d
  <1>3. l \in Seq(Spoken) /\ d \in Seq(Western)
    BY <1>1 DEF l, d
  <1>4. Len(l) \in 1..3 => l \o d # << >>
    <2>1. Len(l \o d) = Len(l) + Len(d) /\ Len(l) \in Nat /\ Len(d) \in Nat
      BY <1>3
    <2>2. Len(<< >>) = 0
      OBVIOUS
    <2>3. QED
      BY <2>1, <2>2
  <1>5. QED
    BY <1>2, <1>4 DEF l, d

\* What the writer of a cell meant is what its text means.
LEMMA SpelledCell ==
  ASSUME NEW cell \in Cells, Spelled(cell)
  PROVE  cell.text \in Seq(Characters) /\ cell.means = Means(cell.text)
  <1> DEFINE text == cell.text
             means == cell.means
             back == ToSet(text) \cap Arabic = {}
  <1>1. text \in Seq(Characters) /\ means \in Seq(Seq(Characters))
    BY DEF Cells
  <1>2. /\ Len(Letters(text)) = Count(text, LetterSound)
        /\ Len(Digits(text)) = Count(text, DigitSound)
        /\ Legacy(text) \in Seq(Plain) /\ Len(Legacy(text)) = Count(text, WordSound)
    BY <1>1, Outcomes
  <1>3. PlateFrom(text) # << >> <=> /\ Len(Letters(text)) \in 1..3
                                    /\ Len(Digits(text)) \in 1..4
    BY <1>1, IsPlate
  <1>4. IF Count(text, LetterSound) \in 1..3 /\ Count(text, DigitSound) \in 1..4
        THEN /\ Len(means) = 2
             /\ Reads(text, LetterSound, means[1], back)
             /\ Reads(text, DigitSound, means[2], FALSE)
        ELSE IF Count(text, WordSound) = 0 THEN means = << >>
        ELSE Len(means) = 1 /\ Reads(text, WordSound, means[1], FALSE)
    BY DEF Spelled
  <1>5. Legacy(text) = << >> <=> Count(text, WordSound) = 0
    BY <1>2
  <1>6. back \in BOOLEAN
    OBVIOUS
  <1> HIDE DEF text, means, back
  <1>7. CASE PlateFrom(text) # << >>
    <2>1. /\ Len(means) = 2 /\ Reads(text, LetterSound, means[1], back)
          /\ Reads(text, DigitSound, means[2], FALSE)
      BY <1>2, <1>3, <1>4, <1>7
    <2>2. means[1] \in Seq(Characters) /\ means[2] \in Seq(Characters)
      <3>1. 1 \in 1..Len(means) /\ 2 \in 1..Len(means)
        BY <2>1
      <3>2. QED
        BY <1>1, <3>1, ElementIn
    <2>3. means[1] = Letters(text)
      <3> DEFINE v == Keep(text, Sounding)
      <3>1. LET u == Keep(text, DOMAIN LetterSound)
            IN  means[1] = On(LetterSound, IF back THEN Reverse(u) ELSE u)
        BY <1>1, <1>6, <2>1, <2>2, ReadsIs
      <3>2. means[1] = On(LetterSound, IF back THEN Reverse(v) ELSE v)
        BY <3>1, Alphabet
      <3>3. Letters(text) = On(LetterSound, IF back THEN Reverse(v) ELSE v)
        BY <1>1, LettersIs DEF back
      <3>4. QED
        BY <3>2, <3>3
    <2>4. means[2] = Digits(text)
      <3>1. LET u == Keep(text, DOMAIN DigitSound)
            IN  means[2] = On(DigitSound, IF FALSE THEN Reverse(u) ELSE u)
        BY <1>1, <2>1, <2>2, ReadsIs
      <3>2. means[2] = On(DigitSound, Keep(text, Digit))
        BY <3>1, Alphabet
      <3>3. QED
        BY <1>1, <3>2, DigitsIs
    <2>5. means = <<means[1], means[2]>>
      BY <1>1, <2>1
    <2>6. means = Means(text)
      BY <1>7, <2>3, <2>4, <2>5 DEF Means
    <2>7. QED
      BY <1>1, <2>6 DEF means, text
  <1>8. CASE PlateFrom(text) = << >> /\ Legacy(text) # << >>
    <2>1. Len(means) = 1 /\ Reads(text, WordSound, means[1], FALSE)
      BY <1>2, <1>3, <1>4, <1>5, <1>8
    <2>2. means[1] \in Seq(Characters)
      <3>1. 1 \in 1..Len(means)
        BY <2>1
      <3>2. QED
        BY <1>1, <3>1, ElementIn
    <2>3. LET u == Keep(text, DOMAIN WordSound)
          IN  means[1] = On(WordSound, IF FALSE THEN Reverse(u) ELSE u)
      BY <1>1, <2>1, <2>2, ReadsIs
    <2>4. means[1] = Legacy(text)
      BY <1>1, <2>3, Alphabet, LegacyIs
    <2>5. means = <<means[1]>>
      BY <1>1, <2>1
    <2>6. means = Means(text)
      BY <1>8, <2>4, <2>5 DEF Means
    <2>7. QED
      BY <1>1, <2>6 DEF means, text
  <1>9. CASE PlateFrom(text) = << >> /\ Legacy(text) = << >>
    <2>1. means = << >>
      BY <1>2, <1>3, <1>4, <1>5, <1>9
    <2>2. means = Means(text)
      BY <1>9, <2>1 DEF Means
    <2>3. QED
      BY <1>1, <2>2 DEF means, text
  <1>10. QED
    BY <1>7, <1>8, <1>9
-----------------------------------------------------------------------------
(* Keys: a text, the key it is given and what is shown of it mean the same. *)

LEMMA OnIdentity ==
  ASSUME NEW K, NEW s \in Seq(K), NEW g, \A c \in K : g[c] = c
  PROVE  On(g, s) = s
  <1>1. \A i \in DOMAIN s : g[s[i]] = s[i]
    OBVIOUS
  <1>2. On(g, s) = [i \in DOMAIN s |-> s[i]]
    BY <1>1 DEF On
  <1>3. s = [i \in DOMAIN s |-> s[i]]
    OBVIOUS
  <1>4. QED
    BY <1>2, <1>3

LEMMA NoneKept ==
  ASSUME NEW K, NEW s \in Seq(K), NEW S
  PROVE  ToSet(s) \cap S = {} <=> Keep(s, S) = << >>
  <1>1. DOMAIN s = 1..Len(s)
    OBVIOUS
  <1>2. ASSUME ToSet(s) \cap S = {} PROVE Keep(s, S) = << >>
    <2>1. \A i \in 1..Len(s) : s[i] \notin S
      BY <1>1, <1>2 DEF ToSet
    <2>2. QED
      BY <2>1, KeepNone
  <1>3. ASSUME Keep(s, S) = << >>, NEW i \in 1..Len(s), s[i] \in S PROVE FALSE
    <2>1. Picked(s, S, Len(s), << >>)
      BY <1>3, KeepPicks
    <2>2. PICK at : From(s, S, Len(s), << >>, at)
      BY <2>1 DEF Picked
    <2>3. \E k \in 1..Len(<< >>) : at[k] = i
      BY <1>3, <2>2 DEF From
    <2>4. QED
      BY <2>3
  <1>4. QED
    BY <1>1, <1>2, <1>3 DEF ToSet

\* Texts with the same letters, digits and other characters have the same outcomes.
LEMMA SameText ==
  ASSUME NEW a \in Seq(Characters), NEW b \in Seq(Characters),
         \A S \in {Sounding, Arabic, Digit, Legible} : Keep(a, S) = Keep(b, S)
  PROVE  /\ Letters(a) = Letters(b) /\ Digits(a) = Digits(b) /\ Legacy(a) = Legacy(b)
         /\ NormalizePlate(a) = NormalizePlate(b) /\ Means(a) = Means(b)
  <1>1. /\ Keep(a, Sounding) = Keep(b, Sounding) /\ Keep(a, Arabic) = Keep(b, Arabic)
        /\ Keep(a, Digit) = Keep(b, Digit) /\ Keep(a, Legible) = Keep(b, Legible)
    OBVIOUS
  <1>2. (ToSet(a) \cap Arabic = {}) <=> (ToSet(b) \cap Arabic = {})
    BY <1>1, NoneKept
  <1>3. Letters(a) = Letters(b)
    BY <1>1, <1>2, LettersIs
  <1>4. Digits(a) = Digits(b)
    BY <1>1, DigitsIs
  <1>5. Legacy(a) = Legacy(b)
    BY <1>1, LegacyIs
  <1>6. PlateFrom(a) = PlateFrom(b)
    BY <1>3, <1>4 DEF PlateFrom
  <1>7. QED
    BY <1>3, <1>4, <1>5, <1>6 DEF NormalizePlate, Means

LEMMA Spaced ==
  ASSUME NEW p \in Seq(Characters), NEW q \in Seq(Characters)
  PROVE  LET a == p \o q
             b == p \o <<"space">> \o q
         IN  /\ a \in Seq(Characters) /\ b \in Seq(Characters)
             /\ \A S : "space" \notin S => Keep(b, S) = Keep(a, S)
  <1> DEFINE gap == <<"space">>
  <1>1. gap \in Seq(Characters) /\ Len(gap) = 1 /\ gap[1] = "space"
    BY Alphabet
  <1>2. \A i \in 1..Len(gap) : gap[i] = "space"
    BY <1>1
  <1> HIDE DEF gap
  <1>3. p \o gap \in Seq(Characters)
    BY <1>1
  <1>4. p \o q \in Seq(Characters) /\ p \o gap \o q \in Seq(Characters)
    BY <1>3
  <1>5. ASSUME NEW S, "space" \notin S PROVE Keep(p \o gap \o q, S) = Keep(p \o q, S)
    <2>1. \A i \in 1..Len(gap) : gap[i] \notin S
      BY <1>2, <1>5
    <2>2. Keep(gap, S) = << >>
      BY <1>1, <2>1, KeepNone
    <2>3. Keep(p \o gap \o q, S) = Keep(p \o gap, S) \o Keep(q, S)
      <3> DEFINE r == p \o gap
      <3>1. r \in Seq(Characters)
        BY <1>3
      <3> HIDE DEF r
      <3>2. Keep(r \o q, S) = Keep(r, S) \o Keep(q, S)
        BY <3>1, KeepConcat
      <3>3. QED
        BY <3>2 DEF r
    <2>4. Keep(p \o gap, S) = Keep(p, S) \o Keep(gap, S)
      BY <1>1, KeepConcat
    <2>5. Keep(p, S) \in Seq(Characters)
      BY KeepTyped
    <2>6. Keep(p, S) \o << >> = Keep(p, S)
      BY <2>5
    <2>7. Keep(p \o q, S) = Keep(p, S) \o Keep(q, S)
      BY KeepConcat
    <2>8. QED
      BY <2>2, <2>3, <2>4, <2>6, <2>7
  <1>6. QED
    BY <1>4, <1>5 DEF gap

\* A space between two parts of a text changes nothing.
LEMMA SpacedMeans ==
  ASSUME NEW p \in Seq(Characters), NEW q \in Seq(Characters)
  PROVE  LET a == p \o q
             b == p \o <<"space">> \o q
         IN  b \in Seq(Characters) /\ NormalizePlate(b) = NormalizePlate(a) /\ Means(b) = Means(a)
  <1> DEFINE a == p \o q
             b == p \o <<"space">> \o q
  <1>1. /\ a \in Seq(Characters) /\ b \in Seq(Characters)
        /\ \A S : "space" \notin S => Keep(b, S) = Keep(a, S)
    BY Spaced
  <1> HIDE DEF a, b
  <1>2. "space" \notin Sounding /\ "space" \notin Arabic /\ "space" \notin Digit /\ "space" \notin Legible
    BY Alphabet DEF Sounding, Arabic, Digit, Western, Legible, Spaces
  <1>3. \A S \in {Sounding, Arabic, Digit, Legible} : Keep(b, S) = Keep(a, S)
    BY <1>1, <1>2
  <1>4. NormalizePlate(b) = NormalizePlate(a) /\ Means(b) = Means(a)
    BY <1>1, <1>3, SameText
  <1>5. QED
    BY <1>1, <1>4 DEF a, b

LEMMA SameElements ==
  ASSUME NEW K, NEW L, NEW s \in Seq(K), NEW t \in Seq(L), Len(s) = Len(t),
         \A i \in 1..Len(s) : s[i] = t[i]
  PROVE  s = t
  OBVIOUS

\* The letters of a key that are read again: the other way round twice is as they were.
LEMMA TurnedTwice ==
  ASSUME NEW l \in Seq(Spoken)
  PROVE  /\ Turned(l) \in Seq(Spoken) /\ Len(Turned(l)) = Len(l) /\ Turned(Turned(l)) = l
         /\ ToSet(Turned(l)) = ToSet(l)
  <1> DEFINE n == Len(l)
             t == Reverse(l)
             u == Reverse(t)
  <1>1. n \in Nat /\ DOMAIN l = 1..n /\ \A i \in 1..n : (n - i) + 1 \in 1..n /\ (n - ((n - i) + 1)) + 1 = i
    OBVIOUS
  <1>2. t \in Seq(Spoken) /\ Len(t) = n /\ \A i \in 1..n : t[i] = l[(n - i) + 1]
    BY ReverseTyped
  <1> HIDE DEF n, t
  <1>3. u \in Seq(Spoken) /\ Len(u) = n /\ \A i \in 1..n : u[i] = t[(n - i) + 1]
    BY <1>2, ReverseTyped
  <1> HIDE DEF u
  <1>4. u = l
    <2>1. \A i \in 1..n : u[i] = l[i]
      BY <1>1, <1>2, <1>3
    <2>2. Len(l) = n
      BY DEF n
    <2>3. QED
      BY <1>3, <2>1, <2>2, SameElements
  <1>5. ToSet(t) = ToSet(l)
    <2>1. DOMAIN t = 1..n
      BY <1>2
    <2>2. ASSUME NEW i \in 1..n PROVE \E k \in 1..n : l[k] = t[i]
      BY <1>1, <1>2
    <2>3. ASSUME NEW i \in 1..n PROVE \E k \in 1..n : t[k] = l[i]
      BY <1>1, <1>2
    <2> DEFINE A == {t[i] : i \in 1..n}
               B == {l[i] : i \in 1..n}
    <2>4. A \subseteq B /\ B \subseteq A
      <3>1. ASSUME NEW x \in A PROVE x \in B
        <4>1. PICK i \in 1..n : x = t[i]
          BY <3>1
        <4>2. PICK k \in 1..n : l[k] = t[i]
          BY <2>2
        <4>3. QED
          BY <4>1, <4>2
      <3>2. ASSUME NEW x \in B PROVE x \in A
        <4>1. PICK i \in 1..n : x = l[i]
          BY <3>2
        <4>2. PICK k \in 1..n : t[k] = l[i]
          BY <2>3
        <4>3. QED
          BY <4>1, <4>2
      <3>3. QED
        BY <3>1, <3>2
    <2>5. ToSet(t) = A /\ ToSet(l) = B
      BY <1>1, <2>1 DEF ToSet
    <2> HIDE DEF A, B
    <2>6. QED
      BY <2>4, <2>5
  <1>6. CASE ToSet(l) \subseteq Foreign
    <2>1. Turned(l) = t /\ Turned(t) = u
      BY <1>5, <1>6 DEF Turned, t, u
    <2>2. QED
      BY <1>2, <1>4, <1>5, <2>1 DEF n
  <1>7. CASE ~ (ToSet(l) \subseteq Foreign)
    BY <1>7 DEF Turned
  <1>8. QED
    BY <1>6, <1>7

\* The letters of a plate's key and its digits are the ones it was made of, except that those
\* on no Saudi plate are read the other way round.
LEMMA PlateKey ==
  ASSUME NEW l \in Seq(Spoken), NEW d \in Seq(Western), l # << >>
  PROVE  l \o d \in Seq(Characters) /\ Letters(l \o d) = Turned(l) /\ Digits(l \o d) = d
  <1>1. /\ \A c \in Spoken : /\ c \in Characters /\ c \in Sounding /\ c \notin Digit
                             /\ c \in Arabic <=> c \notin Foreign
        /\ \A c \in Western : /\ c \in Characters /\ c \in Digit /\ c \notin Sounding
                              /\ c \notin Arabic /\ DigitSound[c] = c
    BY Alphabet DEF Western, Digit, Sounding, Arabic, DigitSound
  <1>0. \A c \in Spoken : LetterSound[c] = c
    <2>1. ASSUME NEW c \in Spoken PROVE LetterSound[c] = c
      <3>1. c \in (Latin \cup Arabic) \ {"tatweel"} /\ c \notin DOMAIN ToArabic /\ c # "alefHamza"
        BY Alphabet DEF Arabic
      <3>2. QED
        BY <3>1 DEF LetterSound
    <2>2. QED
      BY <2>1
  <1>2. l \in Seq(Characters) /\ d \in Seq(Characters)
    BY <1>1
  <1> DEFINE t == l \o d
  <1>3. t \in Seq(Characters)
    BY <1>2
  <1>4. Len(l) \in Nat /\ Len(l) >= 1 /\ Len(d) \in Nat
    OBVIOUS
  <1>5. (ToSet(t) \cap Arabic = {}) <=> (ToSet(l) \subseteq Foreign)
    <2>1. /\ DOMAIN t = 1..(Len(l) + Len(d)) /\ DOMAIN l = 1..Len(l)
          /\ \A i \in 1..Len(l) : i \in 1..(Len(l) + Len(d)) /\ t[i] = l[i] /\ l[i] \in Spoken
      BY <1>4
    <2>2. ASSUME NEW i \in 1..(Len(l) + Len(d)), ~ (i \in 1..Len(l)) PROVE t[i] \in Western
      <3>1. i - Len(l) \in 1..Len(d) /\ i > Len(l)
        BY <1>4, <2>2
      <3>2. t[i] = d[i - Len(l)]
        BY <1>4, <3>1
      <3>3. QED
        BY <3>1, <3>2
    <2> HIDE DEF t
    <2>3. ASSUME ToSet(t) \cap Arabic = {}, NEW i \in 1..Len(l) PROVE l[i] \in Foreign
      <3>1. t[i] \in ToSet(t)
        BY <2>1 DEF ToSet
      <3>2. QED
        BY <1>1, <2>1, <2>3, <3>1
    <2>4. ASSUME ToSet(l) \subseteq Foreign, NEW i \in 1..(Len(l) + Len(d)) PROVE t[i] \notin Arabic
      <3>1. CASE i \in 1..Len(l)
        <4>1. l[i] \in Foreign
          BY <2>1, <2>4, <3>1 DEF ToSet
        <4>2. QED
          BY <1>1, <2>1, <3>1, <4>1
      <3>2. CASE ~ (i \in 1..Len(l))
        BY <1>1, <2>2, <3>2
      <3>3. QED
        BY <3>1, <3>2
    <2>5. QED
      BY <2>1, <2>3, <2>4 DEF ToSet
  <1>6. Keep(t, Sounding) = l
    <2>1. \A i \in 1..Len(l) : l[i] \in Sounding
      BY <1>1
    <2>2. \A i \in 1..Len(d) : d[i] \notin Sounding
      BY <1>1
    <2>3. Keep(l, Sounding) = l
      BY <1>2, <2>1, KeepAll
    <2>4. Keep(d, Sounding) = << >>
      BY <1>2, <2>2, KeepNone
    <2>5. Keep(t, Sounding) = Keep(l, Sounding) \o Keep(d, Sounding)
      BY <1>2, KeepConcat
    <2>6. QED
      BY <2>3, <2>4, <2>5
  <1>7. Keep(t, Digit) = d
    <2>1. \A i \in 1..Len(l) : l[i] \notin Digit
      BY <1>1
    <2>2. \A i \in 1..Len(d) : d[i] \in Digit
      BY <1>1
    <2>3. Keep(l, Digit) = << >>
      BY <1>2, <2>1, KeepNone
    <2>4. Keep(d, Digit) = d
      BY <1>2, <2>2, KeepAll
    <2>5. Keep(t, Digit) = Keep(l, Digit) \o Keep(d, Digit)
      BY <1>2, KeepConcat
    <2>6. QED
      BY <2>3, <2>4, <2>5
  <1> HIDE DEF t
  <1>8. Letters(t) = On(LetterSound, IF ToSet(l) \subseteq Foreign THEN Reverse(l) ELSE l)
    BY <1>3, <1>5, <1>6, LettersIs
  <1>9. Letters(t) = On(LetterSound, Turned(l))
    BY <1>8 DEF Turned
  <1>10. On(LetterSound, Turned(l)) = Turned(l)
    <2> DEFINE w == Turned(l)
    <2>1. w \in Seq(Spoken)
      BY TurnedTwice
    <2> HIDE DEF w
    <2>2. On(LetterSound, w) = w
      BY <1>0, <2>1, OnIdentity
    <2>3. QED
      BY <2>2 DEF w
  <1>11. Digits(t) = On(DigitSound, d)
    BY <1>3, <1>7, DigitsIs
  <1>12. On(DigitSound, d) = d
    BY <1>1, OnIdentity
  <1>13. QED
    BY <1>3, <1>9, <1>10, <1>11, <1>12 DEF t

LEMMA WordKey ==
  ASSUME NEW text \in Seq(Characters)
  PROVE  /\ Legacy(text) \in Seq(Characters) /\ Legacy(Legacy(text)) = Legacy(text)
         /\ Len(Letters(Legacy(text))) = Len(Letters(text))
         /\ Len(Digits(Legacy(text))) = Len(Digits(text))
  <1> DEFINE v == Keep(text, Legible)
             w == Legacy(text)
  <1>1. v \in Seq(Legible) /\ v \in Seq(Characters)
    BY KeepTyped
  <1>2. w = On(WordSound, v) /\ w \in Seq(Plain)
    BY LegacyIs, Outcomes
  <1>3. \A c \in Plain : c \in Legible /\ c \in Characters /\ WordSound[c] = c
    BY DEF Plain, Legible, WordSound
  <1>4. w \in Seq(Characters)
    BY <1>2, <1>3
  <1>5. Legacy(w) = w
    <2> HIDE DEF w
    <2>1. \A i \in 1..Len(w) : w[i] \in Legible
      BY <1>2, <1>3
    <2>2. Keep(w, Legible) = w
      BY <1>4, <2>1, KeepAll
    <2>3. On(WordSound, w) = w
      BY <1>2, <1>3, OnIdentity
    <2>4. QED
      BY <1>4, <2>2, <2>3, LegacyIs
  <1>6. ASSUME NEW S, \A c \in Legible : c \in S <=> WordSound[c] \in S, S \subseteq Legible
        PROVE  Len(Keep(w, S)) = Len(Keep(text, S))
    <2> DEFINE C == {c \in Legible : WordSound[c] \in S}
    <2>1. C = S
      BY <1>6
    <2> HIDE DEF v, C
    <2>2. MapsTo(WordSound, Legible, Plain)
      BY Sounds
    <2>3. Keep(On(WordSound, v), S) = On(WordSound, Keep(v, C))
      BY <1>1, <2>2, KeepOn DEF C
    <2>4. Keep(v, S) \in Seq(Legible)
      BY <1>1, KeepTyped
    <2>5. Len(On(WordSound, Keep(v, S))) = Len(Keep(v, S))
      <3> DEFINE u == Keep(v, S)
      <3>1. u \in Seq(Legible)
        BY <2>4
      <3> HIDE DEF u
      <3>2. On(WordSound, u) \in Seq(Plain) /\ Len(On(WordSound, u)) = Len(u)
        BY <2>2, <3>1, OnTyped
      <3>3. QED
        BY <3>2 DEF u
    <2>6. Keep(v, S) = Keep(text, S)
      <3>1. Keep(Keep(text, Legible), S) = Keep(text, Legible \cap S)
        BY KeepKeep
      <3>2. Legible \cap S = S
        BY <1>6
      <3>3. QED
        BY <3>1, <3>2 DEF v
    <2>7. QED
      BY <1>2, <2>1, <2>3, <2>5, <2>6
  <1> HIDE DEF v, w
  <1>7. \A c \in Legible : WordSound[c] = IF c = "alefHamza" THEN "alef" ELSE c
    BY DEF WordSound, Legible
  <1>8. /\ "alef" \in Sounding /\ "alefHamza" \in Sounding
        /\ "alef" \notin Digit /\ "alefHamza" \notin Digit
        /\ Sounding \subseteq Legible /\ Digit \subseteq Legible
    BY Alphabet DEF Sounding, Arabic, Digit, Western, Legible, Spaces
  <1>9. Len(Keep(w, Sounding)) = Len(Keep(text, Sounding))
    <2>1. \A c \in Legible : c \in Sounding <=> WordSound[c] \in Sounding
      BY <1>7, <1>8
    <2>2. QED
      BY <1>6, <1>8, <2>1
  <1>10. Len(Keep(w, Digit)) = Len(Keep(text, Digit))
    <2>1. \A c \in Legible : c \in Digit <=> WordSound[c] \in Digit
      BY <1>7, <1>8
    <2>2. QED
      BY <1>6, <1>8, <2>1
  <1>11. \A u \in Seq(Characters) : /\ Len(Letters(u)) = Len(Keep(u, Sounding))
                                   /\ Len(Digits(u)) = Len(Keep(u, Digit))
    <2>1. ASSUME NEW u \in Seq(Characters)
          PROVE  Len(Letters(u)) = Len(Keep(u, Sounding)) /\ Len(Digits(u)) = Len(Keep(u, Digit))
      <3>1. Len(Letters(u)) = Count(u, LetterSound) /\ Len(Digits(u)) = Count(u, DigitSound)
        BY Outcomes
      <3>2. /\ Cardinality({i \in DOMAIN u : u[i] \in Sounding}) = Len(Keep(u, Sounding))
            /\ Cardinality({i \in DOMAIN u : u[i] \in Digit}) = Len(Keep(u, Digit))
        BY KeepCounts
      <3>3. QED
        BY <3>1, <3>2, Alphabet DEF Count
    <2>2. QED
      BY <2>1
  <1>12. QED
    BY <1>4, <1>5, <1>9, <1>10, <1>11 DEF w

\* The key of a text means what the text means, the letters of a plate being read again; a
\* third normalisation does no more than the first.
LEMMA KeyMeans ==
  ASSUME NEW text \in Seq(Characters)
  PROVE  LET key == NormalizePlate(text) IN
         /\ key \in Seq(Characters) /\ NormalizePlate(NormalizePlate(key)) = key
         /\ PlateFrom(text) = << >> => /\ key \in Seq(Plain) /\ PlateFrom(key) = << >>
                                      /\ NormalizePlate(key) = key /\ Means(key) = Means(text)
         /\ PlateFrom(text) # << >> => /\ PlateFrom(key) # << >>
                                      /\ Letters(key) = Turned(Letters(text))
                                      /\ Digits(key) = Digits(text)
                                      /\ key = Letters(text) \o Digits(text)
  <1> DEFINE key == NormalizePlate(text)
             l == Letters(text)
             d == Digits(text)
             w == Legacy(text)
  <1>1. key = IF PlateFrom(text) # << >> THEN PlateFrom(text) ELSE w
    BY DEF NormalizePlate
  <1>2. l \in Seq(Spoken) /\ d \in Seq(Western) /\ w \in Seq(Plain)
    BY Outcomes
  <1>3. /\ PlateFrom(text) # << >> <=> Len(l) \in 1..3 /\ Len(d) \in 1..4
        /\ PlateFrom(text) # << >> => PlateFrom(text) = l \o d
    BY IsPlate
  <1>4. CASE PlateFrom(text) # << >>
    <2>1. l # << >> /\ key = l \o d
      <3>1. Len(l) \in 1..3
        BY <1>3, <1>4
      <3> HIDE DEF l, key
      <3>2. l # << >>
        BY <3>1, EmptyLength
      <3>3. QED
        BY <1>1, <1>3, <1>4, <3>2
    <2> DEFINE r == Turned(l)
               again == NormalizePlate(key)
    <2>2. r \in Seq(Spoken) /\ Len(r) = Len(l) /\ Turned(r) = l /\ r # << >>
      <3> HIDE DEF l
      <3>1. r \in Seq(Spoken) /\ Len(r) = Len(l) /\ Turned(r) = l
        BY <1>2, TurnedTwice
      <3>2. Len(l) # 0
        BY <1>2, <2>1
      <3> HIDE DEF r
      <3>3. QED
        BY <3>1, <3>2, EmptyLength
    <2> HIDE DEF l, d, key, r
    <2>3. key \in Seq(Characters) /\ Letters(key) = r /\ Digits(key) = d
      <3>1. l \o d \in Seq(Characters) /\ Letters(l \o d) = Turned(l) /\ Digits(l \o d) = d
        BY <1>2, <2>1, PlateKey
      <3>2. QED
        BY <2>1, <3>1 DEF r
    <2>4. PlateFrom(key) # << >> /\ PlateFrom(key) = r \o d
      <3>1. /\ PlateFrom(key) # << >> <=> Len(r) \in 1..3 /\ Len(d) \in 1..4
            /\ PlateFrom(key) # << >> => PlateFrom(key) = r \o d
        BY <2>3, IsPlate
      <3>2. QED
        BY <1>3, <1>4, <2>2, <3>1
    <2>5. again = r \o d
      BY <2>4 DEF NormalizePlate
    <2> HIDE DEF again
    <2>6. again \in Seq(Characters) /\ Letters(again) = l /\ Digits(again) = d
      <3>1. r \o d \in Seq(Characters) /\ Letters(r \o d) = Turned(r) /\ Digits(r \o d) = d
        BY <1>2, <2>2, PlateKey
      <3>2. QED
        BY <2>2, <2>5, <3>1
    <2>7. NormalizePlate(again) = key
      <3>1. /\ PlateFrom(again) # << >> <=> Len(l) \in 1..3 /\ Len(d) \in 1..4
            /\ PlateFrom(again) # << >> => PlateFrom(again) = l \o d
        BY <2>6, IsPlate
      <3>2. QED
        BY <1>3, <1>4, <2>1, <3>1 DEF NormalizePlate
    <2>8. QED
      BY <1>4, <2>1, <2>3, <2>4, <2>7 DEF key, l, d, r, again
  <1>5. CASE PlateFrom(text) = << >>
    <2>1. key = w
      BY <1>1, <1>5
    <2>2. /\ w \in Seq(Characters) /\ Legacy(w) = w /\ Len(Letters(w)) = Len(l)
          /\ Len(Digits(w)) = Len(d)
      BY WordKey
    <2> HIDE DEF l, d, w, key
    <2>3. PlateFrom(w) = << >>
      <3>1. PlateFrom(w) # << >> <=> Len(Letters(w)) \in 1..3 /\ Len(Digits(w)) \in 1..4
        BY <2>2, IsPlate
      <3>2. QED
        BY <1>3, <1>5, <2>2, <3>1
    <2>4. NormalizePlate(w) = w
      BY <2>2, <2>3 DEF NormalizePlate
    <2>5. Means(w) = IF w # << >> THEN <<w>> ELSE << >>
      BY <2>2, <2>3 DEF Means
    <2>6. Means(text) = IF w # << >> THEN <<w>> ELSE << >>
      BY <1>5 DEF Means, w
    <2>7. QED
      BY <1>2, <1>5, <2>1, <2>2, <2>3, <2>4, <2>5, <2>6 DEF key
  <1>6. QED
    BY <1>4, <1>5

\* Only the key of a plate whose letters are all on no Saudi plate is not its own key.
LEMMA KeyAgain ==
  ASSUME NEW text \in Seq(Characters), PlateFrom(text) # << >>,
         NormalizePlate(NormalizePlate(text)) # NormalizePlate(text)
  PROVE  /\ ToSet(Letters(text)) \subseteq Foreign
         /\ ToSet(Letters(NormalizePlate(text))) \subseteq Foreign
  <1> DEFINE key == NormalizePlate(text)
             l == Letters(text)
             d == Digits(text)
  <1>1. /\ key \in Seq(Characters) /\ key = l \o d
        /\ PlateFrom(key) # << >> /\ Letters(key) = Turned(l) /\ Digits(key) = d
    BY KeyMeans
  <1>2. l \in Seq(Spoken)
    BY Outcomes
  <1> HIDE DEF key, l, d
  <1>3. NormalizePlate(key) = Turned(l) \o d
    BY <1>1, IsPlate DEF NormalizePlate
  <1>4. Turned(l) # l
    BY <1>1, <1>3 DEF key
  <1>5. ToSet(l) \subseteq Foreign
    BY <1>4 DEF Turned
  <1>6. ToSet(Turned(l)) = ToSet(l)
    BY <1>2, TurnedTwice
  <1>7. QED
    BY <1>1, <1>5, <1>6 DEF key, l

LEMMA NoMeaning == Means(<< >>) = << >>
  <1>1. << >> \in Seq(Characters) /\ DOMAIN << >> = {} /\ Len(<< >>) = 0
    OBVIOUS
  <1>2. Keep(<< >>, Legible) = << >> /\ Keep(<< >>, Sounding) = << >>
    <2>1. \A i \in 1..Len(<< >>) : << >>[i] \notin Legible /\ << >>[i] \notin Sounding
      OBVIOUS
    <2>2. QED
      BY <1>1, <2>1, KeepNone
  <1>3. Count(<< >>, LetterSound) = 0 /\ Count(<< >>, WordSound) = 0
    <2>1. /\ Cardinality({i \in DOMAIN << >> : << >>[i] \in Sounding}) = Len(Keep(<< >>, Sounding))
          /\ Cardinality({i \in DOMAIN << >> : << >>[i] \in Legible}) = Len(Keep(<< >>, Legible))
      BY <1>1, KeepCounts
    <2>2. QED
      BY <1>1, <1>2, <2>1, Alphabet DEF Count
  <1>4. /\ Len(Letters(<< >>)) = 0
        /\ Legacy(<< >>) \in Seq(Plain) /\ Len(Legacy(<< >>)) = 0
    BY <1>1, <1>3, Outcomes
  <1>5. Legacy(<< >>) = << >>
    BY <1>4
  <1>6. PlateFrom(<< >>) = << >>
    <2>1. ~ (Len(Letters(<< >>)) \in 1..3)
      <4>1. ~ (0 \in 1..3)
        OBVIOUS
      <4>2. QED
        BY <1>4, <4>1
    <2>2. QED
      BY <2>1 DEF PlateFrom
  <1>7. QED
    BY <1>5, <1>6 DEF Means

\* What a text means, from what its key means.
Unread(means) == IF Len(means) = 2 THEN <<Turned(means[1]), means[2]>> ELSE means

LEMMA KeyTells ==
  ASSUME NEW text \in Seq(Characters)
  PROVE  Means(text) = Unread(Means(NormalizePlate(text)))
  <1> DEFINE key == NormalizePlate(text)
             l == Letters(text)
             d == Digits(text)
  <1>1. CASE PlateFrom(text) # << >>
    <2>1. /\ PlateFrom(key) # << >> /\ Letters(key) = Turned(l) /\ Digits(key) = d
      BY <1>1, KeyMeans
    <2>2. Turned(Turned(l)) = l
      <3>1. l \in Seq(Spoken)
        BY Outcomes
      <3> HIDE DEF l
      <3>2. QED
        BY <3>1, TurnedTwice
    <2>3. Means(text) = <<l, d>>
      BY <1>1 DEF Means
    <2> DEFINE r == Turned(l)
    <2> HIDE DEF key, l, d
    <2>4. Means(key) = <<r, d>>
      BY <2>1 DEF Means
    <2> HIDE DEF r
    <2>5. Len(<<r, d>>) = 2 /\ <<r, d>>[1] = r /\ <<r, d>>[2] = d
      OBVIOUS
    <2>6. Unread(<<r, d>>) = <<Turned(r), d>>
      BY <2>5 DEF Unread
    <2>7. QED
      BY <2>2, <2>3, <2>4, <2>6 DEF r, key
  <1>2. CASE PlateFrom(text) = << >>
    <2> DEFINE w == Legacy(text)
    <2>1. Means(key) = Means(text)
      BY <1>2, KeyMeans
    <2>2. Means(text) = <<w>> \/ Means(text) = << >>
      BY <1>2 DEF Means
    <2> HIDE DEF w, key
    <2>3. Len(<<w>>) = 1 /\ Len(<< >>) = 0
      OBVIOUS
    <2>4. Len(Means(text)) # 2
      BY <2>2, <2>3
    <2>5. QED
      BY <2>1, <2>4 DEF Unread, key
  <1>3. QED
    BY <1>1, <1>2

\* Texts have one key exactly when Means gives them one value.
LEMMA OneKeyOfMeans ==
  ASSUME NEW a \in Seq(Characters), NEW b \in Seq(Characters)
  PROVE  /\ NormalizePlate(a) = NormalizePlate(b) <=> Means(a) = Means(b)
         /\ NormalizePlate(a) = << >> <=> Means(a) = << >>
  <1>1. \A t \in Seq(Characters) :
          NormalizePlate(t) = IF Len(Means(t)) = 2 THEN Means(t)[1] \o Means(t)[2]
                              ELSE IF Len(Means(t)) = 1 THEN Means(t)[1] ELSE << >>
    <2>1. ASSUME NEW t \in Seq(Characters)
          PROVE  NormalizePlate(t) = IF Len(Means(t)) = 2 THEN Means(t)[1] \o Means(t)[2]
                              ELSE IF Len(Means(t)) = 1 THEN Means(t)[1] ELSE << >>
      <3> DEFINE l == Letters(t)
                 d == Digits(t)
                 w == Legacy(t)
                 m == Means(t)
      <3>1. /\ NormalizePlate(t) = IF PlateFrom(t) # << >> THEN PlateFrom(t) ELSE w
            /\ m = IF PlateFrom(t) # << >> THEN <<l, d>> ELSE IF w # << >> THEN <<w>> ELSE << >>
        BY DEF NormalizePlate, Means
      <3>2. PlateFrom(t) # << >> => PlateFrom(t) = l \o d
        BY IsPlate
      <3> HIDE DEF l, d, w, m
      <3>3. /\ Len(<<l, d>>) = 2 /\ <<l, d>>[1] = l /\ <<l, d>>[2] = d
            /\ Len(<<w>>) = 1 /\ <<w>>[1] = w /\ Len(<< >>) = 0
        OBVIOUS
      <3>5. CASE PlateFrom(t) # << >>
        <4>1. Len(m) = 2 /\ m[1] = l /\ m[2] = d
          BY <3>1, <3>3, <3>5
        <4>2. QED
          BY <3>1, <3>2, <3>5, <4>1 DEF m
      <3>6. CASE PlateFrom(t) = << >> /\ w # << >>
        <4>1. Len(m) = 1 /\ m[1] = w
          BY <3>1, <3>3, <3>6
        <4>2. QED
          BY <3>1, <3>6, <4>1 DEF m
      <3>7. CASE PlateFrom(t) = << >> /\ w = << >>
        <4>1. Len(m) = 0
          BY <3>1, <3>3, <3>7
        <4>2. QED
          BY <3>1, <3>7, <4>1 DEF m
      <3>8. QED
        BY <3>5, <3>6, <3>7
    <2>2. QED
      BY <2>1
  <1>2. Means(a) = Means(b) => NormalizePlate(a) = NormalizePlate(b)
    BY <1>1
  <1>3. \A t \in Seq(Characters) : Means(t) = Unread(Means(NormalizePlate(t)))
    BY KeyTells
  <1>4. NormalizePlate(a) = NormalizePlate(b) => Means(a) = Means(b)
    BY <1>3
  <1>5. Means(a) = << >> => NormalizePlate(a) = << >>
    <2>1. NormalizePlate(a) = IF Len(Means(a)) = 2 THEN Means(a)[1] \o Means(a)[2]
                              ELSE IF Len(Means(a)) = 1 THEN Means(a)[1] ELSE << >>
      BY <1>1
    <2>2. Means(a) = << >> => Len(Means(a)) = 0
      BY EmptyLength
    <2>3. QED
      BY <2>1, <2>2
  <1>6. Unread(Means(<< >>)) = << >>
    BY NoMeaning, EmptyLength DEF Unread
  <1>7. NormalizePlate(a) = << >> => Means(a) = << >>
    BY <1>3, <1>6
  <1>8. QED
    BY <1>2, <1>4, <1>5, <1>7

\* Two cells, whatever their texts, are given one key exactly when they mean the same plate or
\* word, and none exactly when they mean nothing.  A key is its own key, unless it is that of a
\* plate whose letters are all on no Saudi plate, and is again the key of what it is normalised
\* to (plate_utils.py:44-145).
THEOREM OneKeyPerMeaning ==
  ASSUME NEW a \in Cells, NEW b \in Cells, Spelled(a), Spelled(b)
  PROVE  /\ NormalizePlate(a.text) = NormalizePlate(b.text) <=> a.means = b.means
         /\ NormalizePlate(a.text) = << >> <=> a.means = << >>
         /\ LET key == NormalizePlate(a.text) IN
            /\ \/ NormalizePlate(key) = key
               \/ Len(a.means) = 2 /\ ToSet(a.means[1]) \subseteq Foreign
            /\ NormalizePlate(NormalizePlate(key)) = key
  <1>1. /\ a.text \in Seq(Characters) /\ a.means = Means(a.text)
        /\ b.text \in Seq(Characters) /\ b.means = Means(b.text)
    BY SpelledCell
  <1> DEFINE text == a.text
             key  == NormalizePlate(text)
             l    == Letters(text)
  <1>2. NormalizePlate(NormalizePlate(key)) = key
    BY <1>1, KeyMeans
  <1>3. ASSUME NormalizePlate(key) # key
        PROVE  Len(a.means) = 2 /\ ToSet(a.means[1]) \subseteq Foreign
    <2>1. PlateFrom(text) # << >>
      BY <1>1, <1>3, KeyMeans
    <2>2. a.means = <<l, Digits(text)>>
      BY <1>1, <2>1 DEF Means
    <2>3. ToSet(l) \subseteq Foreign
      BY <1>1, <1>3, <2>1, KeyAgain
    <2> HIDE DEF text, l
    <2>4. Len(a.means) = 2 /\ a.means[1] = l
      BY <2>2
    <2>5. QED
      BY <2>3, <2>4
  <1>4. QED
    BY <1>1, <1>2, <1>3, OneKeyOfMeans

LEMMA Least ==
  ASSUME NEW U \in SUBSET Nat, U # {}
  PROVE  \E t \in U : \A u \in U : t <= u
  <1> DEFINE R == OpToRel(<, Nat)
  <1>1. IsWellFoundedOn(R, Nat)
    BY NatLessThanWellFounded
  <1>2. \A a, b \in Nat : <<a, b>> \in R <=> a < b
    BY DEF OpToRel
  <1>3. PICK t \in U : \A u \in U : ~ (<<u, t>> \in R)
    <2> HIDE DEF R
    <2>1. QED
      BY <1>1, WFMin
  <1>4. ASSUME NEW u \in U PROVE t <= u
    <2>1. u \in Nat /\ t \in Nat /\ ~ (<<u, t>> \in R)
      BY <1>3
    <2> HIDE DEF R
    <2>2. ~ (u < t)
      BY <1>2, <2>1
    <2>3. QED
      BY <2>1, <2>2
  <1>5. QED
    BY <1>4

LEMMA FirstIn ==
  ASSUME NEW K, NEW s \in Seq(K), NEW S
  PROVE  LET n == SelectInSeq(s, LAMBDA c : c \in S) IN
         \/ n = 0 /\ \A i \in 1..Len(s) : s[i] \notin S
         \/ n \in 1..Len(s) /\ s[n] \in S /\ \A i \in 1..Len(s) : i < n => s[i] \notin S
  <1> DEFINE n == SelectInSeq(s, LAMBDA c : c \in S)
             I == {i \in 1..Len(s) : s[i] \in S}
  <1>1. n = IF I # {} THEN Min(I) ELSE 0
    BY DEF SelectInSeq
  <1>2. I \in SUBSET Nat /\ Len(s) \in Nat
    OBVIOUS
  <1>3. CASE I = {}
    BY <1>1, <1>3
  <1>4. CASE I # {}
    <2> HIDE DEF n
    <2>1. \E t \in I : \A u \in I : t <= u
      <3> HIDE DEF I
      <3>1. QED
        BY <1>2, <1>4, Least
    <2>2. Min(I) \in I /\ \A u \in I : Min(I) <= u
      <3> HIDE DEF I
      <3>1. QED
        BY <2>1 DEF Min
    <2>3. n \in I /\ \A u \in I : n <= u
      <3> HIDE DEF I
      <3>1. QED
        BY <1>1, <1>4, <2>2
    <2>4. n \in 1..Len(s) /\ s[n] \in S
      BY <2>3
    <2>5. ASSUME NEW i \in 1..Len(s), i < n PROVE s[i] \notin S
      BY <1>2, <2>3, <2>4, <2>5
    <2>6. QED
      BY <2>4, <2>5 DEF n
  <1>5. QED
    BY <1>3, <1>4

\* The two parts of a sequence, cut before position n.
LEMMA CutBefore ==
  ASSUME NEW K, NEW s \in Seq(K), NEW n \in 1..Len(s)
  PROVE  /\ SubSeq(s, 1, n - 1) \in Seq(K) /\ SubSeq(s, n, Len(s)) \in Seq(K)
         /\ s = SubSeq(s, 1, n - 1) \o SubSeq(s, n, Len(s))
  <1> DEFINE p == SubSeq(s, 1, n - 1)
             q == SubSeq(s, n, Len(s))
  <1>1. Len(s) \in Nat /\ n \in Int /\ n - 1 \in Int /\ 1 \in Int /\ Len(s) \in Int
    OBVIOUS
  <1>2. /\ \A i \in 1..(n - 1) : s[i] \in K
        /\ \A i \in n..Len(s) : s[i] \in K
    BY <1>1
  <1>3. /\ p \in Seq(K) /\ Len(p) = IF 1 <= n - 1 THEN (n - 1) - 1 + 1 ELSE 0
        /\ \A i \in 1..((n - 1) - 1 + 1) : p[i] = s[1 + i - 1]
    <2> HIDE DEF p
    <2>1. QED
      BY <1>1, <1>2, SubSeqProperties DEF p
  <1>4. /\ q \in Seq(K) /\ Len(q) = IF n <= Len(s) THEN Len(s) - n + 1 ELSE 0
        /\ \A i \in 1..(Len(s) - n + 1) : q[i] = s[n + i - 1]
    BY <1>1, <1>2, SubSeqProperties
  <1> HIDE DEF p, q
  <1>5. Len(p) = n - 1 /\ \A i \in 1..(n - 1) : p[i] = s[i]
    BY <1>1, <1>3
  <1>6. Len(q) = Len(s) - n + 1 /\ \A i \in 1..Len(q) : q[i] = s[n + i - 1]
    BY <1>1, <1>4
  <1>7. p \o q \in Seq(K) /\ Len(p \o q) = Len(s)
    BY <1>1, <1>3, <1>4, <1>5, <1>6
  <1>8. ASSUME NEW i \in 1..Len(s) PROVE (p \o q)[i] = s[i]
    <2>1. CASE i < n
      BY <1>1, <1>3, <1>4, <1>5, <1>6, <2>1
    <2>2. CASE ~ (i < n)
      <3>1. i - (n - 1) \in 1..Len(q) /\ n + (i - (n - 1)) - 1 = i /\ i > Len(p)
        BY <1>1, <1>5, <1>6, <2>2
      <3>2. p \in Seq(K) /\ q \in Seq(K) /\ i \in 1..(Len(p) + Len(q)) /\ ~ (i <= Len(p))
        BY <1>1, <1>3, <1>4, <1>5, <1>6, <3>1
      <3>3. (p \o q)[i] = q[i - Len(p)]
        BY <3>2, ConcatProperties
      <3>4. QED
        BY <1>5, <1>6, <3>1, <3>3
    <2>3. QED
      BY <2>1, <2>2
  <1>9. p \o q = s
    <2> DEFINE r == p \o q
    <2>1. r \in Seq(K) /\ Len(r) = Len(s) /\ \A i \in 1..Len(r) : r[i] = s[i]
      BY <1>7, <1>8
    <2> HIDE DEF r
    <2>2. r = s
      BY <2>1, SameElements
    <2>3. QED
      BY <2>2 DEF r
  <1>10. QED
    BY <1>3, <1>4, <1>9 DEF p, q

\* What is shown of a text: it has the key of the text's key, and is the key with a space
\* between the letters and the digits of a plate.
LEMMA ShownMeans ==
  ASSUME NEW text \in Seq(Characters)
  PROVE  LET shown == FormatDisplay(text)
             key == NormalizePlate(text) IN
         /\ shown \in Seq(Characters) /\ NormalizePlate(shown) = NormalizePlate(key)
         /\ PlateFrom(text) # << >> => shown = Letters(text) \o <<"space">> \o Digits(text)
         /\ PlateFrom(text) = << >> => Drop(shown, Spaces) = key
  <1> DEFINE key == NormalizePlate(text)
             first == SelectInSeq(key, LAMBDA c : c \in Digit)
             p == SubSeq(key, 1, first - 1)
             q == SubSeq(key, first, Len(key))
             shown == FormatDisplay(text)
  <1>1. shown = IF first < 2 THEN key ELSE p \o <<"space">> \o q
    BY DEF FormatDisplay
  <1>2. /\ key \in Seq(Characters)
        /\ PlateFrom(text) = << >> => key \in Seq(Plain)
    BY KeyMeans
  <1> HIDE DEF key
  <1>3. \/ first = 0 /\ \A i \in 1..Len(key) : key[i] \notin Digit
        \/ first \in 1..Len(key) /\ key[first] \in Digit
           /\ \A i \in 1..Len(key) : i < first => key[i] \notin Digit
    BY <1>2, FirstIn
  <1> HIDE DEF first, shown
  <1>4. ~ (first < 2) => /\ p \in Seq(Characters) /\ q \in Seq(Characters) /\ key = p \o q
    <2>1. ~ (first < 2) => first \in 1..Len(key)
      BY <1>3
    <2> HIDE DEF p, q
    <2>2. QED
      BY <1>2, <2>1, CutBefore DEF p, q
  <1>5. shown \in Seq(Characters) /\ NormalizePlate(shown) = NormalizePlate(key)
    <2>1. CASE first < 2
      BY <1>1, <1>2, <2>1
    <2>2. CASE ~ (first < 2)
      <3> HIDE DEF p, q
      <3> DEFINE a == p \o q
                 b == p \o <<"space">> \o q
      <3>1. b \in Seq(Characters) /\ NormalizePlate(b) = NormalizePlate(a) /\ Means(b) = Means(a)
        BY <1>4, <2>2, SpacedMeans
      <3> HIDE DEF a, b
      <3>2. shown = b /\ key = a
        BY <1>1, <1>4, <2>2 DEF a, b
      <3>3. QED
        BY <1>2, <3>1, <3>2
    <2>3. QED
      BY <2>1, <2>2
  <1>6. ASSUME PlateFrom(text) # << >> PROVE shown = Letters(text) \o <<"space">> \o Digits(text)
    <2> DEFINE l == Letters(text)
               d == Digits(text)
    <2>1. /\ l \in Seq(Spoken) /\ d \in Seq(Western) /\ Len(l) \in 1..3 /\ Len(d) \in 1..4
          /\ PlateFrom(text) = l \o d
      BY <1>6, IsPlate, Outcomes
    <2>2. key = l \o d
      BY <1>6, <2>1 DEF key, NormalizePlate
    <2> HIDE DEF l, d
    <2>4. /\ Len(l) \in Nat /\ Len(d) \in Nat /\ Len(l) >= 1 /\ Len(d) >= 1
          /\ Len(key) = Len(l) + Len(d)
          /\ \A i \in 1..Len(l) : key[i] = l[i]
          /\ \A i \in 1..Len(d) : key[Len(l) + i] = d[i]
      <3>1. Len(l) \in Nat /\ Len(d) \in Nat /\ Len(l) >= 1 /\ Len(d) >= 1
        <4>1. Len(l) \in 1..3 /\ Len(d) \in 1..4
          BY <2>1
        <4>2. \A n : n \in 1..3 \/ n \in 1..4 => n \in Nat /\ n >= 1
          OBVIOUS
        <4>3. QED
          BY <4>1, <4>2
      <3>2. Len(key) = Len(l) + Len(d) /\ \A i \in 1..Len(l) : key[i] = l[i]
        BY <2>1, <2>2
      <3>3. ASSUME NEW i \in 1..Len(d) PROVE key[Len(l) + i] = d[i]
        <4>1. Len(l) + i \in 1..(Len(l) + Len(d)) /\ Len(l) + i > Len(l) /\ (Len(l) + i) - Len(l) = i
          BY <3>1
        <4>2. (l \o d)[Len(l) + i] = d[(Len(l) + i) - Len(l)]
          BY <2>1, <3>1, <4>1
        <4>3. QED
          BY <2>2, <4>1, <4>2
      <3>4. QED
        BY <3>1, <3>2, <3>3
    <2>5. \A c \in Spoken : c \notin Digit
      BY Alphabet DEF Digit, Western
    <2>6. \A c \in Western : c \in Digit
      BY DEF Digit
    <2>7. \A i \in 1..Len(l) : key[i] \notin Digit
      BY <2>1, <2>4, <2>5
    <2>8. key[Len(l) + 1] \in Digit /\ Len(l) + 1 \in 1..Len(key)
      <3>1. d[1] \in Western /\ key[Len(l) + 1] = d[1]
        BY <2>1, <2>4
      <3>2. QED
        BY <2>4, <2>6, <3>1
    <2>9. first = Len(l) + 1
      <3>1. first \in 1..Len(key) /\ key[first] \in Digit /\ ~ (Len(l) + 1 < first)
        BY <1>3, <2>4, <2>8
      <3>2. ~ (first \in 1..Len(l))
        BY <2>7, <3>1
      <3>3. QED
        BY <2>4, <3>1, <3>2
    <2>10. p = l
      <3>1. key \in Seq(Characters) /\ \A i \in 1..Len(l) : key[i] \in Characters
        BY <1>2, <2>4
      <3>2. /\ p \in Seq(Characters) /\ Len(p) = Len(l)
            /\ \A i \in 1..Len(l) : p[i] = key[i]
        <4>1. first - 1 = Len(l) /\ 1 \in Int /\ Len(l) \in Int
          BY <2>4, <2>9
        <4>2. /\ SubSeq(key, 1, Len(l)) \in Seq(Characters)
              /\ Len(SubSeq(key, 1, Len(l))) = IF 1 <= Len(l) THEN Len(l) - 1 + 1 ELSE 0
              /\ \A i \in 1..(Len(l) - 1 + 1) : SubSeq(key, 1, Len(l))[i] = key[1 + i - 1]
          BY <3>1, <4>1, SubSeqProperties
        <4>3. p = SubSeq(key, 1, Len(l))
          BY <4>1
        <4> HIDE DEF p
        <4>4. QED
          BY <2>4, <4>2, <4>3
      <3> HIDE DEF p
      <3>3. \A i \in 1..Len(p) : p[i] = l[i]
        BY <2>4, <3>2
      <3>4. QED
        BY <2>1, <3>2, <3>3, SameElements
    <2>11. q = d
      <3>1. /\ q \in Seq(Characters) /\ Len(q) = Len(d)
            /\ \A i \in 1..Len(d) : q[i] = key[Len(l) + i]
        <4>1. first \in Int /\ Len(key) \in Int /\ \A i \in first..Len(key) : key[i] \in Characters
          BY <1>2, <2>4, <2>9
        <4>2. /\ q \in Seq(Characters)
              /\ Len(q) = IF first <= Len(key) THEN Len(key) - first + 1 ELSE 0
              /\ \A i \in 1..(Len(key) - first + 1) : q[i] = key[first + i - 1]
          BY <4>1, SubSeqProperties
        <4> HIDE DEF q
        <4>3. Len(key) - first + 1 = Len(d) /\ first <= Len(key)
          BY <2>4, <2>9
        <4>4. ASSUME NEW i \in 1..Len(d) PROVE first + i - 1 = Len(l) + i
          BY <2>4, <2>9
        <4>5. QED
          BY <4>2, <4>3, <4>4
      <3> HIDE DEF q
      <3>2. QED
        BY SMTT(30), <2>1, <2>4, <3>1
    <2>12. shown = l \o <<"space">> \o d
      <3>1. ~ (first < 2)
        BY <2>4, <2>9
      <3> HIDE DEF p, q
      <3>2. QED
        BY <1>1, <2>10, <2>11, <3>1
    <2>13. QED
      BY <2>12 DEF l, d
  <1>7. ASSUME PlateFrom(text) = << >> PROVE Drop(shown, Spaces) = key
    <2>1. key \in Seq(Plain)
      BY <1>2, <1>7
    <2>2. Drop(shown, Spaces) = Keep(shown, Characters \ Spaces)
      BY <1>5, DropIs
    <2>3. Keep(shown, Characters \ Spaces) = Keep(key, Characters \ Spaces)
      <3>1. CASE first < 2
        BY <1>1, <3>1
      <3>2. CASE ~ (first < 2)
        <4> DEFINE a == p \o q
                   b == p \o <<"space">> \o q
                   S == Characters \ Spaces
        <4>1. "space" \notin S
          BY DEF Spaces
        <4> HIDE DEF p, q, S
        <4>2. \A T : "space" \notin T => Keep(b, T) = Keep(a, T)
          BY <1>4, <3>2, Spaced
        <4> HIDE DEF a, b
        <4>3. shown = b /\ key = a
          BY <1>1, <1>4, <3>2 DEF a, b
        <4>4. QED
          BY <4>1, <4>2, <4>3 DEF S
      <3>3. QED
        BY <3>1, <3>2
    <2>4. Keep(key, Characters \ Spaces) = key
      <3> DEFINE S == Characters \ Spaces
      <3>1. \A c \in Plain : c \in S
        BY DEF Plain, Legible
      <3> HIDE DEF S
      <3>2. \A i \in 1..Len(key) : key[i] \in S
        BY <2>1, <3>1
      <3>3. Keep(key, S) = key
        BY <1>2, <3>2, KeepAll
      <3>4. QED
        BY <3>3 DEF S
    <2>5. QED
      BY <2>2, <2>3, <2>4
  <1>8. QED
    BY <1>5, <1>6, <1>7 DEF key, shown

-----------------------------------------------------------------------------
(* The index and the join.                                                 *)

\* The join, told by the keys of the rows: sk those of the small sheet, of which h rows are
\* handled, and lk the n of the large one.
Entries == [key : Seq(Characters), row : Nat]
Outs    == [large : Nat, small : Nat, shown : Seq(Characters)]

Keyed(idx, lk, n) ==
  \A k \in 1..Len(idx) :
     idx[k].row \in 1..n /\ idx[k].key = lk[idx[k].row] /\ idx[k].key # << >>
Rising(idx) == \A j, k \in 1..Len(idx) : j < k => idx[j].row < idx[k].row
Full(idx, lk, n) == \A j \in 1..n : lk[j] # << >> => \E k \in 1..Len(idx) : idx[k].row = j

Indexed(idx, lk, n) ==
  idx \in Seq(Entries) /\ Keyed(idx, lk, n) /\ Rising(idx) /\ Full(idx, lk, n)

Agrees(ms, sk, h, lk, n) ==
  \A k \in 1..Len(ms) :
    /\ ms[k].small \in 1..h /\ ms[k].large \in 1..n
    /\ sk[ms[k].small] # << >> /\ sk[ms[k].small] = lk[ms[k].large]
    /\ ms[k].shown = FormatDisplay(sk[ms[k].small])
Sorted(ms) ==
  \A j, k \in 1..Len(ms) : j < k => \/ ms[j].small < ms[k].small
                                    \/ ms[j].small = ms[k].small /\ ms[j].large < ms[k].large
Complete(ms, sk, h, lk, n) ==
  \A i \in 1..h, j \in 1..n :
    sk[i] # << >> /\ sk[i] = lk[j] => \E k \in 1..Len(ms) : ms[k].small = i /\ ms[k].large = j

IsJoin(ms, sk, h, lk, n) ==
  ms \in Seq(Outs) /\ Agrees(ms, sk, h, lk, n) /\ Sorted(ms) /\ Complete(ms, sk, h, lk, n)

Same(sk, sk2, h) == \A i \in 1..h : sk2[i] = sk[i]

LEMMA ConcatIs ==
  ASSUME NEW K, NEW s \in Seq(K), NEW t \in Seq(K)
  PROVE  /\ s \o t \in Seq(K) /\ Len(s \o t) = Len(s) + Len(t) /\ Len(s) \in Nat /\ Len(t) \in Nat
         /\ \A i \in 1..Len(s) : i \in 1..Len(s \o t) /\ (s \o t)[i] = s[i]
         /\ \A i \in 1..Len(t) : Len(s) + i \in 1..Len(s \o t) /\ (s \o t)[Len(s) + i] = t[i]
         /\ \A i \in 1..Len(s \o t) : \/ i \in 1..Len(s)
                                      \/ \E k \in 1..Len(t) : i = Len(s) + k
  <1>1. /\ s \o t \in Seq(K) /\ Len(s \o t) = Len(s) + Len(t) /\ Len(s) \in Nat /\ Len(t) \in Nat
    OBVIOUS
  <1>2. ASSUME NEW i \in 1..Len(s) PROVE i \in 1..Len(s \o t) /\ (s \o t)[i] = s[i]
    BY <1>1
  <1>3. ASSUME NEW i \in 1..Len(t)
        PROVE  Len(s) + i \in 1..Len(s \o t) /\ (s \o t)[Len(s) + i] = t[i]
    <2>1. Len(s) + i \in 1..Len(s \o t) /\ Len(s) + i > Len(s) /\ (Len(s) + i) - Len(s) = i
      BY <1>1, <1>3
    <2>2. (s \o t)[Len(s) + i] = t[(Len(s) + i) - Len(s)]
      BY <1>1, <2>1
    <2>3. QED
      BY <2>1, <2>2
  <1>4. ASSUME NEW i \in 1..Len(s \o t)
        PROVE  i \in 1..Len(s) \/ \E k \in 1..Len(t) : i = Len(s) + k
    <2>1. CASE i > Len(s)
      <3>1. i - Len(s) \in 1..Len(t) /\ i = Len(s) + (i - Len(s))
        BY <1>1, <2>1
      <3>2. QED
        BY <3>1
    <2>2. CASE ~ (i > Len(s))
      BY <1>1, <2>2
    <2>3. QED
      BY <2>1, <2>2
  <1>5. QED
    BY <1>1, <1>2, <1>3, <1>4

\* A row without a plate adds nothing.
LEMMA JoinSkips ==
  ASSUME NEW ms, NEW sk, NEW sk2, NEW h \in Nat, NEW lk, NEW n \in Nat,
         IsJoin(ms, sk, h, lk, n), Same(sk, sk2, h), sk2[h + 1] = << >>
  PROVE  IsJoin(ms, sk2, h + 1, lk, n)
  <1>1. \A i \in 1..h : i \in 1..(h + 1)
    OBVIOUS
  <1>2. \A i \in 1..(h + 1) : i \in 1..h \/ i = h + 1
    OBVIOUS
  <1>3. Agrees(ms, sk2, h + 1, lk, n)
    <2>1. ASSUME NEW k \in 1..Len(ms)
          PROVE  /\ ms[k].small \in 1..h /\ ms[k].large \in 1..n
                 /\ sk[ms[k].small] # << >> /\ sk[ms[k].small] = lk[ms[k].large]
                 /\ ms[k].shown = FormatDisplay(sk[ms[k].small])
      BY DEF IsJoin, Agrees
    <2>2. ASSUME NEW k \in 1..Len(ms) PROVE sk2[ms[k].small] = sk[ms[k].small]
      BY <2>1 DEF Same
    <2>3. QED
      BY <1>1, <2>1, <2>2 DEF Agrees
  <1>4. Complete(ms, sk2, h + 1, lk, n)
    <2>1. ASSUME NEW i \in 1..(h + 1), NEW j \in 1..n, sk2[i] # << >>, sk2[i] = lk[j]
          PROVE  \E k \in 1..Len(ms) : ms[k].small = i /\ ms[k].large = j
      <3>1. i \in 1..h /\ sk[i] = sk2[i]
        BY <1>2, <2>1 DEF Same
      <3>2. QED
        BY <2>1, <3>1 DEF IsJoin, Complete
    <2>2. QED
      BY <2>1 DEF Complete
  <1>5. QED
    BY <1>3, <1>4 DEF IsJoin

\* What Compare finds and what it adds.
Found(idx, key) == Keep(idx, {e \in ToSet(idx) : e.key = key})
RowsOut(found, h, key) == [i \in DOMAIN found |-> [large |-> found[i].row, small |-> h + 1,
                                                  shown |-> FormatDisplay(key)]]

Grown(ms, sk, h, lk, n, idx, key) ==
  LET out == RowsOut(Found(idx, key), h, key)
  IN  /\ out \in Seq(Outs) /\ IsJoin(ms \o out, sk, h + 1, lk, n)
      /\ Found(idx, key) = << >> <=> \A j \in 1..n : lk[j] # key

\* A row with a plate adds the rows of the index that have its key.
LEMMA JoinGrows ==
  ASSUME NEW ms, NEW sk, NEW sk2, NEW h \in Nat, NEW lk, NEW n \in Nat, NEW idx, NEW key \in Seq(Characters),
         IsJoin(ms, sk, h, lk, n), Indexed(idx, lk, n), Same(sk, sk2, h),
         sk2[h + 1] = key, key # << >>, FormatDisplay(key) \in Seq(Characters)
  PROVE  Grown(ms, sk2, h, lk, n, idx, key)
  <1> DEFINE E == {e \in ToSet(idx) : e.key = key}
             found == Keep(idx, E)
             out == [i \in DOMAIN found |-> [large |-> found[i].row, small |-> h + 1,
                                             shown |-> FormatDisplay(key)]]
             ms2 == ms \o out
  <1>1. idx \in Seq(Entries) /\ Keyed(idx, lk, n) /\ Rising(idx) /\ Full(idx, lk, n)
    BY DEF Indexed
  <1>2. found \in Seq(Entries) /\ Picked(idx, E, Len(idx), found)
    BY <1>1, KeepPicks
  <1>3. \A k \in 1..Len(idx) : idx[k] \in E <=> idx[k].key = key
    BY <1>1 DEF ToSet
  <1> HIDE DEF E, found
  <1>4. PICK at : From(idx, E, Len(idx), found, at)
    BY <1>2 DEF Picked
  <1>5. ASSUME NEW k \in 1..Len(found)
        PROVE  /\ at[k] \in 1..Len(idx) /\ found[k] = idx[at[k]] /\ found[k].key = key
               /\ found[k].row \in 1..n /\ lk[found[k].row] = key
    <2>1. at[k] \in 1..Len(idx) /\ found[k] = idx[at[k]] /\ found[k] \in E
      BY <1>4 DEF From
    <2>2. QED
      BY <1>1, <1>3, <2>1 DEF Keyed
  <1>6. ASSUME NEW j \in 1..Len(found), NEW k \in 1..Len(found), j < k
        PROVE  found[j].row < found[k].row
    <2>1. at[j] < at[k]
      BY <1>4, <1>6 DEF From
    <2>2. QED
      BY <1>1, <1>5, <2>1 DEF Rising
  <1>7. ASSUME NEW j \in 1..n, lk[j] = key PROVE \E k \in 1..Len(found) : found[k].row = j
    <2>1. PICK i \in 1..Len(idx) : idx[i].row = j
      BY <1>1, <1>7 DEF Full
    <2>2. idx[i] \in E
      BY <1>1, <1>3, <1>7, <2>1 DEF Keyed
    <2>3. PICK k \in 1..Len(found) : at[k] = i
      BY <1>4, <2>2 DEF From
    <2>4. QED
      BY <1>5, <2>1, <2>3
  <1>8. DOMAIN found = 1..Len(found) /\ Len(found) \in Nat
    BY <1>2
  <1>9. /\ out \in Seq(Outs) /\ Len(out) = Len(found)
        /\ \A k \in 1..Len(found) : /\ out[k].large = found[k].row /\ out[k].small = h + 1
                                    /\ out[k].shown = FormatDisplay(key)
    <2>1. ASSUME NEW k \in 1..Len(found)
          PROVE  [large |-> found[k].row, small |-> h + 1, shown |-> FormatDisplay(key)] \in Outs
      <3>1. found[k].row \in Nat /\ h + 1 \in Nat
        BY <1>5
      <3>2. QED
        BY <3>1 DEF Outs
    <2>2. out \in [1..Len(found) -> Outs]
      BY <1>8, <2>1
    <2>3. \A k \in 1..Len(found) : /\ out[k].large = found[k].row /\ out[k].small = h + 1
                                   /\ out[k].shown = FormatDisplay(key)
      BY <1>8
    <2> HIDE DEF out
    <2>4. out \in Seq(Outs) /\ Len(out) = Len(found)
      BY <1>8, <2>2
    <2>5. QED
      BY <2>3, <2>4
  <1> HIDE DEF out
  <1>10. ms \in Seq(Outs) /\ Agrees(ms, sk, h, lk, n) /\ Sorted(ms) /\ Complete(ms, sk, h, lk, n)
    BY DEF IsJoin
  <1>11. /\ ms2 \in Seq(Outs) /\ Len(ms) \in Nat
         /\ \A i \in 1..Len(ms) : i \in 1..Len(ms2) /\ ms2[i] = ms[i]
         /\ \A i \in 1..Len(out) : Len(ms) + i \in 1..Len(ms2) /\ ms2[Len(ms) + i] = out[i]
         /\ \A i \in 1..Len(ms2) : i \in 1..Len(ms) \/ \E k \in 1..Len(out) : i = Len(ms) + k
    BY <1>9, <1>10, ConcatIs
  <1> HIDE DEF ms2
  <1>12. ASSUME NEW i \in 1..Len(ms)
         PROVE  /\ ms2[i].small \in 1..h /\ ms2[i].large \in 1..n
                /\ sk2[ms2[i].small] # << >> /\ sk2[ms2[i].small] = lk[ms2[i].large]
                /\ ms2[i].shown = FormatDisplay(sk2[ms2[i].small])
    <2>1. /\ ms[i].small \in 1..h /\ ms[i].large \in 1..n
          /\ sk[ms[i].small] # << >> /\ sk[ms[i].small] = lk[ms[i].large]
          /\ ms[i].shown = FormatDisplay(sk[ms[i].small])
      BY <1>10 DEF Agrees
    <2>2. sk2[ms[i].small] = sk[ms[i].small]
      BY <2>1 DEF Same
    <2>3. QED
      BY <1>11, <2>1, <2>2
  <1>13. ASSUME NEW k \in 1..Len(out)
         PROVE  /\ ms2[Len(ms) + k].small = h + 1 /\ ms2[Len(ms) + k].large = found[k].row
                /\ found[k].row \in 1..n /\ lk[found[k].row] = key
                /\ ms2[Len(ms) + k].shown = FormatDisplay(key)
    <2>1. k \in 1..Len(found) /\ ms2[Len(ms) + k] = out[k]
      BY <1>9, <1>11
    <2>2. QED
      BY <1>5, <1>9, <2>1
  <1>14. \A i \in 1..h : i \in 1..(h + 1) /\ i < h + 1
    OBVIOUS
  <1>15. h + 1 \in 1..(h + 1) /\ \A i \in 1..(h + 1) : i \in 1..h \/ i = h + 1
    OBVIOUS
  <1>16. Agrees(ms2, sk2, h + 1, lk, n)
    <2>1. ASSUME NEW i \in 1..Len(ms2)
          PROVE  /\ ms2[i].small \in 1..(h + 1) /\ ms2[i].large \in 1..n
                 /\ sk2[ms2[i].small] # << >> /\ sk2[ms2[i].small] = lk[ms2[i].large]
                 /\ ms2[i].shown = FormatDisplay(sk2[ms2[i].small])
      <3>1. CASE i \in 1..Len(ms)
        BY <1>12, <1>14, <3>1
      <3>2. CASE \E k \in 1..Len(out) : i = Len(ms) + k
        <4>1. PICK k \in 1..Len(out) : i = Len(ms) + k
          BY <3>2
        <4>2. /\ ms2[i].small = h + 1 /\ ms2[i].large = found[k].row
              /\ found[k].row \in 1..n /\ lk[found[k].row] = key
              /\ ms2[i].shown = FormatDisplay(key)
          BY <1>13, <4>1
        <4>3. QED
          BY <1>15, <4>2
      <3>3. QED
        BY <1>11, <3>1, <3>2
    <2>2. QED
      BY <2>1 DEF Agrees
  <1>17. Sorted(ms2)
    <2>1. ASSUME NEW i \in 1..Len(ms2), NEW j \in 1..Len(ms2), i < j
          PROVE  \/ ms2[i].small < ms2[j].small
                 \/ ms2[i].small = ms2[j].small /\ ms2[i].large < ms2[j].large
      <3>1. CASE j \in 1..Len(ms)
        <4>1. i \in 1..Len(ms)
          BY <1>11, <2>1, <3>1
        <4>2. \/ ms[i].small < ms[j].small
              \/ ms[i].small = ms[j].small /\ ms[i].large < ms[j].large
          BY <1>10, <2>1, <3>1, <4>1 DEF Sorted
        <4>3. ms2[i] = ms[i] /\ ms2[j] = ms[j]
          BY <1>11, <3>1, <4>1
        <4>4. QED
          BY <4>2, <4>3
      <3>2. CASE \E k \in 1..Len(out) : j = Len(ms) + k
        <4>1. PICK k \in 1..Len(out) : j = Len(ms) + k
          BY <3>2
        <4>2. ms2[j].small = h + 1 /\ ms2[j].large = found[k].row
          BY <1>13, <4>1
        <4>3. CASE i \in 1..Len(ms)
          <5>1. ms2[i].small < h + 1
            BY <1>12, <1>14, <4>3
          <5>2. QED
            BY <4>2, <5>1
        <4>4. CASE \E g \in 1..Len(out) : i = Len(ms) + g
          <5>1. PICK g \in 1..Len(out) : i = Len(ms) + g
            BY <4>4
          <5>2. ms2[i].small = h + 1 /\ ms2[i].large = found[g].row
            BY <1>13, <5>1
          <5>3. g < k /\ g \in 1..Len(found) /\ k \in 1..Len(found)
            BY <1>8, <1>9, <1>11, <2>1, <4>1, <5>1
          <5>4. QED
            BY <1>6, <4>2, <5>2, <5>3
        <4>5. QED
          BY <1>11, <4>3, <4>4
      <3>3. QED
        BY <1>11, <3>1, <3>2
    <2>2. QED
      BY <2>1 DEF Sorted
  <1>18. Complete(ms2, sk2, h + 1, lk, n)
    <2>1. ASSUME NEW i \in 1..(h + 1), NEW j \in 1..n, sk2[i] # << >>, sk2[i] = lk[j]
          PROVE  \E k \in 1..Len(ms2) : ms2[k].small = i /\ ms2[k].large = j
      <3>1. CASE i \in 1..h
        <4>1. sk[i] = sk2[i]
          BY <3>1 DEF Same
        <4>2. PICK k \in 1..Len(ms) : ms[k].small = i /\ ms[k].large = j
          BY <1>10, <2>1, <3>1, <4>1 DEF Complete
        <4>3. QED
          BY <1>11, <4>2
      <3>2. CASE i = h + 1
        <4>1. PICK k \in 1..Len(found) : found[k].row = j
          BY <1>7, <2>1, <3>2
        <4>2. k \in 1..Len(out)
          BY <1>9
        <4>3. QED
          BY <1>11, <1>13, <3>2, <4>1, <4>2
      <3>3. QED
        BY <1>15, <3>1, <3>2
    <2>2. QED
      BY SMTT(30), <2>1 DEF Complete
  <1>19. found = << >> <=> \A j \in 1..n : lk[j] # key
    <2>1. ASSUME found = << >>, NEW j \in 1..n, lk[j] = key PROVE FALSE
      <3>1. \E k \in 1..Len(found) : found[k].row = j
        BY <1>7, <2>1
      <3>2. Len(found) = 0
        BY <2>1, EmptyLength
      <3>3. QED
        BY <3>1, <3>2
    <2>2. ASSUME found # << >> PROVE \E j \in 1..n : lk[j] = key
      <3>1. 1 \in 1..Len(found)
        BY <1>2, <2>2
      <3>2. QED
        BY <1>5, <3>1
    <2>3. QED
      BY <2>1, <2>2
  <1>20. QED
    BY <1>9, <1>11, <1>16, <1>17, <1>18, <1>19 DEF IsJoin, ms2, out, found, E, Found, RowsOut, Grown

\* The rows of the small sheet that are nobody's.
Lone(sk, h, lk, n) == {i \in 1..h : sk[i] # << >> /\ \A j \in 1..n : lk[j] # sk[i]}

LEMMA LoneCounts ==
  ASSUME NEW sk, NEW sk2, NEW h \in Nat, NEW lk, NEW n \in Nat, Same(sk, sk2, h)
  PROVE  /\ IsFiniteSet(Lone(sk, h, lk, n)) /\ Cardinality(Lone(sk, h, lk, n)) \in Nat
         /\ Cardinality(Lone(sk2, h + 1, lk, n)) =
              IF sk2[h + 1] # << >> /\ \A j \in 1..n : lk[j] # sk2[h + 1]
              THEN Cardinality(Lone(sk, h, lk, n)) + 1 ELSE Cardinality(Lone(sk, h, lk, n))
  <1> DEFINE S == Lone(sk, h, lk, n)
             T == Lone(sk2, h + 1, lk, n)
             P == sk2[h + 1] # << >> /\ \A j \in 1..n : lk[j] # sk2[h + 1]
  <1>1. S \subseteq 1..h
    BY DEF Lone
  <1>2. IsFiniteSet(1..h)
    BY FirstNaturals
  <1>3. IsFiniteSet(S)
    <2> HIDE DEF S
    <2>1. QED
      BY <1>1, <1>2, FS_Subset
  <1>4. Cardinality(S) \in Nat
    BY <1>3, FS_CardinalityType
  <1>5. \A i \in 1..(h + 1) : i \in 1..h \/ i = h + 1
    OBVIOUS
  <1>6. h + 1 \notin 1..h /\ h + 1 \in 1..(h + 1) /\ \A i \in 1..h : i \in 1..(h + 1)
    OBVIOUS
  <1>7. \A i \in 1..h : i \in T <=> i \in S
    BY <1>6 DEF Same, Lone
  <1>8. h + 1 \in T <=> P
    BY <1>6 DEF Lone
  <1>9. T \subseteq 1..(h + 1)
    BY DEF Lone
  <1> HIDE DEF S, T, P
  <1>10. CASE P
    <2>1. T = S \cup {h + 1}
      BY <1>1, <1>5, <1>7, <1>8, <1>9, <1>10
    <2>2. h + 1 \notin S
      BY <1>1, <1>6
    <2>3. Cardinality(S \cup {h + 1}) = Cardinality(S) + 1
      BY <1>3, <2>2, FS_AddElement
    <2>4. QED
      BY <1>3, <1>4, <1>10, <2>1, <2>3 DEF S, T, P
  <1>11. CASE ~ P
    <2>1. T = S
      BY <1>1, <1>5, <1>7, <1>8, <1>9, <1>11
    <2>2. QED
      BY <1>3, <1>4, <1>11, <2>1 DEF S, T, P
  <1>12. QED
    BY <1>10, <1>11

\* The preview is the beginning of the matches.
Previews(pv, ms) ==
  /\ pv \in Seq(Outs)
  /\ Len(pv) = IF Len(ms) < PreviewSize THEN Len(ms) ELSE PreviewSize
  /\ \A i \in 1..Len(pv) : pv[i] = ms[i]

LEMMA PreviewGrows ==
  ASSUME NEW pv, NEW ms \in Seq(Outs), NEW out \in Seq(Outs), Previews(pv, ms)
  PROVE  LET seen == pv \o out
         IN  Previews(IF Len(seen) > PreviewSize THEN SubSeq(seen, 1, PreviewSize) ELSE seen, ms \o out)
  <1> DEFINE seen == pv \o out
             all  == ms \o out
             new  == IF Len(seen) > PreviewSize THEN SubSeq(seen, 1, PreviewSize) ELSE seen
  <1>1. /\ pv \in Seq(Outs) /\ Len(pv) = (IF Len(ms) < PreviewSize THEN Len(ms) ELSE PreviewSize)
        /\ \A i \in 1..Len(pv) : pv[i] = ms[i]
    BY DEF Previews
  <1>2. PreviewSize \in Nat
    BY MatchAssumption
  <1>3. /\ seen \in Seq(Outs) /\ Len(seen) = Len(pv) + Len(out) /\ Len(pv) \in Nat /\ Len(out) \in Nat
        /\ \A i \in 1..Len(pv) : i \in 1..Len(seen) /\ seen[i] = pv[i]
        /\ \A i \in 1..Len(out) : Len(pv) + i \in 1..Len(seen) /\ seen[Len(pv) + i] = out[i]
        /\ \A i \in 1..Len(seen) : i \in 1..Len(pv) \/ \E k \in 1..Len(out) : i = Len(pv) + k
    <2>1. pv \in Seq(Outs)
      BY <1>1
    <2>2. QED
      BY <2>1, ConcatIs
  <1>4. /\ all \in Seq(Outs) /\ Len(all) = Len(ms) + Len(out) /\ Len(ms) \in Nat
        /\ \A i \in 1..Len(ms) : i \in 1..Len(all) /\ all[i] = ms[i]
        /\ \A i \in 1..Len(out) : Len(ms) + i \in 1..Len(all) /\ all[Len(ms) + i] = out[i]
    BY ConcatIs
  <1> HIDE DEF seen, all
  <1>5. ASSUME NEW i \in 1..Len(seen), i <= PreviewSize PROVE seen[i] = all[i]
    <2>1. CASE i \in 1..Len(pv)
      <3>1. i \in 1..Len(ms)
        BY <1>1, <1>2, <1>3, <1>4, <2>1
      <3>2. QED
        BY <1>1, <1>3, <1>4, <2>1, <3>1
    <2>2. CASE ~ (i \in 1..Len(pv))
      <3>1. PICK k \in 1..Len(out) : i = Len(pv) + k
        BY <1>3, <2>2
      <3>2. Len(pv) < PreviewSize
        BY <1>2, <1>3, <1>5, <3>1
      <3>3. Len(pv) = Len(ms)
        BY <1>1, <1>2, <1>4, <3>2
      <3>4. QED
        BY <1>3, <1>4, <3>1, <3>3
    <2>3. QED
      BY <2>1, <2>2
  <1>6. CASE Len(seen) > PreviewSize
    <2> DEFINE prefix == SubSeq(seen, 1, PreviewSize)
    <2>1. PreviewSize \in Int /\ 1 \in Int /\ \A i \in 1..PreviewSize : i \in 1..Len(seen)
      BY <1>2, <1>3, <1>6
    <2>2. \A i \in 1..PreviewSize : seen[i] \in Outs
      BY <1>3, <2>1
    <2>3. /\ prefix \in Seq(Outs)
          /\ Len(prefix) = IF 1 <= PreviewSize THEN PreviewSize - 1 + 1 ELSE 0
          /\ \A i \in 1..(PreviewSize - 1 + 1) : prefix[i] = seen[1 + i - 1]
      BY <2>1, <2>2, SubSeqProperties
    <2> HIDE DEF prefix
    <2>4. Len(prefix) = PreviewSize /\ \A i \in 1..PreviewSize : prefix[i] = seen[i]
      BY <1>2, <2>3
    <2>5. ~ (Len(all) < PreviewSize)
      BY <1>1, <1>2, <1>3, <1>4, <1>6
    <2>6. \A i \in 1..PreviewSize : i <= PreviewSize
      BY <1>2
    <2>7. \A i \in 1..Len(prefix) : prefix[i] = all[i]
      BY <1>5, <2>1, <2>4, <2>6
    <2>8. new = prefix
      BY <1>6 DEF prefix
    <2> HIDE DEF new
    <2>9. QED
      BY <2>3, <2>4, <2>5, <2>7, <2>8 DEF Previews, new, seen, all
  <1>7. CASE ~ (Len(seen) > PreviewSize)
    <2>1. new = seen
      BY <1>7
    <2>2. Len(seen) = IF Len(all) < PreviewSize THEN Len(all) ELSE PreviewSize
      <3>1. Len(seen) \in Nat /\ Len(all) \in Nat /\ Len(seen) <= PreviewSize
        BY <1>2, <1>3, <1>4, <1>7
      <3>2. CASE Len(ms) < PreviewSize
        <4>1. Len(seen) = Len(all)
          BY <1>1, <1>3, <1>4, <3>2
        <4>2. QED
          BY <1>2, <3>1, <4>1
      <3>3. CASE ~ (Len(ms) < PreviewSize)
        <4>1. Len(pv) = PreviewSize
          BY <1>1, <3>3
        <4>2. Len(seen) = PreviewSize /\ Len(all) >= PreviewSize
          BY <1>2, <1>3, <1>4, <3>1, <3>3, <4>1
        <4>3. QED
          BY <1>2, <3>1, <4>2
      <3>4. QED
        BY <3>2, <3>3
    <2>3. \A i \in 1..Len(seen) : i <= PreviewSize
      BY <1>2, <1>3, <1>7
    <2>4. \A i \in 1..Len(seen) : seen[i] = all[i]
      BY <1>5, <2>3
    <2> HIDE DEF new
    <2>5. QED
      BY <1>3, <2>1, <2>2, <2>4 DEF Previews, new, seen, all
  <1>8. QED
    BY <1>6, <1>7

PairsOf(sk, h, lk, n) == {p \in (1..h) \X (1..n) : sk[p[1]] # << >> /\ sk[p[1]] = lk[p[2]]}

JoinedOnce(ms, P) == /\ {<<m.small, m.large>> : m \in ToSet(ms)} = P
                     /\ Len(ms) = Cardinality(P)
                     /\ \A k \in 2..Len(ms) : ms[k - 1].small <= ms[k].small

\* Each pair of rows that agree is in the join once.
LEMMA JoinCounts ==
  ASSUME NEW ms, NEW sk, NEW h \in Nat, NEW lk, NEW n \in Nat, IsJoin(ms, sk, h, lk, n)
  PROVE  JoinedOnce(ms, PairsOf(sk, h, lk, n))
  <1> DEFINE P == PairsOf(sk, h, lk, n)
             f == [k \in 1..Len(ms) |-> <<ms[k].small, ms[k].large>>]
  <1>1. ms \in Seq(Outs) /\ Agrees(ms, sk, h, lk, n) /\ Sorted(ms) /\ Complete(ms, sk, h, lk, n)
    BY DEF IsJoin
  <1>2. Len(ms) \in Nat /\ DOMAIN ms = 1..Len(ms)
    BY <1>1
  <1>3. ASSUME NEW k \in 1..Len(ms) PROVE /\ f[k] \in P /\ f[k] = <<ms[k].small, ms[k].large>>
                                          /\ ms[k].small \in Nat /\ ms[k].large \in Nat
    <2>1. /\ ms[k].small \in 1..h /\ ms[k].large \in 1..n
          /\ sk[ms[k].small] # << >> /\ sk[ms[k].small] = lk[ms[k].large]
      BY <1>1 DEF Agrees
    <2>2. <<ms[k].small, ms[k].large>> \in P
      BY <2>1 DEF PairsOf
    <2>3. QED
      BY <2>1, <2>2
  <1>4. ASSUME NEW p \in P PROVE \E k \in 1..Len(ms) : f[k] = p
    <2>1. /\ p[1] \in 1..h /\ p[2] \in 1..n /\ p = <<p[1], p[2]>>
          /\ sk[p[1]] # << >> /\ sk[p[1]] = lk[p[2]]
      BY DEF PairsOf
    <2>2. PICK k \in 1..Len(ms) : ms[k].small = p[1] /\ ms[k].large = p[2]
      BY <1>1, <2>1 DEF Complete
    <2>3. QED
      BY <2>1, <2>2
  <1>5. ASSUME NEW j \in 1..Len(ms), NEW k \in 1..Len(ms), f[j] = f[k] PROVE j = k
    <2>1. ms[j].small = ms[k].small /\ ms[j].large = ms[k].large
      BY <1>5
    <2>2. ms[j].small \in Nat /\ ms[j].large \in Nat
      BY <1>3
    <2>3. ~ (ms[j].small < ms[k].small) /\ ~ (ms[j].large < ms[k].large)
      BY <2>1, <2>2
    <2>4. ~ (ms[k].small < ms[j].small) /\ ~ (ms[k].large < ms[j].large)
      BY <2>1, <2>2
    <2>5. ~ (j < k) /\ ~ (k < j)
      BY <1>1, <2>3, <2>4 DEF Sorted
    <2>6. QED
      BY <1>2, <2>5
  <1>6. {<<m.small, m.large>> : m \in ToSet(ms)} = P
    <2> HIDE DEF P
    <2>1. ASSUME NEW m \in ToSet(ms) PROVE <<m.small, m.large>> \in P
      BY <1>2, <1>3 DEF ToSet
    <2>2. ASSUME NEW p \in P PROVE \E m \in ToSet(ms) : p = <<m.small, m.large>>
      <3>1. PICK k \in 1..Len(ms) : f[k] = p
        BY <1>4
      <3>2. ms[k] \in ToSet(ms) /\ p = <<ms[k].small, ms[k].large>>
        BY <1>2, <1>3, <3>1 DEF ToSet
      <3>3. QED
        BY <3>2
    <2>3. QED
      BY <2>1, <2>2
  <1>7. Len(ms) = Cardinality(P)
    <2> HIDE DEF P
    <2>1. f \in [1..Len(ms) -> P]
      BY <1>3
    <2> HIDE DEF f
    <2>2. f \in Injection(1..Len(ms), P)
      BY <1>5, <2>1 DEF Injection, IsInjective
    <2>3. f \in Surjection(1..Len(ms), P)
      BY <1>4, <2>1 DEF Surjection
    <2>4. ExistsBijection(1..Len(ms), P)
      BY <2>2, <2>3 DEF Bijection, ExistsBijection
    <2>5. IsFiniteSet(1..Len(ms)) /\ Cardinality(1..Len(ms)) = Len(ms)
      BY <1>2, FirstNaturals
    <2>6. QED
      BY <2>4, <2>5, FS_Bijection
  <1>8. ASSUME NEW k \in 2..Len(ms) PROVE ms[k - 1].small <= ms[k].small
    <2>1. k - 1 \in 1..Len(ms) /\ k \in 1..Len(ms) /\ k - 1 < k
      BY <1>2
    <2>2. ms[k - 1].small < ms[k].small \/ ms[k - 1].small = ms[k].small
      BY <1>1, <2>1 DEF Sorted
    <2>3. ms[k - 1].small \in Nat /\ ms[k].small \in Nat
      BY <1>3, <2>1
    <2>4. QED
      BY <2>2, <2>3
  <1>9. QED
    BY <1>6, <1>7, <1>8 DEF P, JoinedOnce

\* A row of the large sheet without a plate is not indexed.
LEMMA IndexSkips ==
  ASSUME NEW idx, NEW lk, NEW lk2, NEW n \in Nat, Indexed(idx, lk, n), Same(lk, lk2, n),
         lk2[n + 1] = << >>
  PROVE  Indexed(idx, lk2, n + 1)
  <1>1. /\ \A i \in 1..n : i \in 1..(n + 1)
        /\ \A i \in 1..(n + 1) : i \in 1..n \/ i = n + 1
    OBVIOUS
  <1>2. Keyed(idx, lk2, n + 1)
    <2>1. ASSUME NEW k \in 1..Len(idx)
          PROVE  idx[k].row \in 1..(n + 1) /\ idx[k].key = lk2[idx[k].row] /\ idx[k].key # << >>
      <3>1. idx[k].row \in 1..n /\ idx[k].key = lk[idx[k].row] /\ idx[k].key # << >>
        BY DEF Indexed, Keyed
      <3>2. lk2[idx[k].row] = lk[idx[k].row]
        BY <3>1 DEF Same
      <3>3. QED
        BY <1>1, <3>1, <3>2
    <2>2. QED
      BY <2>1 DEF Keyed
  <1>3. Full(idx, lk2, n + 1)
    <2>1. ASSUME NEW j \in 1..(n + 1), lk2[j] # << >> PROVE \E k \in 1..Len(idx) : idx[k].row = j
      <3>1. j \in 1..n /\ lk[j] # << >>
        BY <1>1, <2>1 DEF Same
      <3>2. QED
        BY <3>1 DEF Indexed, Full
    <2>2. QED
      BY <2>1 DEF Full
  <1>4. QED
    BY <1>2, <1>3 DEF Indexed

\* A row of the large sheet is indexed by its key.
LEMMA IndexGrows ==
  ASSUME NEW idx, NEW lk, NEW lk2, NEW n \in Nat, Indexed(idx, lk, n), Same(lk, lk2, n),
         NEW key \in Seq(Characters), lk2[n + 1] = key, key # << >>
  PROVE  Indexed(Append(idx, [key |-> key, row |-> n + 1]), lk2, n + 1)
  <1> DEFINE e == [key |-> key, row |-> n + 1]
             m == Len(idx) + 1
             new == Append(idx, e)
  <1>1. /\ \A i \in 1..n : i \in 1..(n + 1) /\ i < n + 1
        /\ \A i \in 1..(n + 1) : i \in 1..n \/ i = n + 1
        /\ n + 1 \in 1..(n + 1)
    OBVIOUS
  <1>2. idx \in Seq(Entries) /\ Keyed(idx, lk, n) /\ Rising(idx) /\ Full(idx, lk, n)
    BY DEF Indexed
  <1>3. e \in Entries /\ e.key = key /\ e.row = n + 1
    BY DEF Entries
  <1> HIDE DEF e
  <1>4. /\ new \in Seq(Entries) /\ Len(new) = m /\ Len(idx) \in Nat /\ new[m] = e /\ m \in 1..m
        /\ \A k \in 1..Len(idx) : new[k] = idx[k] /\ k \in 1..m /\ k < m
        /\ \A k \in 1..m : k \in 1..Len(idx) \/ k = m
    BY <1>2, <1>3
  <1> HIDE DEF new, m
  <1>5. ASSUME NEW k \in 1..Len(idx)
        PROVE  new[k].row \in 1..n /\ new[k].key = lk2[new[k].row] /\ new[k].key # << >>
    <2>1. idx[k].row \in 1..n /\ idx[k].key = lk[idx[k].row] /\ idx[k].key # << >>
      BY <1>2 DEF Keyed
    <2>2. lk2[idx[k].row] = lk[idx[k].row]
      BY <2>1 DEF Same
    <2>3. QED
      BY <1>4, <2>1, <2>2
  <1>6. new[m].row = n + 1 /\ new[m].key = key
    BY <1>3, <1>4
  <1>7. Keyed(new, lk2, n + 1)
    <2>1. ASSUME NEW k \in 1..m
          PROVE  new[k].row \in 1..(n + 1) /\ new[k].key = lk2[new[k].row] /\ new[k].key # << >>
      <3>1. CASE k \in 1..Len(idx)
        BY <1>1, <1>5, <3>1
      <3>2. CASE k = m
        BY <1>1, <1>6, <3>2
      <3>3. QED
        BY <1>4, <3>1, <3>2
    <2>2. QED
      BY <1>4, <2>1 DEF Keyed
  <1>8. Rising(new)
    <2>1. ASSUME NEW j \in 1..m, NEW k \in 1..m, j < k PROVE new[j].row < new[k].row
      <3>1. j \in 1..Len(idx)
        <4>1. CASE j = m
          <5>1. \A i \in 1..m : ~ (m < i)
            BY <1>4 DEF m
          <5>2. QED
            BY <2>1, <4>1, <5>1
        <4>2. QED
          BY <1>4, <4>1
      <3>2. CASE k \in 1..Len(idx)
        <4>1. idx[j].row < idx[k].row
          BY <1>2, <2>1, <3>1, <3>2 DEF Rising
        <4>2. QED
          BY <1>4, <3>1, <3>2, <4>1
      <3>3. CASE k = m
        BY <1>1, <1>5, <1>6, <3>1, <3>3
      <3>4. QED
        BY <1>4, <3>2, <3>3
    <2>2. QED
      BY <1>4, <2>1 DEF Rising
  <1>9. Full(new, lk2, n + 1)
    <2>1. ASSUME NEW j \in 1..(n + 1), lk2[j] # << >> PROVE \E k \in 1..m : new[k].row = j
      <3>1. CASE j \in 1..n
        <4>1. lk[j] # << >>
          BY <2>1, <3>1 DEF Same
        <4>2. PICK k \in 1..Len(idx) : idx[k].row = j
          BY <1>2, <3>1, <4>1 DEF Full
        <4>3. QED
          BY <1>4, <4>2
      <3>2. CASE j = n + 1
        BY <1>4, <1>6, <3>2
      <3>3. QED
        BY <1>1, <3>1, <3>2
    <2>2. QED
      BY <1>4, <2>1 DEF Full
  <1>10. QED
    BY <1>4, <1>7, <1>8, <1>9 DEF Indexed, new, e

-----------------------------------------------------------------------------
(* The inductive invariant of the comparison.                              *)

Keys(rows, c) == [i \in 1..Len(rows) |-> NormalizePlate(TextAt(rows[i], c))]

LargeKeys == Keys(large, column.large)
SmallKeys == Keys(small, column.small)

MatchTyped ==
  /\ large \in Seq(LargeRows) /\ small \in Seq(SmallRows) /\ sample \in Seq(SmallRows)
  /\ batch \in Seq(Entries) /\ plateIdx \in Seq(Entries)
  /\ handled \in Nat
  /\ column = [large |-> column.large, small |-> column.small]

MatchPhase ==
  /\ stage = "large" => large = << >> /\ plateIdx = << >> /\ batch = << >>
  /\ stage \in {"large", "index", "small"} =>
       /\ handled = 0 /\ small = << >> /\ sample = << >>
       /\ matches = << >> /\ preview = << >> /\ unmatched = 0
  /\ stage \in {"small", "match"} => batch = << >>
  /\ stage = "done" => ~indexFile
  /\ outcome \in {"workbook", "none"} =>
       stage = "done" /\ batch = << >> /\ sample = << >> /\ (outcome = "none" <=> matches = << >>)

IndexPart == Indexed(plateIdx \o batch, LargeKeys, Len(large))

SamplePart == /\ Len(small) = handled + Len(sample)
              /\ \A i \in 1..Len(sample) : sample[i] = small[handled + i]

JoinPart ==
  /\ IsJoin(matches, SmallKeys, handled, LargeKeys, Len(large))
  /\ unmatched = Cardinality(Lone(SmallKeys, handled, LargeKeys, Len(large)))
  /\ Previews(preview, matches)

MatchInv == MatchTyped /\ MatchPhase /\ IndexPart /\ SamplePart /\ JoinPart

LEMMA RowMeans ==
  ASSUME NEW cells \in LargeRows \cup SmallRows, NEW i
  PROVE  TextAt(cells, i) \in Seq(Characters) /\ Meaning(cells, i) = Means(TextAt(cells, i))
  <1>1. cells \in Seq(Cells) /\ \A k \in DOMAIN cells : Spelled(cells[k])
    BY CellsAssumption
  <1>2. CASE i \in DOMAIN cells
    <2>1. cells[i] \in Cells /\ Spelled(cells[i])
      BY <1>1, <1>2
    <2>2. cells[i].text \in Seq(Characters) /\ cells[i].means = Means(cells[i].text)
      BY <2>1, SpelledCell
    <2>3. QED
      BY <1>2, <2>2 DEF TextAt, Meaning
  <1>3. CASE i \notin DOMAIN cells
    <2>1. TextAt(cells, i) = << >> /\ Meaning(cells, i) = << >>
      BY <1>3 DEF TextAt, Meaning
    <2>2. << >> \in Seq(Characters)
      OBVIOUS
    <2>3. QED
      BY <2>1, <2>2, NoMeaning
  <1>4. QED
    BY <1>2, <1>3

LEMMA KeyTyped ==
  ASSUME NEW cells \in LargeRows \cup SmallRows, NEW i
  PROVE  LET key == NormalizePlate(TextAt(cells, i)) IN
         /\ key \in Seq(Characters)
         /\ \/ NormalizePlate(key) = key
            \/ PlateFrom(key) # << >> /\ ToSet(Letters(key)) \subseteq Foreign
         /\ FormatDisplay(key) \in Seq(Characters) /\ NormalizePlate(FormatDisplay(key)) = key
         /\ key # << >> => ShownAs(Meaning(cells, i), FormatDisplay(key))
  <1> DEFINE text == TextAt(cells, i)
             key  == NormalizePlate(text)
             shown == FormatDisplay(key)
             l == Letters(text)
             d == Digits(text)
  <1>1. text \in Seq(Characters) /\ Meaning(cells, i) = Means(text)
    BY RowMeans
  <1> HIDE DEF text
  <1>2. /\ key \in Seq(Characters) /\ NormalizePlate(NormalizePlate(key)) = key
        /\ PlateFrom(text) = << >> => PlateFrom(key) = << >> /\ NormalizePlate(key) = key
        /\ PlateFrom(text) # << >> => /\ PlateFrom(key) # << >> /\ Letters(key) = Turned(l)
                                     /\ Digits(key) = d
    BY <1>1, KeyMeans
  <1>3. \/ NormalizePlate(key) = key
        \/ PlateFrom(key) # << >> /\ ToSet(Letters(key)) \subseteq Foreign
    BY <1>1, <1>2, KeyAgain
  <1>4. /\ shown \in Seq(Characters) /\ NormalizePlate(shown) = NormalizePlate(NormalizePlate(key))
        /\ PlateFrom(key) # << >> => shown = Letters(key) \o <<"space">> \o Digits(key)
        /\ PlateFrom(key) = << >> => Drop(shown, Spaces) = NormalizePlate(key)
    <2> HIDE DEF key
    <2>1. QED
      BY <1>2, ShownMeans
  <1>5. CASE PlateFrom(text) # << >>
    <2>1. Means(text) = <<l, d>>
      BY <1>5 DEF Means
    <2> HIDE DEF l, d, key, shown
    <2>2. Len(<<l, d>>) = 2 /\ <<l, d>>[1] = l /\ <<l, d>>[2] = d
      OBVIOUS
    <2>3. shown = Turned(l) \o <<"space">> \o d
      BY <1>2, <1>4, <1>5
    <2>4. ShownAs(Means(text), shown)
      BY <2>1, <2>2, <2>3 DEF ShownAs
    <2>5. QED
      BY <1>1, <1>2, <1>3, <1>4, <2>4 DEF key, shown, text
  <1>6. CASE PlateFrom(text) = << >>
    <2>1. key = Legacy(text)
      BY <1>6 DEF NormalizePlate
    <2>2. key # << >> => Means(text) = <<key>>
      BY <1>6, <2>1 DEF Means
    <2>3. Drop(shown, Spaces) = key
      BY <1>2, <1>4, <1>6
    <2> HIDE DEF key, shown
    <2>4. Len(<<key>>) = 1 /\ <<key>>[1] = key
      OBVIOUS
    <2>5. key # << >> => ShownAs(Means(text), shown)
      BY <2>2, <2>3, <2>4 DEF ShownAs
    <2>6. QED
      BY <1>1, <1>2, <1>3, <1>4, <2>5 DEF key, shown, text
  <1>7. QED
    BY <1>5, <1>6

LEMMA AppendLast ==
  ASSUME NEW K, NEW s \in Seq(K), NEW t \in Seq(K), NEW e \in K
  PROVE  s \o Append(t, e) = Append(s \o t, e)
  <1> DEFINE a == s \o Append(t, e)
             b == Append(s \o t, e)
             m == Len(s) + Len(t) + 1
  <1>1. Len(s) \in Nat /\ Len(t) \in Nat /\ Append(t, e) \in Seq(K) /\ s \o t \in Seq(K)
    OBVIOUS
  <1>2. a \in Seq(K) /\ Len(a) = m /\ b \in Seq(K) /\ Len(b) = m
    BY <1>1
  <1>3. \A i \in 1..m : a[i] = b[i]
    BY <1>1
  <1> HIDE DEF a, b, m
  <1>4. a = b
    BY <1>2, <1>3, SameElements
  <1>5. QED
    BY <1>4 DEF a, b

LEMMA KeysIs ==
  ASSUME NEW R, NEW rows \in Seq(R), NEW c
  PROVE  /\ Len(rows) \in Nat
         /\ \A i \in 1..Len(rows) : /\ rows[i] \in R
                                    /\ Keys(rows, c)[i] = NormalizePlate(TextAt(rows[i], c))
  BY DEF Keys

LEMMA KeysSame ==
  ASSUME NEW R, NEW rows \in Seq(R), NEW more \in Seq(R), NEW c, NEW h \in Nat,
         h <= Len(rows), h <= Len(more), \A i \in 1..h : more[i] = rows[i]
  PROVE  Same(Keys(rows, c), Keys(more, c), h)
  <1>1. \A i \in 1..h : i \in 1..Len(rows) /\ i \in 1..Len(more)
    OBVIOUS
  <1>2. QED
    BY <1>1 DEF Same, Keys

LEMMA NothingJoined ==
  ASSUME NEW sk, NEW lk, NEW n \in Nat
  PROVE  IsJoin(<< >>, sk, 0, lk, n) /\ 0 = Cardinality(Lone(sk, 0, lk, n)) /\ Previews(<< >>, << >>)
  <1>1. << >> \in Seq(Outs) /\ Len(<< >>) = 0 /\ 1..0 = {}
    OBVIOUS
  <1>2. IsJoin(<< >>, sk, 0, lk, n)
    BY <1>1 DEF IsJoin, Agrees, Sorted, Complete
  <1>3. Lone(sk, 0, lk, n) = {}
    BY <1>1 DEF Lone
  <1>4. Previews(<< >>, << >>)
    <2>1. 0 = IF 0 < PreviewSize THEN 0 ELSE PreviewSize
      BY MatchAssumption
    <2>2. QED
      BY <1>1, <2>1 DEF Previews
  <1>5. QED
    BY <1>2, <1>3, <1>4, FS_EmptySet

LEMMA NothingIndexed == ASSUME NEW lk PROVE Indexed(<< >> \o << >>, lk, 0)
  <1>1. << >> \o << >> = << >> /\ << >> \in Seq(Entries) /\ Len(<< >>) = 0 /\ 1..0 = {}
    OBVIOUS
  <1>2. Indexed(<< >>, lk, 0)
    BY <1>1 DEF Indexed, Keyed, Rising, Full
  <1>3. QED
    BY <1>1, <1>2

\* Nothing is joined before the first row is handled.
LEMMA NothingYet ==
  ASSUME large' \in Seq(LargeRows), handled' = 0, matches' = << >>, preview' = << >>, unmatched' = 0
  PROVE  JoinPart'
  <1>1. Len(large') \in Nat
    OBVIOUS
  <1>2. /\ IsJoin(<< >>, SmallKeys', 0, LargeKeys', Len(large'))
        /\ 0 = Cardinality(Lone(SmallKeys', 0, LargeKeys', Len(large'))) /\ Previews(<< >>, << >>)
    BY <1>1, NothingJoined
  <1>3. QED
    BY <1>2 DEF JoinPart

LEMMA EmptySample == sample = << >> /\ small = << >> /\ handled = 0 => SamplePart
  <1>1. ASSUME sample = << >>, small = << >>, handled = 0 PROVE SamplePart
    <2>1. Len(sample) = 0 /\ Len(small) = 0
      BY <1>1, EmptyLength
    <2>2. 0 = 0 + 0 /\ \A i \in 1..0 : FALSE
      OBVIOUS
    <2>3. QED
      BY <1>1, <2>1, <2>2 DEF SamplePart
  <1>2. QED
    BY <1>1

LEMMA InitMatchInv == MatchInit => MatchInv
  <1> SUFFICES ASSUME MatchInit PROVE MatchInv
    OBVIOUS
  <1>0. \A S : << >> \in Seq(S)
    OBVIOUS
  <1> USE DEF MatchInit
  <1>1. MatchTyped
    <2>1. << >> \in Seq(LargeRows) /\ << >> \in Seq(SmallRows) /\ << >> \in Seq(Entries)
      BY <1>0
    <2>2. column = [large |-> column.large, small |-> column.small]
      OBVIOUS
    <2>3. QED
      BY <2>1, <2>2 DEF MatchTyped
  <1>2. MatchPhase
    BY DEF MatchPhase
  <1>3. Len(<< >>) = 0 /\ 0 \in Nat
    OBVIOUS
  <1>4. IndexPart
    BY <1>3, NothingIndexed DEF IndexPart
  <1>5. SamplePart
    <2>1. sample = << >> /\ small = << >> /\ handled = 0
      OBVIOUS
    <2> HIDE DEF MatchInit
    <2>2. QED
      BY <2>1, EmptySample
  <1>6. JoinPart
    <2>1. /\ IsJoin(<< >>, SmallKeys, 0, LargeKeys, 0)
          /\ 0 = Cardinality(Lone(SmallKeys, 0, LargeKeys, 0)) /\ Previews(<< >>, << >>)
      BY <1>3, NothingJoined
    <2>2. QED
      BY <1>3, <2>1 DEF JoinPart
  <1>7. QED
    BY <1>1, <1>2, <1>4, <1>5, <1>6 DEF MatchInv

\* The comparison of one row.
LEMMA CompareJoins ==
  ASSUME MatchInv, stage = "match", NEW cells \in SmallRows, Compare(cells),
         small' \in Seq(SmallRows), handled + 1 <= Len(small'), small'[handled + 1] = cells,
         \A i \in 1..handled : small'[i] = small[i],
         UNCHANGED <<large, column, plateIdx, batch>>
  PROVE  JoinPart' /\ handled' = handled + 1
  <1> DEFINE key   == NormalizePlate(TextAt(cells, column.small))
             found == Found(plateIdx, key)
             out   == RowsOut(found, handled, key)
             seen  == preview \o out
             sk    == SmallKeys
             sk2   == SmallKeys'
             lk    == LargeKeys
             n     == Len(large)
  <1>1. /\ handled' = handled + 1
        /\ key = << >> => UNCHANGED <<matches, preview, unmatched>>
        /\ key # << >> => /\ matches' = matches \o out
                          /\ preview' = IF Len(seen) > PreviewSize THEN SubSeq(seen, 1, PreviewSize)
                                        ELSE seen
                          /\ unmatched' = IF found = << >> THEN unmatched + 1 ELSE unmatched
    BY DEF Compare, Found, RowsOut
  <1>2. /\ IsJoin(matches, sk, handled, lk, n) /\ unmatched = Cardinality(Lone(sk, handled, lk, n))
        /\ Previews(preview, matches)
    BY DEF MatchInv, JoinPart
  <1>3. /\ handled \in Nat /\ large \in Seq(LargeRows) /\ small \in Seq(SmallRows)
        /\ plateIdx \in Seq(Entries) /\ sample \in Seq(SmallRows)
    BY DEF MatchInv, MatchTyped
  <1>4. n \in Nat
    BY <1>3
  <1>5. Indexed(plateIdx, lk, n)
    <2>1. batch = << >>
      BY DEF MatchInv, MatchPhase
    <2>2. plateIdx \o << >> = plateIdx
      BY <1>3
    <2>3. QED
      BY <2>1, <2>2 DEF MatchInv, IndexPart
  <1>6. handled <= Len(small) /\ handled <= Len(small')
    <2>1. Len(small) = handled + Len(sample)
      BY DEF MatchInv, SamplePart
    <2>2. Len(sample) \in Nat /\ Len(small') \in Nat
      BY <1>3
    <2>3. QED
      BY <1>3, <2>1, <2>2
  <1>7. Same(sk, sk2, handled)
    <2>1. Same(Keys(small, column.small), Keys(small', column.small), handled)
      BY <1>3, <1>6, KeysSame
    <2>2. QED
      BY <2>1 DEF SmallKeys
  <1>8. sk2[handled + 1] = key
    <2>1. handled + 1 \in 1..Len(small')
      BY <1>3
    <2>2. Keys(small', column.small)[handled + 1] = NormalizePlate(TextAt(small'[handled + 1], column.small))
      BY <2>1, KeysIs
    <2>3. QED
      BY <2>2 DEF SmallKeys
  <1>9. lk = LargeKeys' /\ n = Len(large')
    BY DEF LargeKeys
  <1>10. key \in Seq(Characters) /\ FormatDisplay(key) \in Seq(Characters)
    BY KeyTyped
  <1>11. /\ Cardinality(Lone(sk, handled, lk, n)) \in Nat
         /\ Cardinality(Lone(sk2, handled + 1, lk, n)) =
              IF sk2[handled + 1] # << >> /\ \A j \in 1..n : lk[j] # sk2[handled + 1]
              THEN Cardinality(Lone(sk, handled, lk, n)) + 1 ELSE Cardinality(Lone(sk, handled, lk, n))
    <2> HIDE DEF sk, sk2, lk, n
    <2>1. QED
      BY <1>3, <1>4, <1>7, LoneCounts
  <1> HIDE DEF key, sk, sk2, lk, n
  <1>12. CASE key = << >>
    <2>1. IsJoin(matches, sk2, handled + 1, lk, n)
      BY <1>2, <1>3, <1>4, <1>7, <1>8, <1>12, JoinSkips
    <2>2. Cardinality(Lone(sk2, handled + 1, lk, n)) = unmatched
      BY <1>2, <1>8, <1>11, <1>12
    <2>3. QED
      BY <1>1, <1>2, <1>9, <1>12, <2>1, <2>2 DEF JoinPart, sk2
  <1>13. CASE key # << >>
    <2>1. /\ out \in Seq(Outs) /\ IsJoin(matches \o out, sk2, handled + 1, lk, n)
          /\ found = << >> <=> \A j \in 1..n : lk[j] # key
      <3> HIDE DEF out, found
      <3>1. /\ handled \in Nat /\ n \in Nat /\ key \in Seq(Characters)
            /\ IsJoin(matches, sk, handled, lk, n) /\ Indexed(plateIdx, lk, n)
            /\ Same(sk, sk2, handled) /\ sk2[handled + 1] = key /\ key # << >>
            /\ FormatDisplay(key) \in Seq(Characters)
        BY <1>2, <1>3, <1>4, <1>5, <1>7, <1>8, <1>10, <1>13
      <3>2. Grown(matches, sk2, handled, lk, n, plateIdx, key)
        BY <3>1, JoinGrows
      <3>3. QED
        BY <3>2 DEF out, found, Grown
    <2> HIDE DEF out, found
    <2>2. Cardinality(Lone(sk2, handled + 1, lk, n)) = IF found = << >> THEN unmatched + 1 ELSE unmatched
      BY <1>2, <1>8, <1>11, <1>13, <2>1
    <2>3. Previews(preview', matches \o out)
      <3>1. matches \in Seq(Outs)
        BY <1>2 DEF IsJoin
      <3>2. Previews(IF Len(seen) > PreviewSize THEN SubSeq(seen, 1, PreviewSize) ELSE seen, matches \o out)
        BY <1>2, <2>1, <3>1, PreviewGrows
      <3>3. QED
        BY <1>1, <1>13, <3>2
    <2>4. QED
      BY <1>1, <1>9, <1>13, <2>1, <2>2, <2>3 DEF JoinPart, sk2
  <1>14. QED
    BY <1>1, <1>12, <1>13

LEMMA QuietJoin ==
  ASSUME SamplePart, JoinPart,
         UNCHANGED <<large, small, column, sample, handled, matches, preview, unmatched>>
  PROVE  SamplePart' /\ JoinPart'
  BY DEF SamplePart, JoinPart, SmallKeys, LargeKeys

LEMMA QuietIndex ==
  ASSUME IndexPart, UNCHANGED <<large, column, plateIdx, batch>>
  PROVE  IndexPart'
  BY DEF IndexPart, LargeKeys

LEMMA ReadLargeHeaderInv == MatchInv /\ ReadLargeHeader => MatchInv'
  <1> SUFFICES ASSUME MatchInv, ReadLargeHeader PROVE MatchInv'
    OBVIOUS
  <1>1. /\ stage = "large"
        /\ UNCHANGED <<large, small, batch, plateIdx, sample, ended, handled, matches, preview, unmatched>>
    BY DEF ReadLargeHeader
  <1>2. /\ large = << >> /\ plateIdx = << >> /\ batch = << >> /\ handled = 0
        /\ small = << >> /\ sample = << >> /\ matches = << >> /\ preview = << >> /\ unmatched = 0
    BY <1>1 DEF MatchInv, MatchPhase
  <1>3. \/ /\ stage' = "index" /\ outcome' = outcome
           /\ \E found : column' = [column EXCEPT !.large = found]
        \/ /\ stage' = "done" /\ outcome' \in {"error", "noColumn"} /\ indexFile' = FALSE
           /\ column' = column
    BY DEF ReadLargeHeader, Leave
  <1>4. column' = [large |-> column'.large, small |-> column'.small]
    <2>1. column = [large |-> column.large, small |-> column.small]
      BY DEF MatchInv, MatchTyped
    <2>2. QED
      BY <1>3, <2>1
  <1>5. MatchTyped'
    BY <1>1, <1>4 DEF MatchInv, MatchTyped
  <1>6. MatchPhase'
    <2>1. outcome \notin {"workbook", "none"}
      BY <1>1 DEF MatchInv, MatchPhase
    <2>2. outcome' \notin {"workbook", "none"}
      BY <1>3, <2>1
    <2>3. stage' \in {"index", "done"} /\ (stage' = "done" => ~indexFile')
      BY <1>3
    <2>4. QED
      BY <1>1, <1>2, <2>2, <2>3 DEF MatchPhase
  <1>7. IndexPart'
    <2>1. Len(large') = 0
      BY <1>1, <1>2, EmptyLength
    <2>2. Indexed(<< >> \o << >>, LargeKeys', 0)
      BY NothingIndexed
    <2>3. QED
      BY <1>1, <1>2, <2>1, <2>2 DEF IndexPart
  <1>8. SamplePart'
    BY <1>1 DEF MatchInv, SamplePart
  <1>9. JoinPart'
    BY <1>1, <1>2, <1>5, NothingYet DEF MatchTyped
  <1>10. QED
    BY <1>5, <1>6, <1>7, <1>8, <1>9 DEF MatchInv

LEMMA IndexRowInv == MatchInv /\ IndexRow => MatchInv'
  <1> SUFFICES ASSUME MatchInv, IndexRow PROVE MatchInv'
    OBVIOUS
  <1>1. /\ stage = "index"
        /\ UNCHANGED <<stage, outcome, small, column, indexFile, sample, ended, handled, matches,
                       preview, unmatched>>
    BY DEF IndexRow
  <1> DEFINE n == Len(large)
             KeyOf(cells) == NormalizePlate(TextAt(cells, column.large))
             entry(cells) == [key |-> KeyOf(cells), row |-> n + 1]
  <1>2. PICK cells \in LargeRows :
          /\ large' = Append(large, cells)
          /\ IF KeyOf(cells) = << >> THEN UNCHANGED <<batch, plateIdx>>
             ELSE IF Len(Append(batch, entry(cells))) < BatchSize
             THEN batch' = Append(batch, entry(cells)) /\ UNCHANGED plateIdx
             ELSE batch' = << >> /\ plateIdx' = plateIdx \o Append(batch, entry(cells))
    BY DEF IndexRow
  <1> DEFINE key == KeyOf(cells)
             e == entry(cells)
  <1>3. /\ large \in Seq(LargeRows) /\ batch \in Seq(Entries) /\ plateIdx \in Seq(Entries)
        /\ n \in Nat
    BY DEF MatchInv, MatchTyped
  <1>4. /\ large' \in Seq(LargeRows) /\ Len(large') = n + 1 /\ large'[n + 1] = cells
        /\ \A i \in 1..n : large'[i] = large[i]
    BY <1>2, <1>3
  <1>5. key \in Seq(Characters)
    BY KeyTyped
  <1>6. e \in Entries
    <2>1. n + 1 \in Nat
      BY <1>3
    <2>2. e = [key |-> key, row |-> n + 1]
      OBVIOUS
    <2> HIDE DEF key, n, e
    <2>3. QED
      BY <1>5, <2>1, <2>2 DEF Entries
  <1>7. Same(LargeKeys, LargeKeys', n)
    <2>1. n <= Len(large) /\ n <= Len(large')
      BY <1>3, <1>4
    <2> HIDE DEF n
    <2>2. Same(Keys(large, column.large), Keys(large', column.large), n)
      BY <1>3, <1>4, <2>1, KeysSame
    <2>3. QED
      BY <1>1, <2>2 DEF LargeKeys
  <1>8. LargeKeys'[n + 1] = key
    <2>1. n + 1 \in 1..Len(large')
      BY <1>3, <1>4
    <2>2. Keys(large', column.large)[n + 1] = NormalizePlate(TextAt(large'[n + 1], column.large))
      BY <1>4, <2>1, KeysIs
    <2>3. QED
      BY <1>1, <1>4, <2>2 DEF LargeKeys
  <1>9. Indexed(plateIdx \o batch, LargeKeys, n)
    BY DEF MatchInv, IndexPart
  <1>10. /\ batch' \in Seq(Entries) /\ plateIdx' \in Seq(Entries)
         /\ plateIdx' \o batch' = IF key = << >> THEN plateIdx \o batch
                                  ELSE Append(plateIdx \o batch, e)
    <2> HIDE DEF e, key
    <2>1. CASE key = << >>
      <3>1. batch' = batch /\ plateIdx' = plateIdx
        BY <1>2, <2>1 DEF key
      <3>2. QED
        BY <1>3, <2>1, <3>1
    <2>2. CASE key # << >>
      <3>1. Append(batch, e) \in Seq(Entries) /\ plateIdx \o Append(batch, e) \in Seq(Entries)
        BY <1>3, <1>6
      <3>2. plateIdx \o Append(batch, e) = Append(plateIdx \o batch, e)
        BY <1>3, <1>6, AppendLast
      <3>3. CASE Len(Append(batch, e)) < BatchSize
        <4>1. batch' = Append(batch, e) /\ plateIdx' = plateIdx
          BY <1>2, <2>2, <3>3 DEF key, e
        <4>2. QED
          BY <1>3, <2>2, <3>1, <3>2, <4>1
      <3>4. CASE ~ (Len(Append(batch, e)) < BatchSize)
        <4>1. batch' = << >> /\ plateIdx' = plateIdx \o Append(batch, e)
          BY <1>2, <2>2, <3>4 DEF key, e
        <4>2. << >> \in Seq(Entries) /\ \A s \in Seq(Entries) : s \o << >> = s
          OBVIOUS
        <4>3. QED
          BY <2>2, <3>1, <3>2, <4>1, <4>2
      <3>5. QED
        BY <3>3, <3>4
    <2>3. QED
      BY <2>1, <2>2
  <1>11. Indexed(plateIdx' \o batch', LargeKeys', n + 1)
    <2> HIDE DEF key, n
    <2>1. CASE key = << >>
      <3>1. Indexed(plateIdx \o batch, LargeKeys', n + 1)
        BY <1>3, <1>7, <1>8, <1>9, <2>1, IndexSkips
      <3>2. QED
        BY <1>10, <2>1, <3>1
    <2>2. CASE key # << >>
      <3>1. Indexed(Append(plateIdx \o batch, [key |-> key, row |-> n + 1]), LargeKeys', n + 1)
        BY <1>3, <1>5, <1>7, <1>8, <1>9, <2>2, IndexGrows
      <3>2. e = [key |-> key, row |-> n + 1]
        BY DEF key
      <3> HIDE DEF e
      <3>3. QED
        BY <1>10, <2>2, <3>1, <3>2
    <2>3. QED
      BY <2>1, <2>2
  <1>12. IndexPart'
    BY <1>4, <1>11 DEF IndexPart
  <1>13. MatchTyped'
    BY <1>1, <1>4, <1>10 DEF MatchInv, MatchTyped
  <1>14. MatchPhase'
    BY <1>1 DEF MatchInv, MatchPhase
  <1>15. SamplePart'
    BY <1>1 DEF MatchInv, SamplePart
  <1>16. JoinPart'
    <2>1. /\ handled' = 0 /\ matches' = << >> /\ preview' = << >> /\ unmatched' = 0
      BY <1>1 DEF MatchInv, MatchPhase
    <2>2. QED
      BY <1>4, <2>1, NothingYet
  <1>17. QED
    BY <1>12, <1>13, <1>14, <1>15, <1>16 DEF MatchInv

LEMMA EndLargeInv == MatchInv /\ EndLarge => MatchInv'
  <1> SUFFICES ASSUME MatchInv, EndLarge PROVE MatchInv'
    OBVIOUS
  <1>1. /\ stage = "index" /\ stage' = "small" /\ plateIdx' = plateIdx \o batch /\ batch' = << >>
        /\ UNCHANGED <<outcome, large, small, column, indexFile, sample, ended, handled, matches,
                       preview, unmatched>>
    BY DEF EndLarge
  <1>2. plateIdx' \in Seq(Entries) /\ batch' \in Seq(Entries) /\ plateIdx' \o batch' = plateIdx \o batch
    <2>1. plateIdx \in Seq(Entries) /\ batch \in Seq(Entries)
      BY DEF MatchInv, MatchTyped
    <2>2. plateIdx \o batch \in Seq(Entries) /\ << >> \in Seq(Entries)
      BY <2>1
    <2>3. \A s \in Seq(Entries) : s \o << >> = s
      OBVIOUS
    <2>4. QED
      BY <1>1, <2>2, <2>3
  <1>3. MatchTyped'
    BY <1>1, <1>2 DEF MatchInv, MatchTyped
  <1>4. MatchPhase'
    BY <1>1 DEF MatchInv, MatchPhase
  <1>5. IndexPart'
    BY <1>1, <1>2 DEF MatchInv, IndexPart, LargeKeys
  <1>6. SamplePart' /\ JoinPart'
    BY <1>1, QuietJoin DEF MatchInv
  <1>7. QED
    BY <1>3, <1>4, <1>5, <1>6 DEF MatchInv

LEMMA ReadSmallHeaderInv == MatchInv /\ ReadSmallHeader => MatchInv'
  <1> SUFFICES ASSUME MatchInv, ReadSmallHeader PROVE MatchInv'
    OBVIOUS
  <1>1. /\ stage = "small"
        /\ UNCHANGED <<large, batch, plateIdx, handled, matches, preview, unmatched>>
    BY DEF ReadSmallHeader
  <1>2. /\ batch = << >> /\ handled = 0 /\ small = << >> /\ sample = << >>
        /\ matches = << >> /\ preview = << >> /\ unmatched = 0
        /\ outcome \notin {"workbook", "none"}
    BY <1>1 DEF MatchInv, MatchPhase
  <1>3. PICK rows \in Seq(SmallRows) :
          \/ /\ \E found : column' = [column EXCEPT !.small = found]
             /\ small' = rows /\ sample' = rows /\ stage' = "match" /\ outcome' = outcome
          \/ /\ stage' = "done" /\ outcome' \in {"error", "noColumn"} /\ indexFile' = FALSE
             /\ UNCHANGED <<column, small, sample>>
    <2>1. ASSUME NEW n \in 0..SampleSize, NEW rows \in [1..n -> SmallRows]
          PROVE  rows \in Seq(SmallRows)
      BY <2>1, MatchAssumption
    <2>2. PICK header \in Headers, asked \in AskedColumns, n \in 0..SampleSize :
            \E rows \in [1..n -> SmallRows] :
              LET found == Column(header, asked, Detect(header, rows)) IN
              IF found > 0
              THEN /\ column' = [column EXCEPT !.small = found]
                   /\ small' = rows /\ sample' = rows
                   /\ stage' = "match" /\ outcome' = outcome
              ELSE /\ stage' = "done" /\ indexFile' = FALSE
                   /\ outcome' = (IF header = << >> THEN "error" ELSE "noColumn")
                   /\ UNCHANGED <<column, small, sample>>
      BY DEF ReadSmallHeader, Leave
    <2>3. PICK rows \in [1..n -> SmallRows] :
              LET found == Column(header, asked, Detect(header, rows)) IN
              IF found > 0
              THEN /\ column' = [column EXCEPT !.small = found]
                   /\ small' = rows /\ sample' = rows
                   /\ stage' = "match" /\ outcome' = outcome
              ELSE /\ stage' = "done" /\ indexFile' = FALSE
                   /\ outcome' = (IF header = << >> THEN "error" ELSE "noColumn")
                   /\ UNCHANGED <<column, small, sample>>
      BY <2>2
    <2>4. rows \in Seq(SmallRows)
      BY <2>1
    <2>5. QED
      BY <2>3, <2>4
  <1>5. small' \in Seq(SmallRows) /\ sample' = small'
    BY <1>2, <1>3 DEF MatchInv, MatchTyped
  <1>6. /\ column' = [large |-> column'.large, small |-> column'.small]
        /\ column'.large = column.large
    <2>1. column = [large |-> column.large, small |-> column.small]
      BY DEF MatchInv, MatchTyped
    <2>2. QED
      BY <1>3, <2>1
  <1>7. MatchTyped'
    BY <1>1, <1>5, <1>6 DEF MatchInv, MatchTyped
  <1>8. MatchPhase'
    <2>1. outcome' \notin {"workbook", "none"} /\ stage' \in {"match", "done"}
          /\ (stage' = "done" => ~indexFile')
      BY <1>2, <1>3
    <2>2. QED
      BY <1>1, <1>2, <2>1 DEF MatchPhase
  <1>9. IndexPart'
    BY <1>1, <1>6 DEF MatchInv, IndexPart, LargeKeys
  <1>10. SamplePart'
    <2>1. Len(small') \in Nat /\ handled' = 0
      BY <1>1, <1>2, <1>5
    <2>2. Len(small') = 0 + Len(sample') /\ \A i \in 1..Len(sample') : 0 + i = i
      BY <1>5, <2>1
    <2>3. QED
      BY <1>5, <2>1, <2>2 DEF SamplePart
  <1>11. JoinPart'
    BY <1>1, <1>2, <1>7, NothingYet DEF MatchTyped
  <1>12. QED
    BY <1>7, <1>8, <1>9, <1>10, <1>11 DEF MatchInv

LEMMA CompareRowInv == MatchInv /\ CompareRow => MatchInv'
  <1> SUFFICES ASSUME MatchInv, CompareRow PROVE MatchInv'
    OBVIOUS
  <1>1. /\ stage = "match"
        /\ UNCHANGED <<stage, outcome, large, column, batch, plateIdx, indexFile, ended>>
    BY DEF CompareRow
  <1>2. /\ small \in Seq(SmallRows) /\ sample \in Seq(SmallRows) /\ handled \in Nat
        /\ Len(small) = handled + Len(sample) /\ Len(sample) \in Nat /\ Len(small) \in Nat
        /\ \A i \in 1..Len(sample) : sample[i] = small[handled + i]
    BY DEF MatchInv, MatchTyped, SamplePart
  <1>3. PICK cells \in SmallRows :
          /\ Compare(cells) /\ small' \in Seq(SmallRows) /\ handled + 1 <= Len(small')
          /\ small'[handled + 1] = cells /\ \A i \in 1..handled : small'[i] = small[i]
          /\ sample' \in Seq(SmallRows) /\ Len(small') = (handled + 1) + Len(sample')
          /\ \A i \in 1..Len(sample') : sample'[i] = small'[(handled + 1) + i]
    <2>1. CASE sample # << >> /\ Compare(Head(sample)) /\ sample' = Tail(sample) /\ small' = small
      <3>1. /\ Head(sample) = sample[1] /\ Head(sample) \in SmallRows /\ Len(sample) >= 1
            /\ Tail(sample) \in Seq(SmallRows) /\ Len(Tail(sample)) = Len(sample) - 1
            /\ \A i \in 1..Len(Tail(sample)) : Tail(sample)[i] = sample[i + 1]
        BY <1>2, <2>1
      <3>2. 1 \in 1..Len(sample) /\ small[handled + 1] = Head(sample)
        BY <1>2, <3>1
      <3>3. ASSUME NEW i \in 1..Len(sample') PROVE sample'[i] = small'[(handled + 1) + i]
        <4>1. i + 1 \in 1..Len(sample) /\ handled + (i + 1) = (handled + 1) + i
          BY <1>2, <2>1, <3>1
        <4>2. sample'[i] = sample[i + 1]
          BY <2>1, <3>1
        <4>3. sample[i + 1] = small[handled + (i + 1)]
          BY <1>2, <4>1
        <4>4. QED
          BY <2>1, <4>1, <4>2, <4>3
      <3>4. Len(small') = (handled + 1) + Len(sample') /\ handled + 1 <= Len(small')
        BY <1>2, <2>1, <3>1, SMTT(30)
      <3>5. QED
        BY <1>2, <2>1, <3>1, <3>2, <3>3, <3>4
    <2>2. CASE /\ sample = << >> /\ sample' = sample
               /\ \E cells \in SmallRows : Compare(cells) /\ small' = Append(small, cells)
      <3>1. PICK cells \in SmallRows : Compare(cells) /\ small' = Append(small, cells)
        BY <2>2
      <3>2. Len(sample) = 0 /\ Len(small) = handled
        BY <1>2, <2>2, EmptyLength
      <3>3. /\ small' \in Seq(SmallRows) /\ Len(small') = handled + 1 /\ small'[handled + 1] = cells
            /\ \A i \in 1..handled : small'[i] = small[i]
        BY <1>2, <3>1, <3>2
      <3>4. /\ Len(sample') = 0 /\ sample' \in Seq(SmallRows) /\ Len(small') = (handled + 1) + 0
            /\ handled + 1 <= Len(small') /\ \A i \in 1..0 : FALSE
        BY <1>2, <2>2, <3>2, <3>3
      <3>5. \A i \in 1..Len(sample') : sample'[i] = small'[(handled + 1) + i]
        BY <3>4
      <3>6. QED
        BY <3>1, <3>3, <3>4, <3>5
    <2>3. QED
      BY <2>1, <2>2 DEF CompareRow
  <1>4. JoinPart' /\ handled' = handled + 1
    BY <1>1, <1>3, CompareJoins
  <1>5. MatchTyped'
    BY <1>1, <1>2, <1>3, <1>4 DEF MatchInv, MatchTyped
  <1>6. MatchPhase'
    <2>1. batch = << >> /\ outcome \notin {"workbook", "none"}
      BY <1>1 DEF MatchInv, MatchPhase
    <2>2. QED
      BY <1>1, <2>1 DEF MatchPhase
  <1>7. IndexPart'
    BY <1>1, QuietIndex DEF MatchInv
  <1>8. SamplePart'
    BY <1>3, <1>4 DEF SamplePart
  <1>9. QED
    BY <1>4, <1>5, <1>6, <1>7, <1>8 DEF MatchInv

LEMMA LeavesInv ==
  ASSUME MatchInv, EndSmall \/ Raise
  PROVE  MatchInv'
  <1>1. /\ UNCHANGED <<large, small, column, batch, plateIdx, sample, ended, handled, matches,
                       preview, unmatched>>
        /\ stage' = "done" /\ ~indexFile'
        /\ \/ /\ stage = "match" /\ sample = << >>
              /\ outcome' = IF matches = << >> THEN "none" ELSE "workbook"
           \/ outcome' = "error"
    BY DEF EndSmall, Raise, Leave
  <1>2. MatchTyped' /\ IndexPart' /\ SamplePart' /\ JoinPart'
    BY <1>1, QuietIndex, QuietJoin DEF MatchInv, MatchTyped
  <1>3. MatchPhase'
    <2>1. stage = "match" => batch = << >>
      BY DEF MatchInv, MatchPhase
    <2>2. outcome' \in {"workbook", "none"} =>
            batch = << >> /\ sample = << >> /\ (outcome' = "none" <=> matches = << >>)
      BY <1>1, <2>1
    <2>3. QED
      BY <1>1, <2>2 DEF MatchPhase
  <1>4. QED
    BY <1>2, <1>3 DEF MatchInv

LEMMA MatchInductive == MatchInv /\ [MatchNext]_matchVars => MatchInv'
  <1> SUFFICES ASSUME MatchInv, [MatchNext]_matchVars PROVE MatchInv'
    OBVIOUS
  <1>1. CASE UNCHANGED matchVars
    <2>1. UNCHANGED <<stage, outcome, large, small, column, batch, plateIdx, indexFile, sample, ended,
                      handled, matches, preview, unmatched>>
      BY <1>1 DEF matchVars
    <2>2. MatchTyped' /\ MatchPhase'
      BY <2>1 DEF MatchInv, MatchTyped, MatchPhase
    <2>3. IndexPart' /\ SamplePart' /\ JoinPart'
      BY <2>1, QuietIndex, QuietJoin DEF MatchInv
    <2>4. QED
      BY <2>2, <2>3 DEF MatchInv
  <1>2. QED
    BY <1>1, ReadLargeHeaderInv, IndexRowInv, EndLargeInv, ReadSmallHeaderInv, CompareRowInv,
       LeavesInv DEF MatchNext

\* Keys and meanings of the rows agree.
LEMMA KeysMean ==
  ASSUME NEW R \in {LargeRows, SmallRows}, NEW T \in {LargeRows, SmallRows},
         NEW r \in R, NEW t \in T, NEW c, NEW d
  PROVE  /\ NormalizePlate(TextAt(r, c)) = << >> <=> Meaning(r, c) = << >>
         /\ NormalizePlate(TextAt(r, c)) = NormalizePlate(TextAt(t, d)) <=> Meaning(r, c) = Meaning(t, d)
  <1>1. r \in LargeRows \cup SmallRows /\ t \in LargeRows \cup SmallRows
    OBVIOUS
  <1>2. /\ TextAt(r, c) \in Seq(Characters) /\ Meaning(r, c) = Means(TextAt(r, c))
        /\ TextAt(t, d) \in Seq(Characters) /\ Meaning(t, d) = Means(TextAt(t, d))
    BY <1>1, RowMeans
  <1>3. QED
    BY <1>2, OneKeyOfMeans

LEMMA SoundAtEnd == MatchInv => MatchSound
  <1> SUFFICES ASSUME MatchInv PROVE MatchSound
    OBVIOUS
  <1>1. stage = "done" => ~indexFile
    BY DEF MatchInv, MatchPhase
  <1>2. ASSUME outcome \in {"workbook", "none"}
        PROVE  Joined /\ Counted /\ (outcome = "none" <=> Pairs = {})
    <2> DEFINE n  == Len(large)
               sk == SmallKeys
               lk == LargeKeys
               MS(i) == Meaning(small[i], column.small)
               ML(j) == Meaning(large[j], column.large)
    <2>1. sample = << >> /\ (outcome = "none" <=> matches = << >>)
      BY <1>2 DEF MatchInv, MatchPhase
    <2>2. /\ large \in Seq(LargeRows) /\ small \in Seq(SmallRows) /\ handled \in Nat
          /\ Len(small) = handled + Len(sample)
      BY DEF MatchInv, MatchTyped, SamplePart
    <2>3. Len(small) = handled /\ DOMAIN small = 1..handled /\ DOMAIN large = 1..n /\ n \in Nat
      <3>1. Len(sample) = 0
        BY <2>1, EmptyLength
      <3>2. QED
        BY <2>2, <3>1
    <2>4. /\ IsJoin(matches, sk, handled, lk, n) /\ unmatched = Cardinality(Lone(sk, handled, lk, n))
          /\ Previews(preview, matches)
      BY DEF MatchInv, JoinPart
    <2>5. /\ \A i \in 1..handled : small[i] \in SmallRows /\ sk[i] = NormalizePlate(TextAt(small[i], column.small))
          /\ \A j \in 1..n : large[j] \in LargeRows /\ lk[j] = NormalizePlate(TextAt(large[j], column.large))
      BY <2>2, <2>3, KeysIs DEF SmallKeys, LargeKeys
    <2> HIDE DEF sk, lk
    <2>6. ASSUME NEW i \in 1..handled PROVE sk[i] = << >> <=> MS(i) = << >>
      BY <2>5, KeysMean
    <2>7. ASSUME NEW i \in 1..handled, NEW j \in 1..n PROVE sk[i] = lk[j] <=> MS(i) = ML(j)
      BY <2>5, KeysMean
    <2>8. Pairs = PairsOf(sk, handled, lk, n)
      <3>1. Pairs = {p \in (1..handled) \X (1..n) : MS(p[1]) # << >> /\ MS(p[1]) = ML(p[2])}
        BY <2>3 DEF Pairs
      <3> HIDE DEF MS, ML, n
      <3>2. ASSUME NEW p \in (1..handled) \X (1..n)
            PROVE  MS(p[1]) # << >> /\ MS(p[1]) = ML(p[2]) <=> sk[p[1]] # << >> /\ sk[p[1]] = lk[p[2]]
        <4>1. p[1] \in 1..handled /\ p[2] \in 1..n
          OBVIOUS
        <4>2. QED
          BY <2>6, <2>7, <4>1
      <3>3. QED
        BY <3>1, <3>2 DEF PairsOf
    <2>9. {i \in DOMAIN small : MS(i) # << >> /\ \A p \in Pairs : p[1] # i} = Lone(sk, handled, lk, n)
      <3>1. ASSUME NEW i \in 1..handled
            PROVE  /\ MS(i) # << >> /\ (\A p \in Pairs : p[1] # i)
                   <=> sk[i] # << >> /\ \A j \in 1..n : lk[j] # sk[i]
        <4> HIDE DEF MS, n
        <4>1. ASSUME sk[i] # << >>, NEW j \in 1..n, lk[j] = sk[i] PROVE \E p \in Pairs : p[1] = i
          <5>1. <<i, j>> \in Pairs /\ <<i, j>>[1] = i
            BY <2>8, <4>1 DEF PairsOf
          <5>2. QED
            BY <5>1
        <4>2. ASSUME NEW p \in Pairs, p[1] = i PROVE p[2] \in 1..n /\ lk[p[2]] = sk[i]
          BY <2>8, <4>2 DEF PairsOf
        <4>3. QED
          BY <2>6, <4>1, <4>2
      <3> HIDE DEF MS
      <3>2. QED
        BY <2>3, <3>1 DEF Lone
    <2>10. /\ {<<m.small, m.large>> : m \in ToSet(matches)} = Pairs /\ Len(matches) = Cardinality(Pairs)
           /\ \A k \in 2..Len(matches) : matches[k - 1].small <= matches[k].small
      <3> HIDE DEF n
      <3>1. JoinedOnce(matches, PairsOf(sk, handled, lk, n))
        BY <2>2, <2>3, <2>4, JoinCounts
      <3>2. QED
        BY <2>8, <3>1 DEF JoinedOnce
    <2>11. matches \in Seq(Outs)
      BY <2>4 DEF IsJoin
    <2>12. ASSUME NEW m \in ToSet(matches) PROVE ShownAs(Meaning(small[m.small], column.small), m.shown)
      <3>1. PICK k \in 1..Len(matches) : m = matches[k]
        BY <2>11 DEF ToSet
      <3>2. m.small \in 1..handled /\ sk[m.small] # << >> /\ m.shown = FormatDisplay(sk[m.small])
        BY <2>4, <3>1 DEF IsJoin, Agrees
      <3>3. /\ small[m.small] \in LargeRows \cup SmallRows
            /\ sk[m.small] = NormalizePlate(TextAt(small[m.small], column.small))
        BY <2>5, <3>2
      <3>4. QED
        BY <3>2, <3>3, KeyTyped
    <2>13. Joined
      BY <2>10, <2>12 DEF Joined
    <2>14. Counted
      <3>1. unmatched = Cardinality({i \in DOMAIN small : MS(i) # << >> /\ \A p \in Pairs : p[1] # i})
        BY <2>4, <2>9
      <3>2. Len(preview) = IF Len(matches) < PreviewSize THEN Len(matches) ELSE PreviewSize
        BY <2>4 DEF Previews
      <3>3. preview = SubSeq(matches, 1, Len(preview))
        <4> DEFINE prefix == SubSeq(matches, 1, Len(preview))
        <4>1. preview \in Seq(Outs) /\ \A i \in 1..Len(preview) : preview[i] = matches[i]
          BY <2>4 DEF Previews
        <4>2. Len(preview) \in Int /\ Len(preview) \in Nat /\ 1 \in Int
          BY <4>1
        <4>3. \A i \in 1..Len(preview) : matches[i] \in Outs
          BY <4>1
        <4>4. /\ prefix \in Seq(Outs) /\ Len(prefix) = IF 1 <= Len(preview) THEN Len(preview) - 1 + 1 ELSE 0
              /\ \A i \in 1..(Len(preview) - 1 + 1) : prefix[i] = matches[1 + i - 1]
          BY <4>2, <4>3, SubSeqProperties
        <4> HIDE DEF prefix
        <4>5. Len(prefix) = Len(preview) /\ \A i \in 1..Len(prefix) : prefix[i] = preview[i]
          BY <4>1, <4>2, <4>4
        <4>6. prefix = preview
          BY <4>1, <4>4, <4>5, SameElements
        <4>7. QED
          BY <4>6 DEF prefix
      <3>4. QED
        BY <3>1, <3>2, <3>3 DEF Counted
    <2>15. matches = << >> <=> Pairs = {}
      <3>1. matches = << >> => Pairs = {}
        <4>1. ASSUME matches = << >> PROVE ToSet(matches) = {}
          <5>1. DOMAIN matches = {}
            BY <4>1
          <5>2. QED
            BY <5>1 DEF ToSet
        <4>2. QED
          BY <2>10, <4>1
      <3>2. Pairs = {} => matches = << >>
        <4>1. ASSUME Pairs = {} PROVE Len(matches) = 0
          BY <2>10, <4>1, FS_EmptySet
        <4>2. QED
          BY <2>11, <4>1
      <3>3. QED
        BY <3>1, <3>2
    <2>16. QED
      BY <2>1, <2>13, <2>14, <2>15
  <1>3. QED
    BY <1>1, <1>2 DEF MatchSound

LEMMA StableKeys == MatchInv => KeysStable
  <1> SUFFICES ASSUME MatchInv PROVE KeysStable
    OBVIOUS
  <1>1. /\ large \in Seq(LargeRows) /\ small \in Seq(SmallRows) /\ handled \in Nat
        /\ Len(small) = handled + Len(sample) /\ sample \in Seq(SmallRows)
        /\ plateIdx \in Seq(Entries) /\ batch \in Seq(Entries)
    BY DEF MatchInv, MatchTyped, SamplePart
  <1>2. ASSUME NEW e \in ToSet(plateIdx)
        PROVE  \/ NormalizePlate(e.key) = e.key
               \/ PlateFrom(e.key) # << >> /\ ToSet(Letters(e.key)) \subseteq Foreign
    <2>1. PICK k \in 1..Len(plateIdx) : e = plateIdx[k]
      <3>1. plateIdx \in Seq(Entries)
        BY <1>1
      <3>2. DOMAIN plateIdx = 1..Len(plateIdx)
        BY <3>1
      <3>3. e \in {plateIdx[k] : k \in DOMAIN plateIdx}
        BY <1>2 DEF ToSet
      <3>4. QED
        BY <3>2, <3>3
    <2> DEFINE all == plateIdx \o batch
    <2>2. k \in 1..Len(all) /\ all[k] = e
      BY <1>1, <2>1, ConcatIs
    <2>3. Keyed(all, LargeKeys, Len(large))
      BY DEF MatchInv, IndexPart, Indexed
    <2> HIDE DEF all
    <2>4. e.row \in 1..Len(large) /\ e.key = LargeKeys[e.row]
      BY <2>2, <2>3 DEF Keyed
    <2>5. large[e.row] \in LargeRows /\ e.key = NormalizePlate(TextAt(large[e.row], column.large))
      BY <1>1, <2>4, KeysIs DEF LargeKeys
    <2>6. QED
      BY <2>5, KeyTyped
  <1>3. ASSUME NEW m \in ToSet(matches)
        PROVE  NormalizePlate(m.shown) = NormalizePlate(TextAt(small[m.small], column.small))
    <2>1. IsJoin(matches, SmallKeys, handled, LargeKeys, Len(large))
      BY DEF MatchInv, JoinPart
    <2>2. PICK k \in 1..Len(matches) : m = matches[k]
      BY <2>1 DEF IsJoin, ToSet
    <2>3. m.small \in 1..handled /\ m.shown = FormatDisplay(SmallKeys[m.small])
      BY <2>1, <2>2 DEF IsJoin, Agrees
    <2>4. m.small \in 1..Len(small)
      <3>1. Len(sample) \in Nat
        BY <1>1
      <3>2. QED
        BY <1>1, <2>3, <3>1
    <2>5. /\ small[m.small] \in SmallRows
          /\ SmallKeys[m.small] = NormalizePlate(TextAt(small[m.small], column.small))
      <3> DEFINE i == m.small
      <3>1. i \in 1..Len(small)
        BY <2>4
      <3> HIDE DEF i
      <3>2. /\ small[i] \in SmallRows
            /\ Keys(small, column.small)[i] = NormalizePlate(TextAt(small[i], column.small))
        BY <1>1, <3>1, KeysIs, SMTT(30)
      <3>3. QED
        BY <3>2 DEF i, SmallKeys
    <2>6. QED
      BY <2>3, <2>5, KeyTyped
  <1>4. QED
    BY <1>2, <1>3 DEF KeysStable

\* The comparison is the join: whatever the sheets, the headers, the batches and the rows read
\* ahead, a workbook has each pair of rows that mean one plate once, in order, with the
\* counts, the preview and the plates shown, and the file of the index is removed
\* (check_match.py:226-450).
THEOREM ComparisonIsJoin == MatchSpec => []MatchSound
  <1>1. MatchSpec => []MatchInv
    BY InitMatchInv, MatchInductive, PTL DEF MatchSpec
  <1>2. QED
    BY <1>1, SoundAtEnd, PTL

\* The keys of the index are their own keys, except those of plates whose letters are all on no
\* Saudi plate, and what the workbook shows has the key by which its row was found, without
\* exception (plate_utils.py:44-145).
THEOREM KeysStayStable == MatchSpec => []KeysStable
  <1>1. MatchSpec => []MatchInv
    BY InitMatchInv, MatchInductive, PTL DEF MatchSpec
  <1>2. QED
    BY <1>1, StableKeys, PTL

-----------------------------------------------------------------------------
(* The parts together.  A behaviour of the composition is one of each      *)
(* part, so what is proved of a part holds in it.                          *)
LEMMA PartsRun == RequestsSpec => Spec /\ TokensSpec /\ TempSpec /\ MatchSpec
<1>1. RequestsInit => Init /\ TokensInit /\ TempInit /\ MatchInit
  BY DEF RequestsInit
<1>2. [RequestsNext]_<<part, vars, tokenVars, tempVars, matchVars>>
        => /\ [Next]_vars /\ [TokensNext]_tokenVars /\ [TempNext]_tempVars
           /\ [MatchNext]_matchVars
  BY DEF RequestsNext
<1> QED BY <1>1, <1>2, PTL DEF RequestsSpec, Spec, TokensSpec, TempSpec, MatchSpec

(* The type invariants of accounts, one-time tokens and temporary sessions *)
(* hold together in what the run explores: the tables of                   *)
(* auth_service.py:48-210, the two stores of ws_check_live_ticket.py:31    *)
(* and the session row of check_temp_storage.py.                           *)
THEOREM RequestsTypeCorrect == RequestsSpec => []RequestsTypeOK
<1>1. TypeOK /\ TokensTypeOK /\ TempTypeOK <=> RequestsTypeOK
  BY DEF RequestsTypeOK
<1> QED BY PartsRun, AccountsTypeCorrect, TokensTypeCorrect, TempTypeCorrect, <1>1, PTL

\* What the parts promise each alone they promise in the composition, which is what the run
\* explores: time that was paid, one live token of a device, usage that goes on counting
\* (services/subscription.py:66-113, auth_service.py:48-210), tokens taken once, sessions
\* that answer from one file, and comparisons that are joins.
THEOREM PartsStaySound ==
  RequestsSpec => /\ [](PaidKept /\ NoFreeTime /\ TokensSound /\ TakenOnce /\ TempSound)
                  /\ [](MatchSound /\ KeysStable) /\ UsageKept
  BY PartsRun, PaidTimeIsKept, NoTimeIsMade, TokensStaySound, AcceptedOnce, SessionIsSound,
     ComparisonIsJoin, KeysStayStable, UsageStaysCounted, PTL
=============================================================================
