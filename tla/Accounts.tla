------------------------------ MODULE Accounts ------------------------------
(***************************************************************************)
(* The account of one user who is no admin: the subscription cycle, the    *)
(* device it is bound to, its refresh tokens and the Gemini usage that is  *)
(* counted against its budget (services/auth_service.py, subscription.py,  *)
(* gemini_usage.py, dependencies/auth.py, routers/admin.py).               *)
(*                                                                         *)
(* Every request has a session of its own.  It reads the row, decides, and *)
(* commits later; in between other threads (get_current_user runs in the   *)
(* thread pool) and other processes commit.  A commit writes only the      *)
(* columns whose value differs from the one that was read.                 *)
(***************************************************************************)
EXTENDS Integers, FiniteSets

CONSTANTS Requests,     \* requests that may be in progress at a time
          Devices,      \* X-Device-Id
          None,         \* no device, no time, no bucket
          Cycle,        \* SUBSCRIPTION_CYCLE_DAYS, in ticks
          MaxTime,      \* bound: ticks
          MaxRequests,  \* bound: requests begun
          MaxUsage      \* bound: usage events

ASSUME AccountsAssumption ==
    /\ Cycle \in Nat \ {0}
    /\ MaxTime \in Nat /\ MaxRequests \in Nat /\ MaxUsage \in Nat
    /\ None \notin Nat \cup Devices

VARIABLES
    now,       \* the clock
    row,       \* the users row
    tokens,    \* refresh_tokens
    usage,     \* gemini_usage_events
    req,       \* the requests in progress
    begun,     \* requests begun so far
    paid,      \* history: renewals confirmed
    until,     \* history: the end of the time paid for
    used,      \* history: ticks in which the account was of use
    disabled,  \* history: an admin has switched the account off
    resets,    \* history: device resets
    raced      \* history: a request committed on what had changed since it read it,
               \*          the clock included

account == <<row, tokens, usage>>
history == <<paid, until, used, disabled, resets, raced>>
vars    == <<now, account, req, begun, history>>

Time  == 0..MaxTime
Row   == [active: BOOLEAN, started: Int, early: Time \cup {None}, device: Devices \cup {None}]
Token == [id: 0..MaxRequests, device: Devices, live: BOOLEAN, era: 0..MaxRequests]
Usage == [id: 0..MaxRequests, at: Time, anchor: Int \cup {None}]

Entering == {"login", "refresh", "access", "logout"}
Managing == {"renew", "enable", "disable", "reset"}

Request ==
    [pc: {"idle", "promote", "expire", "revoke", "switch", "reread", "bind", "replace", "issue",
          "token", "rotate", "early", "late", "write"},
     kind: Entering \cup Managing \cup {"use"}, device: Devices \cup {None},
     token: 0..MaxRequests, at: Time, seen: Row, kill: SUBSET Token]

TypeOK ==
    /\ now \in Time
    /\ row \in Row
    /\ tokens \subseteq Token
    /\ usage \subseteq Usage
    /\ req \in [Requests -> Request]
    /\ begun \in 0..MaxRequests
    /\ paid \in 0..MaxRequests
    /\ until \in Int
    /\ used \in 0..MaxTime
    /\ disabled \in BOOLEAN
    /\ resets \in 0..MaxRequests
    /\ raced \in BOOLEAN

Fresh == [active |-> TRUE, started |-> 0, early |-> None, device |-> None]
Idle  == [pc |-> "idle", kind |-> "use", device |-> None, token |-> 0, at |-> 0,
          seen |-> Fresh, kill |-> {}]

(* A new account, or one in use on a device; an event may be older than    *)
(* the column billing_cycle_start_at.                                      *)
Init ==
    /\ now = 0
    /\ row \in {Fresh} \cup {[Fresh EXCEPT !.device = d] : d \in Devices}
    /\ tokens = {[id |-> 0, device |-> d, live |-> TRUE, era |-> 0] : d \in Devices \cap {row.device}}
    /\ usage \in {{}, {[id |-> 0, at |-> 0, anchor |-> None]}}
    /\ req = [q \in Requests |-> Idle]
    /\ begun = 0
    /\ paid = 0 /\ until = Cycle /\ used = 0
    /\ disabled = FALSE /\ resets = 0 /\ raced = FALSE

-----------------------------------------------------------------------------
End(r) == r.started + Cycle      \* cycle_end_utc

Live(d) == {t \in tokens : t.live /\ t.device = d}

Revoked(T) == (tokens \ T) \cup {[t EXCEPT !.live = FALSE] : t \in T}

NewToken(d) == [id |-> Cardinality(tokens), device |-> d, live |-> TRUE, era |-> resets]

(* gemini_billing_cycle_start_for_event *)
Anchor(r, t) == IF r.early # None /\ r.early <= t /\ t < End(r) THEN End(r) ELSE r.started

(* gemini_cycle_base_filter *)
Counts(e, r) == \/ e.anchor = r.started
                \/ /\ e.anchor = None
                   /\ r.started <= e.at /\ e.at < End(r)
                   /\ r.early = None \/ e.at < r.early

Remainder(e, r) == r.early # None /\ e.at >= r.early /\ e.anchor = End(r)

(* The request of q goes on, or has ended. *)
Become(q, r) == req' = [req EXCEPT ![q] = r]
Stop(q) == Become(q, Idle)
Goto(q, pc) == Become(q, [req[q] EXCEPT !.pc = pc])

(* A column is written when its new value differs from the one read. *)
Write(column, new) == IF new = column[1] THEN column[2] ELSE new

Relies(stale) == raced' = (raced \/ stale)
Stale(q) == row # req[q].seen

-----------------------------------------------------------------------------
(* Time passes.  The account was of use when a request would have got in.  *)
Tick ==
    /\ now < MaxTime
    /\ now' = now + 1
    /\ used' = IF row.active /\ now < End(row) + (IF row.early = None THEN 0 ELSE Cycle)
               THEN used + 1 ELSE used
    /\ UNCHANGED <<account, req, begun, paid, until, disabled, resets, raced>>

(* A request reads the row.  The usage event of a call is anchored here.   *)
Begin(q) ==
    /\ req[q].pc = "idle"
    /\ begun < MaxRequests
    /\ begun' = begun + 1
    /\ \/ \E k \in Entering, d \in Devices :
            \E t \in (IF k = "refresh" THEN {u.id : u \in tokens} ELSE {0}) :
              Become(q, [Idle EXCEPT !.pc = "promote", !.kind = k, !.device = d, !.token = t,
                                     !.seen = row])
       \/ \E k \in Managing :
            Become(q, [Idle EXCEPT !.pc = CASE k = "renew" -> IF now < End(row) THEN "early" ELSE "late"
                                            [] k = "disable" -> "revoke"
                                            [] OTHER -> "write",
                                   !.kind = k, !.at = now, !.seen = row])
       \/ /\ Cardinality(usage) < MaxUsage
          /\ Become(q, [Idle EXCEPT !.pc = "write", !.kind = "use", !.at = now, !.seen = row])
    /\ UNCHANGED <<now, account, history>>

-----------------------------------------------------------------------------
(* deactivate_expired_subscription, the head of every request of the user. *)

(* Mutant: the stored renewal is not used up. *)
PromoteAgain(q) ==
    LET r == req[q] IN
    /\ r.pc = "promote"
    /\ Goto(q, "expire")
    /\ IF r.seen.early # None /\ now >= End(r.seen)
       THEN row' = [row EXCEPT !.started = End(r.seen)] /\ Relies(Stale(q))
       ELSE UNCHANGED <<row, raced>>
    /\ UNCHANGED <<now, tokens, usage, begun, paid, until, used, disabled, resets>>

(* Mutant: the cycle is cleared instead of advanced. *)
PromoteCleared(q) ==
    LET r == req[q] IN
    /\ r.pc = "promote"
    /\ Goto(q, "expire")
    /\ IF r.seen.early # None /\ now >= End(r.seen)
       THEN row' = [row EXCEPT !.started = None, !.early = None] /\ Relies(Stale(q))
       ELSE UNCHANGED <<row, raced>>
    /\ UNCHANGED <<now, tokens, usage, begun, paid, until, used, disabled, resets>>

(* promote_subscription_after_early_renew *)
Promote(q) ==
    LET r == req[q] IN
    /\ r.pc = "promote"
    /\ Goto(q, "expire")
    /\ IF r.seen.early # None /\ now >= End(r.seen)
       THEN row' = [row EXCEPT !.started = End(r.seen), !.early = None] /\ Relies(Stale(q))
       ELSE UNCHANGED <<row, raced>>
    /\ UNCHANGED <<now, tokens, usage, begun, paid, until, used, disabled, resets>>

(* What get_current_user, login and refresh ask of the row they have read. *)
Admit(q, r) ==
    LET bound == r.seen.device = r.device
        first == r.kind = "login" /\ r.seen.device = None
        next  == CASE r.kind = "login"   -> IF first THEN "bind" ELSE "replace"
                   [] r.kind = "refresh" -> "token"
                   [] r.kind = "logout"  -> "replace"
                   [] OTHER              -> "idle"
    IN  IF r.seen.active /\ (bound \/ first) /\ next # "idle"
        THEN Become(q, [r EXCEPT !.pc = next]) ELSE Stop(q)

Expire(q) ==
    LET r == [req[q] EXCEPT !.seen = row] IN
    /\ r.pc = "expire"
    /\ IF now >= End(row) /\ row.active THEN Become(q, [r EXCEPT !.pc = "revoke"])
                                        ELSE Admit(q, r)
    /\ UNCHANGED <<now, account, begun, history>>

(* The UPDATE of the tokens does not see those inserted before the commit. *)
Revoke(q) ==
    /\ req[q].pc = "revoke"
    /\ Become(q, [req[q] EXCEPT !.pc = "switch", !.kill = {t \in tokens : t.live}])
    /\ UNCHANGED <<now, account, begun, history>>

(* Mutant: the tokens are left alone. *)
SwitchOffOnly(q) ==
    LET r == req[q] IN
    /\ r.pc = "switch"
    /\ row' = [row EXCEPT !.active = Write(<<r.seen.active, @>>, FALSE)]
    /\ tokens' = tokens
    /\ IF r.kind = "disable" THEN Stop(q) ELSE Goto(q, "reread")
    /\ disabled' = (disabled \/ r.kind = "disable")
    /\ Relies(\/ Stale(q)
              \/ \E t \in tokens : t.live /\ t \notin r.kill
              \/ r.kind # "disable" /\ r.seen.early # None)
    /\ UNCHANGED <<now, usage, begun, paid, until, used, resets>>

(* The end of an expiry, and of set_user_active(False).  An expiry that    *)
(* meets a stored renewal relied on the clock that Promote had read.       *)
SwitchOff(q) ==
    LET r == req[q] IN
    /\ r.pc = "switch"
    /\ row' = [row EXCEPT !.active = Write(<<r.seen.active, @>>, FALSE)]
    /\ tokens' = Revoked(tokens \cap r.kill)
    /\ IF r.kind = "disable" THEN Stop(q) ELSE Goto(q, "reread")
    /\ disabled' = (disabled \/ r.kind = "disable")
    /\ Relies(\/ Stale(q)
              \/ \E t \in tokens : t.live /\ t \notin r.kill
              \/ r.kind # "disable" /\ r.seen.early # None)
    /\ UNCHANGED <<now, usage, begun, paid, until, used, resets>>

Reread(q) ==
    /\ req[q].pc = "reread"
    /\ Admit(q, [req[q] EXCEPT !.seen = row])
    /\ UNCHANGED <<now, account, begun, history>>

-----------------------------------------------------------------------------
(* login, refresh and logout.                                              *)

(* The first login binds the device. *)
Bind(q) ==
    /\ req[q].pc = "bind"
    /\ row' = [row EXCEPT !.device = req[q].device]
    /\ Become(q, [req[q] EXCEPT !.pc = "replace", !.seen = row'])
    /\ Relies(Stale(q))
    /\ UNCHANGED <<now, tokens, usage, begun, paid, until, used, disabled, resets>>

(* revoke_user_device_tokens, in a commit of its own. *)
Replace(q) ==
    /\ req[q].pc = "replace"
    /\ tokens' = Revoked(Live(req[q].device))
    /\ IF req[q].kind = "login" THEN Goto(q, "issue") ELSE Stop(q)
    /\ UNCHANGED <<now, row, usage, begun, history>>

Issue(q) ==
    /\ req[q].pc = "issue"
    /\ tokens' = tokens \cup {NewToken(req[q].device)}
    /\ Stop(q)
    /\ Relies(Stale(q) \/ Live(req[q].device) # {})
    /\ UNCHANGED <<now, row, usage, begun, paid, until, used, disabled, resets>>

ReadToken(q) ==
    LET r == req[q] IN
    /\ r.pc = "token"
    /\ IF \E t \in Live(r.device) : t.id = r.token THEN Goto(q, "rotate") ELSE Stop(q)
    /\ UNCHANGED <<now, account, begun, history>>

Rotate(q) ==
    LET r == req[q]
        old == {t \in tokens : t.id = r.token}
    IN  /\ r.pc = "rotate"
        /\ tokens' = Revoked(old) \cup {NewToken(r.device)}
        /\ Stop(q)
        /\ Relies(Stale(q) \/ \E t \in old : ~t.live)
        /\ UNCHANGED <<now, row, usage, begun, paid, until, used, disabled, resets>>

-----------------------------------------------------------------------------
(* The admin: renew_user_subscription, set_user_active, reset_user_device. *)

(* Mutant: all usage of the cycle is moved. *)
MovedAll(e, r, er) ==
    IF e.at < End(r) /\ e.anchor \in {None, r.started} THEN End(r) ELSE e.anchor

(* The two UPDATEs: usage from the renewal on is moved to the next cycle.  *)
Moved(e, r, er) ==
    IF e.at < End(r) /\ e.at >= er /\ e.anchor \in {None, r.started} THEN End(r)
    ELSE IF e.at >= r.started /\ e.at < er /\ e.anchor = None THEN r.started
    ELSE e.anchor

(* Before the end of the cycle the renewal is stored; a second one adds    *)
(* nothing.                                                                *)
RenewEarly(q) ==
    LET r  == req[q]
        er == IF r.seen.early = None THEN r.at ELSE r.seen.early
  IN  /\ r.pc = "early"
        /\ row' = [row EXCEPT !.early = Write(<<r.seen.early, @>>, er),
                              !.active = Write(<<r.seen.active, @>>, TRUE)]
        /\ usage' = {[e EXCEPT !.anchor = Moved(e, r.seen, er)] : e \in usage}
        /\ Stop(q)
        /\ paid' = paid + 1
        /\ until' = End(r.seen) + Cycle
        /\ disabled' = FALSE
        /\ Relies(Stale(q))
        /\ UNCHANGED <<now, tokens, begun, used, resets>>

(* Mutant: the account is not switched on again. *)
RenewLateOff(q) ==
    LET r == req[q] IN
    /\ r.pc = "late"
    /\ row' = [row EXCEPT !.early = Write(<<r.seen.early, @>>, None), !.started = r.at]
    /\ usage' = {}
    /\ Stop(q)
    /\ paid' = paid + 1
    /\ until' = r.at + Cycle
    /\ disabled' = FALSE
    /\ Relies(Stale(q))
    /\ UNCHANGED <<now, tokens, begun, used, resets>>

(* After it: a new cycle from now on.  A renewal that was stored and not   *)
(* yet promoted is lost.                                                   *)
RenewLate(q) ==
    LET r == req[q] IN
    /\ r.pc = "late"
    /\ row' = [row EXCEPT !.early = Write(<<r.seen.early, @>>, None), !.started = r.at,
                          !.active = Write(<<r.seen.active, @>>, TRUE)]
    /\ usage' = {}
    /\ Stop(q)
    /\ paid' = paid + 1
    /\ until' = r.at + Cycle
    /\ disabled' = FALSE
    /\ Relies(Stale(q))
    /\ UNCHANGED <<now, tokens, begun, used, resets>>

SwitchOn(q) ==
    LET r == req[q] IN
    /\ r.pc = "write" /\ r.kind = "enable"
    /\ row' = [row EXCEPT !.active = Write(<<r.seen.active, @>>, TRUE)]
    /\ Stop(q)
    /\ disabled' = FALSE
    /\ Relies(Stale(q))
    /\ UNCHANGED <<now, tokens, usage, begun, paid, until, used, resets>>

(* The tokens of the device stay. *)
ResetDevice(q) ==
    LET r == req[q] IN
    /\ r.pc = "write" /\ r.kind = "reset"
    /\ row' = [row EXCEPT !.device = Write(<<r.seen.device, @>>, None)]
    /\ Stop(q)
    /\ resets' = resets + 1
    /\ Relies(Stale(q))
    /\ UNCHANGED <<now, tokens, usage, begun, paid, until, used, disabled>>

(* record_gemini_usage_event: created_at is the time of the insert. *)
Record(q) ==
    LET r == req[q] IN
    /\ r.pc = "write" /\ r.kind = "use"
    /\ usage' = usage \cup {[id |-> Cardinality(usage), at |-> now, anchor |-> Anchor(r.seen, r.at)]}
    /\ Stop(q)
    /\ UNCHANGED <<now, row, tokens, begun, history>>

-----------------------------------------------------------------------------
Step(q) == \/ Begin(q) \/ Promote(q) \/ Expire(q) \/ Revoke(q) \/ SwitchOff(q) \/ Reread(q)
           \/ Bind(q) \/ Replace(q) \/ Issue(q) \/ ReadToken(q) \/ Rotate(q)
           \/ RenewEarly(q) \/ RenewLate(q) \/ SwitchOn(q) \/ ResetDevice(q) \/ Record(q)

Next == Tick \/ \E q \in Requests : Step(q)

Spec == Init /\ [][Next]_vars

-----------------------------------------------------------------------------
(* The properties.                                                         *)

(* An account whose last renewal covers the present is active unless an    *)
(* admin switched it off or a request committed on a stale row - not even  *)
(* the expiry of the cycle in which the renewal was stored cuts it off     *)
(* (subscription.py:64-113, admin.py:411-477).                             *)
PaidKept == ~raced /\ ~disabled /\ now < until => row.active

(* "If the user had renewed early, promote the cycle instead (no           *)
(* deactivation)" (subscription.py:93-94): no expiry switches off an       *)
(* account with a stored renewal.                                          *)
PromotedInstead ==
    [][\A q \in Requests :
         req[q].pc = "switch" /\ req'[q].pc = "reread" => req[q].seen.early = None]_vars

(* No interleaving makes time: the account is of use for one cycle, and    *)
(* one more for every renewal that was confirmed (subscription.py:64-88).  *)
NoFreeTime == used <= Cycle * (1 + paid)

(* Unless a request committed on what had changed since it read it: a      *)
(* device has one live token, an account that is switched off has none,    *)
(* and all tokens issued since the last reset are for the bound device     *)
(* (auth_service.py:48-76, 120-140, 186-210).                              *)
TokensSound ==
    ~raced =>
      /\ \A d \in Devices : Cardinality(Live(d)) <= 1
      /\ ~row.active => \A d \in Devices : Live(d) = {}
      /\ \A t \in tokens : t.era = resets => t.device = row.device

(* Usage that counts against the budget goes on counting until a cycle     *)
(* begins, or a renewal moves it to the next one - unless the renewal      *)
(* committed on a stale row (admin.py:441-462, gemini_usage.py:20-33).     *)
UsageKept ==
    [][\A e \in usage :
         Counts(e, row) =>
           \/ row'.started # row.started
           \/ raced'
           \/ \E f \in usage' : f.id = e.id /\ (Counts(f, row') \/ Remainder(f, row'))]_vars
=============================================================================
