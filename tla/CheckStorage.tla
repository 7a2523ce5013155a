---------------------------- MODULE CheckStorage ----------------------------
(***************************************************************************)
(* The stored large files of the check feature: Postgres tables            *)
(* check_large_imports and check_large_rows behind row level security      *)
(* (services/check_postgres.py), the mirror of the group membership that   *)
(* the policies and the peer lists read (services/check_group_sync.py),    *)
(* and the user database whose admin handlers change groups and limits     *)
(* (routers/admin.py).                                                     *)
(*                                                                         *)
(* Imports and checks run in threads; every transaction they open is a     *)
(* step, and so is every statement that reads what a later one relies on   *)
(* (READ COMMITTED).  An admin handler runs on the event loop without an   *)
(* await: two of them interleave only when they run in two processes, and  *)
(* each Admin below is the event loop of one process.                      *)
(*                                                                         *)
(* The user database is the one settings.auth_db_url names.  SQLite, as    *)
(* db.py:7-9 opens it, does not enforce the foreign key to the group, and  *)
(* without AUTOINCREMENT hands the id of a deleted user out again; another *)
(* one need not.  The model allows both.                                   *)
(***************************************************************************)
EXTENDS Integers, FiniteSets

CONSTANTS Users,        \* user ids
          AdminUsers,   \* those with is_admin
          Groups,       \* group ids, not handed out again (create_group is left out)
          None,         \* no group, no user, no limit
          Plates,       \* normalised plates: an import holds a set of rows, one per plate
          Names,        \* file names after lower(trim())
          Limits,       \* the row limits an admin may set
          Importers,    \* threads that import a file
          Checkers,     \* threads that check a small file or collect its GPS points
          Admins,       \* processes that serve admin requests
          MaxRequests,  \* bound: requests begun, and ids handed out by check_large_imports
          MaxFailures   \* bound: lost Postgres calls of admin handlers and crashes of importers

ASSUME StorageAssumption ==
    /\ AdminUsers \subseteq Users
    /\ None \notin Users \cup Groups \cup Limits
    /\ Limits \subseteq Nat \ {0}       \* schemas/user.py: ge=1
    /\ IsFiniteSet(Plates)
    /\ Importers \cap Admins = {}
    /\ MaxRequests \in Nat
    /\ MaxFailures \in Nat

VARIABLES
    known,     \* user database: the users that exist
    groupOf,   \* user database: users.group_id
    limit,     \* user database: user_groups.max_stored_large_rows, None once deleted
    own,       \* user database: users.max_stored_large_rows, None once deleted
    mirror,    \* Postgres: check_mirror_user_groups, None without a row
    imports,   \* Postgres: committed rows of both tables
    nextId,    \* Postgres: the sequence of check_large_imports
    imp,       \* the request of each importer
    chk,       \* the request of each checker
    adm,       \* the request of each admin process
    begun,     \* requests begun so far
    failures,  \* failures so far
    stale,     \* history: whose counted rows no longer describe its scope
    crossed,   \* history: admin requests about one user or group met, or one was cut short
    lapses     \* history: what has happened that a quota does not survive

userDb   == <<known, groupOf, limit, own>>
postgres == <<mirror, imports, nextId>>
history  == <<failures, stale, crossed, lapses>>
vars     == <<userDb, postgres, imp, chk, adm, begun, history>>

Import == [id: 1..MaxRequests, owner: Users, name: Names, plates: SUBSET Plates,
           looked: SUBSET (1..MaxRequests)]

ImportRequest ==
    [pc: {"idle", "peers", "count", "lookup", "insert", "remove"},
     user: Users \cup {None}, name: Names \cup {None}, plates: SUBSET Plates,
     max: Limits \cup {None}, peers: SUBSET Users, looked: SUBSET (1..MaxRequests),
     id: 0..MaxRequests,
     blind: BOOLEAN]                 \* history: the rows counted were not those of the members

CheckRequest ==
    [pc: {"idle", "meta", "imports", "rows", "done"},
     kind: {"check", "gps"}, user: Users \cup {None}, plates: SUBSET Plates,
     peers: SUBSET Users, todo: SUBSET Users, listed: SUBSET (1..MaxRequests),
     moved: BOOLEAN,                 \* history: imports or mirror changed since the peers were read
     visible: SUBSET Users,          \* history: whose rows the policy shows when they are read
     hits: SUBSET Plates, exported: SUBSET Import]

AdminRequest ==
    [pc: {"idle", "move", "create", "limit", "sync", "unmirror", "forget"},
     user: Users \cup {None}, group: Groups \cup {None}, max: Limits \cup {None}]

(* A request relied on a count or limit that had changed since it read it; *)
(* an import was stored that counted under a mirror without the members    *)
(* its limit is for; the id of a user with stored rows was handed out      *)
(* again.                                                                  *)
Lapse == {"raced", "unsynced", "inherited"}

TypeOK ==
    /\ known \subseteq Users
    /\ groupOf \in [Users -> Groups \cup {None}]
    /\ limit \in [Groups -> Limits \cup {None}]
    /\ own \in [Users -> Limits \cup {None}]
    /\ mirror \in [Users -> Groups \cup {None}]
    /\ imports \subseteq Import
    /\ nextId \in 1..MaxRequests + 1
    /\ imp \in [Importers -> ImportRequest]
    /\ chk \in [Checkers -> CheckRequest]
    /\ adm \in [Admins -> AdminRequest]
    /\ begun \in 0..MaxRequests
    /\ failures \in 0..MaxFailures
    /\ stale \subseteq Importers \cup Admins
    /\ crossed \in BOOLEAN
    /\ lapses \subseteq Lapse

NoImport == [pc |-> "idle", user |-> None, name |-> None, plates |-> {}, max |-> None,
             peers |-> {}, looked |-> {}, id |-> 0, blind |-> FALSE]
NoCheck  == [pc |-> "idle", kind |-> "check", user |-> None, plates |-> {}, peers |-> {},
             todo |-> {}, listed |-> {}, moved |-> FALSE, visible |-> {}, hits |-> {},
             exported |-> {}]
NoAdmin  == [pc |-> "idle", user |-> None, group |-> None, max |-> None]

Init ==
    /\ known \in {AdminUsers, Users}
    /\ groupOf \in [Users -> Groups \cup {None}]
    /\ \A u \in Users \ known : groupOf[u] = None
    /\ limit \in [Groups -> Limits]
    /\ own \in {[u \in Users |-> IF u \in known THEN l ELSE None] : l \in Limits}
    /\ mirror = groupOf
    /\ imports = {}
    /\ nextId = 1
    /\ imp = [p \in Importers |-> NoImport]
    /\ chk = [c \in Checkers |-> NoCheck]
    /\ adm = [a \in Admins |-> NoAdmin]
    /\ begun = 0
    /\ failures = 0
    /\ stale = {}
    /\ crossed = FALSE
    /\ lapses = {}

-----------------------------------------------------------------------------
(* What the tables answer.                                                 *)

(* peer_user_ids_for_check_sync: the members of the user's group in the    *)
(* mirror, or the user alone.                                              *)
Peers(u) == IF mirror[u] = None THEN {u} ELSE {v \in Users : mirror[v] = mirror[u]}

(* The policies check_large_rows_isolation and check_large_imports_isolation: *)
(* one's own rows, those of users with the same group_id in the mirror, and   *)
(* for an admin all of them.                                                  *)
Visible(u) == IF u \in AdminUsers THEN Users ELSE {u} \cup Peers(u)

(* SELECT COUNT of check_large_rows for some owners.                       *)
Rows(owners)   == UNION {{i.id} \X i.plates : i \in {j \in imports : j.owner \in owners}}
RowsOf(owners) == Cardinality(Rows(owners))

Members(g) == {u \in known : groupOf[u] = g}

Live(g) == limit[g] # None

(* _group_rows_limit_for_user: none without a group, or when it is gone.   *)
GroupLimit(u) == IF groupOf[u] = None THEN None ELSE limit[groupOf[u]]

-----------------------------------------------------------------------------
(* Who would be misled by a change: a request that has counted rows by an  *)
(* insert, and one that has read limit or membership by their change.      *)
Counted == {p \in Importers : imp[p].pc \in {"lookup", "insert"}} \cup
           {a \in Admins : adm[a].pc \in {"move", "limit"}}
Informed == {p \in Importers : imp[p].pc \in {"peers", "count"}} \cup Counted

(* The request of r ends, relying on what it read or not, and misleads S.  *)
Relies(r) == lapses' = IF r \in stale THEN lapses \cup {"raced"} ELSE lapses
Misleads(S, r) == stale' = (stale \cup S) \ {r}

(* Bound: a request begins. *)
Arrives == begun < MaxRequests /\ begun' = begun + 1

Moved == [c \in Checkers |-> [chk[c] EXCEPT !.moved = @ \/ chk[c].pc # "idle"]]

-----------------------------------------------------------------------------
(* POST /check/import-large and import_large_workbook_sync.                *)

(* The handler reads both limits from the user database; the thread parses *)
(* the sheet: plates are the rows with a valid plate, possibly none.       *)
Receive(p) ==
    /\ imp[p].pc = "idle"
    /\ Arrives
    /\ \E u \in known, n \in Names, S \in SUBSET Plates :
         LET l == GroupLimit(u) IN
         imp' = [imp EXCEPT ![p] =
                   [NoImport EXCEPT !.pc = IF l = None THEN "count" ELSE "peers",
                                    !.user = u, !.name = n, !.plates = S, !.peers = {u},
                                    !.max = IF l = None THEN own[u] ELSE l]]
    /\ UNCHANGED <<userDb, postgres, chk, adm, history>>

ReadPeers(p) ==
    /\ imp[p].pc = "peers"
    /\ imp' = [imp EXCEPT ![p].pc = "count", ![p].peers = Peers(imp[p].user)]
    /\ UNCHANGED <<userDb, postgres, chk, adm, history, begun>>

(* The quota, in a transaction of its own: the rows of the peers that were *)
(* read, as far as the policy still shows them.  History: blind when these *)
(* are not the members the limit is meant for, be it that a handler has    *)
(* still to bring the mirror up to date or that one failed to.             *)
Count(p) ==
    LET r == imp[p]
        counted == r.peers \cap Visible(r.user)
        fits == RowsOf(counted) + Cardinality(r.plates) <= r.max
        blind == GroupLimit(r.user) # None /\ counted # Members(groupOf[r.user])
    IN  /\ r.pc = "count"
        /\ imp' = [imp EXCEPT ![p] = IF fits THEN [r EXCEPT !.pc = "lookup", !.blind = blind]
                                     ELSE NoImport]
        /\ stale' = IF fits THEN stale ELSE stale \ {p}
        /\ UNCHANGED <<userDb, postgres, chk, adm, failures, crossed, lapses, begun>>

(* Mutant: the name is not looked up. *)
LookUpNothing(p) ==
    /\ imp[p].pc = "lookup"
    /\ imp' = [imp EXCEPT ![p].pc = "insert",
                          ![p].looked = {i.id : i \in {j \in imports : j.owner = imp[p].user}}]
    /\ UNCHANGED <<userDb, postgres, chk, adm, begun, history>>

(* The second transaction: is there an import of this name?                *)
LookUpName(p) ==
    LET r == imp[p]
        taken == \E i \in imports : i.owner = r.user /\ i.name = r.name
    IN  /\ r.pc = "lookup"
        /\ imp' = [imp EXCEPT ![p] =
                     IF taken THEN NoImport
                     ELSE [r EXCEPT !.pc = "insert",
                                    !.looked = {i.id : i \in {j \in imports : j.owner = r.user}}]]
        /\ stale' = IF taken THEN stale \ {p} ELSE stale
        /\ UNCHANGED <<userDb, postgres, chk, adm, failures, crossed, lapses, begun>>

(* It inserts the import and its rows and commits.  Without rows a third   *)
(* transaction has to remove the import.                                   *)
Insert(p) ==
    LET r == imp[p] IN
    /\ r.pc = "insert"
    /\ imports' = imports \cup {[id |-> nextId, owner |-> r.user, name |-> r.name,
                                 plates |-> r.plates, looked |-> r.looked]}
    /\ nextId' = nextId + 1
    /\ imp' = [imp EXCEPT ![p] = IF r.plates = {} THEN [r EXCEPT !.pc = "remove", !.id = nextId]
                                 ELSE NoImport]
    /\ chk' = Moved
    /\ lapses' = lapses \cup {x \in {"raced"} : p \in stale} \cup {x \in {"unsynced"} : r.blind}
    /\ Misleads(Counted, p)
    /\ UNCHANGED <<userDb, mirror, adm, failures, crossed, begun>>

RemoveEmpty(p) ==
    /\ imp[p].pc = "remove"
    /\ imports' = {i \in imports : ~(i.id = imp[p].id /\ i.owner = imp[p].user)}
    /\ imp' = [imp EXCEPT ![p] = NoImport]
    /\ chk' = Moved
    /\ UNCHANGED <<userDb, mirror, nextId, adm, history, begun>>

(* The process of the importer dies; an open transaction is rolled back.   *)
Crash(p) ==
    /\ imp[p].pc # "idle"
    /\ failures < MaxFailures
    /\ failures' = failures + 1
    /\ imp' = [imp EXCEPT ![p] = NoImport]
    /\ stale' = stale \ {p}
    /\ UNCHANGED <<userDb, postgres, chk, adm, crossed, lapses, begun>>

(* DELETE /check/stored-imports: only one's own; the rows go with it.      *)
DeleteImport(u) ==
    /\ Arrives
    /\ \E i \in imports : i.owner = u /\ imports' = imports \ {i}
    /\ chk' = Moved
    /\ UNCHANGED <<userDb, mirror, nextId, imp, adm, history>>

Importing(p) == \/ Receive(p) \/ ReadPeers(p) \/ Count(p) \/ LookUpName(p)
                \/ Insert(p) \/ RemoveEmpty(p) \/ Crash(p)

-----------------------------------------------------------------------------
(* run_check_plates_postgres_sync and collect_gps_vehicles_stored_sync.    *)

(* The peers, and in a second call the peers whose imports are listed.     *)
StartCheck(c) ==
    /\ chk[c].pc = "idle"
    /\ Arrives
    /\ \E u \in known, S \in SUBSET Plates \ {{}}, k \in {"check", "gps"} :
         chk' = [chk EXCEPT ![c] = [NoCheck EXCEPT !.pc = "meta", !.kind = k, !.user = u,
                                                   !.plates = S, !.peers = Peers(u)]]
    /\ UNCHANGED <<userDb, postgres, imp, adm, history>>

ReadMetaPeers(c) ==
    /\ chk[c].pc = "meta" /\ chk[c].todo = {}
    /\ chk' = [chk EXCEPT ![c].todo = Peers(chk[c].user)]
    /\ UNCHANGED <<userDb, postgres, imp, adm, history, begun>>

(* The imports of each of them, a transaction per peer.  No rows at all    *)
(* ends the request (NO_STORED_LARGE).                                     *)
ListPeer(c) ==
    LET r == chk[c] IN
    /\ r.pc = "meta"
    /\ \E v \in r.todo :
         LET rows == v \in Visible(r.user) /\ RowsOf({v}) > 0 IN
         chk' = [chk EXCEPT ![c] =
                   IF rows THEN [r EXCEPT !.pc = "imports", !.todo = {}]
                   ELSE IF r.todo = {v} THEN NoCheck
                   ELSE [r EXCEPT !.todo = @ \ {v}]]
    /\ UNCHANGED <<userDb, postgres, imp, adm, history, begun>>

(* _load_imports_ordered_for_peers.  Only a check stops without imports.   *)
ReadImports(c) ==
    LET r == chk[c]
        seen == {i.id : i \in {j \in imports : j.owner \in r.peers \cap Visible(r.user)}}
    IN  /\ r.pc = "imports"
        /\ chk' = [chk EXCEPT ![c] = IF seen = {} /\ r.kind = "check" THEN NoCheck
                                     ELSE [r EXCEPT !.pc = "rows", !.listed = seen]]
        /\ UNCHANGED <<userDb, postgres, imp, adm, history, begun>>

(* Mutant: the rows are read as the table owner, past the policy. *)
FoundAnywhere(r) == {i \in imports : i.plates \cap r.plates # {}}

(* _fetch_matches_by_plates_batch asks for the plates, not for the         *)
(* imports.  A check writes the sections of the listed imports but counts  *)
(* every plate that was found as a hit; the GPS points are those of all    *)
(* rows found.                                                             *)
Found(r) == {i \in imports : i.owner \in Visible(r.user) /\ i.plates \cap r.plates # {}}

Exported(r) == IF r.kind = "check" THEN {i \in Found(r) : i.id \in r.listed} ELSE Found(r)

ReadRows(c) ==
    LET r == chk[c] IN
    /\ r.pc = "rows"
    /\ chk' = [chk EXCEPT ![c] =
                 [r EXCEPT !.pc = "done", !.visible = Visible(r.user),
                           !.hits = r.plates \cap UNION {i.plates : i \in Found(r)},
                           !.exported = Exported(r)]]
    /\ UNCHANGED <<userDb, postgres, imp, adm, history, begun>>

EndCheck(c) ==
    /\ chk[c].pc = "done"
    /\ chk' = [chk EXCEPT ![c] = NoCheck]
    /\ UNCHANGED <<userDb, postgres, imp, adm, history, begun>>

Checking(c) == \/ StartCheck(c) \/ ReadMetaPeers(c) \/ ListPeer(c) \/ ReadImports(c)
               \/ ReadRows(c) \/ EndCheck(c)

-----------------------------------------------------------------------------
(* routers/admin.py.  The group quota is counted with admin rights over    *)
(* the members the user database lists.                                    *)

(* History: does a request about u and g meet another of the same user, or *)
(* the deletion of the group it puts a user in?                            *)
Meets(a, pc, u, g) ==
    \E b \in Admins \ {a} :
      /\ adm[b].pc # "idle"
      /\ \/ u # None /\ adm[b].user = u
         \/ g # None /\ adm[b].group = g /\ "unmirror" \in {pc, adm[b].pc}

Begin(a, pc, u, g, l) ==
    /\ adm[a].pc = "idle"
    /\ Arrives
    /\ adm' = [adm EXCEPT ![a] = [pc |-> pc, user |-> u, group |-> g, max |-> l]]
    /\ crossed' = (crossed \/ Meets(a, pc, u, g))

(* Mutant: only the rows of the present members are counted. *)
AdmitsMembers(g, U) == Live(g) /\ RowsOf(Members(g)) <= limit[g]

(* _ensure_group_quota_allows_membership *)
Admits(g, U) == Live(g) /\ RowsOf(Members(g) \cup U) <= limit[g]

BeginMove(a) ==
    /\ \E u \in known : \E g \in {h \in Groups : Admits(h, {u})} \cup {None} :
         Begin(a, "move", u, g, None)
    /\ UNCHANGED <<userDb, postgres, imp, chk, failures, stale, lapses>>

BeginCreate(a) ==
    /\ \E g \in {h \in Groups : Admits(h, {})} \cup {None} :
         Begin(a, "create", None, g, None)
    /\ UNCHANGED <<userDb, postgres, imp, chk, failures, stale, lapses>>

(* The commit fails when the user is gone; when the group is, it may.      *)
CommitMove(a) ==
    LET r == adm[a]
        commits == r.user \in known
        fails == r.user \notin known \/ (r.group # None /\ ~Live(r.group))
    IN  /\ r.pc = "move"
        /\ \/ /\ commits
              /\ adm' = [adm EXCEPT ![a] = [r EXCEPT !.pc = "sync"]]
              /\ groupOf' = [groupOf EXCEPT ![r.user] = r.group]
              /\ Relies(a) /\ Misleads(Informed, a)
           \/ /\ fails
              /\ adm' = [adm EXCEPT ![a] = NoAdmin]
              /\ stale' = stale \ {a}
              /\ UNCHANGED <<groupOf, lapses>>
        /\ UNCHANGED <<known, limit, own, postgres, imp, chk, failures, crossed, begun>>

(* The new user gets any id not in use, its rows not looked at: the quota  *)
(* was counted for an id of -1, "new user has no stored rows yet".         *)
CommitCreate(a) ==
    LET r == adm[a]
        fails == r.group # None /\ ~Live(r.group)
    IN  /\ r.pc = "create"
        /\ \/ \E u \in Users \ known, l \in Limits :
                 /\ known' = known \cup {u}
                 /\ groupOf' = [groupOf EXCEPT ![u] = r.group]
                 /\ own' = [own EXCEPT ![u] = l]
                 /\ adm' = [adm EXCEPT ![a] = [r EXCEPT !.pc = "sync", !.user = u]]
                 /\ lapses' = lapses \cup {x \in {"inherited"} : RowsOf({u}) > 0}
                 /\ Misleads(Informed, a)
           \/ /\ fails
              /\ adm' = [adm EXCEPT ![a] = NoAdmin]
              /\ stale' = stale \ {a}
              /\ UNCHANGED <<known, groupOf, own, lapses>>
        /\ UNCHANGED <<limit, postgres, imp, chk, failures, crossed, begun>>

(* Mutant: leaving a group is not mirrored. *)
SyncJoined(a) ==
    /\ adm[a].pc = "sync"
    /\ mirror' = IF adm[a].group = None THEN mirror
                 ELSE [mirror EXCEPT ![adm[a].user] = adm[a].group]
    /\ adm' = [adm EXCEPT ![a] = NoAdmin]
    /\ chk' = Moved
    /\ UNCHANGED <<userDb, imports, nextId, imp, begun, history>>

(* sync_user_group_membership_postgres, in autocommit. *)
Sync(a) ==
    /\ adm[a].pc = "sync"
    /\ mirror' = [mirror EXCEPT ![adm[a].user] = adm[a].group]
    /\ adm' = [adm EXCEPT ![a] = NoAdmin]
    /\ chk' = Moved
    /\ UNCHANGED <<userDb, imports, nextId, imp, history, begun>>

(* delete_group commits, then removes the mirror rows of the group. *)
DeleteGroup(a) ==
    /\ \E g \in Groups :
         /\ Live(g)
         /\ Begin(a, "unmirror", None, g, None)
         /\ groupOf' = [u \in Users |-> IF groupOf[u] = g THEN None ELSE groupOf[u]]
         /\ limit' = [limit EXCEPT ![g] = None]
    /\ Misleads(Informed, a)
    /\ UNCHANGED <<known, own, postgres, imp, chk, failures, lapses>>

Unmirror(a) ==
    /\ adm[a].pc = "unmirror"
    /\ mirror' = [u \in Users |-> IF mirror[u] = adm[a].group THEN None ELSE mirror[u]]
    /\ adm' = [adm EXCEPT ![a] = NoAdmin]
    /\ chk' = Moved
    /\ UNCHANGED <<userDb, imports, nextId, imp, history, begun>>

(* delete_user removes the mirror row first, then commits.  One does not   *)
(* delete oneself, nor the last admin.  The stored imports stay.           *)
DeleteUser(a) ==
    /\ \E u \in known :
         /\ (AdminUsers \cap known) \ {u} # {}
         /\ Begin(a, "forget", u, None, None)
         /\ mirror' = [mirror EXCEPT ![u] = None]
    /\ chk' = Moved
    /\ UNCHANGED <<userDb, imports, nextId, imp, failures, stale, lapses>>

(* Mutant: the limit of a deleted user is set to zero. *)
ForgetToZero(a) ==
    LET u == adm[a].user IN
    /\ adm[a].pc = "forget"
    /\ known' = known \ {u}
    /\ groupOf' = [groupOf EXCEPT ![u] = None]
    /\ own' = [own EXCEPT ![u] = 0]
    /\ adm' = [adm EXCEPT ![a] = NoAdmin]
    /\ Misleads(Informed, a)
    /\ UNCHANGED <<limit, postgres, imp, chk, begun, failures, crossed, lapses>>

Forget(a) ==
    LET u == adm[a].user IN
    /\ adm[a].pc = "forget"
    /\ known' = known \ {u}
    /\ groupOf' = [groupOf EXCEPT ![u] = None]
    /\ own' = [own EXCEPT ![u] = None]
    /\ adm' = [adm EXCEPT ![a] = NoAdmin]
    /\ Misleads(Informed, a)
    /\ UNCHANGED <<limit, postgres, imp, chk, failures, crossed, lapses, begun>>

(* A Postgres call or the commit behind it fails, or the process dies: the *)
(* rest of the handler does not happen.                                    *)
CutShort(a) ==
    /\ adm[a].pc # "idle"
    /\ failures < MaxFailures
    /\ failures' = failures + 1
    /\ adm' = [adm EXCEPT ![a] = NoAdmin]
    /\ crossed' = (crossed \/ adm[a].pc \in {"sync", "unmirror", "forget"})
    /\ stale' = stale \ {a}
    /\ UNCHANGED <<userDb, postgres, imp, chk, lapses, begun>>

BeginLimit(a) ==
    /\ \E g \in Groups, l \in Limits :
         /\ Live(g) /\ RowsOf(Members(g)) <= l
         /\ Begin(a, "limit", None, g, l)
    /\ UNCHANGED <<userDb, postgres, imp, chk, failures, stale, lapses>>

CommitLimit(a) ==
    LET r == adm[a] IN
    /\ r.pc = "limit"
    /\ limit' = IF Live(r.group) THEN [limit EXCEPT ![r.group] = r.max] ELSE limit
    /\ adm' = [adm EXCEPT ![a] = NoAdmin]
    /\ Relies(a)
    /\ Misleads(Informed, a)
    /\ UNCHANGED <<known, groupOf, own, postgres, imp, chk, failures, crossed, begun>>

(* update_user_rows_limit counts nothing. *)
LimitUser(a) ==
    /\ adm[a].pc = "idle"
    /\ Arrives
    /\ \E u \in known, l \in Limits : own' = [own EXCEPT ![u] = l]
    /\ UNCHANGED <<known, groupOf, limit, postgres, imp, chk, adm, history>>

Administering(a) == \/ BeginMove(a) \/ BeginCreate(a) \/ CommitMove(a) \/ CommitCreate(a)
                    \/ Sync(a) \/ DeleteGroup(a) \/ Unmirror(a) \/ DeleteUser(a) \/ Forget(a)
                    \/ CutShort(a) \/ BeginLimit(a) \/ CommitLimit(a) \/ LimitUser(a)

-----------------------------------------------------------------------------
Next == \/ \E p \in Importers : Importing(p)
        \/ \E u \in known : DeleteImport(u)
        \/ \E c \in Checkers : Checking(c)
        \/ \E a \in Admins : Administering(a)

Spec == Init /\ [][Next]_vars

-----------------------------------------------------------------------------
(* The properties.                                                         *)

(* Once no admin handler is under way, the mirror that the policies read   *)
(* lists every user under the group the user database has - unless two     *)
(* processes worked on one user at a time, a group was deleted while a     *)
(* user was put in it, or a handler was cut short between the two          *)
(* databases (admin.py:480-613, 735-761).                                  *)
MirrorAgrees ==
    (~crossed /\ \A a \in Admins : adm[a].pc = "idle") => mirror = groupOf

(* The rows of a group's members stay within its limit, whoever imports,   *)
(* moves, creates, deletes or changes limits, in whatever order - until    *)
(* one of three things has happened, which the code does not prevent: a    *)
(* request committed on a count or limit that had changed since it read it *)
(* (the count and the insert are two transactions,                         *)
(* check_postgres.py:826-846); an import was stored whose peers, read from *)
(* the mirror, were not the members of the group, because a handler had    *)
(* still to write the mirror or had failed to (check_postgres.py:820,      *)
(* admin.py:735-761), in which case imports one after the other overshoot; *)
(* or a new user got the id of a deleted one whose rows are still stored   *)
(* (admin.py:339).                                                         *)
GroupQuota ==
    lapses = {} => \A g \in Groups : Live(g) => RowsOf(Members(g)) <= limit[g]

(* Two imports of one user and name are stored only when neither lookup    *)
(* could see the other; an import without rows only while its request has  *)
(* still to remove it, or after a crash (check_postgres.py:844-895).       *)
ImportsSound ==
    \A i \in imports :
      /\ \A j \in imports : i.owner = j.owner /\ i.name = j.name => i.id \notin j.looked
      /\ i.plates = {} => \/ \E p \in Importers : imp[p].pc = "remove" /\ imp[p].id = i.id
                          \/ failures > 0

(* Whatever happens between the statements of a check, it exports rows     *)
(* only of users that were the requester's peers when it began and that    *)
(* the policy still shows when the rows are read.  And when neither        *)
(* imports nor mirror changed during the request of a user who is no       *)
(* admin, its hits are the plates it exports rows for, and these are       *)
(* exactly the matches in the files of the group (check_postgres.py:1101,  *)
(* 1176, 1208).                                                            *)
ExportVisible(r) ==
    \A i \in r.exported : /\ i.owner \in r.visible
                          /\ r.kind = "check" => i.owner \in r.peers
CheckExact(r) ==
    ~r.moved /\ r.user \notin AdminUsers =>
      /\ r.hits = r.plates \cap UNION {i.plates : i \in r.exported}
      /\ r.exported = {i \in imports : i.owner \in Peers(r.user) /\ i.plates \cap r.plates # {}}
CheckSound == \A c \in Checkers : chk[c].pc = "done" => ExportVisible(chk[c]) /\ CheckExact(chk[c])
=============================================================================
