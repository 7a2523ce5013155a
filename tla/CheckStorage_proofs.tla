-------------------------- MODULE CheckStorage_proofs --------------------------
(***************************************************************************)
(* The safety properties of CheckStorage for any users, groups, files and  *)
(* limits, and any number of threads and processes: the mirror, the        *)
(* imports, what a check reads, and the quota of a group.                  *)
(***************************************************************************)
EXTENDS CheckStorage, FiniteSetTheorems, TLAPS

-----------------------------------------------------------------------------
(* The invariant, in three parts: the imports, the checks, the admin requests. *)

ImportsTyped ==
  /\ imports \subseteq Import
  /\ nextId \in 1..MaxRequests + 1
  /\ imp \in [Importers -> ImportRequest]
  /\ begun \in 0..MaxRequests
  /\ failures \in 0..MaxFailures
ChecksTyped == chk \in [Checkers -> CheckRequest]
AdminsTyped ==
  /\ known \subseteq Users
  /\ groupOf \in [Users -> Groups \cup {None}]
  /\ limit \in [Groups -> Limits \cup {None}]
  /\ own \in [Users -> Limits \cup {None}]
  /\ mirror \in [Users -> Groups \cup {None}]
  /\ adm \in [Admins -> AdminRequest]
HistoryTyped ==
  /\ stale \subseteq Importers \cup Admins
  /\ crossed \in BOOLEAN
  /\ lapses \subseteq Lapse

\* Every id of the sequence stands for a request that was begun: the importers that have not
\* inserted yet have theirs to come.
Uninserted == {"peers", "count", "lookup", "insert"}
Unserved == {p \in Importers : imp[p].pc \in Uninserted}
CountInv == /\ IsFiniteSet(Unserved)
            /\ nextId + Cardinality(Unserved) <= begun + 1

\* A request under way has its user and file name.
ImporterInv ==
  \A p \in Importers : imp[p].pc # "idle" => imp[p].user \in Users /\ imp[p].name \in Names

\* Ids are handed out once, in order; a lookup knows ids of the past.
IdInv ==
  /\ \A i \in imports : i.id < nextId /\ i.looked \subseteq 1..(nextId - 1)
  /\ \A i, j \in imports : i.id = j.id => i = j
  /\ \A p \in Importers : imp[p].pc = "insert" => imp[p].looked \subseteq 1..(nextId - 1)
  /\ \A p \in Importers : imp[p].pc = "remove" => imp[p].id < nextId

\* An importer about to insert saw no import of this name; one about to remove has its own.
LookInv ==
  \A p \in Importers : \A i \in imports :
    /\ imp[p].pc = "insert" /\ i.owner = imp[p].user /\ i.name = imp[p].name
         => i.id \notin imp[p].looked
    /\ imp[p].pc = "remove" /\ i.id = imp[p].id => i.owner = imp[p].user

ImportsInv == ImportsTyped /\ CountInv /\ ImporterInv /\ IdInv /\ LookInv /\ ImportsSound

\* What a check has read so far is what it would read now, unless something moved; what it
\* listed are imports of the peers it read.
OfPeers(u) == {i \in imports : i.owner \in Peers(u)}
ReadInv(r) ==
  /\ r.pc # "idle" => r.user \in Users
  /\ r.pc # "idle" /\ ~ r.moved => r.peers = Peers(r.user)
  /\ r.pc = "rows" => /\ r.listed \subseteq 1..(nextId - 1)
                      /\ \A i \in imports : i.id \in r.listed => i.owner \in r.peers
  /\ r.pc = "rows" /\ ~ r.moved /\ r.user \notin AdminUsers
       => \A i \in OfPeers(r.user) : i.id \in r.listed
  /\ r.pc = "done" => ExportVisible(r) /\ CheckExact(r)

ChecksInv == ChecksTyped /\ \A c \in Checkers : ReadInv(chk[c])

\* The fields of an admin request that its state fills.
AdminInv ==
  \A a \in Admins :
    /\ adm[a].pc \in {"move", "sync", "forget"} <=> adm[a].user # None
    /\ adm[a].pc = "unmirror" => adm[a].group \in Groups /\ ~ Live(adm[a].group)
    /\ adm[a].pc = "limit" => adm[a].max \in Limits /\ adm[a].group \in Groups

\* A user is in a group that exists, and so is the group a request puts one in.  This too
\* holds only as long as no group is deleted while a user is put in it.
MemberInv ==
  /\ \A u \in Users : groupOf[u] # None => Live(groupOf[u])
  /\ \A a \in Admins : adm[a].pc \in {"move", "create"} /\ adm[a].group # None => Live(adm[a].group)

\* As long as no two admin requests met, each user is worked on by one of them, and one whose
\* mirror row differs is the business of a request that will correct it.
Behind(u) ==
  \E a \in Admins : \/ adm[a].pc = "sync" /\ adm[a].user = u
                    \/ adm[a].pc = "forget" /\ adm[a].user = u
                    \/ adm[a].pc = "unmirror" /\ mirror[u] = adm[a].group /\ groupOf[u] = None
MirrorInv ==
  ~ crossed =>
    /\ MemberInv
    /\ \A a \in Admins : adm[a].user \in known \cup {None}
    /\ \A a, b \in Admins : adm[a].user = adm[b].user /\ adm[a].user # None => a = b
    /\ \A a \in Admins : adm[a].pc = "sync" => groupOf[adm[a].user] = adm[a].group
    /\ \A a \in Admins : adm[a].pc = "forget" => mirror[adm[a].user] = None
    /\ \A u \in Users : mirror[u] = groupOf[u] \/ Behind(u)

AdminsInv == AdminsTyped /\ AdminInv /\ MirrorInv

CInv == ImportsInv /\ ChecksInv /\ AdminsInv /\ HistoryTyped
-----------------------------------------------------------------------------
(* Steps that leave a part alone. *)

LEMMA ImportsFrame ==
  ASSUME ImportsInv, UNCHANGED <<imp, imports, nextId>>,
         begun' \in begun..MaxRequests, failures' \in failures..MaxFailures
  PROVE  ImportsInv'
  <1>1. ImportsTyped'
    BY StorageAssumption DEF ImportsInv, ImportsTyped
  <1>2. Unserved' = Unserved
    BY DEF Unserved
  <1>3. CountInv'
    <2>1. Cardinality(Unserved) \in Nat
      BY FS_CardinalityType DEF ImportsInv, CountInv
    <2>2. QED
      BY <1>2, <2>1, StorageAssumption DEF ImportsInv, ImportsTyped, CountInv
  <1>4. ImporterInv' /\ IdInv' /\ LookInv'
    BY DEF ImportsInv, ImporterInv, IdInv, LookInv
  <1>5. ImportsSound'
    BY StorageAssumption DEF ImportsInv, ImportsTyped, ImportsSound
  <1>6. QED
    BY <1>1, <1>3, <1>4, <1>5 DEF ImportsInv

LEMMA ChecksFrame ==
  ASSUME ChecksInv, UNCHANGED <<chk, imports, mirror, nextId>>
  PROVE  ChecksInv'
  BY DEF ChecksInv, ChecksTyped, ReadInv, OfPeers, Peers, ExportVisible, CheckExact

LEMMA MarkedRequest ==
  ASSUME NEW r \in CheckRequest, NEW b \in BOOLEAN
  PROVE  LET m == [r EXCEPT !.moved = b] IN
         /\ m \in CheckRequest /\ m.moved = b
         /\ m.pc = r.pc /\ m.kind = r.kind /\ m.user = r.user /\ m.plates = r.plates
         /\ m.peers = r.peers /\ m.listed = r.listed /\ m.visible = r.visible
         /\ m.hits = r.hits /\ m.exported = r.exported
  BY DEF CheckRequest

\* The imports of the past keep their ids, and every check under way is marked.
LEMMA ChecksMoved ==
  ASSUME ChecksInv, chk' = Moved, nextId \in Nat, nextId' \in Nat, nextId' >= nextId,
         \A i \in imports' : i \in imports \/ i.id = nextId
  PROVE  ChecksInv'
  <1> USE DEF ChecksInv, ChecksTyped
  <1>1. ASSUME NEW c \in Checkers
        PROVE  /\ chk'[c] \in CheckRequest
               /\ chk[c].pc # "idle" => chk'[c].moved
               /\ chk'[c].pc = chk[c].pc /\ chk'[c].kind = chk[c].kind
               /\ chk'[c].user = chk[c].user /\ chk'[c].peers = chk[c].peers
               /\ chk'[c].listed = chk[c].listed /\ chk'[c].visible = chk[c].visible
               /\ chk'[c].exported = chk[c].exported
    <2> DEFINE b == chk[c].moved \/ chk[c].pc # "idle"
    <2>1. b \in BOOLEAN /\ chk'[c] = [chk[c] EXCEPT !.moved = b]
      BY DEF Moved
    <2>2. chk[c].pc # "idle" => b
      OBVIOUS
    <2> HIDE DEF b
    <2>3. QED
      BY <2>1, <2>2, MarkedRequest
  <1>2. ChecksTyped'
    BY <1>1 DEF Moved
  <1>3. ASSUME NEW c \in Checkers PROVE ReadInv(chk[c])'
    <2>1. chk[c].pc = "rows" => nextId \notin chk[c].listed
      BY DEF ReadInv
    <2>2. QED
      BY <1>1, <2>1 DEF ReadInv, ExportVisible, CheckExact
  <1>4. QED
    BY <1>2, <1>3

LEMMA AdminsFrame ==
  ASSUME AdminsInv, UNCHANGED <<userDb, mirror, adm, crossed>>
  PROVE  AdminsInv'
  BY DEF AdminsInv, AdminsTyped, AdminInv, MemberInv, MirrorInv, Behind, Live, userDb

\* The membership of the requester's group in the mirror is made of users.
LEMMA PeersType == ASSUME NEW u \in Users PROVE Peers(u) \subseteq Users /\ u \in Peers(u)
  BY DEF Peers
-----------------------------------------------------------------------------
(* Imports. *)

\* A step of one importer that neither begins nor inserts anything leaves its count alone,
\* or gives its turn up.
LEMMA UnservedStep ==
  ASSUME ImportsTyped, CountInv, NEW p \in Importers,
         \A q \in Importers \ {p} : imp'[q] = imp[q], begun' = begun,
         \/ nextId' = nextId /\ (imp'[p].pc \in Uninserted => imp[p].pc \in Uninserted)
         \/ nextId' = nextId + 1 /\ imp[p].pc \in Uninserted /\ imp'[p].pc \notin Uninserted
  PROVE  CountInv'
  <1>1. IsFiniteSet(Unserved) /\ Cardinality(Unserved) \in Nat
    BY FS_CardinalityType DEF CountInv
  <1>2. Unserved' = Unserved \/ (p \in Unserved /\ Unserved' = Unserved \ {p})
    BY DEF Unserved
  <1>3. p \in Unserved => /\ IsFiniteSet(Unserved \ {p})
                          /\ Cardinality(Unserved \ {p}) = Cardinality(Unserved) - 1
    BY <1>1, FS_RemoveElement
  <1>4. nextId' = nextId + 1 => p \in Unserved /\ Unserved' = Unserved \ {p}
    BY <1>2 DEF Unserved, ImportsTyped
  <1>5. QED
    <2>1. CASE nextId' = nextId /\ Unserved' = Unserved
      BY <1>1, <1>4, <2>1, StorageAssumption DEF CountInv, ImportsTyped
    <2>2. CASE p \in Unserved /\ Unserved' = Unserved \ {p}
      BY <1>1, <1>3, <2>2, StorageAssumption DEF CountInv, ImportsTyped
    <2>3. QED
      BY <1>2, <1>4, <2>1, <2>2

\* What the importers stand for changes with one of them, the tables stay as they are.
LEMMA ImporterMoves ==
  ASSUME ImportsInv, NEW p \in Importers, NEW r \in ImportRequest,
         imp' = [imp EXCEPT ![p] = r], UNCHANGED <<imports, nextId>>,
         begun' \in 0..MaxRequests, failures' \in failures..MaxFailures,
         CountInv',
         r.pc # "idle" => r.user \in Users /\ r.name \in Names,
         r.pc # "remove", imp[p].pc # "remove" \/ failures' > 0,
         r.pc = "insert" => /\ r.looked \subseteq 1..(nextId - 1)
                            /\ \A i \in imports : ~ (i.owner = r.user /\ i.name = r.name)
  PROVE  ImportsInv'
  <1> USE DEF ImportsInv
  <1>1. imp'[p] = r /\ \A q \in Importers \ {p} : imp'[q] = imp[q]
    BY DEF ImportsTyped
  <1>2. ImportsTyped'
    BY StorageAssumption DEF ImportsTyped
  <1>3. ImporterInv' /\ IdInv' /\ LookInv'
    BY <1>1 DEF ImporterInv, IdInv, LookInv
  <1>4. ImportsSound'
    BY <1>1, StorageAssumption DEF ImportsSound, ImportsTyped
  <1>5. QED
    BY <1>2, <1>3, <1>4

LEMMA NoImportType == NoImport \in ImportRequest
  BY StorageAssumption DEF ImportRequest, NoImport

LEMMA ReceiveCInv == ASSUME CInv, NEW p \in Importers, Receive(p) PROVE CInv'
  <1> USE DEF CInv
  <1>1. /\ imp[p].pc = "idle" /\ begun' = begun + 1 /\ begun < MaxRequests
        /\ UNCHANGED <<userDb, postgres, chk, adm, history>>
    BY DEF Receive, Arrives
  <1>2. PICK u \in known, n \in Names, S \in SUBSET Plates :
          imp' = [imp EXCEPT ![p] =
                    [NoImport EXCEPT !.pc = IF GroupLimit(u) = None THEN "count" ELSE "peers",
                                     !.user = u, !.name = n, !.plates = S, !.peers = {u},
                                     !.max = IF GroupLimit(u) = None THEN own[u]
                                             ELSE GroupLimit(u)]]
    BY DEF Receive
  <1>3. PICK r : /\ imp' = [imp EXCEPT ![p] = r]
                 /\ r = [NoImport EXCEPT !.pc = IF GroupLimit(u) = None THEN "count" ELSE "peers",
                                         !.user = u, !.name = n, !.plates = S, !.peers = {u},
                                         !.max = IF GroupLimit(u) = None THEN own[u]
                                                 ELSE GroupLimit(u)]
    BY <1>2
  <1>4. u \in Users /\ groupOf[u] \in Groups \cup {None}
    BY DEF AdminsInv, AdminsTyped
  <1>5. own[u] \in Limits \cup {None} /\ GroupLimit(u) \in Limits \cup {None}
    BY <1>4 DEF AdminsInv, AdminsTyped, GroupLimit
  <1>6. r \in ImportRequest /\ r.pc \in {"peers", "count"} /\ r.user = u /\ r.name = n
    BY <1>3, <1>4, <1>5, NoImportType DEF ImportRequest
  <1>7. CountInv'
    <2>1. p \notin Unserved /\ Unserved' = Unserved \cup {p}
      BY <1>1, <1>3, <1>6 DEF Unserved, Uninserted, ImportsInv, ImportsTyped
    <2>2. /\ IsFiniteSet(Unserved \cup {p})
          /\ Cardinality(Unserved \cup {p}) = Cardinality(Unserved) + 1
          /\ Cardinality(Unserved) \in Nat
      BY <2>1, FS_AddElement, FS_CardinalityType DEF ImportsInv, CountInv
    <2>3. QED
      BY <1>1, <2>1, <2>2, StorageAssumption
      DEF ImportsInv, ImportsTyped, CountInv, postgres
  <1>8. ImportsInv'
    <2>1. begun' \in 0..MaxRequests /\ failures' \in failures..MaxFailures
      BY <1>1, StorageAssumption DEF ImportsInv, ImportsTyped, history
    <2>2. r.user \in Users /\ r.name \in Names
      BY <1>4, <1>6
    <2>3. UNCHANGED <<imports, nextId>> /\ imp[p].pc # "remove"
      BY <1>1 DEF postgres
    <2>4. QED
      BY <1>3, <1>6, <1>7, <2>1, <2>2, <2>3, ImporterMoves
  <1>9. ChecksInv' /\ AdminsInv' /\ HistoryTyped'
    BY <1>1, ChecksFrame, AdminsFrame DEF userDb, postgres, history, HistoryTyped
  <1>10. QED
    BY <1>8, <1>9

\* A step of an importer that touches neither the tables nor another request.
LEMMA ImporterStep ==
  ASSUME CInv, NEW p \in Importers, NEW r \in ImportRequest,
         imp' = [imp EXCEPT ![p] = r], UNCHANGED <<userDb, postgres, chk, adm, crossed>>,
         begun' = begun, failures' \in failures..MaxFailures,
         r.pc \in Uninserted => imp[p].pc \in Uninserted,
         r.pc # "idle" => r.user \in Users /\ r.name \in Names,
         r.pc # "remove", imp[p].pc # "remove" \/ failures' > 0,
         r.pc = "insert" => /\ r.looked \subseteq 1..(nextId - 1)
                            /\ \A i \in imports : ~ (i.owner = r.user /\ i.name = r.name),
         HistoryTyped'
  PROVE  CInv'
  <1> USE DEF CInv
  <1>1. UNCHANGED <<imports, nextId, mirror>> /\ imp'[p] = r
        /\ \A q \in Importers \ {p} : imp'[q] = imp[q]
    BY DEF postgres, ImportsInv, ImportsTyped
  <1>2. CountInv'
    BY <1>1, UnservedStep DEF ImportsInv
  <1>3. begun' \in 0..MaxRequests
    BY DEF ImportsInv, ImportsTyped
  <1>4. ImportsInv'
    BY <1>1, <1>2, <1>3, ImporterMoves
  <1>5. ChecksInv' /\ AdminsInv'
    BY <1>1, ChecksFrame, AdminsFrame
  <1>6. QED
    BY <1>4, <1>5

LEMMA ReadPeersCInv == ASSUME CInv, NEW p \in Importers, ReadPeers(p) PROVE CInv'
  <1>1. PICK r : r = [imp[p] EXCEPT !.pc = "count", !.peers = Peers(imp[p].user)]
    OBVIOUS
  <1>2. imp[p] \in ImportRequest /\ imp[p].user \in Users /\ imp[p].name \in Names
    BY DEF CInv, ImportsInv, ImportsTyped, ImporterInv, ReadPeers
  <1>3. imp' = [imp EXCEPT ![p] = r] /\ imp[p].pc = "peers"
    BY <1>1 DEF ReadPeers, CInv, ImportsInv, ImportsTyped
  <1>4. r \in ImportRequest /\ r.pc = "count" /\ r.user = imp[p].user /\ r.name = imp[p].name
    BY <1>1, <1>2, PeersType DEF ImportRequest
  <1>5. failures' \in failures..MaxFailures /\ HistoryTyped'
    BY DEF ReadPeers, history, CInv, ImportsInv, ImportsTyped, HistoryTyped
  <1>6. QED
    BY <1>2, <1>3, <1>4, <1>5, ImporterStep DEF ReadPeers, history, Uninserted

LEMMA CountCInv == ASSUME CInv, NEW p \in Importers, Count(p) PROVE CInv'
  <1>1. PICK b \in BOOLEAN :
          \E r : /\ r = [imp[p] EXCEPT !.pc = "lookup", !.blind = b] \/ r = NoImport
                /\ imp' = [imp EXCEPT ![p] = r]
    BY DEF Count
  <1>2. imp[p] \in ImportRequest /\ imp[p].user \in Users /\ imp[p].name \in Names
    BY DEF CInv, ImportsInv, ImportsTyped, ImporterInv, Count
  <1>3. PICK r : /\ r = [imp[p] EXCEPT !.pc = "lookup", !.blind = b] \/ r = NoImport
                 /\ imp' = [imp EXCEPT ![p] = r]
    BY <1>1
  <1>4. /\ r \in ImportRequest /\ r.pc \in {"idle", "lookup"}
        /\ r.pc = "lookup" => r.user = imp[p].user /\ r.name = imp[p].name
    BY <1>2, <1>3, NoImportType DEF ImportRequest, NoImport
  <1>5. failures' \in failures..MaxFailures /\ HistoryTyped'
    BY DEF Count, CInv, ImportsInv, ImportsTyped, HistoryTyped
  <1>6. QED
    BY <1>2, <1>3, <1>4, <1>5, ImporterStep DEF Count, Uninserted

LEMMA LookUpNameCInv == ASSUME CInv, NEW p \in Importers, LookUpName(p) PROVE CInv'
  <1> DEFINE ids == {i.id : i \in {j \in imports : j.owner = imp[p].user}}
             taken == \E i \in imports : i.owner = imp[p].user /\ i.name = imp[p].name
  <1>1. PICK r : /\ IF taken THEN r = NoImport
                    ELSE r = [imp[p] EXCEPT !.pc = "insert", !.looked = ids]
                 /\ imp' = [imp EXCEPT ![p] = r]
    BY DEF LookUpName
  <1>2. imp[p] \in ImportRequest /\ imp[p].user \in Users /\ imp[p].name \in Names
    BY DEF CInv, ImportsInv, ImportsTyped, ImporterInv, LookUpName
  <1>3. ids \subseteq 1..(nextId - 1) /\ ids \subseteq 1..MaxRequests
    BY StorageAssumption DEF CInv, ImportsInv, ImportsTyped, IdInv, Import
  <1>4. /\ r \in ImportRequest /\ r.pc \in {"idle", "insert"}
        /\ r.pc = "insert" => /\ r.user = imp[p].user /\ r.name = imp[p].name
                              /\ r.looked = ids /\ ~ taken
    <2> HIDE DEF ids, taken
    <2>1. CASE taken
      <3>1. r = NoImport /\ NoImport.pc = "idle"
        BY <1>1, <2>1 DEF NoImport
      <3>2. QED
        BY <3>1, NoImportType
    <2>2. CASE ~ taken
      <3>1. r = [imp[p] EXCEPT !.pc = "insert", !.looked = ids]
        BY <1>1, <2>2
      <3>2. QED
        BY <1>2, <1>3, <2>2, <3>1 DEF ImportRequest
    <2>3. QED
      BY <2>1, <2>2
  <1>5. failures' \in failures..MaxFailures /\ HistoryTyped'
    BY DEF LookUpName, CInv, ImportsInv, ImportsTyped, HistoryTyped
  <1>6. r.pc = "insert" => /\ r.looked \subseteq 1..(nextId - 1)
                           /\ \A i \in imports : ~ (i.owner = r.user /\ i.name = r.name)
    BY <1>3, <1>4
  <1>7. imp' = [imp EXCEPT ![p] = r] /\ imp[p].pc = "lookup"
    BY <1>1 DEF LookUpName
  <1>8. QED
    BY <1>2, <1>4, <1>5, <1>6, <1>7, ImporterStep DEF LookUpName, Uninserted

LEMMA CrashCInv == ASSUME CInv, NEW p \in Importers, Crash(p) PROVE CInv'
  <1>1. NoImport.pc = "idle"
    BY DEF NoImport
  <1>2. /\ failures' \in failures..MaxFailures /\ failures' > 0
        /\ imp' = [imp EXCEPT ![p] = NoImport] /\ HistoryTyped'
    BY StorageAssumption DEF Crash, CInv, ImportsInv, ImportsTyped, HistoryTyped
  <1>3. QED
    BY <1>1, <1>2, NoImportType, ImporterStep DEF Crash, Uninserted

\* The tables change, everybody keeps to what was read.
LEMMA TableStep ==
  ASSUME CInv, chk' = Moved, nextId' \in {nextId, nextId + 1},
         \A i \in imports' : i \in imports \/ i.id = nextId,
         UNCHANGED <<userDb, mirror, adm, crossed>>
  PROVE  ChecksInv' /\ AdminsInv'
  <1>1. nextId \in Nat /\ nextId' \in Nat /\ nextId' >= nextId
    BY StorageAssumption DEF CInv, ImportsInv, ImportsTyped
  <1>2. QED
    BY <1>1, ChecksMoved, AdminsFrame DEF CInv

LEMMA InsertCInv == ASSUME CInv, NEW p \in Importers, Insert(p) PROVE CInv'
  <1> USE DEF CInv
  <1>1. PICK i : i = [id |-> nextId, owner |-> imp[p].user, name |-> imp[p].name,
                      plates |-> imp[p].plates, looked |-> imp[p].looked]
    OBVIOUS
  <1>2. PICK r : /\ imp[p].plates = {} => r = [imp[p] EXCEPT !.pc = "remove", !.id = nextId]
                 /\ imp[p].plates # {} => r = NoImport
                 /\ imp' = [imp EXCEPT ![p] = r]
    BY DEF Insert
  <1>3. /\ imp[p].pc = "insert" /\ imports' = imports \cup {i} /\ nextId' = nextId + 1
        /\ chk' = Moved /\ begun' = begun /\ failures' = failures
        /\ UNCHANGED <<userDb, mirror, adm, crossed>>
    BY <1>1 DEF Insert
  <1>4. imp[p] \in ImportRequest /\ imp[p].user \in Users /\ imp[p].name \in Names
    BY <1>3 DEF ImportsInv, ImportsTyped, ImporterInv
  <1>5. nextId \in 1..MaxRequests
    <2>1. p \in Unserved
      BY <1>3 DEF Unserved, Uninserted
    <2>2. Cardinality(Unserved) \in Nat /\ Cardinality(Unserved) # 0
      BY <2>1, FS_CardinalityType, FS_EmptySet DEF ImportsInv, CountInv
    <2>3. QED
      BY <2>2, StorageAssumption DEF ImportsInv, ImportsTyped, CountInv
  <1>6. /\ i \in Import /\ i.id = nextId /\ i.looked = imp[p].looked
        /\ i.owner = imp[p].user /\ i.name = imp[p].name /\ i.plates = imp[p].plates
    BY <1>1, <1>4, <1>5 DEF Import, ImportRequest
  <1>7. /\ r \in ImportRequest /\ r.pc \in {"idle", "remove"}
        /\ r.pc = "remove" <=> i.plates = {}
        /\ r.pc = "remove" => r.user = i.owner /\ r.name = i.name /\ r.id = nextId
    <2>1. CASE imp[p].plates = {}
      <3>1. r = [imp[p] EXCEPT !.pc = "remove", !.id = nextId] /\ i.plates = {}
        BY <1>2, <1>6, <2>1
      <3>2. /\ r.pc = "remove" /\ r.id = nextId
            /\ r.user = imp[p].user /\ r.name = imp[p].name
        BY <1>4, <3>1 DEF ImportRequest
      <3>3. nextId \in 0..MaxRequests
        BY <1>5
      <3>4. r \in ImportRequest
        BY <1>4, <3>1, <3>3 DEF ImportRequest
      <3>5. QED
        BY <1>6, <3>1, <3>2, <3>4
    <2>2. CASE imp[p].plates # {}
      <3>1. r = NoImport /\ i.plates # {}
        BY <1>2, <1>6, <2>2
      <3>2. NoImport.pc = "idle"
        BY DEF NoImport
      <3>3. QED
        BY <3>1, <3>2, NoImportType
    <2>3. QED
      BY <2>1, <2>2
  <1>8. imp'[p] = r /\ \A q \in Importers \ {p} : imp'[q] = imp[q]
    BY <1>2 DEF ImportsInv, ImportsTyped
  <1>9. ImportsTyped'
    BY <1>2, <1>3, <1>5, <1>6, <1>7, StorageAssumption DEF ImportsInv, ImportsTyped
  <1>10. CountInv'
    BY <1>3, <1>7, <1>8, UnservedStep DEF ImportsInv, Uninserted
  <1>11. ImporterInv'
    BY <1>4, <1>6, <1>7, <1>8 DEF ImportsInv, ImporterInv
  <1>12. IdInv'
    <2>0. 1..(nextId - 1) \subseteq 1..(nextId' - 1) /\ nextId < nextId'
      BY <1>3, <1>5
    <2>1. \A k \in imports' : k.id < nextId' /\ k.looked \subseteq 1..(nextId' - 1)
      <3>1. ASSUME NEW k \in imports PROVE k.id < nextId' /\ k.looked \subseteq 1..(nextId' - 1)
        BY <1>3, <1>5, <2>0 DEF ImportsInv, ImportsTyped, Import, IdInv
      <3>2. i.id < nextId' /\ i.looked \subseteq 1..(nextId' - 1)
        BY <1>3, <1>6, <2>0 DEF ImportsInv, IdInv
      <3>3. QED
        BY <1>3, <3>1, <3>2
    <2>2. \A k, j \in imports' : k.id = j.id => k = j
      BY <1>3, <1>5, <1>6 DEF ImportsInv, IdInv
    <2>3. \A q \in Importers : imp'[q].pc = "insert" => imp'[q].looked \subseteq 1..(nextId' - 1)
      BY <1>7, <1>8, <2>0 DEF ImportsInv, IdInv
    <2>4. \A q \in Importers : imp'[q].pc = "remove" => imp'[q].id < nextId'
      BY <1>3, <1>5, <1>7, <1>8 DEF ImportsInv, ImportsTyped, ImportRequest, IdInv
    <2>5. QED
      BY <2>1, <2>2, <2>3, <2>4 DEF IdInv
  <1>13. LookInv'
    BY <1>3, <1>5, <1>6, <1>7, <1>8 DEF ImportsInv, IdInv, LookInv
  <1>14. ImportsSound'
    <2>1. ASSUME NEW k \in imports', NEW j \in imports', k.owner = j.owner, k.name = j.name
          PROVE  k.id \notin j.looked
      BY <1>3, <1>5, <1>6, <2>1 DEF ImportsInv, IdInv, LookInv, ImportsSound
    <2>2. ASSUME NEW k \in imports', k.plates = {}
          PROVE  \/ \E q \in Importers : imp'[q].pc = "remove" /\ imp'[q].id = k.id
                 \/ failures' > 0
      BY <1>3, <1>6, <1>7, <1>8, <2>2 DEF ImportsInv, ImportsSound
    <2>3. QED
      BY <2>1, <2>2 DEF ImportsSound
  <1>15. ImportsInv'
    BY <1>9, <1>10, <1>11, <1>12, <1>13, <1>14 DEF ImportsInv
  <1>16. HistoryTyped'
    BY DEF HistoryTyped, Insert, Lapse, Misleads, Counted
  <1>17. QED
    BY <1>3, <1>6, <1>15, <1>16, TableStep

LEMMA RemoveEmptyCInv == ASSUME CInv, NEW p \in Importers, RemoveEmpty(p) PROVE CInv'
  <1> USE DEF CInv
  <1>1. /\ imp[p].pc = "remove" /\ chk' = Moved
        /\ imports' = {i \in imports : ~(i.id = imp[p].id /\ i.owner = imp[p].user)}
        /\ imp' = [imp EXCEPT ![p] = NoImport]
        /\ UNCHANGED <<userDb, mirror, nextId, adm, stale, crossed, lapses, begun, failures>>
    BY DEF RemoveEmpty, history
  <1>2. /\ imp'[p] = NoImport /\ NoImport.pc = "idle"
        /\ \A q \in Importers \ {p} : imp'[q] = imp[q]
    BY <1>1 DEF ImportsInv, ImportsTyped, NoImport
  <1>3. \A i \in imports' : i \in imports /\ i.id # imp[p].id
    BY <1>1 DEF ImportsInv, LookInv
  <1>4. ImportsTyped'
    BY <1>1, <1>3, NoImportType DEF ImportsInv, ImportsTyped
  <1>5. CountInv'
    BY <1>1, <1>2, UnservedStep DEF ImportsInv, Uninserted
  <1>6. ImporterInv' /\ IdInv' /\ LookInv'
    BY <1>1, <1>2, <1>3 DEF ImportsInv, ImporterInv, IdInv, LookInv
  <1>7. ImportsSound'
    BY <1>1, <1>2, <1>3 DEF ImportsInv, ImportsSound
  <1>8. ImportsInv'
    BY <1>4, <1>5, <1>6, <1>7 DEF ImportsInv
  <1>9. QED
    BY <1>1, <1>3, <1>8, TableStep DEF HistoryTyped

LEMMA DeleteImportCInv == ASSUME CInv, NEW u \in known, DeleteImport(u) PROVE CInv'
  <1> USE DEF CInv
  <1>1. PICK i \in imports : imports' = imports \ {i}
    BY DEF DeleteImport
  <1>2. /\ chk' = Moved /\ begun' \in 0..MaxRequests /\ begun' = begun + 1
        /\ UNCHANGED <<userDb, mirror, nextId, imp, adm, stale, crossed, lapses, failures>>
    BY StorageAssumption DEF DeleteImport, Arrives, ImportsInv, ImportsTyped, history
  <1>3. ImportsTyped'
    BY <1>1, <1>2 DEF ImportsInv, ImportsTyped
  <1>4. CountInv'
    <2>1. Unserved' = Unserved /\ Cardinality(Unserved) \in Nat
      BY <1>2, FS_CardinalityType DEF ImportsInv, CountInv, Unserved
    <2>2. QED
      BY <1>2, <2>1 DEF ImportsInv, ImportsTyped, CountInv
  <1>5. ImporterInv' /\ IdInv' /\ LookInv' /\ ImportsSound'
    BY <1>1, <1>2 DEF ImportsInv, ImporterInv, IdInv, LookInv, ImportsSound
  <1>6. ImportsInv'
    BY <1>3, <1>4, <1>5 DEF ImportsInv
  <1>7. QED
    BY <1>1, <1>2, <1>6, TableStep DEF HistoryTyped
-----------------------------------------------------------------------------
(* Checks. *)

\* A step of a checker touches nothing but its request.
LEMMA CheckerStep ==
  ASSUME CInv, NEW c \in Checkers, NEW r \in CheckRequest,
         chk' = [chk EXCEPT ![c] = r], UNCHANGED <<userDb, postgres, imp, adm, history>>,
         begun' \in begun..MaxRequests, ReadInv(r)
  PROVE  CInv'
  <1> USE DEF CInv
  <1>1. UNCHANGED <<imports, nextId, mirror, failures, stale, crossed, lapses>>
    BY DEF postgres, history
  <1>2. ImportsInv'
    BY <1>1, ImportsFrame DEF ImportsInv, ImportsTyped
  <1>3. AdminsInv' /\ HistoryTyped'
    BY <1>1, AdminsFrame DEF HistoryTyped
  <1>4. ASSUME NEW d \in Checkers PROVE chk'[d] \in CheckRequest /\ ReadInv(chk[d])'
    <2>1. PICK x : x = chk'[d]
      OBVIOUS
    <2>2. x \in CheckRequest /\ ReadInv(x)
      BY <2>1 DEF ChecksInv, ChecksTyped
    <2>3. \A u : Peers(u)' = Peers(u)
      BY <1>1 DEF Peers
    <2>4. QED
      BY <1>1, <2>1, <2>2, <2>3 DEF ReadInv, OfPeers, ExportVisible, CheckExact
  <1>5. ChecksInv'
    BY <1>4 DEF ChecksInv, ChecksTyped
  <1>6. QED
    BY <1>2, <1>3, <1>5

LEMMA NoCheckType == NoCheck \in CheckRequest /\ ReadInv(NoCheck)
  <1>1. NoCheck \in CheckRequest
    BY DEF NoCheck, CheckRequest
  <1>2. ReadInv(NoCheck)
    BY DEF NoCheck, ReadInv
  <1>3. QED
    BY <1>1, <1>2

LEMMA StartCheckCInv == ASSUME CInv, NEW c \in Checkers, StartCheck(c) PROVE CInv'
  <1>1. PICK u \in known, S \in SUBSET Plates \ {{}}, k \in {"check", "gps"} :
          chk' = [chk EXCEPT ![c] = [NoCheck EXCEPT !.pc = "meta", !.kind = k, !.user = u,
                                                    !.plates = S, !.peers = Peers(u)]]
    BY DEF StartCheck
  <1>2. PICK r : /\ chk' = [chk EXCEPT ![c] = r]
                 /\ r = [NoCheck EXCEPT !.pc = "meta", !.kind = k, !.user = u,
                                        !.plates = S, !.peers = Peers(u)]
    BY <1>1
  <1>3. u \in Users
    BY DEF CInv, AdminsInv, AdminsTyped
  <1>4. /\ r \in CheckRequest /\ r.pc = "meta" /\ r.user = u /\ r.peers = Peers(u)
    BY <1>2, <1>3, NoCheckType, PeersType DEF CheckRequest
  <1>5. ReadInv(r)
    BY <1>3, <1>4 DEF ReadInv
  <1>6. begun' \in begun..MaxRequests
    BY StorageAssumption DEF StartCheck, Arrives, CInv, ImportsInv, ImportsTyped
  <1>7. QED
    BY <1>2, <1>4, <1>5, <1>6, CheckerStep DEF StartCheck

\* The other steps do not change how many requests have begun.
LEMMA BegunStays == ASSUME CInv, begun' = begun PROVE begun' \in begun..MaxRequests
  BY StorageAssumption DEF CInv, ImportsInv, ImportsTyped

LEMMA ReadMetaPeersCInv == ASSUME CInv, NEW c \in Checkers, ReadMetaPeers(c) PROVE CInv'
  <1>1. chk[c] \in CheckRequest /\ ReadInv(chk[c]) /\ chk[c].pc = "meta"
    BY DEF CInv, ChecksInv, ChecksTyped, ReadMetaPeers
  <1>2. PICK r : r = [chk[c] EXCEPT !.todo = Peers(chk[c].user)]
    OBVIOUS
  <1>3. chk' = [chk EXCEPT ![c] = r]
    BY <1>2 DEF ReadMetaPeers, CInv, ChecksInv, ChecksTyped
  <1>4. Peers(chk[c].user) \subseteq Users
    BY <1>1, PeersType DEF ReadInv
  <1>5. /\ r \in CheckRequest /\ r.pc = "meta" /\ r.user = chk[c].user
        /\ r.peers = chk[c].peers /\ r.moved = chk[c].moved
    BY <1>1, <1>2, <1>4 DEF CheckRequest
  <1>6. ReadInv(r)
    BY <1>1, <1>5 DEF ReadInv
  <1>7. QED
    BY <1>3, <1>5, <1>6, CheckerStep, BegunStays DEF ReadMetaPeers

LEMMA ListPeerCInv == ASSUME CInv, NEW c \in Checkers, ListPeer(c) PROVE CInv'
  <1>1. chk[c] \in CheckRequest /\ ReadInv(chk[c]) /\ chk[c].pc = "meta"
    BY DEF CInv, ChecksInv, ChecksTyped, ListPeer
  <1>2. PICK r : /\ chk' = [chk EXCEPT ![c] = r]
                 /\ \/ r = [chk[c] EXCEPT !.pc = "imports", !.todo = {}]
                    \/ r = NoCheck
                    \/ \E v : r = [chk[c] EXCEPT !.todo = chk[c].todo \ {v}]
    BY DEF ListPeer
  <1>3. r = NoCheck \/ /\ r \in CheckRequest /\ r.pc \in {"meta", "imports"}
                       /\ r.user = chk[c].user /\ r.peers = chk[c].peers
                       /\ r.moved = chk[c].moved
    <2>1. CASE r = [chk[c] EXCEPT !.pc = "imports", !.todo = {}]
      BY <1>1, <2>1 DEF CheckRequest
    <2>2. CASE \E v : r = [chk[c] EXCEPT !.todo = chk[c].todo \ {v}]
      <3>1. PICK todo : todo \subseteq chk[c].todo /\ r = [chk[c] EXCEPT !.todo = todo]
        BY <2>2
      <3>2. todo \subseteq Users
        BY <1>1, <3>1 DEF CheckRequest
      <3>3. QED
        BY <1>1, <3>1, <3>2 DEF CheckRequest
    <2>3. QED
      BY <1>2, <2>1, <2>2
  <1>4. r \in CheckRequest /\ ReadInv(r)
    BY <1>1, <1>3, NoCheckType DEF ReadInv
  <1>5. QED
    BY <1>2, <1>4, CheckerStep, BegunStays DEF ListPeer

LEMMA EndCheckCInv == ASSUME CInv, NEW c \in Checkers, EndCheck(c) PROVE CInv'
  BY NoCheckType, CheckerStep, BegunStays DEF EndCheck

LEMMA ReadImportsCInv == ASSUME CInv, NEW c \in Checkers, ReadImports(c) PROVE CInv'
  <1>1. chk[c] \in CheckRequest /\ ReadInv(chk[c]) /\ chk[c].pc = "imports"
    BY DEF CInv, ChecksInv, ChecksTyped, ReadImports
  <1>2. PICK seen :
          seen = {i.id : i \in {j \in imports :
                                 j.owner \in chk[c].peers \cap Visible(chk[c].user)}}
    OBVIOUS
  <1>3. PICK r : /\ chk' = [chk EXCEPT ![c] = r]
                 /\ r = NoCheck \/ r = [chk[c] EXCEPT !.pc = "rows", !.listed = seen]
    BY <1>2 DEF ReadImports
  <1>4. seen \subseteq 1..(nextId - 1) /\ seen \subseteq 1..MaxRequests
    BY <1>2, StorageAssumption DEF CInv, ImportsInv, ImportsTyped, IdInv, Import
  <1>5. CASE r = [chk[c] EXCEPT !.pc = "rows", !.listed = seen]
    <2>1. /\ r \in CheckRequest /\ r.pc = "rows" /\ r.user = chk[c].user
          /\ r.peers = chk[c].peers /\ r.moved = chk[c].moved /\ r.listed = seen
      BY <1>1, <1>4, <1>5 DEF CheckRequest
    <2>2. \A i \in imports : i.id \in seen => i.owner \in chk[c].peers
      BY <1>2 DEF CInv, ImportsInv, IdInv
    <2>3. ASSUME ~ r.moved, r.user \notin AdminUsers, NEW i \in OfPeers(r.user)
          PROVE  i.id \in seen
      BY <1>1, <1>2, <2>1, <2>3 DEF ReadInv, OfPeers, Visible
    <2>4. ReadInv(r)
      BY <1>1, <1>4, <2>1, <2>2, <2>3 DEF ReadInv
    <2>5. QED
      BY <1>3, <2>1, <2>4, CheckerStep, BegunStays DEF ReadImports
  <1>6. QED
    BY <1>3, <1>5, NoCheckType, CheckerStep, BegunStays DEF ReadImports

\* What the check writes is what the policy shows, restricted for a check to the imports it
\* listed: nobody's rows beyond the peers, and all of theirs when nothing moved.
LEMMA ReadRowsCInv == ASSUME CInv, NEW c \in Checkers, ReadRows(c) PROVE CInv'
  <1>1. chk[c] \in CheckRequest /\ ReadInv(chk[c]) /\ chk[c].pc = "rows"
    BY DEF CInv, ChecksInv, ChecksTyped, ReadRows
  <1>2. PICK u : u = chk[c].user
    OBVIOUS
  <1>3. u \in Users /\ Peers(u) \subseteq Users /\ u \in Peers(u)
    BY <1>1, <1>2, PeersType DEF ReadInv
  <1>4. PICK hits, exported :
          /\ hits = chk[c].plates \cap UNION {i.plates : i \in Found(chk[c])}
          /\ exported = Exported(chk[c])
    OBVIOUS
  <1>5. PICK r : /\ chk' = [chk EXCEPT ![c] = r]
                 /\ r = [chk[c] EXCEPT !.pc = "done", !.visible = Visible(u), !.hits = hits,
                                       !.exported = exported]
    BY <1>2, <1>4 DEF ReadRows
  <1>6. Visible(u) \subseteq Users
    BY <1>3 DEF Visible
  <1>7. exported \subseteq imports /\ imports \subseteq Import
    BY <1>4 DEF Exported, Found, CInv, ImportsInv, ImportsTyped
  <1>8. hits \subseteq Plates
    BY <1>1, <1>4 DEF CheckRequest
  <1>9. /\ r \in CheckRequest /\ r.pc = "done" /\ r.user = u /\ r.kind = chk[c].kind
        /\ r.plates = chk[c].plates /\ r.peers = chk[c].peers /\ r.moved = chk[c].moved
        /\ r.visible = Visible(u) /\ r.hits = hits /\ r.exported = exported
    BY <1>1, <1>2, <1>5, <1>6, <1>7, <1>8 DEF CheckRequest
  <1>10. ExportVisible(r)
    BY <1>1, <1>2, <1>4, <1>9 DEF ExportVisible, Exported, Found, ReadInv
  <1>11. ASSUME ~ r.moved, u \notin AdminUsers PROVE CheckExact(r)
    <2>1. Visible(u) = Peers(u)
      BY <1>3, <1>11 DEF Visible
    <2>2. Found(chk[c]) = {i \in imports : i.owner \in Peers(u) /\ i.plates \cap r.plates # {}}
      BY <1>2, <1>9, <2>1 DEF Found
    <2>3. \A i \in Found(chk[c]) : i.id \in chk[c].listed
      BY <1>1, <1>2, <1>9, <1>11, <2>2 DEF ReadInv, OfPeers
    <2>4. exported = Found(chk[c])
      BY <1>4, <2>3 DEF Exported
    <2>5. QED
      BY <1>4, <1>9, <2>2, <2>4 DEF CheckExact
  <1>12. CheckExact(r)
    <2>1. CASE r.moved \/ u \in AdminUsers
      BY <1>9, <2>1 DEF CheckExact
    <2>2. QED
      BY <1>11, <2>1
  <1>13. ReadInv(r)
    BY <1>1, <1>2, <1>3, <1>9, <1>10, <1>12 DEF ReadInv
  <1>14. QED
    BY <1>5, <1>9, <1>13, CheckerStep, BegunStays DEF ReadRows
-----------------------------------------------------------------------------
(* Admin requests. *)

\* An admin request changes neither the stored imports nor the importers; checks under way
\* are marked when it changes the mirror.
LEMMA AdminStep ==
  ASSUME CInv, UNCHANGED <<imports, nextId, imp>>, UNCHANGED <<chk, mirror>> \/ chk' = Moved,
         begun' \in begun..MaxRequests, failures' \in failures..MaxFailures,
         AdminsInv', HistoryTyped'
  PROVE  CInv'
  <1>1. ImportsInv'
    BY ImportsFrame DEF CInv
  <1>2. ChecksInv'
    <2>1. nextId \in Nat /\ nextId' = nextId
      BY StorageAssumption DEF CInv, ImportsInv, ImportsTyped
    <2>2. QED
      BY <2>1, ChecksFrame, ChecksMoved DEF CInv
  <1>3. QED
    BY <1>1, <1>2 DEF CInv

\* A request that begins: one more request, and crossed tells whether it met another.
LEMMA BeginFacts ==
  ASSUME CInv, NEW a \in Admins, NEW pc \in {"move", "create", "limit", "unmirror", "forget"},
         NEW u \in Users \cup {None}, NEW g \in Groups \cup {None}, NEW l \in Limits \cup {None},
         Begin(a, pc, u, g, l)
  PROVE  /\ adm[a].pc = "idle" /\ adm' \in [Admins -> AdminRequest]
         /\ adm'[a].pc = pc /\ adm'[a].user = u /\ adm'[a].group = g /\ adm'[a].max = l
         /\ \A b \in Admins \ {a} : adm'[b] = adm[b]
         /\ crossed' \in BOOLEAN /\ (crossed => crossed')
         /\ ~ crossed' => \A b \in Admins \ {a} :
              /\ u # None => adm[b].user # u
              /\ g # None /\ adm[b].pc # "idle" /\ adm[b].group = g
                   => pc # "unmirror" /\ adm[b].pc # "unmirror"
         /\ begun' \in begun..MaxRequests
  <1> USE DEF CInv, AdminsInv
  <1>1. /\ adm[a].pc = "idle"
        /\ adm' = [adm EXCEPT ![a] = [pc |-> pc, user |-> u, group |-> g, max |-> l]]
    BY DEF Begin
  <1>2. [pc |-> pc, user |-> u, group |-> g, max |-> l] \in AdminRequest
    BY DEF AdminRequest
  <1>3. crossed' = (crossed \/ Meets(a, pc, u, g)) /\ crossed \in BOOLEAN
    BY DEF Begin, HistoryTyped
  <1>4. ~ Meets(a, pc, u, g) => \A b \in Admins \ {a} :
          /\ u # None => adm[b].user # u
          /\ g # None /\ adm[b].pc # "idle" /\ adm[b].group = g
               => pc # "unmirror" /\ adm[b].pc # "unmirror"
    BY DEF Meets, AdminInv
  <1>5. begun' \in begun..MaxRequests
    BY StorageAssumption DEF Begin, Arrives, ImportsInv, ImportsTyped
  <1>6. adm \in [Admins -> AdminRequest]
    BY DEF AdminsTyped
  <1>7. crossed' \in BOOLEAN /\ (crossed => crossed') /\ (~ crossed' => ~ Meets(a, pc, u, g))
    BY <1>3
  <1>8. QED
    BY <1>1, <1>2, <1>4, <1>5, <1>6, <1>7

\* Requests that only counted: moves, creations and new limits.
LEMMA BeginCounts ==
  ASSUME CInv, NEW a \in Admins, NEW pc \in {"move", "create", "limit", "unmirror", "forget"},
         NEW u \in Users \cup {None}, NEW g \in Groups \cup {None}, NEW l \in Limits \cup {None},
         pc \in {"move", "create", "limit"}, u \in known \cup {None},
         pc = "move" <=> u # None, pc = "limit" => g \in Groups /\ l \in Limits,
         g # None => Live(g), Begin(a, pc, u, g, l),
         UNCHANGED <<userDb, postgres, imp, chk, failures, stale, lapses>>
  PROVE  CInv'
  <1>1. UNCHANGED <<known, groupOf, limit, own, mirror, imports, nextId>>
    BY DEF userDb, postgres
  <1>2. /\ adm[a].pc = "idle" /\ adm' \in [Admins -> AdminRequest]
        /\ adm'[a].pc = pc /\ adm'[a].user = u /\ adm'[a].group = g /\ adm'[a].max = l
        /\ \A b \in Admins \ {a} : adm'[b] = adm[b]
        /\ crossed' \in BOOLEAN /\ (crossed => crossed')
        /\ ~ crossed' => \A b \in Admins \ {a} : u # None => adm[b].user # u
        /\ begun' \in begun..MaxRequests
    <2>1. /\ adm[a].pc = "idle" /\ adm' \in [Admins -> AdminRequest]
          /\ adm'[a].pc = pc /\ adm'[a].user = u /\ adm'[a].group = g /\ adm'[a].max = l
          /\ \A b \in Admins \ {a} : adm'[b] = adm[b]
          /\ crossed' \in BOOLEAN /\ (crossed => crossed')
          /\ ~ crossed' => \A b \in Admins \ {a} :
               /\ u # None => adm[b].user # u
               /\ g # None /\ adm[b].pc # "idle" /\ adm[b].group = g
                    => pc # "unmirror" /\ adm[b].pc # "unmirror"
          /\ begun' \in begun..MaxRequests
      BY BeginFacts, ZenonT(30)
    <2>2. QED
      BY <2>1
  <1> USE DEF CInv, AdminsInv
  <1>3. AdminsTyped' /\ AdminInv'
    BY <1>1, <1>2 DEF AdminsTyped, AdminInv, Live
  <1>4. MirrorInv'
    <2> SUFFICES ASSUME ~ crossed' PROVE MirrorInv'
      BY DEF MirrorInv
    <2>1. \A v \in Users : Behind(v) => Behind(v)'
      BY <1>1, <1>2 DEF Behind
    <2>2. MemberInv'
      BY <1>1, <1>2 DEF MirrorInv, MemberInv, Live
    <2>3. QED
      BY <1>1, <1>2, <2>1, <2>2 DEF MirrorInv
  <1>5. HistoryTyped' /\ failures' \in failures..MaxFailures
    BY <1>2, StorageAssumption DEF HistoryTyped, ImportsInv, ImportsTyped
  <1>6. QED
    BY <1>1, <1>2, <1>3, <1>4, <1>5, AdminStep

LEMMA BeginMoveCInv == ASSUME CInv, NEW a \in Admins, BeginMove(a) PROVE CInv'
  <1>1. PICK u \in known : \E g \in {h \in Groups : Admits(h, {u})} \cup {None} :
          Begin(a, "move", u, g, None)
    BY DEF BeginMove
  <1>2. PICK g \in Groups \cup {None} : Begin(a, "move", u, g, None) /\ (g # None => Live(g))
    BY <1>1 DEF Admits
  <1>3. u \in Users /\ u # None
    BY StorageAssumption DEF CInv, AdminsInv, AdminsTyped
  <1>4. QED
    BY <1>2, <1>3, BeginCounts DEF BeginMove

LEMMA BeginCreateCInv == ASSUME CInv, NEW a \in Admins, BeginCreate(a) PROVE CInv'
  <1>1. PICK g \in Groups \cup {None} : Begin(a, "create", None, g, None) /\ (g # None => Live(g))
    BY DEF BeginCreate, Admits
  <1>2. QED
    BY <1>1, BeginCounts DEF BeginCreate

LEMMA BeginLimitCInv == ASSUME CInv, NEW a \in Admins, BeginLimit(a) PROVE CInv'
  <1>1. PICK g \in Groups, l \in Limits : Live(g) /\ Begin(a, "limit", None, g, l)
    BY DEF BeginLimit
  <1>2. QED
    BY <1>1, BeginCounts DEF BeginLimit

LEMMA NoAdminType == NoAdmin \in AdminRequest /\ NoAdmin.pc = "idle" /\ NoAdmin.user = None
  BY DEF NoAdmin, AdminRequest

\* Who has informed itself is told of the change, and the history keeps its type.
LEMMA MisleadsType ==
  ASSUME HistoryTyped, NEW a \in Admins, NEW S \in SUBSET (Importers \cup Admins),
         Misleads(S, a), Relies(a) \/ lapses' \ lapses \subseteq Lapse, crossed' \in BOOLEAN
  PROVE  HistoryTyped'
  <1>1. lapses' \subseteq Lapse
    BY DEF HistoryTyped, Relies, Lapse
  <1>2. stale' \subseteq Importers \cup Admins
    BY DEF HistoryTyped, Misleads
  <1>3. QED
    BY <1>1, <1>2 DEF HistoryTyped

LEMMA InformedType == Informed \in SUBSET (Importers \cup Admins)
  BY DEF Informed, Counted

\* A request that ends without having promised the mirror anything.
LEMMA RequestEnds ==
  ASSUME AdminsInv, NEW a \in Admins, adm' = [adm EXCEPT ![a] = NoAdmin],
         UNCHANGED <<known, groupOf, mirror>>,
         limit' \in [Groups -> Limits \cup {None}], \A g \in Groups : Live(g)' <=> Live(g),
         own' \in [Users -> Limits \cup {None}],
         crossed => crossed',
         adm[a].pc \in {"sync", "unmirror", "forget"} => crossed'
  PROVE  AdminsInv'
  <1> USE DEF AdminsInv
  <1>1. /\ adm'[a] = NoAdmin /\ \A b \in Admins \ {a} : adm'[b] = adm[b]
        /\ adm' \in [Admins -> AdminRequest]
    BY NoAdminType DEF AdminsTyped
  <1>2. AdminsTyped'
    BY <1>1 DEF AdminsTyped
  <1>3. AdminInv'
    BY <1>1, NoAdminType DEF AdminInv, AdminsTyped
  <1>4. MirrorInv'
    <2> SUFFICES ASSUME ~ crossed' PROVE MirrorInv'
      BY DEF MirrorInv
    <2>1. \A v \in Users : Behind(v) => Behind(v)'
      BY <1>1 DEF Behind
    <2>2. MemberInv'
      BY <1>1, NoAdminType DEF MirrorInv, MemberInv, AdminsTyped, AdminRequest
    <2>3. QED
      BY <1>1, <2>1, <2>2, NoAdminType DEF MirrorInv
  <1>5. QED
    BY <1>2, <1>3, <1>4

LEMMA CutShortCInv == ASSUME CInv, NEW a \in Admins, CutShort(a) PROVE CInv'
  <1>1. AdminsInv'
    <2>1. \A g \in Groups : Live(g)' <=> Live(g)
      BY DEF CutShort, userDb, Live
    <2>2. crossed => crossed'
      BY DEF CutShort, CInv, HistoryTyped
    <2>3. adm[a].pc \in {"sync", "unmirror", "forget"} => crossed'
      BY DEF CutShort
    <2>4. QED
      BY <2>1, <2>2, <2>3, RequestEnds
      DEF CutShort, CInv, AdminsInv, AdminsTyped, userDb, postgres
  <1>2. HistoryTyped'
    <2>1. crossed' \in BOOLEAN
      BY DEF CutShort, CInv, HistoryTyped
    <2>2. QED
      BY <2>1 DEF CutShort, CInv, HistoryTyped
  <1>3. failures' \in failures..MaxFailures /\ begun' \in begun..MaxRequests
    BY StorageAssumption, BegunStays DEF CutShort, CInv, ImportsInv, ImportsTyped
  <1>4. QED
    BY <1>1, <1>2, <1>3, AdminStep DEF CutShort, postgres

\* The other requests of an admin fail by a step of their own.
LEMMA FailuresStay == ASSUME CInv, failures' = failures PROVE failures' \in failures..MaxFailures
  BY StorageAssumption DEF CInv, ImportsInv, ImportsTyped

LEMMA CommitLimitCInv == ASSUME CInv, NEW a \in Admins, CommitLimit(a) PROVE CInv'
  <1>1. adm[a].pc = "limit" /\ adm[a].group \in Groups /\ adm[a].max \in Limits
    BY DEF CommitLimit, CInv, AdminsInv, AdminInv
  <1>2. limit' \in [Groups -> Limits \cup {None}]
    BY <1>1 DEF CommitLimit, CInv, AdminsInv, AdminsTyped
  <1>3. \A g \in Groups : Live(g)' <=> Live(g)
    BY <1>1, StorageAssumption DEF CommitLimit, CInv, AdminsInv, AdminsTyped, Live
  <1>4. AdminsInv'
    BY <1>1, <1>2, <1>3, RequestEnds DEF CommitLimit, CInv, AdminsInv, AdminsTyped, postgres
  <1>5. HistoryTyped'
    BY InformedType, MisleadsType DEF CommitLimit, CInv, HistoryTyped
  <1>6. QED
    BY <1>4, <1>5, AdminStep, BegunStays, FailuresStay DEF CommitLimit, postgres

LEMMA LimitUserCInv == ASSUME CInv, NEW a \in Admins, LimitUser(a) PROVE CInv'
  <1>1. own' \in [Users -> Limits \cup {None}]
    BY DEF LimitUser, CInv, AdminsInv, AdminsTyped
  <1>2. AdminsInv'
    BY <1>1 DEF LimitUser, CInv, AdminsInv, AdminsTyped, AdminInv, MemberInv, MirrorInv, Behind,
                Live, postgres, history
  <1>3. begun' \in begun..MaxRequests
    BY StorageAssumption DEF LimitUser, Arrives, CInv, ImportsInv, ImportsTyped
  <1>4. QED
    BY <1>2, <1>3, AdminStep, FailuresStay DEF LimitUser, postgres, history, CInv, HistoryTyped

\* A membership commits: the request has still to mirror it.
LEMMA MembershipCommits ==
  ASSUME AdminsInv, NEW a \in Admins, NEW u \in Users, NEW g \in Groups \cup {None},
         adm[a].group = g, adm[a].pc \in {"move", "create"},
         known' = known \cup {u}, groupOf' = [groupOf EXCEPT ![u] = g],
         adm' \in [Admins -> AdminRequest], \A b \in Admins \ {a} : adm'[b] = adm[b],
         adm'[a].pc = "sync", adm'[a].user = u, adm'[a].group = g,
         crossed' = crossed, ~ crossed => \A b \in Admins \ {a} : adm[b].user # u,
         own' \in [Users -> Limits \cup {None}], UNCHANGED <<limit, mirror>>
  PROVE  AdminsInv'
  <1> USE DEF AdminsInv
  <1>1. u # None
    BY StorageAssumption
  <1>2. AdminsTyped' /\ AdminInv'
    BY <1>1 DEF AdminsTyped, AdminInv, Live
  <1>3. MirrorInv'
    <2> SUFFICES ASSUME ~ crossed PROVE MirrorInv'
      BY DEF MirrorInv
    <2>1. groupOf'[u] = g /\ \A v \in Users \ {u} : groupOf'[v] = groupOf[v]
      BY DEF AdminsTyped
    <2>2. \A b \in Admins : adm'[b].user \in known' \cup {None}
      BY DEF MirrorInv
    <2>3. \A b, d \in Admins : adm'[b].user = adm'[d].user /\ adm'[b].user # None => b = d
      BY DEF MirrorInv
    <2>4. \A b \in Admins : adm'[b].pc = "sync" => groupOf'[adm'[b].user] = adm'[b].group
      <3>1. \A b \in Admins : adm[b].pc = "sync" => adm[b].user \in Users
        BY DEF AdminInv, AdminsTyped, AdminRequest
      <3>2. QED
        BY <2>1, <3>1 DEF MirrorInv
    <2>5. \A b \in Admins : adm'[b].pc = "forget" => mirror[adm'[b].user] = None
      BY DEF MirrorInv
    <2>6. \A v \in Users : mirror[v] = groupOf'[v] \/ Behind(v)'
      <3>1. Behind(u)'
        BY DEF Behind
      <3>2. ASSUME NEW v \in Users \ {u}, Behind(v) PROVE Behind(v)'
        BY <2>1, <3>2 DEF Behind
      <3>3. QED
        BY <2>1, <3>1, <3>2 DEF MirrorInv
    <2>7. MemberInv'
      BY <2>1 DEF MirrorInv, MemberInv, Live
    <2>8. QED
      BY <2>2, <2>3, <2>4, <2>5, <2>6, <2>7 DEF MirrorInv
  <1>4. QED
    BY <1>2, <1>3

LEMMA CommitMoveCInv == ASSUME CInv, NEW a \in Admins, CommitMove(a) PROVE CInv'
  <1>1. /\ adm[a].pc = "move" /\ adm[a] \in AdminRequest /\ adm[a].user \in Users
        /\ UNCHANGED <<limit, own, mirror, imports, nextId, imp, chk, failures, crossed, begun,
                       known>>
    BY DEF CommitMove, CInv, AdminsInv, AdminsTyped, AdminInv, AdminRequest, postgres
  <1>2. AdminsInv' /\ HistoryTyped'
    <2>1. CASE /\ adm[a].user \in known
               /\ adm' = [adm EXCEPT ![a] = [adm[a] EXCEPT !.pc = "sync"]]
               /\ groupOf' = [groupOf EXCEPT ![adm[a].user] = adm[a].group]
               /\ Relies(a) /\ Misleads(Informed, a)
      <3>1. known' = known \cup {adm[a].user}
        BY <1>1, <2>1
      <3>2. /\ adm' \in [Admins -> AdminRequest] /\ \A b \in Admins \ {a} : adm'[b] = adm[b]
            /\ adm'[a].pc = "sync" /\ adm'[a].user = adm[a].user /\ adm'[a].group = adm[a].group
        BY <1>1, <2>1 DEF CInv, AdminsInv, AdminsTyped, AdminRequest
      <3>3. adm[a].group \in Groups \cup {None} /\ own' \in [Users -> Limits \cup {None}]
        BY <1>1 DEF AdminRequest, CInv, AdminsInv, AdminsTyped
      <3>4. ~ crossed => \A b \in Admins \ {a} : adm[b].user # adm[a].user
        BY <1>1, StorageAssumption DEF CInv, AdminsInv, MirrorInv
      <3>5. AdminsInv'
        BY <1>1, <2>1, <3>1, <3>2, <3>3, <3>4, MembershipCommits DEF CInv
      <3>6. HistoryTyped'
        BY <1>1, <2>1, InformedType, MisleadsType DEF CInv, HistoryTyped
      <3>7. QED
        BY <3>5, <3>6
    <2>2. CASE /\ adm' = [adm EXCEPT ![a] = NoAdmin] /\ stale' = stale \ {a}
               /\ UNCHANGED <<groupOf, lapses>>
      <3>1. AdminsInv'
        BY <1>1, <2>2, RequestEnds DEF CInv, AdminsInv, AdminsTyped, Live
      <3>2. QED
        BY <1>1, <2>2, <3>1 DEF CInv, HistoryTyped
    <2>3. QED
      BY <2>1, <2>2 DEF CommitMove
  <1>3. QED
    BY <1>1, <1>2, AdminStep, BegunStays, FailuresStay

LEMMA CommitCreateCInv == ASSUME CInv, NEW a \in Admins, CommitCreate(a) PROVE CInv'
  <1>1. /\ adm[a].pc = "create" /\ adm[a] \in AdminRequest
        /\ UNCHANGED <<limit, mirror, imports, nextId, imp, chk, failures, crossed, begun>>
    BY DEF CommitCreate, CInv, AdminsInv, AdminsTyped, postgres
  <1>2. AdminsInv' /\ HistoryTyped'
    <2>1. ASSUME NEW u \in Users \ known, NEW l \in Limits,
                 known' = known \cup {u}, groupOf' = [groupOf EXCEPT ![u] = adm[a].group],
                 own' = [own EXCEPT ![u] = l],
                 adm' = [adm EXCEPT ![a] = [adm[a] EXCEPT !.pc = "sync", !.user = u]],
                 lapses' = lapses \cup {x \in {"inherited"} : RowsOf({u}) > 0},
                 Misleads(Informed, a)
          PROVE  AdminsInv' /\ HistoryTyped'
      <3>2. /\ adm' \in [Admins -> AdminRequest] /\ \A b \in Admins \ {a} : adm'[b] = adm[b]
            /\ adm'[a].pc = "sync" /\ adm'[a].user = u /\ adm'[a].group = adm[a].group
        BY <1>1, <2>1 DEF CInv, AdminsInv, AdminsTyped, AdminRequest
      <3>3. adm[a].group \in Groups \cup {None} /\ own' \in [Users -> Limits \cup {None}]
        BY <1>1, <2>1 DEF AdminRequest, CInv, AdminsInv, AdminsTyped
      <3>4. ~ crossed => \A b \in Admins \ {a} : adm[b].user # u
        BY StorageAssumption DEF CInv, AdminsInv, MirrorInv
      <3>5. AdminsInv'
        BY <1>1, <2>1, <3>2, <3>3, <3>4, MembershipCommits DEF CInv
      <3>6. lapses' \ lapses \subseteq Lapse
        BY <2>1 DEF Lapse
      <3>7. HistoryTyped'
        BY <1>1, <2>1, <3>6, InformedType, MisleadsType DEF CInv, HistoryTyped
      <3>8. QED
        BY <3>5, <3>7
    <2>2. CASE /\ adm' = [adm EXCEPT ![a] = NoAdmin] /\ stale' = stale \ {a}
               /\ UNCHANGED <<known, groupOf, own, lapses>>
      <3>1. AdminsInv'
        BY <1>1, <2>2, RequestEnds DEF CInv, AdminsInv, AdminsTyped, Live
      <3>2. QED
        BY <1>1, <2>2, <3>1 DEF CInv, HistoryTyped
    <2>3. QED
      BY <2>1, <2>2 DEF CommitCreate
  <1>3. QED
    BY <1>1, <1>2, AdminStep, BegunStays, FailuresStay

LEMMA SyncCInv == ASSUME CInv, NEW a \in Admins, Sync(a) PROVE CInv'
  <1> USE DEF CInv, AdminsInv
  <1>1. PICK u, g : u = adm[a].user /\ g = adm[a].group
    OBVIOUS
  <1>2. /\ adm[a].pc = "sync" /\ mirror' = [mirror EXCEPT ![u] = g] /\ chk' = Moved
        /\ adm' = [adm EXCEPT ![a] = NoAdmin]
        /\ UNCHANGED <<known, groupOf, limit, own, imports, nextId, imp, begun, failures, stale,
                       crossed, lapses>>
    BY <1>1 DEF Sync, userDb, history
  <1>3. u \in Users /\ g \in Groups \cup {None}
    BY <1>1, <1>2 DEF AdminsTyped, AdminInv, AdminRequest
  <1>4. /\ adm'[a] = NoAdmin /\ \A b \in Admins \ {a} : adm'[b] = adm[b]
        /\ mirror'[u] = g /\ \A v \in Users \ {u} : mirror'[v] = mirror[v]
    BY <1>2, <1>3 DEF AdminsTyped
  <1>5. AdminsTyped' /\ AdminInv'
    BY <1>2, <1>3, <1>4, NoAdminType DEF AdminsTyped, AdminInv, Live
  <1>6. MirrorInv'
    <2> SUFFICES ASSUME ~ crossed PROVE MirrorInv'
      BY <1>2 DEF MirrorInv
    <2>1. groupOf[u] = g /\ \A b \in Admins \ {a} : adm[b].user # u
      BY <1>1, <1>2, <1>3, StorageAssumption DEF MirrorInv
    <2>2. \A b \in Admins : adm'[b].pc = "forget" => mirror'[adm'[b].user] = None
      <3>1. \A b \in Admins : adm[b].pc = "forget" => adm[b].user \in Users
        BY DEF AdminInv, AdminsTyped, AdminRequest
      <3>2. QED
        BY <1>4, <2>1, <3>1, NoAdminType DEF MirrorInv
    <2>3. \A v \in Users : mirror'[v] = groupOf[v] \/ Behind(v)'
      <3>1. ASSUME NEW v \in Users \ {u}, Behind(v) PROVE Behind(v)'
        BY <1>1, <1>2, <1>4, <3>1 DEF Behind
      <3>2. QED
        BY <1>4, <2>1, <3>1 DEF MirrorInv
    <2>4. MemberInv'
      BY <1>2, <1>4, NoAdminType DEF MirrorInv, MemberInv, Live
    <2>5. QED
      BY <1>2, <1>4, <2>2, <2>3, <2>4, NoAdminType DEF MirrorInv
  <1>7. QED
    BY <1>2, <1>5, <1>6, AdminStep, BegunStays, FailuresStay DEF HistoryTyped

LEMMA DeleteGroupCInv == ASSUME CInv, NEW a \in Admins, DeleteGroup(a) PROVE CInv'
  <1>1. PICK g \in Groups :
          /\ Live(g) /\ Begin(a, "unmirror", None, g, None)
          /\ groupOf' = [u \in Users |-> IF groupOf[u] = g THEN None ELSE groupOf[u]]
          /\ limit' = [limit EXCEPT ![g] = None]
    BY DEF DeleteGroup
  <1>2. /\ adm[a].pc = "idle" /\ adm' \in [Admins -> AdminRequest]
        /\ adm'[a].pc = "unmirror" /\ adm'[a].user = None /\ adm'[a].group = g
        /\ \A b \in Admins \ {a} : adm'[b] = adm[b]
        /\ crossed' \in BOOLEAN /\ (crossed => crossed')
        /\ ~ crossed' => \A b \in Admins \ {a} : adm[b].pc # "idle" => adm[b].group # g
        /\ begun' \in begun..MaxRequests
    <2>1. g # None
      BY StorageAssumption
    <2>2. QED
      BY <1>1, <2>1, BeginFacts
  <1>3. /\ UNCHANGED <<known, own, mirror, imports, nextId, imp, chk, failures, lapses>>
        /\ Misleads(Informed, a)
    BY DEF DeleteGroup, postgres
  <1> USE DEF CInv, AdminsInv
  <1>4. \A h \in Groups : Live(h)' <=> Live(h) /\ h # g
    BY <1>1 DEF Live, AdminsTyped
  <1>5. AdminsTyped' /\ AdminInv'
    BY <1>1, <1>2, <1>3, <1>4 DEF AdminsTyped, AdminInv
  <1>6. MirrorInv'
    <2> SUFFICES ASSUME ~ crossed' PROVE MirrorInv'
      BY DEF MirrorInv
    <2>1. \A b \in Admins \ {a} : adm[b].pc # "idle" => adm[b].group # g
      BY <1>2
    <2>2. \A b \in Admins : adm'[b].pc = "sync" => groupOf'[adm'[b].user] = adm'[b].group
      <3>1. \A b \in Admins : adm[b].pc = "sync" => adm[b].user \in Users
        BY DEF AdminInv, AdminsTyped, AdminRequest
      <3>2. QED
        BY <1>1, <1>2, <2>1, <3>1 DEF MirrorInv
    <2>3. ASSUME NEW v \in Users PROVE mirror[v] = groupOf'[v] \/ Behind(v)'
      <3>1. groupOf'[v] = IF groupOf[v] = g THEN None ELSE groupOf[v]
        BY <1>1
      <3>2. Behind(v) => Behind(v)'
        BY <1>1, <1>2, <1>3, <3>1, StorageAssumption DEF Behind
      <3>3. groupOf[v] = g /\ mirror[v] = g => Behind(v)'
        BY <1>2, <1>3, <3>1 DEF Behind
      <3>4. QED
        BY <1>2, <3>1, <3>2, <3>3 DEF MirrorInv
    <2>4. MemberInv'
      <3>1. ASSUME NEW v \in Users, groupOf'[v] # None PROVE Live(groupOf[v])'
        <4>1. groupOf'[v] = groupOf[v] /\ groupOf[v] # g /\ groupOf[v] \in Groups
          BY <1>1, <3>1 DEF AdminsTyped
        <4>2. Live(groupOf[v])
          BY <1>2, <3>1, <4>1 DEF MirrorInv, MemberInv
        <4>3. limit'[groupOf[v]] = limit[groupOf[v]]
          BY <1>1, <4>1 DEF AdminsTyped
        <4>4. QED
          BY <4>1, <4>2, <4>3 DEF Live
      <3>2. ASSUME NEW b \in Admins, adm'[b].pc \in {"move", "create"}, adm'[b].group # None
            PROVE  Live(adm[b].group)'
        <4>1. b # a /\ adm[b].pc \in {"move", "create"} /\ adm'[b] = adm[b]
          BY <1>2, <3>2
        <4>2. adm[b].group \in Groups /\ adm[b].group # g /\ Live(adm[b].group)
          BY <1>2, <2>1, <3>2, <4>1 DEF MirrorInv, MemberInv, AdminsTyped, AdminRequest
        <4>3. limit'[adm[b].group] = limit[adm[b].group]
          BY <1>1, <4>2 DEF AdminsTyped
        <4>4. QED
          BY <4>1, <4>2, <4>3 DEF Live
      <3>3. QED
        BY <3>1, <3>2, Zenon DEF MemberInv
    <2>5. QED
      BY <1>2, <1>3, <2>2, <2>3, <2>4 DEF MirrorInv
  <1>7. HistoryTyped'
    BY <1>2, <1>3, InformedType, MisleadsType
  <1>8. QED
    BY <1>2, <1>3, <1>5, <1>6, <1>7, AdminStep, FailuresStay

LEMMA UnmirrorCInv == ASSUME CInv, NEW a \in Admins, Unmirror(a) PROVE CInv'
  <1> USE DEF CInv, AdminsInv
  <1>1. PICK g : g = adm[a].group
    OBVIOUS
  <1>2. /\ adm[a].pc = "unmirror" /\ chk' = Moved /\ adm' = [adm EXCEPT ![a] = NoAdmin]
        /\ mirror' = [u \in Users |-> IF mirror[u] = g THEN None ELSE mirror[u]]
        /\ UNCHANGED <<known, groupOf, limit, own, imports, nextId, imp, begun, failures, stale,
                       crossed, lapses>>
    BY <1>1 DEF Unmirror, userDb, history
  <1>3. g \in Groups /\ ~ Live(g)
    BY <1>1, <1>2 DEF AdminInv
  <1>4. adm'[a] = NoAdmin /\ \A b \in Admins \ {a} : adm'[b] = adm[b]
    BY <1>2 DEF AdminsTyped
  <1>5. AdminsTyped' /\ AdminInv'
    BY <1>2, <1>4, NoAdminType DEF AdminsTyped, AdminInv, Live
  <1>6. MirrorInv'
    <2> SUFFICES ASSUME ~ crossed PROVE MirrorInv'
      BY <1>2 DEF MirrorInv
    <2>1. \A v \in Users : mirror'[v] = IF mirror[v] = g THEN None ELSE mirror[v]
      BY <1>2
    <2>2. \A b \in Admins : adm'[b].pc = "forget" => mirror'[adm'[b].user] = None
      <3>1. \A b \in Admins : adm[b].pc = "forget" => adm[b].user \in Users
        BY DEF AdminInv, AdminsTyped, AdminRequest
      <3>2. QED
        BY <1>4, <2>1, <3>1, NoAdminType DEF MirrorInv
    <2>3. ASSUME NEW v \in Users PROVE mirror'[v] = groupOf[v] \/ Behind(v)'
      <3>1. groupOf[v] # g
        BY <1>3, StorageAssumption DEF MirrorInv, MemberInv, AdminsTyped
      <3>2. CASE mirror[v] = groupOf[v]
        BY <2>1, <3>1, <3>2
      <3>3. CASE Behind(v)
        <4>1. PICK b \in Admins :
                \/ adm[b].pc = "sync" /\ adm[b].user = v
                \/ adm[b].pc = "forget" /\ adm[b].user = v
                \/ adm[b].pc = "unmirror" /\ mirror[v] = adm[b].group /\ groupOf[v] = None
          BY <3>3 DEF Behind
        <4>2. CASE adm[b].pc \in {"sync", "forget"} /\ adm[b].user = v
          BY <1>2, <1>4, <4>2 DEF Behind
        <4>3. CASE adm[b].pc = "unmirror" /\ mirror[v] = adm[b].group /\ groupOf[v] = None
          BY <1>1, <1>2, <1>4, <2>1, <4>3 DEF Behind
        <4>4. QED
          BY <4>1, <4>2, <4>3
      <3>4. QED
        BY <3>2, <3>3 DEF MirrorInv
    <2>4. MemberInv'
      BY <1>2, <1>4, NoAdminType DEF MirrorInv, MemberInv, Live
    <2>5. QED
      BY <1>2, <1>4, <2>2, <2>3, <2>4, NoAdminType DEF MirrorInv
  <1>7. QED
    BY <1>2, <1>5, <1>6, AdminStep, BegunStays, FailuresStay DEF HistoryTyped

LEMMA DeleteUserCInv == ASSUME CInv, NEW a \in Admins, DeleteUser(a) PROVE CInv'
  <1>1. PICK u \in known : /\ Begin(a, "forget", u, None, None)
                           /\ mirror' = [mirror EXCEPT ![u] = None]
    BY DEF DeleteUser
  <1>2. u \in Users /\ u # None
    BY StorageAssumption DEF CInv, AdminsInv, AdminsTyped
  <1>3. /\ adm[a].pc = "idle" /\ adm' \in [Admins -> AdminRequest]
        /\ adm'[a].pc = "forget" /\ adm'[a].user = u
        /\ \A b \in Admins \ {a} : adm'[b] = adm[b]
        /\ crossed' \in BOOLEAN /\ (crossed => crossed')
        /\ ~ crossed' => \A b \in Admins \ {a} : adm[b].user # u
        /\ begun' \in begun..MaxRequests
    BY <1>1, <1>2, BeginFacts
  <1>4. /\ chk' = Moved
        /\ UNCHANGED <<known, groupOf, limit, own, imports, nextId, imp, failures, stale, lapses>>
    BY DEF DeleteUser, userDb
  <1> USE DEF CInv, AdminsInv
  <1>5. AdminsTyped' /\ AdminInv'
    BY <1>1, <1>2, <1>3, <1>4 DEF AdminsTyped, AdminInv, Live
  <1>6. MirrorInv'
    <2> SUFFICES ASSUME ~ crossed' PROVE MirrorInv'
      BY DEF MirrorInv
    <2>1. mirror'[u] = None /\ \A v \in Users \ {u} : mirror'[v] = mirror[v]
      BY <1>1, <1>2 DEF AdminsTyped
    <2>2. \A b \in Admins : adm'[b].pc = "forget" => mirror'[adm'[b].user] = None
      <3>1. \A b \in Admins : adm[b].pc = "forget" => adm[b].user \in Users
        BY DEF AdminInv, AdminsTyped, AdminRequest
      <3>2. QED
        BY <1>3, <2>1, <3>1 DEF MirrorInv
    <2>3. Behind(u)'
      BY <1>3 DEF Behind
    <2>4. ASSUME NEW v \in Users \ {u}, Behind(v) PROVE Behind(v)'
      BY <1>3, <1>4, <2>1, <2>4 DEF Behind
    <2>5. MemberInv'
      BY <1>3, <1>4 DEF MirrorInv, MemberInv, Live
    <2>6. QED
      BY <1>2, <1>3, <1>4, <2>1, <2>2, <2>3, <2>4, <2>5 DEF MirrorInv
  <1>7. QED
    BY <1>3, <1>4, <1>5, <1>6, AdminStep, FailuresStay DEF HistoryTyped

LEMMA ForgetCInv == ASSUME CInv, NEW a \in Admins, Forget(a) PROVE CInv'
  <1> USE DEF CInv, AdminsInv
  <1>1. PICK u : u = adm[a].user
    OBVIOUS
  <1>2. /\ adm[a].pc = "forget" /\ known' = known \ {u}
        /\ groupOf' = [groupOf EXCEPT ![u] = None] /\ own' = [own EXCEPT ![u] = None]
        /\ adm' = [adm EXCEPT ![a] = NoAdmin] /\ Misleads(Informed, a)
        /\ UNCHANGED <<limit, mirror, imports, nextId, imp, chk, failures, crossed, lapses, begun>>
    BY <1>1 DEF Forget, postgres
  <1>3. u \in Users
    BY <1>1, <1>2 DEF AdminsTyped, AdminInv, AdminRequest
  <1>4. /\ adm'[a] = NoAdmin /\ \A b \in Admins \ {a} : adm'[b] = adm[b]
        /\ groupOf'[u] = None /\ \A v \in Users \ {u} : groupOf'[v] = groupOf[v]
    BY <1>2, <1>3 DEF AdminsTyped
  <1>5. AdminsTyped' /\ AdminInv'
    BY <1>2, <1>3, <1>4, NoAdminType DEF AdminsTyped, AdminInv, Live
  <1>6. MirrorInv'
    <2> SUFFICES ASSUME ~ crossed PROVE MirrorInv'
      BY <1>2 DEF MirrorInv
    <2>1. /\ mirror[u] = None /\ \A b \in Admins \ {a} : adm[b].user # u
      BY <1>1, <1>2, <1>3, StorageAssumption DEF MirrorInv
    <2>2. \A b \in Admins : adm'[b].user \in known' \cup {None}
      BY <1>2, <1>4, <2>1, NoAdminType DEF MirrorInv
    <2>3. \A b \in Admins : adm'[b].pc = "sync" => groupOf'[adm'[b].user] = adm'[b].group
      <3>1. \A b \in Admins : adm[b].pc = "sync" => adm[b].user \in Users
        BY DEF AdminInv, AdminsTyped, AdminRequest
      <3>2. QED
        BY <1>4, <2>1, <3>1, NoAdminType DEF MirrorInv
    <2>4. ASSUME NEW v \in Users \ {u}, Behind(v) PROVE Behind(v)'
      BY <1>1, <1>2, <1>4, <2>4 DEF Behind
    <2>5. \A v \in Users : mirror[v] = groupOf'[v] \/ Behind(v)'
      BY <1>4, <2>1, <2>4 DEF MirrorInv
    <2>6. MemberInv'
      BY <1>2, <1>4, NoAdminType DEF MirrorInv, MemberInv, Live
    <2>7. QED
      BY <1>2, <1>4, <2>2, <2>3, <2>5, <2>6, NoAdminType DEF MirrorInv
  <1>7. HistoryTyped'
    BY <1>2, InformedType, MisleadsType DEF HistoryTyped
  <1>8. QED
    BY <1>2, <1>5, <1>6, <1>7, AdminStep, BegunStays, FailuresStay
-----------------------------------------------------------------------------
(* The invariant, and what it gives. *)

LEMMA InitCInv == Init => CInv
  <1> SUFFICES ASSUME Init PROVE CInv
    OBVIOUS
  <1> USE DEF Init
  <1>1. \A p \in Importers : imp[p] = NoImport /\ imp[p].pc = "idle"
    BY DEF NoImport
  <1>2. \A a \in Admins : adm[a] = NoAdmin /\ adm[a].pc = "idle" /\ adm[a].user = None
    BY NoAdminType
  <1>3. ImportsInv
    <2>1. ImportsTyped
      BY NoImportType, StorageAssumption DEF ImportsTyped
    <2>2. Unserved = {}
      BY <1>1 DEF Unserved, Uninserted
    <2>3. CountInv
      BY <2>2, FS_EmptySet DEF CountInv
    <2>4. ImporterInv /\ IdInv /\ LookInv /\ ImportsSound
      BY <1>1 DEF ImporterInv, IdInv, LookInv, ImportsSound
    <2>5. QED
      BY <2>1, <2>3, <2>4 DEF ImportsInv
  <1>4. ChecksInv
    BY NoCheckType DEF ChecksInv, ChecksTyped
  <1>5. AdminsInv
    <2>1. AdminsTyped
      BY NoAdminType, StorageAssumption DEF AdminsTyped
    <2>2. MemberInv
      BY <1>2, StorageAssumption DEF MemberInv, Live
    <2>3. AdminInv /\ MirrorInv
      BY <1>2, <2>2 DEF AdminInv, MirrorInv
    <2>4. QED
      BY <2>1, <2>3 DEF AdminsInv
  <1>6. QED
    BY <1>3, <1>4, <1>5 DEF CInv, HistoryTyped

LEMMA NextCInv == CInv /\ [Next]_vars => CInv'
  <1> SUFFICES ASSUME CInv, [Next]_vars PROVE CInv'
    OBVIOUS
  <1>1. CASE UNCHANGED vars
    BY <1>1, AdminsFrame, AdminStep, BegunStays, FailuresStay
    DEF vars, userDb, postgres, history, CInv, HistoryTyped
  <1>2. ASSUME NEW p \in Importers, Importing(p) PROVE CInv'
    BY <1>2, ReceiveCInv, ReadPeersCInv, CountCInv, LookUpNameCInv, InsertCInv, RemoveEmptyCInv,
       CrashCInv DEF Importing
  <1>3. ASSUME NEW c \in Checkers, Checking(c) PROVE CInv'
    BY <1>3, StartCheckCInv, ReadMetaPeersCInv, ListPeerCInv, ReadImportsCInv, ReadRowsCInv,
       EndCheckCInv DEF Checking
  <1>4. ASSUME NEW a \in Admins, Administering(a) PROVE CInv'
    BY <1>4, BeginMoveCInv, BeginCreateCInv, CommitMoveCInv, CommitCreateCInv, SyncCInv,
       DeleteGroupCInv, UnmirrorCInv, DeleteUserCInv, ForgetCInv, CutShortCInv, BeginLimitCInv,
       CommitLimitCInv, LimitUserCInv DEF Administering
  <1>5. QED
    BY <1>1, <1>2, <1>3, <1>4, DeleteImportCInv DEF Next

LEMMA AlwaysCInv == Spec => []CInv
  BY InitCInv, NextCInv, PTL DEF Spec

\* The variables keep their types: the sequence of import ids stays within the requests that
\* were begun.
THEOREM StorageTypeCorrect == Spec => []TypeOK
  <1>1. CInv => TypeOK
    BY DEF CInv, ImportsInv, ImportsTyped, ChecksInv, ChecksTyped, AdminsInv, AdminsTyped,
           HistoryTyped, TypeOK
  <1>2. QED
    BY <1>1, AlwaysCInv, PTL

\* When no admin handler is under way the mirror agrees with the user database, unless two
\* processes worked on one user or group at a time or a handler was cut short.
THEOREM MirrorKeepsUp == Spec => []MirrorAgrees
  <1>1. CInv => MirrorAgrees
    <2> SUFFICES ASSUME CInv, ~ crossed, \A a \in Admins : adm[a].pc = "idle"
                 PROVE  mirror = groupOf
      BY DEF MirrorAgrees
    <2>1. \A u \in Users : mirror[u] = groupOf[u]
      BY DEF CInv, AdminsInv, MirrorInv, Behind
    <2>2. QED
      BY <2>1 DEF CInv, AdminsInv, AdminsTyped
  <1>2. QED
    BY <1>1, AlwaysCInv, PTL

\* Two imports of one user and name come only from two lookups that crossed; an import
\* without rows is about to be removed, or its request crashed.
THEOREM ImportsStaySound == Spec => []ImportsSound
  <1>1. CInv => ImportsSound
    BY DEF CInv, ImportsInv
  <1>2. QED
    BY <1>1, AlwaysCInv, PTL

\* What a check exports is what the policy shows of the peers, and all of it when neither
\* imports nor mirror changed meanwhile.
THEOREM CheckIsSound == Spec => []CheckSound
  <1>1. CInv => CheckSound
    BY DEF CInv, ChecksInv, ReadInv, CheckSound
  <1>2. QED
    BY <1>1, AlwaysCInv, PTL
-----------------------------------------------------------------------------
(* The quota of a group.  Rows are counted as a set of pairs, so the count *)
(* of a table that grew or of owners that joined is that of a union.       *)

RowsIn(I, S) == UNION {{i.id} \X i.plates : i \in {j \in I : j.owner \in S}}
Held(I, S) == Cardinality(RowsIn(I, S))

LEMMA RowsCounted == ASSUME NEW I \in SUBSET Import, NEW S
                     PROVE  IsFiniteSet(RowsIn(I, S)) /\ Held(I, S) \in Nat
  <1>1. RowsIn(I, S) \subseteq (1..MaxRequests) \X Plates
    BY DEF RowsIn, Import
  <1>2. IsFiniteSet((1..MaxRequests) \X Plates)
    <2>1. IsFiniteSet(1..MaxRequests) /\ IsFiniteSet(Plates)
      BY StorageAssumption, FS_Interval
    <2>2. QED
      BY <2>1, FS_Product
  <1>3. IsFiniteSet(RowsIn(I, S))
    BY <1>1, <1>2, FS_Subset
  <1>4. QED
    BY <1>3, FS_CardinalityType DEF Held

\* Fewer imports, or fewer owners, have no more rows.
LEMMA FewerRows ==
  ASSUME NEW I \in SUBSET Import, NEW J \in SUBSET I, NEW S, NEW T \in SUBSET S
  PROVE  Held(J, T) <= Held(I, S)
  <1>1. RowsIn(J, T) \in SUBSET RowsIn(I, S)
    BY DEF RowsIn
  <1>2. QED
    BY <1>1, RowsCounted, FS_Subset DEF Held

\* An owner without rows adds none.
LEMMA SameRows ==
  ASSUME NEW I \in SUBSET Import, NEW S, NEW u, Held(I, {u}) = 0
  PROVE  Held(I, S \cup {u}) = Held(I, S)
  <1>1. RowsIn(I, {u}) = {}
    BY RowsCounted, FS_EmptySet DEF Held
  <1>2. RowsIn(I, S \cup {u}) = RowsIn(I, S) \cup RowsIn(I, {u})
    BY DEF RowsIn
  <1>3. QED
    BY <1>1, <1>2 DEF Held

\* A new import adds its rows to those of its owner.
LEMMA MoreRows ==
  ASSUME NEW I \in SUBSET Import, NEW i \in Import, \A j \in I : j.id # i.id, NEW S
  PROVE  /\ i.owner \notin S => Held(I \cup {i}, S) = Held(I, S)
         /\ i.owner \in S => Held(I \cup {i}, S) = Held(I, S) + Cardinality(i.plates)
  <1>1. ASSUME i.owner \notin S PROVE Held(I \cup {i}, S) = Held(I, S)
    <2>1. {j \in I \cup {i} : j.owner \in S} = {j \in I : j.owner \in S}
      BY <1>1
    <2>2. QED
      BY <2>1 DEF Held, RowsIn
  <1>2. ASSUME i.owner \in S PROVE Held(I \cup {i}, S) = Held(I, S) + Cardinality(i.plates)
    <2> DEFINE A == RowsIn(I, S)
               B == {i.id} \X i.plates
    <2>1. {j \in I \cup {i} : j.owner \in S} = {j \in I : j.owner \in S} \cup {i}
      BY <1>2
    <2>2. RowsIn(I \cup {i}, S) = A \cup B
      BY <2>1 DEF RowsIn
    <2>3. A \cap B = {}
      BY DEF RowsIn
    <2>4. IsFiniteSet(A) /\ Cardinality(A) \in Nat
      BY RowsCounted DEF Held
    <2>5. IsFiniteSet(i.plates)
      BY StorageAssumption, FS_Subset DEF Import
    <2>6. /\ IsFiniteSet(B) /\ Cardinality(B) = Cardinality({i.id}) * Cardinality(i.plates)
          /\ Cardinality({i.id}) = 1 /\ Cardinality(i.plates) \in Nat
      BY <2>5, FS_Product, FS_Singleton, FS_CardinalityType
    <2>7. Cardinality(B) = Cardinality(i.plates)
      BY <2>6
    <2>8. Cardinality(A \cup B) = Cardinality(A) + Cardinality(B) - Cardinality(A \cap B)
      BY <2>4, <2>6, FS_Union
    <2> HIDE DEF A, B
    <2>9. Cardinality(A \cup B) = Cardinality(A) + Cardinality(i.plates)
      <3>1. Cardinality(A \cap B) = 0
        BY <2>3, FS_EmptySet
      <3>2. QED
        BY <2>4, <2>6, <2>7, <2>8, <3>1
    <2>10. QED
      BY <2>2, <2>9 DEF Held, A
  <1>3. QED
    BY <1>1, <1>2

\* Every group is within its limit; what a request that no commit has misled read or counted
\* still holds.
GroupsFit == \A g \in Groups : Live(g) => Held(imports, Members(g)) <= limit[g]

ImportFits(p) ==
  LET g == groupOf[imp[p].user] IN
  imp[p].pc \in Uninserted /\ GroupLimit(imp[p].user) # None =>
    /\ imp[p].max = limit[g]
    /\ imp[p].pc \in {"lookup", "insert"} /\ ~ imp[p].blind =>
         Held(imports, Members(g)) + Cardinality(imp[p].plates) <= limit[g]

AdminFits(a) ==
  LET g == adm[a].group IN
  /\ adm[a].pc = "move" /\ g # None /\ Live(g) => Held(imports, Members(g) \cup {adm[a].user}) <= limit[g]
  /\ adm[a].pc = "limit" => Held(imports, Members(g)) <= adm[a].max

QuotaInv ==
  lapses = {} => /\ GroupsFit
                 /\ \A p \in Importers \ stale : ImportFits(p)
                 /\ \A a \in Admins \ stale : AdminFits(a)

LEMMA QuotaOfGroups == QuotaInv => GroupQuota
  BY DEF QuotaInv, GroupsFit, GroupQuota, RowsOf, Rows, Held, RowsIn

LEMMA InitQuota == Init => QuotaInv
  <1> SUFFICES ASSUME Init PROVE QuotaInv
    OBVIOUS
  <1>1. \A g \in Groups : Held(imports, Members(g)) = 0
    <2>1. \A S : RowsIn(imports, S) = {}
      BY DEF Init, RowsIn
    <2>2. QED
      BY <2>1, FS_EmptySet DEF Held
  <1>2. GroupsFit
    <2>1. \A g \in Groups : limit[g] \in Nat
      BY StorageAssumption DEF Init
    <2>2. QED
      BY <1>1, <2>1 DEF GroupsFit
  <1>3. \A p \in Importers : imp[p].pc = "idle"
    BY DEF Init, NoImport
  <1>4. \A a \in Admins : adm[a].pc = "idle"
    BY DEF Init, NoAdmin
  <1>5. (\A p \in Importers : ImportFits(p)) /\ \A a \in Admins : AdminFits(a)
    BY <1>3, <1>4 DEF ImportFits, AdminFits, Uninserted
  <1>6. QED
    BY <1>2, <1>5 DEF QuotaInv

\* As long as memberships and limits stay and no rows are added, what fitted fits.
LEMMA StillFits ==
  ASSUME CInv, imports' \subseteq imports, UNCHANGED <<known, groupOf, limit>>
  PROVE  /\ GroupsFit => GroupsFit'
         /\ \A p \in Importers : ImportFits(p) /\ imp'[p] = imp[p] => ImportFits(p)'
         /\ \A a \in Admins : AdminFits(a) /\ adm'[a] = adm[a] => AdminFits(a)'
  <1>1. \A g : Members(g)' = Members(g)
    BY DEF Members
  <1>2. imports \in SUBSET Import /\ imports' \in SUBSET Import
    BY DEF CInv, ImportsInv, ImportsTyped
  <1>3. \A S : Held(imports', S) <= Held(imports, S)
    BY <1>2, FewerRows
  <1>4. \A S : Held(imports', S) \in Nat /\ Held(imports, S) \in Nat
    BY <1>2, RowsCounted
  <1>5. limit \in [Groups -> Limits \cup {None}] /\ groupOf \in [Users -> Groups \cup {None}]
        /\ adm \in [Admins -> AdminRequest] /\ imp \in [Importers -> ImportRequest]
    BY DEF CInv, AdminsInv, AdminsTyped, ImportsInv, ImportsTyped
  <1>6. GroupsFit => GroupsFit'
    <2> SUFFICES ASSUME GroupsFit, NEW g \in Groups, Live(g)' PROVE Held(imports', Members(g)') <= limit'[g]
      BY DEF GroupsFit
    <2>1. Live(g) /\ limit[g] \in Nat
      BY <1>5, StorageAssumption DEF Live
    <2>2. Held(imports, Members(g)) <= limit[g]
      BY <2>1 DEF GroupsFit
    <2>3. Held(imports', Members(g)) <= Held(imports, Members(g))
      BY <1>3
    <2>4. QED
      BY <1>1, <1>4, <2>1, <2>2, <2>3
  <1>7. ASSUME NEW p \in Importers, ImportFits(p), imp'[p] = imp[p] PROVE ImportFits(p)'
    <2> DEFINE g == groupOf[imp[p].user]
               n == Cardinality(imp[p].plates)
    <2>1. ASSUME imp[p].pc \in {"lookup", "insert"}, ~ imp[p].blind, GroupLimit(imp[p].user) # None
          PROVE  Held(imports', Members(g)) + n <= limit[g]
      <3>1. imp[p].user \in Users /\ n \in Nat
        <4>1. IsFiniteSet(imp[p].plates)
          BY <1>5, StorageAssumption, FS_Subset DEF ImportRequest
        <4>2. QED
          BY <2>1, <4>1, FS_CardinalityType DEF CInv, ImportsInv, ImporterInv
      <3>2. limit[g] \in Nat
        <4>1. g \in Groups /\ Live(g)
          BY <1>5, <2>1, <3>1 DEF GroupLimit, Live
        <4>2. QED
          BY <1>5, <4>1, StorageAssumption DEF Live
      <3>3. Held(imports, Members(g)) + n <= limit[g]
        BY <1>7, <2>1 DEF ImportFits, Uninserted
      <3>4. Held(imports', Members(g)) <= Held(imports, Members(g))
        BY <1>3
      <3> HIDE DEF g, n
      <3>5. QED
        BY <1>4, <3>1, <3>2, <3>3, <3>4
    <2>2. QED
      BY <1>1, <1>7, <2>1 DEF ImportFits, GroupLimit
  <1>8. ASSUME NEW a \in Admins, AdminFits(a), adm'[a] = adm[a] PROVE AdminFits(a)'
    <2> DEFINE g == adm[a].group
               u == adm[a].user
    <2>1. ASSUME adm[a].pc = "move", g # None, Live(g) PROVE Held(imports', Members(g) \cup {u}) <= limit[g]
      <3>1. Held(imports, Members(g) \cup {u}) <= limit[g]
        BY <1>8, <2>1 DEF AdminFits
      <3>2. Held(imports', Members(g) \cup {u}) <= Held(imports, Members(g) \cup {u})
        BY <1>3
      <3>3. g \in Groups
        BY <1>5, <2>1 DEF AdminRequest
      <3>4. limit[g] \in Nat
        BY <1>5, <2>1, <3>3, StorageAssumption DEF Live
      <3> HIDE DEF g, u
      <3>5. QED
        BY <1>4, <3>1, <3>2, <3>4
    <2>2. ASSUME adm[a].pc = "limit" PROVE Held(imports', Members(g)) <= adm[a].max
      <3>1. Held(imports, Members(g)) <= adm[a].max /\ adm[a].max \in Nat
        BY <1>8, <2>2, StorageAssumption DEF AdminFits, CInv, AdminsInv, AdminInv
      <3>2. Held(imports', Members(g)) <= Held(imports, Members(g))
        BY <1>3
      <3>3. QED
        BY <1>4, <3>1, <3>2
    <2>3. QED
      BY <1>1, <1>8, <2>1, <2>2 DEF AdminFits, Live
  <1>9. QED
    BY <1>6, <1>7, <1>8

\* A step that adds no rows, changes neither memberships nor limits, and whose own request
\* keeps to what it read.
LEMMA QuotaStays ==
  ASSUME CInv, QuotaInv, imports' \subseteq imports, UNCHANGED <<known, groupOf, limit>>,
         lapses' = {} => lapses = {},
         \A p \in Importers \ stale' : (p \notin stale /\ imp'[p] = imp[p]) \/ (lapses = {} => ImportFits(p)'),
         \A a \in Admins \ stale' : (a \notin stale /\ adm'[a] = adm[a]) \/ (lapses = {} => AdminFits(a)')
  PROVE  QuotaInv'
  <1> SUFFICES ASSUME lapses' = {}
               PROVE  /\ GroupsFit'
                      /\ \A p \in Importers \ stale' : ImportFits(p)'
                      /\ \A a \in Admins \ stale' : AdminFits(a)'
    BY DEF QuotaInv
  <1>1. /\ lapses = {} /\ GroupsFit
        /\ \A p \in Importers \ stale : ImportFits(p)
        /\ \A a \in Admins \ stale : AdminFits(a)
    BY DEF QuotaInv
  <1>2. /\ GroupsFit => GroupsFit'
        /\ \A p \in Importers : ImportFits(p) /\ imp'[p] = imp[p] => ImportFits(p)'
        /\ \A a \in Admins : AdminFits(a) /\ adm'[a] = adm[a] => AdminFits(a)'
    BY StillFits
  <1>3. QED
    BY <1>1, <1>2

\* The step of an importer that ends its request or goes on with it.
LEMMA ImporterQuota ==
  ASSUME CInv, QuotaInv, NEW p \in Importers, NEW r \in ImportRequest, imp' = [imp EXCEPT ![p] = r],
         imports' \subseteq imports, UNCHANGED <<userDb, adm, lapses>>,
         \A q \in (Importers \cup Admins) \ {p} : q \in stale' <=> q \in stale,
         lapses = {} /\ p \notin stale' => ImportFits(p)'
  PROVE  QuotaInv'
  <1>1. imp'[p] = r /\ \A q \in Importers \ {p} : imp'[q] = imp[q]
    BY DEF CInv, ImportsInv, ImportsTyped
  <1>2. UNCHANGED <<known, groupOf, limit, own>>
    BY DEF userDb
  <1>3. \A a \in Admins : a # p
    BY StorageAssumption
  <1>4. QED
    BY <1>1, <1>2, <1>3, QuotaStays

LEMMA IdleFits == ASSUME NEW p \in Importers PROVE imp'[p].pc \notin Uninserted => ImportFits(p)'
  BY DEF ImportFits

LEMMA ReceiveQuota == ASSUME CInv, QuotaInv, NEW p \in Importers, Receive(p) PROVE QuotaInv'
  <1>1. PICK u \in known, n \in Names, S \in SUBSET Plates :
          imp' = [imp EXCEPT ![p] =
                    [NoImport EXCEPT !.pc = IF GroupLimit(u) = None THEN "count" ELSE "peers",
                                     !.user = u, !.name = n, !.plates = S, !.peers = {u},
                                     !.max = IF GroupLimit(u) = None THEN own[u] ELSE GroupLimit(u)]]
    BY DEF Receive
  <1> DEFINE r == imp'[p]
  <1>2. imp \in [Importers -> ImportRequest] /\ imp' \in [Importers -> ImportRequest]
    BY ReceiveCInv DEF CInv, ImportsInv, ImportsTyped
  <1>3. /\ r.pc \in {"count", "peers"} /\ r.user = u
        /\ GroupLimit(u) # None => r.max = limit[groupOf[u]]
    BY <1>1, <1>2 DEF NoImport, GroupLimit
  <1>4. imp' = [imp EXCEPT ![p] = r] /\ r \in ImportRequest
    BY <1>1, <1>2
  <1>5. UNCHANGED <<userDb, imports, adm, lapses, stale>> /\ UNCHANGED <<groupOf, limit>>
    BY DEF Receive, postgres, history, userDb
  <1>6. ImportFits(p)'
    BY <1>3, <1>5 DEF ImportFits, GroupLimit
  <1> HIDE DEF r
  <1>7. QED
    BY <1>4, <1>5, <1>6, ImporterQuota

LEMMA ReadPeersQuota == ASSUME CInv, QuotaInv, NEW p \in Importers, ReadPeers(p) PROVE QuotaInv'
  <1> DEFINE r == imp'[p]
  <1>1. imp \in [Importers -> ImportRequest] /\ imp' \in [Importers -> ImportRequest]
    BY ReadPeersCInv DEF CInv, ImportsInv, ImportsTyped
  <1>2. /\ imp[p].pc = "peers" /\ imp' = [imp EXCEPT ![p] = r] /\ r \in ImportRequest
        /\ r.pc = "count" /\ r.user = imp[p].user /\ r.max = imp[p].max
    <2>1. imp' = [imp EXCEPT ![p] = [imp[p] EXCEPT !.pc = "count", !.peers = Peers(imp[p].user)]]
      BY <1>1 DEF ReadPeers
    <2>2. imp[p].pc = "peers" /\ r = [imp[p] EXCEPT !.pc = "count", !.peers = Peers(imp[p].user)]
      BY <1>1, <2>1 DEF ReadPeers
    <2>3. r.pc = "count" /\ r.user = imp[p].user /\ r.max = imp[p].max
      BY <1>1, <2>2 DEF ImportRequest
    <2>4. r \in ImportRequest
      BY <1>1
    <2>5. imp' = [imp EXCEPT ![p] = r]
      BY <2>1, <2>2
    <2>6. QED
      BY <2>2, <2>3, <2>4, <2>5
  <1>3. UNCHANGED <<userDb, imports, adm, lapses, stale>> /\ UNCHANGED <<groupOf, limit>>
    BY DEF ReadPeers, postgres, history, userDb
  <1>4. lapses = {} /\ p \notin stale => ImportFits(p)'
    BY <1>2, <1>3 DEF QuotaInv, ImportFits, GroupLimit, Uninserted
  <1> HIDE DEF r
  <1>5. QED
    BY <1>2, <1>3, <1>4, ImporterQuota

LEMMA CountQuota == ASSUME CInv, QuotaInv, NEW p \in Importers, Count(p) PROVE QuotaInv'
  <1> DEFINE r == imp'[p]
             u == imp[p].user
             g == groupOf[u]
             counted == imp[p].peers \cap Visible(u)
             fits == RowsOf(counted) + Cardinality(imp[p].plates) <= imp[p].max
             blind == GroupLimit(u) # None /\ counted # Members(g)
  <1>1. imp \in [Importers -> ImportRequest] /\ imp' \in [Importers -> ImportRequest]
    BY CountCInv DEF CInv, ImportsInv, ImportsTyped
  <1>2. /\ imp[p].pc = "count"
        /\ imp' = [imp EXCEPT ![p] = IF fits THEN [imp[p] EXCEPT !.pc = "lookup", !.blind = blind]
                                     ELSE NoImport]
        /\ stale' = IF fits THEN stale ELSE stale \ {p}
    BY DEF Count
  <1>3. /\ UNCHANGED <<userDb, imports, adm, lapses>> /\ UNCHANGED <<groupOf, limit>>
        /\ \A h : Members(h)' = Members(h)
    BY DEF Count, postgres, userDb, Members
  <1>4. CASE fits
    <2>1. /\ imp' = [imp EXCEPT ![p] = r] /\ r \in ImportRequest
          /\ r.pc = "lookup" /\ r.user = u /\ r.max = imp[p].max /\ r.plates = imp[p].plates
          /\ r.blind = blind
      <3>1. blind \in BOOLEAN
        OBVIOUS
      <3> HIDE DEF blind
      <3>2. QED
        BY <1>1, <1>2, <1>4, <3>1 DEF ImportRequest
    <2>2. ASSUME lapses = {}, p \notin stale' PROVE ImportFits(p)'
      <3>1. p \notin stale
        BY <1>2, <1>4, <2>2
      <3>2. GroupLimit(u) # None => imp[p].max = limit[g]
        BY <1>2, <2>2, <3>1 DEF QuotaInv, ImportFits, Uninserted
      <3>3. Held(imports, counted) + Cardinality(imp[p].plates) <= imp[p].max
        BY <1>4 DEF RowsOf, Rows, Held, RowsIn
      <3>4. GroupLimit(u) # None /\ ~ blind => counted = Members(g)
        OBVIOUS
      <3> HIDE DEF counted, blind
      <3>5. QED
        BY <1>3, <2>1, <3>2, <3>3, <3>4 DEF ImportFits, GroupLimit, Members
    <2>3. stale' = stale
      BY <1>2, <1>4
    <2> HIDE DEF r
    <2>4. QED
      BY <1>3, <2>1, <2>2, <2>3, ImporterQuota
  <1>5. CASE ~ fits
    <2>1. imp' = [imp EXCEPT ![p] = NoImport] /\ stale' = stale \ {p}
      BY <1>2, <1>5
    <2>2. imp'[p].pc = "idle" /\ NoImport \in ImportRequest /\ NoImport.pc = "idle"
      BY <1>1, <2>1, NoImportType DEF NoImport
    <2>3. ImportFits(p)'
      BY <2>2, IdleFits DEF Uninserted
    <2> HIDE DEF fits
    <2>4. QED
      BY <1>3, <2>1, <2>2, <2>3, ImporterQuota
  <1>6. QED
    BY <1>4, <1>5

LEMMA LookUpNameQuota == ASSUME CInv, QuotaInv, NEW p \in Importers, LookUpName(p) PROVE QuotaInv'
  <1> DEFINE r == imp'[p]
  <1>1. imp \in [Importers -> ImportRequest] /\ imp' \in [Importers -> ImportRequest]
    BY LookUpNameCInv DEF CInv, ImportsInv, ImportsTyped
  <1>2. PICK s \in ImportRequest :
          /\ imp' = [imp EXCEPT ![p] = s]
          /\ \/ s.pc = "idle" /\ stale' = stale \ {p}
             \/ /\ s.pc = "insert" /\ s.user = imp[p].user /\ s.max = imp[p].max
                /\ s.plates = imp[p].plates /\ s.blind = imp[p].blind
                /\ stale' = stale
    <2>1. r \in ImportRequest /\ imp' = [imp EXCEPT ![p] = r]
      BY <1>1 DEF LookUpName
    <2>2. \/ r.pc = "idle" /\ stale' = stale \ {p}
          \/ /\ r.pc = "insert" /\ r.user = imp[p].user /\ r.max = imp[p].max
             /\ r.plates = imp[p].plates /\ r.blind = imp[p].blind
             /\ stale' = stale
      <3> DEFINE taken == \E i \in imports : i.owner = imp[p].user /\ i.name = imp[p].name
                 seen  == {i.id : i \in {j \in imports : j.owner = imp[p].user}}
      <3>1. /\ r = IF taken THEN NoImport ELSE [imp[p] EXCEPT !.pc = "insert", !.looked = seen]
            /\ stale' = IF taken THEN stale \ {p} ELSE stale
        BY <1>1 DEF LookUpName
      <3>2. \A x : LET e == [imp[p] EXCEPT !.pc = "insert", !.looked = x]
                   IN  e.pc = "insert" /\ e.user = imp[p].user /\ e.max = imp[p].max
                       /\ e.plates = imp[p].plates /\ e.blind = imp[p].blind
        BY <1>1 DEF ImportRequest
      <3>3. NoImport.pc = "idle"
        BY DEF NoImport
      <3> HIDE DEF r, taken, seen
      <3>4. QED
        BY <3>1, <3>2, <3>3
    <2>3. QED
      BY <2>1, <2>2
  <1>3. imp[p].pc = "lookup" /\ UNCHANGED <<userDb, imports, adm, lapses>> /\ UNCHANGED <<groupOf, limit>>
    BY DEF LookUpName, postgres, userDb
  <1>4. imp'[p] = s
    BY <1>1, <1>2
  <1>5. ASSUME lapses = {}, p \notin stale' PROVE ImportFits(p)'
    <2>1. CASE s.pc = "idle"
      BY <1>4, <2>1, IdleFits DEF Uninserted
    <2>2. CASE s.pc = "insert"
      <3>1. p \notin stale /\ s.user = imp[p].user /\ s.max = imp[p].max
            /\ s.plates = imp[p].plates /\ s.blind = imp[p].blind
        BY <1>2, <1>5, <2>2
      <3>2. ImportFits(p)
        BY <1>5, <3>1 DEF QuotaInv
      <3>3. \A h : Members(h)' = Members(h)
        BY <1>3 DEF Members, userDb
      <3>4. QED
        BY <1>3, <1>4, <3>1, <3>2, <3>3 DEF ImportFits, GroupLimit, Uninserted
    <2>3. QED
      BY <1>2, <2>1, <2>2
  <1>6. \A q : q # p => (q \in stale' <=> q \in stale)
    BY <1>2
  <1>7. QED
    BY <1>2, <1>3, <1>5, <1>6, ImporterQuota

\* A request ends without rows.
LEMMA EndQuota ==
  ASSUME CInv, QuotaInv, NEW p \in Importers, imp' = [imp EXCEPT ![p] = NoImport],
         imports' \subseteq imports, UNCHANGED <<userDb, adm, lapses>>, stale' \in {stale, stale \ {p}}
  PROVE  QuotaInv'
  <1>1. imp'[p].pc = "idle" /\ NoImport \in ImportRequest /\ NoImport.pc = "idle"
    BY NoImportType DEF NoImport, CInv, ImportsInv, ImportsTyped
  <1>2. ImportFits(p)'
    BY <1>1, IdleFits DEF Uninserted
  <1>3. QED
    BY <1>1, <1>2, ImporterQuota

LEMMA RemoveEmptyQuota == ASSUME CInv, QuotaInv, NEW p \in Importers, RemoveEmpty(p) PROVE QuotaInv'
  <1>1. /\ imp' = [imp EXCEPT ![p] = NoImport] /\ imports' \subseteq imports
        /\ UNCHANGED <<userDb, adm, lapses>> /\ stale' = stale
    BY DEF RemoveEmpty, history
  <1>2. QED
    BY <1>1, EndQuota

LEMMA CrashQuota == ASSUME CInv, QuotaInv, NEW p \in Importers, Crash(p) PROVE QuotaInv'
  <1>1. /\ imp' = [imp EXCEPT ![p] = NoImport] /\ imports' \subseteq imports
        /\ UNCHANGED <<userDb, adm, lapses>> /\ stale' = stale \ {p}
    BY DEF Crash, postgres
  <1>2. QED
    BY <1>1, EndQuota

\* Steps that leave requests and user database alone.
LEMMA AsideQuota ==
  ASSUME CInv, QuotaInv, imports' \subseteq imports, UNCHANGED <<known, groupOf, limit, imp, adm, lapses, stale>>
  PROVE  QuotaInv'
  BY QuotaStays

LEMMA DeleteImportQuota == ASSUME CInv, QuotaInv, NEW u \in known, DeleteImport(u) PROVE QuotaInv'
  <1>1. imports' \subseteq imports /\ UNCHANGED <<known, groupOf, limit, own, imp, adm, lapses, stale>>
    BY DEF DeleteImport, userDb, history
  <1>2. QED
    BY <1>1, AsideQuota

LEMMA CheckingQuota == ASSUME CInv, QuotaInv, NEW c \in Checkers, Checking(c) PROVE QuotaInv'
  <1>1. imports' \subseteq imports /\ UNCHANGED <<known, groupOf, limit, own, imp, adm, lapses, stale>>
    BY DEF Checking, StartCheck, ReadMetaPeers, ListPeer, ReadImports, ReadRows, EndCheck,
           userDb, history, postgres
  <1>2. QED
    BY <1>1, AsideQuota

LEMMA LimitUserQuota == ASSUME CInv, QuotaInv, NEW a \in Admins, LimitUser(a) PROVE QuotaInv'
  <1>1. imports' \subseteq imports /\ UNCHANGED <<known, groupOf, limit, imp, adm, lapses, stale>>
    BY DEF LimitUser, history, postgres
  <1>2. QED
    BY <1>1, AsideQuota

\* The step of an admin request that changes neither memberships nor limits.
LEMMA AdminQuota ==
  ASSUME CInv, QuotaInv, NEW a \in Admins, UNCHANGED <<known, groupOf, limit, own, imports, imp, lapses>>,
         stale' \in {stale, stale \ {a}}, \A b \in Admins \ {a} : adm'[b] = adm[b],
         lapses = {} => AdminFits(a)'
  PROVE  QuotaInv'
  <1>1. \A p \in Importers : p # a
    BY StorageAssumption
  <1>2. QED
    BY <1>1, QuotaStays

LEMMA PastFits == ASSUME NEW a \in Admins PROVE adm'[a].pc \notin {"move", "limit"} => AdminFits(a)'
  BY DEF AdminFits

LEMMA EndsAdmin ==
  ASSUME CInv, NEW a \in Admins, adm' = [adm EXCEPT ![a] = NoAdmin]
  PROVE  adm'[a].pc = "idle" /\ \A b \in Admins \ {a} : adm'[b] = adm[b]
  BY DEF CInv, AdminsInv, AdminsTyped, NoAdmin

LEMMA BeginMoveQuota == ASSUME CInv, QuotaInv, NEW a \in Admins, BeginMove(a) PROVE QuotaInv'
  <1>1. PICK u \in known : \E g \in {h \in Groups : Admits(h, {u})} \cup {None} :
          Begin(a, "move", u, g, None)
    BY DEF BeginMove
  <1>2. PICK g \in {h \in Groups : Admits(h, {u})} \cup {None} : Begin(a, "move", u, g, None)
    BY <1>1
  <1>3. u \in Users
    BY DEF CInv, AdminsInv, AdminsTyped
  <1>4. /\ adm'[a].pc = "move" /\ adm'[a].user = u /\ adm'[a].group = g
        /\ \A b \in Admins \ {a} : adm'[b] = adm[b]
    BY <1>2, <1>3, BeginFacts
  <1>5. UNCHANGED <<known, groupOf, limit, own, imports, imp, lapses, stale>>
    BY DEF BeginMove, userDb, postgres
  <1>6. g # None => Held(imports, Members(g) \cup {u}) <= limit[g]
    BY DEF Admits, RowsOf, Rows, Held, RowsIn
  <1>7. Members(g)' = Members(g)
    BY <1>5 DEF Members
  <1>8. AdminFits(a)'
    BY <1>4, <1>5, <1>6, <1>7 DEF AdminFits
  <1>9. QED
    BY <1>4, <1>5, <1>8, AdminQuota

LEMMA BeginCreateQuota == ASSUME CInv, QuotaInv, NEW a \in Admins, BeginCreate(a) PROVE QuotaInv'
  <1>1. PICK g \in Groups \cup {None} : Begin(a, "create", None, g, None)
    BY DEF BeginCreate
  <1>2. adm'[a].pc = "create" /\ \A b \in Admins \ {a} : adm'[b] = adm[b]
    BY <1>1, BeginFacts
  <1>3. UNCHANGED <<known, groupOf, limit, own, imports, imp, lapses, stale>>
    BY DEF BeginCreate, userDb, postgres
  <1>4. QED
    BY <1>2, <1>3, PastFits, AdminQuota

LEMMA BeginLimitQuota == ASSUME CInv, QuotaInv, NEW a \in Admins, BeginLimit(a) PROVE QuotaInv'
  <1>1. PICK g \in Groups, l \in Limits : RowsOf(Members(g)) <= l /\ Begin(a, "limit", None, g, l)
    BY DEF BeginLimit
  <1>2. /\ adm'[a].pc = "limit" /\ adm'[a].group = g /\ adm'[a].max = l
        /\ \A b \in Admins \ {a} : adm'[b] = adm[b]
    BY <1>1, BeginFacts
  <1>3. UNCHANGED <<known, groupOf, limit, own, imports, imp, lapses, stale>>
    BY DEF BeginLimit, userDb, postgres
  <1>4. Held(imports, Members(g)) <= l /\ Members(g)' = Members(g)
    BY <1>1, <1>3 DEF RowsOf, Rows, Held, RowsIn, Members
  <1>5. AdminFits(a)'
    BY <1>2, <1>3, <1>4 DEF AdminFits
  <1>6. QED
    BY <1>2, <1>3, <1>5, AdminQuota

LEMMA MirrorQuota ==
  ASSUME CInv, QuotaInv, NEW a \in Admins, Sync(a) \/ Unmirror(a) \/ CutShort(a)
  PROVE  QuotaInv'
  <1>1. /\ adm' = [adm EXCEPT ![a] = NoAdmin] /\ stale' \in {stale, stale \ {a}}
        /\ UNCHANGED <<known, groupOf, limit, own, imports, imp, lapses>>
    BY DEF Sync, Unmirror, CutShort, userDb, postgres, history
  <1>2. QED
    BY <1>1, EndsAdmin, PastFits, AdminQuota

LEMMA DeleteUserQuota == ASSUME CInv, QuotaInv, NEW a \in Admins, DeleteUser(a) PROVE QuotaInv'
  <1>1. PICK u \in known : Begin(a, "forget", u, None, None)
    BY DEF DeleteUser
  <1>2. u \in Users
    BY DEF CInv, AdminsInv, AdminsTyped
  <1>3. adm'[a].pc = "forget" /\ \A b \in Admins \ {a} : adm'[b] = adm[b]
    BY <1>1, <1>2, BeginFacts
  <1>4. UNCHANGED <<known, groupOf, limit, own, imports, imp, lapses, stale>>
    BY DEF DeleteUser, userDb
  <1>5. QED
    BY <1>3, <1>4, PastFits, AdminQuota

\* A commit that changes memberships or limits misleads all who have read them: what is left
\* to show is that the groups fit.
LEMMA Misled ==
  ASSUME CInv, QuotaInv, NEW a \in Admins, Misleads(Informed, a), imp' = imp,
         \A b \in Admins \ {a} : adm'[b] = adm[b], adm'[a].pc \notin {"move", "limit"},
         lapses' = {} => GroupsFit'
  PROVE  QuotaInv'
  <1>1. stale' = (stale \cup Informed) \ {a}
    BY DEF Misleads
  <1>2. ASSUME NEW p \in Importers \ stale' PROVE ImportFits(p)'
    <2>1. p # a
      BY StorageAssumption
    <2>2. imp[p].pc \notin Uninserted
      BY <1>1, <2>1 DEF Informed, Counted, Uninserted
    <2>3. QED
      BY <2>2, IdleFits
  <1>3. ASSUME NEW b \in Admins \ stale' PROVE AdminFits(b)'
    <2>1. CASE b = a
      BY <2>1, PastFits
    <2>2. CASE b # a
      <3>1. adm[b].pc \notin {"move", "limit"}
        BY <1>1, <2>2 DEF Informed, Counted
      <3>2. QED
        BY <2>2, <3>1, PastFits
    <2>3. QED
      BY <2>1, <2>2
  <1>4. QED
    BY <1>2, <1>3 DEF QuotaInv

\* The groups as they were, with fewer members and the same limits.
LEMMA GroupFits ==
  ASSUME CInv, GroupsFit, NEW g \in Groups, Live(g), limit'[g] = limit[g], imports' = imports,
         Members(g)' \subseteq Members(g)
  PROVE  Held(imports', Members(g)') <= limit'[g]
  <1>1. imports \in SUBSET Import /\ limit[g] \in Nat
    BY StorageAssumption DEF CInv, ImportsInv, ImportsTyped, AdminsInv, AdminsTyped, Live
  <1>2. Held(imports, Members(g)) <= limit[g]
    BY DEF GroupsFit
  <1> DEFINE M == Members(g)'
  <1>3. Held(imports, M) <= Held(imports, Members(g)) /\ Held(imports, M) \in Nat
        /\ Held(imports, Members(g)) \in Nat
    BY <1>1, FewerRows, RowsCounted
  <1> HIDE DEF M
  <1>4. Held(imports, M) <= limit[g]
    BY <1>1, <1>2, <1>3
  <1>5. QED
    BY <1>4 DEF M

LEMMA CommitLimitQuota == ASSUME CInv, QuotaInv, NEW a \in Admins, CommitLimit(a) PROVE QuotaInv'
  <1> DEFINE g == adm[a].group
             l == adm[a].max
  <1>1. /\ adm[a].pc = "limit" /\ g \in Groups
        /\ limit' = IF Live(g) THEN [limit EXCEPT ![g] = l] ELSE limit
        /\ adm' = [adm EXCEPT ![a] = NoAdmin]
        /\ Relies(a) /\ Misleads(Informed, a)
        /\ UNCHANGED <<known, groupOf, own, imports, imp>>
    BY DEF CommitLimit, postgres, CInv, AdminsInv, AdminInv
  <1>2. limit \in [Groups -> Limits \cup {None}] /\ l # None /\ l \in Limits
    BY <1>1, StorageAssumption DEF CInv, AdminsInv, AdminsTyped, AdminInv
  <1>3. \A h : Members(h)' = Members(h)
    BY <1>1 DEF Members
  <1>4. ASSUME lapses' = {} PROVE GroupsFit'
    <2>1. lapses = {} /\ a \notin stale
      BY <1>1, <1>4 DEF Relies
    <2>2. GroupsFit /\ AdminFits(a)
      BY <2>1 DEF QuotaInv
    <2>3. Held(imports, Members(g)) <= l
      BY <1>1, <2>2 DEF AdminFits
    <2>4. ASSUME NEW h \in Groups, Live(h)' PROVE Held(imports', Members(h)') <= limit'[h]
      <3>1. CASE h = g /\ Live(g)
        <4>1. limit'[h] = l
          BY <1>1, <1>2, <3>1
        <4>2. QED
          BY <1>1, <1>3, <2>3, <3>1, <4>1
      <3>2. CASE ~ (h = g /\ Live(g))
        <4>1. limit'[h] = limit[h] /\ Live(h)
          BY <1>1, <1>2, <2>4, <3>2 DEF Live
        <4>2. QED
          BY <1>1, <1>3, <2>2, <4>1, GroupFits
      <3>3. QED
        BY <3>1, <3>2
    <2>5. QED
      BY <2>4 DEF GroupsFit
  <1>5. QED
    BY <1>1, <1>4, EndsAdmin, Misled

LEMMA DeleteGroupQuota == ASSUME CInv, QuotaInv, NEW a \in Admins, DeleteGroup(a) PROVE QuotaInv'
  <1>1. PICK g \in Groups :
          /\ Live(g) /\ Begin(a, "unmirror", None, g, None)
          /\ groupOf' = [u \in Users |-> IF groupOf[u] = g THEN None ELSE groupOf[u]]
          /\ limit' = [limit EXCEPT ![g] = None]
    BY DEF DeleteGroup
  <1>2. adm'[a].pc = "unmirror" /\ \A b \in Admins \ {a} : adm'[b] = adm[b]
    BY <1>1, BeginFacts
  <1>3. UNCHANGED <<known, own, imports, imp, lapses>> /\ Misleads(Informed, a)
    BY DEF DeleteGroup, postgres
  <1>4. ASSUME lapses' = {} PROVE GroupsFit'
    <2>1. GroupsFit
      BY <1>3, <1>4 DEF QuotaInv
    <2>2. ASSUME NEW h \in Groups, Live(h)' PROVE Held(imports', Members(h)') <= limit'[h]
      <3>1. limit'[h] = limit[h] /\ Live(h)
        BY <1>1, <2>2 DEF Live, CInv, AdminsInv, AdminsTyped
      <3>2. Members(h)' \subseteq Members(h)
        <4>1. known \subseteq Users /\ h # None
          BY StorageAssumption DEF CInv, AdminsInv, AdminsTyped
        <4>2. QED
          BY <1>1, <1>3, <4>1 DEF Members
      <3>3. QED
        BY <1>3, <2>1, <3>1, <3>2, GroupFits
    <2>3. QED
      BY <2>2 DEF GroupsFit
  <1>5. QED
    BY <1>2, <1>3, <1>4, Misled

LEMMA ForgetQuota == ASSUME CInv, QuotaInv, NEW a \in Admins, Forget(a) PROVE QuotaInv'
  <1> DEFINE u == adm[a].user
  <1>1. /\ known' = known \ {u} /\ groupOf' = [groupOf EXCEPT ![u] = None]
        /\ own' = [own EXCEPT ![u] = None] /\ adm' = [adm EXCEPT ![a] = NoAdmin]
        /\ Misleads(Informed, a) /\ UNCHANGED <<limit, imports, imp, lapses>>
    BY DEF Forget, postgres
  <1>2. known \subseteq Users /\ own \in [Users -> Limits \cup {None}]
        /\ groupOf \in [Users -> Groups \cup {None}]
    BY DEF CInv, AdminsInv, AdminsTyped
  <1>3. ASSUME lapses' = {} PROVE GroupsFit'
    <2>1. GroupsFit
      BY <1>1, <1>3 DEF QuotaInv
    <2>2. ASSUME NEW h \in Groups, Live(h)' PROVE Held(imports', Members(h)') <= limit'[h]
      <3>1. limit'[h] = limit[h] /\ Live(h) /\ Members(h)' \subseteq Members(h)
        BY <1>1, <1>2, <2>2 DEF Live, Members
      <3>2. QED
        BY <1>1, <2>1, <3>1, GroupFits
    <2>3. QED
      BY <2>2 DEF GroupsFit
  <1>4. QED
    BY <1>1, <1>3, EndsAdmin, Misled

LEMMA CommitMoveQuota == ASSUME CInv, QuotaInv, NEW a \in Admins, CommitMove(a) PROVE QuotaInv'
  <1> DEFINE u == adm[a].user
             g == adm[a].group
  <1>1. /\ adm[a].pc = "move" /\ adm[a] \in AdminRequest
        /\ UNCHANGED <<known, limit, own, imports, imp>>
    BY DEF CommitMove, CInv, AdminsInv, AdminsTyped, postgres
  <1>2. CASE /\ u \in known /\ adm' = [adm EXCEPT ![a] = [adm[a] EXCEPT !.pc = "sync"]]
             /\ groupOf' = [groupOf EXCEPT ![u] = g] /\ Relies(a) /\ Misleads(Informed, a)
    <2>1. adm'[a].pc = "sync" /\ \A b \in Admins \ {a} : adm'[b] = adm[b]
      BY <1>1, <1>2 DEF CInv, AdminsInv, AdminsTyped, AdminRequest
    <2>2. groupOf \in [Users -> Groups \cup {None}] /\ known \subseteq Users /\ u \in known
      BY <1>2 DEF CInv, AdminsInv, AdminsTyped
    <2>3. ASSUME lapses' = {} PROVE GroupsFit'
      <3>1. lapses = {} /\ a \notin stale
        BY <1>2, <2>3 DEF Relies
      <3>2. GroupsFit /\ AdminFits(a)
        BY <3>1 DEF QuotaInv
      <3>3. ASSUME NEW h \in Groups, Live(h)' PROVE Held(imports', Members(h)') <= limit'[h]
        <4>1. Live(h)
          BY <1>1, <3>3 DEF Live
        <4>2. CASE h = g
          <5>1. Members(h)' = Members(h) \cup {u}
            BY <1>1, <1>2, <2>2, <4>2 DEF Members
          <5>2. g # None
            BY <4>2, StorageAssumption
          <5>3. Held(imports, Members(g) \cup {u}) <= limit[g]
            BY <1>1, <3>2, <4>1, <4>2, <5>2 DEF AdminFits
          <5>4. QED
            BY <1>1, <4>2, <5>1, <5>3
        <4>3. CASE h # g
          <5>1. Members(h)' \subseteq Members(h)
            BY <1>1, <1>2, <2>2, <4>3 DEF Members
          <5>2. QED
            BY <1>1, <3>2, <4>1, <5>1, GroupFits
        <4>4. QED
          BY <4>2, <4>3
      <3>4. QED
        BY <3>3 DEF GroupsFit
    <2>4. QED
      BY <1>1, <1>2, <2>1, <2>3, Misled
  <1>3. CASE /\ adm' = [adm EXCEPT ![a] = NoAdmin] /\ stale' = stale \ {a}
             /\ UNCHANGED <<groupOf, lapses>>
    BY <1>1, <1>3, EndsAdmin, PastFits, AdminQuota
  <1>4. QED
    BY <1>2, <1>3 DEF CommitMove

LEMMA CommitCreateQuota == ASSUME CInv, QuotaInv, NEW a \in Admins, CommitCreate(a) PROVE QuotaInv'
  <1> DEFINE g == adm[a].group
  <1>1. /\ adm[a].pc = "create" /\ adm[a] \in AdminRequest /\ UNCHANGED <<limit, imports, imp>>
    BY DEF CommitCreate, CInv, AdminsInv, AdminsTyped, postgres
  <1>2. ASSUME NEW u \in Users \ known,
               known' = known \cup {u}, groupOf' = [groupOf EXCEPT ![u] = g],
               adm' = [adm EXCEPT ![a] = [adm[a] EXCEPT !.pc = "sync", !.user = u]],
               lapses' = lapses \cup {x \in {"inherited"} : RowsOf({u}) > 0},
               Misleads(Informed, a)
        PROVE  QuotaInv'
    <2>1. adm'[a].pc = "sync" /\ \A b \in Admins \ {a} : adm'[b] = adm[b]
      BY <1>1, <1>2 DEF CInv, AdminsInv, AdminsTyped, AdminRequest
    <2>2. groupOf \in [Users -> Groups \cup {None}] /\ known \subseteq Users
          /\ imports \in SUBSET Import
      BY DEF CInv, AdminsInv, AdminsTyped, ImportsInv, ImportsTyped
    <2>3. ASSUME lapses' = {} PROVE GroupsFit'
      <3>1. lapses = {} /\ GroupsFit
        BY <1>2, <2>3 DEF QuotaInv
      <3>2. Held(imports, {u}) = 0
        <4>1. ~ (RowsOf({u}) > 0)
          BY <1>2, <2>3
        <4>2. Held(imports, {u}) \in Nat /\ RowsOf({u}) = Held(imports, {u})
          BY <2>2, RowsCounted DEF RowsOf, Rows, Held, RowsIn
        <4>3. QED
          BY <4>1, <4>2
      <3>3. ASSUME NEW h \in Groups, Live(h)' PROVE Held(imports', Members(h)') <= limit'[h]
        <4>1. Live(h)
          BY <1>1, <3>3 DEF Live
        <4>2. CASE h = g
          <5>1. Members(h)' = Members(h) \cup {u}
            BY <1>1, <1>2, <2>2, <4>2 DEF Members
          <5>2. Held(imports, Members(h) \cup {u}) = Held(imports, Members(h))
            BY <2>2, <3>2, SameRows
          <5>3. QED
            BY <1>1, <3>1, <4>1, <5>1, <5>2 DEF GroupsFit
        <4>3. CASE h # g
          <5>1. Members(h)' \subseteq Members(h)
            BY <1>1, <1>2, <2>2, <4>3 DEF Members
          <5>2. QED
            BY <1>1, <3>1, <4>1, <5>1, GroupFits
        <4>4. QED
          BY <4>2, <4>3
      <3>4. QED
        BY <3>3 DEF GroupsFit
    <2>4. QED
      BY <1>1, <1>2, <2>1, <2>3, Misled
  <1>3. CASE /\ adm' = [adm EXCEPT ![a] = NoAdmin] /\ stale' = stale \ {a}
             /\ UNCHANGED <<known, groupOf, own, lapses>>
    BY <1>1, <1>3, EndsAdmin, PastFits, AdminQuota
  <1>4. QED
    BY <1>2, <1>3 DEF CommitCreate

LEMMA InsertQuota == ASSUME CInv, QuotaInv, NEW p \in Importers, Insert(p) PROVE QuotaInv'
  <1> DEFINE u == imp[p].user
             n == Cardinality(imp[p].plates)
             i == [id |-> nextId, owner |-> u, name |-> imp[p].name,
                   plates |-> imp[p].plates, looked |-> imp[p].looked]
  <1>1. /\ imp[p].pc = "insert" /\ imports' = imports \cup {i} /\ UNCHANGED <<userDb, adm>>
        /\ UNCHANGED <<known, groupOf, limit, own>> /\ Misleads(Counted, p)
        /\ lapses' = {} => lapses = {} /\ p \notin stale /\ ~ imp[p].blind
    BY DEF Insert, userDb
  <1>2. imp \in [Importers -> ImportRequest] /\ u \in Users
    BY <1>1 DEF CInv, ImportsInv, ImportsTyped, ImporterInv
  <1>3. /\ \A q \in Importers \ {p} : imp'[q] = imp[q]
        /\ imp'[p].pc \in {"idle", "remove"}
        /\ imp'[p].pc # "idle" => imp'[p].user = u
    <2>1. imp' = [imp EXCEPT ![p] = IF imp[p].plates = {} THEN [imp[p] EXCEPT !.pc = "remove", !.id = nextId]
                                    ELSE NoImport]
      BY DEF Insert
    <2>2. \A e : LET r == [imp[p] EXCEPT !.pc = "remove", !.id = e] IN r.pc = "remove" /\ r.user = u
      BY <1>2 DEF ImportRequest
    <2>3. NoImport.pc = "idle"
      BY DEF NoImport
    <2>4. QED
      BY <1>2, <2>1, <2>2, <2>3
  <1>4. imports \in SUBSET Import /\ imports' \in SUBSET Import /\ i \in Import
    BY <1>1, InsertCInv DEF CInv, ImportsInv, ImportsTyped
  <1>5. i.id = nextId /\ i.owner = u /\ i.plates = imp[p].plates
    OBVIOUS
  <1> HIDE DEF i
  <1>6. \A j \in imports : j.id # i.id
    BY <1>4, <1>5 DEF CInv, ImportsInv, IdInv, Import, ImportsTyped
  <1>7. ASSUME lapses' = {}
        PROVE  /\ GroupsFit'
               /\ \A q \in Importers \ stale' : ImportFits(q)'
               /\ \A a \in Admins \ stale' : AdminFits(a)'
    <2>1. lapses = {} /\ p \notin stale /\ ~ imp[p].blind
      BY <1>1, <1>7
    <2>2. /\ GroupsFit /\ ImportFits(p)
          /\ \A q \in Importers \ stale : ImportFits(q)
      BY <2>1 DEF QuotaInv
    <2>3. \A h : Members(h)' = Members(h)
      BY <1>1 DEF Members
    <2>4. stale' = (stale \cup Counted) \ {p}
      BY <1>1 DEF Misleads
    <2>5. ASSUME NEW h \in Groups, Live(h)' PROVE Held(imports', Members(h)') <= limit'[h]
      <3>1. /\ u \notin Members(h) => Held(imports', Members(h)) = Held(imports, Members(h))
            /\ u \in Members(h) => Held(imports', Members(h)) = Held(imports, Members(h)) + n
        <4>1. imports' = imports \cup {i}
          BY <1>1
        <4>2. QED
          BY <1>4, <1>5, <1>6, <4>1, MoreRows
      <3>2. Held(imports, Members(h)) <= limit[h] /\ limit'[h] = limit[h]
        BY <1>1, <2>2, <2>5 DEF GroupsFit, Live
      <3>3. u \in Members(h) => Held(imports, Members(h)) + n <= limit[h]
        <4>1. h # None
          BY StorageAssumption
        <4>2. QED
          BY <1>1, <2>1, <2>2, <2>5, <4>1 DEF ImportFits, GroupLimit, Live, Members, Uninserted
      <3> HIDE DEF n, u
      <3>4. QED
        BY <2>3, <3>1, <3>2, <3>3
    <2>6. ASSUME NEW q \in Importers \ stale' PROVE ImportFits(q)'
      <3>1. CASE q = p
        BY <1>3, <3>1, IdleFits DEF Uninserted
      <3>2. CASE q # p
        <4>1. q \notin stale /\ imp[q].pc \notin {"lookup", "insert"} /\ imp'[q] = imp[q]
          BY <1>3, <2>4, <3>2 DEF Counted
        <4>2. ImportFits(q)
          BY <2>2, <4>1
        <4>3. QED
          BY <1>1, <4>1, <4>2 DEF ImportFits, GroupLimit
      <3>3. QED
        BY <3>1, <3>2
    <2>7. ASSUME NEW a \in Admins \ stale' PROVE AdminFits(a)'
      <3>1. a # p
        BY StorageAssumption
      <3>2. adm[a].pc \notin {"move", "limit"} /\ adm' = adm
        BY <1>1, <2>4, <3>1 DEF Counted
      <3>3. QED
        BY <3>2, PastFits
    <2>8. QED
      BY <2>5, <2>6, <2>7 DEF GroupsFit
  <1>8. QED
    BY <1>7 DEF QuotaInv

LEMMA NextQuota == CInv /\ QuotaInv /\ [Next]_vars => QuotaInv'
  <1> SUFFICES ASSUME CInv, QuotaInv, [Next]_vars PROVE QuotaInv'
    OBVIOUS
  <1>1. CASE UNCHANGED vars
    BY <1>1, AsideQuota DEF vars, userDb, postgres, history
  <1>2. ASSUME NEW p \in Importers, Importing(p) PROVE QuotaInv'
    BY <1>2, ReceiveQuota, ReadPeersQuota, CountQuota, LookUpNameQuota, InsertQuota, RemoveEmptyQuota,
       CrashQuota DEF Importing
  <1>3. ASSUME NEW a \in Admins, Administering(a) PROVE QuotaInv'
    BY <1>3, BeginMoveQuota, BeginCreateQuota, CommitMoveQuota, CommitCreateQuota, MirrorQuota,
       DeleteGroupQuota, DeleteUserQuota, ForgetQuota, BeginLimitQuota, CommitLimitQuota,
       LimitUserQuota DEF Administering
  <1>4. QED
    BY <1>1, <1>2, <1>3, CheckingQuota, DeleteImportQuota DEF Next

\* However imports, moves, creations, deletions and new limits interleave, the rows of a
\* group stay within its limit, until a request has committed on a count, a membership or a
\* limit that had changed since it read it, an import has been stored that counted under a
\* mirror without the members of its group (a handler had still to write it, or failed to),
\* or a new user has got the id of a deleted one whose rows are still stored.
THEOREM QuotaHolds == Spec => []GroupQuota
  <1>1. CInv /\ QuotaInv /\ [Next]_vars => QuotaInv'
    BY NextQuota
  <1>2. Spec => []QuotaInv
    BY <1>1, InitQuota, AlwaysCInv, PTL DEF Spec
  <1>3. QED
    BY <1>2, QuotaOfGroups, PTL
=============================================================================
