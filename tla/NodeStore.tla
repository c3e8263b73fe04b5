------------------------------ MODULE NodeStore ------------------------------
(***************************************************************************)
(* Where nodes are kept: rows in the database, and the objects (contents   *)
(* of files) they refer to in the repository.  The two are written one     *)
(* after the other and nothing ties them together: an object is put before *)
(* the row that refers to it is committed, and stays when the row is       *)
(* deleted, until maintenance deletes the objects without a reference.     *)
(*                                                                         *)
(* A client stores nodes, of its own making or by taking a calculation     *)
(* from the cache, deletes nodes, imports an archive, maintains the        *)
(* storage (with the profile locked, or live) and makes backups.  Access   *)
(* and lock are those ProfileLock promises.                                *)
(***************************************************************************)
EXTENDS Naturals

CONSTANTS
    Clients,
    Nodes,
    Objs,          \* Objs[n] are the keys of the objects of n
    Calcs,         \* the nodes that are calculations
    Outputs,       \* Outputs[k][x] is the node k creates with link label x
    Twins,         \* Twins[k] are the calculations with the same hash
    CacheFor,      \* the calculations for which caching is enabled
    Early,         \* the nodes stored at the start; calculations are sealed
    Archived,      \* the nodes of an archive
    DumpFirst,     \* the database is copied before the objects (psql_dos)
    MaxEvents      \* deletions, imports, maintenances, backups and crashes, together

ASSUME NodesAssumption ==
    /\ Calcs \subseteq Nodes /\ Early \subseteq Nodes /\ Archived \subseteq Nodes
    /\ \A k \in Calcs : \A x \in DOMAIN Outputs[k] : Outputs[k][x] \in Nodes

(* Nodes with one hash have the same content and name their outputs alike. *)
ASSUME TwinsAssumption ==
    \A k \in Calcs : \A t \in Twins[k] :
        /\ t \in Calcs
        /\ Objs[t] = Objs[k]
        /\ DOMAIN Outputs[t] = DOMAIN Outputs[k]
        /\ \A x \in DOMAIN Outputs[k] : Objs[Outputs[t][x]] = Objs[Outputs[k][x]]

VARIABLES
    accessors, holder,   \* of ProfileLock
    rows,       \* the nodes with a row in the database
    hashed,     \* those with the extra _aiida_hash
    finished,   \* the calculations with the process state of a finished one,
    sealed,     \* and those that are sealed
    objects,    \* the keys in the repository
    unstored,   \* the nodes nobody stored yet
    torn,       \* the calculations whose cache source was deleted under them
    job,        \* job[c] is what client c is in the middle of
    backup,     \* the last backup: rows and objects
    overlap,    \* live maintenance overlapped a store, an import or a backup
    events      \* how many of the bounded things happened

vars == <<accessors, holder, rows, hashed, finished, sealed, objects, unstored, torn,
          job, backup, overlap, events>>

P == INSTANCE ProfileLock WITH Processes <- Clients

-----------------------------------------------------------------------------
(* A client's job: `op` is its next step; it stores the calculation `calc`, *)
(* taken from `src` if that is a node, and of it, or of its outputs that    *)
(* are still `outs`, just the node `cur`, with the keys `todo` left to do.  *)
Idle == [op |-> "idle", calc |-> "none", src |-> "none", cur |-> "none",
         todo |-> {}, outs |-> {}, full |-> FALSE, saving |-> FALSE, kept |-> {}]

Keys == UNION {Objs[n] : n \in Nodes}
Labels == UNION {DOMAIN Outputs[k] : k \in Calcs}
Ops == {"idle", "put", "hash", "outputs", "import", "list", "query", "purge", "copy1", "copy2"}
Jobs == [op : Ops, calc : Calcs \cup {"none"}, src : Calcs \cup {"none"}, cur : Nodes \cup {"none"},
         todo : SUBSET Keys, outs : SUBSET Labels, full : BOOLEAN, saving : BOOLEAN,
         kept : SUBSET (Nodes \cup Keys)]

NoBackup == [rows |-> {}, objects |-> {}]

Refs(R) == UNION {Objs[n] : n \in R}

Init ==
    /\ P!Init
    /\ rows = Early /\ hashed = Early
    /\ finished = Early \cap Calcs /\ sealed = Early \cap Calcs
    /\ objects = Refs(Early)
    /\ unstored = Nodes \ (Early \cup Archived)
    /\ torn = {}
    /\ job = [c \in Clients |-> Idle]
    /\ backup = NoBackup
    /\ overlap = FALSE
    /\ events = 0

Event == events < MaxEvents /\ events' = events + 1

Ready(c) == c \in accessors /\ job[c].op = "idle"

(* A client is about to commit rows whose objects it relies on, or is       *)
(* between the two halves of a backup; a client is cleaning up live.        *)
Relying(j) == j.op \in {"put", "import", "copy2"}
CleaningLive(j) == j.op \in {"list", "query", "purge"} /\ ~j.full
Overlapping == \E c, d \in Clients : CleaningLive(job[c]) /\ Relying(job[d])

(* Client c goes on with j, which is noted when it is an overlap. *)
Become(c, j) ==
    /\ job' = [job EXCEPT ![c] = j]
    /\ overlap' = (overlap \/ Overlapping')

\* Client c goes on with `op`, and the fields of j as they are.
Step(c, op) == Become(c, [job[c] EXCEPT !.op = op])

Storage == <<rows, hashed, finished, sealed, objects, unstored, torn, backup>>
Profile == <<accessors, holder>>

(* The profile is loaded: request_access. *)
Open(c) ==
    /\ c \notin accessors
    /\ P!Access(c)
    /\ UNCHANGED <<Storage, job, overlap, events>>

(* The process ends, between its jobs or in the middle of one. *)
Close(c) ==
    /\ Ready(c)
    /\ P!End(c)
    /\ UNCHANGED <<Storage, job, overlap, events>>

Crash(c) ==
    /\ job[c].op # "idle"
    /\ Event
    /\ P!End(c)
    /\ Become(c, Idle)
    /\ UNCHANGED Storage

-----------------------------------------------------------------------------
(* Node.store *)

(* Mutant: the seal is not asked for. *)
is_valid_cache_unsealed(m) == m \in finished

(* ProcessNodeCaching.is_valid_cache, for a calculation that has a valid   *)
(* exit code: every finished one of the model.                             *)
is_valid_cache(m) == m \in finished /\ m \in sealed

(* _get_same_node: a stored, valid calculation with the same hash. *)
SameNodes(k) == {m \in Twins[k] \cap hashed : is_valid_cache(m)}

CanStore(c, k) ==
    /\ Ready(c)
    /\ k \in unstored \cap Calcs
    /\ \A d \in Clients : job[d].calc # k

(* Nothing usable is cached: the objects of the sandbox are cloned first. *)
StoreNew(c, k) ==
    /\ CanStore(c, k)
    /\ k \in CacheFor => SameNodes(k) = {}
    /\ Become(c, [Idle EXCEPT !.op = "put", !.calc = k, !.cur = k, !.todo = Objs[k]])
    /\ UNCHANGED <<Storage, Profile, events>>

(* _store_from_cache: the repository metadata are copied, no object is put. *)
StoreFromCache(c, k, m) ==
    /\ CanStore(c, k)
    /\ k \in CacheFor
    /\ m \in SameNodes(k)
    /\ Become(c, [Idle EXCEPT !.op = "put", !.calc = k, !.cur = k, !.src = m])
    /\ UNCHANGED <<Storage, Profile, events>>

(* An attribute of the source is read after the source was deleted. *)
SourceGone(c) ==
    /\ job[c].op = "put" /\ job[c].cur = job[c].calc
    /\ job[c].src \notin rows \cup {"none"}
    /\ Become(c, Idle)
    /\ UNCHANGED <<Storage, Profile, events>>

(* One object is streamed to the repository, where it may exist already. *)
PutObject(c) ==
    /\ job[c].op \in {"put", "import"}
    /\ \E key \in job[c].todo :
          /\ objects' = objects \cup {key}
          /\ Become(c, [job[c] EXCEPT !.todo = @ \ {key}])
    /\ UNCHANGED <<rows, hashed, finished, sealed, unstored, torn, backup, Profile, events>>

(* BackendNode.store: the row and its incoming links are committed.  The   *)
(* row of an output refers to its creator, which must not be deleted.  The *)
(* attributes of a calculation from the cache are those of a finished one. *)
CommitRow(c) ==
    LET n == job[c].cur IN
    /\ job[c].op = "put" /\ job[c].todo = {}
    /\ n # job[c].calc => job[c].calc \in rows
    /\ rows' = rows \cup {n}
    /\ unstored' = unstored \ {n}
    /\ finished' = IF n = job[c].calc /\ job[c].src # "none" THEN finished \cup {n} ELSE finished
    /\ Step(c, IF n = job[c].calc THEN "hash" ELSE "outputs")
    /\ UNCHANGED <<hashed, sealed, objects, torn, backup, Profile, events>>

(* The creator was deleted: a foreign key of the link fails. *)
CreatorGone(c) ==
    /\ job[c].op = "put" /\ job[c].todo = {}
    /\ job[c].cur # job[c].calc /\ job[c].calc \notin rows
    /\ Become(c, Idle)
    /\ UNCHANGED <<Storage, Profile, events>>

(* rehash, a transaction of its own; then the outputs: a run will create   *)
(* all of them, a cached calculation gets copies of those its source has   *)
(* now, none if it was deleted meanwhile.                                  *)
Rehash(c) ==
    LET j == job[c]
        labels == DOMAIN Outputs[j.calc]
        outs == IF j.src = "none" THEN labels
                ELSE {x \in labels : j.src \in rows /\ Outputs[j.src][x] \in rows}
    IN  /\ j.op = "hash"
        /\ hashed' = hashed \cup ({j.calc} \cap rows)
        /\ torn' = IF j.src # "none" /\ (j.src \notin rows \/ j.src \in torn)
                   THEN torn \cup {j.calc} ELSE torn
        /\ Become(c, IF j.calc \in rows THEN [j EXCEPT !.op = "outputs", !.outs = outs] ELSE Idle)
        /\ UNCHANGED <<rows, finished, sealed, objects, unstored, backup, Profile, events>>

(* The next output: parsed from a run, or Data.clone of the source's one,  *)
(* whose row and objects are read.                                         *)
NextOutput(c) ==
    /\ job[c].op = "outputs"
    /\ \E x \in job[c].outs :
          LET o == Outputs[job[c].calc][x]
              from == Outputs[job[c].src][x]
              readable == job[c].src = "none" \/ (from \in rows /\ Objs[from] \subseteq objects)
          IN  Become(c, IF readable
                        THEN [job[c] EXCEPT !.op = "put", !.cur = o, !.todo = Objs[o], !.outs = @ \ {x}]
                        ELSE Idle)
    /\ UNCHANGED <<Storage, Profile, events>>

(* The process terminates: its node is finished and sealed. *)
Seal(c) ==
    LET done == {job[c].calc} \cap rows IN
    /\ job[c].op = "outputs" /\ job[c].outs = {}
    /\ finished' = finished \cup done
    /\ sealed' = sealed \cup done
    /\ Become(c, Idle)
    /\ UNCHANGED <<rows, hashed, objects, unstored, torn, backup, Profile, events>>

-----------------------------------------------------------------------------
(* delete_nodes: an output takes its creator along, and a calculation its  *)
(* outputs unless create_forward is off.                                   *)
Creators(n) == {k \in Calcs \cap rows : \E x \in DOMAIN Outputs[k] : Outputs[k][x] = n}
OutputsOf(S) == UNION {{Outputs[k][x] : x \in DOMAIN Outputs[k]} : k \in S \cap Calcs}

(* Mutant: the objects go together with the rows. *)
DeleteNodes_with_objects(c, n, create_forward) ==
    LET calcs == Creators(n) \cup {n}
        gone == IF create_forward THEN calcs \cup OutputsOf(calcs) ELSE calcs
    IN  /\ Ready(c)
        /\ n \in rows
        /\ Event
        /\ rows' = rows \ gone
        /\ hashed' = hashed \ gone
        /\ finished' = finished \ gone
        /\ sealed' = sealed \ gone
        /\ objects' = objects \ Refs(gone)
        /\ UNCHANGED <<unstored, torn, job, overlap, backup, Profile>>

DeleteNodes(c, n, create_forward) ==
    LET calcs == Creators(n) \cup {n}
        gone == IF create_forward THEN calcs \cup OutputsOf(calcs) ELSE calcs
    IN  /\ Ready(c)
        /\ n \in rows
        /\ Event
        /\ rows' = rows \ gone
        /\ hashed' = hashed \ gone
        /\ finished' = finished \ gone
        /\ sealed' = sealed \ gone
        /\ UNCHANGED <<objects, unstored, torn, job, overlap, backup, Profile>>

-----------------------------------------------------------------------------
(* import_archive, in a transaction: _get_new_object_keys, then            *)
(* _add_files_to_repo (PutObject), then the commit.                        *)
StartImport(c) ==
    /\ Ready(c)
    /\ Event
    /\ Become(c, [Idle EXCEPT !.op = "import", !.todo = Refs(Archived) \ objects,
                              !.kept = Archived \cap rows])
    /\ UNCHANGED <<Storage, Profile>>

(* The commit fails if a new node exists by now, or an existing one is gone. *)
CommitImport(c) ==
    LET agreed == Archived \cap rows = job[c].kept IN
    /\ job[c].op = "import" /\ job[c].todo = {}
    /\ rows' = IF agreed THEN rows \cup Archived ELSE rows
    /\ Become(c, Idle)
    /\ UNCHANGED <<hashed, finished, sealed, objects, unstored, torn, backup, Profile, events>>

-----------------------------------------------------------------------------
(* Mutant: the lock does not look for other processes with access. *)
StartMaintain_others_in(c, full) ==
    /\ Ready(c)
    /\ Event
    /\ holder = {}
    /\ holder' = IF full THEN {c} ELSE {}
    /\ Become(c, [Idle EXCEPT !.op = "list", !.full = full])
    /\ UNCHANGED <<Storage, accessors>>

(* StorageBackend.maintain: full under the lock, live without. *)
StartMaintain(c, full) ==
    /\ Ready(c)
    /\ Event
    /\ IF full THEN P!Lock(c) ELSE UNCHANGED Profile
    /\ Become(c, [Idle EXCEPT !.op = "list", !.full = full])
    /\ UNCHANGED Storage

(* backup: access is requested, and maintenance runs live first. *)
StartBackup(c) ==
    /\ Ready(c)
    /\ Event
    /\ Become(c, [Idle EXCEPT !.op = "list", !.saving = TRUE])
    /\ UNCHANGED <<Storage, Profile>>

(* get_unreferenced_keyset: the keys of the repository are listed first. *)
ListObjects(c) ==
    /\ job[c].op = "list"
    /\ Become(c, [job[c] EXCEPT !.op = "query", !.todo = objects])
    /\ UNCHANGED <<Storage, Profile, events>>

Release(c) == IF job[c].full THEN P!Unlock(c) ELSE UNCHANGED Profile

(* Then the references are queried; a reference without an object aborts.  *)
QueryKeys(c) ==
    LET missing == Refs(rows) \ job[c].todo IN
    /\ job[c].op = "query"
    /\ IF missing = {}
       THEN Become(c, [job[c] EXCEPT !.op = "purge", !.todo = @ \ Refs(rows)]) /\ UNCHANGED Profile
       ELSE Become(c, Idle) /\ Release(c)
    /\ UNCHANGED <<Storage, events>>

(* The rest is deleted, and packed and cleaned, which changes no content. *)
DeleteObjects(c) ==
    /\ job[c].op = "purge"
    /\ objects' = objects \ job[c].todo
    /\ Become(c, IF job[c].saving THEN [Idle EXCEPT !.op = "copy1", !.saving = TRUE] ELSE Idle)
    /\ Release(c)
    /\ UNCHANGED <<rows, hashed, finished, sealed, unstored, torn, backup, events>>

(* _backup_storage: psql_dos dumps the database and then copies the        *)
(* objects, sqlite_dos copies the objects and then the database.           *)
CopyFirst(c) ==
    /\ job[c].op = "copy1"
    /\ Become(c, [job[c] EXCEPT !.op = "copy2", !.kept = IF DumpFirst THEN rows ELSE objects])
    /\ UNCHANGED <<Storage, Profile, events>>

CopySecond(c) ==
    /\ job[c].op = "copy2"
    /\ backup' = IF DumpFirst THEN [rows |-> job[c].kept, objects |-> objects]
                 ELSE [rows |-> rows, objects |-> job[c].kept]
    /\ Become(c, Idle)
    /\ UNCHANGED <<rows, hashed, finished, sealed, objects, unstored, torn, Profile, events>>

-----------------------------------------------------------------------------
ClientNext(c) ==
    \/ Open(c) \/ Close(c) \/ Crash(c)
    \/ \E k \in Calcs : StoreNew(c, k)
    \/ \E k, m \in Calcs : StoreFromCache(c, k, m)
    \/ SourceGone(c) \/ PutObject(c) \/ CommitRow(c) \/ CreatorGone(c)
    \/ Rehash(c) \/ NextOutput(c) \/ Seal(c)
    \/ \E n \in Nodes, create_forward \in BOOLEAN : DeleteNodes(c, n, create_forward)
    \/ StartImport(c) \/ CommitImport(c)
    \/ \E full \in BOOLEAN : StartMaintain(c, full)
    \/ StartBackup(c) \/ ListObjects(c) \/ QueryKeys(c) \/ DeleteObjects(c)
    \/ CopyFirst(c) \/ CopySecond(c)

Next == \E c \in Clients : ClientNext(c)

Spec == Init /\ [][Next]_vars

-----------------------------------------------------------------------------
(* Properties. *)

(* The types of the variables. *)
TypeOK ==
    /\ accessors \subseteq Clients /\ holder \subseteq Clients
    /\ rows \subseteq Nodes /\ hashed \subseteq rows /\ finished \subseteq rows /\ sealed \subseteq rows
    /\ objects \subseteq Keys
    /\ unstored \subseteq Nodes /\ torn \subseteq Calcs
    /\ job \in [Clients -> Jobs]
    /\ \A c \in Clients : job[c].op \in {"put", "hash", "outputs"} =>
          job[c].calc \in Calcs /\ job[c].outs \subseteq DOMAIN Outputs[job[c].calc]
    /\ \A c \in Clients : job[c].op = "put" => job[c].cur \in Nodes
    /\ overlap \in BOOLEAN

(* Every file a stored node refers to is in the repository, whatever       *)
(* stores, caching, deletions, imports, maintenance and crashes interleave, *)
(* as long as live maintenance does not overlap a store or an import: full *)
(* maintenance needs no such care, the lock of the profile sees to it.     *)
ObjectsKept == ~overlap => Refs(rows) \subseteq objects

(* A backup can be restored: it holds every object its rows refer to, also *)
(* when clients store, delete and import while it is made.                 *)
BackupRestorable == ~overlap => Refs(backup.rows) \subseteq backup.objects

(* A sealed calculation has all its outputs, also one that was taken from  *)
(* the cache: an interrupted copy never serves as a source itself.         *)
CachedComplete ==
    \A k \in sealed \ torn : \A x \in DOMAIN Outputs[k] : Outputs[k][x] \in rows

(* Maintenance that is not full is said to be safe while AiiDA is running. *)
LiveIsSafe == Refs(rows) \subseteq objects
=============================================================================
