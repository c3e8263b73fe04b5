--------------------------- MODULE NodeStore_proofs ---------------------------
(***************************************************************************)
(* For any number of clients, nodes and events: stored nodes keep their    *)
(* objects, and a backup that dumps the database first can be restored,    *)
(* unless live maintenance overlapped a store, an import or a backup.      *)
(*                                                                         *)
(* Neither property is inductive.  Mutual adds what the lock is good for:  *)
(* who maintains in full is alone.  Safe adds what a client in the middle  *)
(* of something relies on: the objects of what it will commit exist or are *)
(* still to be put, and what maintenance will delete is not referred to.   *)
(***************************************************************************)
EXTENDS NodeStore, TLAPS

Cleaning(j) == j.op \in {"list", "query", "purge"}

Mutual ==
    /\ \A c \in Clients : job[c].op # "idle" => c \in accessors
    /\ \A c \in Clients : Cleaning(job[c]) /\ job[c].full => holder = {c} /\ accessors = {c}

Backed(j) ==
    /\ j.op = "put" => Objs[j.cur] \subseteq objects \cup j.todo
    /\ j.op = "import" => Refs(Archived) \subseteq objects \cup j.todo
    /\ j.op = "purge" => j.todo \cap Refs(rows) = {}
    /\ j.op = "copy2" /\ DumpFirst => Refs(j.kept) \subseteq objects

Safe ==
    ~overlap =>
        /\ ~Overlapping
        /\ Refs(rows) \subseteq objects
        /\ \A c \in Clients : Backed(job[c])
        /\ DumpFirst => Refs(backup.rows) \subseteq backup.objects

IInv == TypeOK /\ Mutual /\ Safe

-----------------------------------------------------------------------------

(* The references of nodes, operation by operation. *)
LEMMA RefsFacts ==
    /\ \A R : R \subseteq Nodes => Refs(R) \subseteq Keys
    /\ \A R, S : S \subseteq R => Refs(S) \subseteq Refs(R)
    /\ \A R, S : Refs(R \cup S) = Refs(R) \cup Refs(S)
    /\ \A n : Refs({n}) = Objs[n]
    /\ \A R, n : n \in R => Objs[n] \subseteq Refs(R)
    /\ Refs({}) = {}
  BY DEF Refs, Keys

LEMMA IdleIsJob == Idle \in Jobs /\ Idle.op = "idle"
  BY DEF Idle, Jobs, Ops

(* What Become does to the jobs. *)
LEMMA BecomeFacts ==
  ASSUME TypeOK, NEW c \in Clients, NEW j \in Jobs, Become(c, j)
  PROVE  /\ job' \in [Clients -> Jobs]
         /\ job'[c] = j
         /\ \A d \in Clients \ {c} : job'[d] = job[d]
         /\ overlap' \in BOOLEAN
         /\ ~overlap' => ~overlap /\ ~Overlapping'
  BY DEF Become, TypeOK

(* The conditions TypeOK puts on one job. *)
JobOK(j) ==
    /\ j \in Jobs
    /\ j.op \in {"put", "hash", "outputs"} => j.calc \in Calcs /\ j.outs \subseteq DOMAIN Outputs[j.calc]
    /\ j.op = "put" => j.cur \in Nodes

LEMMA JobTypes ==
  ASSUME TypeOK, NEW c \in Clients, NEW j, JobOK(j), Become(c, j)
  PROVE  /\ job' \in [Clients -> Jobs]
         /\ \A d \in Clients : job'[d].op \in {"put", "hash", "outputs"} =>
               job'[d].calc \in Calcs /\ job'[d].outs \subseteq DOMAIN Outputs[job'[d].calc]
         /\ \A d \in Clients : job'[d].op = "put" => job'[d].cur \in Nodes
         /\ overlap' \in BOOLEAN
  BY BecomeFacts DEF JobOK, TypeOK

LEMMA IdleOK == JobOK(Idle)
  BY IdleIsJob DEF JobOK

(* What the client does next after each step that gives it something to do. *)
LEMMA MoveStoreNew ==
  ASSUME TypeOK, NEW c \in Clients, NEW k \in Calcs, StoreNew(c, k)
  PROVE  \E j : Become(c, j) /\ JobOK(j) /\ j.op = "put" /\ ~j.full /\ j.cur = k /\ j.todo = Objs[k]
<1>1. PICK j : /\ j = [Idle EXCEPT !.op = "put", !.calc = k, !.cur = k, !.todo = Objs[k]]
               /\ Become(c, j)
  BY DEF StoreNew
<1>2. JobOK(j) /\ j.op = "put" /\ ~j.full /\ j.cur = k /\ j.todo = Objs[k]
  BY <1>1, NodesAssumption DEF JobOK, Jobs, Ops, Idle, Keys
<1> QED
  BY <1>1, <1>2

LEMMA MoveStoreFromCache ==
  ASSUME TypeOK, NEW c \in Clients, NEW k \in Calcs, NEW m \in Calcs, StoreFromCache(c, k, m)
  PROVE  \E j : Become(c, j) /\ JobOK(j) /\ j.op = "put" /\ ~j.full /\ j.cur = k
<1>1. PICK j : /\ j = [Idle EXCEPT !.op = "put", !.calc = k, !.cur = k, !.src = m]
               /\ Become(c, j)
  BY DEF StoreFromCache
<1>2. JobOK(j) /\ j.op = "put" /\ ~j.full /\ j.cur = k
  BY <1>1, NodesAssumption DEF JobOK, Jobs, Ops, Idle
<1> QED
  BY <1>1, <1>2

LEMMA MovePutObject ==
  ASSUME TypeOK, NEW c \in Clients, PutObject(c)
  PROVE  \E j, key : /\ Become(c, j) /\ JobOK(j) /\ key \in Keys /\ objects' = objects \cup {key}
                     /\ j.op = job[c].op /\ j.cur = job[c].cur /\ j.todo = job[c].todo \ {key}
<1>1. JobOK(job[c])
  BY DEF TypeOK, JobOK
<1>2. PICK key, j : /\ key \in job[c].todo /\ objects' = objects \cup {key}
                    /\ j = [job[c] EXCEPT !.todo = @ \ {key}]
                    /\ Become(c, j)
  BY DEF PutObject
<1>3. key \in Keys /\ JobOK(j) /\ j.op = job[c].op /\ j.cur = job[c].cur /\ j.todo = job[c].todo \ {key}
  BY <1>1, <1>2 DEF JobOK, Jobs
<1> QED
  BY <1>2, <1>3

LEMMA MoveCommitRow ==
  ASSUME TypeOK, NEW c \in Clients, CommitRow(c)
  PROVE  \E j : Become(c, j) /\ JobOK(j) /\ j.op \in {"hash", "outputs"}
<1>1. JobOK(job[c])
  BY DEF TypeOK, JobOK
<1>2. PICK op \in {"hash", "outputs"} : Become(c, [job[c] EXCEPT !.op = op])
  BY DEF CommitRow, Step
<1>3. JobOK([job[c] EXCEPT !.op = op]) /\ [job[c] EXCEPT !.op = op].op = op
  BY <1>1 DEF JobOK, Jobs, Ops, CommitRow
<1> QED
  BY <1>2, <1>3

LEMMA MoveRehash ==
  ASSUME TypeOK, NEW c \in Clients, Rehash(c)
  PROVE  \E j : Become(c, j) /\ JobOK(j) /\ j.op \in {"outputs", "idle"}
<1>1. JobOK(job[c]) /\ job[c].op = "hash"
  BY DEF TypeOK, JobOK, Rehash
<1>2. PICK S, j :
         /\ S \in SUBSET DOMAIN Outputs[job[c].calc]
         /\ j = [job[c] EXCEPT !.op = "outputs", !.outs = S]
         /\ Become(c, j) \/ Become(c, Idle)
  BY DEF Rehash
<1>3. S \subseteq Labels
  BY <1>1, <1>2 DEF JobOK, Labels
<1>4. JobOK(j) /\ j.op = "outputs"
  BY <1>1, <1>2, <1>3 DEF JobOK, Jobs, Ops
<1> QED
  BY <1>2, <1>4, IdleOK, IdleIsJob

LEMMA MoveNextOutput ==
  ASSUME TypeOK, NEW c \in Clients, NextOutput(c)
  PROVE  \E j : Become(c, j) /\ JobOK(j) /\ (j.op = "idle" \/ (j.op = "put" /\ j.todo = Objs[j.cur]))
<1>1. JobOK(job[c]) /\ job[c].op = "outputs"
  BY DEF TypeOK, JobOK, NextOutput
<1>2. PICK x, o, j :
         /\ x \in job[c].outs
         /\ o = Outputs[job[c].calc][x]
         /\ j = [job[c] EXCEPT !.op = "put", !.cur = o, !.todo = Objs[o], !.outs = @ \ {x}]
         /\ Become(c, j) \/ Become(c, Idle)
  BY DEF NextOutput
<1>3. o \in Nodes /\ Objs[o] \subseteq Keys
  BY <1>1, <1>2, NodesAssumption DEF JobOK, Keys
<1>4. JobOK(j) /\ j.op = "put" /\ j.todo = Objs[j.cur]
  BY <1>1, <1>2, <1>3 DEF JobOK, Jobs, Ops
<1> QED
  BY <1>2, <1>4, IdleOK, IdleIsJob

LEMMA MoveStartImport ==
  ASSUME TypeOK, NEW c \in Clients, StartImport(c)
  PROVE  \E j : /\ Become(c, j) /\ JobOK(j) /\ j.op = "import" /\ ~j.full
                /\ j.todo = Refs(Archived) \ objects
<1>1. PICK j : /\ j = [Idle EXCEPT !.op = "import", !.todo = Refs(Archived) \ objects,
                                   !.kept = Archived \cap rows]
               /\ Become(c, j)
  BY DEF StartImport
<1>2. Refs(Archived) \subseteq Keys
  BY RefsFacts, NodesAssumption
<1>3. JobOK(j) /\ j.op = "import" /\ ~j.full /\ j.todo = Refs(Archived) \ objects
  BY <1>1, <1>2, NodesAssumption DEF JobOK, Jobs, Ops, Idle
<1> QED
  BY <1>1, <1>3

LEMMA MoveStartMaintain ==
  ASSUME TypeOK, NEW c \in Clients, NEW f \in BOOLEAN, StartMaintain(c, f)
  PROVE  \E j : Become(c, j) /\ JobOK(j) /\ j.op = "list" /\ j.full = f
<1>1. PICK j : j = [Idle EXCEPT !.op = "list", !.full = f] /\ Become(c, j)
  BY DEF StartMaintain
<1>2. JobOK(j) /\ j.op = "list" /\ j.full = f
  BY <1>1 DEF JobOK, Jobs, Ops, Idle
<1> QED
  BY <1>1, <1>2

LEMMA MoveStartBackup ==
  ASSUME TypeOK, NEW c \in Clients, StartBackup(c)
  PROVE  \E j : Become(c, j) /\ JobOK(j) /\ j.op = "list" /\ ~j.full
<1>1. PICK j : j = [Idle EXCEPT !.op = "list", !.saving = TRUE] /\ Become(c, j)
  BY DEF StartBackup
<1>2. JobOK(j) /\ j.op = "list" /\ ~j.full
  BY <1>1 DEF JobOK, Jobs, Ops, Idle
<1> QED
  BY <1>1, <1>2

LEMMA MoveListObjects ==
  ASSUME TypeOK, NEW c \in Clients, ListObjects(c)
  PROVE  \E j : Become(c, j) /\ JobOK(j) /\ j.op = "query" /\ j.full = job[c].full
<1>0. job[c] \in Jobs /\ objects \subseteq Keys
  BY DEF TypeOK
<1>1. PICK j : j = [job[c] EXCEPT !.op = "query", !.todo = objects] /\ Become(c, j)
  BY DEF ListObjects
<1>2. JobOK(j) /\ j.op = "query" /\ j.full = job[c].full
  BY <1>0, <1>1 DEF JobOK, Jobs, Ops
<1> QED
  BY <1>1, <1>2

LEMMA MoveQueryKeys ==
  ASSUME TypeOK, NEW c \in Clients, QueryKeys(c)
  PROVE  \/ Become(c, Idle) /\ Release(c)
         \/ \E j : /\ Become(c, j) /\ JobOK(j) /\ j.op = "purge" /\ j.full = job[c].full
                   /\ j.todo = job[c].todo \ Refs(rows) /\ UNCHANGED Profile
<1>0. job[c] \in Jobs /\ objects \subseteq Keys
  BY DEF TypeOK
<1>1. PICK j : /\ j = [job[c] EXCEPT !.op = "purge", !.todo = @ \ Refs(rows)]
               /\ \/ Become(c, j) /\ UNCHANGED Profile
                  \/ Become(c, Idle) /\ Release(c)
  BY DEF QueryKeys
<1>2. JobOK(j) /\ j.op = "purge" /\ j.full = job[c].full /\ j.todo = job[c].todo \ Refs(rows)
  BY <1>0, <1>1 DEF JobOK, Jobs, Ops
<1> QED
  BY <1>1, <1>2

LEMMA MoveDeleteObjects ==
  ASSUME TypeOK, NEW c \in Clients, DeleteObjects(c)
  PROVE  \E j : Become(c, j) /\ JobOK(j) /\ j.op \in {"copy1", "idle"}
<1>1. PICK j : /\ j = [Idle EXCEPT !.op = "copy1", !.saving = TRUE]
               /\ Become(c, j) \/ Become(c, Idle)
  BY DEF DeleteObjects
<1>2. JobOK(j) /\ j.op = "copy1"
  BY <1>1 DEF JobOK, Jobs, Ops, Idle
<1> QED
  BY <1>1, <1>2, IdleOK, IdleIsJob

LEMMA MoveCopyFirst ==
  ASSUME TypeOK, NEW c \in Clients, CopyFirst(c)
  PROVE  \E j : /\ Become(c, j) /\ JobOK(j) /\ j.op = "copy2"
                /\ j.kept = IF DumpFirst THEN rows ELSE objects
<1>0. job[c] \in Jobs /\ objects \subseteq Keys
  BY DEF TypeOK
<1>1. PICK S, j : /\ S = IF DumpFirst THEN rows ELSE objects
                  /\ j = [job[c] EXCEPT !.op = "copy2", !.kept = S]
                  /\ Become(c, j)
  BY DEF CopyFirst
<1>2. S \subseteq Nodes \cup Keys
  BY <1>1 DEF TypeOK
<1>3. JobOK(j) /\ j.op = "copy2" /\ j.kept = S
  BY <1>0, <1>1, <1>2 DEF JobOK, Jobs, Ops
<1> QED
  BY <1>1, <1>3

(* The steps after which the client is idle. *)
LEMMA MoveIdle ==
  ASSUME NEW c \in Clients,
         SourceGone(c) \/ CreatorGone(c) \/ Seal(c) \/ CommitImport(c) \/ CopySecond(c)
  PROVE  Become(c, Idle) /\ UNCHANGED Profile /\ job[c].op # "idle"
  BY DEF SourceGone, CreatorGone, Seal, CommitImport, CopySecond, Profile

(* Every step keeps the types. *)
LEMMA TypeStep == TypeOK /\ Next => TypeOK'
<1> SUFFICES ASSUME TypeOK, NEW c \in Clients, ClientNext(c)
             PROVE  TypeOK'
  BY DEF Next
<1>a. CASE Open(c) \/ Close(c)
  BY <1>a DEF Open, Close, P!Access, P!End, TypeOK, Storage
<1>b. CASE Crash(c)
  BY <1>b, IdleOK, JobTypes DEF Crash, TypeOK, P!End, Storage
<1>d. ASSUME NEW k \in Calcs, StoreNew(c, k) PROVE TypeOK'
  BY <1>d, MoveStoreNew, JobTypes DEF StoreNew, TypeOK, Storage, Profile
<1>e. ASSUME NEW k \in Calcs, NEW m \in Calcs, StoreFromCache(c, k, m) PROVE TypeOK'
  BY <1>e, MoveStoreFromCache, JobTypes DEF StoreFromCache, TypeOK, Storage, Profile
<1>f. CASE SourceGone(c) \/ CreatorGone(c)
  BY <1>f, MoveIdle, IdleOK, JobTypes DEF SourceGone, CreatorGone, TypeOK, Storage, Profile
<1>g. CASE PutObject(c)
  BY <1>g, MovePutObject, JobTypes DEF PutObject, TypeOK, Profile
<1>h. CASE CommitRow(c)
  BY <1>h, MoveCommitRow, JobTypes DEF CommitRow, TypeOK, Profile
<1>i. CASE Rehash(c)
  BY <1>i, MoveRehash, JobTypes DEF Rehash, TypeOK, Profile
<1>l. CASE NextOutput(c)
  BY <1>l, MoveNextOutput, JobTypes DEF NextOutput, TypeOK, Storage, Profile
<1>m. CASE Seal(c)
  BY <1>m, MoveIdle, IdleOK, JobTypes DEF Seal, TypeOK, Profile
<1>n. ASSUME NEW n \in Nodes, NEW f \in BOOLEAN, DeleteNodes(c, n, f) PROVE TypeOK'
  <2>1. PICK gone : /\ rows' = rows \ gone /\ hashed' = hashed \ gone
                    /\ finished' = finished \ gone /\ sealed' = sealed \ gone
    BY <1>n DEF DeleteNodes
  <2> QED
    BY <1>n, <2>1 DEF TypeOK, Profile, DeleteNodes
<1>o. CASE StartImport(c)
  BY <1>o, MoveStartImport, JobTypes DEF StartImport, TypeOK, Storage, Profile
<1>p. CASE CommitImport(c)
  BY <1>p, MoveIdle, IdleOK, JobTypes, NodesAssumption DEF CommitImport, TypeOK, Profile
<1>q. ASSUME NEW f \in BOOLEAN, StartMaintain(c, f) PROVE TypeOK'
  <2>1. accessors' \subseteq Clients /\ holder' \subseteq Clients
    BY <1>q DEF StartMaintain, P!Lock, TypeOK, Profile
  <2> QED
    BY <1>q, <2>1, MoveStartMaintain, JobTypes DEF StartMaintain, TypeOK, Storage
<1>r. CASE StartBackup(c)
  BY <1>r, MoveStartBackup, JobTypes DEF StartBackup, TypeOK, Storage, Profile
<1>s. CASE ListObjects(c)
  BY <1>s, MoveListObjects, JobTypes DEF ListObjects, TypeOK, Storage, Profile
<1>t. CASE QueryKeys(c)
  <2>1. accessors' \subseteq Clients /\ holder' \subseteq Clients
    BY <1>t DEF QueryKeys, Release, P!Unlock, TypeOK, Profile
  <2>2. PICK j : JobOK(j) /\ Become(c, j)
    BY <1>t, MoveQueryKeys, IdleOK
  <2> QED
    BY <1>t, <2>1, <2>2, JobTypes DEF QueryKeys, TypeOK, Storage
<1>u. CASE DeleteObjects(c)
  <2>1. accessors' \subseteq Clients /\ holder' \subseteq Clients
    BY <1>u DEF DeleteObjects, Release, P!Unlock, TypeOK, Profile
  <2> QED
    BY <1>u, <2>1, MoveDeleteObjects, JobTypes DEF DeleteObjects, TypeOK
<1>v. CASE CopyFirst(c)
  BY <1>v, MoveCopyFirst, JobTypes DEF CopyFirst, TypeOK, Storage, Profile
<1>w. CASE CopySecond(c)
  BY <1>w, MoveIdle, IdleOK, JobTypes DEF CopySecond, TypeOK, Profile
<1> QED
  BY <1>a, <1>b, <1>d, <1>e, <1>f, <1>g, <1>h, <1>i, <1>l, <1>m, <1>n, <1>o, <1>p, <1>q,
     <1>r, <1>s, <1>t, <1>u, <1>v, <1>w DEF ClientNext

-----------------------------------------------------------------------------
(* A step that leaves the lock alone and starts no full maintenance. *)
LEMMA MutualKept ==
  ASSUME TypeOK, Mutual, NEW c \in Clients, NEW j, JobOK(j), Become(c, j), UNCHANGED Profile,
         job[c].op # "idle" \/ c \in accessors,
         Cleaning(j) /\ j.full => Cleaning(job[c]) /\ job[c].full
  PROVE  Mutual'
  BY BecomeFacts DEF Mutual, Profile, Cleaning, JobOK

(* A step that ends maintenance, and unlocks the profile if it was full. *)
LEMMA MutualReleased ==
  ASSUME TypeOK, Mutual, NEW c \in Clients, NEW j, JobOK(j), Become(c, j), Release(c),
         job[c].op # "idle", ~Cleaning(j)
  PROVE  Mutual'
  BY BecomeFacts DEF Mutual, Profile, Cleaning, JobOK, Release, P!Unlock

(* Who maintains in full is alone, whatever step is taken. *)
LEMMA MutualStep == TypeOK /\ Mutual /\ Next => Mutual'
<1> SUFFICES ASSUME TypeOK, Mutual, NEW c \in Clients, ClientNext(c)
             PROVE  Mutual'
  BY DEF Next
<1>i. JobOK(Idle) /\ ~Cleaning(Idle) /\ Idle.op = "idle"
  BY IdleOK DEF Cleaning, Idle
<1>a. CASE Open(c)
  BY <1>a DEF Open, P!Access, Mutual, Cleaning
<1>b. CASE Close(c)
  BY <1>b DEF Close, Ready, P!End, Mutual, Cleaning
<1>c. CASE Crash(c)
  <2>1. P!End(c) /\ Become(c, Idle)
    BY <1>c DEF Crash
  <2> QED
    BY <1>i, <2>1, BecomeFacts DEF P!End, Mutual, Cleaning, JobOK
<1>d. CASE SourceGone(c) \/ CreatorGone(c) \/ Seal(c) \/ CommitImport(c) \/ CopySecond(c)
  BY <1>d, <1>i, MoveIdle, MutualKept
<1>e. ASSUME NEW k \in Calcs, StoreNew(c, k) PROVE Mutual'
  BY <1>e, MoveStoreNew, MutualKept DEF StoreNew, CanStore, Ready, Profile
<1>f. ASSUME NEW k \in Calcs, NEW m \in Calcs, StoreFromCache(c, k, m) PROVE Mutual'
  BY <1>f, MoveStoreFromCache, MutualKept DEF StoreFromCache, CanStore, Ready, Profile
<1>g. CASE PutObject(c)
  BY <1>g, MovePutObject, MutualKept DEF PutObject, Cleaning, Profile
<1>h. CASE CommitRow(c)
  BY <1>h, MoveCommitRow, MutualKept DEF CommitRow, Cleaning, Profile
<1>j. CASE Rehash(c)
  BY <1>j, MoveRehash, MutualKept DEF Rehash, Cleaning, Profile
<1>l. CASE NextOutput(c)
  BY <1>l, MoveNextOutput, MutualKept DEF NextOutput, Cleaning, Profile
<1>n. ASSUME NEW n \in Nodes, NEW f \in BOOLEAN, DeleteNodes(c, n, f) PROVE Mutual'
  BY <1>n DEF DeleteNodes, Mutual, Profile, Cleaning
<1>o. CASE StartImport(c)
  BY <1>o, MoveStartImport, MutualKept DEF StartImport, Ready, Profile
<1>q. ASSUME NEW f \in BOOLEAN, StartMaintain(c, f) PROVE Mutual'
  <2>1. PICK j : Become(c, j) /\ JobOK(j) /\ j.op = "list" /\ j.full = f
    BY <1>q, MoveStartMaintain
  <2>2. CASE ~f
    BY <1>q, <2>1, <2>2, MutualKept DEF StartMaintain, Ready, Profile
  <2>3. CASE f
    BY <1>q, <2>1, <2>3, BecomeFacts DEF StartMaintain, Ready, P!Lock, Mutual, Cleaning, JobOK
  <2> QED
    BY <2>2, <2>3
<1>r. CASE StartBackup(c)
  BY <1>r, MoveStartBackup, MutualKept DEF StartBackup, Ready, Profile
<1>s. CASE ListObjects(c)
  BY <1>s, MoveListObjects, MutualKept DEF ListObjects, Cleaning, Profile
<1>t. CASE QueryKeys(c)
  <2>1. CASE Become(c, Idle) /\ Release(c)
    BY <1>t, <1>i, <2>1, MutualReleased DEF QueryKeys
  <2>2. CASE \E j : /\ Become(c, j) /\ JobOK(j) /\ j.op = "purge" /\ j.full = job[c].full
                    /\ UNCHANGED Profile
    BY <1>t, <2>2, MutualKept DEF QueryKeys, Cleaning
  <2> QED
    BY <1>t, <2>1, <2>2, MoveQueryKeys
<1>u. CASE DeleteObjects(c)
  BY <1>u, MoveDeleteObjects, MutualReleased DEF DeleteObjects, Cleaning
<1>v. CASE CopyFirst(c)
  BY <1>v, MoveCopyFirst, MutualKept DEF CopyFirst, Cleaning, Profile
<1> QED
  BY <1>a, <1>b, <1>c, <1>d, <1>e, <1>f, <1>g, <1>h, <1>j, <1>l, <1>n, <1>o, <1>q,
     <1>r, <1>s, <1>t, <1>u, <1>v DEF ClientNext

-----------------------------------------------------------------------------
(* A step that commits no row and deletes no object: only what its client  *)
(* is going to do next is in question.                                     *)
LEMMA SafeKept ==
  ASSUME IInv, NEW c \in Clients, NEW j, JobOK(j), Become(c, j),
         rows' \subseteq rows, objects \subseteq objects',
         ~overlap => Backed(j)',
         ~overlap => (DumpFirst => Refs(backup'.rows) \subseteq backup'.objects)
  PROVE  Safe'
<1> SUFFICES ASSUME ~overlap' PROVE Safe'
  BY DEF Safe
<1>1. /\ ~overlap /\ ~Overlapping'
      /\ job'[c] = j
      /\ \A d \in Clients \ {c} : job'[d] = job[d]
  BY BecomeFacts DEF IInv, JobOK
<1>2. /\ Refs(rows) \subseteq objects
      /\ \A d \in Clients : Backed(job[d])
  BY <1>1 DEF IInv, Safe
<1>3. Refs(rows') \subseteq Refs(rows)
  BY RefsFacts
<1>4. ASSUME NEW d \in Clients \ {c} PROVE Backed(job[d])'
  BY <1>1, <1>2, <1>3 DEF Backed
<1>5. \A d \in Clients : Backed(job[d])'
  BY <1>1, <1>4 DEF Backed
<1> QED
  BY <1>1, <1>2, <1>3, <1>5 DEF Safe

(* A step that commits rows whose objects exist, or does nothing: nobody   *)
(* who maintains the storage is there to be misled.                        *)
LEMMA SafeCommitted ==
  ASSUME IInv, NEW c \in Clients, NEW j, JobOK(j), Become(c, j),
         job[c].op \in {"put", "import"}, j.op \in {"idle", "hash", "outputs"},
         objects' = objects, backup' = backup,
         ~overlap => Refs(rows') \subseteq objects
  PROVE  Safe'
<1> SUFFICES ASSUME ~overlap' PROVE Safe'
  BY DEF Safe
<1>1. /\ ~overlap /\ ~Overlapping'
      /\ job'[c] = j
      /\ \A d \in Clients \ {c} : job'[d] = job[d]
  BY BecomeFacts DEF IInv, JobOK
<1>2. /\ ~Overlapping
      /\ \A d \in Clients : Backed(job[d])
      /\ DumpFirst => Refs(backup.rows) \subseteq backup.objects
  BY <1>1 DEF IInv, Safe
<1>3. ASSUME NEW d \in Clients PROVE job[d].op # "purge"
  <2>1. ~CleaningLive(job[d])
    BY <1>2 DEF Overlapping, Relying
  <2>2. ~(Cleaning(job[d]) /\ job[d].full)
    BY DEF IInv, Mutual, Cleaning
  <2> QED
    BY <2>1, <2>2 DEF CleaningLive, Cleaning
<1>4. ASSUME NEW d \in Clients \ {c} PROVE Backed(job[d])'
  BY <1>1, <1>2, <1>3 DEF Backed
<1>5. \A d \in Clients : Backed(job[d])'
  BY <1>1, <1>4 DEF Backed
<1> QED
  BY <1>1, <1>2, <1>5 DEF Safe

(* The deletion of objects: nobody relies on one that is deleted. *)
LEMMA SafeDeleted ==
  ASSUME IInv, NEW c \in Clients, DeleteObjects(c)
  PROVE  Safe'
<1> SUFFICES ASSUME ~overlap' PROVE Safe'
  BY DEF Safe
<1>1. PICK j : Become(c, j) /\ JobOK(j) /\ j.op \in {"copy1", "idle"}
  BY MoveDeleteObjects DEF IInv
<1>2. /\ ~overlap /\ ~Overlapping'
      /\ job'[c] = j
      /\ \A d \in Clients \ {c} : job'[d] = job[d]
  BY <1>1, BecomeFacts DEF IInv, JobOK
<1>3. /\ ~Overlapping
      /\ Refs(rows) \subseteq objects
      /\ \A d \in Clients : Backed(job[d])
      /\ DumpFirst => Refs(backup.rows) \subseteq backup.objects
  BY <1>2 DEF IInv, Safe
<1>4. job[c].op = "purge" /\ objects' = objects \ job[c].todo /\ rows' = rows /\ backup' = backup
  BY DEF DeleteObjects
<1>5. Refs(rows') \subseteq objects'
  BY <1>3, <1>4 DEF Backed
<1>6. ASSUME NEW d \in Clients \ {c} PROVE ~Relying(job[d])
  <2>1. CASE job[c].full
    BY <2>1, <1>4 DEF IInv, Mutual, Cleaning, Relying
  <2>2. CASE ~job[c].full
    BY <2>2, <1>3, <1>4 DEF Overlapping, CleaningLive
  <2> QED
    BY <2>1, <2>2
<1>7. ASSUME NEW d \in Clients \ {c} PROVE Backed(job[d])'
  BY <1>2, <1>3, <1>4, <1>6 DEF Backed, Relying
<1>8. \A d \in Clients : Backed(job[d])'
  BY <1>1, <1>2, <1>7 DEF Backed
<1> QED
  BY <1>2, <1>3, <1>4, <1>5, <1>8 DEF Safe

(* Every step keeps what the clients rely on. *)
LEMMA SafeStep == IInv /\ Next => Safe'
<1> SUFFICES ASSUME IInv, NEW c \in Clients, ClientNext(c)
             PROVE  Safe'
  BY DEF Next
<1>t. TypeOK /\ JobOK(Idle) /\ Idle.op = "idle"
  BY IdleOK, IdleIsJob DEF IInv
<1>s. ~overlap => /\ Refs(rows) \subseteq objects
                  /\ Backed(job[c])
                  /\ DumpFirst => Refs(backup.rows) \subseteq backup.objects
  BY DEF IInv, Safe
<1>b. \A j : j.op \in {"idle", "hash", "outputs", "list", "query", "copy1"} => Backed(j)'
  BY DEF Backed
<1>1. CASE Open(c) \/ Close(c)
  BY <1>1 DEF Open, Close, Storage, IInv, Safe, Backed, Overlapping
<1>2. CASE Crash(c) \/ SourceGone(c) \/ CreatorGone(c)
  <2>1. Become(c, Idle) /\ UNCHANGED Storage
    BY <1>2 DEF Crash, SourceGone, CreatorGone
  <2> QED
    BY <1>t, <1>s, <1>b, <2>1, SafeKept DEF Storage
<1>3. CASE Seal(c)
  BY <1>3, <1>t, <1>s, <1>b, MoveIdle, SafeKept DEF Seal
<1>4. ASSUME NEW k \in Calcs, StoreNew(c, k) PROVE Safe'
  <2>1. PICK j : Become(c, j) /\ JobOK(j) /\ j.op = "put" /\ j.cur = k /\ j.todo = Objs[k]
    BY <1>4, <1>t, MoveStoreNew
  <2>2. Backed(j)'
    BY <2>1 DEF Backed
  <2> QED
    BY <1>4, <1>s, <2>1, <2>2, SafeKept DEF StoreNew, Storage
<1>5. ASSUME NEW k \in Calcs, NEW m \in Calcs, StoreFromCache(c, k, m) PROVE Safe'
  <2>1. PICK j : Become(c, j) /\ JobOK(j) /\ j.op = "put" /\ j.cur = k
    BY <1>5, <1>t, MoveStoreFromCache
  <2>2. m \in rows /\ Objs[m] = Objs[k]
    BY <1>5, <1>t, TwinsAssumption DEF StoreFromCache, SameNodes, TypeOK
  <2>3. Objs[k] \subseteq Refs(rows)
    BY <2>2, RefsFacts
  <2>4. objects' = objects /\ rows' = rows /\ backup' = backup
    BY <1>5 DEF StoreFromCache, Storage
  <2>5. ~overlap => Backed(j)'
    BY <1>s, <2>1, <2>3, <2>4 DEF Backed
  <2> QED
    BY <1>s, <2>1, <2>4, <2>5, SafeKept
<1>6. CASE PutObject(c)
  <2>1. PICK j, key : /\ Become(c, j) /\ JobOK(j) /\ objects' = objects \cup {key}
                      /\ j.op = job[c].op /\ j.cur = job[c].cur /\ j.todo = job[c].todo \ {key}
    BY <1>6, <1>t, MovePutObject
  <2>2. rows' = rows /\ backup' = backup /\ job[c].op \in {"put", "import"}
    BY <1>6 DEF PutObject
  <2>3. ~overlap => Backed(j)'
    BY <1>s, <2>1, <2>2 DEF Backed
  <2> QED
    BY <1>s, <2>1, <2>2, <2>3, SafeKept
<1>7. CASE CommitRow(c)
  <2>1. PICK j : Become(c, j) /\ JobOK(j) /\ j.op \in {"hash", "outputs"}
    BY <1>7, <1>t, MoveCommitRow
  <2>2. /\ job[c].op = "put" /\ job[c].todo = {}
        /\ rows' = rows \cup {job[c].cur} /\ objects' = objects /\ backup' = backup
    BY <1>7 DEF CommitRow
  <2>n. Refs(rows \cup {job[c].cur}) = Refs(rows) \cup Refs({job[c].cur})
    BY RefsFacts
  <2>3. Refs(rows') = Refs(rows) \cup Objs[job[c].cur]
    BY <2>2, <2>n, RefsFacts
  <2>4. ~overlap => Refs(rows') \subseteq objects
    BY <1>s, <2>2, <2>3 DEF Backed
  <2> QED
    BY <2>1, <2>2, <2>4, SafeCommitted
<1>8. CASE CommitImport(c)
  <2>1. Become(c, Idle)
    BY <1>8, MoveIdle
  <2>2. /\ job[c].op = "import" /\ job[c].todo = {}
        /\ rows' \in {rows, rows \cup Archived} /\ objects' = objects /\ backup' = backup
    BY <1>8 DEF CommitImport
  <2>3. Refs(rows') \subseteq Refs(rows) \cup Refs(Archived)
    BY <2>2, RefsFacts
  <2>4. ~overlap => Refs(rows') \subseteq objects
    BY <1>s, <2>2, <2>3 DEF Backed
  <2> QED
    BY <1>t, <2>1, <2>2, <2>4, SafeCommitted
<1>9. CASE Rehash(c)
  <2>1. PICK j : Become(c, j) /\ JobOK(j) /\ j.op \in {"outputs", "idle"}
    BY <1>9, <1>t, MoveRehash
  <2>2. objects' = objects /\ rows' = rows /\ backup' = backup
    BY <1>9 DEF Rehash
  <2>3. Backed(j)'
    BY <1>b, <2>1
  <2> QED
    BY <1>s, <2>1, <2>2, <2>3, SafeKept
<1>10. CASE NextOutput(c)
  <2>1. PICK j : Become(c, j) /\ JobOK(j) /\ (j.op = "idle" \/ (j.op = "put" /\ j.todo = Objs[j.cur]))
    BY <1>10, <1>t, MoveNextOutput
  <2>2. Backed(j)'
    BY <2>1 DEF Backed
  <2> QED
    BY <1>10, <1>s, <2>1, <2>2, SafeKept DEF NextOutput, Storage
<1>11. ASSUME NEW n \in Nodes, NEW f \in BOOLEAN, DeleteNodes(c, n, f) PROVE Safe'
  <2>1. rows' \subseteq rows /\ UNCHANGED <<objects, job, overlap, backup>>
    BY <1>11 DEF DeleteNodes
  <2>2. Refs(rows') \subseteq Refs(rows)
    BY <2>1, RefsFacts
  <2> QED
    BY <2>1, <2>2 DEF IInv, Safe, Backed, Overlapping
<1>12. CASE StartImport(c)
  <2>1. PICK j : /\ Become(c, j) /\ JobOK(j) /\ j.op = "import"
                 /\ j.todo = Refs(Archived) \ objects
    BY <1>12, <1>t, MoveStartImport
  <2>2. objects' = objects /\ rows' = rows /\ backup' = backup
    BY <1>12 DEF StartImport, Storage
  <2>3. Backed(j)'
    BY <2>1, <2>2 DEF Backed
  <2> QED
    BY <1>s, <2>1, <2>2, <2>3, SafeKept
<1>13. ASSUME NEW f \in BOOLEAN, StartMaintain(c, f) PROVE Safe'
  <2>1. PICK j : Become(c, j) /\ JobOK(j) /\ j.op \in {"list"}
    BY <1>13, <1>t, MoveStartMaintain
  <2>2. objects' = objects /\ rows' = rows /\ backup' = backup
    BY <1>13 DEF StartMaintain, Storage
  <2>3. Backed(j)'
    BY <1>b, <2>1
  <2> QED
    BY <1>s, <2>1, <2>2, <2>3, SafeKept
<1>14. CASE StartBackup(c)
  <2>1. PICK j : Become(c, j) /\ JobOK(j) /\ j.op \in {"list"}
    BY <1>14, <1>t, MoveStartBackup
  <2>2. objects' = objects /\ rows' = rows /\ backup' = backup
    BY <1>14 DEF StartBackup, Storage
  <2>3. Backed(j)'
    BY <1>b, <2>1
  <2> QED
    BY <1>s, <2>1, <2>2, <2>3, SafeKept
<1>15. CASE ListObjects(c)
  <2>1. PICK j : Become(c, j) /\ JobOK(j) /\ j.op = "query"
    BY <1>15, <1>t, MoveListObjects
  <2>2. objects' = objects /\ rows' = rows /\ backup' = backup
    BY <1>15 DEF ListObjects, Storage
  <2>3. Backed(j)'
    BY <1>b, <2>1
  <2> QED
    BY <1>s, <2>1, <2>2, <2>3, SafeKept
<1>16. CASE QueryKeys(c)
  <2>1. UNCHANGED Storage
    BY <1>16 DEF QueryKeys
  <2>2. CASE Become(c, Idle)
    BY <1>t, <1>s, <1>b, <2>1, <2>2, SafeKept DEF Storage
  <2>3. CASE \E j : Become(c, j) /\ JobOK(j) /\ j.op = "purge" /\ j.todo = job[c].todo \ Refs(rows)
    <3>1. PICK j : Become(c, j) /\ JobOK(j) /\ j.op = "purge" /\ j.todo = job[c].todo \ Refs(rows)
      BY <2>3
    <3>2. Backed(j)'
      BY <2>1, <3>1 DEF Backed, Storage
    <3> QED
      BY <1>s, <2>1, <3>1, <3>2, SafeKept DEF Storage
  <2> QED
    BY <1>16, <1>t, <2>2, <2>3, MoveQueryKeys
<1>17. CASE CopyFirst(c)
  <2>1. PICK j : /\ Become(c, j) /\ JobOK(j) /\ j.op = "copy2"
                 /\ j.kept = IF DumpFirst THEN rows ELSE objects
    BY <1>17, <1>t, MoveCopyFirst
  <2>2. objects' = objects /\ rows' = rows /\ backup' = backup
    BY <1>17 DEF CopyFirst, Storage
  <2>3. ~overlap => Backed(j)'
    BY <1>s, <2>1, <2>2 DEF Backed
  <2> QED
    BY <1>s, <2>1, <2>2, <2>3, SafeKept
<1>18. CASE CopySecond(c)
  <2>1. /\ job[c].op = "copy2" /\ rows' = rows /\ objects' = objects
        /\ DumpFirst => backup' = [rows |-> job[c].kept, objects |-> objects]
    BY <1>18 DEF CopySecond
  <2>2. ~overlap => (DumpFirst => Refs(backup'.rows) \subseteq backup'.objects)
    BY <1>s, <2>1 DEF Backed
  <2> QED
    BY <1>18, <1>t, <1>b, <2>1, <2>2, MoveIdle, SafeKept
<1> QED
  BY <1>1, <1>2, <1>3, <1>4, <1>5, <1>6, <1>7, <1>8, <1>9, <1>10, <1>11, <1>12, <1>13, <1>14,
     <1>15, <1>16, <1>17, <1>18, SafeDeleted DEF ClientNext

LEMMA InitSafe == Init => IInv
<1> SUFFICES ASSUME Init PROVE IInv
  OBVIOUS
<1>1. \A c \in Clients : job[c] = Idle
  BY DEF Init
<1>2. TypeOK
  <2>1. Refs(Early) \subseteq Keys
    BY RefsFacts, NodesAssumption
  <2> QED
    BY <1>1, <2>1, IdleIsJob, NodesAssumption DEF Init, TypeOK, P!Init
<1>3. Mutual
  BY <1>1, IdleIsJob DEF Mutual, Cleaning
<1>4. Safe
  BY <1>1, IdleIsJob, RefsFacts DEF Init, Safe, Overlapping, CleaningLive, Backed, NoBackup
<1> QED
  BY <1>2, <1>3, <1>4 DEF IInv

LEMMA Inductive == Spec => []IInv
<1>1. IInv /\ UNCHANGED vars => IInv'
  <2> SUFFICES ASSUME IInv, UNCHANGED vars PROVE IInv'
    OBVIOUS
  <2>1. /\ accessors' = accessors /\ holder' = holder /\ rows' = rows /\ hashed' = hashed
        /\ finished' = finished /\ sealed' = sealed /\ objects' = objects
        /\ unstored' = unstored /\ torn' = torn /\ job' = job /\ backup' = backup
        /\ overlap' = overlap
    BY DEF vars
  <2>2. TypeOK'
    BY <2>1, Zenon DEF IInv, TypeOK
  <2>3. Mutual'
    BY <2>1, Zenon DEF IInv, Mutual
  <2>4. Overlapping' = Overlapping
    BY <2>1, Zenon DEF Overlapping
  <2>5. \A c \in Clients : Backed(job[c])' = Backed(job[c])
    BY <2>1, Zenon DEF Backed
  <2>6. Safe'
    BY <2>1, <2>4, <2>5, Zenon DEF IInv, Safe
  <2> QED
    BY <2>2, <2>3, <2>6 DEF IInv
<1>2. IInv /\ [Next]_vars => IInv'
  BY <1>1, TypeStep, MutualStep, SafeStep DEF IInv
<1> QED
  BY <1>2, InitSafe, PTL DEF Spec

(* Whatever the clients, the nodes and the number of deletions, imports,   *)
(* maintenances, backups and crashes: unless live maintenance overlapped a *)
(* store or an import, no stored node misses an object.                    *)
THEOREM StoredObjectsKept == Spec => []ObjectsKept
<1>1. IInv => ObjectsKept
  BY DEF IInv, Safe, ObjectsKept
<1> QED
  BY <1>1, Inductive, PTL

(* A backup made by psql_dos, which dumps the database before it copies    *)
(* the objects, holds every object its rows refer to.                      *)
THEOREM DumpFirstRestorable == DumpFirst => (Spec => []BackupRestorable)
<1> SUFFICES ASSUME DumpFirst PROVE Spec => []BackupRestorable
  OBVIOUS
<1>1. IInv => BackupRestorable
  BY DEF IInv, Safe, BackupRestorable
<1> QED
  BY <1>1, Inductive, PTL
=============================================================================
