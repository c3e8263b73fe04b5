-------------------------- MODULE Provenance_proofs --------------------------
(***************************************************************************)
(* For every set of nodes, clients and requested links the provenance      *)
(* graph stays sound unless a link was accepted that clashed with one its  *)
(* validation cannot see.                                                  *)
(*                                                                         *)
(* GraphSound is not inductive: a link is inserted long after it was       *)
(* validated.  The invariant therefore speaks of the stored and the        *)
(* pending links together: every step either removes links from that union *)
(* or adds one that is Admissible in it.                                   *)
(***************************************************************************)
EXTENDS Provenance, TLAPS

Links == Requests \cup EarlyLinks

Ops == {"idle", "link", "delete", "delete2", "export", "export2"}

Jobs == [op : Ops, link : SUBSET Requests,
         rules : [forward : SUBSET LinkTypes, backward : SUBSET LinkTypes],
         walk : SUBSET Nodes, found : SUBSET Nodes, acc : SUBSET Nodes, edges : SUBSET Links]

TypeOK ==
    /\ links \in SUBSET Links
    /\ cache \in [Clients -> SUBSET Requests]
    /\ job \in [Clients -> Jobs]
    /\ stored \in SUBSET Nodes
    /\ unstored \in SUBSET Nodes
    /\ clash \in BOOLEAN

Accepted == links \cup Pending

IInv ==
    /\ TypeOK
    /\ ~clash => Sound(Accepted)

-----------------------------------------------------------------------------
(* Soundness of sets of links. *)

(* What is reachable in a part of the graph is reachable in the whole. *)
LEMMA ReachesMonotone ==
    ASSUME NEW L, NEW M, M \subseteq L, NEW a, NEW b, Reaches(M, a, b)
    PROVE  Reaches(L, a, b)
BY DEF Reaches, Closed

(* A part of a sound graph is sound. *)
LEMMA SoundMonotone ==
    ASSUME NEW L, NEW M, M \subseteq L, Sound(L)
    PROVE  Sound(M)
<1>1. Degrees(M)
    BY DEF Sound, Degrees
<1>2. Acyclic(M)
    <2>1. Ancestry(M) \subseteq Ancestry(L)
        BY DEF Ancestry
    <2>2. SUFFICES ASSUME NEW l \in Ancestry(M), Reaches(Ancestry(M), l.tgt, l.src)
                   PROVE  FALSE
        BY DEF Acyclic
    <2>3. Reaches(Ancestry(L), l.tgt, l.src)
        BY <2>1, <2>2, ReachesMonotone
    <2>4. l \in Ancestry(L)
        BY <2>1
    <2> QED
        BY <2>3, <2>4 DEF Sound, Acyclic
<1> QED
    BY <1>1, <1>2 DEF Sound

(* Taking the place of a link is symmetric, when only equal labels count. *)
LEMMA TakenSymmetric ==
    ASSUME NEW l, NEW m
    PROVE  /\ OutTaken({m.label}, l, m) => OutTaken({l.label}, m, l)
           /\ InTaken({m.label}, l, m) => InTaken({l.label}, m, l)
<1>1. OutTaken({m.label}, l, m) => OutTaken({l.label}, m, l)
    BY DEF OutTaken
<1>2. InTaken({m.label}, l, m) => InTaken({l.label}, m, l)
    BY DEF InTaken
<1> QED
    BY <1>1, <1>2

(* An admissible link keeps the degrees. *)
LEMMA AdmissibleDegrees ==
    ASSUME NEW L, NEW l, Degrees(L), Admissible(L, l)
    PROVE  Degrees(L \cup {l})
<1> SUFFICES ASSUME NEW x \in L \cup {l}, NEW y \in L \cup {l}, x # y
             PROVE  ~OutTaken({x.label}, y, x) /\ ~InTaken({x.label}, y, x)
    BY DEF Degrees
<1>1. CASE x \in L /\ y \in L
    BY <1>1 DEF Degrees
<1>2. CASE x = l /\ y \in L
    BY <1>2 DEF Admissible
<1>3. CASE x \in L /\ y = l
    <2>1. ~OutTaken({l.label}, x, l) /\ ~InTaken({l.label}, x, l)
        BY <1>3 DEF Admissible
    <2> QED
        BY <2>1, <1>3, TakenSymmetric
<1> QED
    BY <1>1, <1>2, <1>3

(* An edge whose target does not reach its source closes no cycle.  A set   *)
(* that shows that an edge m was on no cycle is made closed under the new   *)
(* edge l with the set S that is closed, has the target of l and has not    *)
(* its source.                                                             *)
LEMMA EdgeAcyclic ==
    ASSUME NEW A, NEW l, NEW m \in A \cup {l},
           ~Reaches(A, l.tgt, l.src),
           \A k \in A : ~Reaches(A, k.tgt, k.src)
    PROVE  ~Reaches(A \cup {l}, m.tgt, m.src)
<1>1. PICK S \in SUBSET Nodes : l.tgt \in S /\ Closed(A, S) /\ l.src \notin S
    BY DEF Reaches
<1>2. CASE m = l
    <2>1. Closed(A \cup {l}, S)
        BY <1>1 DEF Closed
    <2> QED
        BY <1>1, <1>2, <2>1 DEF Reaches
<1>3. CASE m \in A
    <2>1. PICK T \in SUBSET Nodes : m.tgt \in T /\ Closed(A, T) /\ m.src \notin T
        BY <1>3 DEF Reaches
    <2>2. CASE m.src \in S
        <3>1. Closed(A \cup {l}, S \cap T)
            BY <1>1, <2>1 DEF Closed
        <3>2. m.tgt \in S \cap T
            BY <1>1, <1>3, <2>1, <2>2 DEF Closed
        <3>3. S \cap T \in SUBSET Nodes /\ m.src \notin S \cap T
            BY <2>1
        <3> QED
            BY <3>1, <3>2, <3>3 DEF Reaches
    <2>3. CASE m.src \notin S
        <3>1. Closed(A \cup {l}, S \cup T)
            BY <1>1, <2>1 DEF Closed
        <3>2. S \cup T \in SUBSET Nodes /\ m.tgt \in S \cup T /\ m.src \notin S \cup T
            BY <2>1, <2>3
        <3> QED
            BY <3>1, <3>2 DEF Reaches
    <2> QED
        BY <2>2, <2>3
<1> QED
    BY <1>2, <1>3

(* An admissible link keeps the graph acyclic. *)
LEMMA AdmissibleAcyclic ==
    ASSUME NEW L, NEW l, Acyclic(L), Admissible(L, l)
    PROVE  Acyclic(L \cup {l})
<1>1. CASE l.type \in {"CREATE", "INPUT_CALC"}
    <2>1. Ancestry(L \cup {l}) = Ancestry(L) \cup {l}
        BY <1>1 DEF Ancestry
    <2>2. ~Reaches(Ancestry(L), l.tgt, l.src)
        BY <1>1 DEF Admissible, MakesCycle
    <2>3. \A k \in Ancestry(L) : ~Reaches(Ancestry(L), k.tgt, k.src)
        BY DEF Acyclic
    <2>4. \A m \in Ancestry(L) \cup {l} : ~Reaches(Ancestry(L) \cup {l}, m.tgt, m.src)
        BY <2>2, <2>3, EdgeAcyclic
    <2> QED
        BY <2>1, <2>4 DEF Acyclic
<1>2. CASE l.type \notin {"CREATE", "INPUT_CALC"}
    <2>1. Ancestry(L \cup {l}) = Ancestry(L)
        BY <1>2 DEF Ancestry
    <2> QED
        BY <2>1 DEF Acyclic
<1> QED
    BY <1>1, <1>2

(* An admissible link keeps the graph sound. *)
LEMMA AdmissibleSound ==
    ASSUME NEW L, NEW l, Sound(L), Admissible(L, l)
    PROVE  Sound(L \cup {l})
BY AdmissibleDegrees, AdmissibleAcyclic DEF Sound

-----------------------------------------------------------------------------
(* The steps. *)

(* A link that passed validation clashes with nothing that it could see.   *)
(* The pattern of a label matches more labels than it alone, never less.   *)
LEMMA ValidatedSeenSound ==
    ASSUME NEW c \in Clients, NEW l \in Requests, validate_incoming(c, l)
    PROVE  SeenSound(c, l)
<1>1. l.label \in Like[l.label]
    BY LikeReflexive
<1>2. \A m : /\ OutTaken({l.label}, m, l) => OutTaken(Like[l.label], m, l)
             /\ InTaken({l.label}, m, l) => InTaken(Like[l.label], m, l)
    BY <1>1 DEF OutTaken, InTaken
<1>3. l.src # l.tgt /\ ~MakesCycle(links, l)
    BY DEF validate_incoming, validate_link, KindsAllowed
<1>4. \A m \in links : ~OutTaken(Like[l.label], m, l)
    BY DEF validate_incoming, validate_link
<1>5. \A m \in links \cup cache[c] : ~InTaken(Like[l.label], m, l)
    BY DEF validate_incoming, validate_link
<1>6. Admissible(links, l)
    BY <1>2, <1>3, <1>4, <1>5 DEF Admissible
<1> QED
    BY <1>2, <1>5, <1>6 DEF SeenSound

(* A step that moves accepted links around, or drops some, keeps the set    *)
(* within what it was.                                                     *)
LEMMA PendingShrinks ==
    ASSUME links' \subseteq Accepted,
           \A d \in Clients : cache'[d] \subseteq Accepted /\ job'[d].link \subseteq Accepted
    PROVE  Accepted' \subseteq Accepted
BY DEF Accepted, Pending

LEMMA IdleJob == Idle \in Jobs /\ Idle.link = {}
<1>1. [forward |-> {}, backward |-> {}] \in [forward : SUBSET LinkTypes, backward : SUBSET LinkTypes]
    OBVIOUS
<1> QED
    BY <1>1 DEF Idle, Jobs, Ops

LEMMA TypeInit == Init => TypeOK
<1> SUFFICES ASSUME Init PROVE TypeOK
    OBVIOUS
<1>1. Idle \in Jobs
    BY IdleJob
<1>2. EarlyLinks \in SUBSET Links /\ Early \in SUBSET Nodes
    BY LinksAssumption DEF Links
<1>3. cache \in [Clients -> SUBSET Requests] /\ job \in [Clients -> Jobs]
    BY <1>1 DEF Init
<1> QED
    BY <1>2, <1>3 DEF Init, TypeOK

(* The records of walks stay records of walks. *)
LEMMA WalkTypes ==
    ASSUME TypeOK, NEW c \in Clients, WalkForward(c) \/ WalkBackward(c)
    PROVE  /\ job' \in [Clients -> Jobs]
           /\ \A d \in Clients : job'[d].link = job[d].link
<1>1. job \in [Clients -> Jobs] /\ job[c] \in Jobs /\ links \in SUBSET Links
    BY DEF TypeOK
<1>2. \A l \in links : l.src \in Nodes /\ l.tgt \in Nodes
    BY <1>1, LinksAssumption DEF Links
<1>3. CASE WalkForward(c)
    <2>1. PICK op \in Ops, found \in SUBSET Nodes, edges \in SUBSET Links :
              job' = [job EXCEPT ![c] = [job[c] EXCEPT !.op = op, !.found = found, !.edges = edges]]
        <3> DEFINE out == {l \in links : l.type \in job[c].rules.forward /\ l.src \in job[c].walk}
        <3>1. {l.tgt : l \in out} \in SUBSET Nodes
            BY <1>2
        <3>2. job[c].edges \cup out \in SUBSET Links
            BY <1>1 DEF Jobs
        <3>3. (IF job[c].op = "delete" THEN "delete2" ELSE "export2") \in Ops
            BY DEF Ops
        <3>4. job' = [job EXCEPT ![c] =
                         [job[c] EXCEPT !.op = IF job[c].op = "delete" THEN "delete2" ELSE "export2",
                                        !.found = {l.tgt : l \in out},
                                        !.edges = job[c].edges \cup out]]
            BY <1>3 DEF WalkForward
        <3> QED
            BY <3>1, <3>2, <3>3, <3>4
    <2>2. \A d \in Clients : d # c => job'[d] = job[d]
        BY <1>1, <2>1
    <2>3. job'[c] = [job[c] EXCEPT !.op = op, !.found = found, !.edges = edges]
        BY <1>1, <2>1
    <2>4. job'[c] \in Jobs /\ job'[c].link = job[c].link
        BY <1>1, <2>1, <2>3 DEF Jobs
    <2>5. job' = [d \in Clients |-> job'[d]]
        BY <1>1, <2>1
    <2> QED
        BY <1>1, <2>2, <2>4, <2>5
<1>4. CASE WalkBackward(c)
    <2>1. PICK op \in Ops, walk \in SUBSET Nodes, found \in SUBSET Nodes,
               acc \in SUBSET Nodes, edges \in SUBSET Links :
              job' = [job EXCEPT ![c] = [job[c] EXCEPT !.op = op, !.walk = walk, !.found = found,
                                                       !.acc = acc, !.edges = edges]]
        <3> DEFINE in == {l \in links : l.type \in job[c].rules.backward /\ l.tgt \in job[c].walk}
        <3> DEFINE new == job[c].walk \cup job[c].found \cup {l.src : l \in in}
        <3>1. {l.src : l \in in} \in SUBSET Nodes
            BY <1>2
        <3>2. new \in SUBSET Nodes
            BY <1>1, <3>1 DEF Jobs
        <3>3. job[c].edges \cup in \in SUBSET Links
            BY <1>1 DEF Jobs
        <3>4. job[c].acc \cup new \in SUBSET Nodes /\ new \ job[c].acc \in SUBSET Nodes
            BY <1>1, <3>2 DEF Jobs
        <3>5. (IF job[c].op = "delete2" THEN "delete" ELSE "export") \in Ops
            BY DEF Ops
        <3>6. job' = [job EXCEPT ![c] =
                         [job[c] EXCEPT !.op = IF job[c].op = "delete2" THEN "delete" ELSE "export",
                                        !.walk = new \ job[c].acc,
                                        !.found = {},
                                        !.acc = job[c].acc \cup new,
                                        !.edges = job[c].edges \cup in]]
            BY <1>4 DEF WalkBackward
        <3>7. {} \in SUBSET Nodes
            OBVIOUS
        <3> HIDE DEF new, in
        <3> QED
            BY <3>3, <3>4, <3>5, <3>6, <3>7
    <2>2. \A d \in Clients : d # c => job'[d] = job[d]
        BY <1>1, <2>1
    <2>3. job'[c] = [job[c] EXCEPT !.op = op, !.walk = walk, !.found = found,
                                   !.acc = acc, !.edges = edges]
        BY <1>1, <2>1
    <2>4. job'[c] \in Jobs /\ job'[c].link = job[c].link
        BY <1>1, <2>1, <2>3 DEF Jobs
    <2>5. job' = [d \in Clients |-> job'[d]]
        BY <1>1, <2>1
    <2> QED
        BY <1>1, <2>2, <2>4, <2>5
<1> QED
    BY <1>3, <1>4

(* A step that only moves accepted links around keeps the invariant. *)
LEMMA KeepsSound ==
    ASSUME IInv, TypeOK', clash' = clash, links' \subseteq Accepted,
           \A d \in Clients : cache'[d] \subseteq Accepted /\ job'[d].link \subseteq Accepted
    PROVE  IInv'
<1>1. Accepted' \subseteq Accepted
    BY PendingShrinks
<1>2. ~clash' => Sound(Accepted')
    BY <1>1, SoundMonotone DEF IInv
<1> QED
    BY <1>2 DEF IInv

(* Every cached link, and every link in a job, is accepted. *)
LEMMA PendingAccepted ==
    ASSUME TypeOK
    PROVE  \A d \in Clients : cache[d] \subseteq Accepted /\ job[d].link \subseteq Accepted
<1>1. \A d \in Clients : cache[d] \subseteq Requests /\ job[d].link \subseteq Requests
    BY DEF TypeOK, Jobs
<1> QED
    BY <1>1 DEF Accepted, Pending

LEMMA AddIncoming ==
    ASSUME IInv, NEW c \in Clients, NEW l \in Requests, add_incoming(c, l)
    PROVE  IInv'
<1>1. TypeOK /\ job \in [Clients -> Jobs] /\ cache \in [Clients -> SUBSET Requests]
    BY DEF IInv, TypeOK
<1>2. \A d \in Clients : cache[d] \subseteq Accepted /\ job[d].link \subseteq Accepted
    BY <1>1, PendingAccepted
<1>3. clash' = (clash \/ ~Admissible(Accepted, l))
    BY ValidatedSeenSound DEF add_incoming, Accepted
<1>4. /\ job' \in [Clients -> Jobs] /\ cache' \in [Clients -> SUBSET Requests]
      /\ \A d \in Clients : /\ cache'[d] \subseteq cache[d] \cup {l}
                            /\ job'[d].link \subseteq job[d].link \cup {l}
    <2>1. CASE {l.src, l.tgt} \subseteq stored
        <3>1. PICK r \in Jobs : r.link = {l} /\ job' = [job EXCEPT ![c] = r]
            <4>1. [Idle EXCEPT !.op = "link", !.link = {l}] \in Jobs
                BY IdleJob DEF Jobs, Ops
            <4>2. [Idle EXCEPT !.op = "link", !.link = {l}].link = {l}
                BY IdleJob DEF Jobs
            <4> QED
                BY <2>1, <4>1, <4>2 DEF add_incoming
        <3>2. cache' = cache
            BY <2>1 DEF add_incoming
        <3> QED
            BY <1>1, <3>1, <3>2
    <2>2. CASE ~({l.src, l.tgt} \subseteq stored)
        <3>1. cache' = [cache EXCEPT ![c] = cache[c] \cup {l}] /\ job' = job
            BY <2>2 DEF add_incoming
        <3> QED
            BY <1>1, <3>1
    <2> QED
        BY <2>1, <2>2
<1>5. TypeOK'
    <2>1. clash' \in BOOLEAN
        BY <1>3
    <2>2. links' = links /\ stored' = stored /\ unstored' = unstored
        BY DEF add_incoming
    <2> QED
        BY <1>1, <1>4, <2>1, <2>2 DEF TypeOK
<1>6. Accepted' \subseteq Accepted \cup {l}
    <2>1. links' = links
        BY DEF add_incoming
    <2>2. \A d \in Clients : cache'[d] \subseteq Accepted \cup {l} /\ job'[d].link \subseteq Accepted \cup {l}
        BY <1>2, <1>4
    <2>3. Pending' \subseteq Accepted \cup {l}
        BY <2>2 DEF Pending
    <2> QED
        BY <2>1, <2>3 DEF Accepted
<1>7. ~clash' => Sound(Accepted')
    <2> SUFFICES ASSUME ~clash' PROVE Sound(Accepted')
        OBVIOUS
    <2>1. ~clash /\ Admissible(Accepted, l)
        BY <1>3
    <2>2. Sound(Accepted \cup {l})
        BY <2>1, AdmissibleSound DEF IInv
    <2> QED
        BY <1>6, <2>2, SoundMonotone
<1> QED
    BY <1>5, <1>7 DEF IInv

(* Every other step moves or drops accepted links. *)
LEMMA OtherSteps ==
    ASSUME IInv, NEW c \in Clients,
           \/ InsertLink(c) \/ Crash(c) \/ WalkForward(c) \/ WalkBackward(c)
           \/ \E n \in Nodes, off \in Toggles : StartDelete(c, n, off)
           \/ delete_nodes(c) \/ DeclineDelete(c)
    PROVE  IInv'
<1>1. TypeOK /\ job \in [Clients -> Jobs] /\ cache \in [Clients -> SUBSET Requests]
    BY DEF IInv, TypeOK
<1>2. \A d \in Clients : cache[d] \subseteq Accepted /\ job[d].link \subseteq Accepted
    BY <1>1, PendingAccepted
<1>3. Idle \in Jobs /\ Idle.link = {}
    BY IdleJob
<1>4. ASSUME job' = [job EXCEPT ![c] = Idle]
      PROVE  /\ job' \in [Clients -> Jobs]
             /\ \A d \in Clients : job'[d].link \subseteq Accepted
    BY <1>1, <1>2, <1>3, <1>4
<1>5. CASE InsertLink(c)
    <2>1. job' = [job EXCEPT ![c] = Idle] /\ clash' = clash /\ cache' = cache
          /\ stored' = stored /\ unstored' = unstored /\ links' \subseteq links \cup job[c].link
        BY <1>5 DEF InsertLink
    <2>2. job[c].link \in SUBSET Links
        BY <1>1 DEF Jobs, Links
    <2>3. links' \subseteq Accepted
        BY <1>2, <2>1 DEF Accepted
    <2>4. TypeOK'
        BY <1>1, <1>4, <2>1, <2>2 DEF TypeOK
    <2> QED
        BY <1>2, <1>4, <2>1, <2>3, <2>4, KeepsSound
<1>6. CASE Crash(c)
    <2>1. job' = [job EXCEPT ![c] = Idle] /\ clash' = clash /\ cache' = [cache EXCEPT ![c] = {}]
          /\ stored' = stored /\ unstored' \subseteq unstored /\ links' = links
        BY <1>6 DEF Crash
    <2>2. cache' \in [Clients -> SUBSET Requests] /\ \A d \in Clients : cache'[d] \subseteq Accepted
        BY <1>1, <1>2, <2>1
    <2>3. TypeOK'
        BY <1>1, <1>4, <2>1, <2>2 DEF TypeOK
    <2>4. links' \subseteq Accepted
        BY <2>1 DEF Accepted
    <2> QED
        BY <1>4, <2>1, <2>2, <2>3, <2>4, KeepsSound
<1>7. CASE WalkForward(c) \/ WalkBackward(c)
    <2>1. clash' = clash /\ cache' = cache /\ stored' = stored /\ unstored' = unstored /\ links' = links
        BY <1>7 DEF WalkForward, WalkBackward
    <2>2. job' \in [Clients -> Jobs] /\ \A d \in Clients : job'[d].link = job[d].link
        BY <1>1, <1>7, WalkTypes
    <2>3. TypeOK'
        BY <1>1, <2>1, <2>2 DEF TypeOK
    <2>4. links' \subseteq Accepted
        BY <2>1 DEF Accepted
    <2> QED
        BY <1>2, <2>1, <2>2, <2>3, <2>4, KeepsSound
<1>8. CASE \E n \in Nodes, off \in Toggles : StartDelete(c, n, off)
    <2>1. PICK n \in Nodes, off \in Toggles : StartDelete(c, n, off)
        BY <1>8
    <2>2. clash' = clash /\ cache' = cache /\ stored' = stored /\ unstored' = unstored /\ links' = links
        BY <2>1 DEF StartDelete
    <2>3. PICK r \in Jobs : r.link = {} /\ job' = [job EXCEPT ![c] = r]
        <3>1. DeleteRules(off) \in [forward : SUBSET LinkTypes, backward : SUBSET LinkTypes]
            BY DEF DeleteRules, LinkTypes
        <3>2. [Idle EXCEPT !.op = "delete", !.rules = DeleteRules(off), !.walk = {n}, !.acc = {n}] \in Jobs
            BY <3>1, IdleJob DEF Jobs, Ops
        <3>3. [Idle EXCEPT !.op = "delete", !.rules = DeleteRules(off), !.walk = {n}, !.acc = {n}].link = {}
            BY IdleJob DEF Jobs
        <3> QED
            BY <2>1, <3>2, <3>3 DEF StartDelete, StartWalk
    <2>4. job' \in [Clients -> Jobs] /\ \A d \in Clients : job'[d].link \subseteq Accepted
        BY <1>1, <1>2, <2>3
    <2>5. TypeOK'
        BY <1>1, <2>2, <2>4 DEF TypeOK
    <2>6. links' \subseteq Accepted
        BY <2>2 DEF Accepted
    <2> QED
        BY <1>2, <2>2, <2>4, <2>5, <2>6, KeepsSound
<1>9. CASE delete_nodes(c) \/ DeclineDelete(c)
    <2>1. job' = [job EXCEPT ![c] = Idle] /\ clash' = clash /\ cache' = cache
          /\ stored' \subseteq stored /\ unstored' = unstored /\ links' \subseteq links
        BY <1>9 DEF delete_nodes, DeclineDelete
    <2>2. TypeOK'
        BY <1>1, <1>4, <2>1 DEF TypeOK
    <2>3. links' \subseteq Accepted
        BY <2>1 DEF Accepted
    <2> QED
        BY <1>2, <1>4, <2>1, <2>2, <2>3, KeepsSound
<1> QED
    BY <1>5, <1>6, <1>7, <1>8, <1>9

LEMMA StoreAndSeal ==
    ASSUME IInv, NEW n \in Nodes, Home[n] \in Clients, store(n) \/ seal(n)
    PROVE  IInv'
<1>1. TypeOK /\ job \in [Clients -> Jobs] /\ cache \in [Clients -> SUBSET Requests]
    BY DEF IInv, TypeOK
<1>2. \A d \in Clients : cache[d] \subseteq Accepted /\ job[d].link \subseteq Accepted
    BY <1>1, PendingAccepted
<1>3. CASE store(n)
    <2>1. /\ stored' = stored \cup {n} /\ unstored' \subseteq unstored
          /\ links' = links \cup Incoming(Home[n], n)
          /\ cache' = [cache EXCEPT ![Home[n]] = cache[Home[n]] \ Incoming(Home[n], n)]
          /\ job' = job /\ clash' = clash
        BY <1>3 DEF store
    <2>2. Incoming(Home[n], n) \subseteq cache[Home[n]]
        BY DEF Incoming
    <2>3. cache' \in [Clients -> SUBSET Requests] /\ \A d \in Clients : cache'[d] \subseteq Accepted
        BY <1>1, <1>2, <2>1
    <2>4. links' \subseteq Accepted /\ links' \in SUBSET Links
        BY <1>1, <1>2, <2>1, <2>2 DEF Accepted, TypeOK, Links
    <2>5. TypeOK'
        BY <1>1, <2>1, <2>3, <2>4 DEF TypeOK
    <2> QED
        BY <1>2, <2>1, <2>3, <2>4, <2>5, KeepsSound
<1>4. CASE seal(n)
    <2>1. UNCHANGED <<unstored, stored, links, cache, job, clash>>
        BY <1>4 DEF seal
    <2>2. TypeOK'
        BY <1>1, <2>1 DEF TypeOK
    <2>3. links' \subseteq Accepted
        BY <2>1 DEF Accepted
    <2> QED
        BY <1>2, <2>1, <2>2, <2>3, KeepsSound
<1> QED
    BY <1>3, <1>4

(* Every step keeps the invariant. *)
LEMMA Inductive == IInv /\ [Next]_vars => IInv'
<1> SUFFICES ASSUME IInv, [Next]_vars PROVE IInv'
    OBVIOUS
<1>1. CASE \E n \in Nodes : store(n) \/ seal(n)
    BY <1>1, StoreAndSeal, HomeAssumption
<1>2. CASE \E c \in Clients, l \in Requests : add_incoming(c, l)
    BY <1>2, AddIncoming
<1>3. CASE \E c \in Clients :
              \/ InsertLink(c) \/ Crash(c) \/ WalkForward(c) \/ WalkBackward(c)
              \/ \E n \in Nodes, off \in Toggles : StartDelete(c, n, off)
              \/ delete_nodes(c) \/ DeclineDelete(c)
    BY <1>3, OtherSteps
<1>4. CASE UNCHANGED vars
    <2>1. TypeOK' /\ links' = links /\ cache' = cache /\ job' = job /\ clash' = clash
        BY <1>4 DEF vars, IInv, TypeOK
    <2>2. \A d \in Clients : cache[d] \subseteq Accepted /\ job[d].link \subseteq Accepted
        BY PendingAccepted DEF IInv
    <2>3. links' \subseteq Accepted
        BY <2>1 DEF Accepted
    <2> QED
        BY <2>1, <2>2, <2>3, KeepsSound
<1> QED
    BY <1>1, <1>2, <1>3, <1>4 DEF Next

-----------------------------------------------------------------------------
(* The uniqueness rules and the acyclicity of the graph hold for every set  *)
(* of nodes, clients and requests, as long as no link was accepted that     *)
(* clashed only with links its validation cannot see (NodeLinks.add_incoming *)
(* validates against the database and the cache of the target).             *)
THEOREM GraphStaysSound == Spec => []GraphSound
<1>1. Init => IInv
    <2> SUFFICES ASSUME Init PROVE IInv
        OBVIOUS
    <2>1. TypeOK
        BY TypeInit
    <2>2. Pending = {}
        <3>1. \A d \in Clients : cache[d] = {} /\ job[d].link = {}
            BY IdleJob DEF Init
        <3> QED
            BY <3>1 DEF Pending
    <2>3. Accepted = EarlyLinks
        BY <2>2 DEF Accepted, Init
    <2> QED
        BY <2>1, <2>3, LinksAssumption DEF IInv
<1>2. IInv => GraphSound
    <2> SUFFICES ASSUME IInv, ~clash PROVE Sound(links)
        BY DEF GraphSound
    <2>1. links \subseteq Accepted /\ Sound(Accepted)
        BY DEF IInv, Accepted
    <2> QED
        BY <2>1, SoundMonotone
<1> QED
    BY <1>1, <1>2, Inductive, PTL DEF Spec

-----------------------------------------------------------------------------
(* Deletion.  While a walk is fresh the set of visited nodes is closed under *)
(* the rules, except at the nodes the next iteration starts from.            *)

WalkOps == {"delete", "delete2", "export", "export2"}

ClosedWalk(j) ==
    \A l \in links :
        /\ l.type \in j.rules.forward /\ l.src \in j.acc \ j.walk => l.tgt \in j.acc
        /\ l.type \in j.rules.backward /\ l.tgt \in j.acc \ j.walk => l.src \in j.acc

HalfWalk(j) == \A l \in links : l.type \in j.rules.forward /\ l.src \in j.walk => l.tgt \in j.found

WalkInv ==
    \A c \in Clients :
        /\ job[c].op \in {"delete", "delete2"} => \E off \in Toggles : job[c].rules = DeleteRules(off)
        /\ c \in fresh /\ job[c].op \in WalkOps => ClosedWalk(job[c])
        /\ c \in fresh /\ job[c].op \in {"delete2", "export2"} => HalfWalk(job[c])

DInv == IInv /\ WalkInv

(* A step that starts or advances no walk keeps WalkInv: the links are the *)
(* same or no walk is fresh any more.                                      *)
LEMMA WalkKept ==
    ASSUME WalkInv, (links' = links /\ fresh' = fresh) \/ fresh' = {},
           \A d \in Clients : job'[d] = job[d] \/ job'[d].op \in {"idle", "link"}
    PROVE  WalkInv'
<1> SUFFICES ASSUME NEW d \in Clients
             PROVE  /\ job'[d].op \in {"delete", "delete2"} =>
                           \E off \in Toggles : job'[d].rules = DeleteRules(off)
                    /\ d \in fresh' /\ job'[d].op \in WalkOps => ClosedWalk(job[d])'
                    /\ d \in fresh' /\ job'[d].op \in {"delete2", "export2"} => HalfWalk(job[d])'
    BY DEF WalkInv
<1>1. CASE job'[d].op \in {"idle", "link"}
    BY <1>1 DEF WalkOps
<1>2. CASE job'[d] = job[d]
    <2>1. job'[d].op \in {"delete", "delete2"} => \E off \in Toggles : job'[d].rules = DeleteRules(off)
        BY <1>2 DEF WalkInv
    <2>2. CASE fresh' = {}
        BY <2>1, <2>2
    <2>3. CASE links' = links /\ fresh' = fresh
        BY <1>2, <2>1, <2>3 DEF WalkInv, ClosedWalk, HalfWalk
    <2> QED
        BY <2>1, <2>2, <2>3
<1> QED
    BY <1>1, <1>2

(* The steps of a walk. *)
LEMMA WalkForwardKept ==
    ASSUME DInv, NEW c \in Clients, WalkForward(c)
    PROVE  WalkInv'
<1>1. job \in [Clients -> Jobs] /\ job[c] \in Jobs
    BY DEF DInv, IInv, TypeOK
<1>2. /\ job[c].op \in {"delete", "export"}
      /\ links' = links /\ fresh' = fresh
      /\ job' = [job EXCEPT ![c] = job'[c]]
      /\ job'[c].op = IF job[c].op = "delete" THEN "delete2" ELSE "export2"
      /\ job'[c].rules = job[c].rules /\ job'[c].walk = job[c].walk /\ job'[c].acc = job[c].acc
      /\ job'[c].found = {l.tgt : l \in {k \in links : k.type \in job[c].rules.forward /\ k.src \in job[c].walk}}
    BY <1>1 DEF WalkForward, Walking, Jobs
<1>3. ClosedWalk(job[c])' <=> ClosedWalk(job[c])
    BY <1>2 DEF ClosedWalk
<1>4. HalfWalk(job[c])'
    BY <1>2 DEF HalfWalk
<1>5. job[c].op \in WalkOps
    BY <1>2 DEF WalkOps
<1>6. \A d \in Clients : d # c => job'[d] = job[d]
    BY <1>1, <1>2
<1> SUFFICES ASSUME NEW d \in Clients
             PROVE  /\ job'[d].op \in {"delete", "delete2"} =>
                           \E off \in Toggles : job'[d].rules = DeleteRules(off)
                    /\ d \in fresh' /\ job'[d].op \in WalkOps => ClosedWalk(job[d])'
                    /\ d \in fresh' /\ job'[d].op \in {"delete2", "export2"} => HalfWalk(job[d])'
    BY DEF WalkInv
<1>7. CASE d = c
    <2>1. job'[c].op \in {"delete", "delete2"} => \E off \in Toggles : job'[c].rules = DeleteRules(off)
        BY <1>2 DEF DInv, WalkInv
    <2>2. c \in fresh => ClosedWalk(job[c])
        BY <1>5 DEF DInv, WalkInv
    <2> QED
        BY <1>2, <1>3, <1>4, <1>7, <2>1, <2>2
<1>8. CASE d # c
    <2>1. job'[d] = job[d]
        BY <1>6, <1>8
    <2> QED
        BY <1>2, <2>1 DEF DInv, WalkInv, ClosedWalk, HalfWalk
<1> QED
    BY <1>7, <1>8

LEMMA WalkBackwardKept ==
    ASSUME DInv, NEW c \in Clients, WalkBackward(c)
    PROVE  WalkInv'
<1>1. job \in [Clients -> Jobs] /\ job[c] \in Jobs
    BY DEF DInv, IInv, TypeOK
<1>2. PICK new : new = job[c].walk \cup job[c].found
                         \cup {l.src : l \in {k \in links : k.type \in job[c].rules.backward /\ k.tgt \in job[c].walk}}
    OBVIOUS
<1>3. /\ job[c].op \in {"delete2", "export2"}
      /\ links' = links /\ fresh' = fresh
      /\ job' = [job EXCEPT ![c] = job'[c]]
      /\ job'[c].op = IF job[c].op = "delete2" THEN "delete" ELSE "export"
      /\ job'[c].rules = job[c].rules /\ job'[c].walk = new \ job[c].acc /\ job'[c].acc = job[c].acc \cup new
    BY <1>1, <1>2 DEF WalkBackward, Jobs
<1>4. job[c].op \in WalkOps
    BY <1>3 DEF WalkOps
<1>5. c \in fresh => ClosedWalk(job[c])'
    <2> SUFFICES ASSUME c \in fresh, NEW l \in links
                 PROVE  /\ l.type \in job[c].rules.forward /\ l.src \in job[c].acc => l.tgt \in job[c].acc \cup new
                        /\ l.type \in job[c].rules.backward /\ l.tgt \in job[c].acc => l.src \in job[c].acc \cup new
        BY <1>3 DEF ClosedWalk
    <2>1. ClosedWalk(job[c]) /\ HalfWalk(job[c])
        BY <1>3, <1>4 DEF DInv, WalkInv
    <2>2. ASSUME l.type \in job[c].rules.forward, l.src \in job[c].acc PROVE l.tgt \in job[c].acc \cup new
        BY <1>2, <2>1, <2>2 DEF ClosedWalk, HalfWalk
    <2>3. ASSUME l.type \in job[c].rules.backward, l.tgt \in job[c].acc PROVE l.src \in job[c].acc \cup new
        BY <1>2, <2>1, <2>3 DEF ClosedWalk
    <2> QED
        BY <2>2, <2>3
<1>6. \A d \in Clients : d # c => job'[d] = job[d]
    BY <1>1, <1>3
<1> SUFFICES ASSUME NEW d \in Clients
             PROVE  /\ job'[d].op \in {"delete", "delete2"} =>
                           \E off \in Toggles : job'[d].rules = DeleteRules(off)
                    /\ d \in fresh' /\ job'[d].op \in WalkOps => ClosedWalk(job[d])'
                    /\ d \in fresh' /\ job'[d].op \in {"delete2", "export2"} => HalfWalk(job[d])'
    BY DEF WalkInv
<1>7. CASE d = c
    <2>1. job'[c].op \in {"delete", "delete2"} => \E off \in Toggles : job'[c].rules = DeleteRules(off)
        BY <1>3 DEF DInv, WalkInv
    <2> QED
        BY <1>3, <1>5, <1>7, <2>1
<1>8. CASE d # c
    <2>1. job'[d] = job[d]
        BY <1>6, <1>8
    <2> QED
        BY <1>3, <2>1 DEF DInv, WalkInv, ClosedWalk, HalfWalk
<1> QED
    BY <1>7, <1>8

LEMMA StartDeleteKept ==
    ASSUME DInv, NEW c \in Clients, NEW n \in Nodes, NEW off \in Toggles, StartDelete(c, n, off)
    PROVE  WalkInv'
<1>1. job \in [Clients -> Jobs]
    BY DEF DInv, IInv, TypeOK
<1>2. /\ links' = links /\ fresh' = fresh \cup {c}
      /\ job' = [job EXCEPT ![c] = [Idle EXCEPT !.op = "delete", !.rules = DeleteRules(off),
                                                !.walk = {n}, !.acc = {n}]]
    BY DEF StartDelete, StartWalk
<1>3. job'[c].op = "delete" /\ job'[c].rules = DeleteRules(off) /\ job'[c].walk = job'[c].acc
    BY <1>1, <1>2, IdleJob DEF Jobs
<1>4. ClosedWalk(job[c])'
    BY <1>3 DEF ClosedWalk
<1>5. \A d \in Clients : d # c => job'[d] = job[d]
    BY <1>1, <1>2
<1> SUFFICES ASSUME NEW d \in Clients
             PROVE  /\ job'[d].op \in {"delete", "delete2"} =>
                           \E o \in Toggles : job'[d].rules = DeleteRules(o)
                    /\ d \in fresh' /\ job'[d].op \in WalkOps => ClosedWalk(job[d])'
                    /\ d \in fresh' /\ job'[d].op \in {"delete2", "export2"} => HalfWalk(job[d])'
    BY DEF WalkInv
<1>6. CASE d = c
    BY <1>3, <1>4, <1>6
<1>7. CASE d # c
    <2>1. job'[d] = job[d] /\ (d \in fresh' => d \in fresh)
        BY <1>2, <1>5, <1>7
    <2> QED
        BY <1>2, <2>1 DEF DInv, WalkInv, ClosedWalk, HalfWalk
<1> QED
    BY <1>6, <1>7

(* Every step keeps the invariant. *)
LEMMA WalksInductive == DInv /\ [Next]_vars => DInv'
<1> SUFFICES ASSUME DInv, [Next]_vars PROVE DInv'
    OBVIOUS
<1>1. IInv'
    BY Inductive DEF DInv
<1>2. job \in [Clients -> Jobs] /\ WalkInv
    BY DEF DInv, IInv, TypeOK
<1>3. CASE \E n \in Nodes : store(n) \/ seal(n)
    <2>1. job' = job /\ ((links' = links /\ fresh' = fresh) \/ fresh' = {})
        BY <1>3 DEF store, seal, Committed
    <2> QED
        BY <1>1, <1>2, <2>1, WalkKept DEF DInv
<1>4. CASE \E c \in Clients, l \in Requests : add_incoming(c, l)
    <2>1. PICK c \in Clients, l \in Requests : add_incoming(c, l)
        BY <1>4
    <2>2. links' = links /\ fresh' = fresh
        BY <2>1 DEF add_incoming
    <2>3. job' = job \/ job' = [job EXCEPT ![c] = [Idle EXCEPT !.op = "link", !.link = {l}]]
        BY <2>1 DEF add_incoming
    <2>4. [Idle EXCEPT !.op = "link", !.link = {l}].op = "link"
        BY IdleJob DEF Jobs
    <2>5. \A d \in Clients : job'[d] = job[d] \/ job'[d].op \in {"idle", "link"}
        BY <1>2, <2>3, <2>4
    <2> QED
        BY <1>1, <1>2, <2>2, <2>5, WalkKept DEF DInv
<1>5. CASE \E c \in Clients : InsertLink(c) \/ Crash(c) \/ delete_nodes(c) \/ DeclineDelete(c)
    <2>1. PICK c \in Clients : InsertLink(c) \/ Crash(c) \/ delete_nodes(c) \/ DeclineDelete(c)
        BY <1>5
    <2>2. job' = [job EXCEPT ![c] = Idle] /\ ((links' = links /\ fresh' = fresh) \/ fresh' = {})
        BY <2>1 DEF InsertLink, Crash, delete_nodes, DeclineDelete, Committed
    <2>3. Idle.op = "idle"
        BY DEF Idle
    <2>4. \A d \in Clients : job'[d] = job[d] \/ job'[d].op \in {"idle", "link"}
        BY <1>2, <2>2, <2>3
    <2> QED
        BY <1>1, <1>2, <2>2, <2>4, WalkKept DEF DInv
<1>6. CASE \E c \in Clients : WalkForward(c) \/ WalkBackward(c)
    BY <1>1, <1>6, WalkForwardKept, WalkBackwardKept DEF DInv
<1>7. CASE \E c \in Clients : \E n \in Nodes, off \in Toggles : StartDelete(c, n, off)
    BY <1>1, <1>7, StartDeleteKept DEF DInv
<1>8. CASE UNCHANGED vars
    <2>1. links' = links /\ fresh' = fresh /\ job' = job
        BY <1>8 DEF vars
    <2> QED
        BY <1>1, <1>2, <2>1, WalkKept DEF DInv
<1> QED
    BY <1>3, <1>4, <1>5, <1>6, <1>7, <1>8 DEF Next

(* A deletion leaves consistent provenance behind: every rule of            *)
(* GraphTraversalRules.DELETE is honoured for every link that goes, when    *)
(* nothing was committed during the walk of get_nodes_delete.               *)
THEOREM DeletionIsConsistent == Spec => DeletionConsistent
<1>1. Init => DInv
    <2> SUFFICES ASSUME Init PROVE DInv
        OBVIOUS
    <2>1. IInv
        <3>1. \A d \in Clients : cache[d] = {} /\ job[d].link = {}
            BY IdleJob DEF Init
        <3>2. Accepted = EarlyLinks
            BY <3>1 DEF Accepted, Pending, Init
        <3> QED
            BY <3>2, TypeInit, LinksAssumption DEF IInv
    <2>2. \A d \in Clients : job[d].op = "idle"
        BY DEF Init, Idle
    <2>3. WalkInv
        BY <2>2 DEF WalkInv, WalkOps
    <2> QED
        BY <2>1, <2>3 DEF DInv
<1>2. DInv /\ [Next]_vars =>
        [\A c \in Clients :
            (c \in fresh /\ job[c].op = "delete" /\ job[c].walk = {} /\ job'[c].op = "idle") =>
                \A l \in links \ links' : MayLose(l, job[c].rules, stored')]_vars
    <2> SUFFICES ASSUME DInv, Next, NEW c \in Clients,
                        c \in fresh, job[c].op = "delete", job[c].walk = {}, job'[c].op = "idle",
                        NEW l \in links \ links'
                 PROVE  MayLose(l, job[c].rules, stored')
        BY DEF vars
    <2>1. job \in [Clients -> Jobs] /\ links \in SUBSET Links
        BY DEF DInv, IInv, TypeOK
    <2>2. PICK d \in Clients : delete_nodes(d)
        BY DEF Next, store, seal, add_incoming, InsertLink, Crash, WalkForward, WalkBackward,
               StartDelete, delete_nodes, DeclineDelete
    <2>3. d = c
        BY <2>1, <2>2 DEF delete_nodes
    <2>4. stored' = stored \ job[c].acc /\ (l.src \in job[c].acc \/ l.tgt \in job[c].acc)
        BY <2>2, <2>3 DEF delete_nodes
    <2>5. ClosedWalk(job[c]) /\ \E off \in Toggles : job[c].rules = DeleteRules(off)
        BY DEF DInv, WalkInv, WalkOps
    <2>6. l.type \in LinkTypes
        BY <2>1, LinksAssumption DEF Links
    <2>7. /\ l.type \in job[c].rules.forward /\ l.src \in job[c].acc => l.tgt \in job[c].acc
          /\ l.type \in job[c].rules.backward /\ l.tgt \in job[c].acc => l.src \in job[c].acc
        BY <2>5 DEF ClosedWalk
    <2>8. CASE l.type \in {"INPUT_CALC", "INPUT_WORK"}
        <3>1. l.type \in job[c].rules.forward
            BY <2>5, <2>8, TogglesAssumption DEF DeleteRules
        <3> QED
            BY <2>4, <2>7, <2>8, <3>1 DEF MayLose
    <2>9. CASE l.type \notin {"INPUT_CALC", "INPUT_WORK"}
        <3>1. l.type \in job[c].rules.backward
            BY <2>5, <2>6, <2>9 DEF DeleteRules, LinkTypes
        <3> QED
            BY <2>4, <2>7, <2>9, <3>1 DEF MayLose
    <2> QED
        BY <2>8, <2>9
<1> QED
    BY <1>1, <1>2, WalksInductive, PTL DEF Spec, DeletionConsistent

=============================================================================
