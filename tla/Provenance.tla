------------------------------ MODULE Provenance ------------------------------
(***************************************************************************)
(* The provenance graph: nodes that clients (interpreters and daemon       *)
(* workers) build in memory, the links they add between them, the storing  *)
(* and sealing of nodes, and the deletion of nodes with what depends on    *)
(* them.                                                                   *)
(*                                                                         *)
(* A link between two stored nodes is validated against the database and   *)
(* then inserted; between validation and insertion other clients commit.   *)
(* A link of which one end is not stored waits in the incoming_cache of    *)
(* the target's instance, where only that instance sees it, and is written *)
(* together with the row of the target.  The database itself enforces      *)
(* nothing but the existence of both ends.                                 *)
(*                                                                         *)
(* delete_nodes first walks the graph, one query per direction and         *)
(* iteration, and then removes what it found in one transaction.           *)
(***************************************************************************)
EXTENDS Naturals, FiniteSets

CONSTANTS
    Nodes,        \* every node clients build
    Early,        \* the nodes that are stored at the start,
    EarlyLinks,   \* and the links between them
    Kind,         \* Kind[n] is "data", "calc" or "work"
    Functions,    \* the calculations that are calcfunctions
    Like,         \* Like[x] is the set of link labels the SQL pattern x matches
    Clients,
    Home,         \* Home[n] is the client that builds n
    Requests,     \* the links clients ask for
    Toggles,      \* the sets of rules a deletion may switch off
    Walkers,      \* the clients that delete and export
    Roots,        \* the nodes they start from
    MaxDeletes,   \* bound on the number of deletions
    MaxCrashes    \* bound on the number of clients that die

(* A pattern without wildcards matches itself, one with wildcards too. *)
ASSUME LikeReflexive == \A r \in Requests : r.label \in Like[r.label]

(* Only these rules of a deletion can be toggled. *)
ASSUME TogglesAssumption == \A off \in Toggles : off \subseteq {"CREATE", "CALL_CALC", "CALL_WORK"}

ASSUME HomeAssumption == \A n \in Nodes : Home[n] \in Clients

VARIABLES
    unstored,   \* the nodes that exist in the memory of their Home only
    stored,     \* the nodes with a row in the database
    sealed,     \* the stored processes with the attribute `sealed`
    links,      \* the rows of db_dblink
    cache,      \* cache[c] is the union of the incoming_caches in client c
    job,        \* job[c] is what client c is in the middle of
    fresh,      \* the clients during whose walk nothing was committed
    clash,      \* a link was accepted that clashed with an unseen one
    deletes, crashes

vars == <<unstored, stored, sealed, links, cache, job, fresh, clash, deletes, crashes>>

-----------------------------------------------------------------------------
(* The rules of links. *)

link_mapping ==
    [CALL_CALC  |-> [source |-> "work", target |-> "calc", out |-> "triple", in |-> "unique"],
     CALL_WORK  |-> [source |-> "work", target |-> "work", out |-> "triple", in |-> "unique"],
     CREATE     |-> [source |-> "calc", target |-> "data", out |-> "pair", in |-> "unique"],
     INPUT_CALC |-> [source |-> "data", target |-> "calc", out |-> "triple", in |-> "pair"],
     INPUT_WORK |-> [source |-> "data", target |-> "work", out |-> "triple", in |-> "pair"],
     RETURN     |-> [source |-> "work", target |-> "data", out |-> "pair", in |-> "triple"]]

LinkTypes == {"CALL_CALC", "CALL_WORK", "CREATE", "INPUT_CALC", "INPUT_WORK", "RETURN"}

KindsAllowed(l) ==
    /\ l.src # l.tgt
    /\ Kind[l.src] = link_mapping[l.type].source
    /\ Kind[l.tgt] = link_mapping[l.type].target

(* Link m takes the place of link l, when `like` are the labels that count *)
(* as equal to that of l.                                                  *)
OutTaken(like, m, l) ==
    /\ m.type = l.type
    /\ m.src = l.src
    /\ CASE link_mapping[l.type].out = "pair" -> m.label \in like
         [] OTHER -> m.tgt = l.tgt /\ m.label = l.label

InTaken(like, m, l) ==
    /\ m.type = l.type
    /\ m.tgt = l.tgt
    /\ CASE link_mapping[l.type].in = "unique" -> TRUE
         [] link_mapping[l.type].in = "pair" -> m.label \in like
         [] OTHER -> m.src = l.src /\ m.label = l.label

(* The recursive queries for ancestors and descendants follow these links. *)
Ancestry(L) == {l \in L : l.type \in {"CREATE", "INPUT_CALC"}}

Closed(L, S) == \A l \in L : l.src \in S => l.tgt \in S

(* b is a or a descendant of a. *)
Reaches(L, a, b) == \A S \in SUBSET Nodes : a \in S /\ Closed(L, S) => b \in S

MakesCycle(L, l) ==
    /\ l.type \in {"CREATE", "INPUT_CALC", "INPUT_WORK"}
    /\ Reaches(Ancestry(L), l.tgt, l.src)

IsProcess(n) == Kind[n] # "data"

(* Mutant: the cached links of the target are forgotten. *)
validate_link_stored(seen, cached, l) ==
    /\ KindsAllowed(l)
    /\ \A m \in seen : ~OutTaken(Like[l.label], m, l)
    /\ link_mapping[l.type].out = "triple" => l \notin cached
    /\ \A m \in seen : ~InTaken(Like[l.label], m, l)

(* get_outgoing reads stored links only, get_incoming those of the cache   *)
(* too; both filter labels with the SQL operator `like`.                   *)
validate_link(seen, cached, l) ==
    /\ KindsAllowed(l)
    /\ \A m \in seen : ~OutTaken(Like[l.label], m, l)
    /\ link_mapping[l.type].out = "triple" => l \notin cached
    /\ \A m \in seen \cup cached : ~InTaken(Like[l.label], m, l)

validate_incoming(c, l) ==
    /\ IsProcess(l.tgt) => l.tgt \notin sealed /\ l.tgt \notin stored
    /\ validate_link(links, cache[c], l)
    /\ ~MakesCycle(links, l)

(* A workflow creates no data, it returns what is stored already; a        *)
(* calcfunction does not return its input as if it had created it.         *)
ReturnsStored(l) == l.type = "RETURN" => l.tgt \in stored
CreatesNew(l) == l.type = "CREATE" /\ l.src \in Functions => l.tgt \notin stored

validate_outgoing(l) == l.src \notin sealed /\ ReturnsStored(l) /\ CreatesNew(l)

-----------------------------------------------------------------------------
(* What the graph has to satisfy. *)

Degrees(L) ==
    \A l, m \in L : l # m => ~OutTaken({l.label}, m, l) /\ ~InTaken({l.label}, m, l)

Acyclic(L) == \A l \in Ancestry(L) : ~Reaches(Ancestry(L), l.tgt, l.src)

Sound(L) == Degrees(L) /\ Acyclic(L)

(* Adding l to L keeps it sound. *)
Admissible(L, l) ==
    /\ l.src # l.tgt
    /\ \A m \in L : ~OutTaken({l.label}, m, l) /\ ~InTaken({l.label}, m, l)
    /\ ~MakesCycle(L, l)

(* The links name nodes and link types, and the graph starts out sound. *)
ASSUME LinksAssumption ==
    /\ \A l \in Requests \cup EarlyLinks :
           l.src \in Nodes /\ l.tgt \in Nodes /\ l.type \in LinkTypes
    /\ Early \subseteq Nodes
    /\ \A l \in EarlyLinks : {l.src, l.tgt} \subseteq Early
    /\ Sound(EarlyLinks)

(* Link l clashes with nothing its validation in client c can see. *)
SeenSound(c, l) ==
    /\ Admissible(links, l)
    /\ \A m \in cache[c] : ~InTaken({l.label}, m, l)

(* The links that were accepted and are not in the database yet.           *)
Pending == {l \in Requests : \E c \in Clients : l \in cache[c] \/ l \in job[c].link}

-----------------------------------------------------------------------------
(* What a client is doing: adding a link (link holds it), or walking the   *)
(* graph: from the nodes walk along the link types of rules, having visited *)
(* acc over the links edges.                                               *)
Idle == [op |-> "idle", link |-> {}, rules |-> [forward |-> {}, backward |-> {}],
         walk |-> {}, found |-> {}, acc |-> {}, edges |-> {}]

Init ==
    /\ unstored = Nodes \ Early /\ stored = Early
    /\ sealed = {} /\ links = EarlyLinks
    /\ cache = [c \in Clients |-> {}]
    /\ job = [c \in Clients |-> Idle]
    /\ fresh = {} /\ clash = FALSE
    /\ deletes = 0 /\ crashes = 0

Sees(c, n) == n \in stored \/ (n \in unstored /\ Home[n] = c)

(* The database changed: no walk in progress is fresh any more. *)
Committed == fresh' = {}

(* NodeLinks.add_incoming: validated here; the insertion of a link between *)
(* two stored nodes is a step of its own.                                  *)
add_incoming(c, l) ==
    /\ job[c].op = "idle"
    /\ Sees(c, l.src) /\ Sees(c, l.tgt)
    /\ validate_incoming(c, l)
    /\ validate_outgoing(l)
    /\ clash' = (clash \/ (SeenSound(c, l) /\ ~Admissible(links \cup Pending, l)))
    /\ IF {l.src, l.tgt} \subseteq stored
       THEN /\ job' = [job EXCEPT ![c] = [Idle EXCEPT !.op = "link", !.link = {l}]]
            /\ UNCHANGED cache
       ELSE /\ cache' = [cache EXCEPT ![c] = @ \cup {l}]
            /\ UNCHANGED job
    /\ UNCHANGED <<unstored, stored, sealed, links, fresh, deletes, crashes>>

(* SqlaNode.add_incoming: a foreign key fails when an end was deleted. *)
InsertLink(c) ==
    /\ job[c].op = "link"
    /\ links' = links \cup {l \in job[c].link : {l.src, l.tgt} \subseteq stored}
    /\ job' = [job EXCEPT ![c] = Idle]
    /\ Committed
    /\ UNCHANGED <<unstored, stored, sealed, cache, clash, deletes, crashes>>

Incoming(c, n) == {l \in cache[c] : l.tgt = n}

(* Node.store: all sources must be stored; the row and the cached links are *)
(* committed together.                                                     *)
store(n) ==
    LET c == Home[n] IN
    /\ job[c].op = "idle"
    /\ n \in unstored
    /\ \A l \in Incoming(c, n) : l.src \in stored
    /\ stored' = stored \cup {n}
    /\ unstored' = unstored \ {n}
    /\ links' = links \cup Incoming(c, n)
    /\ cache' = [cache EXCEPT ![c] = @ \ Incoming(c, n)]
    /\ Committed
    /\ UNCHANGED <<sealed, job, clash, deletes, crashes>>

seal(n) ==
    /\ n \in stored \ sealed
    /\ IsProcess(n)
    /\ sealed' = sealed \cup {n}
    /\ UNCHANGED <<unstored, stored, links, cache, job, fresh, clash, deletes, crashes>>

(* The process of a client dies: what it had only in memory is lost. *)
Crash(c) ==
    /\ crashes < MaxCrashes
    /\ cache[c] # {} \/ job[c] # Idle
    /\ crashes' = crashes + 1
    /\ unstored' = {n \in unstored : Home[n] # c}
    /\ cache' = [cache EXCEPT ![c] = {}]
    /\ job' = [job EXCEPT ![c] = Idle]
    /\ UNCHANGED <<stored, sealed, links, fresh, clash, deletes>>

-----------------------------------------------------------------------------
(* Walking the graph: traverse_graph runs a RuleSequence until an iteration *)
(* finds no new node.                                                      *)

StartWalk(c, op, start, rules) ==
    /\ job[c].op = "idle"
    /\ job' = [job EXCEPT ![c] = [Idle EXCEPT !.op = op, !.rules = rules,
                                              !.walk = start, !.acc = start]]
    /\ fresh' = fresh \cup {c}

Walking(c) == job[c].op \in {"delete", "export"} /\ job[c].walk # {}

(* The first UpdateRule of an iteration: the query along outgoing links. *)
WalkForward(c) ==
    LET j == job[c]
        out == {l \in links : l.type \in j.rules.forward /\ l.src \in j.walk}
    IN  /\ Walking(c)
        /\ job' = [job EXCEPT ![c] =
                      [j EXCEPT !.op = IF j.op = "delete" THEN "delete2" ELSE "export2",
                                !.found = {l.tgt : l \in out},
                                !.edges = j.edges \cup out]]
        /\ UNCHANGED <<unstored, stored, sealed, links, cache, fresh, clash, deletes, crashes>>

(* RuleSetWalkers puts the walkers back where the iteration began; the     *)
(* second UpdateRule queries the incoming links; the next iteration starts *)
(* from the nodes that were not visited before.                            *)
WalkBackward(c) ==
    LET j == job[c]
        in == {l \in links : l.type \in j.rules.backward /\ l.tgt \in j.walk}
        new == j.walk \cup j.found \cup {l.src : l \in in}
    IN  /\ j.op \in {"delete2", "export2"}
        /\ job' = [job EXCEPT ![c] =
                      [j EXCEPT !.op = IF j.op = "delete2" THEN "delete" ELSE "export",
                                !.walk = new \ j.acc,
                                !.found = {},
                                !.acc = j.acc \cup new,
                                !.edges = j.edges \cup in]]
        /\ UNCHANGED <<unstored, stored, sealed, links, cache, fresh, clash, deletes, crashes>>

(* Mutant: the callers of what goes are kept. *)
DeleteRules_no_callers(off) ==
    [forward  |-> {"INPUT_CALC", "INPUT_WORK", "CREATE", "CALL_CALC", "CALL_WORK"} \ off,
     backward |-> {"CREATE", "RETURN"}]

(* GraphTraversalRules.DELETE; the rules of `off` are switched off. *)
DeleteRules(off) ==
    [forward  |-> {"INPUT_CALC", "INPUT_WORK", "CREATE", "CALL_CALC", "CALL_WORK"} \ off,
     backward |-> {"CREATE", "RETURN", "CALL_CALC", "CALL_WORK"}]

StartDelete(c, n, off) ==
    /\ c \in Walkers
    /\ deletes < MaxDeletes
    /\ n \in stored \cap Roots
    /\ deletes' = deletes + 1
    /\ StartWalk(c, "delete", {n}, DeleteRules(off))
    /\ UNCHANGED <<unstored, stored, sealed, links, cache, clash, crashes>>

(* delete_nodes_and_connections, in a transaction. *)
delete_nodes(c) ==
    LET gone == job[c].acc IN
    /\ job[c].op = "delete" /\ job[c].walk = {}
    /\ stored' = stored \ gone
    /\ sealed' = sealed \ gone
    /\ links' = {l \in links : l.src \notin gone /\ l.tgt \notin gone}
    /\ job' = [job EXCEPT ![c] = Idle]
    /\ Committed
    /\ UNCHANGED <<unstored, cache, clash, deletes, crashes>>

(* A dry run, or a deletion the user does not confirm, stops here. *)
DeclineDelete(c) ==
    /\ job[c].op = "delete" /\ job[c].walk = {}
    /\ job' = [job EXCEPT ![c] = Idle]
    /\ UNCHANGED <<unstored, stored, sealed, links, cache, fresh, clash, deletes, crashes>>

Next ==
    \/ \E n \in Nodes : store(n) \/ seal(n)
    \/ \E c \in Clients :
        \/ \E l \in Requests : add_incoming(c, l)
        \/ InsertLink(c)
        \/ Crash(c)
        \/ WalkForward(c)
        \/ WalkBackward(c)
        \/ \E n \in Nodes, off \in Toggles : StartDelete(c, n, off)
        \/ delete_nodes(c)
        \/ DeclineDelete(c)

Spec == Init /\ [][Next]_vars

-----------------------------------------------------------------------------
(* Properties. *)

(* The uniqueness rules of link_mapping hold in the database and following *)
(* INPUT_CALC and CREATE links never leads back, unless a link was accepted *)
(* that clashed only with links its validation cannot see: those that wait  *)
(* in another client, or, for the outgoing side and for cycles, in a cache. *)
(* The checks of validate_link and validate_incoming miss nothing else,     *)
(* however storing, sealing, deleting and dying clients interleave.         *)
GraphSound == ~clash => Sound(links)

(* delete_nodes keeps the provenance of what is left consistent, when      *)
(* nothing is committed during its walk: a process loses an input only if  *)
(* it goes too; data loses its creator, and a called process its caller,   *)
(* only if that process goes; and the outputs of a calculation go with it  *)
(* unless create_forward was switched off.                                 *)
MayLose(l, rules, left) ==
    IF l.type \in {"INPUT_CALC", "INPUT_WORK"} THEN l.tgt \notin left
    ELSE /\ l.src \notin left
         /\ l.type \in rules.forward => l.tgt \notin left

DeletionConsistent ==
    [][\A c \in Clients :
        (c \in fresh /\ job[c].op = "delete" /\ job[c].walk = {} /\ job'[c].op = "idle") =>
            \A l \in links \ links' : MayLose(l, job[c].rules, stored')]_vars

=============================================================================
