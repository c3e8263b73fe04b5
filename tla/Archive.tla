------------------------------- MODULE Archive -------------------------------
(***************************************************************************)
(* Archives: a client exports a part of the provenance graph to a file     *)
(* (create_archive) and a client, of the same or of another profile that   *)
(* shares nodes with it, imports it (import_archive), while the other      *)
(* clients of Provenance build, store, link and delete nodes.              *)
(***************************************************************************)
EXTENDS Provenance

CONSTANTS
    ExportToggles,   \* the rules an export may switch on (on) and off (off)
    MaxImports       \* bound on the number of imports

VARIABLES
    archive,    \* the archive file; before it is written an empty one
    snap,       \* snap[c] is what an import of c read: nodes and links
    imports

avars == <<unstored, stored, sealed, links, cache, job, fresh, clash, deletes, crashes,
           archive, snap, imports>>

NoArchive == [nodes |-> {}, links |-> {}, origin |-> {}, whole |-> FALSE]
NoSnap == [nodes |-> {}, links |-> {}]

AInit ==
    /\ Init
    /\ archive = NoArchive
    /\ snap = [c \in Clients |-> NoSnap]
    /\ imports = 0

-----------------------------------------------------------------------------
(* create_archive *)

(* GraphTraversalRules.EXPORT with the toggleable rules of t. *)
ExportRules(t) ==
    [forward  |-> {"CREATE", "RETURN", "CALL_CALC", "CALL_WORK"}
                      \cup (t.on \cap {"INPUT_CALC", "INPUT_WORK"}),
     backward |-> ({"INPUT_CALC", "INPUT_WORK", "CREATE", "CALL_CALC", "CALL_WORK"}
                      \ (t.off \cap {"CREATE", "CALL_CALC", "CALL_WORK"}))
                      \cup (t.on \cap {"RETURN"})]

StartExport(c, n, t) ==
    /\ c \in Walkers
    /\ archive = NoArchive
    /\ n \in stored \cap Roots
    /\ StartWalk(c, "export", {n}, ExportRules(t))
    /\ UNCHANGED <<unstored, stored, sealed, links, cache, clash, deletes, crashes>>
    /\ UNCHANGED <<archive, snap, imports>>

(* _check_unsealed_nodes, then the rows of the nodes that still exist and   *)
(* the links that were walked are written.  A link of which an end was     *)
(* deleted meanwhile is never read again, since links are read by joining  *)
(* them with their ends.                                                   *)
WriteArchive(c) ==
    LET kept == job[c].acc \cap stored IN
    /\ job[c].op = "export" /\ job[c].walk = {}
    /\ archive' = IF {n \in kept : IsProcess(n)} \subseteq sealed /\ archive = NoArchive
                  THEN [nodes |-> kept,
                        links |-> {l \in job[c].edges : l.src \in kept /\ l.tgt \in kept},
                        origin |-> links,
                        whole |-> c \in fresh]
                  ELSE archive
    /\ job' = [job EXCEPT ![c] = Idle]
    /\ UNCHANGED <<unstored, stored, sealed, links, cache, fresh, clash, deletes, crashes>>
    /\ UNCHANGED <<snap, imports>>

(* A test run returns before the archive is created. *)
TestExport(c) ==
    /\ job[c].op = "export" /\ job[c].walk = {}
    /\ job' = [job EXCEPT ![c] = Idle]
    /\ UNCHANGED <<unstored, stored, sealed, links, cache, fresh, clash, deletes, crashes>>
    /\ UNCHANGED <<archive, snap, imports>>

-----------------------------------------------------------------------------
(* import_archive *)

(* link_type_uniqueness: what the import looks up before it adds a link.   *)
(* The rule `out_id`, of CREATE and CALL links, is looked up in the set of *)
(* the pairs (out_id, label), where no id is ever found.                   *)
import_uniqueness ==
    [CALL_CALC |-> {}, CALL_WORK |-> {}, CREATE |-> {"in_id_label"}, RETURN |-> {"in_id_label"},
     INPUT_CALC |-> {"out_id_label"}, INPUT_WORK |-> {"out_id_label"}]

ImportTaken(m, l) ==
    /\ m.type = l.type
    /\ m.label = l.label
    /\ \/ "in_id_label" \in import_uniqueness[l.type] /\ m.src = l.src
       \/ "out_id_label" \in import_uniqueness[l.type] /\ m.tgt = l.tgt

(* Mutant: links are added only between nodes that are new themselves. *)
NewLinks_inner(s) == {l \in archive.links \ s.links : {l.src, l.tgt} \cap s.nodes = {}}

(* The links the import adds, and whether one of them is refused. *)
NewLinks(s) == archive.links \ s.links
Refused(s) == \E l \in NewLinks(s) : \E m \in (s.links \cup archive.links) \ {l} : ImportTaken(m, l)

(* The queries for existing nodes and links, inside the transaction. *)
ReadExisting(c) ==
    /\ job[c].op = "idle"
    /\ archive # NoArchive
    /\ imports < MaxImports
    /\ imports' = imports + 1
    /\ snap' = [snap EXCEPT ![c] = [nodes |-> stored \cap archive.nodes, links |-> links]]
    /\ job' = [job EXCEPT ![c] = [Idle EXCEPT !.op = "import"]]
    /\ UNCHANGED <<unstored, stored, sealed, links, cache, fresh, clash, deletes, crashes>>
    /\ UNCHANGED archive

(* The rows are inserted and committed.  The transaction is rolled back    *)
(* when a link is refused, when a node it takes for new exists by now (its *)
(* UUID is unique), or when one it takes for existing is gone (a foreign   *)
(* key of the links and of the import group).                              *)
CanCommit(c) ==
    /\ ~Refused(snap[c])
    /\ stored \cap archive.nodes = snap[c].nodes

CommitImport(c) ==
    LET new == archive.nodes \ snap[c].nodes
        add == NewLinks(snap[c])
    IN
    /\ job[c].op = "import"
    /\ CanCommit(c)
    /\ stored' = stored \cup new
    /\ sealed' = sealed \cup {n \in new : IsProcess(n)}
    /\ links' = links \cup add
    /\ clash' = (clash \/ \E l \in add : ~Admissible((links \cup Pending \cup add) \ {l}, l))
    /\ Committed
    /\ job' = [job EXCEPT ![c] = Idle]
    /\ snap' = [snap EXCEPT ![c] = NoSnap]
    /\ UNCHANGED <<unstored, cache, deletes, crashes, archive, imports>>

(* Also when it could be committed: a test run raises ImportTestRun. *)
RollBackImport(c) ==
    /\ job[c].op = "import"
    /\ job' = [job EXCEPT ![c] = Idle]
    /\ snap' = [snap EXCEPT ![c] = NoSnap]
    /\ UNCHANGED <<unstored, stored, sealed, links, cache, fresh, clash, deletes, crashes>>
    /\ UNCHANGED <<archive, imports>>

(* A step of Provenance; an import that is not there any more read nothing. *)
Aside ==
    /\ snap' = [c \in Clients |-> IF job'[c].op = "import" THEN snap[c] ELSE NoSnap]
    /\ UNCHANGED <<archive, imports>>

ANext ==
    \/ \E n \in Nodes : store(n) /\ Aside
    \/ \E n \in Nodes : seal(n) /\ Aside
    \/ \E c \in Clients :
        \/ \E l \in Requests : add_incoming(c, l) /\ Aside
        \/ InsertLink(c) /\ Aside
        \/ Crash(c) /\ Aside
        \/ WalkForward(c) /\ Aside
        \/ WalkBackward(c) /\ Aside
        \/ \E n \in Nodes, off \in Toggles : StartDelete(c, n, off) /\ Aside
        \/ delete_nodes(c) /\ Aside
        \/ DeclineDelete(c) /\ Aside
        \/ \E n \in Nodes, t \in ExportToggles : StartExport(c, n, t)
        \/ WriteArchive(c)
        \/ TestExport(c)
        \/ ReadExisting(c)
        \/ CommitImport(c)
        \/ RollBackImport(c)

ASpec == AInit /\ [][ANext]_avars

-----------------------------------------------------------------------------
(* Properties. *)

(* A process of an archive brings its provenance with it: its inputs, its  *)
(* outputs and the processes it called.                                    *)
Carried(l, nodes) == IF l.type \in {"INPUT_CALC", "INPUT_WORK"} THEN l.tgt \in nodes
                     ELSE l.src \in nodes

(* What was exported comes back: when an import commits, the nodes of the  *)
(* archive are stored, and so is every link the archive's processes had    *)
(* when the archive was written, whatever was deleted since, provided      *)
(* nothing was committed during the walk of the export.                    *)
ImportRestores ==
    [][\A c \in Clients :
        (job[c].op = "import" /\ CommitImport(c)) =>
            /\ archive.nodes \subseteq stored'
            /\ archive.whole =>
                   {l \in archive.origin : Carried(l, archive.nodes)} \subseteq links']_avars

(* Data has at most one creator ("unique: any target node, it can only     *)
(* have a single incoming link of this type", the docstring of             *)
(* validate_link).  An import breaks this: the in-degree of CREATE and     *)
(* CALL links is looked up where it is never found.                        *)
SingleCreator ==
    \A l, m \in links : l.type = "CREATE" /\ m.type = "CREATE" /\ l.tgt = m.tgt => l = m
=============================================================================
