------------------------------- MODULE JobFiles -------------------------------
(***************************************************************************)
(* The files of one calculation job on the remote computer, through the    *)
(* upload, the run of the job, the stash and the retrieval, as execmanager *)
(* moves them with any of the transport plugins. Every call of the         *)
(* transport is a step; it can be cut short by a lost connection or by a   *)
(* crash of the worker, with part of its effect done, and the engine then  *)
(* runs the whole task again. The control of the tasks is module CalcJob.  *)
(*                                                                         *)
(* The content of an uploaded file is the number of the attempt that wrote *)
(* it, so that leftovers of an earlier attempt can be told apart.          *)
(***************************************************************************)
EXTENDS Transports, Integers

CONSTANTS
    Computers,      \* the plugins the computer may have
    InitRemote,     \* what is on the computer at first
    Order,          \* file_copy_operation_order
    Sandbox,        \* the files of the sandbox folder, a set of paths and their kinds
    LocalCopies,    \* local_copy_list: the files of a node, the one that is copied or
                    \* <<>> for all of them, and the target: [name, tree, file, target]
    RemoteCopies,   \* remote_copy_list: [src, dst]
    Symlinks,       \* remote_symlink_list: destinations
    Outputs,        \* the files the job writes
    StashLists,     \* the choices of stash.source_list
    RetrieveList,   \* retrieve_list: [src, local, depth], depth -1 for None
    MaxAttempts     \* TRANSPORT_TASK_MAXIMUM_ATTEMPTS, for all tasks together

Shard == <<"w", "ab">>
Workdir == Append(Shard, "job")
LostFound == <<"w", "lost+found">>
Target == Append(LostFound, "uuid")
StashShard == <<"stash", "ab">>
StashDir == Append(StashShard, "job")

VARIABLES
    plugin,         \* the transport plugin of the computer
    stashList,      \* the source_list of this calculation, once it matters
    remote,         \* the files of the computer
    folder,         \* the folder the files are retrieved into
    phase,          \* "upload", "run", "stash", "retrieve" or "done"
    todo,           \* the calls that are left of the task
    attempt,        \* the number of the attempt
    faults,         \* how many attempts ended with an interrupted call
    mishap          \* whether the stash was "interrupted" or "cleaned" after a failure

vars == <<plugin, stashList, remote, folder, phase, todo, attempt, faults, mishap>>

-----------------------------------------------------------------------------

\* The calls of the transport.
MkdirCall(p, ignore) == [op |-> "mkdir", dst |-> p, flag |-> ignore]
MakedirsCall(p) == [op |-> "makedirs", dst |-> p, flag |-> TRUE]
RmtreeCall(p) == [op |-> "rmtree", dst |-> p]
CopyCall(p, q, on_error) == [op |-> "copy", src |-> p, dst |-> q, on_error |-> on_error]
SymlinkCall(q) == [op |-> "symlink", link |-> 1, dst |-> q]
PutCall(p, q) == [op |-> "put", src |-> p, dst |-> q, flag |-> TRUE, ignore |-> FALSE]
GetCall(p, q) == [op |-> "get", src |-> p, dst |-> q, flag |-> TRUE, ignore |-> TRUE]

Concat(ss) == FoldLeft(LAMBDA s, t : s \o t, <<>>, ss)
Map(Op(_), s) == [i \in DOMAIN s |-> Op(s[i])]
Filled(tree, n) == [p \in DOMAIN tree |-> IF tree[p] = Dir THEN Dir ELSE n]

\* The local side of the upload: the sandbox folder, and a temporary directory with
\* the files of the node for each entry of local_copy_list.
LocalSide ==
    LET tmp(fs, c) == Overlay(fs, <<"tmp", c.name>>, Filled(c.tree, attempt))
    IN  Overlay(FoldLeft(tmp, <<>>, LocalCopies), <<"sandbox">>, Filled(Sandbox, attempt))

CopySandboxFiles ==
    Map(LAMBDA p : PutCall(<<"sandbox">> \o p, Workdir \o p), SetToSeq(Entries(Sandbox, <<>>)))

\* A directory is put with a trailing slash, a file after the directories above it.
CopyLocalFiles ==
    Concat(Map(LAMBDA c :
        IF c.file = <<>> THEN <<PutCall(<<"tmp", c.name, ".">>, Workdir \o c.target)>>
        ELSE <<MakedirsCall(Front(Workdir \o c.target)),
               PutCall(<<"tmp", c.name>> \o c.file, Workdir \o c.target)>>,
        LocalCopies))

CopyRemoteFiles ==
    Map(LAMBDA c : CopyCall(c.src, Workdir \o c.dst, "ignore"), RemoteCopies)
        \o Concat(Map(LAMBDA q : <<MakedirsCall(Front(Workdir \o q)), SymlinkCall(Workdir \o q)>>,
                      Symlinks))

Copies ==
    Concat(Map(LAMBDA o : CASE o = "sandbox" -> CopySandboxFiles
                            [] o = "local" -> CopyLocalFiles
                            [] o = "remote" -> CopyRemoteFiles, Order))

\* Mutants: what is there is copied and not removed; it is removed first; the second
\* move fails on lost+found itself.
MoveToLostFoundKeeping ==
    <<MkdirCall(LostFound, TRUE), CopyCall(Workdir, Target, "raise"), MkdirCall(Workdir, TRUE)>>
MoveToLostFoundSwapped ==
    <<MkdirCall(LostFound, TRUE), RmtreeCall(Workdir), CopyCall(Workdir, Target, "ignore"),
      MkdirCall(Workdir, FALSE)>>
MoveToLostFoundOnce ==
    <<MkdirCall(LostFound, FALSE), CopyCall(Workdir, Target, "raise"), RmtreeCall(Workdir),
      MkdirCall(Workdir, FALSE)>>

\* Move what is there to lost+found and create a clean directory.
MoveToLostFound ==
    <<MkdirCall(LostFound, TRUE), CopyCall(Workdir, Target, "raise"), RmtreeCall(Workdir),
      MkdirCall(Workdir, FALSE)>>

UploadTask == <<MakedirsCall(Shard), [MkdirCall(Workdir, FALSE) EXCEPT !.op = "mkdir_new"]>>

\* Mutant: only the first match of a pattern.
StashCopiesFirst(source) ==
    LET p == Head(Glob(remote, Workdir \o source) \o <<Workdir \o source>>)
        to == StashDir \o Relative(Workdir, p)
    IN  <<MakedirsCall(Front(to)), CopyCall(p, to, "clean")>>

\* One entry of the source list: the directories of each target, then the copy.
StashCopies(source) ==
    LET sources == IF HasMagic(source) THEN Glob(remote, Workdir \o source)
                   ELSE <<Workdir \o source>>
        to(p) == StashDir \o Relative(Workdir, p)
    IN  Concat(Map(LAMBDA p : <<MakedirsCall(Front(to(p))), CopyCall(p, to(p), "clean")>>, sources))

\* The place of a retrieved file in the folder: below item.local, the last parts of
\* its path as depth says, all of them for -1 (None).
LocalName(item, p) ==
    LET rel == Relative(Workdir, p)
        n == IF item.depth = -1 \/ item.depth > Len(rel) THEN Len(rel) ELSE item.depth
    IN  item.local \o SubSeq(rel, Len(rel) - n + 1, Len(rel))

\* Mutant: without a depth only the name of the file is kept.
RetrieveFilesFlat(item) ==
    Map(LAMBDA p : GetCall(p, IF item.depth = -1 THEN Append(item.local, Last(p))
                              ELSE LocalName(item, p)),
        IF HasMagic(item.src) THEN Glob(remote, Workdir \o item.src) ELSE <<Workdir \o item.src>>)

RetrieveFiles(item) ==
    LET names == IF HasMagic(item.src) THEN Glob(remote, Workdir \o item.src)
                 ELSE <<Workdir \o item.src>>
    IN  Map(LAMBDA p : GetCall(p, LocalName(item, p)), names)

\* The directories a retrieve entry makes in the folder before it gets its files.
RetrieveFolders(item) ==
    LET names == {c.dst : c \in Range(RetrieveFiles(item))}
    IN  IF item.depth \in {0, 1} THEN folder
        ELSE FoldLeft(LAMBDA fs, p : Overlay(fs, Front(p), <<>>), folder, SetToSeq(names))

StashTask(list) == Map(LAMBDA s : [op |-> "stash", src |-> s], list)

Task(ph) ==
    CASE ph = "upload" -> UploadTask
      [] ph = "stash" -> StashTask(stashList)
      [] ph = "retrieve" -> Map(LAMBDA i : [op |-> "retrieve", item |-> i], RetrieveList)
      [] OTHER -> <<>>

-----------------------------------------------------------------------------

Init ==
    /\ plugin \in Computers
    /\ stashList = <<>>
    /\ remote = InitRemote
    /\ folder = <<>>
    /\ phase = "upload"
    /\ todo = UploadTask
    /\ attempt = 1
    /\ faults = 0
    /\ mishap = "none"

\* An exception leaves the task: exponential_backoff_retry runs it again from its
\* start, with a new folder for what is retrieved, and pauses the process at last.
Raised ==
    /\ folder' = <<>>
    /\ attempt' = attempt + 1
    /\ IF attempt < MaxAttempts THEN phase' = phase /\ todo' = Task(phase)
       ELSE phase' = "paused" /\ todo' = <<>>

Performed(c) ==
    LET d == IF c.op = "mkdir_new" THEN [c EXCEPT !.op = "mkdir"] ELSE c
    IN  Call(plugin, d, IF phase = "upload" THEN LocalSide ELSE folder, remote)

IsCall == todo # <<>> /\ Head(todo).op \notin {"stash", "retrieve"}

\* The next call of the transport succeeds, or raises what the task catches or not.
DoCall ==
    /\ IsCall
    /\ LET c == Head(todo)
           o == Performed(c)
           on_error == IF c.op = "copy" THEN c.on_error ELSE "raise"
           continue == todo' = Tail(todo) /\ UNCHANGED <<phase, attempt>>
       IN  CASE c.op = "mkdir_new" ->
                  /\ remote' = o.r
                  /\ todo' = (IF o.err = "no" THEN <<>> ELSE MoveToLostFound) \o Copies
                  /\ UNCHANGED <<folder, phase, attempt, mishap>>
             [] c.op # "mkdir_new" /\ (o.err = "no" \/ (on_error = "ignore" /\ o.err = "notfound")) ->
                  /\ remote' = o.r
                  /\ folder' = IF c.op = "get" THEN o.l ELSE folder
                  /\ continue
                  /\ UNCHANGED mishap
             [] o.err # "no" /\ on_error = "clean" ->
                  /\ remote' = Call(plugin, RmtreeCall(StashShard), folder, o.r).r
                  /\ mishap' = "cleaned"
                  /\ continue
                  /\ UNCHANGED folder
             [] OTHER ->
                  /\ remote' = o.r
                  /\ Raised
                  /\ UNCHANGED mishap
    /\ UNCHANGED <<plugin, stashList, faults>>

\* The connection is lost or the worker crashes in the middle of a call.
Interrupted ==
    /\ IsCall
    /\ remote' \in Partial(remote, Performed(Head(todo)).r)
    /\ Raised
    /\ faults' = faults + 1
    /\ mishap' = IF phase = "stash" /\ mishap = "none" THEN "interrupted" ELSE mishap
    /\ UNCHANGED <<plugin, stashList>>

\* stash_calculation and retrieve_files_from_list go on to the next entry.
NextEntry ==
    /\ todo # <<>> /\ Head(todo).op \in {"stash", "retrieve"}
    /\ LET e == Head(todo)
       IN  IF e.op = "stash"
           THEN todo' = StashCopies(e.src) \o Tail(todo) /\ folder' = folder
           ELSE todo' = RetrieveFiles(e.item) \o Tail(todo) /\ folder' = RetrieveFolders(e.item)
    /\ UNCHANGED <<plugin, stashList, remote, phase, attempt, faults, mishap>>

\* The scheduler runs the job in the working directory.
RunJob ==
    /\ phase = "run"
    /\ remote' = Overlay(remote, Workdir, Filled(Outputs, attempt))
    /\ stashList' \in StashLists
    /\ phase' = "stash" /\ todo' = StashTask(stashList')
    /\ UNCHANGED <<plugin, folder, attempt, faults, mishap>>

TaskDone ==
    /\ todo = <<>> /\ phase \in {"upload", "stash", "retrieve"}
    /\ phase' = CASE phase = "upload" -> "run" [] phase = "stash" -> "retrieve"
                  [] phase = "retrieve" -> "done"
    /\ todo' = Task(phase')
    /\ UNCHANGED <<plugin, stashList, remote, folder, attempt, faults, mishap>>

Next == DoCall \/ Interrupted \/ NextEntry \/ RunJob \/ TaskDone

Spec == Init /\ [][Next]_vars

-----------------------------------------------------------------------------

\* What the working directory should hold, from the lists alone.
At(fs, p, v) == Overlay(fs, Front(p), <<Last(p)>> :> v)
Expected ==
    LET local(fs, c) == IF c.file = <<>> THEN Overlay(fs, c.target, Filled(c.tree, attempt))
                        ELSE At(fs, c.target, attempt)
        copied(fs, c) == IF Exists(InitRemote, c.src) THEN At(fs, c.dst, InitRemote[c.src]) ELSE fs
        linked(fs, q) == At(fs, q, 1)
        part(fs, o) ==
            CASE o = "sandbox" -> Overlay(fs, <<>>, Filled(Sandbox, attempt))
              [] o = "local" -> FoldLeft(local, fs, LocalCopies)
              [] o = "remote" -> FoldLeft(linked, FoldLeft(copied, fs, RemoteCopies), Symlinks)
    IN  FoldLeft(part, <<>>, Order)

\* When upload_calculation returns, the working directory holds exactly what the
\* lists of the calculation ask for, all of it written by the last attempt, whatever
\* earlier attempts have left behind and whichever plugin was used.
UploadedExactly == phase = "run" => TreeAt(remote, Workdir) = Expected

\* Nothing of an existing working directory is removed unless lost+found has it.
KeptBeforeRemoved ==
    [][\A p \in Within(remote, Workdir) :
        IsFile(remote, p) /\ p \notin DOMAIN remote' =>
            \E q \in Within(remote, Target) :
                /\ IsSuffix(Relative(Workdir, p), q)
                /\ remote[q] = remote[p]]_vars

\* When no copy has failed, everything on the source list that exists is in the
\* stash, with the content it has in the working directory. When the task was
\* interrupted and repeated, this still holds for files; a directory is then copied
\* into the part of it that was there.
StashComplete ==
    phase \in {"retrieve", "done"} /\ mishap # "cleaned" =>
        \A s \in Range(stashList) : \A p \in Range(Glob(remote, Workdir \o s)) :
            \A q \in {p} \cup Within(remote, p) :
                LET to == StashDir \o Relative(Workdir, q)
                IN  mishap = "none" \/ IsFile(remote, p) =>
                        Exists(remote, to) /\ remote[to] = remote[q]

\* The retrieved folder holds exactly the files the retrieve list asks for, each in
\* the place its entry says.
RetrievedExactly ==
    LET get(fs, p, name) == IF IsFile(remote, p) THEN At(fs, name, remote[p])
                            ELSE Overlay(fs, name, TreeAt(remote, p))
        entry(fs, item) == FoldLeft(LAMBDA g, p : get(g, p, LocalName(item, p)), fs,
                                    Glob(remote, Workdir \o item.src))
    IN  phase = "done" => folder = FoldLeft(entry, <<>>, RetrieveList)

\* With the remote plugins no call of the engine fails by itself, however often the
\* tasks were interrupted before: only interruptions use the attempts up.
OnlyFaultsPause == phase = "paused" /\ plugin # "local" => faults = MaxAttempts

\* The same for every plugin: src/src/aiida/engine/daemon/execmanager.py:143 says
\* that an existing directory is moved away "before recreating the folder from
\* scratch".
RetriesWork == phase = "paused" => faults = MaxAttempts

\* The stash of another calculation is left alone (the docstring of
\* stash_calculation, src/src/aiida/engine/daemon/execmanager.py:428, calls the
\* target "a permanent remote folder").
StashIsPermanent ==
    \A p \in DOMAIN InitRemote : IsPrefix(StashShard, p) => p \in DOMAIN remote
=============================================================================
