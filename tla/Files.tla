-------------------------------- MODULE Files --------------------------------
(***************************************************************************)
(* File systems as the transports use them, and the library calls and      *)
(* commands the transports are built from (os, shutil, cp, rm and SFTP,    *)
(* all external to this repository).                                       *)
(*                                                                         *)
(* A file system is a function from the paths that exist, sequences of     *)
(* names below the root, to 0 for a directory or to the content of a file. *)
(* Symbolic links are contents like any other, permissions are left out.   *)
(***************************************************************************)
EXTENDS Naturals, Sequences, SequencesExt, Functions, TLC

Dir == 0

Exists(fs, p) == p = <<>> \/ p \in DOMAIN fs
IsDir(fs, p) == p = <<>> \/ (p \in DOMAIN fs /\ fs[p] = Dir)
IsFile(fs, p) == p \in DOMAIN fs /\ fs[p] # Dir

\* What an operation leaves behind, with the kind of exception it raises.
Outcome(err, fs) == [err |-> err, fs |-> fs]
Done(fs) == Outcome("no", fs)
OSError(fs) == Outcome("os", fs)
FileNotFoundError(fs) == Outcome("notfound", fs)

PathsTo(p) == {SubSeq(p, 1, n) : n \in 1..Len(p)}
Within(fs, p) == {q \in DOMAIN fs : IsStrictPrefix(p, q)}
Relative(p, q) == SubSeq(q, Len(p) + 1, Len(q))

\* The content of a directory, as a file system of its own.
TreeAt(fs, p) ==
    [r \in {Relative(p, q) : q \in Within(fs, p)} |-> fs[p \o r]]

Entries(fs, p) == {r \in DOMAIN TreeAt(fs, p) : Len(r) = 1}

Write(fs, p, v) == (p :> v) @@ fs
Delete(fs, p) == Restrict(fs, {q \in DOMAIN fs : ~ IsPrefix(p, q)})

\* tree laid over the directory p, which is created with all its parents.
Overlay(fs, p, tree) ==
    [q \in {p \o r : r \in DOMAIN tree} |-> tree[Relative(p, q)]]
        @@ [q \in PathsTo(p) |-> Dir] @@ fs

\* A path that ends in "." stands for one written with a trailing slash: it names
\* the same directory and has no last part.
Normal(p) == IF Last(p) = "." THEN Front(p) ELSE p
BaseName(p) == IF Last(p) = "." THEN <<>> ELSE <<Last(p)>>

NoFileOn(fs, p) == \A q \in PathsTo(p) : ~ IsFile(fs, q)

\* One operation after the other, until one of them raises.
ForEach(paths, Op(_, _), fs) ==
    FoldLeft(LAMBDA done, p : IF done.err = "no" THEN Op(done.fs, p) ELSE done, Done(fs), paths)

\* Patterns, a part "*" matching every name (transport.py, glob and iglob, and the
\* glob of the standard library). The order of the matches is arbitrary and fixed.
HasMagic(p) == "*" \in Range(p)
Glob(fs, p) ==
    IF ~ HasMagic(p) THEN IF Exists(fs, Normal(p)) THEN <<p>> ELSE <<>>
    ELSE SetToSeq({q \in DOMAIN fs : /\ Len(q) = Len(p)
                                     /\ \A i \in 1..Len(p) : p[i] \in {"*", q[i]}})

-----------------------------------------------------------------------------

\* os.mkdir and SFTP mkdir.
SysMkdir(fs, p) ==
    IF Exists(fs, p) \/ ~ IsDir(fs, Front(p)) THEN OSError(fs) ELSE Done(Write(fs, p, Dir))

\* os.rmdir, os.remove and os.rename, and what SFTP has for them.
SysRmdir(fs, p) ==
    IF p \notin DOMAIN fs \/ ~ IsDir(fs, p) \/ Within(fs, p) # {} THEN OSError(fs)
    ELSE Done(Delete(fs, p))
SysRemove(fs, p) == IF IsFile(fs, p) THEN Done(Delete(fs, p)) ELSE OSError(fs)
SysRename(fs, old, new) ==
    IF ~ Exists(fs, old) \/ ~ IsDir(fs, Front(new)) \/ IsPrefix(old, new) THEN OSError(fs)
    ELSE Done(Delete(IF IsFile(fs, old) THEN Write(fs, new, fs[old])
                     ELSE Overlay(fs, new, TreeAt(fs, old)), old))

\* os.makedirs and SFTPClient.makedirs.
SysMakedirs(fs, p, exist_ok) ==
    IF ~ NoFileOn(fs, p) \/ (Exists(fs, p) /\ ~ exist_ok) THEN OSError(fs)
    ELSE Done(Overlay(fs, p, <<>>))

\* shutil.copyfile, and put and get of paramiko.
WriteFile(fs, v, dst) ==
    IF ~ Exists(fs, Front(dst)) THEN FileNotFoundError(fs)
    ELSE IF IsDir(fs, dst) \/ ~ IsDir(fs, Front(dst)) THEN OSError(fs)
    ELSE Done(Write(fs, dst, v))

\* shutil.copy, and put, get and copy of asyncssh: into a directory that exists.
WriteInto(fs, v, name, dst) ==
    WriteFile(fs, v, IF IsDir(fs, dst) THEN Append(dst, name) ELSE dst)

\* shutil.copytree.
CopyTree(fs, tree, dst, dirs_exist_ok) ==
    LET made == SysMakedirs(fs, dst, dirs_exist_ok)
    IN  IF made.err # "no" THEN made ELSE Done(Overlay(fs, dst, tree))

\* cp -r -f, and the recursive copy of asyncssh: src goes into dst when that is a
\* directory, and takes its name otherwise.
Cp(fs, src, dst) ==
    LET to == IF IsDir(fs, dst) THEN Append(dst, Last(src)) ELSE dst
    IN  CASE ~ Exists(fs, src) \/ ~ Exists(fs, Front(to)) -> FileNotFoundError(fs)
          [] IsFile(fs, src) -> WriteFile(fs, fs[src], to)
          [] IsDir(fs, src) /\ (IsFile(fs, to) \/ IsFile(fs, Front(to))) -> OSError(fs)
          [] OTHER -> Done(Overlay(fs, to, TreeAt(fs, src)))

\* What is left of an operation that was interrupted: some of its changes, such
\* that every entry still is in a directory.
Partial(before, after) ==
    LET paths == DOMAIN before \cup DOMAIN after
        same(q) == /\ q \in DOMAIN before /\ q \in DOMAIN after
                   /\ before[q] = after[q]
        mix(S) == [q \in (DOMAIN before \ S) \cup (DOMAIN after \cap S) |->
                     IF q \in S THEN after[q] ELSE before[q]]
    IN  {fs \in {mix(S) : S \in SUBSET {q \in paths : ~ same(q)}} :
            \A q \in DOMAIN fs : IsDir(fs, Front(q))}
=============================================================================
