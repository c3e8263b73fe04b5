--------------------------- MODULE TransportReplicas ---------------------------
(***************************************************************************)
(* The same calls on every transport plugin, each with a local and a       *)
(* remote file system of its own. The plugins are written separately and   *)
(* the engine relies on their doing the same: the calls for which they are *)
(* known to differ are listed in Differ, every other call must leave all   *)
(* the replicas equal.                                                     *)
(*                                                                         *)
(* No tree is copied into itself. Names of files and names of directories  *)
(* are kept apart, so that a tree never meets a file where it has a        *)
(* directory.                                                              *)
(***************************************************************************)
EXTENDS Transports

CONSTANTS
    Trees,          \* the file systems at first, of either side
    MaxCalls,       \* the bound on the number of calls
    Calls,          \* the calls that are made
    DirNames,       \* the names of directories
    MaxDepth        \* the bound on the depth of paths

VARIABLES
    l, r,           \* the two file systems of each plugin
    calls,          \* the number of calls so far
    err             \* whether the last one raised, for each plugin

vars == <<l, r, calls, err>>

\* The side a call writes to and the one it reads from, as they are for all plugins.
Source(c) == IF c.op = "put" THEN l["local"] ELSE r["local"]
Target(c) == IF c.op = "get" THEN l["local"] ELSE r["local"]
Matches(c) == Range(Glob(Source(c), c.src))

\* Where the plugins do not agree, with the reason.
Differ(c) ==
    LET fs == Target(c)
        dirs == {p \in Matches(c) : IsDir(Source(c), Normal(p))}
        to(p) == IF IsDir(fs, c.dst) THEN c.dst \o BaseName(p) ELSE c.dst
    IN  \* rmtree of asyncssh fails for what is not a directory
        \/ c.op = "rmtree" /\ ~ IsDir(fs, c.dst)
        \* mkdir of asyncssh takes a file for the directory that is to be ignored
        \/ c.op = "mkdir" /\ c.flag /\ IsFile(fs, c.dst)
        \* shutil.move makes the parents of a directory
        \/ c.op = "rename" /\ dirs # {} /\ ~ Exists(fs, Front(c.dst))
        \* shutil.copytree makes parents and refuses a directory that exists
        \/ c.op = "copy" /\ \E p \in dirs : Exists(fs, to(p)) \/ ~ Exists(fs, Front(to(p)))
        \* mcopy of asyncssh wants at least one match
        \/ c.op = "copy" /\ HasMagic(c.src) /\ Matches(c) = {}
        \* get of a pattern with one match onto a directory: inside it for asyncssh only
        \/ c.op = "get" /\ HasMagic(c.src) /\ IsDir(fs, c.dst)
           /\ \E p \in Matches(c) : Matches(c) = {p} /\ IsFile(Source(c), p)
        \* gettree of core.ssh nests subdirectories that exist
        \/ c.op = "get" /\ \E p \in dirs : \E e \in Entries(Source(c), p) :
              IsDir(Source(c), p \o e) /\ IsDir(fs, to(p) \o e)

\* What is new keeps to the names: no file is called like a directory.
WellNamed(fs) ==
    \A p \in DOMAIN fs : Len(p) <= MaxDepth /\ (fs[p] = Dir <=> Last(p) \in DirNames)

Init ==
    /\ \E tl, tr \in Trees : l = [p \in Plugins |-> tl] /\ r = [p \in Plugins |-> tr]
    /\ calls = 0
    /\ err = [p \in Plugins |-> FALSE]

Do(c) ==
    /\ calls < MaxCalls /\ calls' = calls + 1
    /\ ~ Differ(c)
    /\ c.op \in {"copy", "rename"} => \A p \in Matches(c) : ~ IsPrefix(p, c.dst)
    /\ LET o == [p \in Plugins |-> Call(p, c, l[p], r[p])]
       IN  /\ \A p \in Plugins : WellNamed(o[p].l) /\ WellNamed(o[p].r)
           /\ l' = [p \in Plugins |-> o[p].l]
           /\ r' = [p \in Plugins |-> o[p].r]
           /\ err' = [p \in Plugins |-> o[p].err # "no"]

Next == \E c \in Calls : Do(c)

Spec == Init /\ [][Next]_vars

-----------------------------------------------------------------------------

\* Every plugin does the same with a call, whatever was done before: it succeeds or
\* fails, and leaves the same files.
PluginsAgree ==
    \A p, q \in Plugins : l[p] = l[q] /\ r[p] = r[q] /\ err[p] = err[q]
=============================================================================
