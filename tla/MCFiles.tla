------------------------------- MODULE MCFiles -------------------------------
(***************************************************************************)
(* The two models of the transports side by side: the engine moves the     *)
(* files of a job (JobFiles), or single calls are made on all the plugins  *)
(* (TransportReplicas). The first state decides which of the two goes on.  *)
(***************************************************************************)
EXTENDS JobFiles

CONSTANTS Trees, MaxCalls, Calls, DirNames, MaxDepth

VARIABLES side, localTrees, remoteTrees, calls, errors

replicas == <<localTrees, remoteTrees, calls, errors>>

R == INSTANCE TransportReplicas WITH l <- localTrees, r <- remoteTrees, err <- errors

FilesInit ==
    /\ side \in {"job", "calls"}
    /\ Init /\ R!Init
    /\ side = "job" => localTrees["local"] = <<>> /\ remoteTrees["local"] = <<>>
    /\ side = "calls" => plugin = "local"

Job == side = "job" /\ UNCHANGED <<side, replicas>>
Single == side = "calls" /\ UNCHANGED <<side, vars>>

FilesNext ==
    \/ Job /\ DoCall
    \/ Job /\ Interrupted
    \/ Job /\ NextEntry
    \/ Job /\ RunJob
    \/ Job /\ TaskDone
    \/ \E c \in Calls : Single /\ R!Do(c)

FilesSpec == FilesInit /\ [][FilesNext]_<<side, vars, replicas>>

\* Every plugin does the same with a call: see TransportReplicas.
PluginsAgree == R!PluginsAgree

-----------------------------------------------------------------------------
Tree(dirs, files) == [p \in dirs \cup files |-> IF p \in dirs THEN Dir ELSE 9]

MCInitRemote ==
    Tree({<<"p">>, <<"stash">>, StashShard, Append(StashShard, "other")},
         {<<"p", "r">>, StashShard \o <<"other", "o">>})
MCOrder == <<"sandbox", "local", "remote">>
MCSandbox == Tree({<<"d">>}, {<<"d", "f">>})
MCLocalCopies ==
    <<[name |-> "n", tree |-> Tree({}, {<<"g">>}), file |-> <<>>, target |-> <<"d">>],
      [name |-> "m", tree |-> Tree({}, {<<"h">>}), file |-> <<"h">>, target |-> <<"d", "h">>]>>
MCRemoteCopies ==
    <<[src |-> <<"p", "r">>, dst |-> <<"r">>], [src |-> <<"p", "none">>, dst |-> <<"n">>]>>
MCSymlinks == <<<<"l">>>>
MCOutputs == Tree({}, {<<"o">>})
MCStashLists == {<<<<"*">>>>, <<<<"o">>, <<"none">>>>}
MCRetrieveList ==
    <<[src |-> <<"d">>, local |-> <<>>, depth |-> 1],
      [src |-> <<"d", "*">>, local |-> <<"x">>, depth |-> -1],
      [src |-> <<"none">>, local |-> <<>>, depth |-> 1],
      [src |-> <<"o">>, local |-> <<"y">>, depth |-> 0]>>

Paths == {<<"d">>, <<"e">>, <<"f">>, <<"d", "f">>, <<"d", "e">>}
Deep == {<<"d">>, <<"d", "e">>, <<"d", "e", "f">>}
Nested == {<<"e">>, <<"e", "d">>, <<"e", "d", "e">>}
MCTrees ==
    {[p \in S |-> IF Last(p) \in DirNames THEN Dir ELSE Len(p)] :
        S \in {P \in SUBSET Paths : \A p \in P : Len(p) = 1 \/ Front(p) \in P}
                        \cup {Deep, Nested}}
Remote == {<<"d">>, <<"f">>, <<"d", "e">>, <<"e", "f">>, <<"e", "d">>}
Sources == {<<"f">>, <<"d">>, <<"*">>, <<"d", "*">>, <<"d", "e">>}
MCCalls ==
    [op : {"mkdir", "makedirs"}, dst : Remote, flag : BOOLEAN]
        \cup [op : {"rmdir", "remove", "rmtree"}, dst : Remote]
        \cup [op : {"rename", "copy"}, src : Remote, dst : Remote \cup {<<"e">>}]
        \cup [op : {"copy"}, src : {<<"d", "*">>}, dst : Remote \cup {<<"e">>}]
        \cup [op : {"symlink"}, link : {3}, dst : {<<"f">>, <<"e", "f">>}]
        \cup [op : {"put"}, src : Sources \cup {<<"d", ".">>}, dst : Remote, flag : BOOLEAN,
              ignore : BOOLEAN]
        \cup [op : {"get"}, src : Sources, dst : Remote \cup {<<"e">>}, flag : BOOLEAN,
              ignore : BOOLEAN]
=============================================================================
