------------------------------ MODULE Transports ------------------------------
(***************************************************************************)
(* The transport plugins behind the one interface the engine uses. A call  *)
(* is a record with the operation and its arguments; its outcome has the   *)
(* exception and both file systems afterwards.                             *)
(***************************************************************************)
EXTENDS Files

Local == INSTANCE LocalTransport
Ssh == INSTANCE SshTransport
Async == INSTANCE AsyncSshTransport

\* "async_cp" is core.ssh_async with a server that does not copy by itself.
Plugins == {"local", "ssh", "async", "async_cp"}

LocalCall(c, l, r) ==
    CASE c.op = "mkdir" -> Local!Mkdir(r, c.dst, c.flag)
      [] c.op = "makedirs" -> Local!Makedirs(r, c.dst, c.flag)
      [] c.op = "rmdir" -> Local!Rmdir(r, c.dst)
      [] c.op = "remove" -> Local!RemoveFile(r, c.dst)
      [] c.op = "rmtree" -> Local!Rmtree(r, c.dst)
      [] c.op = "rename" -> Local!Rename(r, c.src, c.dst)
      [] c.op = "symlink" -> Local!Symlink(r, c.link, c.dst)
      [] c.op = "put" -> Local!Put(l, r, c.src, c.dst, c.flag, c.ignore)
      [] c.op = "get" -> Local!Get(r, l, c.src, c.dst, c.flag, c.ignore)
      [] c.op = "copy" -> Local!Copy(r, c.src, c.dst)

SshCall(c, l, r) ==
    CASE c.op = "mkdir" -> Ssh!Mkdir(r, c.dst, c.flag)
      [] c.op = "makedirs" -> Ssh!Makedirs(r, c.dst, c.flag)
      [] c.op = "rmdir" -> Ssh!Rmdir(r, c.dst)
      [] c.op = "remove" -> Ssh!RemoveFile(r, c.dst)
      [] c.op = "rmtree" -> Ssh!Rmtree(r, c.dst)
      [] c.op = "rename" -> Ssh!Rename(r, c.src, c.dst)
      [] c.op = "symlink" -> Ssh!Symlink(r, c.link, c.dst)
      [] c.op = "put" -> Ssh!Put(l, r, c.src, c.dst, c.flag, c.ignore)
      [] c.op = "get" -> Ssh!Get(r, l, c.src, c.dst, c.flag, c.ignore)
      [] c.op = "copy" -> Ssh!Copy(r, c.src, c.dst)

AsyncCall(remote_copy, c, l, r) ==
    CASE c.op = "mkdir" -> Async!Mkdir(r, c.dst, c.flag)
      [] c.op = "makedirs" -> Async!Makedirs(r, c.dst, c.flag)
      [] c.op = "rmdir" -> Async!Rmdir(r, c.dst)
      [] c.op = "remove" -> Async!RemoveFile(r, c.dst)
      [] c.op = "rmtree" -> Async!Rmtree(r, c.dst)
      [] c.op = "rename" -> Async!Rename(r, c.src, c.dst)
      [] c.op = "symlink" -> Async!Symlink(r, c.link, c.dst)
      [] c.op = "put" -> Async!Put(l, r, c.src, c.dst, c.flag, c.ignore)
      [] c.op = "get" -> Async!Get(r, l, c.src, c.dst, c.flag, c.ignore)
      [] c.op = "copy" -> Async!Copy(remote_copy, r, c.src, c.dst)

Call(plugin, c, l, r) ==
    LET o == CASE plugin = "local" -> LocalCall(c, l, r)
               [] plugin = "ssh" -> SshCall(c, l, r)
               [] OTHER -> AsyncCall(plugin = "async", c, l, r)
    IN  [err |-> o.err,
         l |-> IF c.op = "get" THEN o.fs ELSE l,
         r |-> IF c.op = "get" THEN r ELSE o.fs]
=============================================================================
