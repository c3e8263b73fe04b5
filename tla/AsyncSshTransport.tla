-------------------------- MODULE AsyncSshTransport --------------------------
(***************************************************************************)
(* The plugin core.ssh_async, on asyncssh, with the same operators as      *)
(* LocalTransport. The server speaks version 3 of SFTP, as OpenSSH does.   *)
(***************************************************************************)
EXTENDS Files

\* In this version every failure of mkdir is taken for a directory that exists.
Mkdir(r, path, ignore_existing) ==
    IF ignore_existing /\ Exists(r, path) THEN Done(r) ELSE SysMkdir(r, path)

Makedirs(r, path, ignore_existing) == SysMakedirs(r, path, ignore_existing)

Rmdir(r, path) == SysRmdir(r, path)

RemoveFile(r, path) == SysRemove(r, path)

Rmtree(r, path) == IF IsDir(r, path) THEN Done(Delete(r, path)) ELSE OSError(r)

Rename(r, oldpath, newpath) ==
    IF Exists(r, newpath) THEN OSError(r) ELSE SysRename(r, oldpath, newpath)

Symlink(r, link, remotedestination) ==
    IF Exists(r, remotedestination) THEN OSError(r) ELSE WriteFile(r, link, remotedestination)

-----------------------------------------------------------------------------

PutFile(r, content, remotepath, overwrite) ==
    IF IsFile(r, remotepath) /\ ~ overwrite THEN OSError(r)
    ELSE WriteFile(r, content, remotepath)

\* Each entry is put into the directory that was made.
PutTree(r, tree, base, remotepath, overwrite) ==
    LET into == IsDir(r, remotepath)
        destination == IF into THEN remotepath \o base ELSE remotepath
        made == Makedirs(r, destination, into /\ overwrite)
    IN  IF (Exists(r, remotepath) /\ ~ overwrite) \/ IsFile(r, remotepath) THEN OSError(r)
        ELSE IF made.err # "no" THEN made ELSE Done(Overlay(made.fs, destination, tree))

Put(l, r, localpath, remotepath, overwrite, ignore_nonexisting) ==
    LET to_copy_list == Glob(l, localpath)
        one(fs, p) ==
            IF IsDir(l, Normal(p))
            THEN PutTree(fs, TreeAt(l, Normal(p)), BaseName(p), remotepath, overwrite)
            ELSE PutFile(fs, l[p], IF IsDir(fs, remotepath) THEN remotepath \o BaseName(p)
                                   ELSE remotepath, overwrite)
    IN  CASE Len(to_copy_list) > 1 /\ ~ IsDir(r, remotepath) -> OSError(r)
          [] to_copy_list = <<>> /\ ~ HasMagic(localpath) /\ ~ ignore_nonexisting -> OSError(r)
          [] OTHER -> ForEach(to_copy_list, one, r)

\* asyncssh writes into a directory that exists.
GetFile(l, content, name, localpath, overwrite) ==
    IF IsFile(l, localpath) /\ ~ overwrite THEN OSError(l)
    ELSE WriteInto(l, content, Last(name), localpath)

GetTree(l, tree, base, localpath, overwrite) ==
    LET into == IsDir(l, localpath)
        dest == IF into THEN localpath \o base ELSE localpath
        made == SysMakedirs(l, dest, ~ into \/ overwrite)
    IN  IF (Exists(l, localpath) /\ ~ overwrite) \/ IsFile(l, localpath) THEN OSError(l)
        ELSE IF made.err # "no" THEN made ELSE Done(Overlay(made.fs, dest, tree))

\* The single match of a pattern is written to localpath itself, also when that is
\* a directory.
Get(r, l, remotepath, localpath, overwrite, ignore_nonexisting) ==
    LET to_copy_list == Glob(r, remotepath)
        rename_local == Len(to_copy_list) > 1 \/ (~ HasMagic(remotepath) /\ IsDir(l, localpath))
        one(fs, p) ==
            IF IsDir(r, p) THEN GetTree(fs, TreeAt(r, p), BaseName(p), localpath, overwrite)
            ELSE GetFile(fs, r[p], BaseName(p), IF rename_local THEN localpath \o BaseName(p)
                                                ELSE localpath, overwrite)
    IN  CASE Len(to_copy_list) > 1 /\ ~ IsDir(l, localpath) -> OSError(l)
          [] to_copy_list = <<>> /\ ~ HasMagic(remotepath) /\ ~ ignore_nonexisting -> OSError(l)
          [] OTHER -> ForEach(to_copy_list, one, l)

-----------------------------------------------------------------------------

\* With a server that copies on its side, mcopy and copy of asyncssh; with cp
\* otherwise. Only mcopy takes a pattern without matches for a missing file.
Copy(supports_remote_copy, r, remotesource, remotedestination) ==
    LET to_copy_list == IF HasMagic(remotesource) THEN Glob(r, remotesource) ELSE <<remotesource>>
        one(fs, p) == Cp(fs, p, remotedestination)
    IN  CASE supports_remote_copy /\ to_copy_list = <<>> -> FileNotFoundError(r)
          [] Len(to_copy_list) > 1 /\ ~ IsDir(r, remotedestination) -> OSError(r)
          [] OTHER -> ForEach(to_copy_list, one, r)
=============================================================================
